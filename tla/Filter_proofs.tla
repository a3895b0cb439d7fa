----------------------------- MODULE Filter_proofs -----------------------------
(***************************************************************************)
(* For any tokens, addresses, bits and lengths of the lists.  A filter     *)
(* gathers the tokens that its family's parser reads: each of its parts    *)
(* holds what some token put there, apart from the types that a family's   *)
(* name cleared and the lists that are full.  From that it follows what a  *)
(* plain expression selects.                                               *)
(***************************************************************************)
EXTENDS Filter, TLAPS

(* The tokens of G that the parser of f reads.                              *)
Read(f, G, neg) == { t \in G : f \in t.reads /\ t.negate = neg }

Clash(f, G) == \E t, u \in Read(f, G, FALSE) : t.kind = "family" /\ u.kind = "type"

Awake(f, F, G) ==
  /\ F.active <=> \E t \in G : f \in t.reads
  /\ \A k \in ListKind : F.must_have[k] # << >> \/ F.may_not_have[k] # << >> => F.active

GathersMust(f, F, G) ==
  ~Clash(f, G) =>
    \A b \in Bit : b \in F.typeinfo_must_have <=>
      \E t \in Read(f, G, FALSE) : t.kind = "type" /\ b \in t.typeinfo[f]

GathersMayNot(f, F, G) ==
  \A b \in Bit : b \in F.typeinfo_may_not_have <=>
    \E t \in Read(f, G, TRUE) : t.kind = "family" \/ (t.kind = "type" /\ b \in t.typeinfo[f])

GathersMust2(f, F, G) ==
  f = "ipv6" => \A b \in Bit : b \in F.typeinfo2_must_have <=>
    \E t \in Read(f, G, FALSE) : t.kind = "type" /\ b \in t.typeinfo2

GathersMayNot2(f, F, G) ==
  f = "ipv6" => \A b \in Bit : b \in F.typeinfo2_may_not_have <=>
    \E t \in Read(f, G, TRUE) : t.kind = "type" /\ b \in t.typeinfo2

GathersEntries(f, F, G) ==
  \A k \in ListKind :
    /\ Len(F.must_have[k]) < Max[k] =>
         \A e \in Entry : e \in Range(F.must_have[k]) <=>
           \E t \in Read(f, G, FALSE) : t.kind = k /\ t.entry = e
    /\ Len(F.may_not_have[k]) < Max[k] =>
         \A e \in Entry : e \in Range(F.may_not_have[k]) <=>
           \E t \in Read(f, G, TRUE) : t.kind = k /\ t.entry = e

Gathers(f, F, G) ==
  /\ Awake(f, F, G)
  /\ GathersMust(f, F, G) /\ GathersMayNot(f, F, G)
  /\ GathersMust2(f, F, G) /\ GathersMayNot2(f, F, G)
  /\ GathersEntries(f, F, G)

(* While the program goes on, each filter has gathered the tokens given,    *)
(* and a line was printed if its filter lets it through.                    *)
Gathered ==
  /\ phase = "options" => line = NoLine
  /\ phase # "stopped" \/ line # NoLine => \A f \in Family : Gathers(f, filter[f], given)
  /\ line # NoLine =>
       (printed <=> line.family \in Family /\ Passes(filter[line.family], line))

IInv == TypeOK /\ Gathered

(* The lengths of a filter's lists.                                         *)
Fits(F) ==
  \A k \in ListKind : Len(F.must_have[k]) <= Max[k] /\ Len(F.may_not_have[k]) <= Max[k]

--------------------------------------------------------------------------------
(* Lists.                                                                   *)

LEMMA RangeOfAppend ==
  ASSUME NEW s \in Seq(Entry), NEW e \in Entry
  PROVE  Range(Append(s, e)) = Range(s) \cup {e}
<1>1. DOMAIN Append(s, e) = 1 .. (Len(s) + 1) /\ DOMAIN s = 1 .. Len(s)
  OBVIOUS
<1>2. \A i \in 1 .. Len(s) : Append(s, e)[i] = s[i]
  OBVIOUS
<1>3. Append(s, e)[Len(s) + 1] = e
  OBVIOUS
<1> QED
  BY <1>1, <1>2, <1>3 DEF Range

LEMMA RangeOfEmpty ==
  ASSUME NEW s \in Seq(Entry)
  PROVE  /\ Range(s) \subseteq Entry
         /\ s = << >> <=> Range(s) = {}
<1>1. DOMAIN s = 1 .. Len(s) /\ Len(s) \in Nat
  OBVIOUS
<1>2. CASE s = << >>
  BY <1>1, <1>2 DEF Range
<1>3. CASE s # << >>
  <2>1. 1 \in DOMAIN s
    BY <1>1, <1>3
  <2>2. s[1] \in Range(s)
    BY <2>1 DEF Range
  <2>3. Range(s) \subseteq Entry
    BY <1>1 DEF Range
  <2> QED
    BY <1>3, <2>2, <2>3
<1> QED
  BY <1>2, <1>3

--------------------------------------------------------------------------------
(* A parser that takes a token.                                             *)

LEMMA ParsedTyped ==
  ASSUME NEW f \in Family, NEW F \in FilterForm, NEW t \in Token, HasRoom(F, t), Fits(F)
  PROVE  Parsed(f, F, t) \in FilterForm /\ Fits(Parsed(f, F, t))
<1>0. t \in TokenForm
  BY TokenAssumption
<1>1. CASE t.kind = "family"
  BY <1>0, <1>1 DEF Parsed, WithFamily, FilterForm, Fits
<1>2. CASE t.kind = "type"
  <2>1. t.typeinfo[f] \subseteq Bit /\ t.typeinfo2 \subseteq Bit
    BY <1>0 DEF TokenForm
  <2> QED
    BY <1>2, <2>1 DEF Parsed, WithType, FilterForm, Fits
<1>3. CASE t.kind \in ListKind
  <2>1. t.entry \in Entry
    BY <1>0 DEF TokenForm
  <2>2. t.kind # "family" /\ t.kind # "type"
    BY <1>3 DEF ListKind, DbKind
  <2>3. /\ F.must_have \in [ListKind -> Seq(Entry)]
        /\ F.may_not_have \in [ListKind -> Seq(Entry)]
    BY DEF FilterForm
  <2>4. \A s \in Seq(Entry) : Append(s, t.entry) \in Seq(Entry) /\ Len(Append(s, t.entry)) = Len(s) + 1
    BY <2>1
  <2>5. Max[t.kind] \in Nat
    BY <1>3, MaxAssumption
  <2>6. CASE t.negate
    <3> DEFINE L == [ F.may_not_have EXCEPT ![t.kind] = Append(@, t.entry) ]
    <3>1. Parsed(f, F, t) = [ F EXCEPT !.active = TRUE, !.may_not_have = L ]
      BY <2>2, <2>6 DEF Parsed, WithEntry
    <3>2. Len(F.may_not_have[t.kind]) < Max[t.kind]
      BY <1>3, <2>6 DEF HasRoom
    <3>3. L \in [ListKind -> Seq(Entry)]
      BY <1>3, <2>3, <2>4
    <3>4. \A k \in ListKind : Len(L[k]) <= Max[k]
      BY <1>3, <2>3, <2>4, <2>5, <3>2 DEF Fits
    <3> HIDE DEF L
    <3> QED
      BY <3>1, <3>3, <3>4 DEF FilterForm, Fits
  <2>7. CASE ~t.negate
    <3> DEFINE L == [ F.must_have EXCEPT ![t.kind] = Append(@, t.entry) ]
    <3>1. Parsed(f, F, t) = [ F EXCEPT !.active = TRUE, !.must_have = L ]
      BY <2>2, <2>7 DEF Parsed, WithEntry
    <3>2. Len(F.must_have[t.kind]) < Max[t.kind]
      BY <1>3, <2>7 DEF HasRoom
    <3>3. L \in [ListKind -> Seq(Entry)]
      BY <1>3, <2>3, <2>4
    <3>4. \A k \in ListKind : Len(L[k]) <= Max[k]
      BY <1>3, <2>3, <2>4, <2>5, <3>2 DEF Fits
    <3> HIDE DEF L
    <3> QED
      BY <3>1, <3>3, <3>4 DEF FilterForm, Fits
  <2> QED
    BY <2>6, <2>7
<1> QED
  BY <1>0, <1>1, <1>2, <1>3 DEF TokenForm

(* What is read of one token more.                                          *)
LEMMA ReadOneMore ==
  ASSUME NEW f \in Family, NEW G \in SUBSET Token, NEW t \in Token, NEW neg \in BOOLEAN
  PROVE  /\ f \in t.reads /\ t.negate = neg => Read(f, G \cup {t}, neg) = Read(f, G, neg) \cup {t}
         /\ ~(f \in t.reads /\ t.negate = neg) => Read(f, G \cup {t}, neg) = Read(f, G, neg)
BY DEF Read

LEMMA ClashStays ==
  ASSUME NEW f, NEW G, NEW t, Clash(f, G)
  PROVE  Clash(f, G \cup {t})
BY DEF Clash, Read

LEMMA TokenTyped ==
  ASSUME NEW t \in Token
  PROVE  /\ t.kind \in {"family", "type"} \cup ListKind
         /\ t.negate = TRUE \/ t.negate = FALSE
         /\ t.reads \subseteq Family
         /\ t.typeinfo \in [Family -> SUBSET Bit] /\ t.typeinfo2 \subseteq Bit
         /\ t.entry \in Entry
BY TokenAssumption DEF TokenForm

LEMMA TakenAwake ==
  ASSUME NEW f \in Family, NEW F \in FilterForm, NEW t \in Token, NEW G \in SUBSET Token,
         f \in t.reads
  PROVE  Awake(f, Parsed(f, F, t), G \cup {t})
BY TokenTyped DEF Awake, Parsed, WithFamily, WithType, WithEntry, FilterForm

LEMMA TakenMust ==
  ASSUME NEW f \in Family, NEW F \in FilterForm, NEW t \in Token, NEW G \in SUBSET Token,
         f \in t.reads, GathersMust(f, F, G)
  PROVE  GathersMust(f, Parsed(f, F, t), G \cup {t})
<1>0. t.kind \in {"family", "type"} \cup ListKind /\ (t.negate = TRUE \/ t.negate = FALSE)
  BY TokenTyped
<1> SUFFICES ASSUME ~Clash(f, G \cup {t}), NEW b \in Bit
             PROVE  b \in Parsed(f, F, t).typeinfo_must_have <=>
                      \E u \in Read(f, G \cup {t}, FALSE) : u.kind = "type" /\ b \in u.typeinfo[f]
  BY DEF GathersMust
<1>1. b \in F.typeinfo_must_have <=>
        \E u \in Read(f, G, FALSE) : u.kind = "type" /\ b \in u.typeinfo[f]
  BY ClashStays DEF GathersMust
<1>2. CASE t.negate = TRUE
  <2>1. Read(f, G \cup {t}, FALSE) = Read(f, G, FALSE)
    BY <1>2, ReadOneMore
  <2>2. Parsed(f, F, t).typeinfo_must_have = F.typeinfo_must_have
    BY TokenTyped, <1>2 DEF Parsed, WithFamily, WithType, WithEntry, FilterForm, ListKind, DbKind
  <2> QED
    BY <1>1, <2>1, <2>2
<1>3. CASE t.negate = FALSE
  <2>1. Read(f, G \cup {t}, FALSE) = Read(f, G, FALSE) \cup {t}
    BY <1>0, <1>3, ReadOneMore, ZenonT(60)
  <2>2. CASE t.kind \in ListKind
    <3>1. t.kind # "type"
      BY <2>2 DEF ListKind, DbKind
    <3>2. Parsed(f, F, t).typeinfo_must_have = F.typeinfo_must_have
      BY TokenTyped, <1>3, <2>2 DEF Parsed, WithFamily, WithType, WithEntry, FilterForm, ListKind, DbKind
    <3> QED
      BY <1>1, <2>1, <3>1, <3>2
  <2>3. CASE t.kind = "type"
    <3>1. Parsed(f, F, t).typeinfo_must_have = F.typeinfo_must_have \cup t.typeinfo[f]
      BY TokenTyped, <1>3, <2>3 DEF Parsed, WithFamily, WithType, WithEntry, FilterForm, ListKind, DbKind
    <3> QED
      BY <1>1, <2>1, <2>3, <3>1
  <2>4. CASE t.kind = "family"
    <3>1. Parsed(f, F, t).typeinfo_must_have = {}
      BY TokenTyped, <1>3, <2>4 DEF Parsed, WithFamily, WithType, WithEntry, FilterForm, ListKind, DbKind
    <3>2. \A u \in Read(f, G \cup {t}, FALSE) : u.kind # "type"
      BY <2>1, <2>4 DEF Clash
    <3> QED
      BY <3>1, <3>2
  <2> QED
    BY <1>0, <2>2, <2>3, <2>4
<1> QED
  BY <1>0, <1>2, <1>3

LEMMA TakenMayNot ==
  ASSUME NEW f \in Family, NEW F \in FilterForm, NEW t \in Token, NEW G \in SUBSET Token,
         f \in t.reads, GathersMayNot(f, F, G)
  PROVE  GathersMayNot(f, Parsed(f, F, t), G \cup {t})
<1>0. t.kind \in {"family", "type"} \cup ListKind /\ (t.negate = TRUE \/ t.negate = FALSE)
  BY TokenTyped
<1> SUFFICES ASSUME NEW b \in Bit
             PROVE  b \in Parsed(f, F, t).typeinfo_may_not_have <=>
                      \E u \in Read(f, G \cup {t}, TRUE) :
                         u.kind = "family" \/ (u.kind = "type" /\ b \in u.typeinfo[f])
  BY DEF GathersMayNot
<1>1. b \in F.typeinfo_may_not_have <=>
        \E u \in Read(f, G, TRUE) : u.kind = "family" \/ (u.kind = "type" /\ b \in u.typeinfo[f])
  BY DEF GathersMayNot
<1>2. CASE t.negate = FALSE
  <2>1. Read(f, G \cup {t}, TRUE) = Read(f, G, TRUE)
    BY <1>2, ReadOneMore
  <2>2. Parsed(f, F, t).typeinfo_may_not_have = F.typeinfo_may_not_have
    BY TokenTyped, <1>2 DEF Parsed, WithFamily, WithType, WithEntry, FilterForm, ListKind, DbKind
  <2> QED
    BY <1>1, <2>1, <2>2
<1>3. CASE t.negate = TRUE
  <2>1. Read(f, G \cup {t}, TRUE) = Read(f, G, TRUE) \cup {t}
    BY <1>0, <1>3, ReadOneMore, ZenonT(60)
  <2>2. CASE t.kind \in ListKind
    <3>1. t.kind # "type" /\ t.kind # "family"
      BY <2>2 DEF ListKind, DbKind
    <3>2. Parsed(f, F, t).typeinfo_may_not_have = F.typeinfo_may_not_have
      BY TokenTyped, <1>3, <2>2 DEF Parsed, WithFamily, WithType, WithEntry, FilterForm, ListKind, DbKind
    <3> QED
      BY <1>1, <2>1, <3>1, <3>2
  <2>3. CASE t.kind = "type"
    <3>1. Parsed(f, F, t).typeinfo_may_not_have = F.typeinfo_may_not_have \cup t.typeinfo[f]
      BY TokenTyped, <1>3, <2>3 DEF Parsed, WithFamily, WithType, WithEntry, FilterForm, ListKind, DbKind
    <3> QED
      BY <1>1, <2>1, <2>3, <3>1
  <2>4. CASE t.kind = "family"
    <3>1. Parsed(f, F, t).typeinfo_may_not_have = Bit
      BY TokenTyped, <1>3, <2>4 DEF Parsed, WithFamily, WithType, WithEntry, FilterForm, ListKind, DbKind
    <3>2. t \in Read(f, G \cup {t}, TRUE)
      BY <2>1
    <3>3. b \in Parsed(f, F, t).typeinfo_may_not_have
      BY <3>1
    <3>4. \E u \in Read(f, G \cup {t}, TRUE) :
            u.kind = "family" \/ (u.kind = "type" /\ b \in u.typeinfo[f])
      BY <2>4, <3>2
    <3> QED
      BY <3>3, <3>4
  <2> QED
    BY <1>0, <2>2, <2>3, <2>4
<1> QED
  BY <1>0, <1>2, <1>3

LEMMA TakenTypes2 ==
  ASSUME NEW f \in Family, NEW F \in FilterForm, NEW t \in Token, NEW G \in SUBSET Token,
         f \in t.reads, GathersMust2(f, F, G), GathersMayNot2(f, F, G)
  PROVE  /\ GathersMust2(f, Parsed(f, F, t), G \cup {t})
         /\ GathersMayNot2(f, Parsed(f, F, t), G \cup {t})
<1>0. t.kind \in {"family", "type"} \cup ListKind /\ (t.negate = TRUE \/ t.negate = FALSE)
  BY TokenTyped
<1>1. GathersMust2(f, Parsed(f, F, t), G \cup {t})
  <2>1. CASE t.negate = TRUE
    <3>1. Read(f, G \cup {t}, FALSE) = Read(f, G, FALSE)
      BY <2>1, ReadOneMore
    <3>2. Parsed(f, F, t).typeinfo2_must_have = F.typeinfo2_must_have
      BY TokenTyped, <2>1 DEF Parsed, WithFamily, WithType, WithEntry, FilterForm, ListKind, DbKind
    <3> QED
      BY <3>1, <3>2 DEF GathersMust2
  <2>2. CASE t.negate = FALSE
    <3>1. Read(f, G \cup {t}, FALSE) = Read(f, G, FALSE) \cup {t}
      BY <1>0, <2>2, ReadOneMore, ZenonT(60)
    <3>2. CASE t.kind = "type" /\ f = "ipv6"
      <4>1. Parsed(f, F, t).typeinfo2_must_have = F.typeinfo2_must_have \cup t.typeinfo2
        BY TokenTyped, <2>2, <3>2 DEF Parsed, WithFamily, WithType, WithEntry, FilterForm, ListKind, DbKind
      <4> QED
        BY <3>1, <3>2, <4>1 DEF GathersMust2
    <3>3. CASE ~(t.kind = "type" /\ f = "ipv6")
      <4>1. Parsed(f, F, t).typeinfo2_must_have = F.typeinfo2_must_have
        BY TokenTyped, <2>2, <3>3 DEF Parsed, WithFamily, WithType, WithEntry, FilterForm, ListKind, DbKind
      <4> QED
        BY <3>1, <3>3, <4>1 DEF GathersMust2
    <3> QED
      BY <3>2, <3>3
  <2> QED
    BY <1>0, <2>1, <2>2
<1>2. GathersMayNot2(f, Parsed(f, F, t), G \cup {t})
  <2>1. CASE t.negate = FALSE
    <3>1. Read(f, G \cup {t}, TRUE) = Read(f, G, TRUE)
      BY <2>1, ReadOneMore
    <3>2. Parsed(f, F, t).typeinfo2_may_not_have = F.typeinfo2_may_not_have
      BY TokenTyped, <2>1 DEF Parsed, WithFamily, WithType, WithEntry, FilterForm, ListKind, DbKind
    <3> QED
      BY <3>1, <3>2 DEF GathersMayNot2
  <2>2. CASE t.negate = TRUE
    <3>1. Read(f, G \cup {t}, TRUE) = Read(f, G, TRUE) \cup {t}
      BY <1>0, <2>2, ReadOneMore, ZenonT(60)
    <3>2. CASE t.kind = "type" /\ f = "ipv6"
      <4>1. Parsed(f, F, t).typeinfo2_may_not_have = F.typeinfo2_may_not_have \cup t.typeinfo2
        BY TokenTyped, <2>2, <3>2 DEF Parsed, WithFamily, WithType, WithEntry, FilterForm, ListKind, DbKind
      <4> QED
        BY <3>1, <3>2, <4>1 DEF GathersMayNot2
    <3>3. CASE ~(t.kind = "type" /\ f = "ipv6")
      <4>1. Parsed(f, F, t).typeinfo2_may_not_have = F.typeinfo2_may_not_have
        BY TokenTyped, <2>2, <3>3 DEF Parsed, WithFamily, WithType, WithEntry, FilterForm, ListKind, DbKind
      <4> QED
        BY <3>1, <3>3, <4>1 DEF GathersMayNot2
    <3> QED
      BY <3>2, <3>3
  <2> QED
    BY <1>0, <2>1, <2>2
<1> QED
  BY <1>1, <1>2

LEMMA TakenEntries ==
  ASSUME NEW f \in Family, NEW F \in FilterForm, NEW t \in Token, NEW G \in SUBSET Token,
         f \in t.reads, GathersEntries(f, F, G)
  PROVE  GathersEntries(f, Parsed(f, F, t), G \cup {t})
<1> DEFINE H == Parsed(f, F, t)
<1>0. t.negate = TRUE \/ t.negate = FALSE
  BY TokenTyped
<1>1. /\ F.must_have \in [ListKind -> Seq(Entry)] /\ F.may_not_have \in [ListKind -> Seq(Entry)]
  BY DEF FilterForm
<1>2. ASSUME NEW k \in ListKind
      PROVE  Len(H.must_have[k]) < Max[k] =>
               \A e \in Entry : e \in Range(H.must_have[k]) <=>
                 \E u \in Read(f, G \cup {t}, FALSE) : u.kind = k /\ u.entry = e
  <2>1. Len(F.must_have[k]) < Max[k] =>
          \A e \in Entry : e \in Range(F.must_have[k]) <=>
            \E u \in Read(f, G, FALSE) : u.kind = k /\ u.entry = e
    BY <1>2 DEF GathersEntries
  <2>2. CASE t.negate = FALSE /\ t.kind = k
    <3>1. H.must_have[k] = Append(F.must_have[k], t.entry)
      <4>1. t.kind \in ListKind
        BY <1>2, <2>2
      <4>2. H.must_have = [ F.must_have EXCEPT ![t.kind] = Append(@, t.entry) ]
        BY TokenTyped, <2>2, <4>1 DEF Parsed, WithFamily, WithType, WithEntry, FilterForm, ListKind, DbKind
      <4> QED
        BY <1>1, <1>2, <2>2, <4>2
    <3>2. Read(f, G \cup {t}, FALSE) = Read(f, G, FALSE) \cup {t}
      BY <1>0, <2>2, ReadOneMore, ZenonT(60)
    <3>3. F.must_have[k] \in Seq(Entry) /\ Max[k] \in Nat
      BY <1>1, <1>2, MaxAssumption
    <3>4. Len(H.must_have[k]) = Len(F.must_have[k]) + 1 /\ Len(F.must_have[k]) \in Nat
      BY <3>1, <3>3, TokenTyped
    <3>5. Range(H.must_have[k]) = Range(F.must_have[k]) \cup {t.entry}
      BY <3>1, <3>3, TokenTyped, RangeOfAppend
    <3>6. Len(H.must_have[k]) < Max[k] => Len(F.must_have[k]) < Max[k]
      BY <3>3, <3>4
    <3>7. \A e : (\E u \in Read(f, G \cup {t}, FALSE) : u.kind = k /\ u.entry = e) <=>
                 (\E u \in Read(f, G, FALSE) : u.kind = k /\ u.entry = e) \/ t.entry = e
      BY <2>2, <3>2
    <3> QED
      BY <2>1, <3>5, <3>6, <3>7
  <2>3. CASE ~(t.negate = FALSE /\ t.kind = k)
    <3>1. H.must_have[k] = F.must_have[k]
      <4>1. CASE t.negate # FALSE
        <5>1. H.must_have = F.must_have
          BY TokenTyped, <1>0, <4>1 DEF Parsed, WithFamily, WithType, WithEntry, FilterForm, ListKind, DbKind
        <5> QED
          BY <5>1
      <4>2. CASE t.negate = FALSE /\ t.kind \in ListKind
        <5>1. H.must_have = [ F.must_have EXCEPT ![t.kind] = Append(@, t.entry) ]
          BY TokenTyped, <4>2 DEF Parsed, WithFamily, WithType, WithEntry, FilterForm, ListKind, DbKind
        <5> QED
          BY <1>1, <1>2, <2>3, <4>2, <5>1
      <4>3. CASE t.negate = FALSE /\ t.kind \notin ListKind
        <5>1. H.must_have = F.must_have
          BY TokenTyped, <4>3 DEF Parsed, WithFamily, WithType, WithEntry, FilterForm, ListKind, DbKind
        <5> QED
          BY <5>1
      <4> QED
        BY <4>1, <4>2, <4>3
    <3>2. CASE t.negate = TRUE
      <4>1. Read(f, G \cup {t}, FALSE) = Read(f, G, FALSE)
        BY <3>2, ReadOneMore
      <4> QED
        BY <2>1, <3>1, <4>1
    <3>3. CASE t.negate = FALSE
      <4>1. Read(f, G \cup {t}, FALSE) = Read(f, G, FALSE) \cup {t}
        BY <1>0, <3>3, ReadOneMore, ZenonT(60)
      <4> QED
        BY <2>1, <2>3, <3>1, <3>3, <4>1
    <3> QED
      BY <1>0, <3>2, <3>3
  <2> QED
    BY <2>2, <2>3
<1>3. ASSUME NEW k \in ListKind
      PROVE  Len(H.may_not_have[k]) < Max[k] =>
               \A e \in Entry : e \in Range(H.may_not_have[k]) <=>
                 \E u \in Read(f, G \cup {t}, TRUE) : u.kind = k /\ u.entry = e
  <2>1. Len(F.may_not_have[k]) < Max[k] =>
          \A e \in Entry : e \in Range(F.may_not_have[k]) <=>
            \E u \in Read(f, G, TRUE) : u.kind = k /\ u.entry = e
    BY <1>3 DEF GathersEntries
  <2>2. CASE t.negate = TRUE /\ t.kind = k
    <3>1. H.may_not_have[k] = Append(F.may_not_have[k], t.entry)
      <4>1. t.kind \in ListKind
        BY <1>3, <2>2
      <4>2. H.may_not_have = [ F.may_not_have EXCEPT ![t.kind] = Append(@, t.entry) ]
        BY TokenTyped, <2>2, <4>1 DEF Parsed, WithFamily, WithType, WithEntry, FilterForm, ListKind, DbKind
      <4> QED
        BY <1>1, <1>3, <2>2, <4>2
    <3>2. Read(f, G \cup {t}, TRUE) = Read(f, G, TRUE) \cup {t}
      BY <1>0, <2>2, ReadOneMore, ZenonT(60)
    <3>3. F.may_not_have[k] \in Seq(Entry) /\ Max[k] \in Nat
      BY <1>1, <1>3, MaxAssumption
    <3>4. Len(H.may_not_have[k]) = Len(F.may_not_have[k]) + 1 /\ Len(F.may_not_have[k]) \in Nat
      BY <3>1, <3>3, TokenTyped
    <3>5. Range(H.may_not_have[k]) = Range(F.may_not_have[k]) \cup {t.entry}
      BY <3>1, <3>3, TokenTyped, RangeOfAppend
    <3>6. Len(H.may_not_have[k]) < Max[k] => Len(F.may_not_have[k]) < Max[k]
      BY <3>3, <3>4
    <3>7. \A e : (\E u \in Read(f, G \cup {t}, TRUE) : u.kind = k /\ u.entry = e) <=>
                 (\E u \in Read(f, G, TRUE) : u.kind = k /\ u.entry = e) \/ t.entry = e
      BY <2>2, <3>2
    <3> QED
      BY <2>1, <3>5, <3>6, <3>7
  <2>3. CASE ~(t.negate = TRUE /\ t.kind = k)
    <3>1. H.may_not_have[k] = F.may_not_have[k]
      <4>1. CASE t.negate # TRUE
        <5>1. H.may_not_have = F.may_not_have
          BY TokenTyped, <1>0, <4>1 DEF Parsed, WithFamily, WithType, WithEntry, FilterForm, ListKind, DbKind
        <5> QED
          BY <5>1
      <4>2. CASE t.negate = TRUE /\ t.kind \in ListKind
        <5>1. H.may_not_have = [ F.may_not_have EXCEPT ![t.kind] = Append(@, t.entry) ]
          BY TokenTyped, <4>2 DEF Parsed, WithFamily, WithType, WithEntry, FilterForm, ListKind, DbKind
        <5> QED
          BY <1>1, <1>3, <2>3, <4>2, <5>1
      <4>3. CASE t.negate = TRUE /\ t.kind \notin ListKind
        <5>1. H.may_not_have = F.may_not_have
          BY TokenTyped, <4>3 DEF Parsed, WithFamily, WithType, WithEntry, FilterForm, ListKind, DbKind
        <5> QED
          BY <5>1
      <4> QED
        BY <4>1, <4>2, <4>3
    <3>2. CASE t.negate = FALSE
      <4>1. Read(f, G \cup {t}, TRUE) = Read(f, G, TRUE)
        BY <3>2, ReadOneMore
      <4> QED
        BY <2>1, <3>1, <4>1
    <3>3. CASE t.negate = TRUE
      <4>1. Read(f, G \cup {t}, TRUE) = Read(f, G, TRUE) \cup {t}
        BY <1>0, <3>3, ReadOneMore, ZenonT(60)
      <4> QED
        BY <2>1, <2>3, <3>1, <3>3, <4>1
    <3> QED
      BY <1>0, <3>2, <3>3
  <2> QED
    BY <2>2, <2>3
<1> HIDE DEF H
<1>4. GathersEntries(f, H, G \cup {t})
  BY <1>2, <1>3 DEF GathersEntries
<1> QED
  BY <1>4 DEF H

LEMMA TakenGathers ==
  ASSUME NEW f \in Family, NEW F \in FilterForm, NEW t \in Token, NEW G \in SUBSET Token,
         f \in t.reads, Gathers(f, F, G)
  PROVE  Gathers(f, Parsed(f, F, t), G \cup {t})
BY TakenAwake, TakenMust, TakenMayNot, TakenTypes2, TakenEntries DEF Gathers

(* A token that the parser does not read.                                   *)
LEMMA OtherGathers ==
  ASSUME NEW f \in Family, NEW F \in FilterForm, NEW t \in Token, NEW G \in SUBSET Token,
         f \notin t.reads, Gathers(f, F, G)
  PROVE  Gathers(f, F, G \cup {t})
<1>1. Read(f, G \cup {t}, FALSE) = Read(f, G, FALSE) /\ Read(f, G \cup {t}, TRUE) = Read(f, G, TRUE)
  BY DEF Read
<1>2. (\E u \in G \cup {t} : f \in u.reads) <=> \E u \in G : f \in u.reads
  OBVIOUS
<1>3. Clash(f, G \cup {t}) <=> Clash(f, G)
  BY <1>1 DEF Clash
<1>4. Awake(f, F, G \cup {t})
  BY <1>2 DEF Gathers, Awake
<1>5. GathersMust(f, F, G \cup {t})
  BY <1>1, <1>3 DEF Gathers, GathersMust
<1>6. GathersMayNot(f, F, G \cup {t})
  BY <1>1 DEF Gathers, GathersMayNot
<1>7. GathersMust2(f, F, G \cup {t}) /\ GathersMayNot2(f, F, G \cup {t})
  BY <1>1 DEF Gathers, GathersMust2, GathersMayNot2
<1>8. GathersEntries(f, F, G \cup {t})
  <2>1. GathersEntries(f, F, G)
    BY DEF Gathers
  <2>2. ASSUME NEW k \in ListKind, Len(F.must_have[k]) < Max[k]
        PROVE  \A e \in Entry : e \in Range(F.must_have[k]) <=>
                 \E u \in Read(f, G \cup {t}, FALSE) : u.kind = k /\ u.entry = e
    <3>1. \A e \in Entry : e \in Range(F.must_have[k]) <=>
            \E u \in Read(f, G, FALSE) : u.kind = k /\ u.entry = e
      BY <2>1, <2>2 DEF GathersEntries
    <3> QED
      BY <1>1, <3>1
  <2>3. ASSUME NEW k \in ListKind, Len(F.may_not_have[k]) < Max[k]
        PROVE  \A e \in Entry : e \in Range(F.may_not_have[k]) <=>
                 \E u \in Read(f, G \cup {t}, TRUE) : u.kind = k /\ u.entry = e
    <3>1. \A e \in Entry : e \in Range(F.may_not_have[k]) <=>
            \E u \in Read(f, G, TRUE) : u.kind = k /\ u.entry = e
      BY <2>1, <2>3 DEF GathersEntries
    <3> QED
      BY <1>1, <3>1
  <2> QED
    BY <2>2, <2>3 DEF GathersEntries
<1> QED
  BY <1>4, <1>5, <1>6, <1>7, <1>8 DEF Gathers

(* A token that the parser reads and has no room for.                       *)
LEMMA LeftGathers ==
  ASSUME NEW f \in Family, NEW F \in FilterForm, NEW t \in Token, NEW G \in SUBSET Token,
         f \in t.reads, ~HasRoom(F, t), Fits(F), Gathers(f, F, G)
  PROVE  Gathers(f, F, G \cup {t})
<1>0. t.kind \in ListKind /\ t.kind # "family" /\ t.kind # "type"
  BY DEF HasRoom, ListKind, DbKind
<1>1. /\ F.must_have \in [ListKind -> Seq(Entry)] /\ F.may_not_have \in [ListKind -> Seq(Entry)]
      /\ Max[t.kind] \in Nat \ {0}
  BY <1>0, MaxAssumption DEF FilterForm
<1>2. \/ t.negate = FALSE /\ ~(Len(F.must_have[t.kind]) < Max[t.kind])
      \/ t.negate = TRUE /\ ~(Len(F.may_not_have[t.kind]) < Max[t.kind])
  BY TokenTyped DEF HasRoom
<1>3. Awake(f, F, G \cup {t})
  <2>1. Len(<< >>) = 0
    OBVIOUS
  <2>2. F.must_have[t.kind] # << >> \/ F.may_not_have[t.kind] # << >>
    BY <1>1, <1>2, <2>1
  <2> QED
    BY <1>0, <2>2 DEF Gathers, Awake
<1>4. \A neg \in BOOLEAN : \A u \in Read(f, G \cup {t}, neg) :
        u \in Read(f, G, neg) \/ (u = t /\ t.negate = neg)
  BY DEF Read
<1>5. Read(f, G, FALSE) \subseteq Read(f, G \cup {t}, FALSE) /\ Read(f, G, TRUE) \subseteq Read(f, G \cup {t}, TRUE)
  BY DEF Read
<1>6. GathersMust(f, F, G \cup {t})
  BY <1>0, <1>4, <1>5, ClashStays DEF Gathers, GathersMust
<1>7. GathersMayNot(f, F, G \cup {t})
  BY <1>0, <1>4, <1>5 DEF Gathers, GathersMayNot
<1>8. GathersMust2(f, F, G \cup {t}) /\ GathersMayNot2(f, F, G \cup {t})
  BY <1>0, <1>4, <1>5 DEF Gathers, GathersMust2, GathersMayNot2
<1>9. GathersEntries(f, F, G \cup {t})
  <2> SUFFICES ASSUME NEW k \in ListKind
               PROVE  /\ Len(F.must_have[k]) < Max[k] =>
                           \A e \in Entry : e \in Range(F.must_have[k]) <=>
                             \E u \in Read(f, G \cup {t}, FALSE) : u.kind = k /\ u.entry = e
                      /\ Len(F.may_not_have[k]) < Max[k] =>
                           \A e \in Entry : e \in Range(F.may_not_have[k]) <=>
                             \E u \in Read(f, G \cup {t}, TRUE) : u.kind = k /\ u.entry = e
    BY DEF GathersEntries
  <2>1. ASSUME Len(F.must_have[k]) < Max[k]
        PROVE  \A e \in Entry : e \in Range(F.must_have[k]) <=>
                 \E u \in Read(f, G \cup {t}, FALSE) : u.kind = k /\ u.entry = e
    <3>1. ~(t.negate = FALSE /\ t.kind = k)
      BY <1>2, <2>1
    <3>2. \A e : (\E u \in Read(f, G \cup {t}, FALSE) : u.kind = k /\ u.entry = e) <=>
                  \E u \in Read(f, G, FALSE) : u.kind = k /\ u.entry = e
      BY <1>4, <1>5, <3>1
    <3>3. \A e \in Entry : e \in Range(F.must_have[k]) <=>
            \E u \in Read(f, G, FALSE) : u.kind = k /\ u.entry = e
      BY <2>1 DEF Gathers, GathersEntries
    <3> QED
      BY <2>1, <3>2, <3>3
  <2>2. ASSUME Len(F.may_not_have[k]) < Max[k]
        PROVE  \A e \in Entry : e \in Range(F.may_not_have[k]) <=>
                 \E u \in Read(f, G \cup {t}, TRUE) : u.kind = k /\ u.entry = e
    <3>1. ~(t.negate = TRUE /\ t.kind = k)
      BY <1>2, <2>2
    <3>2. \A e : (\E u \in Read(f, G \cup {t}, TRUE) : u.kind = k /\ u.entry = e) <=>
                  \E u \in Read(f, G, TRUE) : u.kind = k /\ u.entry = e
      BY <1>4, <1>5, <3>1
    <3>3. \A e \in Entry : e \in Range(F.may_not_have[k]) <=>
            \E u \in Read(f, G, TRUE) : u.kind = k /\ u.entry = e
      BY <2>2 DEF Gathers, GathersEntries
    <3> QED
      BY <2>2, <3>2, <3>3
  <2> QED
    BY <2>1, <2>2
<1> QED
  BY <1>3, <1>6, <1>7, <1>8, <1>9 DEF Gathers

--------------------------------------------------------------------------------
(* The actions.                                                             *)

LEMMA InitIInv == Init => IInv
<1> SUFFICES ASSUME Init PROVE IInv
  OBVIOUS
<1>1. Clear \in FilterForm /\ Fits(Clear)
  BY MaxAssumption DEF Clear, FilterForm, Fits
<1>2. TypeOK
  BY <1>1 DEF Init, TypeOK, Fits
<1>3. Range(<< >>) = {}
  BY << >> \in Seq(Entry), RangeOfEmpty
<1>4. \A f \in Family : Gathers(f, Clear, {})
  BY <1>3 DEF Gathers, Awake, GathersMust, GathersMayNot, GathersMust2, GathersMayNot2,
              GathersEntries, Read, Clear
<1> QED
  BY <1>2, <1>4 DEF Init, IInv, Gathered

LEMMA ParseIInv ==
  ASSUME IInv, NEW t \in Token, FilterParse(t)
  PROVE  IInv'
<1>1. ASSUME NEW f \in Family
      PROVE  filter'[f] \in FilterForm /\ Fits(filter'[f])
  BY <1>1, ParsedTyped DEF IInv, TypeOK, FilterParse, Found, Fits
<1>2. TypeOK'
  <2>1. filter' \in [Family -> FilterForm]
    BY <1>1 DEF FilterParse
  <2> QED
    BY <1>1, <2>1 DEF IInv, TypeOK, FilterParse, Fits
<1>3. ASSUME NEW f \in Family
      PROVE  Gathers(f, filter'[f], given')
  <2>1. /\ Gathers(f, filter[f], given) /\ filter[f] \in FilterForm /\ Fits(filter[f])
        /\ given \in SUBSET Token /\ given' = given \cup {t}
    BY <1>3 DEF IInv, TypeOK, Gathered, FilterParse, Fits
  <2>2. CASE f \notin t.reads
    BY <2>1, <2>2, OtherGathers DEF FilterParse, Found
  <2>3. CASE f \in t.reads /\ HasRoom(filter[f], t)
    BY <2>1, <2>3, TakenGathers DEF FilterParse, Found
  <2>4. CASE f \in t.reads /\ ~HasRoom(filter[f], t)
    BY <2>1, <2>4, LeftGathers DEF FilterParse, Found
  <2> QED
    BY <2>2, <2>3, <2>4
<1>4. Gathered'
  BY <1>3 DEF IInv, Gathered, FilterParse
<1> QED
  BY <1>2, <1>4 DEF IInv

LEMMA StepIInv == IInv /\ [Next]_vars => IInv'
<1> SUFFICES ASSUME IInv, [Next]_vars PROVE IInv'
  OBVIOUS
<1>1. ASSUME NEW t \in Token, FilterParse(t) PROVE IInv'
  BY <1>1, ParseIInv
<1>2. CASE FilterCheck
  BY <1>2 DEF FilterCheck, IInv, TypeOK, Gathered
<1>3. ASSUME NEW a \in Address, FilterLine(a) PROVE IInv'
  <2>1. a # NoLine
    BY <1>3, AddressAssumption
  <2>2. TypeOK'
    BY <1>3, <2>1 DEF FilterLine, IInv, TypeOK
  <2>3. Gathered'
    BY <1>3, <2>1 DEF FilterLine, IInv, Gathered
  <2> QED
    BY <2>2, <2>3 DEF IInv
<1>4. CASE EndOfInput
  BY <1>4 DEF EndOfInput, IInv, TypeOK, Gathered
<1>5. CASE UNCHANGED vars
  BY <1>5 DEF vars, IInv, TypeOK, Gathered
<1> QED
  BY <1>1, <1>2, <1>3, <1>4, <1>5 DEF Next

(* No list of a filter grows beyond its array, for any tokens.              *)
THEOREM TypeCorrect == Spec => []TypeOK
<1>1. IInv => TypeOK
  BY DEF IInv
<1> QED
  BY InitIInv, StepIInv, <1>1, PTL DEF Spec

--------------------------------------------------------------------------------
(* What a filter that has gathered a plain expression lets through.         *)

(* Each test of an address with the entry of a token is what the token says.*)
LEMMA TestsAgree ==
  ASSUME NEW n \in Nat, NEW e \in Entry
  PROVE  /\ ~MustFails(n, e) <=> MayNotHits(n, e)
         /\ MayNotHits(n, e) <=>
              CASE e.test = "prefix" -> e.low <= n /\ n <= e.high
                [] e.test = "le" -> n <= e.low
                [] e.test = "lt" -> n < e.low
                [] e.test = "ge" -> n >= e.low
                [] e.test = "gt" -> n > e.low
<1>1. e.low \in Nat /\ e.high \in Nat
  BY DEF Entry
<1>2. CASE e.test = "prefix"
  BY <1>1, <1>2 DEF MustFails, MayNotHits, Compare
<1>3. CASE e.test = "le"
  BY <1>1, <1>3 DEF MustFails, MayNotHits, Compare
<1>4. CASE e.test = "lt"
  BY <1>1, <1>4 DEF MustFails, MayNotHits, Compare
<1>5. CASE e.test = "ge"
  BY <1>1, <1>5 DEF MustFails, MayNotHits, Compare
<1>6. CASE e.test = "gt"
  BY <1>1, <1>6 DEF MustFails, MayNotHits, Compare
<1> QED
  BY <1>2, <1>3, <1>4, <1>5, <1>6 DEF Entry, Test

LEMMA HoldsByKind ==
  ASSUME NEW t \in Token, NEW a \in Address
  PROVE  /\ t.kind = "family" => Holds(t, a) = TRUE
         /\ t.kind = "type" => (Holds(t, a) <=>
              t.typeinfo[a.family] \subseteq a.typeinfo
              /\ (a.family = "ipv6" => t.typeinfo2 \subseteq a.typeinfo2))
         /\ t.kind \in DbKind => (Holds(t, a) <=> a.number[t.kind] = t.entry.low)
         /\ t.kind = "addr" => (Holds(t, a) <=> MayNotHits(a.number["addr"], t.entry))
<1>1. CASE t.kind = "family"
  BY <1>1 DEF Holds, DbKind
<1>2. CASE t.kind = "type"
  BY <1>2 DEF Holds, DbKind
<1>3. CASE t.kind \in DbKind
  BY <1>3 DEF Holds, DbKind
<1>4. CASE t.kind = "addr"
  <2>1. a.number["addr"] \in Nat
    BY AddressAssumption DEF AddressForm, ListKind
  <2> QED
    BY <1>4, <2>1, TokenTyped, TestsAgree DEF Holds, DbKind
<1> QED
  BY <1>1, <1>2, <1>3, <1>4, TokenTyped DEF ListKind

LEMMA TypesAgree ==
  ASSUME NEW a \in Address, a.family \in Family, NEW F \in FilterForm, NEW G \in SUBSET Token,
         Gathers(a.family, F, G), ~Clash(a.family, G),
         \A t \in Read(a.family, G, TRUE) :
           t.kind = "type" => /\ a.family = "ipv6" => t.typeinfo2 = {}
                              /\ \E b \in Bit : t.typeinfo[a.family] = {b}
  PROVE  TypePasses(F, a) /\ Type2Passes(F, a) <=>
           /\ \A t \in Read(a.family, G, TRUE) : t.kind \in {"family", "type"} => ~Holds(t, a)
           /\ \A t \in Read(a.family, G, FALSE) : t.kind = "type" => Holds(t, a)
<1> DEFINE f == a.family
           pos == \A t \in Read(f, G, FALSE) : t.kind = "type" => t.typeinfo[f] \subseteq a.typeinfo
           pos2 == f = "ipv6" => \A t \in Read(f, G, FALSE) :
                                   t.kind = "type" => t.typeinfo2 \subseteq a.typeinfo2
           neg == \A t \in Read(f, G, TRUE) :
                    /\ t.kind # "family"
                    /\ t.kind = "type" => t.typeinfo[f] \cap a.typeinfo = {}
<1>0. /\ a.typeinfo \subseteq Bit /\ a.typeinfo # {} /\ a.typeinfo2 \subseteq Bit
      /\ F.typeinfo_must_have \subseteq Bit /\ F.typeinfo_may_not_have \subseteq Bit
      /\ F.typeinfo2_must_have \subseteq Bit /\ F.typeinfo2_may_not_have \subseteq Bit
  BY AddressAssumption DEF AddressForm, FilterForm
<1>a. \A v \in BOOLEAN : Read(f, G, v) \subseteq Token
  BY DEF Read
<1>1. F.typeinfo_must_have \subseteq a.typeinfo <=> pos
  <2>1. \A b \in Bit : b \in F.typeinfo_must_have <=>
          \E t \in Read(f, G, FALSE) : t.kind = "type" /\ b \in t.typeinfo[f]
    BY DEF Gathers, GathersMust
  <2>2. \A t \in Read(f, G, FALSE) : t.typeinfo[f] \subseteq Bit
    BY <1>a, TokenTyped
  <2> QED
    BY <1>0, <2>1, <2>2
<1>2. (f = "ipv6" => F.typeinfo2_must_have \subseteq a.typeinfo2) <=> pos2
  <2>1. f = "ipv6" => \A b \in Bit : b \in F.typeinfo2_must_have <=>
          \E t \in Read(f, G, FALSE) : t.kind = "type" /\ b \in t.typeinfo2
    BY DEF Gathers, GathersMust2
  <2>2. \A t \in Read(f, G, FALSE) : t.typeinfo2 \subseteq Bit
    BY <1>a, TokenTyped
  <2> QED
    BY <1>0, <2>1, <2>2
<1>3. F.typeinfo_may_not_have \cap a.typeinfo = {} <=> neg
  <2>1. \A b \in Bit : b \in F.typeinfo_may_not_have <=>
          \E t \in Read(f, G, TRUE) :
             t.kind = "family" \/ (t.kind = "type" /\ b \in t.typeinfo[f])
    BY DEF Gathers, GathersMayNot
  <2>2. \A t \in Read(f, G, TRUE) : t.typeinfo[f] \subseteq Bit
    BY <1>a, TokenTyped
  <2>3. PICK b \in Bit : b \in a.typeinfo
    BY <1>0
  <2> QED
    BY <1>0, <2>1, <2>2, <2>3
<1>4. f = "ipv6" => F.typeinfo2_may_not_have = {}
  <2>1. f = "ipv6" => \A b \in Bit : b \in F.typeinfo2_may_not_have <=>
          \E t \in Read(f, G, TRUE) : t.kind = "type" /\ b \in t.typeinfo2
    BY DEF Gathers, GathersMayNot2
  <2> QED
    BY <1>0, <2>1
<1>5. neg <=> \A t \in Read(f, G, TRUE) : t.kind \in {"family", "type"} => ~Holds(t, a)
  <2>1. ASSUME NEW t \in Read(f, G, TRUE), t.kind = "type"
        PROVE  t.typeinfo[f] \cap a.typeinfo = {} <=> ~Holds(t, a)
    <3>1. PICK b \in Bit : t.typeinfo[f] = {b}
      BY <2>1
    <3>2. f = "ipv6" => t.typeinfo2 = {}
      BY <2>1
    <3>3. Holds(t, a) <=> t.typeinfo[f] \subseteq a.typeinfo
                          /\ (f = "ipv6" => t.typeinfo2 \subseteq a.typeinfo2)
      BY <1>a, <2>1, HoldsByKind
    <3> QED
      BY <2>1, <3>1, <3>2, <3>3
  <2>2. ASSUME NEW t \in Read(f, G, TRUE), t.kind = "family"
        PROVE  Holds(t, a)
    BY <1>a, <2>2, HoldsByKind
  <2> QED
    BY <2>1, <2>2
<1>6. pos /\ pos2 <=> \A t \in Read(f, G, FALSE) : t.kind = "type" => Holds(t, a)
  BY <1>a, HoldsByKind
<1> QED
  BY <1>1, <1>2, <1>3, <1>4, <1>5, <1>6 DEF TypePasses, Type2Passes

(* The entries of the list s are those of the tokens in R of kind k.        *)
EntriesOf(s, R, k) ==
  /\ \A e \in Range(s) : \E t \in R : t.kind = k /\ t.entry = e
  /\ \A t \in R : t.kind = k => t.entry \in Range(s)

LEMMA EntriesOfTokens ==
  ASSUME NEW f \in Family, NEW F \in FilterForm, NEW G \in SUBSET Token, Gathers(f, F, G),
         NEW k \in ListKind, Len(F.must_have[k]) < Max[k], Len(F.may_not_have[k]) < Max[k]
  PROVE  /\ EntriesOf(F.must_have[k], Read(f, G, FALSE), k)
         /\ EntriesOf(F.may_not_have[k], Read(f, G, TRUE), k)
<1>1. Range(F.must_have[k]) \subseteq Entry /\ Range(F.may_not_have[k]) \subseteq Entry
  <2>1. F.must_have[k] \in Seq(Entry) /\ F.may_not_have[k] \in Seq(Entry)
    BY DEF FilterForm
  <2> QED
    BY <2>1, RangeOfEmpty
<1>2. \A v \in BOOLEAN : \A t \in Read(f, G, v) : t.entry \in Entry
  BY TokenTyped DEF Read
<1>3. \A e \in Entry : e \in Range(F.must_have[k]) <=>
        \E t \in Read(f, G, FALSE) : t.kind = k /\ t.entry = e
  BY DEF Gathers, GathersEntries
<1>4. \A e \in Entry : e \in Range(F.may_not_have[k]) <=>
        \E t \in Read(f, G, TRUE) : t.kind = k /\ t.entry = e
  BY DEF Gathers, GathersEntries
<1> QED
  BY <1>1, <1>2, <1>3, <1>4 DEF EntriesOf

LEMMA AddressesAgree ==
  ASSUME NEW a \in Address, NEW f \in Family, NEW F \in FilterForm, NEW G \in SUBSET Token,
         Gathers(f, F, G),
         Len(F.must_have["addr"]) < Max["addr"], Len(F.may_not_have["addr"]) < Max["addr"]
  PROVE  AddrPasses(F, a.number["addr"]) <=>
           /\ \A t \in Read(f, G, FALSE) : t.kind = "addr" => Holds(t, a)
           /\ \A t \in Read(f, G, TRUE) : t.kind = "addr" => ~Holds(t, a)
<1> DEFINE n == a.number["addr"]
<1>1. "addr" \in ListKind /\ n \in Nat
  BY AddressAssumption DEF AddressForm, ListKind
<1>2. \A v \in BOOLEAN : \A t \in Read(f, G, v) :
        t.kind = "addr" => /\ Holds(t, a) <=> MayNotHits(n, t.entry)
                           /\ Holds(t, a) <=> ~MustFails(n, t.entry)
  <2> SUFFICES ASSUME NEW t \in Token, t.kind = "addr"
               PROVE  /\ Holds(t, a) <=> MayNotHits(n, t.entry)
                      /\ Holds(t, a) <=> ~MustFails(n, t.entry)
    BY DEF Read
  <2>1. Holds(t, a) <=> MayNotHits(n, t.entry)
    BY HoldsByKind
  <2>2. ~MustFails(n, t.entry) <=> MayNotHits(n, t.entry)
    BY <1>1, TokenTyped, TestsAgree
  <2> QED
    BY <2>1, <2>2
<1>e. /\ EntriesOf(F.must_have["addr"], Read(f, G, FALSE), "addr")
      /\ EntriesOf(F.may_not_have["addr"], Read(f, G, TRUE), "addr")
  BY <1>1, EntriesOfTokens
<1>3. (\A e \in Range(F.must_have["addr"]) : ~MustFails(n, e)) <=>
        \A t \in Read(f, G, FALSE) : t.kind = "addr" => Holds(t, a)
  BY <1>2, <1>e DEF EntriesOf
<1>4. (\A e \in Range(F.may_not_have["addr"]) : ~MayNotHits(n, e)) <=>
        \A t \in Read(f, G, TRUE) : t.kind = "addr" => ~Holds(t, a)
  BY <1>2, <1>e DEF EntriesOf
<1> QED
  BY <1>3, <1>4 DEF AddrPasses

(* What the tokens of kind k in G say of an address.                        *)
DbMeant(f, G, k, a) ==
  /\ \A t \in Read(f, G, FALSE) : t.kind = k =>
       \E u \in Read(f, G, FALSE) : u.kind = k /\ Holds(u, a)
  /\ \A t \in Read(f, G, TRUE) : t.kind = k => ~Holds(t, a)

LEMMA DatabasesAgree ==
  ASSUME NEW a \in Address, NEW f \in Family, NEW F \in FilterForm, NEW G \in SUBSET Token,
         Gathers(f, F, G), NEW k \in DbKind,
         Len(F.must_have[k]) < Max[k], Len(F.may_not_have[k]) < Max[k]
  PROVE  DbPasses(F, k, a.number[k]) <=> DbMeant(f, G, k, a)
<1>1. k \in ListKind
  BY DEF ListKind
<1>2. \A v \in BOOLEAN : \A t \in Read(f, G, v) :
        t.kind = k => (Holds(t, a) <=> a.number[k] = t.entry.low)
  BY HoldsByKind DEF Read
<1>e. EntriesOf(F.must_have[k], Read(f, G, FALSE), k) /\ EntriesOf(F.may_not_have[k], Read(f, G, TRUE), k)
  BY <1>1, EntriesOfTokens
<1>3. F.must_have[k] # << >> <=> \E t \in Read(f, G, FALSE) : t.kind = k
  <2>1. F.must_have[k] \in Seq(Entry)
    BY <1>1 DEF FilterForm
  <2> QED
    BY <1>e, <2>1, RangeOfEmpty, ZenonT(60) DEF EntriesOf
<1>4. (\E e \in Range(F.must_have[k]) : a.number[k] = e.low) <=>
        \E t \in Read(f, G, FALSE) : t.kind = k /\ Holds(t, a)
  <2>1. \A t \in Read(f, G, FALSE) : t.kind = k => (Holds(t, a) <=> a.number[k] = t.entry.low)
    BY <1>2
  <2>2. ASSUME NEW e \in Range(F.must_have[k]), a.number[k] = e.low
        PROVE  \E t \in Read(f, G, FALSE) : t.kind = k /\ Holds(t, a)
    <3>1. PICK t \in Read(f, G, FALSE) : t.kind = k /\ t.entry = e
      BY <1>e, <2>2 DEF EntriesOf
    <3> QED
      BY <2>1, <2>2, <3>1
  <2>3. ASSUME NEW t \in Read(f, G, FALSE), t.kind = k, Holds(t, a)
        PROVE  \E e \in Range(F.must_have[k]) : a.number[k] = e.low
    BY <1>e, <2>1, <2>3 DEF EntriesOf
  <2> QED
    BY <2>2, <2>3
<1>5. (\A e \in Range(F.may_not_have[k]) : a.number[k] # e.low) <=>
        \A t \in Read(f, G, TRUE) : t.kind = k => ~Holds(t, a)
  <2>1. \A t \in Read(f, G, TRUE) : t.kind = k => (Holds(t, a) <=> a.number[k] = t.entry.low)
    BY <1>2
  <2>2. ASSUME NEW e \in Range(F.may_not_have[k]), a.number[k] = e.low
        PROVE  \E t \in Read(f, G, TRUE) : t.kind = k /\ Holds(t, a)
    <3>1. PICK t \in Read(f, G, TRUE) : t.kind = k /\ t.entry = e
      BY <1>e, <2>2 DEF EntriesOf
    <3> QED
      BY <2>1, <2>2, <3>1
  <2>3. ASSUME NEW t \in Read(f, G, TRUE), t.kind = k, Holds(t, a)
        PROVE  \E e \in Range(F.may_not_have[k]) : a.number[k] = e.low
    BY <1>e, <2>1, <2>3 DEF EntriesOf
  <2> QED
    BY <2>2, <2>3
<1> QED
  BY <1>3, <1>4, <1>5 DEF DbPasses, DbMeant

(* Passes and Meant, for one plain filter.                                  *)
LEMMA PassesAsMeant ==
  ASSUME IInv, NEW a \in Address, a.family \in Family, Plain(a.family),
         Gathers(a.family, filter[a.family], given)
  PROVE  Passes(filter[a.family], a) <=> Meant(a)
<1> DEFINE f == a.family
           F == filter[f]
           pos(K) == \A t \in Read(f, given, FALSE) : t.kind \in K => Holds(t, a)
           neg(K) == \A t \in Read(f, given, TRUE) : t.kind \in K => ~Holds(t, a)
           one(k) == \A t \in Read(f, given, FALSE) : t.kind = k =>
                       \E u \in Read(f, given, FALSE) : u.kind = k /\ Holds(u, a)
<1>1. F \in FilterForm /\ given \in SUBSET Token
  BY DEF IInv, TypeOK
<1>2. For(f, FALSE) = Read(f, given, FALSE) /\ For(f, TRUE) = Read(f, given, TRUE)
  BY DEF For, Read
<1>3. /\ ~Clash(f, given)
      /\ \A t \in Read(f, given, TRUE) :
           t.kind = "type" => /\ f = "ipv6" => t.typeinfo2 = {}
                              /\ \E b \in Bit : t.typeinfo[f] = {b}
      /\ \A k \in ListKind : Len(F.must_have[k]) < Max[k] /\ Len(F.may_not_have[k]) < Max[k]
  BY <1>2 DEF Plain, Clash
<1>4. F.active <=> \E t \in given : f \in t.reads
  BY DEF Gathers, Awake
<1>5. TypePasses(F, a) /\ Type2Passes(F, a) <=> neg({"family", "type"}) /\ pos({"type"})
  BY <1>1, <1>3, TypesAgree
<1>6. AddrPasses(F, a.number["addr"]) <=> pos({"addr"}) /\ neg({"addr"})
  BY <1>1, <1>3, AddressesAgree, ZenonT(60) DEF ListKind
<1>7. (\A k \in DbKind : DbPasses(F, k, a.number[k])) <=> \A k \in DbKind : one(k) /\ neg({k})
  <2>1. ASSUME NEW k \in DbKind
        PROVE  DbPasses(F, k, a.number[k]) <=> one(k) /\ neg({k})
    <3>1. Len(F.must_have[k]) < Max[k] /\ Len(F.may_not_have[k]) < Max[k]
      BY <1>3, <2>1 DEF ListKind
    <3>2. DbPasses(F, k, a.number[k]) <=> DbMeant(f, given, k, a)
      BY <1>1, <2>1, <3>1, DatabasesAgree
    <3> QED
      BY <3>2 DEF DbMeant
  <2> QED
    BY <2>1
<1>8. \A t \in given : t.kind \in {"family", "type", "addr"} \cup DbKind
  BY <1>1, TokenTyped DEF ListKind
<1>9. (\A t \in For(f, TRUE) : ~Holds(t, a)) <=>
        neg({"family", "type"}) /\ neg({"addr"}) /\ \A k \in DbKind : neg({k})
  BY <1>2, <1>8 DEF Read
<1>10. (\A t \in For(f, FALSE) :
          IF t.kind \in DbKind THEN \E u \in For(f, FALSE) : u.kind = t.kind /\ Holds(u, a)
                               ELSE Holds(t, a)) <=>
         pos({"type"}) /\ pos({"addr"}) /\ \A k \in DbKind : one(k)
  <2>1. \A t \in Read(f, given, FALSE) : t.kind = "family" => Holds(t, a)
    BY <1>1, HoldsByKind DEF Read
  <2>2. "type" \notin DbKind /\ "addr" \notin DbKind /\ "family" \notin DbKind
    BY DEF DbKind
  <2>3. \A t \in Read(f, given, FALSE) : t.kind \in {"family", "type", "addr"} \cup DbKind
    BY <1>8 DEF Read
  <2> QED
    BY <1>2, <2>1, <2>2, <2>3
<1> QED
  BY <1>4, <1>5, <1>6, <1>7, <1>9, <1>10 DEF Passes, Meant

(* Whatever the tokens of a plain expression, their order and how often     *)
(* they are given, exactly the lines they mean are printed.                 *)
THEOREM SelectsCorrect == Spec => []SelectsAsMeant
<1>1. IInv => SelectsAsMeant
  <2> SUFFICES ASSUME IInv, line # NoLine PROVE
        IF line.family \in Family THEN Plain(line.family) => (printed <=> Meant(line))
                                  ELSE ~printed
    BY DEF SelectsAsMeant
  <2>1. line \in Address
    BY DEF IInv, TypeOK
  <2>2. printed <=> line.family \in Family /\ Passes(filter[line.family], line)
    BY DEF IInv, Gathered
  <2>3. CASE line.family \notin Family
    BY <2>2, <2>3
  <2>4. CASE line.family \in Family
    <3>1. Gathers(line.family, filter[line.family], given)
      BY <2>4 DEF IInv, Gathered
    <3> QED
      BY <2>1, <2>2, <2>4, <3>1, PassesAsMeant
  <2> QED
    BY <2>3, <2>4
<1> QED
  BY InitIInv, StepIInv, <1>1, PTL DEF Spec

================================================================================
