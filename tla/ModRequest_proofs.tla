--------------------------- MODULE ModRequest_proofs ---------------------------
(***************************************************************************)
(* Proofs about ModRequest, for any servers, configurations, addresses,    *)
(* database contents and cache size.                                       *)
(***************************************************************************)
EXTENDS ModRequest, RingCache_proofs, Sequences

LEMMA ConfTyped ==
  ASSUME TypeOK
  PROVE  /\ conf \in [Vhost -> Config]
         /\ conf[Main].enabled
BY ConfigurationsAssumption DEF TypeOK

LEMMA PeerTyped ==
  ASSUME TypeOK, NEW r \in Request
  PROVE  Peer(r) \in Client
BY DEF Peer, Request

LEMMA ServedTyped ==
  ASSUME TypeOK, NEW r \in Request, Served(r)
  PROVE  /\ r.vhost \in Vhost
         /\ ProtoOf(Peer(r)) \in Proto
         /\ Token(Peer(r)) \in Addr
<1>1. Peer(r) \in Client /\ Peer(r).family # "other"
  BY PeerTyped DEF Served
<1>2. \/ Peer(r).family = "inet" /\ Peer(r).addr \in Addr4
      \/ Peer(r).family = "inet6" /\ Peer(r).addr \in Addr6
  BY <1>1 DEF Client
<1>3. r.vhost \in Vhost
  BY DEF Request
<1> HIDE DEF Client
<1> QED
  BY <1>2, <1>3, AddressAssumption, NoAddrAssumption DEF ProtoOf, Token, IsMapped, Proto, Addr

(* Whatever the hook stores is a text.                                      *)
LEMMA DatumTyped ==
  ASSUME NEW c \in Config, NEW f \in Action, NEW a \in Addr
  PROVE  Datum(c, f, a) \in Text
<1>1. Subject(a) \in Addr
  BY AddressAssumption, NoAddrAssumption DEF Subject, HoldsIPv4, Addr
<1>2. CASE f = "IP_ANON"
  <2>1. c.anon_set \in Anon
    BY DEF Config
  <2>2. AnonText[c.anon_set] \in [Addr -> Text]
    BY <2>1, TextAssumption
  <2> QED
    BY <1>2, <2>2 DEF Datum
<1>3. CASE f \in Retrieved /\ f # "IP_ANON"
  <2>1. Db[Subject(a)] \in [Retrieved -> Text]
    BY <1>1, TextAssumption
  <2> QED
    BY <1>3, <2>1, TextAssumption DEF Datum
<1> QED
  BY <1>2, <1>3 DEF Action

--------------------------------------------------------------------------------
(* Every variable holds a value of its kind, whatever the servers' limits   *)
(* and actions are.                                                         *)
LEMMA ConstantFunction ==
  ASSUME NEW S, NEW T, NEW t \in T
  PROVE  [ s \in S |-> t ] \in [S -> T]
OBVIOUS

LEMMA EmptyTyped ==
  /\ Zero \in [Proto -> Nat]
  /\ NoStatistics \in [Proto -> [0 .. (Size - 1) -> Nat]]
  /\ NoTokens \in [Proto -> [1 .. Size -> Addr \cup {NoAddr}]]
  /\ NoValues \in [Proto -> [1 .. Size -> [Action -> Text]]]
<1>1. Zero \in [Proto -> Nat]
  BY DEF Zero
<1>2. NoStatistics \in [Proto -> [0 .. (Size - 1) -> Nat]]
  BY DEF NoStatistics
<1>3. NoTokens \in [Proto -> [1 .. Size -> Addr \cup {NoAddr}]]
  BY DEF NoTokens
<1>4. NoValues \in [Proto -> [1 .. Size -> [Action -> Text]]]
  <2>1. [ f \in Action |-> "" ] \in [Action -> Text]
    BY TextAssumption
  <2> DEFINE row == [ f \in Action |-> "" ]
             rows == [ i \in 1 .. Size |-> row ]
  <2>2. rows \in [1 .. Size -> [Action -> Text]]
    BY <2>1, ConstantFunction
  <2>3. [ p \in Proto |-> rows ] \in [Proto -> [1 .. Size -> [Action -> Text]]]
    BY <2>2, ConstantFunction
  <2> QED
    BY <2>3 DEF NoValues
<1> QED
  BY <1>1, <1>2, <1>3, <1>4

LEMMA TypeInit == Init => TypeOK
<1> SUFFICES ASSUME Init PROVE TypeOK
  OBVIOUS
<1>1. /\ response.kind = "none" /\ response.vhost \in Vhost
      /\ response.peer \in Client
  BY MainAssumption DEF Init, NoResponse, NoPeer, Client
<1> QED
  BY <1>1, EmptyTyped DEF Init, TypeOK

LEMMA AnswerTyped ==
  ASSUME TypeOK, NEW r \in Request, NEW peer \in {Peer(r), NoPeer}, NEW env,
         NEW kind \in {"disabled", "passive", "unsupported", "hit", "served"},
         Answer(r, kind, peer, env)
  PROVE  /\ response'.kind \in {"none", "disabled", "passive", "unsupported", "hit", "served"}
         /\ response'.vhost \in Vhost /\ response'.peer \in Client
<1>1. r.vhost \in Vhost
  BY DEF Request
<1> QED
  BY <1>1, PeerTyped DEF Answer, NoPeer, Client

LEMMA CountedTyped ==
  ASSUME NEW S, NEW T, NEW f \in [S -> [T -> Nat]], NEW p, NEW d
  PROVE  [ f EXCEPT ![p][d] = @ + 1 ] \in [S -> [T -> Nat]]
<1>1. CASE p \in S /\ d \in T
  BY <1>1
<1>2. CASE ~(p \in S /\ d \in T)
  BY <1>2
<1> QED
  BY <1>1, <1>2

LEMMA CountTyped ==
  ASSUME TypeOK, NEW p, CountLookup(p)
  PROVE  lri_checked' \in [Proto -> Nat]
<1>1. CASE p \in Proto
  BY <1>1 DEF CountLookup, TypeOK
<1>2. CASE p \notin Proto
  BY <1>2 DEF CountLookup, TypeOK
<1> QED
  BY <1>1, <1>2

LEMMA TypeStep == TypeOK /\ [Next]_vars => TypeOK'
<1> SUFFICES ASSUME TypeOK, [Next]_vars PROVE TypeOK'
  OBVIOUS
<1>1. ASSUME NEW r \in Request, Disabled(r) PROVE TypeOK'
  BY <1>1, AnswerTyped DEF Disabled, TypeOK, cacheVars
<1>2. ASSUME NEW r \in Request, Passive(r) PROVE TypeOK'
  BY <1>2, AnswerTyped DEF Passive, TypeOK, cacheVars
<1>3. ASSUME NEW r \in Request, UnsupportedFamily(r) PROVE TypeOK'
  BY <1>3, AnswerTyped DEF UnsupportedFamily, TypeOK, cacheVars
<1>4. ASSUME NEW r \in Request, CacheHit(r) PROVE TypeOK'
  <2> DEFINE p == ProtoOf(Peer(r))
             d == Nearest(Found(r))
  <2>1. lri_checked' \in [Proto -> Nat]
    <3>1. CountLookup(p)
      BY <1>4 DEF CacheHit
    <3> QED
      BY <3>1, CountTyped
  <2>2. lri_statistics' \in [Proto -> [0 .. (Size - 1) -> Nat]]
    <3>1. lri_statistics' = [ lri_statistics EXCEPT ![p][d] = @ + 1 ]
      BY <1>4 DEF CacheHit
    <3> HIDE DEF p, d
    <3> QED
      BY <3>1, CountedTyped DEF TypeOK
  <2>3. Answer(r, "hit", Peer(r), HitEnv(r.vhost, Peer(r), SlotAt(lri_max[p], lri_last[p], d)))
    BY <1>4 DEF CacheHit
  <2> QED
    BY <1>4, <2>1, <2>2, <2>3, AnswerTyped DEF CacheHit, TypeOK
<1>5. ASSUME NEW r \in Request, CacheMiss(r) PROVE TypeOK'
  <2> DEFINE p     == ProtoOf(Peer(r))
             limit == conf[r.vhost].cache_limit
             slot  == NextLast(lri_max[p], lri_last[p], limit)
  <2>1. p \in Proto /\ Token(Peer(r)) \in Addr /\ r.vhost \in Vhost
    BY <1>5, ServedTyped DEF CacheMiss, Caching
  <2>2. limit \in 1 .. Size
    BY <2>1, ConfTyped DEF Config
  <2>3. lri_checked' \in [Proto -> Nat]
    <3>1. CountLookup(p)
      BY <1>5 DEF CacheMiss
    <3> QED
      BY <3>1, CountTyped
  <2>5. lri_max' \in [Proto -> Nat] /\ lri_last' \in [Proto -> Nat]
    <3>1. NextMax(lri_max[p], limit) \in Nat /\ slot \in Nat
      BY <2>1, <2>2, SizeAssumption DEF NextMax, NextLast, TypeOK
    <3> QED
      BY <1>5, <3>1 DEF CacheMiss, TypeOK
  <2>6. lri_token' \in [Proto -> [1 .. Size -> Addr \cup {NoAddr}]]
    <3>1. lri_token' = [ lri_token EXCEPT ![p][slot] = Token(Peer(r)) ]
      BY <1>5 DEF CacheMiss
    <3> HIDE DEF p, slot
    <3> QED
      BY <2>1, <3>1 DEF TypeOK
  <2>7. lri_value' \in [Proto -> [1 .. Size -> [Action -> Text]]]
    <3>1. ASSUME NEW old \in [Action -> Text]
          PROVE  Stored(r.vhost, Peer(r), old) \in [Action -> Text]
      BY <2>1, ConfTyped, DatumTyped DEF Stored
    <3>2. lri_value' = [ lri_value EXCEPT ![p][slot] = Stored(r.vhost, Peer(r), @) ]
      BY <1>5 DEF CacheMiss
    <3> HIDE DEF p, slot
    <3> QED
      BY <2>1, <3>1, <3>2, ZenonT(30) DEF TypeOK
  <2>8. Answer(r, "served", Peer(r), MissEnv(r.vhost, Peer(r)))
    BY <1>5 DEF CacheMiss
  <2> QED
    BY <1>5, <2>3, <2>5, <2>6, <2>7, <2>8, AnswerTyped, ZenonT(30) DEF CacheMiss, TypeOK
<1>6. ASSUME NEW r \in Request, Uncached(r) PROVE TypeOK'
  BY <1>6, AnswerTyped DEF Uncached, TypeOK, cacheVars
<1>7. CASE NewChild
  <2>1. response'.kind = "none" /\ response'.vhost \in Vhost /\ response'.peer \in Client
    BY <1>7, MainAssumption DEF NewChild, NoResponse, NoPeer, Client
  <2> QED
    BY <1>7, <2>1, EmptyTyped DEF NewChild, TypeOK
<1>8. CASE UNCHANGED vars
  BY <1>8 DEF vars, cacheVars, TypeOK
<1> QED
  BY <1>1, <1>2, <1>3, <1>4, <1>5, <1>6, <1>7, <1>8 DEF Next, Handle

THEOREM TypeCorrect == Spec => []TypeOK
BY TypeInit, TypeStep, PTL DEF Spec

--------------------------------------------------------------------------------
(* The rings, for servers that agree on the limit.                          *)

LEMMA LimitFacts ==
  ASSUME TypeOK, SameLimit(conf)
  PROVE  /\ LimitInUse \in 1 .. Size
         /\ \A h \in CachingHosts(conf) : conf[h].cache_limit = LimitInUse
<1>1. \A h \in Vhost : conf[h].cache_limit \in 1 .. Size
  BY ConfTyped DEF Config
<1>2. \A h \in CachingHosts(conf) : h \in Vhost
  BY DEF CachingHosts
<1>3. CASE CachingHosts(conf) = {}
  BY <1>3, SizeAssumption DEF LimitInUse
<1>4. CASE CachingHosts(conf) # {}
  <2> DEFINE g == CHOOSE h \in CachingHosts(conf) : TRUE
  <2>1. g \in CachingHosts(conf)
    BY <1>4
  <2>2. LimitInUse = conf[g].cache_limit
    BY <1>4 DEF LimitInUse
  <2> HIDE DEF g
  <2> QED
    BY <1>1, <1>2, <2>1, <2>2 DEF SameLimit
<1> QED
  BY <1>3, <1>4

(* What a miss does to the ring it inserts into, and to the other one.      *)
LEMMA MissFacts ==
  ASSUME TypeOK, SameLimit(conf), RingIntact, NEW r \in Request, CacheMiss(r),
         NEW p, p = ProtoOf(Peer(r)), NEW k, k = Token(Peer(r)),
         NEW L, L = LimitInUse, NEW slot, slot = NextLast(lri_max[p], lri_last[p], L)
  PROVE  /\ r.vhost \in CachingHosts(conf) /\ p \in Proto /\ k \in Addr
         /\ L \in 1 .. Size /\ IsRing(lri_max[p], lri_last[p], L)
         /\ lri_max[p] \in Nat /\ lri_last[p] \in Nat
         /\ lri_max' = [ lri_max EXCEPT ![p] = NextMax(@, L) ]
         /\ lri_last' = [ lri_last EXCEPT ![p] = slot ]
         /\ slot \in 1 .. Size
         /\ lri_token' = [ lri_token EXCEPT ![p][slot] = k ]
         /\ lri_value' = [ lri_value EXCEPT ![p][slot] = Stored(r.vhost, Peer(r), @) ]
         /\ \A i \in 1 .. lri_max[p] : lri_token[p][i] # k
<1>1. r.vhost \in CachingHosts(conf) /\ p \in Proto /\ k \in Addr
  BY ServedTyped DEF CacheMiss, Caching, Served, IsActive, CachingHosts
<1>2. L \in 1 .. Size /\ conf[r.vhost].cache_limit = L
  BY <1>1, LimitFacts
<1>3. lri_max[p] \in Nat /\ lri_last[p] \in Nat
  BY <1>1 DEF TypeOK
<1>4. IsRing(lri_max[p], lri_last[p], L)
  BY <1>1 DEF RingIntact, IsRing
<1>5. slot \in 1 .. Size
  <2>1. L \in Nat \ {0}
    BY <1>2, SizeAssumption
  <2> QED
    <3>1. /\ slot \in 1 .. NextMax(lri_max[p], L)
          /\ IsRing(NextMax(lri_max[p], L), slot, L)
      BY <1>3, <1>4, <2>1, Advance
    <3>2. NextMax(lri_max[p], L) \in 0 .. L
      BY <3>1 DEF IsRing
    <3> QED
      BY <1>2, <3>1, <3>2, SizeAssumption
<1>6. \A i \in 1 .. lri_max[p] : lri_token[p][i] # k
  <2>1. Matches(lri_token[p], lri_max[p], lri_last[p], k) = {}
    BY DEF CacheMiss, Found
  <2>2. L \in Nat \ {0}
    BY <1>2, SizeAssumption
  <2> QED
    BY <1>3, <1>4, <2>1, <2>2, MissIsAbsent
<1>7. /\ lri_max' = [ lri_max EXCEPT ![p] = NextMax(@, L) ]
      /\ lri_last' = [ lri_last EXCEPT ![p] = slot ]
      /\ lri_token' = [ lri_token EXCEPT ![p][slot] = k ]
      /\ lri_value' = [ lri_value EXCEPT ![p][slot] = Stored(r.vhost, Peer(r), @) ]
  BY <1>2 DEF CacheMiss
<1> QED
  BY <1>1, <1>2, <1>3, <1>4, <1>5, <1>6, <1>7

(* Every step that is no insertion leaves the rings alone or starts with    *)
(* empty ones.                                                              *)
LEMMA StepCases ==
  ASSUME [Next]_vars
  PROVE  /\ conf' = conf /\ LimitInUse' = LimitInUse
         /\ \/ \E r \in Request : CacheMiss(r)
            \/ UNCHANGED <<lri_max, lri_last, lri_token, lri_value>>
            \/ lri_max' = Zero /\ lri_last' = Zero /\ lri_token' = NoTokens /\ lri_value' = NoValues
<1>1. ASSUME NEW r \in Request, Handle(r)
      PROVE  /\ conf' = conf
             /\ CacheMiss(r) \/ UNCHANGED <<lri_max, lri_last, lri_token, lri_value>>
  BY <1>1 DEF Handle, Disabled, Passive, UnsupportedFamily, CacheHit, CacheMiss, Uncached, cacheVars
<1>2. conf' = conf
  BY <1>1 DEF Next, NewChild, vars
<1> QED
  BY <1>1, <1>2 DEF Next, NewChild, vars, cacheVars, LimitInUse, CachingHosts

LEMMA RingInit == ASSUME TypeOK, SameLimit(conf), Init PROVE RingIntact
BY LimitFacts DEF Init, Zero, NoTokens, RingIntact, Slots

LEMMA RingStep ==
  ASSUME TypeOK, SameLimit(conf), RingIntact, [Next]_vars
  PROVE  RingIntact'
<1>1. ASSUME NEW r \in Request, CacheMiss(r) PROVE RingIntact'
  <2> DEFINE p    == ProtoOf(Peer(r))
             k    == Token(Peer(r))
             L    == LimitInUse
             slot == NextLast(lri_max[p], lri_last[p], L)
  <2> HIDE DEF p, k, L, slot
  <2>1. /\ p \in Proto /\ k \in Addr /\ L \in Nat \ {0} /\ L \in 1 .. Size
        /\ IsRing(lri_max[p], lri_last[p], L) /\ slot \in 1 .. Size
        /\ lri_max[p] \in Nat /\ lri_last[p] \in Nat
        /\ lri_max' = [ lri_max EXCEPT ![p] = NextMax(@, L) ]
        /\ lri_last' = [ lri_last EXCEPT ![p] = slot ]
        /\ lri_token' = [ lri_token EXCEPT ![p][slot] = k ]
    BY <1>1, MissFacts, SizeAssumption DEF p, k, L, slot
  <2>2. L' = L
    BY StepCases DEF L
  <2>3. /\ IsRing(lri_max'[p], lri_last'[p], L)
        /\ slot \in 1 .. lri_max'[p]
        /\ lri_max'[p] \in lri_max[p] .. (lri_max[p] + 1)
        /\ lri_max'[p] = lri_max[p] + 1 => slot = lri_max'[p]
    <3>1. lri_max'[p] = NextMax(lri_max[p], L) /\ lri_last'[p] = slot
      BY <2>1 DEF TypeOK
    <3> QED
      BY <2>1, <3>1, Advance DEF slot
  <2>4. \A i \in 1 .. Size : lri_token'[p][i] # NoAddr <=> i \in 1 .. lri_max'[p]
    <3>1. \A i \in 1 .. Size : lri_token[p][i] # NoAddr <=> i \in 1 .. lri_max[p]
      BY <2>1 DEF RingIntact, Slots
    <3>2. \A i \in 1 .. Size : lri_token'[p][i] = IF i = slot THEN k ELSE lri_token[p][i]
      BY <2>1 DEF TypeOK
    <3> QED
      BY <2>1, <2>3, <3>1, <3>2, NoAddrAssumption
  <2>5. ASSUME NEW q \in Proto, q # p
        PROVE  lri_max'[q] = lri_max[q] /\ lri_last'[q] = lri_last[q] /\ lri_token'[q] = lri_token[q]
    BY <2>1, <2>5 DEF TypeOK
  <2>6. LimitInUse' = L
    BY <2>2 DEF L
  <2> QED
    BY <2>1, <2>2, <2>3, <2>4, <2>5 DEF RingIntact, IsRing, Slots, L
<1>2. CASE UNCHANGED <<lri_max, lri_last, lri_token, lri_value>>
  BY <1>2, StepCases DEF RingIntact, Slots
<1>3. CASE lri_max' = Zero /\ lri_last' = Zero /\ lri_token' = NoTokens /\ lri_value' = NoValues
  BY <1>3, StepCases, LimitFacts DEF RingIntact, Slots, Zero, NoTokens
<1> QED
  BY <1>1, <1>2, <1>3, StepCases

(* When the servers agree on the limit the shared ring never outgrows it    *)
(* and its filled slots are exactly the first ones.                         *)
THEOREM RingsStayIntact ==
  ASSUME \A c \in Configurations : SameLimit(c)
  PROVE  Spec => []RingIntact
<1> DEFINE IInv == TypeOK /\ RingIntact
<1>1. Init => IInv
  BY TypeInit, RingInit DEF TypeOK
<1>2. IInv /\ [Next]_vars => IInv'
  BY TypeStep, RingStep DEF TypeOK
<1> QED
  BY <1>1, <1>2, PTL DEF Spec

--------------------------------------------------------------------------------
(* No address takes up two slots.                                           *)

LEMMA NoDuplicatesStep ==
  ASSUME TypeOK, SameLimit(conf), RingIntact, NoDuplicates, [Next]_vars
  PROVE  NoDuplicates'
<1>1. ASSUME NEW r \in Request, CacheMiss(r) PROVE NoDuplicates'
  <2> DEFINE p    == ProtoOf(Peer(r))
             k    == Token(Peer(r))
             L    == LimitInUse
             slot == NextLast(lri_max[p], lri_last[p], L)
  <2> HIDE DEF p, k, L, slot
  <2>1. /\ p \in Proto /\ L \in Nat \ {0} /\ L \in 1 .. Size
        /\ IsRing(lri_max[p], lri_last[p], L) /\ slot \in 1 .. Size
        /\ lri_max[p] \in Nat /\ lri_last[p] \in Nat
        /\ lri_max' = [ lri_max EXCEPT ![p] = NextMax(@, L) ]
        /\ lri_token' = [ lri_token EXCEPT ![p][slot] = k ]
        /\ \A i \in 1 .. lri_max[p] : lri_token[p][i] # k
    BY <1>1, MissFacts, SizeAssumption DEF p, k, L, slot
  <2>2. /\ slot \in 1 .. lri_max'[p]
        /\ lri_max'[p] \in lri_max[p] .. (lri_max[p] + 1)
        /\ lri_max'[p] = lri_max[p] + 1 => slot = lri_max'[p]
        /\ lri_max'[p] \in 0 .. L
    <3>1. lri_max'[p] = NextMax(lri_max[p], L)
      BY <2>1 DEF TypeOK
    <3> QED
      BY <2>1, <3>1, Advance DEF slot, IsRing
  <2>3. ASSUME NEW i \in 1 .. lri_max'[p], NEW j \in 1 .. lri_max'[p],
               lri_token'[p][i] = lri_token'[p][j]
        PROVE  i = j
    <3>1. \A n \in 1 .. Size : lri_token'[p][n] = IF n = slot THEN k ELSE lri_token[p][n]
      BY <2>1 DEF TypeOK
    <3>2. i \in 1 .. Size /\ j \in 1 .. Size
      BY <2>1, <2>2, SizeAssumption
    <3>3. (i # slot => i \in 1 .. lri_max[p]) /\ (j # slot => j \in 1 .. lri_max[p])
      BY <2>1, <2>2
    <3>4. \A m, n \in 1 .. lri_max[p] : lri_token[p][m] = lri_token[p][n] => m = n
      BY <2>1 DEF NoDuplicates, Slots
    <3> QED
      BY <2>1, <2>3, <3>1, <3>2, <3>3, <3>4
  <2>4. ASSUME NEW q \in Proto, q # p
        PROVE  lri_max'[q] = lri_max[q] /\ lri_token'[q] = lri_token[q]
    BY <2>1, <2>4 DEF TypeOK
  <2> QED
    BY <2>3, <2>4 DEF NoDuplicates, Slots
<1>2. CASE UNCHANGED <<lri_max, lri_last, lri_token, lri_value>>
  BY <1>2 DEF NoDuplicates, Slots
<1>3. CASE lri_max' = Zero /\ lri_last' = Zero /\ lri_token' = NoTokens /\ lri_value' = NoValues
  BY <1>3 DEF NoDuplicates, Slots, Zero
<1> QED
  BY <1>1, <1>2, <1>3, StepCases

(* When the servers agree on the limit, no address has two slots: a lookup  *)
(* that misses really searched all of them.                                 *)
THEOREM NoAddressTwice ==
  ASSUME \A c \in Configurations : SameLimit(c)
  PROVE  Spec => []NoDuplicates
<1> DEFINE IInv == TypeOK /\ RingIntact /\ NoDuplicates
<1>1. Init => IInv
  <2>1. Init => NoDuplicates
    BY DEF Init, Zero, NoDuplicates, Slots
  <2> QED
    BY <2>1, TypeInit, RingInit DEF TypeOK
<1>2. IInv /\ [Next]_vars => IInv'
  BY TypeStep, RingStep, NoDuplicatesStep DEF TypeOK
<1> QED
  BY <1>1, <1>2, PTL DEF Spec

--------------------------------------------------------------------------------
(* What a slot holds is what a lookup of its address gives.                 *)

LEMMA DatumAgrees ==
  ASSUME NEW c, NEW d, c.actions = d.actions, c.anon_set = d.anon_set, NEW f, NEW a
  PROVE  Datum(c, f, a) = Datum(d, f, a)
BY DEF Datum, Known, ResultRegistry

LEMMA SlotsFreshStep ==
  ASSUME TypeOK, SameLimit(conf), SameContents(conf), RingIntact, SlotsFresh, [Next]_vars
  PROVE  SlotsFresh'
<1>1. ASSUME NEW r \in Request, CacheMiss(r) PROVE SlotsFresh'
  <2> DEFINE p    == ProtoOf(Peer(r))
             k    == Token(Peer(r))
             L    == LimitInUse
             slot == NextLast(lri_max[p], lri_last[p], L)
  <2> HIDE DEF p, k, L, slot
  <2>1. /\ p \in Proto /\ L \in Nat \ {0} /\ L \in 1 .. Size
        /\ r.vhost \in CachingHosts(conf)
        /\ IsRing(lri_max[p], lri_last[p], L) /\ slot \in 1 .. Size
        /\ lri_max[p] \in Nat /\ lri_last[p] \in Nat
        /\ lri_max' = [ lri_max EXCEPT ![p] = NextMax(@, L) ]
        /\ lri_token' = [ lri_token EXCEPT ![p][slot] = k ]
        /\ lri_value' = [ lri_value EXCEPT ![p][slot] = Stored(r.vhost, Peer(r), @) ]
    BY <1>1, MissFacts, SizeAssumption DEF p, k, L, slot
  <2>2. /\ lri_max'[p] \in lri_max[p] .. (lri_max[p] + 1)
        /\ lri_max'[p] = lri_max[p] + 1 => slot = lri_max'[p]
        /\ lri_max'[p] \in 0 .. L
    <3>1. lri_max'[p] = NextMax(lri_max[p], L)
      BY <2>1 DEF TypeOK
    <3> QED
      BY <2>1, <3>1, Advance DEF slot, IsRing
  <2>3. ASSUME NEW i \in 1 .. lri_max'[p], NEW h \in CachingHosts(conf), NEW f \in conf[h].actions
        PROVE  lri_value'[p][i][f] = Datum(conf[h], f, lri_token'[p][i])
    <3>1. i \in 1 .. Size
      BY <2>1, <2>2, SizeAssumption
    <3>2. CASE i = slot
      <4>1. lri_token'[p][i] = k
        BY <2>1, <3>1, <3>2 DEF TypeOK
      <4>2. lri_value'[p][i] = Stored(r.vhost, Peer(r), lri_value[p][i])
        BY <2>1, <3>1, <3>2 DEF TypeOK
      <4>3. /\ conf[r.vhost].actions = conf[h].actions
            /\ conf[r.vhost].anon_set = conf[h].anon_set
        BY <2>1 DEF SameContents
      <4>4. f \in Action
        BY ConfTyped DEF CachingHosts, Config
      <4>5. lri_value'[p][i][f] = Datum(conf[r.vhost], f, k)
        BY <4>2, <4>3, <4>4 DEF Stored, k
      <4> QED
        BY <4>1, <4>3, <4>5, DatumAgrees
    <3>3. CASE i # slot
      <4>1. i \in 1 .. lri_max[p]
        BY <2>1, <2>2, <3>3
      <4>2. lri_token'[p][i] = lri_token[p][i] /\ lri_value'[p][i] = lri_value[p][i]
        BY <2>1, <3>1, <3>3 DEF TypeOK
      <4> QED
        BY <2>1, <4>1, <4>2 DEF SlotsFresh, Slots
    <3> QED
      BY <3>2, <3>3
  <2>4. ASSUME NEW q \in Proto, q # p
        PROVE  /\ lri_max'[q] = lri_max[q] /\ lri_token'[q] = lri_token[q]
               /\ lri_value'[q] = lri_value[q]
    BY <2>1, <2>4 DEF TypeOK
  <2>5. conf' = conf
    BY StepCases
  <2> QED
    BY <2>3, <2>4, <2>5 DEF SlotsFresh, Slots
<1>2. CASE UNCHANGED <<lri_max, lri_last, lri_token, lri_value>>
  BY <1>2, StepCases DEF SlotsFresh, Slots
<1>3. CASE lri_max' = Zero /\ lri_last' = Zero /\ lri_token' = NoTokens /\ lri_value' = NoValues
  BY <1>3 DEF SlotsFresh, Slots, Zero
<1> QED
  BY <1>1, <1>2, <1>3, StepCases

(* When the servers agree on the limit, the actions and the anonymization,  *)
(* every slot holds what the databases say of its address.                  *)
THEOREM SlotsStayFresh ==
  ASSUME \A c \in Configurations : SameLimit(c) /\ SameContents(c)
  PROVE  Spec => []SlotsFresh
<1> DEFINE IInv == TypeOK /\ RingIntact /\ SlotsFresh
<1>1. Init => IInv
  <2>1. Init => SlotsFresh
    BY DEF Init, Zero, SlotsFresh, Slots
  <2> QED
    BY <2>1, TypeInit, RingInit DEF TypeOK
<1>2. IInv /\ [Next]_vars => IInv'
  BY TypeStep, RingStep, SlotsFreshStep DEF TypeOK
<1> QED
  BY <1>1, <1>2, PTL DEF Spec

--------------------------------------------------------------------------------
(* Hits.                                                                    *)

(* A hit's slot is a filled one that holds the address asked for, and its   *)
(* distance is smaller than the number of filled slots.                     *)
LEMMA HitFacts ==
  ASSUME TypeOK, SameLimit(conf), RingIntact, NEW r \in Request, CacheHit(r),
         NEW p, p = ProtoOf(Peer(r)), NEW d, d = Nearest(Found(r)),
         NEW slot, slot = SlotAt(lri_max[p], lri_last[p], d)
  PROVE  /\ r.vhost \in CachingHosts(conf) /\ p \in Proto
         /\ lri_max[p] \in 1 .. Size
         /\ d \in 0 .. (lri_max[p] - 1)
         /\ slot \in 1 .. lri_max[p]
         /\ lri_token[p][slot] = Token(Peer(r))
<1> DEFINE L == LimitInUse
<1>1. r.vhost \in CachingHosts(conf) /\ p \in Proto
  BY ServedTyped DEF CacheHit, Caching, Served, IsActive, CachingHosts
<1>2. L \in 1 .. Size /\ L \in Nat \ {0}
  BY LimitFacts, SizeAssumption
<1>3. lri_max[p] \in Nat /\ lri_last[p] \in Nat /\ IsRing(lri_max[p], lri_last[p], L)
  BY <1>1 DEF TypeOK, RingIntact, IsRing
<1> HIDE DEF L
<1>4. Found(r) = { e \in 0 .. (lri_max[p] - 1) :
                     lri_token[p][SlotAt(lri_max[p], lri_last[p], e)] = Token(Peer(r)) }
  BY <1>2, <1>3, Depth DEF Found, Matches
<1>5. Found(r) \in SUBSET Nat /\ Found(r) # {}
  BY <1>3, <1>4 DEF CacheHit
<1>6. d \in Found(r)
  BY <1>5, NearestIsLeast
<1>7. d \in 0 .. (lri_max[p] - 1) /\ lri_token[p][slot] = Token(Peer(r))
  BY <1>4, <1>6
<1>8. slot \in 1 .. lri_max[p]
  BY <1>2, <1>3, <1>7, SlotAtInRange
<1>9. lri_max[p] \in 1 .. Size
  BY <1>2, <1>3, <1>7, SizeAssumption DEF IsRing
<1> QED
  BY <1>1, <1>7, <1>8, <1>9

LEMMA TransparentStep ==
  ASSUME TypeOK, SameLimit(conf), RingIntact, SlotsFresh, HitIsTransparent, [Next]_vars
  PROVE  HitIsTransparent'
<1>1. ASSUME NEW r \in Request, CacheHit(r) PROVE HitIsTransparent'
  <2> DEFINE p    == ProtoOf(Peer(r))
             d    == Nearest(Found(r))
             slot == SlotAt(lri_max[p], lri_last[p], d)
             c    == conf[r.vhost]
  <2>1. /\ response'.vhost = r.vhost /\ response'.peer = Peer(r)
        /\ response'.env = HitEnv(r.vhost, Peer(r), slot)
        /\ conf' = conf
    BY <1>1 DEF CacheHit, Answer
  <2>2. /\ r.vhost \in CachingHosts(conf) /\ p \in Proto
        /\ slot \in 1 .. lri_max[p]
        /\ lri_token[p][slot] = Token(Peer(r))
    BY <1>1, HitFacts
  <2>3. c.actions \subseteq Action
    BY <2>2, ConfTyped DEF CachingHosts, Config
  <2>4. ASSUME NEW v \in c.actions
        PROVE  HitEnv(r.vhost, Peer(r), slot)[v] = MissEnv(r.vhost, Peer(r))[v]
    <3>1. v \in EnvVar /\ v # "IP" /\ v # "ANON_METHOD"
      BY <2>3 DEF EnvVar, Action, Retrieved
    <3>2. HitEnv(r.vhost, Peer(r), slot)[v] = lri_value[p][slot][v]
      BY <3>1 DEF HitEnv
    <3>3. MissEnv(r.vhost, Peer(r))[v] = Datum(c, v, Token(Peer(r)))
      BY <3>1 DEF MissEnv
    <3>4. lri_value[p][slot][v] = Datum(c, v, lri_token[p][slot])
      BY <2>2 DEF SlotsFresh, Slots
    <3> QED
      BY <2>2, <3>2, <3>3, <3>4
  <2>5. HitEnv(r.vhost, Peer(r), slot)["IP"] = MissEnv(r.vhost, Peer(r))["IP"]
    BY DEF HitEnv, MissEnv, EnvVar
  <2>6. "IP_ANON" \in c.actions =>
          HitEnv(r.vhost, Peer(r), slot)["ANON_METHOD"] = MissEnv(r.vhost, Peer(r))["ANON_METHOD"]
    BY DEF HitEnv, MissEnv, EnvVar
  <2>7. MissEnv(response.vhost, response.peer)' = MissEnv(r.vhost, Peer(r))
    BY <2>1 DEF MissEnv, Datum, Known, ResultRegistry, AnonMethodName
  <2> QED
    BY <2>1, <2>4, <2>5, <2>6, <2>7 DEF HitIsTransparent
<1>2. ASSUME NEW r \in Request, Handle(r), ~CacheHit(r) PROVE response'.kind # "hit"
  BY <1>2 DEF Handle, Disabled, Passive, UnsupportedFamily, CacheMiss, Uncached, Answer
<1>3. CASE NewChild
  BY <1>3 DEF NewChild, NoResponse, HitIsTransparent
<1>4. CASE UNCHANGED vars
  <2>1. response' = response /\ conf' = conf
    BY <1>4 DEF vars
  <2>2. MissEnv(response.vhost, response.peer)' = MissEnv(response.vhost, response.peer)
    BY <2>1 DEF MissEnv, Datum, Known, ResultRegistry, AnonMethodName
  <2> QED
    BY <2>1, <2>2 DEF HitIsTransparent
<1> QED
  BY <1>1, <1>2, <1>3, <1>4 DEF Next, HitIsTransparent

(* When the servers agree on the limit, the actions and the anonymization,  *)
(* what a hit answers is what a server without a cache would answer.        *)
THEOREM HitsAreTransparent ==
  ASSUME \A c \in Configurations : SameLimit(c) /\ SameContents(c)
  PROVE  Spec => []HitIsTransparent
<1> DEFINE IInv == TypeOK /\ RingIntact /\ SlotsFresh /\ HitIsTransparent
<1>1. Init => IInv
  <2>1. Init => SlotsFresh
    BY DEF Init, Zero, SlotsFresh, Slots
  <2>2. Init => HitIsTransparent
    BY DEF Init, NoResponse, HitIsTransparent
  <2> QED
    BY <2>1, <2>2, TypeInit, RingInit DEF TypeOK
<1>2. IInv /\ [Next]_vars => IInv'
  BY TypeStep, RingStep, SlotsFreshStep, TransparentStep DEF TypeOK
<1> QED
  BY <1>1, <1>2, PTL DEF Spec

LEMMA DistancesStep ==
  ASSUME TypeOK, SameLimit(conf), RingIntact, DistancesInRange, [Next]_vars
  PROVE  DistancesInRange'
<1>1. ASSUME NEW r \in Request, CacheHit(r) PROVE DistancesInRange'
  <2> DEFINE p == ProtoOf(Peer(r))
             d == Nearest(Found(r))
  <2> HIDE DEF p, d
  <2>1. p \in Proto /\ d \in 0 .. (lri_max[p] - 1) /\ lri_max[p] \in 1 .. Size
    BY <1>1, HitFacts DEF p, d
  <2>2. lri_statistics' = [ lri_statistics EXCEPT ![p][d] = @ + 1 ] /\ lri_max' = lri_max
    BY <1>1 DEF CacheHit, p, d
  <2>3. ASSUME NEW q \in Proto, NEW e \in 0 .. (Size - 1), ~(q = p /\ e = d)
        PROVE  lri_statistics'[q][e] = lri_statistics[q][e]
    BY <2>1, <2>2, <2>3 DEF TypeOK
  <2>4. d < lri_max[p]
    BY <2>1
  <2> QED
    BY <2>2, <2>3, <2>4 DEF DistancesInRange
<1>2. ASSUME NEW r \in Request, CacheMiss(r) PROVE DistancesInRange'
  <2> DEFINE p == ProtoOf(Peer(r))
             L == LimitInUse
  <2> HIDE DEF p, L
  <2>1. /\ p \in Proto /\ L \in 1 .. Size /\ lri_max[p] \in Nat
        /\ lri_max' = [ lri_max EXCEPT ![p] = NextMax(@, L) ]
    BY <1>2, MissFacts DEF p, L
  <2>2. \A q \in Proto : lri_max'[q] \in Nat /\ lri_max'[q] >= lri_max[q]
    BY <2>1, SizeAssumption DEF TypeOK, NextMax
  <2>3. lri_statistics' = lri_statistics
    BY <1>2 DEF CacheMiss
  <2>4. \A q \in Proto : lri_max[q] \in Nat
    BY DEF TypeOK
  <2> QED
    BY <2>2, <2>3, <2>4 DEF DistancesInRange
<1>3. ASSUME NEW r \in Request, Handle(r), ~CacheHit(r), ~CacheMiss(r)
      PROVE  UNCHANGED <<lri_max, lri_statistics>>
  BY <1>3 DEF Handle, Disabled, Passive, UnsupportedFamily, Uncached, cacheVars
<1>4. CASE UNCHANGED <<lri_max, lri_statistics>>
  BY <1>4 DEF DistancesInRange
<1>5. CASE NewChild
  BY <1>5 DEF NewChild, NoStatistics, DistancesInRange
<1> QED
  BY <1>1, <1>2, <1>3, <1>4, <1>5 DEF Next, vars, cacheVars

(* When the servers agree on the limit, every distance that was counted is  *)
(* one the walk can have: the statistics array is never left.               *)
THEOREM DistancesStayInRange ==
  ASSUME \A c \in Configurations : SameLimit(c)
  PROVE  Spec => []DistancesInRange
<1> DEFINE IInv == TypeOK /\ RingIntact /\ DistancesInRange
<1>1. Init => IInv
  <2>1. Init => DistancesInRange
    BY DEF Init, NoStatistics, DistancesInRange
  <2> QED
    BY <2>1, TypeInit, RingInit DEF TypeOK
<1>2. IInv /\ [Next]_vars => IInv'
  BY TypeStep, RingStep, DistancesStep DEF TypeOK
<1> QED
  BY <1>1, <1>2, PTL DEF Spec

--------------------------------------------------------------------------------
(* The rings implement the list of the newest addresses.                    *)

LEMMA AddressListIs ==
  ASSUME TypeOK, SameLimit(conf), RingIntact, NEW p \in Proto
  PROVE  /\ AddressList[p] =
              [ n \in 1 .. lri_max[p] |-> lri_token[p][SlotAt(lri_max[p], lri_last[p], n - 1)] ]
         /\ AddressList[p] \in Seq(Addr)
         /\ Len(AddressList[p]) = lri_max[p]
<1> DEFINE s == [ n \in 1 .. lri_max[p] |-> lri_token[p][SlotAt(lri_max[p], lri_last[p], n - 1)] ]
<1>1. lri_max[p] \in Nat /\ lri_last[p] \in Nat /\ IsRing(lri_max[p], lri_last[p], LimitInUse)
  BY DEF TypeOK, RingIntact, IsRing
<1>2. LimitInUse \in 1 .. Size /\ LimitInUse \in Nat \ {0}
  BY LimitFacts, SizeAssumption
<1>3. ASSUME NEW n \in 1 .. lri_max[p]
      PROVE  lri_token[p][SlotAt(lri_max[p], lri_last[p], n - 1)] \in Addr
  <2>1. n - 1 \in 0 .. (lri_max[p] - 1)
    BY <1>1
  <2>2. SlotAt(lri_max[p], lri_last[p], n - 1) \in 1 .. lri_max[p]
    BY <1>1, <1>2, <2>1, SlotAtInRange
  <2>3. SlotAt(lri_max[p], lri_last[p], n - 1) \in 1 .. Size
    BY <1>1, <1>2, <2>2, SizeAssumption DEF IsRing
  <2>4. ASSUME NEW i \in 1 .. Size, i \in 1 .. lri_max[p] PROVE lri_token[p][i] \in Addr
    <3>1. lri_token[p][i] \in Addr \cup {NoAddr}
      <4>1. lri_token \in [Proto -> [1 .. Size -> Addr \cup {NoAddr}]]
        BY DEF TypeOK
      <4>2. lri_token[p] \in [1 .. Size -> Addr \cup {NoAddr}]
        BY <4>1
      <4> QED
        BY <4>2, <2>4
    <3>2. lri_token[p][i] # NoAddr
      BY <2>4 DEF RingIntact, Slots
    <3> QED
      BY <3>1, <3>2
  <2> QED
    BY <2>2, <2>3, <2>4
<1>4. AddressList[p] = s
  BY DEF AddressList
<1>5. s \in [1 .. lri_max[p] -> Addr]
  BY <1>3
<1> HIDE DEF s
<1>6. s \in Seq(Addr) /\ Len(s) = lri_max[p]
  BY <1>1, <1>5
<1> QED
  BY <1>4, <1>6 DEF s

LEMMA ListInit == ASSUME Init PROVE List!Init
<1>1. ASSUME NEW p \in Proto PROVE AddressList[p] = <<>>
  BY DEF Init, Zero, AddressList
<1> QED
  BY <1>1 DEF AddressList, List!Init

LEMMA ListStep ==
  ASSUME TypeOK, SameLimit(conf), RingIntact, RingIntact', TypeOK', [Next]_vars
  PROVE  [List!Next]_(List!listVars)
<1>0. LimitInUse' = LimitInUse
  BY StepCases
<1>1. ASSUME NEW r \in Request, CacheMiss(r) PROVE List!Next
  <2> DEFINE p    == ProtoOf(Peer(r))
             k    == Token(Peer(r))
             L    == LimitInUse
             slot == NextLast(lri_max[p], lri_last[p], L)
             m    == NextMax(lri_max[p], L)
  <2> HIDE DEF p, k, L, slot, m
  <2>1. /\ p \in Proto /\ k \in Addr /\ L \in Nat \ {0} /\ L \in 1 .. Size
        /\ IsRing(lri_max[p], lri_last[p], L) /\ slot \in 1 .. Size
        /\ lri_max[p] \in Nat /\ lri_last[p] \in Nat
        /\ lri_max' = [ lri_max EXCEPT ![p] = NextMax(@, L) ]
        /\ lri_last' = [ lri_last EXCEPT ![p] = slot ]
        /\ lri_token' = [ lri_token EXCEPT ![p][slot] = k ]
        /\ \A i \in 1 .. lri_max[p] : lri_token[p][i] # k
    BY <1>1, MissFacts, SizeAssumption DEF p, k, L, slot
  <2>2. /\ lri_max'[p] = m /\ lri_last'[p] = slot
        /\ \A i \in 1 .. Size : lri_token'[p][i] = IF i = slot THEN k ELSE lri_token[p][i]
    BY <2>1 DEF TypeOK, m
  <2>3. /\ IsRing(m, slot, L) /\ m \in 1 .. L
        /\ SlotAt(m, slot, 0) = slot
        /\ \A d \in 1 .. (m - 1) :
             SlotAt(m, slot, d) = SlotAt(lri_max[p], lri_last[p], d - 1) /\ SlotAt(m, slot, d) # slot
    <3>1. /\ IsRing(m, slot, L) /\ slot \in 1 .. m /\ m \in Nat
      BY <2>1, Advance DEF m, slot
    <3>2. m \in 1 .. L
      BY <2>1, <3>1 DEF IsRing
    <3> QED
      BY <2>1, <3>1, <3>2, Shift DEF m, slot
  <2>4. /\ AddressList[p] =
             [ n \in 1 .. lri_max[p] |-> lri_token[p][SlotAt(lri_max[p], lri_last[p], n - 1)] ]
        /\ Len(AddressList[p]) = lri_max[p]
    BY <2>1, AddressListIs
  <2>5. \A i \in DOMAIN AddressList[p] : AddressList[p][i] # k
    <3>1. ASSUME NEW n \in 1 .. lri_max[p] PROVE AddressList[p][n] # k
      <4>1. n - 1 \in 0 .. (lri_max[p] - 1)
        BY <2>1
      <4>2. SlotAt(lri_max[p], lri_last[p], n - 1) \in 1 .. lri_max[p]
        BY <2>1, <4>1, SlotAtInRange
      <4> QED
        BY <2>1, <2>4, <4>2
    <3> QED
      BY <2>4, <3>1
  <2>6. m = IF Len(AddressList[p]) < L THEN Len(AddressList[p]) + 1 ELSE L
    BY <2>1, <2>4 DEF m, NextMax, IsRing
  <2>7. AddressList'[p] = [ i \in 1 .. m |-> IF i = 1 THEN k ELSE AddressList[p][i - 1] ]
    <3>1. AddressList'[p] = [ n \in 1 .. m |-> lri_token'[p][SlotAt(m, slot, n - 1)] ]
      BY <2>1, <2>2 DEF AddressList
    <3>2. ASSUME NEW n \in 1 .. m
          PROVE  lri_token'[p][SlotAt(m, slot, n - 1)] = IF n = 1 THEN k ELSE AddressList[p][n - 1]
      <4>1. CASE n = 1
        BY <2>1, <2>2, <2>3, <4>1
      <4>2. CASE n # 1
        <5>1. n - 1 \in 1 .. (m - 1) /\ n - 1 \in 1 .. lri_max[p] /\ n - 1 \in 0 .. (m - 1)
          BY <2>1, <2>3, <4>2 DEF m, NextMax
        <5>2. SlotAt(m, slot, n - 1) \in 1 .. m
          BY <2>1, <2>3, <5>1, SlotAtInRange
        <5>3. SlotAt(m, slot, n - 1) \in 1 .. Size
          BY <2>1, <2>3, <5>2, SizeAssumption
        <5>4. /\ SlotAt(m, slot, n - 1) = SlotAt(lri_max[p], lri_last[p], n - 1 - 1)
              /\ SlotAt(m, slot, n - 1) # slot
          BY <2>3, <5>1
        <5> QED
          BY <2>2, <2>4, <4>2, <5>1, <5>3, <5>4
      <4> QED
        BY <4>1, <4>2
    <3> QED
      BY <3>1, <3>2
  <2>8. ASSUME NEW q \in Proto, q # p PROVE AddressList'[q] = AddressList[q]
    <3>1. lri_max'[q] = lri_max[q] /\ lri_last'[q] = lri_last[q] /\ lri_token'[q] = lri_token[q]
      BY <2>1, <2>8 DEF TypeOK
    <3> QED
      BY <3>1 DEF AddressList
  <2>9. AddressList' =
          [ AddressList EXCEPT ![p] = [ i \in 1 .. m |-> IF i = 1 THEN k ELSE AddressList[p][i - 1] ] ]
    <3> DEFINE new == [ i \in 1 .. m |-> IF i = 1 THEN k ELSE AddressList[p][i - 1] ]
    <3>1. /\ AddressList = [ q \in Proto |-> AddressList[q] ]
          /\ AddressList' = [ q \in Proto |-> AddressList'[q] ]
      BY DEF AddressList
    <3>2. AddressList'[p] = new
      BY <2>7
    <3> HIDE DEF new
    <3>3. AddressList' = [ AddressList EXCEPT ![p] = new ]
      BY <2>1, <2>8, <3>1, <3>2
    <3> QED
      BY <3>3 DEF new
  <2> QED
    BY <1>0, <2>1, <2>5, <2>6, <2>9 DEF List!Next, List!Insert, L
<1>2. CASE UNCHANGED <<lri_max, lri_last, lri_token, lri_value>>
  BY <1>0, <1>2 DEF List!listVars, AddressList
<1>3. CASE lri_max' = Zero /\ lri_last' = Zero /\ lri_token' = NoTokens /\ lri_value' = NoValues
  <2>1. ASSUME NEW p \in Proto PROVE AddressList'[p] = <<>>
    BY <1>3 DEF Zero, AddressList
  <2>2. AddressList' = [ p \in Proto |-> <<>> ]
    BY <2>1 DEF AddressList
  <2> QED
    BY <1>0, <2>2 DEF List!Next, List!Clear
<1> QED
  BY <1>1, <1>2, <1>3, StepCases

(* When the servers agree on the limit, the two rings, whatever the servers *)
(* store in them, are two lists of the newest addresses.                    *)
THEOREM RingsImplementTheList ==
  ASSUME \A c \in Configurations : SameLimit(c)
  PROVE  Spec => ImplementsList
<1> DEFINE IInv == TypeOK /\ RingIntact
<1>1. Init => IInv /\ List!Init
  BY TypeInit, RingInit, ListInit DEF TypeOK
<1>2. IInv /\ [Next]_vars => IInv' /\ [List!Next]_(List!listVars)
  BY TypeStep, RingStep, ListStep DEF TypeOK
<1> QED
  BY <1>1, <1>2, PTL DEF Spec, ImplementsList, List!Spec

================================================================================
