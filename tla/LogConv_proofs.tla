----------------------------- MODULE LogConv_proofs -----------------------------
(***************************************************************************)
(* Proofs about LogConv, for any tokens, any names, any size of the cache  *)
(* and any limit: the cache changes no name that is printed.               *)
(***************************************************************************)
EXTENDS LogConv, RingCache_proofs, FiniteSetTheorems

(* A cache all of whose insertions used the limit: a ring, whose filled     *)
(* slots are the first ones and hold the name of their own key each.        *)
Keys == [token : Tokens, conversion : Conversion]
Names == { NameOf(t, c) : t \in Tokens, c \in Conversion }

CacheOK(c) ==
  /\ c.max \in Nat /\ c.last \in Nat
  /\ IsRing(c.max, c.last, cache_lru_limit)
  /\ c.key \in [Slot -> {NoKey} \cup Keys]
  /\ c.value \in [Slot -> {<<>>} \cup Names]
  /\ \A s \in Slot : c.key[s] # NoKey <=> s \in 1 .. c.max
  /\ \A s \in 1 .. c.max : c.value[s] = NameOf(c.key[s].token, c.key[s].conversion)

(* The newest slot, with one conversion only: it is of that conversion, and *)
(* of the token that was shown last.                                        *)
SingleCached == outputtype # "any" /\ ~flag_nocache

NewestShown(c, token) ==
  SingleCached =>
    /\ c.max > 0 => c.key[c.last].conversion = outputtype
    /\ token # NoText => c.max > 0 /\ c.key[c.last].token = token

(* The inductive invariant.                                                 *)
IInv ==
  /\ outputtype \in OutputTypes /\ cache_lru_limit \in Limits
  /\ CacheOK(cache)
  /\ cache_lru_statistics \in [0 .. (CACHE_LRU_SIZE - 1) -> Nat]
  /\ line.token \in Tokens \cup {NoText}
  /\ Len(line.names) <= 2
  /\ \A n \in DOMAIN line.names : line.names[n] = NameOf(line.token, Conversions[n])
  /\ NewestShown(cache, line.token)

LEMMA NoTextIsNone == NoText \notin Conversion
BY Zenon DEF NoText, Conversion

LEMMA LimitFacts ==
  ASSUME cache_lru_limit \in Limits
  PROVE  cache_lru_limit \in Nat \ {0} /\ 1 .. cache_lru_limit \subseteq Slot
BY LogConvAssumption DEF Slot

--------------------------------------------------------------------------------
(* One conversion.                                                          *)

(* The slot that answers holds the key that is asked for.                   *)
LEMMA FoundIsKey ==
  ASSUME NEW c, CacheOK(c), cache_lru_limit \in Limits,
         NEW t \in Tokens, NEW conversion \in Conversion,
         Distances(c, t, conversion) # {},
         NEW d, d = Nearest(Distances(c, t, conversion)),
         NEW s, s = SlotAt(c.max, c.last, d)
  PROVE  /\ d \in Nat
         /\ s \in 1 .. c.max
         /\ c.key[s] = Key(t, conversion)
<1>1. /\ c.max \in Nat \ {0} /\ c.last \in 1 .. c.max
      /\ 1 .. c.max \subseteq Slot
  BY LogConvAssumption DEF Distances, CacheOK, IsRing, Slot
<1>2. CASE c.key[c.last].conversion = conversion
  <2>1. Distances(c, t, conversion) = {0} /\ c.key[c.last].token = t
    BY <1>2, <1>1 DEF Distances
  <2>2. d = 0
    BY <2>1, NearestIsLeast
  <2>3. s = c.last
    BY <1>1, <2>2 DEF SlotAt
  <2>4. c.key[s] \in Keys
    BY <1>1, <2>3 DEF CacheOK
  <2> QED
    BY <1>1, <1>2, <2>1, <2>2, <2>3, <2>4 DEF Keys, Key
<1>3. CASE c.key[c.last].conversion # conversion
  <2>1. Distances(c, t, conversion) = Matches(c.key, c.max, c.last, Key(t, conversion))
    BY <1>3 DEF Distances
  <2>2. SearchDepth(c.max, c.last) = c.max
    BY <1>1, Depth, LimitFacts DEF CacheOK
  <2>3. Distances(c, t, conversion) \in SUBSET Nat
    BY <1>1, <2>1, <2>2 DEF Matches
  <2>4. d \in Distances(c, t, conversion)
    BY <2>3, NearestIsLeast
  <2>5. d \in 0 .. (c.max - 1) /\ c.key[s] = Key(t, conversion)
    BY <1>1, <2>1, <2>2, <2>4 DEF Matches
  <2>6. s \in 1 .. c.max
    BY <1>1, <2>5, SlotAtInRange, LimitFacts DEF CacheOK
  <2> QED
    BY <2>5, <2>6
<1> QED
  BY <1>2, <1>3

(* A new entry.                                                             *)
LEMMA StoredOK ==
  ASSUME NEW c, CacheOK(c), cache_lru_limit \in Limits,
         NEW t \in Tokens, NEW conversion \in Conversion,
         NEW s, s = Stored(c, t, conversion, NameOf(t, conversion))
  PROVE  CacheOK(s) /\ s.max > 0 /\ s.key[s.last] = Key(t, conversion)
<1> DEFINE n == NextLast(c.max, c.last, cache_lru_limit)
           name == NameOf(t, conversion)
<1>1. /\ s.max = NextMax(c.max, cache_lru_limit) /\ s.last = n
      /\ s.key = [c.key EXCEPT ![n] = Key(t, conversion)]
      /\ s.value = [c.value EXCEPT ![n] = name]
  BY DEF Stored
<1>2. /\ IsRing(s.max, s.last, cache_lru_limit)
      /\ n \in 1 .. s.max
      /\ s.max \in c.max .. (c.max + 1)
      /\ s.max = c.max + 1 => n = s.max
  BY <1>1, Advance, LimitFacts DEF CacheOK
<1> HIDE DEF n, name
<1>3. s.max \in Nat /\ s.last \in Nat /\ 1 .. s.max \subseteq Slot /\ n \in Slot
  BY <1>1, <1>2, LimitFacts DEF CacheOK, IsRing
<1>4. Key(t, conversion) \in Keys /\ Key(t, conversion) # NoKey /\ name \in Names
  <2>1. Key(t, conversion).conversion # NoKey.conversion
    BY NoTextIsNone DEF Key, NoKey
  <2>2. Key(t, conversion) \in Keys
    BY DEF Keys, Key
  <2>3. name \in Names
    BY DEF Names, name
  <2> QED
    BY <2>1, <2>2, <2>3
<1>5. \A i \in Slot : /\ s.key[i] = IF i = n THEN Key(t, conversion) ELSE c.key[i]
                      /\ s.value[i] = IF i = n THEN name ELSE c.value[i]
  BY <1>1 DEF CacheOK
<1>6. s.key \in [Slot -> {NoKey} \cup Keys] /\ s.value \in [Slot -> {<<>>} \cup Names]
  BY <1>1, <1>3, <1>4 DEF CacheOK
<1>7. ASSUME NEW i \in Slot
      PROVE  s.key[i] # NoKey <=> i \in 1 .. s.max
  <2>1. c.key[i] # NoKey <=> i \in 1 .. c.max
    BY DEF CacheOK
  <2>2. i \in Nat /\ c.max \in Nat
    BY LogConvAssumption DEF Slot, CacheOK
  <2> QED
    BY <1>2, <1>3, <1>4, <1>5, <2>1, <2>2
<1>8. ASSUME NEW i \in 1 .. s.max
      PROVE  s.value[i] = NameOf(s.key[i].token, s.key[i].conversion)
  <2>1. i \in Slot
    BY <1>3
  <2>2. CASE i = n
    <3>1. s.key[i] = Key(t, conversion) /\ s.value[i] = name
      BY <1>5, <2>1, <2>2
    <3>2. s.key[i].token = t /\ s.key[i].conversion = conversion
      BY <3>1 DEF Key
    <3> QED
      BY <3>1, <3>2 DEF name
  <2>3. CASE i # n
    <3>1. i \in 1 .. c.max
      BY <1>2, <2>3 DEF CacheOK
    <3> QED
      BY <1>5, <2>1, <2>3, <3>1 DEF CacheOK
  <2> QED
    BY <2>2, <2>3
<1>9. CacheOK(s)
  BY <1>2, <1>3, <1>6, <1>7, <1>8 DEF CacheOK
<1>10. s.max > 0 /\ s.key[s.last] = Key(t, conversion)
  BY <1>1, <1>2, <1>3, <1>5
<1> QED
  BY <1>9, <1>10

(* What a conversion answers is the token's name, and it leaves the cache   *)
(* as it is, or with the token's name as the newest entry.                  *)
Converted(c, t, conversion, r) ==
  /\ r.name = NameOf(t, conversion)
  /\ CacheOK(r.cache)
  /\ r.hit = {} \/ \E d \in Nat : r.hit = {d}
  /\ \/ r.cache = c
     \/ r.applies /\ r.cache.max > 0 /\ r.cache.key[r.cache.last] = Key(t, conversion)
  /\ r.hit # {} => r.applies /\ r.cache = c
  /\ r.hit # {} <=> Distances(c, t, conversion) # {}
  /\ r.hit = {} /\ r.applies /\ ~flag_nocache =>
       r.cache.max > 0 /\ r.cache.key[r.cache.last] = Key(t, conversion)

LEMMA ConvertOK ==
  ASSUME NEW c, CacheOK(c), cache_lru_limit \in Limits,
         NEW t \in Tokens, NEW conversion \in Conversion
  PROVE  Converted(c, t, conversion, converttoken(c, t, conversion))
<1> DEFINE r == converttoken(c, t, conversion)
           D == Distances(c, t, conversion)
           d == Nearest(D)
           s == SlotAt(c.max, c.last, d)
           name == NameOf(t, conversion)
<1> SUFFICES Converted(c, t, conversion, r)
  OBVIOUS
<1>1. CASE D # {}
  <2>1. d \in Nat /\ s \in 1 .. c.max /\ c.key[s] = Key(t, conversion)
    BY <1>1, FoundIsKey
  <2>2. /\ r.name = c.value[s] /\ r.cache = c /\ r.hit = {d} /\ r.applies = TRUE
    BY <1>1 DEF converttoken
  <2> HIDE DEF d, s, r
  <2>3. c.value[s] = NameOf(c.key[s].token, c.key[s].conversion)
    BY <2>1 DEF CacheOK
  <2>4. c.key[s].token = t /\ c.key[s].conversion = conversion
    BY <2>1 DEF Key
  <2>5. r.name = NameOf(t, conversion)
    BY <2>2, <2>3, <2>4
  <2> QED
    BY <1>1, <2>1, <2>2, <2>5, Zenon DEF Converted
<1>2. CASE D = {}
  <2>1. /\ r.name = name /\ r.hit = {} /\ r.applies = Applies(t, conversion)
        /\ r.cache = IF Applies(t, conversion) /\ ~flag_nocache
                     THEN Stored(c, t, conversion, name) ELSE c
    BY <1>2 DEF converttoken
  <2> HIDE DEF r, name
  <2>2. CASE Applies(t, conversion) /\ ~flag_nocache
    <3>1. r.cache = Stored(c, t, conversion, name)
      BY <2>1, <2>2
    <3>2. /\ CacheOK(r.cache) /\ r.cache.max > 0
          /\ r.cache.key[r.cache.last] = Key(t, conversion)
      BY <3>1, StoredOK DEF name
    <3> QED
      BY <1>2, <2>1, <2>2, <3>2, Zenon DEF Converted, name
  <2>3. CASE ~ (Applies(t, conversion) /\ ~flag_nocache)
    BY <1>2, <2>1, <2>3, Zenon DEF Converted, name
  <2> QED
    BY <2>2, <2>3
<1> QED
  BY <1>1, <1>2

(* The statistics only grow.                                                *)
LEMMA HitsTyped ==
  ASSUME cache_lru_statistics \in [0 .. (CACHE_LRU_SIZE - 1) -> Nat],
         NEW first, first = {} \/ \E d \in Nat : first = {d},
         NEW second, second = {} \/ \E d \in Nat : second = {d}
  PROVE  CountHits(first, second) \in [0 .. (CACHE_LRU_SIZE - 1) -> Nat]
<1>1. ASSUME NEW hits, hits = {} \/ \E d \in Nat : hits = {d}, NEW e
      PROVE  Cardinality({e} \cap hits) \in Nat
  <2>1. {e} \cap hits = {} \/ {e} \cap hits = {e}
    BY <1>1
  <2>2. Cardinality({}) = 0 /\ Cardinality({e}) = 1
    BY FS_EmptySet, FS_Singleton
  <2>3. Cardinality({e} \cap hits) = 0 \/ Cardinality({e} \cap hits) = 1
    BY <2>1, <2>2, Zenon
  <2> QED
    BY <2>3
<1>2. ASSUME NEW e \in 0 .. (CACHE_LRU_SIZE - 1)
      PROVE  cache_lru_statistics[e] + Cardinality({e} \cap first) + Cardinality({e} \cap second)
               \in Nat
  <2>1. Cardinality({e} \cap first) \in Nat /\ Cardinality({e} \cap second) \in Nat
    BY <1>1
  <2> QED
    BY <2>1
<1> QED
  BY <1>2 DEF CountHits

--------------------------------------------------------------------------------
(* The lines.                                                               *)

LEMMA InitInv == Init => IInv
<1> SUFFICES ASSUME Init PROVE IInv
  OBVIOUS
<1>1. cache_lru_limit \in Nat \ {0}
  BY LimitFacts DEF Init
<1>2. /\ cache.max = 0 /\ cache.last = 0
      /\ cache.key = [s \in Slot |-> NoKey] /\ cache.value = [s \in Slot |-> <<>>]
      /\ line.token = NoText /\ line.names = <<>>
  BY DEF Init
<1>3. CacheOK(cache)
  <2>1. /\ cache.max \in Nat /\ cache.last \in Nat
        /\ IsRing(cache.max, cache.last, cache_lru_limit)
    BY <1>1, <1>2 DEF IsRing
  <2>2. /\ cache.key \in [Slot -> {NoKey} \cup Keys]
        /\ cache.value \in [Slot -> {<<>>} \cup Names]
        /\ \A s \in Slot : cache.key[s] = NoKey
    BY <1>2
  <2>3. 1 .. cache.max = {}
    BY <1>2
  <2> QED
    BY <2>1, <2>2, <2>3 DEF CacheOK
<1>4. NewestShown(cache, line.token)
  BY <1>2 DEF NewestShown
<1>5. Len(line.names) <= 2 /\ DOMAIN line.names = {}
  <2>1. Len(<<>>) = 0 /\ DOMAIN <<>> = {}
    OBVIOUS
  <2> QED
    BY <1>2, <2>1
<1>6. cache_lru_statistics \in [0 .. (CACHE_LRU_SIZE - 1) -> Nat]
  BY DEF Init
<1> QED
  BY <1>2, <1>3, <1>4, <1>5, <1>6 DEF Init, IInv

(* What the outcome of a line is to the invariant.                          *)
LEMMA LineStep ==
  ASSUME IInv, UNCHANGED <<outputtype, cache_lru_limit, flag_nocache>>,
         CacheOK(cache'),
         NEW first, first = {} \/ \E d \in Nat : first = {d},
         NEW second, second = {} \/ \E d \in Nat : second = {d},
         cache_lru_statistics' = CountHits(first, second),
         line'.token \in Tokens \cup {NoText}, Len(line'.names) <= 2,
         \A n \in DOMAIN line'.names : line'.names[n] = NameOf(line'.token, Conversions[n]),
         NewestShown(cache', line'.token)
  PROVE  IInv'
<1>1. CountHits(first, second) \in [0 .. (CACHE_LRU_SIZE - 1) -> Nat]
  BY HitsTyped DEF IInv
<1>2. Conversions' = Conversions
  BY DEF Conversions
<1>3. CacheOK(cache)'
  BY DEF CacheOK
<1>4. NewestShown(cache, line.token)'
  <2>1. SingleCached' <=> SingleCached
    BY DEF SingleCached
  <2> QED
    BY <2>1 DEF NewestShown
<1> QED
  BY <1>1, <1>2, <1>3, <1>4 DEF IInv

(* With one conversion, the newest slot is of that conversion, so it is the *)
(* only one a token is looked for in.                                       *)
LEMMA OneConversion ==
  ASSUME IInv, NEW t \in Tokens, ConvertLine(t),
         UNCHANGED <<outputtype, cache_lru_limit, flag_nocache>>
  PROVE  /\ IInv'
         /\ \A u \in Tokens :
              line.token = u /\ line'.token = u /\ ~flag_nocache => cache' = cache
<1> DEFINE r == converttoken(cache, t, outputtype)
<1>1. outputtype \in Conversion /\ outputtype # "any"
  BY LogConvAssumption DEF IInv, ConvertLine
<1>2. r = converttoken(cache, t, outputtype) /\ CacheOK(cache) /\ cache_lru_limit \in Limits
  BY DEF IInv
<1>3. /\ cache' = r.cache
      /\ cache_lru_statistics' = CountHits(r.hit, {})
      /\ r.applies => line' = [token |-> t, names |-> << r.name >>]
      /\ ~ r.applies => line' = line
  BY DEF ConvertLine, Show
<1>4. Converted(cache, t, outputtype, r)
  BY <1>1, <1>2, ConvertOK
<1> HIDE DEF r
<1>5. ASSUME SingleCached, Distances(cache, t, outputtype) # {}
      PROVE  /\ cache.max > 0 /\ cache.key[cache.last].token = t
             /\ cache.key[cache.last].conversion = outputtype
  <2>1. cache.max # 0
    BY <1>5 DEF Distances
  <2>2. cache.max > 0
    BY <1>2, <2>1 DEF CacheOK
  <2>3. cache.key[cache.last].conversion = outputtype
    BY <1>5, <2>2 DEF IInv, NewestShown
  <2>4. cache.key[cache.last].token = t
    BY <1>5, <2>3 DEF Distances
  <2> QED
    BY <2>2, <2>3, <2>4
<1>6. ASSUME SingleCached, r.applies
      PROVE  /\ r.cache.max > 0 /\ r.cache.key[r.cache.last].token = t
             /\ r.cache.key[r.cache.last].conversion = outputtype
  <2>1. CASE r.hit = {}
    BY <1>4, <1>6, <2>1 DEF Converted, Key, SingleCached
  <2>2. CASE r.hit # {}
    BY <1>4, <1>5, <1>6, <2>2 DEF Converted
  <2> QED
    BY <2>1, <2>2
<1>7. NewestShown(cache', line'.token)
  <2>1. CASE r.applies
    BY <1>3, <1>6, <2>1 DEF NewestShown
  <2>2. CASE ~ r.applies
    BY <1>3, <1>4, <2>2 DEF Converted, NewestShown, IInv
  <2> QED
    BY <2>1, <2>2
<1>8. /\ line'.token \in Tokens \cup {NoText} /\ Len(line'.names) <= 2
      /\ \A n \in DOMAIN line'.names : line'.names[n] = NameOf(line'.token, Conversions[n])
  <2>1. CASE r.applies
    <3>1. line'.token = t /\ line'.names = << NameOf(t, outputtype) >>
      BY <1>3, <1>4, <2>1 DEF Converted
    <3>2. Conversions = << outputtype >>
      BY <1>1 DEF Conversions
    <3> QED
      BY <3>1, <3>2
  <2>2. CASE ~ r.applies
    BY <1>3, <2>2 DEF IInv
  <2> QED
    BY <2>1, <2>2
<1>9. IInv'
  BY <1>3, <1>4, <1>7, <1>8, LineStep DEF Converted
<1>10. ASSUME NEW u \in Tokens, line.token = u, line'.token = u, SingleCached
       PROVE  cache' = cache
  <2>1. CASE r.applies
    <3>1. u = t
      BY <1>3, <1>10, <2>1
    <3>2. u # NoText
      BY TokensAssumption
    <3>3. cache.max > 0 /\ cache.key[cache.last].token = t
            /\ cache.key[cache.last].conversion = outputtype
      BY <1>10, <3>1, <3>2 DEF IInv, NewestShown
    <3>4. ~flag_nocache /\ cache.max # 0
      BY <1>2, <1>10, <3>3 DEF SingleCached, CacheOK
    <3>5. Distances(cache, t, outputtype) # {}
      BY <3>3, <3>4 DEF Distances
    <3> QED
      BY <1>3, <1>4, <3>5 DEF Converted
  <2>2. CASE ~ r.applies
    BY <1>3, <1>4, <2>2 DEF Converted
  <2> QED
    BY <2>1, <2>2
<1> QED
  BY <1>1, <1>9, <1>10 DEF SingleCached

(* With two, the second begins with the cache the first leaves.             *)
LEMMA TwoConversions ==
  ASSUME IInv, NEW t \in Tokens, ConvertLineAny(t),
         UNCHANGED <<outputtype, cache_lru_limit, flag_nocache>>
  PROVE  IInv'
<1> DEFINE r == converttoken(cache, t, "addrtype")
           q == converttoken(r.cache, t, "ouitype")
<1>1. "addrtype" \in Conversion /\ "ouitype" \in Conversion
  BY DEF Conversion
<1>2. CacheOK(cache) /\ cache_lru_limit \in Limits
  BY DEF IInv
<1>3. /\ outputtype = "any"
      /\ cache' = q.cache
      /\ cache_lru_statistics' = CountHits(r.hit, q.hit)
      /\ line' = [token |-> t, names |-> << r.name, q.name >>]
  BY DEF ConvertLineAny, Show
<1>4. Converted(cache, t, "addrtype", r)
  BY <1>1, <1>2, ConvertOK
<1> HIDE DEF r
<1>5. CacheOK(r.cache)
  BY <1>4 DEF Converted
<1>6. Converted(r.cache, t, "ouitype", q)
  BY <1>1, <1>2, <1>5, ConvertOK
<1> HIDE DEF q
<1>7. line'.token = t /\ line'.names = << NameOf(t, "addrtype"), NameOf(t, "ouitype") >>
  BY <1>3, <1>4, <1>6 DEF Converted
<1>8. Conversions = << "addrtype", "ouitype" >>
  BY <1>3 DEF Conversions
<1>9. /\ line'.token \in Tokens \cup {NoText} /\ Len(line'.names) <= 2
      /\ \A n \in DOMAIN line'.names : line'.names[n] = NameOf(line'.token, Conversions[n])
  BY <1>7, <1>8
<1>10. NewestShown(cache', line'.token)
  BY <1>3 DEF NewestShown, SingleCached
<1> QED
  BY <1>3, <1>4, <1>6, <1>9, <1>10, LineStep DEF Converted

LEMMA FirstOfTwo ==
  ASSUME IInv, NEW t \in Tokens, ConvertShortLineAny(t),
         UNCHANGED <<outputtype, cache_lru_limit, flag_nocache>>
  PROVE  IInv'
<1> DEFINE r == converttoken(cache, t, "addrtype")
<1>1. "addrtype" \in Conversion
  BY DEF Conversion
<1>2. CacheOK(cache) /\ cache_lru_limit \in Limits
  BY DEF IInv
<1>3. /\ outputtype = "any"
      /\ cache' = r.cache
      /\ cache_lru_statistics' = CountHits(r.hit, {})
      /\ line' = [token |-> t, names |-> << r.name >>]
  BY DEF ConvertShortLineAny, Show
<1>4. Converted(cache, t, "addrtype", r)
  BY <1>1, <1>2, ConvertOK
<1> HIDE DEF r
<1>5. line'.token = t /\ line'.names = << NameOf(t, "addrtype") >>
  BY <1>3, <1>4 DEF Converted
<1>6. Conversions = << "addrtype", "ouitype" >>
  BY <1>3 DEF Conversions
<1>7. /\ line'.token \in Tokens \cup {NoText} /\ Len(line'.names) <= 2
      /\ \A n \in DOMAIN line'.names : line'.names[n] = NameOf(line'.token, Conversions[n])
  BY <1>5, <1>6
<1>8. NewestShown(cache', line'.token)
  BY <1>3 DEF NewestShown, SingleCached
<1> QED
  BY <1>3, <1>4, <1>7, <1>8, LineStep DEF Converted

LEMMA StutterStep ==
  ASSUME IInv, UNCHANGED vars
  PROVE  IInv'
<1>1. CacheOK(cache)' /\ NewestShown(cache, line.token)'
  BY DEF vars, IInv, CacheOK, NewestShown, SingleCached
<1> QED
  BY <1>1 DEF vars, IInv, Conversions

LEMMA NextInv == IInv /\ [Next]_vars => IInv'
<1>1. ASSUME IInv, Next PROVE IInv'
  <2>1. PICK t \in Tokens : Line(t)
    BY <1>1 DEF Next
  <2>2. UNCHANGED <<outputtype, cache_lru_limit, flag_nocache>>
    BY <1>1 DEF Next
  <2> QED
    BY <1>1, <2>1, <2>2, OneConversion, TwoConversions, FirstOfTwo DEF Line
<1> QED
  BY <1>1, StutterStep

(* The ring and what its slots hold, after any number of lines.             *)
THEOREM Invariant == Spec => []IInv
BY InitInv, NextInv, PTL DEF Spec

--------------------------------------------------------------------------------
(* Every variable of ipv6logconv keeps a value of its kind.                 *)
THEOREM TypeCorrect == Spec => []TypeOK
<1>1. IInv => TypeOK
  <2> SUFFICES ASSUME IInv PROVE TypeOK
    OBVIOUS
  <2>1. cache.max \in 0 .. CACHE_LRU_SIZE /\ cache.last \in 0 .. CACHE_LRU_SIZE
    BY LogConvAssumption DEF IInv, CacheOK, IsRing
  <2> QED
    BY <2>1 DEF IInv, CacheOK, Keys, Names, TypeOK
<1> QED
  BY <1>1, Invariant, PTL

(* However many lines come and whatever the two conversions of a line leave *)
(* out of the cache, the filled slots are the first ones within the limit,  *)
(* the newest is one of them, and the ring wraps only when it is full.      *)
THEOREM RingStaysIntact == Spec => []RingIntact
<1>1. IInv => RingIntact
  <2> SUFFICES ASSUME IInv PROVE RingIntact
    OBVIOUS
  <2>1. /\ cache_lru_limit \in Nat /\ 1 .. cache_lru_limit \subseteq Slot
        /\ cache.max \in 0 .. cache_lru_limit /\ cache.last \in 0 .. cache.max
        /\ cache.last = 0 => cache.max = 0
        /\ cache.max < cache_lru_limit => cache.last = cache.max
    BY LimitFacts DEF IInv, CacheOK, IsRing
  <2>2. Filled = 1 .. cache.max
    <3>1. 1 .. cache.max \subseteq Slot
      BY <2>1
    <3> QED
      BY <3>1 DEF IInv, CacheOK, Filled
  <2> QED
    BY <2>1, <2>2 DEF RingIntact
<1> QED
  BY <1>1, Invariant, PTL

(* For any names the tables give: what is printed for a token is its own    *)
(* name in the conversion that was asked for, with the cache or without it. *)
THEOREM NamesStayTransparent == Spec => []NamesAreTransparent
<1>1. IInv => NamesAreTransparent
  <2> SUFFICES ASSUME IInv PROVE NamesAreTransparent
    OBVIOUS
  <2>1. \A s \in Filled :
          cache.value[s] = NameOf(cache.key[s].token, cache.key[s].conversion)
    BY DEF IInv, CacheOK, Filled
  <2> QED
    BY <2>1 DEF IInv, NamesAreTransparent
<1> QED
  BY <1>1, Invariant, PTL

(* With a single conversion, a token that was shown last is found again, in *)
(* a cache of any size: the search does not leave the newest slot then, and *)
(* that slot is the token's.                                                *)
THEOREM RepeatStaysFound == Spec => RepeatIsFound
<1>1. ASSUME IInv, [Next]_vars
      PROVE  [ \A t \in Tokens :
                 /\ line.token = t /\ (line').token = t
                 /\ outputtype # "any" /\ ~flag_nocache
                 => cache' = cache ]_vars
  <2>1. CASE Next
    <3>1. PICK t \in Tokens : Line(t)
      BY <2>1 DEF Next
    <3>2. UNCHANGED <<outputtype, cache_lru_limit, flag_nocache>>
      BY <2>1 DEF Next
    <3>3. outputtype # "any" => ConvertLine(t)
      BY <3>1 DEF Line, ConvertLineAny, ConvertShortLineAny
    <3> QED
      BY <1>1, <3>2, <3>3, OneConversion
  <2>2. CASE UNCHANGED vars
    BY <2>2
  <2> QED
    BY <1>1, <2>1, <2>2
<1> QED
  BY <1>1, Invariant, PTL DEF Spec, RepeatIsFound

================================================================================
