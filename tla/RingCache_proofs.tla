---------------------------- MODULE RingCache_proofs ----------------------------
(***************************************************************************)
(* Facts about the ring's index arithmetic, for every limit.               *)
(***************************************************************************)
EXTENDS RingCache, WellFoundedInduction, TLAPS

(* The shape a ring has when all insertions use the limit L.                *)
IsRing(max, last, L) ==
  /\ max \in 0 .. L
  /\ last \in 0 .. max
  /\ last = 0 => max = 0
  /\ max < L => last = max

(* An insertion keeps the shape, and the new entry's slot is a filled one:  *)
(* the next free slot while the ring grows, any old one afterwards.         *)
LEMMA Advance ==
  ASSUME NEW L \in Nat \ {0}, NEW max \in Nat, NEW last \in Nat, IsRing(max, last, L)
  PROVE  /\ IsRing(NextMax(max, L), NextLast(max, last, L), L)
         /\ NextLast(max, last, L) \in 1 .. NextMax(max, L)
         /\ NextMax(max, L) \in max .. (max + 1)
         /\ NextMax(max, L) = max + 1 => NextLast(max, last, L) = max + 1
BY DEF IsRing, NextMax, NextLast

(* A lookup visits max slots.                                               *)
LEMMA Depth ==
  ASSUME NEW L \in Nat \ {0}, NEW max \in Nat, NEW last \in Nat, IsRing(max, last, L)
  PROVE  SearchDepth(max, last) = max
BY DEF IsRing, SearchDepth

(* The walk of a lookup stays within the filled slots ...                   *)
LEMMA SlotAtInRange ==
  ASSUME NEW L \in Nat \ {0}, NEW max \in Nat, NEW last \in Nat, IsRing(max, last, L),
         NEW d \in 0 .. (max - 1)
  PROVE  SlotAt(max, last, d) \in 1 .. max
BY DEF IsRing, SlotAt

(* ... and reaches every one of them.                                       *)
LEMMA SlotAtOnto ==
  ASSUME NEW L \in Nat \ {0}, NEW max \in Nat, NEW last \in Nat, IsRing(max, last, L),
         NEW i \in 1 .. max
  PROVE  \E d \in 0 .. (max - 1) : SlotAt(max, last, d) = i
<1> DEFINE d == IF i <= last THEN last - i ELSE max + last - i
<1>1. d \in 0 .. (max - 1)
  BY DEF IsRing
<1>2. SlotAt(max, last, d) = i
  BY DEF IsRing, SlotAt
<1> QED
  BY <1>1, <1>2

(* A new entry is the first one a lookup visits, and moves every other one  *)
(* a step further away; at the limit it took the slot of the farthest.      *)
LEMMA Shift ==
  ASSUME NEW L \in Nat \ {0}, NEW max \in Nat, NEW last \in Nat, IsRing(max, last, L)
  PROVE  LET m == NextMax(max, L)
             n == NextLast(max, last, L)
         IN /\ SlotAt(m, n, 0) = n
            /\ \A d \in 1 .. (m - 1) :
                 SlotAt(m, n, d) = SlotAt(max, last, d - 1) /\ SlotAt(m, n, d) # n
BY DEF IsRing, SlotAt, NextMax, NextLast

(* So a lookup misses exactly when no filled slot holds the key.            *)
LEMMA MissIsAbsent ==
  ASSUME NEW L \in Nat \ {0}, NEW max \in Nat, NEW last \in Nat, IsRing(max, last, L),
         NEW token, NEW k
  PROVE  Matches(token, max, last, k) = {} <=> \A i \in 1 .. max : token[i] # k
<1>1. ASSUME Matches(token, max, last, k) = {}, NEW i \in 1 .. max
      PROVE  token[i] # k
  <2>1. PICK d \in 0 .. (max - 1) : SlotAt(max, last, d) = i
    BY SlotAtOnto
  <2> QED
    BY <1>1, <2>1, Depth DEF Matches
<1>2. ASSUME \A i \in 1 .. max : token[i] # k
      PROVE  Matches(token, max, last, k) = {}
  BY <1>2, Depth, SlotAtInRange DEF Matches
<1> QED
  BY <1>1, <1>2

(* The nearest of a non-empty set of distances is one of them, and no other  *)
(* is smaller.                                                              *)
LEMMA NearestIsLeast ==
  ASSUME NEW D \in SUBSET Nat, D # {}
  PROVE  Nearest(D) \in D /\ \A e \in D : Nearest(D) <= e
<1> DEFINE R == OpToRel(<, Nat)
<1>1. PICK d \in D : \A e \in D : <<e, d>> \notin R
  <2>1. IsWellFoundedOn(R, Nat)
    BY NatLessThanWellFounded
  <2> HIDE DEF R
  <2> QED
    BY <2>1, WFMin
<1>2. \A e \in D : <<e, d>> \notin R => d <= e
  BY DEF OpToRel
<1>3. \A e \in D : d <= e
  <2> HIDE DEF R
  <2> QED
    BY <1>1, <1>2
<1> QED
  BY <1>3 DEF Nearest
================================================================================
