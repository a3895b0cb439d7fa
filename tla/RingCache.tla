------------------------------- MODULE RingCache -------------------------------
(***************************************************************************)
(* The index arithmetic of the "last recently inserted" caches.  The       *)
(* Apache module and the log anonymizer hold the same structure, written   *)
(* out once in each program:                                               *)
(*                                                                         *)
(*   max    how many slots were ever filled (never more than the limit)    *)
(*   last   the slot of the newest entry, counted from 1 (the C code       *)
(*          subtracts 1 wherever it indexes an array); 0 when empty        *)
(*   token  the key of each slot                                           *)
(*                                                                         *)
(* A lookup walks backwards in time: the newest slot first, then down to   *)
(* slot 1, then from slot max down to the slot after the newest one.  The  *)
(* number of slots it passed, the distance, indexes the statistics array.  *)
(***************************************************************************)
EXTENDS Naturals

(* The slot a lookup visits after passing d others. *)
SlotAt(max, last, d) == IF d < last THEN last - d ELSE max + last - d

(* A faulty form: the walk stops at slot 1.                                 *)
SearchDepth_noRoundRobin(max, last) == last

(* A faulty form: the slot visited last is left out.                        *)
SearchDepth_oneLess(max, last) == IF max = 0 THEN 0 ELSE max - 1

(* How many slots a lookup visits.  It is max unless last has run past max, *)
(* when the walk down from last is the longer one and the round robin walk  *)
(* is skipped.                                                              *)
SearchDepth(max, last) ==
  IF max = 0 THEN 0 ELSE IF last < max THEN max ELSE last

(* The distances at which a lookup for k would find a matching slot. *)
Matches(token, max, last, k) ==
  { d \in 0 .. (SearchDepth(max, last) - 1) : token[SlotAt(max, last, d)] = k }

(* The distance of the slot that answers.                                   *)
Nearest(D) == CHOOSE d \in D : \A e \in D : d <= e

(* A faulty form: the ring grows past its limit.                            *)
NextMax_always(max, limit) == max + 1

(* The advance made before a new entry is stored: grow until the limit is   *)
(* reached, then reuse the slots from the first one on.                     *)
NextMax(max, limit) == IF max < limit THEN max + 1 ELSE max

(* Faulty forms: the index runs on; the index stays at the limit.           *)
NextLast_noWrap(max, last, limit) == last + 1
NextLast_stays(max, last, limit) == IF max < limit THEN last + 1 ELSE limit

(* The slot the entry goes to.                                              *)
NextLast(max, last, limit) ==
  IF max >= limit /\ last = limit THEN 1 ELSE last + 1

================================================================================
