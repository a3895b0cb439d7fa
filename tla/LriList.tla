-------------------------------- MODULE LriList --------------------------------
(***************************************************************************)
(* What a "last recently inserted" cache promises, without slots or        *)
(* indices: the keys it knows are the limit newest different keys that     *)
(* were inserted, newest first.  Looking a key up changes nothing (this is *)
(* no LRU cache: a hit does not make a key newer).                         *)
(***************************************************************************)
EXTENDS Naturals, Sequences

CONSTANTS
  Owner,    \* whoever has a list of its own
  Key       \* the keys

VARIABLES
  limit,    \* how many keys a list may hold; fixed
  newest    \* [Owner -> Seq(Key)]: the known keys, the newest first

listVars == <<limit, newest>>

Init == newest = [ o \in Owner |-> <<>> ]

(* A key that is not known becomes the newest; at the limit the oldest one  *)
(* is forgotten.                                                            *)
Insert(o, k) ==
  LET old == newest[o]
      n   == IF Len(old) < limit THEN Len(old) + 1 ELSE limit
  IN /\ \A i \in DOMAIN old : old[i] # k
     /\ newest' = [ newest EXCEPT ![o] = [ i \in 1 .. n |-> IF i = 1 THEN k ELSE old[i - 1] ] ]
     /\ UNCHANGED limit

(* Everything is forgotten.                                                 *)
Clear ==
  /\ newest' = [ o \in Owner |-> <<>> ]
  /\ UNCHANGED limit

Next == (\E o \in Owner, k \in Key : Insert(o, k)) \/ Clear

Spec == Init /\ [][Next]_listVars

================================================================================
