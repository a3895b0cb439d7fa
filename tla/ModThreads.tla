------------------------------ MODULE ModThreads ------------------------------
(***************************************************************************)
(* The cache of mod_ipv6calc in a child that serves requests with several  *)
(* threads, as under the MPMs worker and event: the statics have no lock,  *)
(* so the threads' requests interleave inside the hook.  A step is one     *)
(* condition, one round of a search, or one read or write of the indexes,  *)
(* in the order of the program; a token or a text is one unit.  One ring,  *)
(* one server, its counters left out.                                      *)
(***************************************************************************)
EXTENDS Integers, Sequences, FiniteSets

CONSTANTS
  Thread,      \* the threads of the child
  Addr,        \* the addresses requests come from
  NoAddr,      \* an empty slot's token, and the data in it
  Data,        \* the configured actions, in the order of the hook
  limit,       \* the server's cache_limit
  Size,        \* the length of the arrays
  MaxRequests  \* bound: the requests the child serves

ASSUME ThreadsAssumption == NoAddr \notin Addr /\ Data \in Seq(STRING) /\ Data # <<>>
ASSUME LimitAssumption == limit \in Nat \ {0} /\ Size \in Nat /\ limit <= Size
(* The index moves by one per request: it stays inside the arrays.         *)
ASSUME RequestsAssumption == MaxRequests \in Nat /\ MaxRequests <= Size

VARIABLES
  lri_max, lri_last,   \* the indexes of the ring
  lri_token,           \* [1 .. Size -> Addr \cup {NoAddr}]
  lri_value,           \* [1 .. Size -> [1 .. Len(Data) -> the address it is about]]
  pc,                  \* where each thread is in the hook
  addr,                \* the address of its request
  i,                   \* its i or hit, and the value of lri_last it has in a register
  m,                   \* the value of lri_max it has in a register
  done,                \* how many data it has read or stored
  told,                \* the data of its last request, by the address they are about
  requests,            \* how many requests have come
  overlapped,          \* history: two threads were storing at a time
  disturbed            \* history: the threads whose request met another's store

ring   == <<lri_max, lri_last, lri_token, lri_value>>
locals == <<addr, i, m, done, told>>
vars   == <<ring, pc, locals, requests, overlapped, disturbed>>

Storing == {"store", "advance", "wrap", "grow", "token", "data"}
Looking == {"lookup", "newest", "backwards", "robin", "hit"}

(* The statics of a new child.                                              *)
Init ==
  /\ lri_max = 0 /\ lri_last = 0
  /\ lri_token = [ s \in 1 .. Size |-> NoAddr ]
  /\ lri_value = [ s \in 1 .. Size |-> [ d \in 1 .. Len(Data) |-> NoAddr ] ]
  /\ pc = [ t \in Thread |-> "idle" ]
  /\ addr = [ t \in Thread |-> NoAddr ]
  /\ i = [ t \in Thread |-> 0 ] /\ m = [ t \in Thread |-> 0 ] /\ done = [ t \in Thread |-> 0 ]
  /\ told = [ t \in Thread |-> [ d \in 1 .. Len(Data) |-> NoAddr ] ]
  /\ requests = 0 /\ overlapped = FALSE /\ disturbed = {}

Goto(t, where) == pc' = [ pc EXCEPT ![t] = where ]

(* The hook returns, and its locals are gone.                               *)
Return(t) ==
  /\ Goto(t, "answered")
  /\ i' = [ i EXCEPT ![t] = 0 ] /\ m' = [ m EXCEPT ![t] = 0 ]
  /\ done' = [ done EXCEPT ![t] = 0 ]
  /\ UNCHANGED addr

(* A request reaches the hook.                                              *)
Arrive(t, a) ==
  /\ pc[t] \in {"idle", "answered"} /\ requests < MaxRequests
  /\ requests' = requests + 1
  /\ addr' = [ addr EXCEPT ![t] = a ]
  /\ told' = [ told EXCEPT ![t] = [ d \in 1 .. Len(Data) |-> NoAddr ] ]
  /\ Goto(t, "lookup")
  /\ UNCHANGED <<ring, i, m, done>>

--------------------------------------------------------------------------------
(* The search.                                                              *)

(* Faulty: the newest slot is looked at whether there is one or not.        *)
Lookup_always(t) ==
  /\ pc[t] = "lookup"
  /\ i' = [ i EXCEPT ![t] = lri_last ]
  /\ Goto(t, "newest")
  /\ UNCHANGED <<ring, addr, m, done, told, requests>>

Lookup(t) ==
  /\ pc[t] = "lookup"
  /\ i' = [ i EXCEPT ![t] = lri_last ]
  /\ Goto(t, IF lri_max > 0 THEN "newest" ELSE "store")
  /\ UNCHANGED <<ring, addr, m, done, told, requests>>

(* The newest slot matches: hit is read from lri_last again, or not.        *)
FoundNewest(t) ==
  /\ pc[t] = "newest" /\ lri_token[i[t]] = addr[t]
  /\ \E slot \in {i[t], lri_last} : i' = [ i EXCEPT ![t] = slot ]
  /\ Goto(t, "hit")
  /\ UNCHANGED <<ring, addr, m, done, told, requests>>

NotNewest(t) ==
  /\ pc[t] = "newest" /\ lri_token[i[t]] # addr[t]
  /\ i' = [ i EXCEPT ![t] = lri_last - 1 ]
  /\ Goto(t, "backwards")
  /\ UNCHANGED <<ring, addr, m, done, told, requests>>

(* Faulty: a slot whose token is not there yet is waited for.               *)
Compare_waits(t) ==
  CASE lri_token[i[t]] = addr[t] -> Goto(t, "hit") /\ UNCHANGED i
    [] lri_token[i[t]] = NoAddr  -> UNCHANGED <<pc, i>>
    [] OTHER -> i' = [ i EXCEPT ![t] = @ - 1 ] /\ UNCHANGED pc

(* Faulty: the slot compared is i - 1, the slot taken is i.                 *)
Compare_slotAbove(t) ==
  IF lri_token[i[t]] = addr[t]
  THEN Goto(t, "hit") /\ i' = [ i EXCEPT ![t] = @ + 1 ]
  ELSE i' = [ i EXCEPT ![t] = @ - 1 ] /\ UNCHANGED pc

(* Slot i of the backward search or of the round robin.                     *)
Compare(t) ==
  IF lri_token[i[t]] = addr[t]
  THEN Goto(t, "hit") /\ UNCHANGED i
  ELSE i' = [ i EXCEPT ![t] = @ - 1 ] /\ UNCHANGED pc

Backwards(t) ==
  /\ pc[t] = "backwards" /\ i[t] > 0
  /\ Compare(t)
  /\ UNCHANGED <<ring, addr, m, done, told, requests>>

(* The first slot is passed: on from the last one, if the ring goes on.     *)
TurnRound(t) ==
  /\ pc[t] = "backwards" /\ i[t] <= 0
  /\ i' = [ i EXCEPT ![t] = lri_max ]
  /\ Goto(t, IF lri_last < lri_max THEN "robin" ELSE "store")
  /\ UNCHANGED <<ring, addr, m, done, told, requests>>

(* Each round asks where the newest slot is by then.                        *)
GoesOn(slot) == slot > lri_last

RoundRobin(t) ==
  /\ pc[t] = "robin" /\ GoesOn(i[t])
  /\ Compare(t)
  /\ UNCHANGED <<ring, addr, m, done, told, requests>>

NotFound(t) ==
  /\ pc[t] = "robin" /\ ~GoesOn(i[t])
  /\ Goto(t, "store")
  /\ UNCHANGED <<ring, locals, requests>>

(* Having handled one datum, on to the next, or back to httpd.              *)
NextDatum(t) ==
  IF done[t] + 1 = Len(Data) THEN Return(t)
  ELSE done' = [ done EXCEPT ![t] = @ + 1 ] /\ UNCHANGED <<pc, addr, i, m>>

(* A hit answers one datum after the other.                                 *)
Hit(t) ==
  /\ pc[t] = "hit"
  /\ told' = [ told EXCEPT ![t][done[t] + 1] = lri_value[i[t]][done[t] + 1] ]
  /\ NextDatum(t)
  /\ UNCHANGED <<ring, requests>>

--------------------------------------------------------------------------------
(* The store.                                                               *)

Store(t) ==
  /\ pc[t] = "store"
  /\ m' = [ m EXCEPT ![t] = lri_max ] /\ i' = [ i EXCEPT ![t] = lri_last ]
  /\ Goto(t, IF lri_max >= limit /\ lri_last = limit THEN "wrap" ELSE "advance")
  /\ UNCHANGED <<ring, addr, done, told, requests>>

(* The program reads an index again to increment it; the compiled one may   *)
(* have kept what the condition read.                                       *)
ReadAgain(t) ==
  /\ \/ pc[t] = "advance" /\ i' = [ i EXCEPT ![t] = lri_last ] /\ UNCHANGED m
     \/ pc[t] = "grow" /\ m' = [ m EXCEPT ![t] = lri_max ] /\ UNCHANGED i
  /\ UNCHANGED <<ring, pc, addr, done, told, requests>>

Advance(t) ==
  /\ pc[t] = "advance"
  /\ lri_last' = i[t] + 1
  /\ Goto(t, IF m[t] < limit THEN "grow" ELSE "token")
  /\ UNCHANGED <<lri_max, lri_token, lri_value, locals, requests>>

Wrap(t) ==
  /\ pc[t] = "wrap"
  /\ lri_last' = 1
  /\ Goto(t, "token")
  /\ UNCHANGED <<lri_max, lri_token, lri_value, locals, requests>>

Grow(t) ==
  /\ pc[t] = "grow"
  /\ lri_max' = m[t] + 1
  /\ Goto(t, "token")
  /\ UNCHANGED <<lri_last, lri_token, lri_value, locals, requests>>

(* The address, then each datum, go to the slot that is the newest by then. *)
StoreToken(t) ==
  /\ pc[t] = "token"
  /\ lri_token' = [ lri_token EXCEPT ![lri_last] = addr[t] ]
  /\ Goto(t, "data")
  /\ UNCHANGED <<lri_max, lri_last, lri_value, locals, requests>>

(* What a miss is told comes from buffers of the request's own.             *)
StoreDatum(t) ==
  /\ pc[t] = "data"
  /\ lri_value' = [ lri_value EXCEPT ![lri_last][done[t] + 1] = addr[t] ]
  /\ told' = [ told EXCEPT ![t][done[t] + 1] = addr[t] ]
  /\ NextDatum(t)
  /\ UNCHANGED <<lri_max, lri_last, lri_token, requests>>

--------------------------------------------------------------------------------
(* Every step also brings the history up to date.                           *)

StoringNow == { t \in Thread : pc[t] \in Storing }

Watch ==
  /\ overlapped' = (overlapped \/ \E t, u \in StoringNow' : t # u)
  /\ disturbed' =
       { t \in Thread :
           /\ pc'[t] # "idle" /\ (pc'[t] = "lookup" => pc[t] = "lookup")
           /\ t \in disturbed \/ StoringNow' \ {t} # {} }

Step(t) ==
  /\ \/ Lookup(t) \/ FoundNewest(t) \/ NotNewest(t) \/ Backwards(t) \/ TurnRound(t)
     \/ RoundRobin(t) \/ NotFound(t) \/ Hit(t)
     \/ Store(t) \/ Advance(t) \/ Wrap(t) \/ Grow(t) \/ StoreToken(t) \/ StoreDatum(t)
  /\ Watch

Next ==
  \E t \in Thread :
    \/ (\E a \in Addr : Arrive(t, a)) /\ Watch
    \/ ReadAgain(t) /\ Watch
    \/ Step(t)

(* The system runs every thread that can run; nothing makes requests come.  *)
Fairness == \A t \in Thread : WF_vars(Step(t))

Spec == Init /\ [][Next]_vars /\ Fairness

--------------------------------------------------------------------------------
(* Properties.                                                              *)

(* Every variable but told holds a value of its kind, and a thread that     *)
(* found the ring in use never looks in front of its first slot, whatever   *)
(* another thread has done of its store.                                    *)
TypeOK ==
  /\ lri_max \in Nat /\ lri_last \in Nat
  /\ lri_token \in [1 .. Size -> Addr \cup {NoAddr}]
  /\ lri_value \in [1 .. Size -> [1 .. Len(Data) -> Addr \cup {NoAddr}]]
  /\ pc \in [Thread -> {"idle", "answered"} \cup Looking \cup Storing]
  /\ addr \in [Thread -> Addr \cup {NoAddr}]
  /\ i \in [Thread -> Nat] /\ m \in [Thread -> Nat]
  /\ done \in [Thread -> 0 .. (Len(Data) - 1)]
  /\ requests \in 0 .. MaxRequests
  /\ overlapped \in BOOLEAN /\ disturbed \subseteq Thread
  /\ \A t \in Thread : pc[t] \in {"newest", "hit"} => i[t] > 0

(* Threads that only read the cache do not disturb each other: an answer    *)
(* that is about another address, or about none, took a store of another    *)
(* thread during the request, or two stores at a time before.               *)
RightUnlessOverlapped ==
  \A t \in Thread :
    pc[t] = "answered" /\ t \notin disturbed /\ ~overlapped =>
      \A d \in 1 .. Len(Data) : told[t][d] = addr[t]

(* How far a thread is from its answer: the part of the hook it is in, and  *)
(* the slots or data left for it there.                                     *)
Stage(t) ==
  CASE pc[t] = "lookup"    -> 9
    [] pc[t] = "newest"    -> 8
    [] pc[t] = "backwards" -> 7
    [] pc[t] = "robin"     -> 6
    [] pc[t] = "store"     -> 5
    [] pc[t] \in {"advance", "wrap"} -> 4
    [] pc[t] = "grow"      -> 3
    [] pc[t] = "token"     -> 2
    [] pc[t] \in {"hit", "data"}     -> 1
    [] OTHER               -> 0

Left(t) ==
  CASE pc[t] \in {"backwards", "robin"} -> i[t]
    [] pc[t] \in {"hit", "data"}        -> Len(Data) - done[t]
    [] OTHER                            -> 0

Closer(t) == Stage(t)' < Stage(t) \/ (Stage(t)' = Stage(t) /\ Left(t)' < Left(t))

(* A thread's own step always brings it closer to its answer, and no step   *)
(* of another thread sets it back, though they move the indexes it goes by. *)
EveryStepCounts ==
  [][\A t \in Thread :
       /\ Step(t) => Closer(t)
       /\ pc[t] \in Looking \cup Storing =>
            Closer(t) \/ (Stage(t)' = Stage(t) /\ Left(t)' = Left(t))]_vars

(* No thread searches for ever, however the ring moves under the search.    *)
EveryRequestIsAnswered ==
  \A t \in Thread : pc[t] \in Looking \cup Storing ~> pc[t] = "answered"

================================================================================
