--------------------------- MODULE ModThreads_proofs ---------------------------
(***************************************************************************)
(* For any number of threads, requests and slots: no thread looks in front *)
(* of the first slot.  What a store does first is move lri_last, and once  *)
(* moved it is never 0 again; every thread past the test of lri_max, or    *)
(* past its own move, relies on that.                                      *)
(***************************************************************************)
EXTENDS ModThreads, TLAPS

(* Where a thread is that relies on there being a newest slot.              *)
Relying == {"newest", "backwards", "robin", "hit", "grow", "token", "data"}

(* The index has been moved when the ring is in use.                        *)
Moved == lri_max > 0 \/ (\E t \in Thread : pc[t] \in Relying) => lri_last > 0

IInv == TypeOK /\ Moved

USE DEF ring, locals, Looking, Storing

LEMMA DataLength == Len(Data) \in Nat \ {0}
<1>1. Data \in Seq(STRING) /\ Data # <<>>
  BY ThreadsAssumption
<1> QED
  BY <1>1

(* A child starts with an empty ring.                                       *)
LEMMA InitIInv == Init => IInv
<1> SUFFICES ASSUME Init PROVE IInv
  OBVIOUS
<1>1. lri_value \in [1 .. Size -> [1 .. Len(Data) -> Addr \cup {NoAddr}]]
  BY DEF Init
<1>2. done \in [Thread -> 0 .. (Len(Data) - 1)]
  BY DataLength DEF Init
<1>3. requests \in 0 .. MaxRequests
  BY RequestsAssumption DEF Init
<1>4. \A t \in Thread : pc[t] = "idle"
  BY DEF Init
<1> QED
  BY <1>1, <1>2, <1>3, <1>4 DEF Init, IInv, TypeOK, Moved, Relying

(* What the history remembers does not matter to the rest.                  *)
LEMMA WatchTyped ==
  ASSUME Watch
  PROVE  overlapped' \in BOOLEAN /\ disturbed' \subseteq Thread
  BY DEF Watch

(* Leaving the hook.                                                        *)
LEMMA DatumTyped ==
  ASSUME TypeOK, NEW t \in Thread, NextDatum(t), pc[t] \in Looking \cup Storing
  PROVE  /\ pc' \in [Thread -> {"idle", "answered"} \cup Looking \cup Storing]
         /\ addr' \in [Thread -> Addr \cup {NoAddr}]
         /\ i' \in [Thread -> Nat] /\ m' \in [Thread -> Nat]
         /\ done' \in [Thread -> 0 .. (Len(Data) - 1)]
         /\ \A u \in Thread : (pc'[u] = pc[u] /\ i'[u] = i[u]) \/ pc'[u] = "answered"
<1>1. CASE done[t] + 1 = Len(Data)
  <2>1. Return(t)
    BY <1>1 DEF NextDatum
  <2>2. 0 \in 0 .. (Len(Data) - 1)
    BY DataLength
  <2>3. /\ pc' \in [Thread -> {"idle", "answered"} \cup Looking \cup Storing]
        /\ \A u \in Thread : pc'[u] = IF u = t THEN "answered" ELSE pc[u]
    BY <2>1 DEF Return, Goto, TypeOK
  <2>4. /\ i' \in [Thread -> Nat] /\ m' \in [Thread -> Nat]
        /\ \A u \in Thread : i'[u] = IF u = t THEN 0 ELSE i[u]
    BY <2>1 DEF Return, TypeOK
  <2>5. done' \in [Thread -> 0 .. (Len(Data) - 1)]
    BY <2>1, <2>2 DEF Return, TypeOK
  <2>6. addr' \in [Thread -> Addr \cup {NoAddr}]
    BY <2>1 DEF Return, TypeOK
  <2> QED
    BY <2>3, <2>4, <2>5, <2>6
<1>2. CASE done[t] + 1 # Len(Data)
  <2>1. done[t] + 1 \in 0 .. (Len(Data) - 1)
    BY <1>2, DataLength DEF TypeOK
  <2> QED
    BY <1>2, <2>1 DEF NextDatum, TypeOK
<1> QED
  BY <1>1, <1>2

(* One round of a search stays at a slot or ends before the first.          *)
LEMMA ComparedTyped ==
  ASSUME TypeOK, NEW t \in Thread, Compare(t), i[t] > 0
  PROVE  /\ pc' \in [Thread -> {"idle", "answered"} \cup Looking \cup Storing]
         /\ i' \in [Thread -> Nat]
         /\ pc'[t] \in {pc[t], "hit"}
         /\ pc'[t] = "hit" => i'[t] > 0 \/ pc[t] = "hit"
         /\ \A u \in Thread \ {t} : pc'[u] = pc[u] /\ i'[u] = i[u]
<1>1. CASE lri_token[i[t]] = addr[t]
  BY <1>1 DEF Compare, Goto, TypeOK
<1>2. CASE lri_token[i[t]] # addr[t]
  BY <1>2 DEF Compare, TypeOK
<1> QED
  BY <1>1, <1>2

(* Every step keeps the kinds and relies on a moved index only.             *)
LEMMA NextIInv == IInv /\ [Next]_vars => IInv'
<1> SUFFICES ASSUME IInv, [Next]_vars PROVE IInv'
  OBVIOUS
<1> USE DataLength
<1>1. ASSUME UNCHANGED vars PROVE IInv'
  BY <1>1 DEF IInv, TypeOK, Moved, vars
<1>2. ASSUME NEW t \in Thread, NEW a \in Addr, Arrive(t, a), Watch PROVE IInv'
  BY <1>2, WatchTyped, RequestsAssumption DEF Arrive, Goto, IInv, TypeOK, Moved, Relying
<1>3. ASSUME NEW t \in Thread, ReadAgain(t), Watch PROVE IInv'
  BY <1>3, WatchTyped DEF ReadAgain, IInv, TypeOK, Moved, Relying
<1>4. ASSUME NEW t \in Thread, Step(t) PROVE IInv'
  <2>0. overlapped' \in BOOLEAN /\ disturbed' \subseteq Thread
    BY <1>4, WatchTyped DEF Step
  <2>1. CASE Lookup(t)
    BY <2>0, <2>1 DEF Lookup, Goto, IInv, TypeOK, Moved, Relying
  <2>2. CASE FoundNewest(t)
    <3>1. lri_last > 0
      BY <2>2 DEF FoundNewest, IInv, Moved, Relying
    <3> QED
      BY <2>0, <2>2, <3>1 DEF FoundNewest, Goto, IInv, TypeOK, Moved, Relying
  <2>3. CASE NotNewest(t)
    <3>1. lri_last > 0
      BY <2>3 DEF NotNewest, IInv, Moved, Relying
    <3> QED
      BY <2>0, <2>3, <3>1 DEF NotNewest, Goto, IInv, TypeOK, Moved, Relying
  <2>4. CASE Backwards(t) \/ RoundRobin(t)
    <3>1. i[t] > 0 /\ pc[t] \in {"backwards", "robin"}
      BY <2>4 DEF Backwards, RoundRobin, GoesOn, IInv, TypeOK
    <3>2. Compare(t) /\ UNCHANGED <<ring, addr, m, done, told, requests>>
      BY <2>4 DEF Backwards, RoundRobin
    <3> QED
      BY <2>0, <3>1, <3>2, ComparedTyped DEF IInv, TypeOK, Moved, Relying
  <2>5. CASE TurnRound(t)
    BY <2>0, <2>5 DEF TurnRound, Goto, IInv, TypeOK, Moved, Relying
  <2>6. CASE NotFound(t)
    BY <2>0, <2>6 DEF NotFound, Goto, IInv, TypeOK, Moved, Relying
  <2>7. CASE Hit(t)
    BY <2>0, <2>7, DatumTyped DEF Hit, IInv, TypeOK, Moved, Relying
  <2>8. CASE Store(t)
    BY <2>0, <2>8 DEF Store, Goto, IInv, TypeOK, Moved, Relying
  <2>9. CASE Advance(t)
    BY <2>0, <2>9 DEF Advance, Goto, IInv, TypeOK, Moved, Relying
  <2>10. CASE Wrap(t)
    BY <2>0, <2>10 DEF Wrap, Goto, IInv, TypeOK, Moved, Relying
  <2>11. CASE Grow(t)
    BY <2>0, <2>11 DEF Grow, Goto, IInv, TypeOK, Moved, Relying
  <2>12. CASE StoreToken(t)
    BY <2>0, <2>12 DEF StoreToken, Goto, IInv, TypeOK, Moved, Relying
  <2>13. CASE StoreDatum(t)
    BY <2>0, <2>13, DatumTyped DEF StoreDatum, IInv, TypeOK, Moved, Relying
  <2> QED
    BY <1>4, <2>1, <2>2, <2>3, <2>4, <2>5, <2>6, <2>7, <2>8, <2>9, <2>10, <2>11, <2>12, <2>13
       DEF Step
<1> QED
  BY <1>1, <1>2, <1>3, <1>4 DEF Next

(* However the threads interleave and whatever the compiler keeps in        *)
(* registers, a thread that searches the ring, or answers from it, does so  *)
(* from the first slot on.                                                  *)
THEOREM TypeCorrect == Spec => []TypeOK
<1>1. Init => IInv
  BY InitIInv
<1>2. IInv /\ [Next]_vars => IInv'
  BY NextIInv
<1>3. IInv => TypeOK
  BY DEF IInv
<1> QED
  BY <1>1, <1>2, <1>3, PTL DEF Spec

--------------------------------------------------------------------------------
(* Why an answer is right as long as nothing overlapped.  The steps of a    *)
(* store are seen one by one: which slots agree with their tokens, what the *)
(* storing thread has in its registers, and that nobody who is not          *)
(* disturbed is in the hook at that time.                                   *)
Shaped == DOMAIN told = Thread /\ \A t \in Thread : DOMAIN told[t] = 1 .. Len(Data)

Fresh == \A t \in Thread : pc[t] \notin {"hit", "data"} => done[t] = 0

(* The history says what it is to say.                                      *)
Quiet ==
  \A t \in Thread \ disturbed :
    pc[t] \notin {"idle", "lookup"} => \A u \in Thread : pc[u] \in Storing => u = t

Alone == \A t, u \in Thread : pc[t] \in Storing /\ pc[u] \in Storing => t = u

(* The indexes stay in the ring; whoever moves them has their last values.  *)
IndexesAt(t) ==
  /\ pc[t] = "advance" => i[t] = lri_last /\ m[t] = lri_max /\ lri_last < limit
  /\ pc[t] = "wrap" => lri_max > 0
  /\ pc[t] = "grow" => m[t] = lri_max /\ lri_max < limit /\ lri_last <= lri_max + 1
  /\ pc[t] \in {"newest", "backwards", "robin", "hit"} => i[t] <= limit

Indexes ==
  /\ lri_max <= limit /\ lri_last <= limit
  /\ (\A t \in Thread : pc[t] # "grow") => lri_last <= lri_max
  /\ \A t \in Thread : IndexesAt(t)

(* A slot's data are about its token, but for the one that is being stored. *)
Agrees(s) == \A d \in 1 .. Len(Data) : lri_value[s][d] = lri_token[s]

Slots ==
  \A s \in 1 .. Size :
    Agrees(s) \/ (s = lri_last /\ \E t \in Thread : pc[t] = "data")

Writer ==
  \A t \in Thread : pc[t] = "data" =>
    /\ lri_token[lri_last] = addr[t]
    /\ \A d \in 1 .. done[t] : lri_value[lri_last][d] = addr[t] /\ told[t][d] = addr[t]

(* What a thread that is not disturbed has found, and told.                 *)
ReaderAt(t) ==
  /\ pc[t] = "newest" => i[t] = lri_last
  /\ pc[t] = "hit" => /\ lri_token[i[t]] = addr[t]
                      /\ \A d \in 1 .. done[t] : told[t][d] = addr[t]
  /\ pc[t] = "answered" => \A d \in 1 .. Len(Data) : told[t][d] = addr[t]

Reader == \A t \in Thread \ disturbed : ReaderAt(t)

RingInv == Indexes /\ Slots /\ Writer /\ Reader

RightInv == IInv /\ Shaped /\ Fresh /\ Quiet /\ (~overlapped => Alone /\ RingInv)

(* What the history says after a step.                                      *)
LEMMA WatchShows ==
  ASSUME Watch
  PROVE  /\ ~overlapped' => ~overlapped /\ Alone'
         /\ Quiet'
         /\ \A t \in Thread \ disturbed' : pc'[t] \notin {"idle", "lookup"} => t \notin disturbed
<1>1. ~overlapped' => ~overlapped /\ Alone'
  BY DEF Watch, StoringNow, Alone
<1>2. Quiet'
  BY DEF Watch, StoringNow, Quiet
<1>3. \A t \in Thread \ disturbed' : pc'[t] \notin {"idle", "lookup"} => t \notin disturbed
  BY DEF Watch
<1> QED
  BY <1>1, <1>2, <1>3

(* A thread's step leaves the locals of the others alone.                   *)
Others(t) ==
  \A u \in Thread \ {t} :
    /\ pc'[u] = pc[u] /\ addr'[u] = addr[u] /\ i'[u] = i[u] /\ m'[u] = m[u]
    /\ done'[u] = done[u] /\ told'[u] = told[u]

(* A step that does not write the ring or reach the data keeps what is      *)
(* known if it keeps it for its own thread.                                 *)
LEMMA RingStays ==
  ASSUME RingInv, NEW t \in Thread, Others(t), UNCHANGED ring, Watch,
         pc[t] # "data", pc'[t] # "data", pc[t] = "grow" => pc'[t] = "grow",
         IndexesAt(t)', t \notin disturbed' => ReaderAt(t)'
  PROVE  RingInv'
<1>1. Indexes'
  <2>1. \A u \in Thread \ {t} : IndexesAt(u)'
    BY DEF RingInv, Indexes, IndexesAt, Others
  <2>2. (\A u \in Thread : pc'[u] # "grow") => (\A u \in Thread : pc[u] # "grow")
    BY DEF Others
  <2> QED
    BY <2>1, <2>2 DEF RingInv, Indexes
<1>2. Slots'
  <2>1. (\E u \in Thread : pc[u] = "data") => (\E u \in Thread : pc'[u] = "data")
    BY DEF Others
  <2> QED
    BY <2>1 DEF RingInv, Slots, Agrees
<1>3. Writer'
  BY DEF RingInv, Writer, Others
<1>4. Reader'
  <2>1. ASSUME NEW u \in Thread \ disturbed', u # t PROVE ReaderAt(u)'
    <3>1. pc'[u] \notin {"idle", "lookup"} => ReaderAt(u)
      BY WatchShows DEF RingInv, Reader
    <3> QED
      BY <2>1, <3>1 DEF ReaderAt, Others
  <2> QED
    BY <2>1 DEF Reader
<1> QED
  BY <1>1, <1>2, <1>3, <1>4 DEF RingInv

(* Nobody is undisturbed in the hook while another thread stores.           *)
LEMMA NobodyReads ==
  ASSUME Quiet, NEW t \in Thread, pc[t] \in Storing, Others(t), Watch
  PROVE  \A u \in Thread \ disturbed' : u # t => pc'[u] \in {"idle", "lookup"}
BY WatchShows DEF Quiet, Others

(* Arrivals and reads of the indexes.                                       *)
LEMMA ArriveRight ==
  ASSUME RightInv, ~overlapped', NEW t \in Thread, NEW a \in Addr, Arrive(t, a), Watch
  PROVE  RingInv'
<1>1. RingInv
  BY WatchShows DEF RightInv
<1>2. pc[t] \in {"idle", "answered"} /\ pc'[t] = "lookup" /\ UNCHANGED ring /\ Others(t)
  BY DEF Arrive, Goto, Others, RightInv, Shaped, IInv, TypeOK
<1>3. IndexesAt(t)' /\ ReaderAt(t)'
  BY <1>2 DEF IndexesAt, ReaderAt
<1> QED
  BY <1>1, <1>2, <1>3, RingStays

LEMMA ReadAgainRight ==
  ASSUME RightInv, ~overlapped', NEW t \in Thread, ReadAgain(t), Watch
  PROVE  RingInv'
<1>1. RingInv
  BY WatchShows DEF RightInv
<1>2. /\ pc[t] \in {"advance", "grow"} /\ UNCHANGED <<ring, pc>> /\ Others(t)
      /\ pc[t] = "advance" => i'[t] = lri_last /\ m'[t] = m[t]
      /\ pc[t] = "grow" => m'[t] = lri_max
  BY DEF ReadAgain, Others, RightInv, IInv, TypeOK
<1>3. IndexesAt(t)' /\ ReaderAt(t)'
  BY <1>1, <1>2 DEF IndexesAt, ReaderAt, RingInv, Indexes
<1> QED
  BY <1>1, <1>2, <1>3, RingStays

(* The search.                                                              *)
LEMMA SearchRight ==
  ASSUME RightInv, ~overlapped', NEW t \in Thread, Watch,
         \/ Lookup(t) \/ FoundNewest(t) \/ NotNewest(t) \/ Backwards(t) \/ TurnRound(t)
         \/ RoundRobin(t) \/ NotFound(t)
  PROVE  RingInv'
<1>1. RingInv
  BY WatchShows DEF RightInv
<1> USE DEF RightInv, IInv, TypeOK, Goto
<1>2. /\ pc[t] \in {"lookup", "newest", "backwards", "robin"}
      /\ pc'[t] \in {"newest", "backwards", "robin", "hit", "store"}
      /\ UNCHANGED <<ring, addr, done, told>> /\ Others(t)
  BY DEF Lookup, FoundNewest, NotNewest, Backwards, TurnRound, RoundRobin, NotFound, Compare, Others
<1>3. IndexesAt(t)'
  <2>1. lri_max <= limit /\ lri_last <= limit
    BY <1>1 DEF RingInv, Indexes
  <2>2. pc[t] \in {"newest", "backwards", "robin"} => i[t] <= limit
    BY <1>1 DEF RingInv, Indexes, IndexesAt
  <2>3. limit \in Nat
    BY LimitAssumption
  <2>4. pc'[t] \in {"newest", "backwards", "robin", "hit"} => i'[t] <= limit
    <3>1. CASE Lookup(t) \/ FoundNewest(t) \/ NotNewest(t)
      BY <2>1, <2>2, <2>3, <3>1 DEF Lookup, FoundNewest, NotNewest
    <3>2. CASE TurnRound(t) \/ NotFound(t)
      BY <2>1, <2>2, <3>2 DEF TurnRound, NotFound
    <3>3. CASE Backwards(t) \/ RoundRobin(t)
      BY <2>2, <2>3, <3>3 DEF Backwards, RoundRobin, Compare
    <3> QED
      BY <3>1, <3>2, <3>3
  <2> QED
    BY <1>2, <2>4 DEF IndexesAt
<1>4. ASSUME t \notin disturbed' PROVE ReaderAt(t)'
  <2>1. pc[t] = "newest" => i[t] = lri_last
    <3>1. pc[t] # "lookup" => t \notin disturbed
      BY <1>2, <1>4, WatchShows
    <3> QED
      BY <1>1, <3>1 DEF RingInv, Reader, ReaderAt
  <2>2. done'[t] = 0
    BY <1>2 DEF Fresh
  <2>3. pc'[t] = "newest" => i'[t] = lri_last
    BY <1>2 DEF Lookup, FoundNewest, NotNewest, Backwards, TurnRound, RoundRobin, NotFound, Compare
  <2>4. pc'[t] = "hit" => lri_token[i'[t]] = addr[t]
    <3>1. CASE FoundNewest(t)
      BY <2>1, <3>1 DEF FoundNewest
    <3>2. CASE Backwards(t) \/ RoundRobin(t)
      BY <3>2 DEF Backwards, RoundRobin, Compare
    <3>3. CASE Lookup(t) \/ NotNewest(t) \/ TurnRound(t) \/ NotFound(t)
      BY <3>3 DEF Lookup, NotNewest, TurnRound, NotFound
    <3> QED
      BY <3>1, <3>2, <3>3
  <2> QED
    BY <1>2, <2>2, <2>3, <2>4 DEF ReaderAt
<1> QED
  BY <1>1, <1>2, <1>3, <1>4, RingStays

(* The step from one datum to the next.                                     *)
LEMMA DatumEffect ==
  ASSUME TypeOK, NEW t \in Thread, NextDatum(t)
  PROVE  /\ UNCHANGED addr
         /\ \A u \in Thread \ {t} :
              pc'[u] = pc[u] /\ i'[u] = i[u] /\ m'[u] = m[u] /\ done'[u] = done[u]
         /\ \/ done[t] + 1 = Len(Data) /\ pc'[t] = "answered" /\ done'[t] = 0 /\ i'[t] = 0
            \/ pc'[t] = pc[t] /\ i'[t] = i[t] /\ done'[t] = done[t] + 1
BY DEF NextDatum, Return, Goto, TypeOK

(* A hit tells the data of a slot with the request's address.               *)
LEMMA HitRight ==
  ASSUME RightInv, ~overlapped', NEW t \in Thread, Hit(t), Watch
  PROVE  RingInv'
<1>1. RingInv /\ Alone
  BY WatchShows DEF RightInv
<1> DEFINE d0 == done[t] + 1
<1>2. pc[t] = "hit" /\ UNCHANGED ring /\ NextDatum(t) /\ TypeOK
  BY DEF Hit, RightInv, IInv
<1>3. d0 \in 1 .. Len(Data) /\ i[t] \in 1 .. Size
  <2>1. i[t] > 0 /\ i[t] <= limit
    BY <1>1, <1>2 DEF TypeOK, RingInv, Indexes, IndexesAt
  <2> QED
    BY <1>2, <2>1, DataLength, LimitAssumption DEF TypeOK
<1>4. /\ \A u \in Thread \ {t} : told'[u] = told[u]
      /\ told'[t][d0] = lri_value[i[t]][d0]
      /\ \A d \in 1 .. Len(Data) : d # d0 => told'[t][d] = told[t][d]
  BY <1>3 DEF Hit, RightInv, Shaped
<1>5. Others(t) /\ UNCHANGED addr
      /\ \/ d0 = Len(Data) /\ pc'[t] = "answered" /\ done'[t] = 0 /\ i'[t] = 0
         \/ pc'[t] = "hit" /\ i'[t] = i[t] /\ done'[t] = d0
  BY <1>2, <1>4, DatumEffect DEF Others
<1>6. IndexesAt(t)'
  BY <1>1, <1>2, <1>5 DEF IndexesAt, RingInv, Indexes
<1>7. ASSUME t \notin disturbed' PROVE ReaderAt(t)'
  <2>1. t \notin disturbed
    BY <1>5, <1>7, WatchShows
  <2>2. lri_token[i[t]] = addr[t] /\ \A d \in 1 .. done[t] : told[t][d] = addr[t]
    BY <1>1, <1>2, <2>1 DEF RingInv, Reader, ReaderAt
  <2>3. Agrees(i[t])
    <3>1. \A u \in Thread : pc[u] # "data"
      BY <1>2, <2>1 DEF RightInv, Quiet
    <3> QED
      BY <1>1, <1>3, <3>1 DEF RingInv, Slots
  <2>4. \A d \in 1 .. d0 : told'[t][d] = addr[t]
    <3>1. lri_value[i[t]][d0] = addr[t]
      BY <1>3, <2>2, <2>3 DEF Agrees
    <3>2. done[t] \in Nat
      BY <1>2 DEF TypeOK
    <3>3. \A d \in 1 .. d0 : d = d0 \/ (d \in 1 .. done[t] /\ d # d0 /\ d \in 1 .. Len(Data))
      BY <1>3, <3>2, DataLength
    <3> QED
      BY <1>4, <2>2, <3>1, <3>3
  <2> HIDE DEF d0
  <2> QED
    BY <1>2, <1>5, <2>2, <2>4 DEF ReaderAt
<1> QED
  BY <1>1, <1>2, <1>5, <1>6, <1>7, RingStays

(* The store.  Nobody else stores, and nobody undisturbed is in the hook.   *)
LEMMA StoreRight ==
  ASSUME RightInv, ~overlapped', NEW t \in Thread, Store(t), Watch
  PROVE  RingInv'
<1>1. RingInv
  BY WatchShows DEF RightInv
<1>2. /\ pc[t] = "store" /\ UNCHANGED ring /\ Others(t)
      /\ m'[t] = lri_max /\ i'[t] = lri_last
      /\ pc'[t] = IF lri_max >= limit /\ lri_last = limit THEN "wrap" ELSE "advance"
  BY DEF Store, Goto, Others, RightInv, IInv, TypeOK
<1>3. \A u \in Thread : pc[u] # "grow"
  BY <1>2, WatchShows DEF RightInv, Alone
<1>4. IndexesAt(t)' /\ ReaderAt(t)'
  <2>1. lri_max <= limit /\ lri_last <= limit /\ lri_last <= lri_max
    BY <1>1, <1>3 DEF RingInv, Indexes
  <2>2. lri_max \in Nat /\ lri_last \in Nat /\ limit \in Nat /\ limit > 0
    BY LimitAssumption DEF RightInv, IInv, TypeOK
  <2>3. (pc'[t] = "advance" => lri_last < limit) /\ (pc'[t] = "wrap" => lri_max > 0)
    BY <1>2, <2>1, <2>2
  <2> QED
    BY <1>2, <2>3 DEF IndexesAt, ReaderAt
<1> QED
  BY <1>1, <1>2, <1>4, RingStays

(* The indexes move while every slot agrees with its token.                 *)
LEMMA MoveRight ==
  ASSUME RightInv, ~overlapped', NEW t \in Thread, Advance(t) \/ Wrap(t) \/ Grow(t), Watch
  PROVE  RingInv'
<1>1. RingInv /\ Alone /\ ~overlapped
  BY WatchShows DEF RightInv
<1>2. /\ pc[t] \in {"advance", "wrap", "grow"} /\ pc'[t] \in {"grow", "token"} /\ Others(t)
      /\ UNCHANGED <<lri_token, lri_value, locals>>
  BY DEF Advance, Wrap, Grow, Goto, Others, RightInv, IInv, TypeOK
<1>3. \A u \in Thread \ {t} : pc[u] \notin Storing /\ pc'[u] \notin Storing
  BY <1>1, <1>2 DEF Alone, Others
<1>4. lri_max \in Nat /\ lri_last \in Nat /\ limit \in Nat /\ limit > 0
  BY LimitAssumption DEF RightInv, IInv, TypeOK
<1>5. /\ lri_max <= limit /\ lri_last <= limit /\ IndexesAt(t)
      /\ pc[t] # "grow" => lri_last <= lri_max
  BY <1>1, <1>3 DEF RingInv, Indexes
<1>6. /\ lri_last' <= limit /\ lri_max' <= limit
      /\ pc'[t] # "grow" => lri_last' <= lri_max'
      /\ pc'[t] = "grow" => m'[t] = lri_max' /\ lri_max' < limit /\ lri_last' <= lri_max' + 1
  <2>1. CASE Advance(t)
    <3>1. /\ pc[t] = "advance" /\ lri_last' = i[t] + 1 /\ lri_max' = lri_max
          /\ pc'[t] = (IF m[t] < limit THEN "grow" ELSE "token") /\ m'[t] = m[t]
      BY <2>1 DEF Advance, Goto, RightInv, IInv, TypeOK
    <3>2. i[t] = lri_last /\ m[t] = lri_max /\ lri_last < limit
      BY <1>5, <3>1 DEF IndexesAt
    <3> QED
      BY <1>4, <1>5, <3>1, <3>2
  <2>2. CASE Wrap(t)
    <3>1. pc[t] = "wrap" /\ lri_last' = 1 /\ lri_max' = lri_max /\ pc'[t] = "token"
      BY <2>2 DEF Wrap, Goto, RightInv, IInv, TypeOK
    <3>2. lri_max > 0
      BY <1>5, <3>1 DEF IndexesAt
    <3> QED
      BY <1>4, <1>5, <3>1, <3>2
  <2>3. CASE Grow(t)
    <3>1. pc[t] = "grow" /\ lri_last' = lri_last /\ lri_max' = m[t] + 1 /\ pc'[t] = "token"
      BY <2>3 DEF Grow, Goto, RightInv, IInv, TypeOK
    <3>2. m[t] = lri_max /\ lri_max < limit /\ lri_last <= lri_max + 1
      BY <1>5, <3>1 DEF IndexesAt
    <3> QED
      BY <1>4, <1>5, <3>1, <3>2
  <2> QED
    BY <2>1, <2>2, <2>3
<1>7. Indexes'
  <2>1. IndexesAt(t)'
    BY <1>2, <1>6 DEF IndexesAt
  <2>2. ASSUME NEW u \in Thread \ {t} PROVE IndexesAt(u)'
    <3>1. IndexesAt(u) /\ pc'[u] = pc[u] /\ i'[u] = i[u] /\ pc'[u] \notin Storing
      BY <1>1, <1>2, <1>3 DEF RingInv, Indexes, Others
    <3> QED
      BY <3>1 DEF IndexesAt
  <2> QED
    BY <1>6, <2>1, <2>2 DEF Indexes
<1>8. \A u \in Thread : pc[u] # "data" /\ pc'[u] # "data"
  BY <1>2, <1>3
<1>9. Slots' /\ Writer'
  BY <1>1, <1>2, <1>8 DEF RingInv, Slots, Agrees, Writer
<1>10. Reader'
  BY <1>2, NobodyReads DEF RightInv, Reader, ReaderAt
<1> QED
  BY <1>7, <1>9, <1>10 DEF RingInv

(* The token goes to the newest slot, which is the thread's from then on.   *)
LEMMA StoreTokenRight ==
  ASSUME RightInv, ~overlapped', NEW t \in Thread, StoreToken(t), Watch
  PROVE  RingInv'
<1>1. RingInv /\ Alone /\ ~overlapped
  BY WatchShows DEF RightInv
<1>2. /\ pc[t] = "token" /\ pc'[t] = "data" /\ Others(t)
      /\ UNCHANGED <<lri_max, lri_last, lri_value, locals>>
      /\ lri_token' = [ lri_token EXCEPT ![lri_last] = addr[t] ]
  BY DEF StoreToken, Goto, Others, RightInv, IInv, TypeOK
<1>3. \A u \in Thread \ {t} : pc[u] \notin Storing /\ pc'[u] \notin Storing
  BY <1>1, <1>2 DEF Alone, Others
<1>4. lri_last \in 1 .. Size
  <2>1. lri_last > 0
    BY <1>2 DEF RightInv, IInv, Moved, Relying
  <2> QED
    BY <1>1, <2>1, LimitAssumption DEF RightInv, IInv, TypeOK, RingInv, Indexes
<1>5. lri_token'[lri_last] = addr[t] /\ \A s \in 1 .. Size : s # lri_last => lri_token'[s] = lri_token[s]
  BY <1>2, <1>4 DEF RightInv, IInv, TypeOK
<1>6. Indexes'
  <2>1. \A u \in Thread : IndexesAt(u)'
    BY <1>1, <1>2, <1>3 DEF RingInv, Indexes, IndexesAt, Others
  <2> QED
    BY <1>1, <1>2, <1>3, <2>1 DEF RingInv, Indexes
<1>7. Slots'
  <2>1. \A s \in 1 .. Size : Agrees(s)
    BY <1>1, <1>2, <1>3 DEF RingInv, Slots
  <2> QED
    BY <1>2, <1>5, <2>1 DEF Slots, Agrees
<1>8. Writer'
  <2>1. done[t] = 0
    BY <1>2 DEF RightInv, Fresh
  <2> QED
    BY <1>2, <1>3, <1>5, <2>1 DEF Writer
<1>9. Reader'
  BY <1>2, NobodyReads DEF RightInv, Reader, ReaderAt
<1> QED
  BY <1>6, <1>7, <1>8, <1>9 DEF RingInv

(* A datum goes to the slot whose token is there; the last one completes    *)
(* the slot.                                                                *)
LEMMA StoreDatumRight ==
  ASSUME RightInv, ~overlapped', NEW t \in Thread, StoreDatum(t), Watch
  PROVE  RingInv'
<1>1. RingInv /\ Alone /\ ~overlapped
  BY WatchShows DEF RightInv
<1> DEFINE d0 == done[t] + 1
<1>2. /\ pc[t] = "data" /\ NextDatum(t) /\ TypeOK
      /\ UNCHANGED <<lri_max, lri_last, lri_token>>
  BY DEF StoreDatum, RightInv, IInv
<1>3. d0 \in 1 .. Len(Data) /\ done[t] \in Nat /\ lri_last \in 1 .. Size
  <2>1. lri_last > 0
    BY <1>2 DEF RightInv, IInv, Moved, Relying
  <2> QED
    BY <1>1, <1>2, <2>1, DataLength, LimitAssumption DEF TypeOK, RingInv, Indexes
<1>4. /\ \A u \in Thread \ {t} : told'[u] = told[u]
      /\ told'[t][d0] = addr[t]
      /\ \A d \in 1 .. Len(Data) : d # d0 => told'[t][d] = told[t][d]
  BY <1>3 DEF StoreDatum, RightInv, Shaped
<1>5. /\ lri_value'[lri_last][d0] = addr[t]
      /\ \A d \in 1 .. Len(Data) : d # d0 => lri_value'[lri_last][d] = lri_value[lri_last][d]
      /\ \A s \in 1 .. Size : s # lri_last => lri_value'[s] = lri_value[s]
  BY <1>2, <1>3 DEF StoreDatum, TypeOK
<1>6. Others(t) /\ UNCHANGED addr
      /\ \/ d0 = Len(Data) /\ pc'[t] = "answered" /\ done'[t] = 0 /\ i'[t] = 0
         \/ pc'[t] = "data" /\ i'[t] = i[t] /\ done'[t] = d0
  BY <1>2, <1>4, DatumEffect DEF Others
<1>7. \A u \in Thread \ {t} : pc[u] \notin Storing /\ pc'[u] \notin Storing
  BY <1>1, <1>2, <1>6 DEF Alone, Others
<1>8. lri_token[lri_last] = addr[t]
      /\ \A d \in 1 .. d0 : lri_value'[lri_last][d] = addr[t] /\ told'[t][d] = addr[t]
  <2>1. lri_token[lri_last] = addr[t]
        /\ \A d \in 1 .. done[t] : lri_value[lri_last][d] = addr[t] /\ told[t][d] = addr[t]
    BY <1>1, <1>2 DEF RingInv, Writer
  <2>2. \A d \in 1 .. d0 : d = d0 \/ (d \in 1 .. done[t] /\ d # d0 /\ d \in 1 .. Len(Data))
    BY <1>3, DataLength
  <2> QED
    BY <1>4, <1>5, <2>1, <2>2
<1> HIDE DEF d0
<1>9. Indexes'
  <2>1. IndexesAt(t)'
    BY <1>6 DEF IndexesAt
  <2>2. ASSUME NEW u \in Thread \ {t} PROVE IndexesAt(u)'
    <3>1. IndexesAt(u) /\ pc'[u] = pc[u] /\ i'[u] = i[u] /\ pc'[u] \notin Storing
      BY <1>1, <1>6, <1>7 DEF RingInv, Indexes, Others
    <3> QED
      BY <3>1 DEF IndexesAt
  <2>3. lri_last <= lri_max
    BY <1>1, <1>2, <1>7 DEF RingInv, Indexes
  <2> QED
    BY <1>1, <1>2, <2>1, <2>2, <2>3 DEF RingInv, Indexes
<1>10. Slots'
  <2>1. \A s \in 1 .. Size : s # lri_last => Agrees(s)'
    BY <1>1, <1>2, <1>5 DEF RingInv, Slots, Agrees
  <2>2. CASE pc'[t] = "data"
    BY <1>2, <2>1, <2>2 DEF Slots
  <2>3. CASE d0 = Len(Data)
    <3>1. Agrees(lri_last)'
      BY <1>2, <1>8, <2>3 DEF Agrees
    <3> QED
      BY <1>2, <2>1, <3>1 DEF Slots
  <2> QED
    BY <1>6, <2>2, <2>3
<1>11. Writer'
  BY <1>2, <1>6, <1>7, <1>8 DEF Writer
<1>12. Reader'
  <2>1. \A u \in Thread \ disturbed' : u # t => ReaderAt(u)'
    BY <1>2, <1>6, NobodyReads DEF RightInv, ReaderAt
  <2>2. ReaderAt(t)'
    BY <1>6, <1>8 DEF ReaderAt
  <2> QED
    BY <2>1, <2>2 DEF Reader
<1> QED
  BY <1>9, <1>10, <1>11, <1>12 DEF RingInv

(* The shape of what is told, and the counters of data.                     *)
LEMMA ShapeKept ==
  ASSUME RightInv, [Next]_vars
  PROVE  Shaped' /\ Fresh'
<1> USE DEF RightInv, IInv
<1>1. CASE UNCHANGED vars
  BY <1>1 DEF vars, Shaped, Fresh
<1>2. ASSUME NEW t \in Thread, NEW a \in Addr, Arrive(t, a) PROVE Shaped' /\ Fresh'
  BY <1>2 DEF Arrive, Goto, Shaped, Fresh, TypeOK
<1>3. ASSUME NEW t \in Thread, ReadAgain(t) PROVE Shaped' /\ Fresh'
  BY <1>3 DEF ReadAgain, Shaped, Fresh
<1>4. ASSUME NEW t \in Thread, Step(t) PROVE Shaped' /\ Fresh'
  <2>1. CASE Hit(t) \/ StoreDatum(t)
    <3>1. Shaped'
      BY <2>1 DEF Hit, StoreDatum, Shaped
    <3>2. Fresh'
      BY <2>1, DatumEffect DEF Hit, StoreDatum, Fresh
    <3> QED
      BY <3>1, <3>2
  <2>2. CASE ~(Hit(t) \/ StoreDatum(t))
    <3>1. UNCHANGED <<told, done>>
      BY <1>4, <2>2 DEF Step, Lookup, FoundNewest, NotNewest, Backwards, TurnRound, RoundRobin,
                        NotFound, Store, Advance, Wrap, Grow, StoreToken
    <3>2. pc[t] \notin {"hit", "data"} /\ \A u \in Thread \ {t} : pc'[u] = pc[u]
      BY <1>4, <2>2 DEF Step, Lookup, FoundNewest, NotNewest, Backwards, TurnRound, RoundRobin,
                        NotFound, Store, Advance, Wrap, Grow, StoreToken, Goto, Compare, TypeOK
    <3> QED
      BY <3>1, <3>2 DEF Shaped, Fresh
  <2> QED
    BY <2>1, <2>2
<1> QED
  BY <1>1, <1>2, <1>3, <1>4 DEF Next

LEMMA NextRight == RightInv /\ [Next]_vars => RightInv'
<1> SUFFICES ASSUME RightInv, [Next]_vars PROVE RightInv'
  OBVIOUS
<1>1. IInv' /\ Shaped' /\ Fresh'
  BY NextIInv, ShapeKept DEF RightInv
<1>2. CASE UNCHANGED vars
  <2>1. Quiet' /\ (~overlapped' => Alone' /\ RingInv')
    BY <1>2 DEF RightInv, vars, Quiet, Alone, RingInv, Indexes, IndexesAt, Slots, Agrees, Writer,
                Reader, ReaderAt
  <2> QED
    BY <1>1, <2>1 DEF RightInv
<1>3. CASE Next
  <2>1. Watch
    BY <1>3 DEF Next, Step
  <2>2. Quiet' /\ (~overlapped' => Alone')
    BY <2>1, WatchShows
  <2>3. ASSUME ~overlapped' PROVE RingInv'
    <3>1. ASSUME NEW t \in Thread, NEW a \in Addr, Arrive(t, a) PROVE RingInv'
      BY <2>1, <2>3, <3>1, ArriveRight
    <3>2. ASSUME NEW t \in Thread, ReadAgain(t) PROVE RingInv'
      BY <2>1, <2>3, <3>2, ReadAgainRight
    <3>3. ASSUME NEW t \in Thread, Step(t) PROVE RingInv'
      BY <2>1, <2>3, <3>3, SearchRight, HitRight, StoreRight, MoveRight, StoreTokenRight,
         StoreDatumRight DEF Step
    <3> QED
      BY <1>3, <3>1, <3>2, <3>3 DEF Next
  <2> QED
    BY <1>1, <2>2, <2>3 DEF RightInv
<1> QED
  BY <1>2, <1>3

LEMMA InitRight == Init => RightInv
<1> SUFFICES ASSUME Init PROVE RightInv
  OBVIOUS
<1>1. \A t \in Thread : pc[t] = "idle" /\ done[t] = 0
  BY DEF Init
<1>2. Shaped /\ Fresh /\ Quiet
  BY <1>1 DEF Init, Shaped, Fresh, Quiet
<1>3. Alone /\ Writer /\ Reader
  BY <1>1 DEF Alone, Writer, Reader, ReaderAt
<1>4. Indexes
  BY <1>1, LimitAssumption DEF Init, Indexes, IndexesAt
<1>5. Slots
  BY DEF Init, Slots, Agrees
<1> QED
  BY <1>2, <1>3, <1>4, <1>5, InitIInv DEF RightInv, RingInv

(* A thread's answer is about its own request's address, unless another     *)
(* thread stored during the request, or two stored at a time before: for    *)
(* any number of threads, slots and data, and whatever the compiler keeps   *)
(* in registers.                                                            *)
THEOREM RightAnswers == Spec => []RightUnlessOverlapped
<1>1. RightInv => RightUnlessOverlapped
  BY DEF RightInv, RingInv, Reader, ReaderAt, RightUnlessOverlapped
<1> QED
  BY <1>1, InitRight, NextRight, PTL DEF Spec

(* As under the MPM prefork: a child's only thread always answers with the  *)
(* data of the request's address, for nobody disturbs it.                   *)
AnswersRight ==
  \A t \in Thread : pc[t] = "answered" => \A d \in 1 .. Len(Data) : told[t][d] = addr[t]

THEOREM OneThreadIsRight ==
  ASSUME \A t, u \in Thread : t = u
  PROVE  Spec => []AnswersRight
<1> DEFINE Undisturbed == ~overlapped /\ disturbed = {}
<1>1. Init => Undisturbed
  BY DEF Init
<1>2. Undisturbed /\ [Next]_vars => Undisturbed'
  <2> SUFFICES ASSUME Undisturbed, [Next]_vars PROVE Undisturbed'
    OBVIOUS
  <2>1. CASE UNCHANGED vars
    BY <2>1 DEF vars
  <2>2. CASE Next
    <3>1. Watch
      BY <2>2 DEF Next, Step
    <3>2. \A t \in Thread : StoringNow' \ {t} = {}
      BY DEF StoringNow
    <3>3. \A t, u \in StoringNow' : t = u
      BY DEF StoringNow
    <3> QED
      BY <3>1, <3>2, <3>3 DEF Watch
  <2> QED
    BY <2>1, <2>2
<1>3. RightInv /\ Undisturbed => AnswersRight
  BY DEF RightInv, RingInv, Reader, ReaderAt, AnswersRight
<1> QED
  BY <1>1, <1>2, <1>3, InitRight, NextRight, PTL DEF Spec

--------------------------------------------------------------------------------
(* Why no thread goes on for ever: each of its steps leads to a later part  *)
(* of the hook or leaves less to do in the same part, whatever others do.   *)
LEMMA StageByPc ==
  ASSUME NEW t \in Thread, pc[t] \in {"idle", "answered"} \cup Looking \cup Storing
  PROVE  /\ Stage(t) = (IF pc[t] = "lookup" THEN 9 ELSE IF pc[t] = "newest" THEN 8
                        ELSE IF pc[t] = "backwards" THEN 7 ELSE IF pc[t] = "robin" THEN 6
                        ELSE IF pc[t] = "store" THEN 5 ELSE IF pc[t] \in {"advance", "wrap"} THEN 4
                        ELSE IF pc[t] = "grow" THEN 3 ELSE IF pc[t] = "token" THEN 2
                        ELSE IF pc[t] \in {"hit", "data"} THEN 1 ELSE 0)
         /\ Left(t) = (IF pc[t] \in {"backwards", "robin"} THEN i[t]
                       ELSE IF pc[t] \in {"hit", "data"} THEN Len(Data) - done[t] ELSE 0)
<1>1. CASE pc[t] \in {"idle", "answered"}
  BY <1>1 DEF Stage, Left
<1>2. CASE pc[t] \in Looking
  BY <1>2 DEF Stage, Left
<1>3. CASE pc[t] \in Storing
  BY <1>3 DEF Stage, Left
<1> QED
  BY <1>1, <1>2, <1>3

(* The same of the state after a step.                                      *)
LEMMA StageByPcNext ==
  ASSUME NEW t \in Thread, pc'[t] \in {"idle", "answered"} \cup Looking \cup Storing
  PROVE  /\ Stage(t)' = (IF pc'[t] = "lookup" THEN 9 ELSE IF pc'[t] = "newest" THEN 8
                         ELSE IF pc'[t] = "backwards" THEN 7 ELSE IF pc'[t] = "robin" THEN 6
                         ELSE IF pc'[t] = "store" THEN 5
                         ELSE IF pc'[t] \in {"advance", "wrap"} THEN 4
                         ELSE IF pc'[t] = "grow" THEN 3 ELSE IF pc'[t] = "token" THEN 2
                         ELSE IF pc'[t] \in {"hit", "data"} THEN 1 ELSE 0)
         /\ Left(t)' = (IF pc'[t] \in {"backwards", "robin"} THEN i'[t]
                        ELSE IF pc'[t] \in {"hit", "data"} THEN Len(Data) - done'[t] ELSE 0)
<1>1. CASE pc'[t] \in {"idle", "answered"}
  BY <1>1 DEF Stage, Left
<1>2. CASE pc'[t] \in Looking
  BY <1>2 DEF Stage, Left
<1>3. CASE pc'[t] \in Storing
  BY <1>3 DEF Stage, Left
<1> QED
  BY <1>1, <1>2, <1>3

LEMMA StepCloser ==
  ASSUME TypeOK, TypeOK', NEW t \in Thread, Step(t)
  PROVE  Closer(t)
<1> DEFINE Place(where) == where \in {"idle", "answered"} \cup Looking \cup Storing
<1>1. Place(pc[t]) /\ Place(pc'[t]) /\ i[t] \in Nat /\ i'[t] \in Nat
      /\ done[t] \in 0 .. (Len(Data) - 1) /\ done'[t] \in 0 .. (Len(Data) - 1)
  BY DEF TypeOK
<1> USE StageByPc, StageByPcNext, DataLength
<1>2. CASE Lookup(t) \/ FoundNewest(t) \/ NotNewest(t) \/ TurnRound(t) \/ NotFound(t)
  <2>1. \/ pc[t] = "lookup" /\ pc'[t] \in {"newest", "store"}
        \/ pc[t] = "newest" /\ pc'[t] \in {"hit", "backwards"}
        \/ pc[t] = "backwards" /\ pc'[t] \in {"robin", "store"}
        \/ pc[t] = "robin" /\ pc'[t] = "store"
    BY <1>2 DEF Lookup, FoundNewest, NotNewest, TurnRound, NotFound, Goto, TypeOK
  <2> QED
    BY <1>1, <2>1 DEF Closer
<1>3. CASE Backwards(t) \/ RoundRobin(t)
  <2>1. /\ pc[t] \in {"backwards", "robin"}
        /\ pc'[t] = "hit" \/ (pc'[t] = pc[t] /\ i'[t] = i[t] - 1)
    BY <1>3 DEF Backwards, RoundRobin, Compare, Goto, TypeOK
  <2> QED
    BY <1>1, <2>1 DEF Closer
<1>4. CASE Hit(t) \/ StoreDatum(t)
  <2>1. pc[t] \in {"hit", "data"} /\ NextDatum(t)
    BY <1>4 DEF Hit, StoreDatum
  <2>2. pc'[t] = "answered" \/ (pc'[t] = pc[t] /\ done'[t] = done[t] + 1)
    BY <2>1, DatumEffect
  <2> QED
    BY <1>1, <2>1, <2>2 DEF Closer
<1>5. CASE Store(t) \/ Advance(t) \/ Wrap(t) \/ Grow(t) \/ StoreToken(t)
  <2>1. \/ pc[t] = "store" /\ pc'[t] \in {"wrap", "advance"}
        \/ pc[t] \in {"advance", "wrap"} /\ pc'[t] \in {"grow", "token"}
        \/ pc[t] = "grow" /\ pc'[t] = "token"
        \/ pc[t] = "token" /\ pc'[t] = "data"
    BY <1>5 DEF Store, Advance, Wrap, Grow, StoreToken, Goto, TypeOK
  <2> QED
    BY <1>1, <2>1 DEF Closer
<1> QED
  BY <1>2, <1>3, <1>4, <1>5 DEF Step

(* What another thread does, and a second read of an index, change neither  *)
(* where a thread is nor what is left for it.                               *)
LEMMA OthersKeepPlace ==
  ASSUME TypeOK, TypeOK', NEW t \in Thread, pc[t] \in Looking \cup Storing,
         NEW u \in Thread,
         \/ u # t /\ ((\E a \in Addr : Arrive(u, a)) \/ Step(u))
         \/ ReadAgain(u)
  PROVE  Stage(t)' = Stage(t) /\ Left(t)' = Left(t)
<1>1. pc'[t] = pc[t] /\ done'[t] = done[t] /\ (pc[t] \notin {"advance", "grow"} => i'[t] = i[t])
  <2>1. CASE ReadAgain(u)
    BY <2>1 DEF ReadAgain, TypeOK
  <2>2. ASSUME u # t, NEW a \in Addr, Arrive(u, a) PROVE pc'[t] = pc[t] /\ i'[t] = i[t] /\ done'[t] = done[t]
    BY <2>2 DEF Arrive, Goto, TypeOK
  <2>3. ASSUME u # t, Step(u) PROVE pc'[t] = pc[t] /\ i'[t] = i[t] /\ done'[t] = done[t]
    <3>1. CASE Hit(u) \/ StoreDatum(u)
      BY <2>3, <3>1, DatumEffect DEF Hit, StoreDatum
    <3>2. CASE ~(Hit(u) \/ StoreDatum(u))
      BY <2>3, <3>2 DEF Step, Lookup, FoundNewest, NotNewest, Backwards, TurnRound, RoundRobin,
                        NotFound, Store, Advance, Wrap, Grow, StoreToken, Goto, Compare, TypeOK
    <3> QED
      BY <3>1, <3>2
  <2> QED
    BY <2>1, <2>2, <2>3
<1>2. Stage(t)' = Stage(t)
  BY <1>1, StageByPc, StageByPcNext
<1>3. Left(t)' = Left(t)
  BY <1>1, StageByPc, StageByPcNext
<1> QED
  BY <1>2, <1>3

(* Each step of a thread brings it closer to its answer, and no step of     *)
(* another sets it back: with a fair scheduler every request ends.          *)
THEOREM StepsCount == Spec => EveryStepCounts
<1> DEFINE Counts ==
      \A t \in Thread :
        /\ Step(t) => Closer(t)
        /\ pc[t] \in Looking \cup Storing =>
             Closer(t) \/ (Stage(t)' = Stage(t) /\ Left(t)' = Left(t))
<1>1. IInv /\ IInv' /\ [Next]_vars => [Counts]_vars
  <2> SUFFICES ASSUME IInv, IInv', Next, NEW t \in Thread
               PROVE  /\ Step(t) => Closer(t)
                      /\ pc[t] \in Looking \cup Storing =>
                           Closer(t) \/ (Stage(t)' = Stage(t) /\ Left(t)' = Left(t))
    OBVIOUS
  <2>1. TypeOK /\ TypeOK'
    BY DEF IInv
  <2>2. Step(t) => Closer(t)
    BY <2>1, StepCloser
  <2>3. ASSUME pc[t] \in Looking \cup Storing
        PROVE  Closer(t) \/ (Stage(t)' = Stage(t) /\ Left(t)' = Left(t))
    <3>1. ~ \E a \in Addr : Arrive(t, a)
      BY <2>3 DEF Arrive
    <3>2. PICK u \in Thread : (\E a \in Addr : Arrive(u, a)) \/ ReadAgain(u) \/ Step(u)
      BY DEF Next
    <3>3. CASE u = t /\ Step(u)
      BY <2>2, <3>3
    <3>4. CASE ~(u = t /\ Step(u))
      BY <2>1, <2>3, <3>1, <3>2, <3>4, OthersKeepPlace
    <3> QED
      BY <3>3, <3>4
  <2> QED
    BY <2>2, <2>3
<1>2. Init => IInv
  BY InitIInv
<1>3. IInv /\ [Next]_vars => IInv'
  BY NextIInv
<1> QED
  BY <1>1, <1>2, <1>3, PTL DEF Spec, EveryStepCounts

================================================================================
