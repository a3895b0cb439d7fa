----------------------------- MODULE LookupService -----------------------------
(***************************************************************************)
(* What the database wrapper promises its callers, whatever it remembers:  *)
(* once it is set up, the answer to a question depends on the question     *)
(* alone.                                                                  *)
(***************************************************************************)
CONSTANTS
  Kind, Addr,    \* what can be asked, and about which addresses
  Value,         \* what can be answered
  Nothing        \* before the first question

VARIABLES
  serving,       \* whether the wrapper is set up
  oracle,        \* what it answers: [Kind -> [Addr -> Value]]
  reply          \* the question answered last, with its answer

vars == <<serving, oracle, reply>>

Reply == [ kind : Kind, addr : Addr, value : Value ] \cup {Nothing}

Init ==
  /\ ~serving /\ reply = Nothing
  /\ oracle \in [Kind -> [Addr -> Value]]

(* The options and the databases decide, once, what the answers are.        *)
SetUp ==
  /\ ~serving /\ serving' = TRUE
  /\ oracle' \in [Kind -> [Addr -> Value]]
  /\ UNCHANGED reply

Ask(k, a) ==
  /\ serving
  /\ reply' \in [ kind : {k}, addr : {a}, value : Value ] /\ reply'.value = oracle[k][a]
  /\ UNCHANGED <<serving, oracle>>

Next == SetUp \/ \E k \in Kind, a \in Addr : Ask(k, a)

Spec == Init /\ [][Next]_vars

================================================================================
