----------------------------- MODULE MCModThreads -----------------------------
(***************************************************************************)
(* An instance of ModThreads for TLC: two threads, three addresses and a   *)
(* ring of two slots, so that it wraps; one datum, so that a reader can    *)
(* see a token whose datum is not there yet.                               *)
(***************************************************************************)
EXTENDS ModThreads

MCData == <<"COUNTRYCODE">>

================================================================================
