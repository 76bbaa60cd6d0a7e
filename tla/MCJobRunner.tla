----------------------------- MODULE MCJobRunner -----------------------------
(***************************************************************************)
(* Four jobs: two with the same key, one that is delayed and may be tried  *)
(* twice, and one without a handler.  The clock passes the delay and the   *)
(* life of a key.                                                          *)
(***************************************************************************)
EXTENDS JobRunner

CONSTANTS j1, j2, j3, j4, k1

MCJob == {j1, j2, j3, j4}
MCKeyOf == [j \in MCJob |-> IF j \in {j1, j2} THEN k1 ELSE NoKey]
MCDelay == [j \in MCJob |-> IF j = j3 THEN 1 ELSE 0]
MCMaxAttempts == [j \in MCJob |-> IF j = j3 THEN 2 ELSE 1]
MCHandled == {j1, j2, j3}
=============================================================================
