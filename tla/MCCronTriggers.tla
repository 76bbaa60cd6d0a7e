--------------------------- MODULE MCCronTriggers ---------------------------
(***************************************************************************)
(* Calls are alike, and so are sweeps: nothing but equality tells them     *)
(* apart, and the properties checked are safety properties.                *)
(***************************************************************************)
EXTENDS CronTriggers, TLC

Symmetry == Permutations(Op) \cup Permutations(Worker)
=============================================================================
