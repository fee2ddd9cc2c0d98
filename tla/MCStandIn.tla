---------------------------- MODULE MCStandIn ----------------------------
(* One seat, with as many requests about it as a table has.                *)
EXTENDS StandIn, TLC

RunnerSymmetry == Permutations(Runners)
=============================================================================
