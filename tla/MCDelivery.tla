---------------------------- MODULE MCDelivery ----------------------------
(* Delivery to a seated tab and a spectating one.                          *)
EXTENDS Delivery, TLC

ConnSymmetry == Permutations(Conns)
=============================================================================
