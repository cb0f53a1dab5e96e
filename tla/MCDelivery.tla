------------------------------ MODULE MCDelivery ------------------------------
(* Small instances of the delivery side for TLC.                            *)
EXTENDS Delivery, TLC

CONSTANTS j1, j2, j3, p1, t1, t2

MCSymmetry == Permutations(Workers) \cup Permutations(Jobs)
=============================================================================
