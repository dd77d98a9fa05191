----------------------------- MODULE MCMetering -----------------------------
(* Instances of Metering: two replicas of the loop, two months.            *)
EXTENDS Metering, TLC

Symmetry == Permutations(Loops)
=============================================================================
