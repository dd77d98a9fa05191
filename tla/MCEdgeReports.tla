---------------------------- MODULE MCEdgeReports ----------------------------
(* Instances of EdgeReports: two triples bound twice, two connections.     *)
EXTENDS EdgeReports, TLC

Symmetry == Permutations(Tunnels)
=============================================================================
