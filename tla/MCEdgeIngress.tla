--------------------------- MODULE MCEdgeIngress ---------------------------
(* EdgeIngress for TLC: edges, sessions and tunnels are interchangeable.   *)
EXTENDS EdgeIngress, TLC

Symmetry ==
  UNION {Permutations(S) : S \in {Stopping, Edges \ Stopping, Sessions, Tunnels}}
=============================================================================
