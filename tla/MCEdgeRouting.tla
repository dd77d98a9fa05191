--------------------------- MODULE MCEdgeRouting ---------------------------
(* Small instances of EdgeRouting.  Edges, sessions and tunnels are symmetric  *)
(* in every safety run; the runs with liveness properties use no symmetry.   *)
EXTENDS EdgeRouting, TLC

Symmetry ==
  UNION {Permutations(S) : S \in {Stopping, Edges \ Stopping, Sessions, Tunnels}}
=============================================================================
