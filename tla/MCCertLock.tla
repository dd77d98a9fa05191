----------------------------- MODULE MCCertLock -----------------------------
(* Two tasks on the first edge, one on the second.                         *)
EXTENDS CertLock

CONSTANTS p1, p2, q1, e1, e2

HomeOf(p) == IF p = q1 THEN e2 ELSE e1
=============================================================================
