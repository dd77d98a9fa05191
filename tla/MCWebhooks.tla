----------------------------- MODULE MCWebhooks -----------------------------
(* Instances of Webhooks: up to two orgs, customers, checkouts, handlers   *)
(* and subscriptions.                                                      *)
EXTENDS Webhooks, TLC

Symmetry ==
  Permutations(Orgs) \cup Permutations(Customers) \cup Permutations(Handlers) \cup Permutations(Checkouts)
=============================================================================
