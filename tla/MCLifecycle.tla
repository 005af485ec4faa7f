---------------------------- MODULE MCLifecycle ----------------------------
(* Lifecycle for TLC: identities of requests, workers and panes are alike. *)
EXTENDS Lifecycle, TLC
Symmetry == Permutations(Requests) \cup Permutations(Workers) \cup Permutations(Panes)
=============================================================================
