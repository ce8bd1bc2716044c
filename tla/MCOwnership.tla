---------------------------- MODULE MCOwnership -----------------------------
(* Symmetry for the runs of Ownership. *)
EXTENDS Ownership, TLC

Symmetry == Permutations(Threads) \cup Permutations(Visitors) \cup Permutations(Users)
=============================================================================
