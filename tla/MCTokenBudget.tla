--------------------------- MODULE MCTokenBudget ---------------------------
(* Model-checking instances of TokenBudget. *)
EXTENDS TokenBudget, TLC

Interchangeable ==
  Permutations(Calls) \cup Permutations(Tiers) \cup Permutations(Corrections)

=============================================================================
