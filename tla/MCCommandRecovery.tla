-------------------------- MODULE MCCommandRecovery --------------------------
(* Model-checking instances of CommandRecovery. *)
EXTENDS CommandRecovery, TLC

Interchangeable ==
  Permutations(Requests) \cup Permutations(Keys) \cup Permutations(Operations) \cup Permutations(Hashes)

=============================================================================
