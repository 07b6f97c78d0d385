---------------------------- MODULE MCBuildJobs ----------------------------
(* Model-checking instances of BuildJobs. *)
EXTENDS BuildJobs, TLC

Interchangeable == Permutations(Jobs) \cup Permutations(Targets) \cup Permutations(Builders)

=============================================================================
