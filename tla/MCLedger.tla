------------------------------ MODULE MCLedger ------------------------------
(* Model-checking instances of Ledger. *)
EXTENDS Ledger, TLC

Interchangeable ==
  Permutations(Versions) \cup Permutations(Keys) \cup Permutations(Values) \cup Permutations(Commands)

\* Explore a single lineage: lineages share nothing but the tables.
OneLineage ==
  \A v, w \in Versions : Created(v) /\ Created(w) => chain[v] \cap chain[w] # {}
=============================================================================
