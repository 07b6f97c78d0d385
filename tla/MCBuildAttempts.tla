-------------------------- MODULE MCBuildAttempts --------------------------
EXTENDS BuildAttempts, TLC
CONSTANTS n1, n2, b1, b2

MCNodeOf == (b1 :> n1) @@ (b2 :> n2)

(* A node and the build on it are exchanged together. *)
Swap == (n1 :> n2) @@ (n2 :> n1) @@ (b1 :> b2) @@ (b2 :> b1)
Stay == [x \in {n1, n2, b1, b2} |-> x]
MCSymmetry == {p @@ q : p \in {Swap, Stay}, q \in Permutations(Artifacts)}
=============================================================================
