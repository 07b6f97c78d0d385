----------------------------- MODULE MCRollout ------------------------------
(* Model-checking instances of Rollout. *)
EXTENDS Rollout, TLC
=============================================================================
