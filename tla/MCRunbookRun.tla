---------------------------- MODULE MCRunbookRun ----------------------------
EXTENDS RunbookRun, TLC

(* A gated pipeline that keeps no old version, and a shorter one with      *)
(* another step at every ordinal.                                          *)
Pipeline == [steps |-> <<"resolveSources", "buildIndex", "verify", "cutover", "retireOld">>,
             approval |-> TRUE, keep |-> 0]
Short == [steps |-> <<"buildIndex", "verify", "cutover">>,
          approval |-> TRUE, keep |-> 0]

MCDocs == {Pipeline, Short}

Interchangeable == Permutations(Runs) \cup Permutations(Corpora)
=============================================================================
