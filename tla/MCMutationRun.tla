---------------------------- MODULE MCMutationRun ----------------------------
(* MutationRun with two files and two mutants, one of which patches both.    *)
EXTENDS MutationRun

MCPatchesOf == [m \in Mutants |-> IF m = 1 THEN Files ELSE {m}]
=============================================================================
