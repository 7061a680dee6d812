---------------------------- MODULE MCIssueTool ----------------------------
(***************************************************************************)
(* IssueTool for TLC: each issue depends on the one before it, if the run  *)
(* has more than one; the processes are alike.                             *)
(***************************************************************************)
EXTENDS IssueTool, TLC

ChainedIssues == [i \in Issues |-> {j \in Issues : j = i - 1}]

Symmetry == Permutations(Procs)
=============================================================================
