---------------------------- MODULE MCDashboard ----------------------------
(***************************************************************************)
(* A small instance of Dashboard for TLC.                                  *)
(***************************************************************************)
EXTENDS Dashboard, TLC

CONSTANTS j1, j2, j3, j4

JobSymmetry == Permutations(Jobs)

(* Bound: how many workers are at the end of their jobs at a time.  Of     *)
(* what they do there the sort sees the statuses only, so it needs fewer.  *)
FewEnding ==
  LET ending == {j \in Jobs : wstep[j] # "off"}
  IN Cardinality(ending) <= IF gstep \in {"table", "insert"} THEN 1 ELSE 2

=============================================================================
