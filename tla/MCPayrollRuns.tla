---------------------------- MODULE MCPayrollRuns ----------------------------
(***************************************************************************)
(* PayrollRuns on small instances.  One clerk: requests follow each other, *)
(* and only a stop separates the commits of one of them.  Two clerks:      *)
(* requests overlap.                                                       *)
(***************************************************************************)
EXTENDS PayrollRuns, TLC

Symmetry == Permutations(Clerks) \cup Permutations(Periods)
=============================================================================
