------------------------- MODULE MCPayrollCorrections -------------------------
(***************************************************************************)
(* PayrollCorrections with three cutoffs, three runs and one correction.   *)
(***************************************************************************)
EXTENDS PayrollCorrections

MCCutoffs == 1..3
MCRuns == 1..3
=============================================================================
