--------------------------- MODULE MCCashAdvances ---------------------------
(***************************************************************************)
(* CashAdvances on small instances.                                        *)
(***************************************************************************)
EXTENDS CashAdvances, TLC

TwoAdvances == {1, 2}
Symmetry == Permutations(Runs) \cup Permutations(Clerks)
=============================================================================
