SPECIFICATION Spec
CONSTANTS
  Cutoffs <- MCCutoffs
  Runs <- MCRuns
  Corrections = {"c1"}
INVARIANTS PaidInOneCutoff
CHECK_DEADLOCK FALSE
