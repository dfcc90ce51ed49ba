SPECIFICATION PaySpec
CONSTANTS
  Inputs <- MCInputs
  Cutoff = {1, 2}
  MonthOf <- MCMonthOf
  Standard = 8
INVARIANTS MonthsAddUp PaidHoursAreShown UnapprovedEarnsNothing CutoffNeutral
CHECK_DEADLOCK FALSE
