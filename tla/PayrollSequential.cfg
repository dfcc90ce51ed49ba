SPECIFICATION Spec
CONSTANTS
  MaxRuns = 3
  Periods = {p1}
  Clerks = {c1}
  MaxEdits = 1
INVARIANTS  ManualIsKept SuccessorIsRevision RevisionAncestry
CHECK_DEADLOCK FALSE
