SPECIFICATION Spec
CONSTANTS
  Segments <- MCSegments
  MaxRuns = 3
  Earnings <- MCEarnings
  Monthly = 2
  Share <- MCShare
  Payments = {1}
  MaxCollected = 1
INVARIANTS WithheldOnce CatchupsAreWithheld
CHECK_DEADLOCK FALSE
