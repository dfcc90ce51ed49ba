SPECIFICATION Spec
CONSTANTS
  MaxRuns = 2
  Periods = {p1}
  Clerks = {c1, c2}
  MaxEdits = 0
SYMMETRY Symmetry
INVARIANTS AnnouncedPaidIsPaid
PROPERTIES OnlyDraftsVanish
CHECK_DEADLOCK FALSE
