SPECIFICATION Spec
CONSTANTS
  LastDate = 3
  Types = {"SIL", "Emergency Leave"}
  PaidTypes = {"SIL"}
  Credits <- MCCredits
  Asks <- MCAsks
  Fractions = {1}
  Clerks = {c1, c2}
  MaxLeaves = 3
INVARIANTS AskedWithinCredits DaysMatchSpan CutoffsAddUp
CONSTRAINT OneOvertaken
SYMMETRY Interchangeable
CHECK_DEADLOCK FALSE
