SPECIFICATION BoardSpec
CONSTANTS
  ana = ana
  ben = ben
  Nobody = Nobody
  Employees = {ana, ben}
  Slots <- MCSlots
  Weeks = {0}
  OnLeave <- MCOnLeave
  InitialShifts <- MCInitialShifts
  Editors = {c1}
  MaxShifts = 3
  MaxChanges = 2
  MaxPublications = 2
INVARIANTS ConfirmedDoNotOverlap UndoReturnsToBaseline AckIsOfThisPublication
CONSTRAINT PublishBetweenEdits
CHECK_DEADLOCK FALSE
