SPECIFICATION Spec
CONSTANTS
  ana = ana
  ben = ben
  Nobody = Nobody
  Employees = {ana, ben}
  Slots <- MCSlots
  Weeks = {0}
  OnLeave <- MCOnLeave
  InitialShifts <- MCInitialShifts
  Editors = {c1}
  Desks = {d1, d2}
  MaxShifts = 3
  MaxChanges = 2
  MaxPublications = 0
  MaxRequests = 1
  Askers = {ana}
  Wanted <- MCWanted
INVARIANTS ConfirmedDoNotOverlap SwapWasAgreed 
SYMMETRY Symmetry
CHECK_DEADLOCK FALSE
