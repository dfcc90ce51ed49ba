SPECIFICATION Spec
CONSTANTS
  Users = {"u1", "u2"}
  Admin = "u1"
  Employees = {"e1"}
  Nobody = "nobody"
  FailureLimit = 3
  LockTime <- MCLockTime
  SessionTime = 1
  ViewTime = 0
  Roles = {"owner", "staff"}
  MaxTime = 1
  Forgetful = {"u1"}
  MaxFailures = 4
  MaxChanges = 2
  MaxCodes = 2
  MaxTokens = 2
INVARIANTS SessionsFollowTheAccount 
 
CHECK_DEADLOCK FALSE
