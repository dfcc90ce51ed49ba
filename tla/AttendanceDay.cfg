SPECIFICATION Spec
CONSTANTS
  Dates = {1}
  BoardDates = {1, 2}
  Slots <- MCSlots
  Punches <- MCPunches
  Uploads <- MCUploads
  Verdicts = {"Needs Review"}
  Clerks = {c1}
  MaxShifts = 2
  MaxLogs = 2
CONSTRAINT Bounded
INVARIANTS ClearedDayStaysManual RestartKeepsWork
PROPERTIES ImportsKeepManual
CHECK_DEADLOCK FALSE
