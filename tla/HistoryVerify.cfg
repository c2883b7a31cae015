SPECIFICATION Spec
CONSTANTS
  Member <- OneMember
  Registered <- HourTwo
  HoursPerDay = 2
  Recent = 1
  MaxChunk = 2
  MaxAttempts = 2
  Lag = 0
  First = 3
  Last = 4
  MaxRev = 1
  MaxEpoch = 1
  MaxFaults = 0
INVARIANTS VerifyHasItsHours
CHECK_DEADLOCK FALSE
