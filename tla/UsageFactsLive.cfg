SPECIFICATION LiveSpec
CONSTANTS
  m1 = m1
  m2 = m2
  Members <- TwoMembers
  FirstMembers <- OneMember
  HoursPerDay = 2
  WindowDays = 1
  RetainedDays = 1
  TailHours = 1
  FirstEnd = 2
  LastEnd = 4
  MaxLate = 1
  MaxChanges = 1
  MaxCrashes = 1
  MaxFailures = 1
  MaxRepairs = 1
PROPERTIES FactsConverge EveryMemberServed
CHECK_DEADLOCK TRUE
