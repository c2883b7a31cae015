SPECIFICATION Spec
CONSTANTS
  m1 = m1
  m2 = m2
  Members <- TwoMembers
  FirstMembers <- OneMember
  HoursPerDay = 2
  WindowDays = 2
  RetainedDays = 1
  TailHours = 1
  FirstEnd = 4
  LastEnd = 6
  MaxLate = 0
  MaxChanges = 1
  MaxCrashes = 0
  MaxFailures = 0
  MaxRepairs = 0
INVARIANTS PublishedDaysProven
CHECK_DEADLOCK TRUE
