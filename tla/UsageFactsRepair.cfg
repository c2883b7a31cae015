SPECIFICATION Spec
CONSTANTS
  m1 = m1
  m2 = m2
  Members <- OneMember
  FirstMembers <- OneMember
  HoursPerDay = 2
  WindowDays = 2
  RetainedDays = 1
  TailHours = 1
  FirstEnd = 4
  LastEnd = 6
  MaxLate = 0
  MaxChanges = 0
  MaxCrashes = 0
  MaxFailures = 0
  MaxRepairs = 1
INVARIANTS CursorIsCompletePrefix
CHECK_DEADLOCK TRUE
