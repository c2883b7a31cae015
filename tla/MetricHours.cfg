\* Three hours of two minutes; the first crosses the edge of the retention.
SPECIFICATION Spec
CONSTANTS
  HourLen = 2
  Delay = 1
  Slice = 2
  Overlap = 1
  Migrated = 2
  Lookback = 1
  Retention = 3
  HourRetention = 8
  MaxHours = 2
  Followed = {2, 4, 6}
  First = 8
  Last = 10
INVARIANTS CoveredHourIsWhole
CHECK_DEADLOCK FALSE
