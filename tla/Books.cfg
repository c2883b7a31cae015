SPECIFICATION Spec
CONSTANTS
    m1 = m1  m2 = m2
INVARIANTS CursorIsCompletePrefix PublishedIsProved HoursAccounted CoverageIsHeld
           SignedIsExact
PROPERTIES BecomesReadableWhole
CHECK_DEADLOCK FALSE
