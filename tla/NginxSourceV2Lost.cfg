\* A lost acknowledgement while a drained file disappears.
SPECIFICATION FairSpec
CONSTANTS
  MaxFiles = 2
  MaxSize = 1
  MaxRange = 1
  Payload = {p1}
  Turns = 2
  MaxFaults = 1
  MaxStale = 1
  Deletable = {1}
  CarefulRotation = TRUE
PROPERTY LostAckRepaired
CHECK_DEADLOCK FALSE
