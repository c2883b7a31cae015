\* Two rotations, nothing is deleted: everything is delivered.
SPECIFICATION FairSpec
CONSTANTS
  MaxFiles = 3
  MaxSize = 1
  MaxRange = 1
  Payload = {p1}
  Turns = 2
  MaxFaults = 2
  MaxStale = 1
  Deletable = {}
  CarefulRotation = TRUE
PROPERTY EverythingDelivered LostAckRepaired
CHECK_DEADLOCK FALSE
