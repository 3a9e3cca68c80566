SPECIFICATION Spec
CONSTANTS
  Kinds <- MCKinds
  Faults = {}
  MaxFaults = 0
PROPERTIES StopHolds
CHECK_DEADLOCK FALSE
