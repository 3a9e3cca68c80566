SPECIFICATION FairSpec
CONSTANTS
  Kinds <- MCKinds
  Faults = {"crash", "drop", "call", "start"}
  MaxFaults = 1
INVARIANTS TypeOK SentOnce NothingVanishes HoldIsRecorded
PROPERTIES QueueMoves ServesMessages
CHECK_DEADLOCK FALSE
