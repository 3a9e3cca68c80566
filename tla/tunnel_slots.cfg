SPECIFICATION SceneSpec
CONSTANTS
  m1 = m1  m2 = m2  a1 = a1  m3 = m3  a3 = a3
  s1 = s1  s2 = s2
  Conn = {m1, m2, a1, m3, a3}
  Session = {s1, s2}
  None = None
  RoleOf <- MCRole
  SessionOf <- MCSession
  Faults = {"drop", "stall"}
  MaxFrames <- MCFrames
  MaxActive = 1
  MaxPending = 1
  MaxBuffer = 1
INVARIANTS TypeOK SlotsHaveOwners TunnelsArePairs InOrder
PROPERTIES SlotsAreFreed ServesTunnels
\* Sessions are one-time: when every socket is done, nothing is left to do.
CHECK_DEADLOCK FALSE
