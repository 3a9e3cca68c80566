SPECIFICATION PFairSpec
CONSTANTS
  Agents = {a1, a2}
  Masters = {}
  home = home
  Room = {home}
  None = None
  Conn <- MCConn
  RoleOf <- MCRoleOf
  RoomOf <- MCRoomOf
  Faults = {"drop"}
  Commands = {}
  GraceOn = TRUE
  DbFails = TRUE
INVARIANTS PresenceTypeOK
PROPERTIES OneDeparture CrashedGoesOffline
CHECK_DEADLOCK FALSE
