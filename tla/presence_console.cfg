SPECIFICATION PFairSpec
CONSTANTS
  Agents = {a1}
  Masters = {m1}
  home = home
  Room = {home}
  None = None
  Conn <- MCConn
  RoleOf <- MCRoleOf
  RoomOf <- MCRoomOf
  Faults = {}
  Commands = {}
  GraceOn = FALSE
  DbFails = FALSE
PROPERTIES CrashedGoesOffline
CHECK_DEADLOCK FALSE
