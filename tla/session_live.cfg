SPECIFICATION UFairSpec
CONSTANTS
  Agents = {a1, a2}
  Masters = {}
  Others = {}
  home = home
  Room = {home}
  None = None
  Conn <- MCConn
  RoleOf <- MCRoleOf
  RoomOf <- MCRoomOf
  Faults = {"drop", "mute"}
  Commands = {"query"}
INVARIANTS OnlyLateLookupsLinger
PROPERTIES
  EvictedIsForgotten
  DeadSocketVacates
CHECK_DEADLOCK FALSE
