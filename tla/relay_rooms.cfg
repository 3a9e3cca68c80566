SPECIFICATION SceneSpec
CONSTANTS
  Agents = {a1, a2}
  Masters = {m1}
  Others = {x1}
  home = home
  away = away
  Room = {home}
  Away = {}
  None = None
  Conn <- MCConn
  RoleOf <- MCRoleOf
  RoomOf <- MCRoomOf
  Faults = {"drop", "stall"}
  Commands = {"remove", "remove_room", "query"}
SYMMETRY Symmetry
INVARIANTS TypeOK NoZombieInSlot OustedIsClosed
PROPERTIES ServesSlots
CHECK_DEADLOCK FALSE
