SPECIFICATION FairSpec
CONSTANTS
  Backends <- MCBackends
  Params = {"", "general"}
  VirtualNodes = 1
  Positions = 4
  MaxRequests = 3
  Clients = {c1, c2}
  Loads <- MCLoads
INVARIANTS RoomOnOneInstance RingIsConsistent PicksInv
PROPERTY FlagsConverge
CHECK_DEADLOCK FALSE
