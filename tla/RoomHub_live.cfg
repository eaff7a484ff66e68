SPECIFICATION FairSpec
CONSTANTS
  Clients = {c1, c2}
  Names = {general}
  MaxRooms = 2
  SendCap = 1
  MaxMsgs = 0
PROPERTIES PumpsExit JoinReturns RoomsReaped
CHECK_DEADLOCK FALSE
