SPECIFICATION Spec
CONSTANTS
  Clients = {c1, c2}
  Names = {general}
  MaxRooms = 2
  SendCap = 1
  MaxMsgs = 2
SYMMETRY Symmetry
INVARIANTS TypeOK NoPanic HubRoomsLive FramesInOrder PresenceTruthful
CHECK_DEADLOCK FALSE
