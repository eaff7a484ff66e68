SPECIFICATION FairSpec
CONSTANTS
  Rooms = {r1, r2}
  Name <- MCName
  Workers = {w1, w2}
  ArchiveCap = 1
  NotifyCap = 1
  MaxRetries = 1
  DefaultPerPage = 1
  MaxPerPage = 2
  Asks = {0, 3}
  Loads <- MCLoads
  MaxMessages = 3
  MaxClock = 1
INVARIANTS HistoryInOrder PagingSound QueuesInv
PROPERTY QueuedIsHandled
CHECK_DEADLOCK FALSE
