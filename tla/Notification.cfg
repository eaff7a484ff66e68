SPECIFICATION CloseSpec
CONSTANTS
  Events = {e1}
  Users = {u1, u2}
  Workers = {w1, w2}
  EventCap = 2
  DeliveryCap = 1
  MaxRetries = 1
  MaxPosts = 3
  MaxCrashes = 1
  DbFaults = TRUE
INVARIANTS DeliveryInv RowsAccounted EventsDrained
PROPERTIES DeliversAsPromised CloseReturns
