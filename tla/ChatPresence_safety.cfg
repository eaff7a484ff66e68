SPECIFICATION Spec
CONSTANTS
  Users = {u1}
  Instances = {i1}
  TTL = 2
  MaxDelay = 1
  Slots = {s1, s2}
  MaxConns = 1
  MaxJoins = 1
  QueueCap = 2
  MaxRetries = 1
  Interval = 1
  Lossy = TRUE
  MaxStops = 1
SYMMETRY Symmetry
INVARIANT PresenceInv
