SPECIFICATION FairSpec
CONSTANTS
  Users = {u1}
  Instances = {i1}
  TTL = 1
  MaxDelay = 0
  Slots = {s1, s2}
  MaxConns = 2
  MaxJoins = 1
  QueueCap = 1
  MaxRetries = 0
  Interval = 1
  Lossy = TRUE
  MaxStops = 0
PROPERTIES Heals GhostsVanish
