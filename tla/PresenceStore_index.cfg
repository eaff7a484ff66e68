SPECIFICATION StoreSpec
CONSTANTS
  Users = {u1, u2}
  Instances = {i1, i2}
  TTL = 2
  MaxDelay = 1
  Slots = {s1, s2}
SYMMETRY Symmetry
INVARIANTS StoreInv IndexCoversRoom
PROPERTY OnlyOwnOffline
