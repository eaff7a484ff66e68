SPECIFICATION Spec
CONSTANTS
  Users = {u1, u2}
  Names = {n1}
  Addresses = {public, private}
  Forbidden = {private}
  Malformed = {nonsense}
  Puts = {p1, p2}
  MaxEvents = 1
  NoHook = NoHook
SYMMETRY Symmetry
INVARIANTS RecipientsRight RegistryInv CallsAreOwn
