SPECIFICATION Spec
CONSTANTS
  Contents <- MCContents
  Images <- MCImages
  Size <- MCSize
  Prefix <- MCPrefix
  MaxBytes = 2
  Uploads = {u1, u2, u3}
  Reads = {r1}
  None = None
  MaxCrashes = 1
SYMMETRY Alike
INVARIANTS MediaInv StoredStaysReadable ReadsSeeStored
CHECK_DEADLOCK FALSE
