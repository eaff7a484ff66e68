SPECIFICATION CacheFairSpec
CONSTANTS
  Gets = {q1, q2, q3}
  Hashes <- MCHashes
  Size <- MCSize
  MaxBytes = 2
  MaxEntry = 2
  Nobody = Nobody
INVARIANTS CacheInv OneFetch ServedFromResult
PROPERTY EveryoneAnswered
CHECK_DEADLOCK FALSE
