CONSTANTS
  t1 = t1
  t2 = t2
  Threads <- MCThreads
  Hashes <- MCHashes
  EntrySizes <- MCEntrySizes
  CacheMaxes <- MCCacheMaxes
  LiveCounts <- MCLiveCounts
  Capacity = 1
SYMMETRY Symmetry
SPECIFICATION Spec
INVARIANTS
  SizeExact
  TablesFitCap
  SizeBounded
CHECK_DEADLOCK FALSE
