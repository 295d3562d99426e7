CONSTANTS
  t1 = t1
  t2 = t2
  k1 = k1
  k2 = k2
  k3 = k3
  Threads <- MCThreads
  NSplits = 1
  SplitOf <- OneSplit
  Keys <- MCKeys
  NoKey = NoKey
  Hash <- MCHash
  HashRange = 8
  RegionSize = 4
  WordSize = 2
  InitialSize = 4
  MaxSize = 8
SYMMETRY Symmetry
SPECIFICATION Spec
INVARIANTS
  BucketsOwnedOnce
  Findable
  NoBucketLeaks
PROPERTIES
  PublishedDataFrozen
  ImplementsInternMap
