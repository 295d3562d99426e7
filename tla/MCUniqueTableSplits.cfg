CONSTANTS
  t1 = t1
  t2 = t2
  k1 = k1
  k2 = k2
  k3 = k3
  Threads <- MCThreads
  NSplits = 2
  SplitOf <- TwoSplits
  Keys <- MCKeys
  NoKey = NoKey
  Hash <- MCHash
  HashRange = 8
  RegionSize = 2
  WordSize = 1
  InitialSize = 4
  MaxSize = 6
SPECIFICATION FairSpec
INVARIANTS
  RoomOnlyElsewhere
PROPERTIES
  InsertReturns
