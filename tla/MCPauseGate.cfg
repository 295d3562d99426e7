CONSTANTS
  t1 = t1
  t2 = t2
  t3 = t3
  Threads <- MCThreads
  NSplits = 2
  SplitOf <- MCSplitOf
  NoThread = NoThread
SPECIFICATION FairSpec
INVARIANTS
  TypeOK
  Exclusion
  NoLostWakeup
PROPERTIES
  GcWaitsForTheEnd
  ImplementsTableLock
  PauseEnds
  ReadersResume
