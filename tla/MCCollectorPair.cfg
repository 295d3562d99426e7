CONSTANTS
  t1 = t1
  t2 = t2
  Threads <- Pair
  NoThread = NoThread
  NVars = 2
  r1 = r1
  r2 = r2
  r3 = r3
  r4 = r4
  NoReg = NoReg
  Regs <- ThreeRegs
  Places <- OnePlaces
  Calls <- SharedCalls
  OutOfReach = 1
  InitialCapacity = 3
  MaxTable = 4
SPECIFICATION FairSpec
INVARIANTS
  OnlyMissedCountsLoseNodes
PROPERTIES
  NodeReturns
CONSTRAINT RaceFree
