CONSTANTS
  t1 = t1
  t2 = t2
  Threads <- Pair
  NoThread = NoThread
  NVars = 2
  r1 = r1
  r2 = r2
  r3 = r3
  r4 = r4
  NoReg = NoReg
  Regs <- TwoRegs
  Places <- PairPlaces
  Calls <- BuildCalls
  OutOfReach = 0
  InitialCapacity = 5
  MaxTable = 5
SPECIFICATION Spec
INVARIANTS
  HeldSurvive
