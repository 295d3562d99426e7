CONSTANTS
  t1 = t1
  t2 = t2
  Threads <- Pair
  NoThread = NoThread
  NVars = 2
  r1 = r1
  r2 = r2
  r3 = r3
  r4 = r4
  NoReg = NoReg
  Regs <- FourRegs
  Places <- SoloPlaces
  Calls <- SoloCalls
  OutOfReach = 1
  InitialCapacity = 3
  MaxTable = 5
SYMMETRY Symmetry
SPECIFICATION Spec
INVARIANTS
  HeldSurvive
  EqualityIsIdentity
  CountsExact
PROPERTIES
  CollectsExactly
