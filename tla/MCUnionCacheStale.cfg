CONSTANTS
  r1 = r1
  r2 = r2
  r3 = r3
  NVars = 2
  Regs <- TwoRegs
  Capacity = 6
SYMMETRY Symmetry
SPECIFICATION Spec
INVARIANTS
  UnionCorrect
