CONSTANTS
  w1 = w1
  w2 = w2
  f1 = f1
  f2 = f2
  f3 = f3
  i1 = i1
  i2 = i2
  i3 = i3
  None = None
  Workers <- MCWorkers
  Families <- MCFamilies
  Indices <- MCIndices
  Result <- MCResult
  MaxGcs = 2
SYMMETRY Symmetry
SPECIFICATION Spec
INVARIANTS
  OpCacheSound
  OwnCacheSound
CHECK_DEADLOCK FALSE
