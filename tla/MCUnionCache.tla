---------------------------- MODULE MCUnionCache ----------------------------
EXTENDS UnionCache, TLC

CONSTANTS r1, r2, r3

ThreeRegs == {r1, r2, r3}
TwoRegs   == {r1, r2}
Symmetry  == Permutations(ThreeRegs)
=============================================================================
