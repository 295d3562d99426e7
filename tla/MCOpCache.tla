------------------------------ MODULE MCOpCache ------------------------------
EXTENDS OpCache, TLC

CONSTANTS t1, t2
MCThreads == {t1, t2}
Symmetry == Permutations(MCThreads)

\* In the 64 slots of the operation cache two of its keys collide.
MCHashes == [c \in Caches |-> IF c = "op" THEN {0, 1, 3, 64} ELSE {0, 1, 3}]
MCEntrySizes == {24, 40}
MCCacheMaxes == {63, 64, 208, 1300, Unlimited}
MCLiveCounts == {2, 9}
=============================================================================
