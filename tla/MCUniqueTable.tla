--------------------------- MODULE MCUniqueTable ---------------------------
(* Two threads, of one split or of two, on tables of regions of two or four *)
(* buckets.                                                                *)
EXTENDS UniqueTable, TLC

CONSTANTS t1, t2, k1, k2, k3

MCThreads == {t1, t2}
OneSplit  == (t1 :> 0) @@ (t2 :> 0)
TwoSplits == (t1 :> 0) @@ (t2 :> 1)

\* k1 and k2 collide on the last positions, so that probing wraps.
MCKeys == {k1, k2, k3}
MCHash == (k1 :> 7) @@ (k2 :> 7) @@ (k3 :> 6)

\* The two threads may be exchanged, and the two nodes of one hash.
Symmetry == Permutations({k1, k2}) \cup Permutations(MCThreads)
=============================================================================
