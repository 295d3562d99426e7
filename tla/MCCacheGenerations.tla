------------------------- MODULE MCCacheGenerations -------------------------
EXTENDS CacheGenerations, TLC

CONSTANTS w1, w2, f1, f2, f3, i1, i2, i3
MCWorkers == {w1, w2}
MCFamilies == {f1, f2, f3}
MCIndices == {i1, i2, i3}

\* The operation is applied to its own results.
MCResult == f1 :> f2 @@ f2 :> f3 @@ f3 :> f1

\* Turning the families changes no answer.
Turn == {x \in Permutations(MCFamilies) :
           \A f \in MCFamilies : x[MCResult[f]] = MCResult[x[f]]}
Symmetry == Permutations(MCWorkers) \cup Permutations(MCIndices) \cup Turn
=============================================================================
