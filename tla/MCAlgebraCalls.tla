--------------------------- MODULE MCAlgebraCalls ---------------------------
(* Every family over four elements, and every pair of families over three; *)
(* maps that reverse and that merge values; forms of up to three nodes     *)
(* with children anywhere.                                                 *)
EXTENDS AlgebraCalls

MCElements == 1 .. 4
MCPartners == SUBSET SUBSET (1 .. 3)
MCFuncs == {<<4, 3, 2, 1>>, <<3, 1, 1, 2>>}

Entries(values, children) ==
  {OwnedZddNode(v, lo, hi) : v \in values, lo \in children, hi \in children}
MCForms ==
  {Owned(nodes, roots) :
     nodes \in Entries(1 .. 2, 0 .. 4) \X Entries(1 .. 2, 0 .. 4),
     roots \in SUBSET (1 .. 4)}
    \cup {Owned(nodes, roots) :
            nodes \in Entries({3}, 0 .. 1) \X Entries(2 .. 3, 0 .. 2)
                       \X Entries({1}, 0 .. 4),
            roots \in {{4}, {3, 4}, {5}}}
=============================================================================
