--------------------------- MODULE MCWeightCalls ---------------------------
(* Every family over three elements, alone and with a partner of at most   *)
(* two sets; triples of such families over two elements.                   *)
EXTENDS WeightCalls

MCElements == 1 .. 3
Small(E, n) == {F \in SUBSET SUBSET E : Cardinality(F) <= n}
MCInputs ==
  {<<F>> : F \in Families}
    \cup {<<F, G>> : F \in Families, G \in Small(1 .. 3, 2)}
    \cup {<<F, G, H>> : F \in Small(1 .. 2, 2), G \in Small(1 .. 2, 2),
                        H \in Small({1, 3}, 2)}
MCWeighting ==
  {[of |-> <<1, 2, 3>>, signed |-> FALSE], [of |-> <<2, 0, 1>>, signed |-> FALSE],
   [of |-> <<-1, 2, -2>>, signed |-> TRUE], [of |-> <<3, -1, 1>>, signed |-> TRUE]}
MCAsked == {-2, 0, 1, 3}
MCBudgets == -10 .. 10
MCMaxBudgets == {2, None}
=============================================================================
