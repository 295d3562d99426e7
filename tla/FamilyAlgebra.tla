--------------------------- MODULE FamilyAlgebra ---------------------------
(***************************************************************************)
(* The recursions of src/src/algebra.rs over diagrams.  The operation      *)
(* cache is left out: UnionCache has it.  Where the code swaps the         *)
(* arguments of a commutative operation by their indices, only the place   *)
(* of One is certain, index 1 being the least of a node's; the order of    *)
(* two nodes is arbitrary, and both are met as (f, g) and as (g, f).       *)
(***************************************************************************)
EXTENDS Zdd

Pairs == Diagrams \X Diagrams
ElementCalls == Diagrams \X Elements
ExtendCalls == Diagrams \X SUBSET Elements

\* Below the values of the diagram.
UnderCalls ==
  {p \in ExtendCalls : IsTerminal(p[1]) \/ \A v \in p[2] : v < Val(p[1])}

OffsetStep(call, f, value) ==
  IF IsTerminal(f) THEN f
  ELSE IF Val(f) = value THEN Lo(f)
  ELSE IF Val(f) > value THEN f
  ELSE GetNode(Val(f), call[<<Lo(f), value>>], call[<<Hi(f), value>>])
Offset[p \in ElementCalls] == OffsetStep(Offset, p[1], p[2])

OnsetStep(call, f, value) ==
  IF IsTerminal(f) THEN Zero
  ELSE IF Val(f) = value THEN Hi(f)
  ELSE IF Val(f) > value THEN Zero
  ELSE GetNode(Val(f), call[<<Lo(f), value>>], call[<<Hi(f), value>>])
Onset[p \in ElementCalls] == OnsetStep(Onset, p[1], p[2])


IntersectStep(call, f, g) ==
  IF IsZero(f) \/ IsZero(g) THEN Zero
  ELSE IF f = g THEN f
  ELSE IF IsOne(g) THEN call[<<g, f>>]
  ELSE IF IsOne(f) THEN IF ContainsEmptySet[g] THEN f ELSE Zero
  ELSE IF Val(f) < Val(g) THEN call[<<Lo(f), g>>]
  ELSE IF Val(f) > Val(g) THEN call[<<f, Lo(g)>>]
  ELSE GetNode(Val(f), call[<<Lo(f), Lo(g)>>], call[<<Hi(f), Hi(g)>>])
Intersect[p \in Pairs] == IntersectStep(Intersect, p[1], p[2])

UnionStep(call, f, g) ==
  IF IsZero(f) THEN g
  ELSE IF IsZero(g) \/ f = g THEN f
  ELSE IF IsOne(g) THEN call[<<g, f>>]
  ELSE IF IsOne(f) THEN GetNode(Val(g), call[<<f, Lo(g)>>], Hi(g))
  ELSE IF Val(f) < Val(g) THEN GetNode(Val(f), call[<<Lo(f), g>>], Hi(f))
  ELSE IF Val(f) > Val(g) THEN GetNode(Val(g), call[<<f, Lo(g)>>], Hi(g))
  ELSE GetNode(Val(f), call[<<Lo(f), Lo(g)>>], call[<<Hi(f), Hi(g)>>])
Union[p \in Pairs] == UnionStep(Union, p[1], p[2])

DifferenceStep(call, f, g) ==
  IF IsZero(f) \/ f = g THEN Zero
  ELSE IF IsZero(g) THEN f
  ELSE IF IsOne(f) THEN call[<<f, Lo(g)>>]
  ELSE IF IsOne(g) THEN GetNode(Val(f), call[<<Lo(f), g>>], Hi(f))
  ELSE IF Val(f) < Val(g) THEN GetNode(Val(f), call[<<Lo(f), g>>], Hi(f))
  ELSE IF Val(f) > Val(g) THEN call[<<f, Lo(g)>>]
  ELSE GetNode(Val(f), call[<<Lo(f), Lo(g)>>], call[<<Hi(f), Hi(g)>>])
Difference[p \in Pairs] == DifferenceStep(Difference, p[1], p[2])

ChangeStep(call, f, value) ==
  IF IsZero(f) THEN f
  ELSE IF IsOne(f) THEN Singleton(value)
  ELSE IF Val(f) = value THEN GetNode(value, Hi(f), Lo(f))
  ELSE IF Val(f) > value THEN GetNode(value, Zero, f)
  ELSE GetNode(Val(f), call[<<Lo(f), value>>], call[<<Hi(f), value>>])
Change[p \in ElementCalls] == ChangeStep(Change, p[1], p[2])


\* Mutant: the sets without the value are lost at its node.
InsertLosesLo(call, f, value) ==
  IF IsZero(f) THEN f
  ELSE IF IsOne(f) THEN Singleton(value)
  ELSE IF Val(f) < value
    THEN GetNode(Val(f), call[<<Lo(f), value>>], call[<<Hi(f), value>>])
  ELSE IF Val(f) = value THEN GetNode(value, Zero, Hi(f))
  ELSE GetNode(value, Zero, f)

InsertStep(call, f, value) ==
  IF IsZero(f) THEN f
  ELSE IF IsOne(f) THEN Singleton(value)
  ELSE IF Val(f) < value
    THEN GetNode(Val(f), call[<<Lo(f), value>>], call[<<Hi(f), value>>])
  ELSE IF Val(f) = value THEN GetNode(value, Zero, Union[<<Hi(f), Lo(f)>>])
  ELSE GetNode(value, Zero, f)
Insert[p \in ElementCalls] == InsertStep(Insert, p[1], p[2])

InsertAsSupersetStep(call, f, value) ==
  IF IsZero(f) THEN f
  ELSE IF IsOne(f) THEN GetNode(value, One, One)
  ELSE IF Val(f) < value
    THEN GetNode(Val(f), call[<<Lo(f), value>>],
                         call[<<Hi(f), value>>])
  ELSE IF Val(f) = value THEN GetNode(value, Lo(f), Union[<<Hi(f), Lo(f)>>])
  ELSE GetNode(value, f, f)
InsertAsSuperset[p \in ElementCalls] == InsertAsSupersetStep(InsertAsSuperset, p[1], p[2])

\* A node over f for each value, from the greatest up, with two equal
\* children: add_all_subsets, all_subsets and SingleSet::powerset.
AddAllSubsetsStep(call, f, values) ==
  LET v    == Least(values)
      rest == call[<<f, values \ {v}>>]
  IN  IF values = {} THEN f ELSE GetNode(v, rest, rest)
AddAllSubsets[p \in UnderCalls] == AddAllSubsetsStep(AddAllSubsets, p[1], p[2])

AllSubsets(values) == AddAllSubsets[<<One, values>>]

\* extend_as_superset and its inner function; `values` is a SingleSet, which
\* pivot cuts at the value of the node.

ExtendAsSupersetStep(call, f, values) ==
  LET lower  == {v \in values : v < Val(f)}
      higher == values \ lower
      rest   == higher \ {Val(f)}
      lo     == call[<<Lo(f), rest>>]
      hi     == call[<<Hi(f), rest>>]
      set    == IF higher = {} THEN f
                ELSE IF Val(f) \notin higher THEN GetNode(Val(f), lo, hi)
                ELSE GetNode(Val(f), lo, Union[<<hi, lo>>])
  IN
  IF IsZero(f) \/ values = {} THEN f
  ELSE IF IsOne(f) THEN AddAllSubsets[<<One, values>>]
  ELSE AddAllSubsets[<<set, lower>>]
ExtendAsSuperset[p \in ExtendCalls] == ExtendAsSupersetStep(ExtendAsSuperset, p[1], p[2])
=============================================================================
