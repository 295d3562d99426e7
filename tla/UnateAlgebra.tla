---------------------------- MODULE UnateAlgebra ----------------------------
(***************************************************************************)
(* The recursions of src/src/algebra/unate.rs, without the operation       *)
(* cache.                                                                  *)
(***************************************************************************)
EXTENDS FamilyAlgebra

ElementDivision(f, value)  == Onset[<<f, value>>]
ElementRemainder(f, value) == Offset[<<f, value>>]

\* What a panic answers with: no diagram.
Panic == <<0, 0>>

\* "Can't divide by the empty set!"
DivideStep(call, f, g) ==
  LET value == Val(g)
      r     == call[<<ElementDivision(f, value), Hi(g)>>]
  IN
  IF IsOne(g) THEN f
  ELSE IF IsTerminal(f) THEN Zero
  ELSE IF f = g THEN One
  ELSE IF IsZero(g) THEN Panic
  ELSE IF IsZero(Lo(g)) /\ IsOne(Hi(g)) THEN ElementDivision(f, value)
  ELSE IF IsZero(r) \/ IsZero(Lo(g)) THEN r
  ELSE Intersect[<<r, call[<<ElementRemainder(f, value), Lo(g)>>]>>]
Divide[p \in Pairs] == DivideStep(Divide, p[1], p[2])

\* The arguments are swapped so that f has the lower value; a g without that
\* value is a node with the value, with g as its lo child.

\* Mutant: the product of f's lo child and g's hi child is left out.
JoinTwoThirds(call, f, g) ==
  LET same == Val(f) = Val(g)
      g_lo == IF same THEN Lo(g) ELSE g
      g_hi == IF same THEN Hi(g) ELSE Zero
      product == Union[<<call[<<Hi(f), g_hi>>], call[<<Hi(f), g_lo>>]>>]
  IN
  IF IsZero(f) \/ IsZero(g) THEN Zero
  ELSE IF IsOne(g) THEN f
  ELSE IF IsOne(f) THEN g
  ELSE IF Val(f) > Val(g) THEN call[<<g, f>>]
  ELSE Union[<<GetNode(Val(f), Zero, product), call[<<Lo(f), g_lo>>]>>]

JoinStep(call, f, g) ==
  LET same == Val(f) = Val(g)
      g_lo == IF same THEN Lo(g) ELSE g
      g_hi == IF same THEN Hi(g) ELSE Zero
      a == call[<<Hi(f), g_hi>>]
      b == call[<<Hi(f), g_lo>>]
      c == call[<<Lo(f), g_hi>>]
      v_product == GetNode(Val(f), Zero, Union[<<Union[<<a, b>>], c>>])
  IN
  IF IsZero(f) \/ IsZero(g) THEN Zero
  ELSE IF IsOne(g) THEN f
  ELSE IF IsOne(f) THEN g
  ELSE IF Val(f) > Val(g) THEN call[<<g, f>>]
  ELSE Union[<<v_product, call[<<Lo(f), g_lo>>]>>]
Join[p \in Pairs] == JoinStep(Join, p[1], p[2])

Remainder(f, g) == Difference[<<f, Join[<<g, Divide[<<f, g>>]>>]>>]

NonsupStep(call, f, g) ==
  IF IsZero(g) THEN f
  ELSE IF IsZero(f) \/ IsOne(g) \/ f = g THEN Zero
  ELSE IF IsOne(f) THEN IF ContainsEmptySet[Lo(g)] THEN Zero ELSE f
  ELSE IF Val(f) > Val(g) THEN call[<<f, Lo(g)>>]
  ELSE IF Val(f) < Val(g)
    THEN GetNode(Val(f), call[<<Lo(f), g>>], call[<<Hi(f), g>>])
  ELSE GetNode(Val(f), call[<<Lo(f), Lo(g)>>],
               Intersect[<<call[<<Hi(f), Lo(g)>>], call[<<Hi(f), Hi(g)>>]>>])
Nonsup[p \in Pairs] == NonsupStep(Nonsup, p[1], p[2])


MinimalElementsStep(call, f) ==
  LET r_l == call[Lo(f)]
      r_h == Nonsup[<<call[Hi(f)], r_l>>]
  IN  IF IsTerminal(f) THEN f ELSE GetNode(Val(f), r_l, r_h)
MinimalElements[z \in Diagrams] == MinimalElementsStep(MinimalElements, z)

\* The lo children of z, down to the first whose value is not below v.
SkipBelowStep(call, z, v) ==
  IF IsTerminal(z) \/ Val(z) >= v THEN z ELSE call[<<Lo(z), v>>]
SkipBelow[p \in ElementCalls] == SkipBelowStep(SkipBelow, p[1], p[2])


\* Mutant: sets of equal size are not compared.
HasSmallerSubsetIn(call, f, g) ==
  IF f = g \/ IsZero(f) \/ IsOne(g) \/ ContainsEmptySet[g] THEN f
  ELSE IF IsOne(f) THEN Zero
  ELSE IF IsZero(g) THEN g
  ELSE IF MinCardinality[g] >= MaxCardinality[f] THEN Zero
  ELSE IF Val(f) < Val(g)
    THEN GetNode(Val(f), call[<<Lo(f), g>>], call[<<Hi(f), g>>])
  ELSE IF Val(f) = Val(g)
    THEN GetNode(Val(f), call[<<Lo(f), Lo(g)>>],
                 call[<<Hi(f), Union[<<Hi(g), Lo(g)>>]>>])
  ELSE call[<<f, SkipBelow[<<Lo(g), Val(f)>>]>>]

HasSubsetInStep(call, f, g) ==
  IF f = g \/ IsZero(f) \/ IsOne(g) \/ ContainsEmptySet[g] THEN f
  ELSE IF IsOne(f) THEN Zero
  ELSE IF IsZero(g) THEN g
  ELSE IF MinCardinality[g] > MaxCardinality[f] THEN Zero
  ELSE IF Val(f) < Val(g)
    THEN GetNode(Val(f), call[<<Lo(f), g>>], call[<<Hi(f), g>>])
  ELSE IF Val(f) = Val(g)
    THEN GetNode(Val(f), call[<<Lo(f), Lo(g)>>],
                 call[<<Hi(f), Union[<<Hi(g), Lo(g)>>]>>])
  ELSE call[<<f, SkipBelow[<<Lo(g), Val(f)>>]>>]
HasSubsetIn[p \in Pairs] == HasSubsetInStep(HasSubsetIn, p[1], p[2])

\* superset_inner: `values` are those of the universe not yet passed.

CoverCalls == {p \in ExtendCalls : Universe[p[1]] \subseteq p[2]}

SupersetInnerStep(call, f, values) ==
  LET set_v == Least(values)
      rest  == values \ {set_v}
      v     == call[<<f, rest>>]
      lo    == call[<<Lo(f), rest>>]
      hi    == call[<<Hi(f), rest>>]
  IN
  IF IsZero(f) THEN f
  ELSE IF IsOne(f) THEN AllSubsets(values)
  ELSE IF set_v < Val(f) THEN GetNode(set_v, v, v)
  ELSE IF set_v = Val(f) THEN GetNode(set_v, lo, Union[<<lo, hi>>])
  ELSE Panic
SupersetInner[p \in CoverCalls] == SupersetInnerStep(SupersetInner, p[1], p[2])

Superset(f) == SupersetInner[<<f, Universe[f]>>]
=============================================================================
