-------------------------- MODULE WeightedFamilies --------------------------
(***************************************************************************)
(* The weighted recursions of src/src/algorithms over diagrams:            *)
(* max_weight.rs, minimum_cutoff.rs and subset_cover.rs.                   *)
(*                                                                         *)
(* A weighting is the closure f and the numeric type it answers in: usize, *)
(* where checked_sub fails below zero, or isize, where it does not.        *)
(* Overflow of the type is left out.  The caches that only repeat the      *)
(* answer of the same call (TempCache, MaxWeightOfCache) are left out; the *)
(* interval caches of clip_weight and bounded_join, which answer for       *)
(* budgets that nobody asked yet, are carried through the recursions.      *)
(***************************************************************************)
EXTENDS UnateAlgebra, Integers, Sequences, Bags, TLC

CONSTANT
  Budgets    \* the budgets that a recursion may come to

ASSUME WeightsAssumption == Budgets \subseteq Int

\* Infinite<T>: no sum of weights comes near the bounds.
PosInf == 1000
NegInf == -1000
Plus(x, w) == IF x \in {NegInf, PosInf} THEN x ELSE x + w

\* None of an Option<Int>: the lesser of None and a number is the number.
None == PosInf

CheckedSub(wt, v, budget) == wt.signed \/ wt.of[v] <= budget

-----------------------------------------------------------------------------
RECURSIVE MaxWeight(_, _)
MaxWeight(z, wt) ==
  IF IsTerminal(z) THEN 0
  ELSE Greater(MaxWeight(Lo(z), wt), MaxWeight(Hi(z), wt) + wt.of[Val(z)])

RECURSIVE MinWeight(_, _)
MinWeight(z, wt) ==
  IF IsZero(z) THEN None
  ELSE IF IsOne(z) THEN 0
  ELSE Lesser(MinWeight(Lo(z), wt), Plus(MinWeight(Hi(z), wt), wt.of[Val(z)]))

RECURSIVE Bounds(_, _)

\* Mutant: the weight of the value is not added to the lower bound.
BoundsUnweighted(z, wt) ==
  LET lo == Bounds(Lo(z), wt)
      hi == Bounds(Hi(z), wt)
  IN
  IF IsZero(z) THEN <<None, 0>>
  ELSE IF IsOne(z) THEN <<0, 0>>
  ELSE <<Lesser(lo[1], hi[1]), Greater(lo[2], hi[2] + wt.of[Val(z)])>>

Bounds(z, wt) ==
  LET lo == Bounds(Lo(z), wt)
      hi == Bounds(Hi(z), wt)
      w  == wt.of[Val(z)]
  IN
  IF IsZero(z) THEN <<None, 0>>
  ELSE IF IsOne(z) THEN <<0, 0>>
  ELSE <<Lesser(lo[1], Plus(hi[1], w)), Greater(lo[2], hi[2] + w)>>

\* set_weights: a histogram is a bag of weights.
RECURSIVE SetWeights(_, _)
SetWeights(z, wt) ==
  LET hi == SetWeights(Hi(z), wt)
      w  == wt.of[Val(z)]
  IN
  IF IsZero(z) THEN EmptyBag
  ELSE IF IsOne(z) THEN SetToBag({0})
  ELSE SetWeights(Lo(z), wt)
         (+) [k \in {x + w : x \in DOMAIN hi} |-> hi[k - w]]

\* Of weights in usize only.
RECURSIVE ExactWeightOf(_, _, _)
ExactWeightOf(z, budget, wt) ==
  LET bounds == Bounds(z, wt)
      v  == Val(z)
      lo == ExactWeightOf(Lo(z), budget, wt)
  IN
  IF IsTerminal(z) THEN IF budget = 0 THEN z ELSE Zero
  ELSE IF budget < bounds[1] \/ budget > bounds[2] THEN Zero
  ELSE IF bounds = <<budget, budget>> THEN z
  ELSE IF CheckedSub(wt, v, budget)
    THEN GetNode(v, lo, ExactWeightOf(Hi(z), budget - wt.of[v], wt))
  ELSE lo

\* budget_set_inner: the sets of the values passed so far, from the greatest
\* down, by what they leave of the budget.
RECURSIVE BudgetSets(_, _, _)
BudgetSets(universe, budgets, wt) ==
  LET v == Greatest(universe)
      w == wt.of[v]
      spent == {b - w : b \in {x \in DOMAIN budgets : CheckedSub(wt, v, x)}}
      with_v(b) == GetNode(v, Zero, budgets[b + w])
      new_budget ==
        [b \in DOMAIN budgets \cup spent |->
           IF b \notin spent THEN budgets[b]
           ELSE Union[<<IF b \in DOMAIN budgets THEN budgets[b] ELSE Zero, with_v(b)>>]]
  IN  IF universe = {} THEN budgets
      ELSE BudgetSets(universe \ {v}, new_budget, wt)

SetsWithExactWeight(universe, budget, wt) ==
  LET left == BudgetSets(universe, budget :> One, wt)
  IN  IF 0 \in DOMAIN left THEN left[0] ELSE Zero

RECURSIVE UnionOf(_, _)
UnionOf(zdds, keys) ==
  LET k == Greatest(keys)
  IN  IF keys = {} THEN Zero ELSE Union[<<zdds[k], UnionOf(zdds, keys \ {k})>>]

SetsWithWeightOrLess(universe, budget, wt) ==
  LET left == BudgetSets(universe, budget :> One, wt)
  IN  UnionOf(left, DOMAIN left)

-----------------------------------------------------------------------------
(***************************************************************************)
(* The answer to a call at one budget, and the budgets from `worst` up to  *)
(* and without `best` that have the same answer: `worst` is the greatest   *)
(* weight of a set that was accepted, `best` the least of one rejected.    *)
(***************************************************************************)
NodeInterval(node, worst, best) == [node |-> node, worst |-> worst, best |-> best]

AddWeight(i, w) == NodeInterval(i.node, Plus(i.worst, w), Plus(i.best, w))

Combine(lo, hi, v, wt) ==
  LET above == AddWeight(hi, wt.of[v])
  IN  NodeInterval(GetNode(v, lo.node, hi.node),
                   Greater(lo.worst, above.worst), Lesser(lo.best, above.best))

\* IntervalCache: a map from budgets for every key.  A later range takes its
\* budgets over from the earlier ones.
Cached(cache, key, budget) == <<key, budget>> \in DOMAIN cache

CacheInsert(cache, key, i) ==
  [k \in {key} \X {b \in Budgets : i.worst <= b /\ b < i.best} |-> i] @@ cache

\* A return value: the interval and the cache that it leaves.
Return(i, cache) == [i |-> i, cache |-> cache]

\* clip_weight_inner
RECURSIVE Clip(_, _, _, _)

\* Mutant: a value over the budget does not bound the budgets served.
ClipUnbounded(z, budget, wt, cache) ==
  LET v    == Val(z)
      lo   == Clip(Lo(z), budget, wt, cache)
      hi   == Clip(Hi(z), budget - wt.of[v], wt, lo.cache)
      both == Combine(lo.i, hi.i, v, wt)
  IN
  IF IsZero(z) THEN Return(NodeInterval(Zero, NegInf, PosInf), cache)
  ELSE IF IsOne(z) THEN
    Return(IF budget >= 0 THEN NodeInterval(One, 0, PosInf)
           ELSE NodeInterval(Zero, NegInf, 0), cache)
  ELSE IF Cached(cache, z, budget) THEN Return(cache[<<z, budget>>], cache)
  ELSE IF CheckedSub(wt, v, budget)
    THEN Return(both, CacheInsert(hi.cache, z, both))
  ELSE Return(lo.i, CacheInsert(lo.cache, z, lo.i))

Clip(z, budget, wt, cache) ==
  LET v     == Val(z)
      lo    == Clip(Lo(z), budget, wt, cache)
      hi    == Clip(Hi(z), budget - wt.of[v], wt, lo.cache)
      both  == Combine(lo.i, hi.i, v, wt)
      least == Plus(MinWeight(Hi(z), wt), wt.of[v])
      only_lo == [lo.i EXCEPT !.best = Lesser(@, least)]
  IN
  IF IsZero(z) THEN Return(NodeInterval(Zero, NegInf, PosInf), cache)
  ELSE IF IsOne(z) THEN
    Return(IF budget >= 0 THEN NodeInterval(One, 0, PosInf)
           ELSE NodeInterval(Zero, NegInf, 0), cache)
  ELSE IF Cached(cache, z, budget) THEN Return(cache[<<z, budget>>], cache)
  ELSE IF CheckedSub(wt, v, budget)
    THEN Return(both, CacheInsert(hi.cache, z, both))
  ELSE Return(only_lo, CacheInsert(lo.cache, z, only_lo))

ClipWeight(z, budget, wt) == Clip(z, budget, wt, <<>>)

\* minimal_sets: unwrap panics for the empty family.
MinimalSets(z, wt) == ClipWeight(z, MinWeight(z, wt), wt).i.node

-----------------------------------------------------------------------------
(***************************************************************************)
(* inner_bounded_join.  As in Join the arguments are swapped so that f has *)
(* the lower value, and a g without that value is the lo child of a node   *)
(* with it.  The cache is BoundedJoinCache: keys are pairs for joins and   *)
(* diagrams for clips.                                                     *)
(***************************************************************************)
BoundedJoinCache(join, clip) == [join |-> join, clip |-> clip]

GreatestOf(intervals) == Greatest({i.worst : i \in intervals})
LeastOf(intervals)    == Least({i.best : i \in intervals})

RECURSIVE InnerBoundedJoin(_, _, _, _, _)
InnerBoundedJoin(f, g, budget, wt, cache) ==
  LET v    == Val(f)
      same == v = Val(g)
      g_lo == IF same THEN Lo(g) ELSE g
      g_hi == IF same THEN Hi(g) ELSE Zero
      fits == CheckedSub(wt, v, budget)
      hi_budget == budget - wt.of[v]
      a == InnerBoundedJoin(Hi(f), g_hi, hi_budget, wt, cache)
      b == InnerBoundedJoin(Hi(f), g_lo, hi_budget, wt, a.cache)
      c == InnerBoundedJoin(Lo(f), g_hi, hi_budget, wt, b.cache)
      his == IF fits THEN [k \in 1 .. 3 |-> AddWeight(<<a, b, c>>[k].i, wt.of[v])]
             ELSE [k \in 1 .. 3 |-> NodeInterval(Zero, 0, budget + 1)]
      lo == InnerBoundedJoin(Lo(f), g_lo, budget, wt, IF fits THEN c.cache ELSE cache)
      product == Union[<<Union[<<his[1].node, his[2].node>>], his[3].node>>]
      all     == {his[1], his[2], his[3], lo.i}
      joined  == NodeInterval(Union[<<GetNode(v, Zero, product), lo.i.node>>],
                              GreatestOf(all), LeastOf(all))
      clipped == Clip(IF IsOne(g) THEN f ELSE g, budget, wt, cache.clip)
  IN
  IF IsZero(g) \/ IsZero(f) THEN Return(NodeInterval(Zero, NegInf, PosInf), cache)
  ELSE IF IsOne(g) \/ IsOne(f)
    THEN Return(clipped.i, BoundedJoinCache(cache.join, clipped.cache))
  ELSE IF Val(f) > Val(g) THEN InnerBoundedJoin(g, f, budget, wt, cache)
  ELSE IF Cached(cache.join, <<f, g>>, budget)
    THEN Return(cache.join[<<<<f, g>>, budget>>], cache)
  ELSE Return(joined,
              BoundedJoinCache(CacheInsert(lo.cache.join, <<f, g>>, joined),
                               lo.cache.clip))

BoundedJoin(f, g, wt, budget) ==
  InnerBoundedJoin(f, g, budget, wt, BoundedJoinCache(<<>>, <<>>))

-----------------------------------------------------------------------------
RECURSIVE NodesOf(_)
NodesOf(z) ==
  IF IsTerminal(z) THEN {z} ELSE {z} \cup NodesOf(Lo(z)) \cup NodesOf(Hi(z))

NNodes(z) == Cardinality(NodesOf(z))
=============================================================================
