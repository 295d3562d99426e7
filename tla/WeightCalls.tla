---------------------------- MODULE WeightCalls ----------------------------
(***************************************************************************)
(* A program that builds one, two or three families, gives every value a   *)
(* weight and calls the operations of WeightedFamilies.  subset_cover runs *)
(* step by step: a round for a budget, a bounded_join in it, the next      *)
(* round.                                                                  *)
(***************************************************************************)
EXTENDS WeightedFamilies

CONSTANTS
  Inputs,      \* the families of a program
  Weighting,   \* the weightings it may use
  Asked,       \* the budgets it asks for
  MaxBudgets   \* the max_budget of a subset_cover: a number or None

ASSUME InputsAssumption == /\ Inputs \subseteq Seq(Families)
                           /\ Asked \subseteq Budgets

VARIABLES
  families,    \* the sets that the program gave to from_sets
  zdds,        \* the diagrams it got
  wt,          \* the weighting
  answer,      \* the last call: its name, its other arguments, its result
  budget,      \* subset_cover: the budget of the round
  left         \* subset_cover: the families still to join in the round

vars == <<families, zdds, wt, answer, budget, left>>

NoAnswer == [op |-> "none", arg |-> {}, result |-> Zero]

Init ==
  /\ families \in Inputs /\ wt \in Weighting
  /\ Len(families) > 2 => ~wt.signed    \* subset_cover's weights are usize
  /\ zdds = [i \in DOMAIN families |-> FromSets(families[i])]
  /\ answer = NoAnswer
  /\ budget = 0 /\ left = <<>>

SetAnswer(op, arg, r) ==
  /\ answer' = [op |-> op, arg |-> arg, result |-> r]
  /\ UNCHANGED <<families, zdds, wt>>

Call(n, op, arg, r) ==
  /\ answer = NoAnswer /\ Len(zdds) = n
  /\ SetAnswer(op, arg, r)
  /\ UNCHANGED <<budget, left>>

CallWeights ==
  Call(1, "weights", {},
       [max |-> MaxWeight(zdds[1], wt), min |-> MinWeight(zdds[1], wt),
        bounds |-> Bounds(zdds[1], wt), histogram |-> SetWeights(zdds[1], wt)])

CallMinimalSets ==
  zdds[1] # Zero /\ Call(1, "minimal_sets", {}, MinimalSets(zdds[1], wt))

CallExactWeightOf(b) ==
  /\ ~wt.signed /\ b >= 0
  /\ Call(1, "exact_weight_of", {b}, ExactWeightOf(zdds[1], b, wt))

\* The universe is the only set of the family.
CallBudgetSets(b) ==
  /\ ~wt.signed /\ b >= 0 /\ Len(families) = 1 /\ Cardinality(families[1]) = 1
  /\ LET universe == UNION families[1] IN
     \/ Call(1, "sets_with_exact_weight", {b}, SetsWithExactWeight(universe, b, wt))
     \/ Call(1, "sets_with_weight_or_less", {b}, SetsWithWeightOrLess(universe, b, wt))

MayAsk(b) == wt.signed \/ b >= 0

CallClip(b) ==
  MayAsk(b) /\ Call(1, "clip_weight", {b}, ClipWeight(zdds[1], b, wt))

CallBoundedJoin(b) ==
  /\ MayAsk(b)
  /\ Call(2, "bounded_join", {b}, BoundedJoin(zdds[1], zdds[2], wt, b))

-----------------------------------------------------------------------------
\* None of the Option<SetFamily> that subset_cover answers.
NoFamily == <<None>>

Covering == answer.op = "covering"

\* subset_cover up to its first round: of no family, of one, of several.
StartCover(max_budget) ==
  /\ answer = NoAnswer /\ ~wt.signed
  /\ \/ /\ \E i \in DOMAIN zdds : zdds[i] = Zero
        /\ SetAnswer("cover", {max_budget}, Zero)
        /\ UNCHANGED budget
     \/ /\ \A i \in DOMAIN zdds : zdds[i] # Zero
        /\ Len(zdds) = 1
        /\ SetAnswer("cover", {max_budget}, MinimalSets(zdds[1], wt))
        /\ UNCHANGED budget
     \/ /\ \A i \in DOMAIN zdds : zdds[i] # Zero
        /\ Len(zdds) > 1
        /\ SetAnswer("covering", {max_budget}, Zero)
        /\ budget' = Greatest({MinWeight(zdds[i], wt) : i \in DOMAIN zdds})
  /\ UNCHANGED left

\* The reverse of the order by n_nodes() and size().
Before(x, y) ==
  \/ NNodes(x) > NNodes(y)
  \/ NNodes(x) = NNodes(y) /\ Size[x] > Size[y]

CoverRound ==
  /\ Covering /\ left = <<>>
  /\ IF \E max_budget \in answer.arg : budget > max_budget
     THEN /\ SetAnswer("cover", answer.arg, NoFamily)
          /\ UNCHANGED left
     ELSE /\ left' = SortSeq(zdds, Before)
          /\ UNCHANGED <<families, zdds, wt, answer>>
  /\ UNCHANGED budget

\* The share of the universe that x and y have in common, as a fraction,
\* times the nodes of x.
Share(x, y) == [of  |-> Cardinality(Universe[x] \cap Universe[y]) * NNodes(x),
                all |-> Cardinality(Universe[x] \cup Universe[y])]

Closer(i, j, y) ==
  LET a == Share(left[i], y)
      b == Share(left[j], y)
  IN
  \/ a.of * b.all < b.of * a.all
  \/ /\ a.of * b.all = b.of * a.all
     /\ \/ Size[left[i]] < Size[left[j]]
        \/ Size[left[i]] = Size[left[j]] /\ i <= j

\* NotNan::new(0 / 0).unwrap(): two families without a value.
CoverPanics ==
  /\ Covering /\ Len(left) >= 2
  /\ \E i \in 1 .. Len(left) - 1 : Share(left[i], left[Len(left)]).all = 0
  /\ SetAnswer("cover", answer.arg, Panic)
  /\ UNCHANGED <<budget, left>>

\* Mutant: the families joined so far are kept for the next budget.
CoverJoinKeeps ==
  /\ Covering /\ Len(left) >= 2
  /\ LET n == Len(left)
         a == left[n]
         rest == 1 .. n - 1
         i == CHOOSE k \in rest : \A j \in rest : Closer(k, j, a)
         c == BoundedJoin(a, left[i], wt, budget).i.node
         others == SelectSeq([k \in rest |-> <<k, left[k]>>], LAMBDA p : p[1] # i)
     IN
     /\ \A k \in rest : Share(left[k], a).all # 0
     /\ IF IsZero(c)
        THEN budget' = budget + 1 /\ left' = left
        ELSE /\ left' = [k \in DOMAIN others |-> others[k][2]] \o <<c>>
             /\ UNCHANGED budget
  /\ UNCHANGED <<families, zdds, wt, answer>>

\* The smallest family and the one closest to it.  A join without a set ends
\* the round.
CoverJoin ==
  /\ Covering /\ Len(left) >= 2
  /\ LET n == Len(left)
         a == left[n]
         rest == 1 .. n - 1
         i == CHOOSE k \in rest : \A j \in rest : Closer(k, j, a)
         c == BoundedJoin(a, left[i], wt, budget).i.node
         others == SelectSeq([k \in rest |-> <<k, left[k]>>], LAMBDA p : p[1] # i)
     IN
     /\ \A k \in rest : Share(left[k], a).all # 0
     /\ IF IsZero(c)
        THEN budget' = budget + 1 /\ left' = <<>>
        ELSE /\ left' = [k \in DOMAIN others |-> others[k][2]] \o <<c>>
             /\ UNCHANGED budget
  /\ UNCHANGED <<families, zdds, wt, answer>>

CoverDone ==
  /\ Covering /\ Len(left) = 1
  /\ SetAnswer("cover", answer.arg, left[1])
  /\ left' = <<>>
  /\ UNCHANGED budget

Cover == CoverRound \/ CoverPanics \/ CoverJoin \/ CoverDone

\* The program goes on with other calls on the same families.
Forget ==
  /\ answer # NoAnswer /\ ~Covering
  /\ SetAnswer("none", {}, Zero)
  /\ budget' = 0 /\ left' = <<>>

Next ==
  \/ CallWeights \/ CallMinimalSets
  \/ \E b \in Asked : \/ CallExactWeightOf(b) \/ CallBudgetSets(b)
                      \/ CallClip(b) \/ CallBoundedJoin(b)
  \/ \E m \in MaxBudgets : StartCover(m)
  \/ Cover
  \/ Forget

Spec == Init /\ [][Next]_vars

-----------------------------------------------------------------------------
RECURSIVE Sum(_)
Sum(s) == LET v == Least(s) IN IF s = {} THEN 0 ELSE wt.of[v] + Sum(s \ {v})

Within(sets, b) == {s \in sets : Sum(s) <= b}
Exactly(sets, b) == {s \in sets : Sum(s) = b}
Product(A, B) == {x \cup y : x \in A, y \in B}

Arg == CHOOSE b \in answer.arg : TRUE

Answers(op, sets) == answer.op = op => Is(answer.result, sets)

\* The weight bounds, the histogram and the restrictions to a weight are those
\* of the sets.  An empty branch counts as weight 0 for max_weight and for the
\* upper bound, which are therefore exact for weights that are not negative
\* and only a bound otherwise.
WeightsExact ==
  LET F == families[1]
      sums == {Sum(s) : s \in F}
      r == answer.result
  IN
  /\ answer.op = "weights" =>
       /\ r.min = (IF F = {} THEN None ELSE Least(sums))
       /\ r.bounds = <<r.min, r.max>>
       /\ IF wt.signed THEN \A x \in sums : x <= r.max
          ELSE r.max = IF F = {} THEN 0 ELSE Greatest(sums)
       /\ r.histogram = [x \in sums |-> Cardinality(Exactly(F, x))]
  /\ answer.op = "minimal_sets" => Is(r, Exactly(F, Least(sums)))
  /\ answer.op = "exact_weight_of" => Is(r, Exactly(F, Arg))
  /\ answer.op = "sets_with_exact_weight" => Is(r, Exactly(SUBSET UNION F, Arg))
  /\ answer.op = "sets_with_weight_or_less" => Is(r, Within(SUBSET UNION F, Arg))

\* What is stored for a key answers for every budget it is stored for, asked
\* or not: the intervals that clips and joins hand up through lo and hi
\* children, through unions of overlapping products and past values that are
\* over the budget are never too wide.  The interval of the answer holds the
\* budget asked for: RangeMap::insert would panic on an empty range.
Served(cache, sets(_)) ==
  \A k \in DOMAIN cache : Is(cache[k].node, Within(sets(k[1]), k[2]))

IntervalsSound ==
  LET r == answer.result
      clips(z) == Family[z]
      joins(p) == Product(Family[p[1]], Family[p[2]])
      Holds(b, sets) == /\ r.i.worst <= b /\ b < r.i.best
                        /\ Is(r.i.node, Within(sets, b))
  IN
  /\ answer.op = "clip_weight" => /\ Holds(Arg, families[1])
                                  /\ Served(r.cache, clips)
  /\ answer.op = "bounded_join" => /\ Holds(Arg, Product(families[1], families[2]))
                                   /\ Served(r.cache.clip, clips)
                                   /\ Served(r.cache.join, joins)

RECURSIVE ProductOf(_)
ProductOf(fs) ==
  IF Len(fs) = 1 THEN fs[1] ELSE Product(fs[1], ProductOf(Tail(fs)))

\* subset_cover answers the sets of least weight among the unions of one set
\* of each family, joined in the order its heuristic takes; None when
\* that weight is over max_budget (which one family alone ignores); and
\* panics exactly when two of the families are {{}}.  Its search for a budget
\* ends: it never passes the least weight, and a round shortens its list.
CoverIsMinimal ==
  LET all  == ProductOf(families)
      best == Least({Sum(s) : s \in all})
      r    == answer.result
      twice_empty == \E i, j \in DOMAIN families :
                       i # j /\ families[i] = {{}} /\ families[j] = {{}}
  IN
  /\ Covering => budget <= best
  /\ answer.op = "cover" =>
       CASE all = {} -> r = Zero
         [] all # {} /\ twice_empty -> r = Panic \/ (r = NoFamily /\ best > Arg)
         [] all # {} /\ ~twice_empty ->
              IF Len(families) > 1 /\ best > Arg THEN r = NoFamily
              ELSE r \notin {Panic, NoFamily} /\ Is(r, Exactly(all, best))
=============================================================================
