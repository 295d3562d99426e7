----------------------------- MODULE SingleSets -----------------------------
(***************************************************************************)
(* SingleSet (src/src/utils/single_set.rs): one set kept as a diagram with *)
(* one path, together with a copy of its greatest value, `last`.  A        *)
(* program makes one, pops values from either end and keeps either side of *)
(* a pivot: the part of AlgebraCalls that has a state of its own.          *)
(***************************************************************************)
EXTENDS FamilyAlgebra

NoValue == 0   \* the Option<V> without a value

VARIABLES
  single,   \* the SingleSet: its diagram and its `last`
  popped,   \* what the last pop_first or pop_last answered, and should
  content   \* history: the values that a BTreeSet would hold

singleVars == <<single, popped, content>>

SingleSet(set, last) == [set |-> set, last |-> last]

LastOf(values) == IF values = {} THEN NoValue ELSE Greatest(values)

\* single_set and empty_single_set.
MakeSingle(values) == SingleSet(Chain[<<values, Zero>>], LastOf(values))

Singles == {Chain[<<values, Zero>>] : values \in SUBSET Elements}

\* The values on the path of hi children.
PathStep(call, z) == IF IsTerminal(z) THEN {} ELSE {Val(z)} \cup call[Hi(z)]
Path[z \in Singles] == PathStep(Path, z)

SingleInit ==
  /\ content \in SUBSET Elements
  /\ single = MakeSingle(content)
  /\ popped = [answer |-> NoValue, end |-> NoValue]

First(s) == IF IsOne(s.set) THEN NoValue ELSE Val(s.set)
FirstOf(values) == IF values = {} THEN NoValue ELSE Least(values)

\* Mutant: `last` goes with the first value.
PopFirstClearsLast ==
  /\ popped' = [answer |-> First(single), end |-> FirstOf(content)]
  /\ single' = IF IsOne(single.set) THEN single
               ELSE SingleSet(Hi(single.set), NoValue)
  /\ content' = content \ {FirstOf(content)}

\* pop_first: the rest of the path; `last` is cleared with the last value.
PopFirst ==
  LET rest == Hi(single.set) IN
  /\ popped' = [answer |-> First(single), end |-> FirstOf(content)]
  /\ single' = IF IsOne(single.set) THEN single
               ELSE SingleSet(rest, IF IsOne(rest) THEN NoValue ELSE single.last)
  /\ content' = content \ {FirstOf(content)}

\* pop_last: a new path of all values but the greatest.
PopLast ==
  LET path == Path[single.set] IN
  /\ popped' = [answer |-> LastOf(path), end |-> LastOf(content)]
  /\ single' = MakeSingle(path \ {LastOf(path)})
  /\ content' = content \ {LastOf(content)}

\* pivot: the values below v make a new path, the rest of the path is kept.
AtOrAboveStep(call, z, v) ==
  IF IsTerminal(z) \/ Val(z) >= v THEN z ELSE call[<<Hi(z), v>>]
AtOrAbove[p \in Singles \X Elements] == AtOrAboveStep(AtOrAbove, p[1], p[2])

Pivot(s, v) ==
  LET pos        == AtOrAbove[<<s.set, v>>]
      lower_vals == Path[s.set] \ Path[pos]
  IN  [lower           |-> MakeSingle(lower_vals),
       higher_or_equal |-> SingleSet(pos, s.last)]

KeepLower(v) ==
  /\ single' = Pivot(single, v).lower
  /\ content' = {x \in content : x < v}
  /\ UNCHANGED popped

KeepHigher(v) ==
  /\ single' = Pivot(single, v).higher_or_equal
  /\ content' = {x \in content : x >= v}
  /\ UNCHANGED popped

SingleNext ==
  \/ PopFirst \/ PopLast
  \/ \E v \in Elements : KeepLower(v) \/ KeepHigher(v)

-----------------------------------------------------------------------------

\* A SingleSet behaves as the set it stands for, whatever pops and pivots
\* came before: its diagram is the one of that set, first() and last() are its
\* ends, and a pop takes the end it names.  Only last() of an empty upper half
\* of a pivot is left out: it keeps the last value of the whole.
BehavesAsASet ==
  /\ Is(single.set, {content})
  /\ popped.answer = popped.end
  /\ content # {} => /\ First(single) = Least(content)
                     /\ single.last = Greatest(content)
=============================================================================
