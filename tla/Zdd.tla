-------------------------------- MODULE Zdd --------------------------------
(***************************************************************************)
(* Families of sets as zero-suppressed decision diagrams, without the      *)
(* table they are stored in: a diagram is a term.  Two diagrams are equal  *)
(* when they are the same term, which is what hash-consing makes of the    *)
(* equality of indices (EqualityIsIdentity in Collector).                  *)
(*                                                                         *)
(* Elements are numbers, in the order of V: Ord.  The operations are those *)
(* of src/src/manager.rs, manager/raw.rs, utils.rs and                     *)
(* algorithms/max_weight.rs that look at the whole of a diagram.  Their    *)
(* result caches are left out: the sizes they hold are kept by index and   *)
(* dropped by a collection, as in UnionCache.                              *)
(***************************************************************************)
EXTENDS Integers, FiniteSets

CONSTANTS
  Elements,   \* the values that sets are made of
  MaxUsize    \* usize::MAX

\* Every value of a set is kept in a node of its own, and nodes are counted.
ASSUME ZddAssumption ==
  /\ IsFiniteSet(Elements) /\ Elements \subseteq Nat \ {0}
  /\ MaxUsize \in Nat /\ Cardinality(Elements) <= MaxUsize

Zero == <<>>
One  == <<0>>
Node(v, lo, hi) == <<v, lo, hi>>

IsZero(z) == z = Zero
IsOne(z)  == z = One
IsTerminal(z) == IsZero(z) \/ IsOne(z)

\* get(): of nodes only.
Val(z) == z[1]
Lo(z)  == z[2]
Hi(z)  == z[3]

\* Zero suppression: a node without a hi child is its lo child.
GetNode(v, lo, hi) == IF IsZero(hi) THEN lo ELSE Node(v, lo, hi)

Singleton(v) == GetNode(v, Zero, One)

-----------------------------------------------------------------------------
(***************************************************************************)
(* What a diagram stands for, and when it is the diagram of its family:    *)
(* the reference for every operation.                                      *)
(***************************************************************************)
Families == SUBSET SUBSET Elements

With(v, F) == {s \cup {v} : s \in F}

Least(S) == CHOOSE x \in S : \A y \in S : x <= y
Greatest(S) == CHOOSE x \in S : \A y \in S : x >= y

\* The diagrams with the d greatest numbers up to the greatest value.  Values
\* grow from a node to its children, and no hi child is Zero.
Top == Greatest(Elements \cup {0})

LevelStep(v, below) ==
  below \cup {Node(v, lo, hi) : lo \in {z \in below : v \in Elements},
                               hi \in below \ {Zero}}
Levels[d \in 0 .. Top] ==
  IF d = 0 THEN {Zero, One} ELSE LevelStep(Top - d + 1, Levels[d - 1])

Diagrams == Levels[Top]

FamilyStep(call, z) ==
  IF IsZero(z) THEN {}
  ELSE IF IsOne(z) THEN {{}}
  ELSE call[Lo(z)] \cup With(Val(z), call[Hi(z)])
Family[z \in Diagrams] == FamilyStep(Family, z)

\* No two diagrams have one family, so that this says which index a right
\* answer has.
Is(z, F) == z \in Diagrams /\ Family[z] = F

-----------------------------------------------------------------------------
(***************************************************************************)
(* A recursion of the code is a function, and what one call of it does is  *)
(* a definition of its own, whose `call` is the recursive call.            *)
(***************************************************************************)

\* A node for each value of s, from the greatest up: the last of them, for
\* the least value, has the lo child `lo`, the others have Zero.
ChainStep(call, s, lo) ==
  LET v == Least(s) IN
  IF s = {} THEN One ELSE GetNode(v, lo, call[<<s \ {v}, Zero>>])
Chain[p \in (SUBSET Elements) \X {Zero, One}] == ChainStep(Chain, p[1], p[2])

\* from_sets: Split tasks over ranges of the sorted sets, which are here the
\* sets of the range with their first `skip` values removed.

\* Mutant: the empty set is lost when the range is split.
SplitLosesEmpty(call, range, contains_empty_set) ==
  LET contains == contains_empty_set \/ {} \in range
      sets  == range \ {{}}
      lo    == IF contains THEN One ELSE Zero
      value == Least(UNION sets)
      split == {s \in sets : value \in s}
  IN
  IF sets = {} THEN lo
  ELSE IF Cardinality(sets) = 1 THEN Chain[<<UNION sets, lo>>]
  ELSE GetNode(value, call[<<sets \ split, FALSE>>],
               call[<<{s \ {value} : s \in split}, FALSE>>])

SplitStep(call, range, contains_empty_set) ==
  LET contains == contains_empty_set \/ {} \in range
      sets  == range \ {{}}
      lo    == IF contains THEN One ELSE Zero
      value == Least(UNION sets)
      split == {s \in sets : value \in s}
  IN
  IF sets = {} THEN lo
  ELSE IF Cardinality(sets) = 1 THEN Chain[<<UNION sets, lo>>]
  ELSE GetNode(value, call[<<sets \ split, contains>>],
               call[<<{s \ {value} : s \in split}, FALSE>>])
Split[p \in Families \X BOOLEAN] == SplitStep(Split, p[1], p[2])

FromSets(sets) ==
  IF sets = {} THEN Zero
  ELSE IF sets = {{}} THEN One
  ELSE Split[<<sets, FALSE>>]

-----------------------------------------------------------------------------
(***************************************************************************)
(* Sizes.  A usize that would overflow turns to positive infinity.         *)
(***************************************************************************)
PositiveInfinity == MaxUsize + 1

AddUsize(x, y) ==
  IF x + y > MaxUsize THEN PositiveInfinity ELSE x + y

Lesser(x, y)  == IF x <= y THEN x ELSE y
Greater(x, y) == IF x >= y THEN x ELSE y

SizeStep(call, z) ==
  IF IsZero(z) THEN 0
  ELSE IF IsOne(z) THEN 1
  ELSE AddUsize(call[Lo(z)], call[Hi(z)])
Size[z \in Diagrams] == SizeStep(Size, z)

MaxCardinalityStep(call, z) ==
  IF IsTerminal(z) THEN 0 ELSE Greater(call[Lo(z)], call[Hi(z)] + 1)
MaxCardinality[z \in Diagrams] == MaxCardinalityStep(MaxCardinality, z)

MinCardinalityStep(call, z) ==
  IF IsZero(z) THEN PositiveInfinity
  ELSE IF IsOne(z) THEN 0
  ELSE Lesser(call[Lo(z)], AddUsize(call[Hi(z)], 1))
MinCardinality[z \in Diagrams] == MinCardinalityStep(MinCardinality, z)

BoundsCardinalityStep(call, z) ==
  LET lo == call[Lo(z)]
      hi == call[Hi(z)]
  IN
  IF IsZero(z) THEN <<PositiveInfinity, 0>>
  ELSE IF IsOne(z) THEN <<0, 0>>
  ELSE <<Lesser(lo[1], AddUsize(hi[1], 1)), Greater(lo[2], hi[2] + 1)>>
BoundsCardinality[z \in Diagrams] == BoundsCardinalityStep(BoundsCardinality, z)

\* The values of the nodes below z, each seen once.
UniverseStep(call, z) ==
  IF IsTerminal(z) THEN {} ELSE {Val(z)} \cup call[Lo(z)] \cup call[Hi(z)]
Universe[z \in Diagrams] == UniverseStep(Universe, z)

\* contains_empty_set: down the lo children.
ContainsEmptySetStep(call, z) == IF IsTerminal(z) THEN IsOne(z) ELSE call[Lo(z)]
ContainsEmptySet[z \in Diagrams] == ContainsEmptySetStep(ContainsEmptySet, z)
=============================================================================
