--------------------------- MODULE AlgebraProofs ---------------------------
(***************************************************************************)
(* The recursions over diagrams compute what their documentation says of   *)
(* sets of sets, for every finite set of values and every MaxUsize: the    *)
(* answers of AlgebraCalls are exact.                                      *)
(*                                                                         *)
(* A recursion of the model is a function f over its arguments with        *)
(* f = [x |-> Step(f, x)], where Step is the code of one call.  Such a     *)
(* definition says what f is if there is such a function at all, and       *)
(* which one only if there is but one.  So each recursion has two lemmas.  *)
(* <Op>StepExact: a call of Step answers right if the calls it makes, all  *)
(* of lower rank, do.  <Op>Exact: the diagrams of the right families       *)
(* (Diagram) solve the equation, so that f does, and whatever solves it    *)
(* answers right, by induction on the rank of the arguments                *)
(* (RankInduction: the least counterexample).                              *)
(*                                                                         *)
(* A step looks at one value v.  A family is its two cofactors at v, the   *)
(* sets without v and the rest of those with it: so a node is right if its *)
(* children stand for the cofactors of what it should (IsByCofactors), and *)
(* each operation on sets of sets has a lemma that says what its cofactors *)
(* are.  That each family has exactly one diagram (DiagramExists,          *)
(* Canonical) makes an answer with the right sets the right index.         *)
(***************************************************************************)
EXTENDS AlgebraCalls, FiniteSetTheorems, WellFoundedInduction, TLAPS, SequenceTheorems

-----------------------------------------------------------------------------
(***************************************************************************)
(* Induction without an operator: the least counterexample.                *)
(***************************************************************************)
LEMMA LeastOf ==
  ASSUME NEW S \in SUBSET Nat, S # {}
  PROVE  \E x \in S : \A y \in S : x <= y
  <1>1. PICK x \in S : \A y \in S : ~(<<y, x>> \in OpToRel(<, Nat))
    BY NatLessThanWellFounded, WFMin
  <1>2. ASSUME NEW y \in S PROVE x <= y
    <2>1. CASE y < x
      <3>1. <<y, x>> \in OpToRel(<, Nat)
        BY <2>1 DEF OpToRel
      <3>2. QED
        BY <3>1, <1>1
    <2>2. x \in Nat /\ y \in Nat
      OBVIOUS
    <2>3. QED
      BY <2>1, <2>2
  <1>3. QED
    BY <1>2

\* Whatever holds of an argument when it holds of those of lower rank holds of
\* every argument.
LEMMA RankInduction ==
  ASSUME NEW D, NEW rank \in [D -> Nat], NEW S,
         \A p \in D : (\A q \in D : rank[q] < rank[p] => q \in S) => p \in S
  PROVE  D \subseteq S
  <1> DEFINE Bad == {rank[p] : p \in D \ S}
  <1>1. ASSUME NEW x \in D, x \notin S PROVE FALSE
    <2>1. Bad \in SUBSET Nat /\ Bad # {}
      <3>1. \A p \in D : rank[p] \in Nat
        OBVIOUS
      <3>2. rank[x] \in Bad
        BY <1>1
      <3>3. QED
        BY <3>1, <3>2
    <2>2. PICK n \in Bad : \A m \in Bad : n <= m
      <3> HIDE DEF Bad
      <3>1. QED
        BY <2>1, LeastOf
    <2>3. PICK p \in D \ S : n = rank[p]
      BY <2>2
    <2>4. ASSUME NEW q \in D, rank[q] < rank[p] PROVE q \in S
      <3>1. CASE q \notin S
        <4>1. rank[q] \in Bad
          BY <3>1
        <4>2. rank[q] \in Nat /\ rank[p] \in Nat
          BY <2>3
        <4>3. QED
          BY <4>1, <4>2, <2>2, <2>3, <2>4
      <3>2. QED
        BY <3>1
    <2>5. QED
      BY <2>3, <2>4
  <1>2. QED
    BY <1>1

LEMMA Leasts ==
  ASSUME NEW S \in SUBSET Nat, S # {}
  PROVE  Least(S) \in S /\ \A y \in S : Least(S) <= y
  BY LeastOf DEF Least

LEMMA Greatests ==
  ASSUME NEW S \in SUBSET Nat, S # {}, NEW n \in Nat, \A x \in S : x <= n
  PROVE  Greatest(S) \in S /\ \A y \in S : Greatest(S) >= y
  <1> DEFINE U == {b \in Nat : \A x \in S : x <= b}
  <1>1. U \in SUBSET Nat /\ U # {}
    OBVIOUS
  <1>2. PICK b \in U : \A c \in U : b <= c
    <2> HIDE DEF U
    <2>1. QED
      BY <1>1, LeastOf
  <1>3. b \in S
    <2>1. CASE b \notin S
      <3>1. PICK x \in S : TRUE
        OBVIOUS
      <3>2. b # 0
        BY <2>1, <3>1, <1>2
      <3>3. b - 1 \in U
        BY <2>1, <3>2, <1>2
      <3>4. QED
        BY <3>3, <3>2, <1>2
    <2>2. QED
      BY <2>1
  <1>4. \E x \in S : \A y \in S : x >= y
    BY <1>2, <1>3
  <1>5. QED
    BY <1>4 DEF Greatest

\* A finite set of numbers has a bound.
LEMMA FiniteBound ==
  ASSUME NEW S \in SUBSET Nat, IsFiniteSet(S)
  PROVE  \E n \in Nat : \A x \in S : x <= n
  <1> DEFINE Bounded(T) == \E n \in Nat : \A x \in T : x <= n
             D == SUBSET S
             rank == [T \in D |-> Cardinality(T)]
             Good == {T \in D : Bounded(T)}
  <1>1. rank \in [D -> Nat]
    BY FS_Subset, FS_CardinalityType
  <1>2. ASSUME NEW T \in D, \A U \in D : rank[U] < rank[T] => U \in Good
        PROVE  T \in Good
    <2>1. CASE T = {}
      BY <2>1
    <2>2. CASE T # {}
      <3>1. PICK x \in T : TRUE
        BY <2>2
      <3>2. IsFiniteSet(T) /\ Cardinality(T) \in Nat
        BY FS_Subset, FS_CardinalityType
      <3>3. Cardinality(T \ {x}) = Cardinality(T) - 1
        BY <3>2, FS_RemoveElement
      <3>4. T \ {x} \in D /\ rank[T \ {x}] < rank[T]
        BY <3>2, <3>3
      <3>5. T \ {x} \in Good
        BY <1>2, <3>4
      <3>6. PICK n \in Nat : \A y \in T \ {x} : y <= n
        BY <3>5
      <3>7. n + x \in Nat /\ \A y \in T : y <= n + x
        BY <3>6
      <3>8. QED
        BY <3>7
    <2>3. QED
      BY <2>1, <2>2
  <1>3. D \subseteq Good
    <2> HIDE DEF D, rank, Good
    <2>1. QED
      BY <1>1, <1>2, RankInduction
  <1>4. QED
    BY <1>3

LEMMA TopExact == Top \in Nat /\ \A e \in Elements : e \in Nat \ {0} /\ e <= Top
  <1> DEFINE S == Elements \cup {0}
  <1>1. S \in SUBSET Nat /\ IsFiniteSet(S) /\ S # {}
    BY ZddAssumption, FS_AddElement
  <1>2. PICK n \in Nat : \A x \in S : x <= n
    BY <1>1, FiniteBound
  <1>3. Greatest(S) \in S /\ \A y \in S : Greatest(S) >= y
    <2> HIDE DEF S
    <2>1. QED
      BY <1>1, <1>2, Greatests
  <1>4. Top \in S /\ \A e \in Elements : e <= Top
    BY <1>3 DEF Top
  <1>5. QED
    BY <1>1, <1>4, ZddAssumption

-----------------------------------------------------------------------------
(***************************************************************************)
(* Diagrams                                                                *)
(***************************************************************************)
LEMMA Terms ==
  /\ Zero # One
  /\ \A v, lo, hi : /\ ~IsTerminal(Node(v, lo, hi))
                    /\ Val(Node(v, lo, hi)) = v
                    /\ Lo(Node(v, lo, hi)) = lo
                    /\ Hi(Node(v, lo, hi)) = hi
  BY DEF Zero, One, Node, IsTerminal, IsZero, IsOne, Val, Lo, Hi

IsLevels(n, L) ==
  L = [d \in 0 .. n |-> IF d = 0 THEN {Zero, One} ELSE LevelStep(Top - d + 1, L[d - 1])]

LEMMA LevelsExist ==
  \E L : IsLevels(Top, L)
  <1> DEFINE Bad == {n \in Nat : ~ \E L : IsLevels(n, L)}
  <1>1. ASSUME Bad # {} PROVE FALSE
    <2>1. PICK n \in Bad : \A m \in Bad : n <= m
      <3>1. Bad \in SUBSET Nat
        OBVIOUS
      <3> HIDE DEF Bad
      <3>2. QED
        BY <1>1, <3>1, LeastOf
    <2>2. n \in Nat
      OBVIOUS
    <2>3. n # 0
      <3> DEFINE L == [d \in 0 .. 0 |-> {Zero, One}]
      <3>1. IsLevels(0, L)
        BY DEF IsLevels
      <3>2. QED
        BY <3>1
    <2>4. PICK h : IsLevels(n - 1, h)
      BY <2>1, <2>3
    <2> DEFINE L == [d \in 0 .. n |-> IF d = n THEN LevelStep(Top - n + 1, h[n - 1]) ELSE h[d]]
               M == [d \in 0 .. n |-> IF d = 0 THEN {Zero, One} ELSE LevelStep(Top - d + 1, L[d - 1])]
    <2>5. ASSUME NEW d \in 0 .. n PROVE L[d] = M[d]
      <3>1. CASE d = n
        <4>1. L[n - 1] = h[n - 1]
          BY <2>2, <2>3
        <4>2. QED
          BY <2>2, <2>3, <3>1, <4>1
      <3>2. CASE d # n
        <4>1. L[d] = h[d]
          BY <3>2
        <4>2. d \in 0 .. n - 1
          BY <2>2, <3>2
        <4>3. h[d] = IF d = 0 THEN {Zero, One} ELSE LevelStep(Top - d + 1, h[d - 1])
          BY <2>4, <4>2 DEF IsLevels
        <4>4. d # 0 => L[d - 1] = h[d - 1]
          BY <2>2, <4>2
        <4>5. QED
          BY <4>1, <4>3, <4>4
      <3>3. QED
        BY <3>1, <3>2
    <2>6. L = [d \in 0 .. n |-> L[d]] /\ M = [d \in 0 .. n |-> M[d]]
      OBVIOUS
    <2>7. [d \in 0 .. n |-> L[d]] = [d \in 0 .. n |-> M[d]]
      <3> HIDE DEF L, M
      <3>1. QED
        BY <2>5
    <2>8. IsLevels(n, L)
      <3>1. L = M
        <4> HIDE DEF L, M
        <4>1. QED
          BY <2>6, <2>7
      <3> HIDE DEF L
      <3>2. QED
        BY <3>1 DEF IsLevels
    <2> HIDE DEF L
    <2>9. QED
      BY <2>1, <2>8
  <1>2. QED
    BY <1>1, TopExact

LEMMA LevelsExact ==
  /\ Levels[0] = {Zero, One}
  /\ \A d \in 1 .. Top : Levels[d] = LevelStep(Top - d + 1, Levels[d - 1])
  <1>1. IsLevels(Top, CHOOSE L : IsLevels(Top, L))
    BY LevelsExist
  <1>2. Levels = CHOOSE L : IsLevels(Top, L)
    BY DEF Levels, IsLevels
  <1>3. IsLevels(Top, Levels)
    BY <1>1, <1>2
  <1>4. 0 \in 0 .. Top /\ \A d \in 1 .. Top : d \in 0 .. Top /\ d # 0
    BY TopExact
  <1>5. \A d \in 0 .. Top : Levels[d] = IF d = 0 THEN {Zero, One} ELSE LevelStep(Top - d + 1, Levels[d - 1])
    <2> DEFINE B(d) == IF d = 0 THEN {Zero, One} ELSE LevelStep(Top - d + 1, Levels[d - 1])
    <2>1. Levels = [d \in 0 .. Top |-> B(d)]
      BY <1>3 DEF IsLevels
    <2> HIDE DEF B
    <2>2. \A d \in 0 .. Top : Levels[d] = B(d)
      BY <2>1
    <2>3. QED
      BY <2>2 DEF B
  <1>6. QED
    BY <1>4, <1>5

\* What is in a level: a node has a value of its level or of one before, and
\* children of a level before its own.
LEMMA LevelMembers ==
  ASSUME NEW d \in 0 .. Top, NEW z
  PROVE  z \in Levels[d] <=>
           \/ IsTerminal(z)
           \/ /\ z = Node(Val(z), Lo(z), Hi(z))
              /\ Val(z) \in Elements /\ Val(z) > Top - d /\ Hi(z) # Zero
              /\ Lo(z) \in Levels[Top - Val(z)] /\ Hi(z) \in Levels[Top - Val(z)]
  <1> DEFINE In(y, e) ==
           \/ IsTerminal(y)
           \/ /\ y = Node(Val(y), Lo(y), Hi(y))
              /\ Val(y) \in Elements /\ Val(y) > Top - e /\ Hi(y) # Zero
              /\ Lo(y) \in Levels[Top - Val(y)] /\ Hi(y) \in Levels[Top - Val(y)]
             D == 0 .. Top
             rank == [e \in D |-> e]
             Good == {e \in D : \A y : y \in Levels[e] <=> In(y, e)}
  <1>1. rank \in [D -> Nat]
    OBVIOUS
  <1>2. ASSUME NEW e \in D, \A q \in D : rank[q] < rank[e] => q \in Good
        PROVE  e \in Good
    <2>1. CASE e = 0
      <3>1. \A y : ~(Val(y) \in Elements /\ Val(y) > Top - 0)
        BY TopExact
      <3>2. \A y : y \in Levels[e] <=> IsTerminal(y)
        BY <2>1, LevelsExact DEF IsTerminal, IsZero, IsOne
      <3>3. QED
        BY <2>1, <3>1, <3>2
    <2>2. CASE e # 0
      <3>1. e - 1 \in D /\ e \in 1 .. Top /\ e \in Int
        BY <2>2, TopExact
      <3>2. e - 1 \in Good
        BY <1>2, <3>1
      <3>3. \A y : y \in Levels[e - 1] <=> In(y, e - 1)
        BY <3>2
      <3>4. Levels[e] = LevelStep(Top - e + 1, Levels[e - 1])
        BY <3>1, LevelsExact
      <3> DEFINE v == Top - e + 1
      <3>5. v \in Int /\ Top - v = e - 1 /\ Top - e = v - 1
        BY <3>1, TopExact
      <3>6. ASSUME NEW y PROVE y \in Levels[e] <=> In(y, e)
        <4>1. y \in Levels[e] <=>
                \/ In(y, e - 1)
                \/ \E lo \in Levels[e - 1], hi \in Levels[e - 1] \ {Zero} :
                     v \in Elements /\ y = Node(v, lo, hi)
          <5> HIDE DEF In
          <5>1. QED
            BY <3>3, <3>4 DEF LevelStep
        <4>2. (\E lo \in Levels[e - 1], hi \in Levels[e - 1] \ {Zero} :
                     v \in Elements /\ y = Node(v, lo, hi))
              <=> /\ ~IsTerminal(y) /\ y = Node(Val(y), Lo(y), Hi(y))
                  /\ Val(y) \in Elements /\ Val(y) = v /\ Hi(y) # Zero
                  /\ Lo(y) \in Levels[Top - Val(y)] /\ Hi(y) \in Levels[Top - Val(y)]
          <5> HIDE DEF v
          <5>1. QED
            BY <3>5, Terms
        <4>3. Val(y) \in Elements =>
                (Val(y) > Top - e <=> Val(y) = v \/ Val(y) > Top - (e - 1))
          BY <3>1, <3>5, TopExact
        <4>4. CASE IsTerminal(y)
          BY <4>1, <4>4
        <4>5. CASE ~IsTerminal(y)
          BY <4>1, <4>2, <4>3, <4>5
        <4>6. QED
          BY <4>4, <4>5
      <3>7. QED
        BY <3>6
    <2>3. QED
      BY <2>1, <2>2
  <1>3. D \subseteq Good
    <2> HIDE DEF D, rank, Good
    <2>1. QED
      BY <1>1, <1>2, RankInduction
  <1>4. d \in Good
    BY <1>3
  <1>5. QED
    BY <1>4

\* Diagrams of values above n only.
Above(n) == {z \in Diagrams : IsTerminal(z) \/ Val(z) > n}

LEMMA DiagramParts ==
  ASSUME NEW z \in Diagrams, ~IsTerminal(z)
  PROVE  /\ z = Node(Val(z), Lo(z), Hi(z))
         /\ Val(z) \in Elements /\ Val(z) \in Nat /\ Val(z) > 0 /\ Val(z) <= Top
         /\ Lo(z) \in Above(Val(z)) /\ Hi(z) \in Above(Val(z)) /\ Hi(z) # Zero
         /\ Lo(z) \in Diagrams /\ Hi(z) \in Diagrams
  <1>1. Top \in 0 .. Top
    BY TopExact
  <1>2. /\ z = Node(Val(z), Lo(z), Hi(z))
        /\ Val(z) \in Elements /\ Hi(z) # Zero
        /\ Lo(z) \in Levels[Top - Val(z)] /\ Hi(z) \in Levels[Top - Val(z)]
    BY <1>1, LevelMembers DEF Diagrams
  <1>3. Val(z) \in Nat /\ Val(z) > 0 /\ Val(z) <= Top /\ Top - Val(z) \in 0 .. Top
    BY <1>2, TopExact
  <1>4. ASSUME NEW y \in Levels[Top - Val(z)] PROVE y \in Above(Val(z))
    <2>1. IsTerminal(y) \/
             /\ y = Node(Val(y), Lo(y), Hi(y))
             /\ Val(y) \in Elements /\ Val(y) > Top - (Top - Val(z)) /\ Hi(y) # Zero
             /\ Lo(y) \in Levels[Top - Val(y)] /\ Hi(y) \in Levels[Top - Val(y)]
      BY <1>3, LevelMembers
    <2>2. ~IsTerminal(y) => Val(y) > Val(z) /\ Val(y) > Top - Top
      BY <1>3, <2>1, TopExact
    <2>3. y \in Diagrams
      BY <1>1, <2>1, <2>2, LevelMembers DEF Diagrams
    <2>4. QED
      BY <2>2, <2>3 DEF Above
  <1>5. QED
    BY <1>2, <1>3, <1>4 DEF Above

LEMMA NodeDiagram ==
  ASSUME NEW v \in Elements, NEW lo \in Above(v), NEW hi \in Above(v), hi # Zero
  PROVE  Node(v, lo, hi) \in Diagrams
  <1>1. Top \in 0 .. Top /\ v \in Nat /\ v > 0 /\ v > Top - Top /\ Top - v \in 0 .. Top
    BY TopExact
  <1>2. ASSUME NEW y \in Above(v) PROVE y \in Levels[Top - v]
    <2>1. IsTerminal(y) \/
             /\ y = Node(Val(y), Lo(y), Hi(y))
             /\ Val(y) \in Elements /\ Hi(y) # Zero
             /\ Lo(y) \in Levels[Top - Val(y)] /\ Hi(y) \in Levels[Top - Val(y)]
      BY <1>1, LevelMembers DEF Diagrams, Above
    <2>2. ~IsTerminal(y) => Val(y) > v
      BY DEF Above
    <2>3. Top - (Top - v) = v
      BY <1>1, TopExact
    <2>4. QED
      BY <1>1, <2>1, <2>2, <2>3, LevelMembers
  <1> DEFINE z == Node(v, lo, hi)
  <1>3. Val(z) = v /\ Lo(z) = lo /\ Hi(z) = hi
    BY Terms
  <1>4. z = Node(Val(z), Lo(z), Hi(z))
    BY <1>3
  <1>5. z \in Levels[Top]
    <2>1. Lo(z) \in Levels[Top - Val(z)] /\ Hi(z) \in Levels[Top - Val(z)]
      BY <1>2, <1>3
    <2> HIDE DEF z
    <2>2. QED
      BY <1>1, <1>3, <1>4, <2>1, LevelMembers
  <1>6. QED
    BY <1>5 DEF Diagrams

LEMMA TerminalDiagrams ==
  Zero \in Diagrams /\ One \in Diagrams /\ IsTerminal(Zero) /\ IsTerminal(One)
    /\ IsZero(Zero) /\ IsOne(One) /\ ~IsZero(One) /\ ~IsOne(Zero)
  <1>1. Top \in 0 .. Top
    BY TopExact
  <1>2. QED
    BY <1>1, LevelMembers, Terms DEF Diagrams, IsTerminal, IsZero, IsOne

Rank(z) == IF IsTerminal(z) THEN 0 ELSE Top + 1 - Val(z)

LEMMA Ranks ==
  /\ \A z \in Diagrams : Rank(z) \in Nat
  /\ \A v \in Elements : \A z \in Above(v) : Rank(z) < Top + 1 - v
  BY DiagramParts, TopExact DEF Rank, Above

LEMMA DiagramInduction ==
  ASSUME NEW S, Zero \in S, One \in S,
         \A z \in Diagrams :
           ~IsTerminal(z) /\ (\A y \in Above(Val(z)) : y \in S) => z \in S
  PROVE  Diagrams \subseteq S
  <1> DEFINE rank == [z \in Diagrams |-> Rank(z)]
  <1>1. rank \in [Diagrams -> Nat]
    BY Ranks
  <1>2. ASSUME NEW z \in Diagrams, \A q \in Diagrams : rank[q] < rank[z] => q \in S
        PROVE  z \in S
    <2>1. CASE IsTerminal(z)
      BY <2>1 DEF IsTerminal, IsZero, IsOne
    <2>2. CASE ~IsTerminal(z)
      <3>1. ASSUME NEW y \in Above(Val(z)) PROVE y \in S
        <4>1. y \in Diagrams
          BY DEF Above
        <4>2. Rank(y) < Rank(z)
          BY <2>2, Ranks, DiagramParts DEF Rank
        <4>3. QED
          BY <1>2, <4>1, <4>2
      <3>2. QED
        BY <2>2, <3>1
    <2>3. QED
      BY <2>1, <2>2
  <1>3. QED
    <2> HIDE DEF rank
    <2>1. QED
      BY <1>1, <1>2, RankInduction

-----------------------------------------------------------------------------
(***************************************************************************)
(* The family of a diagram, and the diagram of a family                    *)
(***************************************************************************)
IsFamily(D, u) == u = [z \in D |-> FamilyStep(u, z)]

LEMMA FamilyExists ==
  \E u : IsFamily(Diagrams, u)
  <1> DEFINE D(n) == {z \in Diagrams : Rank(z) < n}
             Bad == {n \in Nat : ~ \E u : IsFamily(D(n), u)}
  <1>1. ASSUME Bad # {} PROVE FALSE
    <2>1. PICK n \in Bad : \A m \in Bad : n <= m
      <3>1. Bad \in SUBSET Nat
        OBVIOUS
      <3> HIDE DEF Bad
      <3>2. QED
        BY <1>1, <3>1, LeastOf
    <2>2. n \in Nat
      OBVIOUS
    <2>3. n # 0
      <3>1. D(0) = {}
        BY Ranks
      <3>2. IsFamily(D(0), [z \in {} |-> z])
        <4> HIDE DEF D
        <4>1. QED
          BY <3>1 DEF IsFamily
      <3>3. QED
        BY <3>2
    <2>4. PICK h : IsFamily(D(n - 1), h)
      <3> HIDE DEF Bad
      <3>1. n - 1 \in Nat /\ ~(n <= n - 1)
        BY <2>2, <2>3
      <3>2. n - 1 \notin Bad
        BY <2>1, <3>1
      <3> HIDE DEF D
      <3>3. QED
        BY <3>1, <3>2 DEF Bad
    <2> DEFINE L == [z \in D(n) |-> FamilyStep(h, z)]
    <2>5. ASSUME NEW y \in D(n - 1) PROVE L[y] = h[y]
      <3>1. y \in D(n)
        BY <2>2, Ranks
      <3>2. h[y] = FamilyStep(h, y)
        <4> HIDE DEF D
        <4>1. QED
          BY <2>4 DEF IsFamily
      <3>3. QED
        BY <3>1, <3>2
    <2>6. ASSUME NEW z \in D(n) PROVE FamilyStep(h, z) = FamilyStep(L, z)
      <3>1. CASE IsTerminal(z)
        BY <3>1 DEF FamilyStep, IsTerminal
      <3>2. CASE ~IsTerminal(z)
        <4>1. z \in Diagrams /\ Rank(z) < n /\ Rank(z) = Top + 1 - Val(z)
          BY <3>2 DEF Rank
        <4>2. Lo(z) \in Above(Val(z)) /\ Hi(z) \in Above(Val(z)) /\ Val(z) \in Elements
          BY <3>2, <4>1, DiagramParts
        <4>3. Rank(Lo(z)) < Rank(z) /\ Rank(Hi(z)) < Rank(z) /\ Rank(z) \in Nat
               /\ Rank(Lo(z)) \in Nat /\ Rank(Hi(z)) \in Nat
          BY <4>1, <4>2, Ranks DEF Above
        <4>4. Lo(z) \in D(n - 1) /\ Hi(z) \in D(n - 1)
          BY <2>2, <4>1, <4>2, <4>3 DEF Above
        <4>5. QED
          <5> HIDE DEF L
          <5>1. QED
            BY <4>4, <2>5 DEF FamilyStep
      <3>3. QED
        BY <3>1, <3>2
    <2>7. IsFamily(D(n), L)
      <3>1. L = [z \in D(n) |-> FamilyStep(h, z)]
        OBVIOUS
      <3> HIDE DEF L, D
      <3>2. L = [z \in D(n) |-> FamilyStep(L, z)]
        BY <3>1, <2>6
      <3>3. QED
        BY <3>2 DEF IsFamily
    <2> HIDE DEF L
    <2>8. QED
      BY <2>1, <2>7
  <1>2. PICK u : IsFamily(D(Top + 1), u)
    <2>1. Top + 1 \in Nat
      BY TopExact
    <2>2. Bad = {}
      BY <1>1
    <2> HIDE DEF D
    <2>3. QED
      BY <2>1, <2>2
  <1>3. D(Top + 1) = Diagrams
    <2>1. \A z \in Diagrams : Rank(z) < Top + 1
      BY DiagramParts, TopExact DEF Rank
    <2>2. QED
      BY <2>1
  <1>4. QED
    <2> HIDE DEF D
    <2>1. QED
      BY <1>2, <1>3

LEMMA FamilyParts ==
  /\ Family[Zero] = {} /\ Family[One] = {{}}
  /\ \A z \in Diagrams : ~IsTerminal(z) =>
       Family[z] = Family[Lo(z)] \cup With(Val(z), Family[Hi(z)])
  <1>1. IsFamily(Diagrams, CHOOSE u : IsFamily(Diagrams, u))
    BY FamilyExists
  <1>2. Family = CHOOSE u : IsFamily(Diagrams, u)
    BY DEF Family, IsFamily
  <1>3. IsFamily(Diagrams, Family)
    BY <1>1, <1>2
  <1>4. \A z \in Diagrams : Family[z] = FamilyStep(Family, z)
    BY <1>3 DEF IsFamily
  <1>5. QED
    BY <1>4, TerminalDiagrams DEF FamilyStep, IsTerminal

\* The sets of values above n.
Over(n) == SUBSET {e \in Elements : e > n}

LEMMA FamilyOver ==
  /\ \A z \in Diagrams : Family[z] \in Families
  /\ \A v \in Nat : \A z \in Above(v) : Family[z] \subseteq Over(v)
  <1> DEFINE From(z) == {e \in Elements : ~IsTerminal(z) /\ e >= Val(z)}
             S == {z \in Diagrams : Family[z] \subseteq SUBSET From(z)}
  <1>1. Zero \in S /\ One \in S
    BY FamilyParts, TerminalDiagrams
  <1>2. ASSUME NEW z \in Diagrams, ~IsTerminal(z), \A y \in Above(Val(z)) : y \in S
        PROVE  z \in S
    <2>1. Lo(z) \in S /\ Hi(z) \in S /\ Val(z) \in Elements /\ Val(z) \in Nat
      BY <1>2, DiagramParts
    <2>2. Lo(z) \in Above(Val(z)) /\ Hi(z) \in Above(Val(z))
      BY <1>2, DiagramParts
    <2>3. ASSUME NEW y \in Above(Val(z)) PROVE From(y) \subseteq From(z)
      <3>1. ~IsTerminal(y) => Val(y) > Val(z) /\ Val(y) \in Nat
        BY DiagramParts DEF Above
      <3>2. \A e \in Elements : e \in Nat
        BY TopExact
      <3>3. QED
        BY <1>2, <2>1, <3>1, <3>2
    <2>4. Val(z) \in From(z)
      BY <1>2, <2>1
    <2>5. Family[Lo(z)] \subseteq SUBSET From(z) /\ Family[Hi(z)] \subseteq SUBSET From(z)
      <3> HIDE DEF From
      <3>1. QED
        BY <2>1, <2>2, <2>3
    <2>6. With(Val(z), Family[Hi(z)]) \subseteq SUBSET From(z)
      <3> HIDE DEF From
      <3>1. QED
        BY <2>4, <2>5 DEF With
    <2>7. Family[z] \subseteq SUBSET From(z)
      <3> HIDE DEF From
      <3>1. QED
        BY <1>2, <2>5, <2>6, FamilyParts
    <2>8. QED
      BY <2>7
  <1>3. Diagrams \subseteq S
    <2> HIDE DEF S
    <2>1. QED
      BY <1>1, <1>2, DiagramInduction
  <1>4. \A z \in Diagrams : Family[z] \subseteq SUBSET From(z)
    BY <1>3
  <1>5. ASSUME NEW v \in Nat, NEW z \in Above(v) PROVE From(z) \subseteq {e \in Elements : e > v}
    <2>1. ~IsTerminal(z) => Val(z) > v /\ Val(z) \in Nat
      BY DiagramParts DEF Above
    <2>2. \A e \in Elements : e \in Nat
      BY TopExact
    <2>3. QED
      BY <2>1, <2>2
  <1>6. ASSUME NEW z \in Diagrams PROVE Family[z] \in Families
    <2>1. From(z) \subseteq Elements
      OBVIOUS
    <2> HIDE DEF From
    <2>2. QED
      BY <1>4, <2>1 DEF Families
  <1>7. ASSUME NEW v \in Nat, NEW z \in Above(v) PROVE Family[z] \subseteq Over(v)
    <2>1. z \in Diagrams
      BY DEF Above
    <2> HIDE DEF From
    <2>2. QED
      BY <1>4, <1>5, <2>1 DEF Over
  <1>8. QED
    BY <1>6, <1>7

\* Every diagram but Zero has a set in it, and every node one with its value.
LEMMA FamilyNotEmpty ==
  /\ \A z \in Diagrams : z # Zero => Family[z] # {}
  /\ \A z \in Diagrams : ~IsTerminal(z) => \E s \in Family[z] : Val(z) \in s
  <1> DEFINE S == {z \in Diagrams : z # Zero => Family[z] # {}}
  <1>1. Zero \in S /\ One \in S
    BY FamilyParts, TerminalDiagrams
  <1>2. ASSUME NEW z \in Diagrams, ~IsTerminal(z), \A y \in Above(Val(z)) : y \in S
        PROVE  z \in S
    <2>1. PICK s : s \in Family[Hi(z)]
      BY <1>2, DiagramParts
    <2>2. s \cup {Val(z)} \in Family[z]
      BY <1>2, <2>1, FamilyParts DEF With
    <2>3. QED
      BY <2>2
  <1>3. Diagrams \subseteq S
    <2> HIDE DEF S
    <2>1. QED
      BY <1>1, <1>2, DiagramInduction
  <1>4. ASSUME NEW z \in Diagrams, ~IsTerminal(z)
        PROVE  \E s \in Family[z] : Val(z) \in s
    <2>1. PICK s : s \in Family[Hi(z)]
      BY <1>3, <1>4, DiagramParts
    <2>2. s \cup {Val(z)} \in Family[z]
      BY <1>4, <2>1, FamilyParts DEF With
    <2>3. QED
      BY <2>2
  <1>5. QED
    BY <1>3, <1>4

\* The sets without v, and what is left of the sets with v.
Off(v, A) == {s \in A : v \notin s}
On(v, A)  == {s \ {v} : s \in {t \in A : v \in t}}

LEMMA Cofactors ==
  ASSUME NEW v \in Nat, NEW A \in SUBSET Over(v), NEW B \in SUBSET Over(v)
  PROVE  /\ Off(v, A) = A /\ On(v, A) = {}
         /\ Off(v, A \cup With(v, B)) = A
         /\ On(v, A \cup With(v, B)) = B
  <1>1. \A s \in A \cup B : v \notin s
    BY DEF Over
  <1>2. \A s \in A \cup B : (s \cup {v}) \ {v} = s
    BY <1>1
  <1>3. \A s \in With(v, B) : v \in s /\ s \ {v} \in B
    BY <1>2 DEF With
  <1>4. \A s \in B : s \cup {v} \in With(v, B)
    BY DEF With
  <1>5. Off(v, A) = A /\ On(v, A) = {}
    BY <1>1 DEF Off, On
  <1>6. Off(v, A \cup With(v, B)) = A
    BY <1>1, <1>3 DEF Off
  <1>7. ASSUME NEW s \in On(v, A \cup With(v, B)) PROVE s \in B
    BY <1>1, <1>3 DEF On
  <1>8. ASSUME NEW s \in B PROVE s \in On(v, A \cup With(v, B))
    <2>1. s \cup {v} \in A \cup With(v, B) /\ v \in s \cup {v} /\ (s \cup {v}) \ {v} = s
      BY <1>2, <1>4
    <2>2. QED
      BY <2>1 DEF On
  <1>9. QED
    BY <1>5, <1>6, <1>7, <1>8

LEMMA CofactorsJoin ==
  ASSUME NEW v, NEW A
  PROVE  A = Off(v, A) \cup With(v, On(v, A))
  <1>1. \A s \in A : v \in s => (s \ {v}) \cup {v} = s
    OBVIOUS
  <1>2. ASSUME NEW s \in A PROVE s \in Off(v, A) \cup With(v, On(v, A))
    <2>1. CASE v \in s
      <3>1. s \ {v} \in On(v, A)
        BY <2>1 DEF On
      <3>2. QED
        BY <1>1, <2>1, <3>1 DEF With
    <2>2. CASE v \notin s
      BY <2>2 DEF Off
    <2>3. QED
      BY <2>1, <2>2
  <1>3. ASSUME NEW s \in Off(v, A) PROVE s \in A
    BY DEF Off
  <1>4. ASSUME NEW s \in With(v, On(v, A)) PROVE s \in A
    <2>1. PICK t \in On(v, A) : s = t \cup {v}
      BY DEF With
    <2>2. PICK u \in A : v \in u /\ t = u \ {v}
      BY DEF On
    <2>3. s = u
      BY <2>1, <2>2
    <2>4. QED
      BY <2>3
  <1>5. QED
    BY <1>2, <1>3, <1>4

LEMMA CofactorsOver ==
  ASSUME NEW n \in Nat, NEW v \in Nat, NEW A \in SUBSET Over(n),
         \A e \in Elements : e > n => e >= v
  PROVE  Off(v, A) \subseteq Over(v) /\ On(v, A) \subseteq Over(v)
  <1>1. \A e \in Elements : e \in Nat /\ (e > n /\ e # v => e > v)
    BY TopExact
  <1>2. QED
    BY <1>1 DEF Over, Off, On

LEMMA NodeCofactors ==
  ASSUME NEW z \in Diagrams, ~IsTerminal(z)
  PROVE  /\ Off(Val(z), Family[z]) = Family[Lo(z)]
         /\ On(Val(z), Family[z]) = Family[Hi(z)]
         /\ Family[Lo(z)] \subseteq Over(Val(z)) /\ Family[Hi(z)] \subseteq Over(Val(z))
  <1>1. /\ Family[z] = Family[Lo(z)] \cup With(Val(z), Family[Hi(z)])
        /\ Val(z) \in Nat /\ Lo(z) \in Above(Val(z)) /\ Hi(z) \in Above(Val(z))
    BY DiagramParts, FamilyParts
  <1>2. Family[Lo(z)] \in SUBSET Over(Val(z)) /\ Family[Hi(z)] \in SUBSET Over(Val(z))
    BY <1>1, FamilyOver
  <1> DEFINE v == Val(z)
             A == Family[Lo(z)]
             B == Family[Hi(z)]
  <1>3. v \in Nat /\ A \in SUBSET Over(v) /\ B \in SUBSET Over(v)
    BY <1>1, <1>2
  <1>4. Off(v, A \cup With(v, B)) = A /\ On(v, A \cup With(v, B)) = B
    <2> HIDE DEF v, A, B
    <2>1. \A C, D \in SUBSET Over(v) :
            Off(v, C \cup With(v, D)) = C /\ On(v, C \cup With(v, D)) = D
      BY <1>3, Cofactors, ZenonT(60)
    <2>2. QED
      BY <1>3, <2>1
  <1>5. QED
    BY <1>1, <1>2, <1>4

LEMMA AboveOver ==
  ASSUME NEW z \in Diagrams, NEW v \in Nat
  PROVE  z \in Above(v) <=> Family[z] \subseteq Over(v)
  <1>1. CASE IsTerminal(z)
    BY <1>1, FamilyOver DEF Above
  <1>2. CASE ~IsTerminal(z)
    <2>1. PICK s \in Family[z] : Val(z) \in s
      BY <1>2, FamilyNotEmpty
    <2>2. Family[z] \subseteq Over(v) => Val(z) > v
      BY <2>1 DEF Over
    <2>3. QED
      BY <2>2, FamilyOver DEF Above
  <1>3. QED
    BY <1>1, <1>2

\* No two diagrams have one family.
LEMMA Canonical ==
  ASSUME NEW y \in Diagrams, NEW z \in Diagrams, Family[y] = Family[z]
  PROVE  y = z
  <1> DEFINE S == {x \in Diagrams : \A w \in Diagrams : Family[w] = Family[x] => w = x}
  <1>1. Zero \in S
    BY FamilyParts, FamilyNotEmpty, TerminalDiagrams
  <1>2. One \in S
    <2>1. ASSUME NEW w \in Diagrams, Family[w] = {{}} PROVE w = One
      <3>1. w # Zero
        BY <2>1, FamilyParts
      <3>2. IsTerminal(w)
        BY <2>1, FamilyNotEmpty
      <3>3. QED
        BY <3>1, <3>2 DEF IsTerminal, IsZero, IsOne
    <2>2. QED
      BY <2>1, FamilyParts, TerminalDiagrams
  <1>3. ASSUME NEW x \in Diagrams, ~IsTerminal(x), \A w \in Above(Val(x)) : w \in S
        PROVE  x \in S
    <2>1. ASSUME NEW w \in Diagrams, Family[w] = Family[x] PROVE w = x
      <3>1. ~IsTerminal(w)
        BY <1>1, <1>2, <1>3, <2>1, TerminalDiagrams DEF IsTerminal, IsZero, IsOne
      <3>2. Val(w) \in Nat /\ Val(x) \in Nat
        BY <1>3, <3>1, DiagramParts
      <3>3. Val(w) = Val(x)
        <4>1. x \notin Above(Val(w)) /\ w \notin Above(Val(x))
          <5>1. On(Val(w), Family[w]) # {} /\ On(Val(x), Family[x]) # {}
            BY <1>3, <3>1, NodeCofactors, FamilyNotEmpty, DiagramParts
          <5>2. x \in Above(Val(w)) => On(Val(w), Family[x]) = {}
            BY <3>2, FamilyOver, Cofactors
          <5>3. w \in Above(Val(x)) => On(Val(x), Family[w]) = {}
            BY <3>2, FamilyOver, Cofactors
          <5>4. QED
            BY <2>1, <5>1, <5>2, <5>3
        <4>2. QED
          BY <1>3, <3>1, <3>2, <4>1 DEF Above
      <3>4. Family[Lo(w)] = Family[Lo(x)] /\ Family[Hi(w)] = Family[Hi(x)]
        BY <1>3, <2>1, <3>1, <3>3, NodeCofactors
      <3>5. Lo(w) \in Diagrams /\ Hi(w) \in Diagrams
              /\ Lo(x) \in Above(Val(x)) /\ Hi(x) \in Above(Val(x))
        BY <1>3, <3>1, DiagramParts
      <3>6. Lo(w) = Lo(x) /\ Hi(w) = Hi(x)
        BY <1>3, <3>4, <3>5
      <3>7. QED
        BY <1>3, <3>1, <3>3, <3>6, DiagramParts
    <2>2. QED
      BY <2>1
  <1>4. Diagrams \subseteq S
    <2> HIDE DEF S
    <2>1. QED
      BY <1>1, <1>2, <1>3, DiagramInduction
  <1>5. QED
    BY <1>4

\* Every family has a diagram.
LEMMA DiagramExists ==
  ASSUME NEW A \in Families
  PROVE  \E z \in Diagrams : Family[z] = A
  <1> DEFINE D == 0 .. Top
             rank == [n \in D |-> Top - n]
             Good == {n \in D : \A B \in SUBSET Over(n) : \E z \in Diagrams : Family[z] = B}
  <1>1. rank \in [D -> Nat]
    BY TopExact
  <1>2. ASSUME NEW n \in D, \A m \in D : rank[m] < rank[n] => m \in Good
        PROVE  n \in Good
    <2>1. ASSUME NEW B \in SUBSET Over(n) PROVE \E z \in Diagrams : Family[z] = B
      <3>1. CASE n = Top
        <4>1. Over(n) = {{}}
          BY <3>1, TopExact DEF Over
        <4>2. B = {} \/ B = {{}}
          BY <4>1
        <4>3. QED
          BY <4>2, FamilyParts, TerminalDiagrams
      <3>2. CASE n # Top
        <4> DEFINE v == n + 1
        <4>1. v \in D /\ v \in Nat /\ n \in Nat /\ rank[v] < rank[n]
          BY <3>2, TopExact
        <4>2. v \in Good
          BY <1>2, <4>1
        <4>3. \A C \in SUBSET Over(v) : \E z \in Diagrams : Family[z] = C
          BY <4>2
        <4>4. Off(v, B) \subseteq Over(v) /\ On(v, B) \subseteq Over(v)
          <5>1. \A e \in Elements : e > n => e >= v
            BY <4>1, TopExact
          <5> HIDE DEF v
          <5>2. QED
            BY <4>1, <5>1, CofactorsOver
        <4>5. PICK lo \in Diagrams : Family[lo] = Off(v, B)
          BY <4>3, <4>4
        <4>6. PICK hi \in Diagrams : Family[hi] = On(v, B)
          BY <4>3, <4>4
        <4>7. B = Off(v, B) \cup With(v, On(v, B))
          BY CofactorsJoin
        <4>8. CASE hi = Zero
          <5>1. With(v, On(v, B)) = {}
            BY <4>6, <4>8, FamilyParts DEF With
          <5> HIDE DEF v
          <5>2. QED
            BY <4>5, <4>7, <5>1
        <4>9. CASE hi # Zero
          <5>1. lo \in Above(v) /\ hi \in Above(v)
            <6> HIDE DEF v
            <6>1. QED
              BY <4>1, <4>4, <4>5, <4>6, AboveOver
          <5>2. v \in Elements
            <6>1. PICK s : s \in On(v, B)
              BY <4>6, <4>9, FamilyNotEmpty
            <6>2. PICK t \in B : v \in t
              BY <6>1 DEF On
            <6>3. QED
              BY <6>2 DEF Over
          <5> DEFINE z == Node(v, lo, hi)
          <5>3. z \in Diagrams /\ ~IsTerminal(z) /\ Val(z) = v /\ Lo(z) = lo /\ Hi(z) = hi
            <6> HIDE DEF v
            <6>1. QED
              BY <4>9, <5>1, <5>2, NodeDiagram, Terms
          <5>4. Family[z] = B
            <6> HIDE DEF v, z
            <6>1. QED
              BY <4>5, <4>6, <4>7, <5>3, FamilyParts
          <5>5. QED
            BY <5>3, <5>4
        <4>10. QED
          BY <4>8, <4>9
      <3>3. QED
        BY <3>1, <3>2
    <2>2. QED
      BY <2>1
  <1>3. D \subseteq Good
    <2> HIDE DEF D, rank, Good
    <2>1. QED
      BY <1>1, <1>2, RankInduction
  <1>4. 0 \in Good
    BY <1>3, TopExact
  <1>5. A \in SUBSET Over(0)
    BY TopExact DEF Over, Families
  <1>6. QED
    BY <1>4, <1>5

Diagram(A) == CHOOSE z \in Diagrams : Family[z] = A

LEMMA Unique ==
  /\ \A A \in Families : Is(Diagram(A), A)
  /\ \A A \in Families : \A z : Is(z, A) => z = Diagram(A)
  /\ \A z \in Diagrams : Is(z, Family[z]) /\ z = Diagram(Family[z])
  <1>1. \A A \in Families : Is(Diagram(A), A)
    BY DiagramExists DEF Is, Diagram
  <1>2. \A A \in Families : \A z : Is(z, A) => z = Diagram(A)
    BY <1>1, Canonical DEF Is
  <1>3. \A z \in Diagrams : Is(z, Family[z])
    BY DEF Is
  <1>4. QED
    BY <1>1, <1>2, <1>3, FamilyOver

\* There is no diagram that Zero and Panic could be taken for.
LEMMA IsTerminals ==
  ASSUME NEW z, NEW A, Is(z, A)
  PROVE  /\ IsZero(z) <=> A = {}
         /\ IsOne(z) <=> A = {{}}
         /\ A \in Families
  <1>1. z \in Diagrams /\ Family[z] = A
    BY DEF Is
  <1>2. A = {} => z = Zero
    BY <1>1, FamilyParts, TerminalDiagrams, Canonical
  <1>3. A = {{}} => z = One
    BY <1>1, FamilyParts, TerminalDiagrams, Canonical
  <1>4. QED
    BY <1>1, <1>2, <1>3, FamilyParts, FamilyOver DEF IsZero, IsOne

LEMMA TerminalsAre == Is(Zero, {}) /\ Is(One, {{}})
  BY FamilyParts, TerminalDiagrams DEF Is

-----------------------------------------------------------------------------
(***************************************************************************)
(* A node by its cofactors                                                 *)
(***************************************************************************)
LEMMA IsNode ==
  ASSUME NEW v \in Elements, NEW A \in SUBSET Over(v), NEW B \in SUBSET Over(v),
         NEW lo, NEW hi, Is(lo, A), Is(hi, B)
  PROVE  Is(GetNode(v, lo, hi), A \cup With(v, B))
  <1>1. v \in Nat /\ lo \in Diagrams /\ hi \in Diagrams /\ Family[lo] = A /\ Family[hi] = B
    BY TopExact DEF Is
  <1>2. lo \in Above(v) /\ hi \in Above(v)
    BY <1>1, AboveOver
  <1>3. CASE hi = Zero
    <2>1. With(v, B) = {}
      BY <1>1, <1>3, FamilyParts DEF With
    <2>2. QED
      BY <1>1, <1>3, <2>1 DEF Is, GetNode, IsZero
  <1>4. CASE hi # Zero
    <2>1. Node(v, lo, hi) \in Diagrams
      BY <1>2, <1>4, NodeDiagram
    <2>2. Family[Node(v, lo, hi)] = A \cup With(v, B)
      BY <1>1, <2>1, Terms, FamilyParts
    <2>3. QED
      BY <1>4, <2>1, <2>2 DEF Is, GetNode, IsZero
  <1>5. QED
    BY <1>3, <1>4

\* The sets of v and the values above it.
AtLeast(v) == SUBSET {e \in Elements : e >= v}

LEMMA OverAtLeast ==
  ASSUME NEW v \in Elements
  PROVE  /\ \A A \in SUBSET Over(v) : A \subseteq AtLeast(v) /\ With(v, A) \subseteq AtLeast(v)
         /\ \A A \in SUBSET AtLeast(v) : Off(v, A) \subseteq Over(v) /\ On(v, A) \subseteq Over(v)
  <1>1. v \in Nat /\ \A e \in Elements : e \in Nat
    BY TopExact
  <1>2. v >= v /\ \A e \in Elements : (e > v => e >= v) /\ (e >= v /\ e # v => e > v)
    BY <1>1
  <1>3. \A s \in Over(v) : s \in AtLeast(v) /\ s \cup {v} \in AtLeast(v)
    BY <1>2 DEF Over, AtLeast
  <1>4. \A s \in AtLeast(v) : s \ {v} \in Over(v) /\ (v \notin s => s \in Over(v))
    BY <1>2 DEF Over, AtLeast
  <1>5. ASSUME NEW A \in SUBSET Over(v)
        PROVE  A \subseteq AtLeast(v) /\ With(v, A) \subseteq AtLeast(v)
    BY <1>3 DEF With
  <1>6. ASSUME NEW A \in SUBSET AtLeast(v)
        PROVE  Off(v, A) \subseteq Over(v) /\ On(v, A) \subseteq Over(v)
    BY <1>4 DEF Off, On
  <1>7. QED
    BY <1>5, <1>6

LEMMA IsByCofactors ==
  ASSUME NEW v \in Elements, NEW A \in SUBSET AtLeast(v), NEW lo, NEW hi,
         Is(lo, Off(v, A)), Is(hi, On(v, A))
  PROVE  Is(GetNode(v, lo, hi), A)
  <1>2. Off(v, A) \in SUBSET Over(v) /\ On(v, A) \in SUBSET Over(v)
    BY OverAtLeast
  <1>3. A = Off(v, A) \cup With(v, On(v, A))
    BY CofactorsJoin
  <1>4. QED
    BY <1>2, <1>3, IsNode

\* The cofactors of a diagram that has no value below v.
LoAt(v, z) == IF ~IsTerminal(z) /\ Val(z) = v THEN Lo(z) ELSE z
HiAt(v, z) == IF ~IsTerminal(z) /\ Val(z) = v THEN Hi(z) ELSE Zero

From(v) == {z \in Diagrams : IsTerminal(z) \/ Val(z) >= v}

LEMMA CofactorsAt ==
  ASSUME NEW v \in Elements, NEW z \in From(v)
  PROVE  /\ Family[z] \in SUBSET AtLeast(v)
         /\ LoAt(v, z) \in Above(v) /\ HiAt(v, z) \in Above(v)
         /\ LoAt(v, z) \in Diagrams /\ HiAt(v, z) \in Diagrams
         /\ Family[LoAt(v, z)] = Off(v, Family[z])
         /\ Family[HiAt(v, z)] = On(v, Family[z])
         /\ Is(LoAt(v, z), Off(v, Family[z]))
         /\ Is(HiAt(v, z), On(v, Family[z]))
         /\ Rank(LoAt(v, z)) < Top + 1 - v /\ Rank(HiAt(v, z)) < Top + 1 - v
         /\ Rank(LoAt(v, z)) <= Rank(z) /\ Rank(HiAt(v, z)) <= Rank(z)
         /\ ~IsTerminal(z) /\ Val(z) = v => Rank(z) = Top + 1 - v
  <1>1. v \in Nat /\ z \in Diagrams /\ v <= Top /\ \A e \in Elements : e \in Nat
    BY TopExact DEF From
  <1>2. CASE ~IsTerminal(z) /\ Val(z) = v
    <2>1. /\ Off(v, Family[z]) = Family[Lo(z)] /\ On(v, Family[z]) = Family[Hi(z)]
          /\ Lo(z) \in Above(v) /\ Hi(z) \in Above(v) /\ LoAt(v, z) = Lo(z) /\ HiAt(v, z) = Hi(z)
      BY <1>1, <1>2, NodeCofactors, DiagramParts DEF LoAt, HiAt
    <2>2. Family[Lo(z)] \subseteq Over(v) /\ Family[Hi(z)] \subseteq Over(v)
      BY <1>1, <2>1, FamilyOver
    <2>3. Family[z] = Off(v, Family[z]) \cup With(v, On(v, Family[z]))
      BY CofactorsJoin
    <2>4. Off(v, Family[z]) \subseteq AtLeast(v) /\ With(v, On(v, Family[z])) \subseteq AtLeast(v)
      BY <2>1, <2>2, OverAtLeast
    <2>5. Rank(z) = Top + 1 - v /\ Rank(Lo(z)) < Top + 1 - v /\ Rank(Hi(z)) < Top + 1 - v
            /\ Rank(Lo(z)) \in Nat /\ Rank(Hi(z)) \in Nat
      BY <1>1, <1>2, <2>1, Ranks DEF Rank, Above
    <2>6. Family[z] \subseteq AtLeast(v)
      BY <2>3, <2>4
    <2>7. QED
      BY <1>1, <2>1, <2>5, <2>6, TopExact DEF Is, Above
  <1>3. CASE IsTerminal(z) \/ Val(z) # v
    <2>1. z \in Above(v) /\ LoAt(v, z) = z /\ HiAt(v, z) = Zero /\ Zero \in Above(v)
      <3>1. ~IsTerminal(z) => Val(z) > v
        BY <1>1, <1>3, DiagramParts DEF From
      <3>2. QED
        BY <1>1, <1>3, <3>1, TerminalDiagrams DEF Above, LoAt, HiAt
    <2>2. Family[z] \in SUBSET Over(v)
      BY <1>1, <2>1, FamilyOver
    <2>3. Off(v, Family[z]) = Family[z] /\ On(v, Family[z]) = {}
      BY <1>1, <2>2, Cofactors
    <2>4. Family[z] \subseteq AtLeast(v)
      BY <2>2, OverAtLeast
    <2>5. Rank(z) < Top + 1 - v /\ Rank(Zero) < Top + 1 - v /\ Rank(z) \in Nat /\ Rank(Zero) = 0
      BY <1>1, <2>1, Ranks, TerminalDiagrams DEF Rank
    <2>6. QED
      BY <1>1, <1>3, <2>1, <2>3, <2>4, <2>5, FamilyParts, TerminalDiagrams DEF Is
  <1>4. QED
    BY <1>2, <1>3

-----------------------------------------------------------------------------
(***************************************************************************)
(* Cofactors of families made of families                                  *)
(***************************************************************************)
\* The operations on families, by name: a name stands for one set.
Either(A, B) == A \cup B
Both(A, B)   == A \cap B
Less(A, B)   == A \ B

LEMMA OnMembers ==
  ASSUME NEW v, NEW A, NEW s
  PROVE  s \in On(v, A) <=> v \notin s /\ s \cup {v} \in A
  <1>1. ASSUME s \in On(v, A) PROVE v \notin s /\ s \cup {v} \in A
    <2>1. PICK t \in A : v \in t /\ s = t \ {v}
      BY <1>1 DEF On
    <2>2. s \cup {v} = t
      BY <2>1
    <2>3. QED
      BY <2>1, <2>2
  <1>2. ASSUME v \notin s, s \cup {v} \in A PROVE s \in On(v, A)
    <2>1. s = (s \cup {v}) \ {v} /\ v \in s \cup {v}
      BY <1>2
    <2>2. QED
      BY <1>2, <2>1 DEF On
  <1>3. QED
    BY <1>1, <1>2

LEMMA CofactorsOfSets ==
  ASSUME NEW v, NEW A, NEW B
  PROVE  /\ Off(v, Either(A, B)) = Either(Off(v, A), Off(v, B))
         /\ On(v, Either(A, B)) = Either(On(v, A), On(v, B))
         /\ Off(v, Both(A, B)) = Both(Off(v, A), Off(v, B))
         /\ On(v, Both(A, B)) = Both(On(v, A), On(v, B))
         /\ Off(v, Less(A, B)) = Less(Off(v, A), Off(v, B))
         /\ On(v, Less(A, B)) = Less(On(v, A), On(v, B))
  <1>1. /\ Off(v, Either(A, B)) = Either(Off(v, A), Off(v, B))
        /\ Off(v, Both(A, B)) = Both(Off(v, A), Off(v, B))
        /\ Off(v, Less(A, B)) = Less(Off(v, A), Off(v, B))
    BY DEF Off, Either, Both, Less
  <1>2. \A C, D : \A s : /\ s \in Either(C, D) <=> s \in C \/ s \in D
                         /\ s \in Both(C, D) <=> s \in C /\ s \in D
                         /\ s \in Less(C, D) <=> s \in C /\ s \notin D
    BY DEF Either, Both, Less
  <1>3. ASSUME NEW s
        PROVE  /\ s \in On(v, Either(A, B)) <=> s \in Either(On(v, A), On(v, B))
               /\ s \in On(v, Both(A, B)) <=> s \in Both(On(v, A), On(v, B))
               /\ s \in On(v, Less(A, B)) <=> s \in Less(On(v, A), On(v, B))
    <2> DEFINE t == s \cup {v}
    <2>1. \A C : s \in On(v, C) <=> v \notin s /\ t \in C
      BY OnMembers
    <2> HIDE DEF t
    <2>2. QED
      BY <1>2, <2>1
  <1>4. QED
    BY <1>1, <1>3

LEMMA AtLeastSets ==
  ASSUME NEW v, NEW A \in SUBSET AtLeast(v), NEW B \in SUBSET AtLeast(v)
  PROVE  /\ Either(A, B) \in SUBSET AtLeast(v)
         /\ Both(A, B) \in SUBSET AtLeast(v)
         /\ Less(A, B) \in SUBSET AtLeast(v)
  BY DEF Either, Both, Less

LEMMA FamiliesSets ==
  ASSUME NEW A \in Families, NEW B \in Families
  PROVE  Either(A, B) \in Families /\ Both(A, B) \in Families /\ Less(A, B) \in Families
  BY DEF Either, Both, Less, Families

-----------------------------------------------------------------------------
(***************************************************************************)
(* union                                                                   *)
(***************************************************************************)
\* Of pairs with the same sum of ranks, those are last whose first is a node
\* and whose second is One.
PairRank(p) == 2 * (Rank(p[1]) + Rank(p[2])) + (IF Rank(p[1]) > Rank(p[2]) THEN 1 ELSE 0)

LEMMA PairRanks ==
  /\ \A p \in Pairs : PairRank(p) \in Nat
  /\ \A x, y, u, w \in Diagrams :
       /\ Rank(u) + Rank(w) < Rank(x) + Rank(y) => PairRank(<<u, w>>) < PairRank(<<x, y>>)
       /\ Rank(y) < Rank(x) => PairRank(<<y, x>>) < PairRank(<<x, y>>)
  BY Ranks DEF PairRank, Pairs

\* v is the least of the values at the top of x and y.
IsTop(v, x, y) ==
  /\ v \in Elements /\ v \in Nat /\ x \in From(v) /\ y \in From(v)
  /\ \/ ~IsTerminal(x) /\ v = Val(x)
     \/ ~IsTerminal(y) /\ v = Val(y)
  /\ ~IsTerminal(x) => Val(x) \in Nat /\ v <= Val(x)
  /\ ~IsTerminal(y) => Val(y) \in Nat /\ v <= Val(y)

LEMMA TopOfTwo ==
  ASSUME NEW x \in Diagrams, NEW y \in Diagrams, ~IsTerminal(x) \/ ~IsTerminal(y)
  PROVE  \E v : IsTop(v, x, y)
  <1> DEFINE v == IF IsTerminal(x) THEN Val(y)
                  ELSE IF IsTerminal(y) THEN Val(x)
                  ELSE IF Val(x) <= Val(y) THEN Val(x) ELSE Val(y)
  <1>1. /\ ~IsTerminal(x) => Val(x) \in Elements /\ Val(x) \in Nat
        /\ ~IsTerminal(y) => Val(y) \in Elements /\ Val(y) \in Nat
    BY DiagramParts
  <1>2. IsTop(v, x, y)
    BY <1>1 DEF From, IsTop
  <1>3. QED
    BY <1>2

LEMMA TopRanks ==
  ASSUME NEW x \in Diagrams, NEW y \in Diagrams, NEW v, IsTop(v, x, y),
         NEW u \in {LoAt(v, x), HiAt(v, x)}, NEW w \in {LoAt(v, y), HiAt(v, y)}
  PROVE  /\ <<u, w>> \in Pairs /\ u \in Diagrams /\ w \in Diagrams
         /\ Rank(u) + Rank(w) < Rank(x) + Rank(y)
         /\ PairRank(<<u, w>>) < PairRank(<<x, y>>)
  <1>1. v \in Elements /\ v \in Nat /\ x \in From(v) /\ y \in From(v)
          /\ ((~IsTerminal(x) /\ v = Val(x)) \/ (~IsTerminal(y) /\ v = Val(y)))
    BY DEF IsTop
  <1>2. u \in Diagrams /\ w \in Diagrams
    BY <1>1, CofactorsAt
  <1>3. Rank(u) \in Nat /\ Rank(w) \in Nat /\ Rank(x) \in Nat /\ Rank(y) \in Nat
    BY <1>2, Ranks
  <1>4. /\ Rank(u) < Top + 1 - v /\ Rank(u) <= Rank(x)
        /\ Rank(w) < Top + 1 - v /\ Rank(w) <= Rank(y)
        /\ Rank(x) = Top + 1 - v \/ Rank(y) = Top + 1 - v
    BY <1>1, CofactorsAt
  <1>5. Rank(u) + Rank(w) < Rank(x) + Rank(y)
    BY <1>1, <1>3, <1>4, TopExact
  <1>6. QED
    BY <1>2, <1>5, PairRanks DEF Pairs

LEMMA UnionStepExact ==
  ASSUME NEW call, NEW x \in Diagrams, NEW y \in Diagrams,
         \A p \in Pairs : PairRank(p) < PairRank(<<x, y>>)
                            => Is(call[p], Either(Family[p[1]], Family[p[2]]))
  PROVE  Is(UnionStep(call, x, y), Either(Family[x], Family[y]))
  <1> DEFINE A == Family[x]
             B == Family[y]
  <1>0. Is(x, A) /\ Is(y, B)
    BY Unique
  <1>1. CASE IsZero(x) \/ IsZero(y) \/ x = y
    <2>1. /\ IsZero(x) => UnionStep(call, x, y) = y /\ A = {}
          /\ IsZero(y) => UnionStep(call, x, y) \in {x, y} /\ B = {}
      BY FamilyParts DEF UnionStep, IsZero
    <2>2. x = y => UnionStep(call, x, y) = x
      BY DEF UnionStep
    <2>3. (IsZero(y) /\ ~IsZero(x)) => UnionStep(call, x, y) = x
      BY DEF UnionStep
    <2>4. QED
      BY <1>0, <1>1, <2>1, <2>2, <2>3 DEF Either
  <1>2. CASE ~IsZero(x) /\ ~IsZero(y) /\ x # y /\ IsOne(y)
    <2>1. UnionStep(call, x, y) = call[<<y, x>>]
      BY <1>2 DEF UnionStep
    <2>2. ~IsTerminal(x) /\ IsTerminal(y)
      BY <1>2 DEF IsTerminal, IsOne
    <2>3. Rank(y) < Rank(x)
      BY <2>2, DiagramParts, TopExact DEF Rank
    <2>4. <<y, x>> \in Pairs /\ PairRank(<<y, x>>) < PairRank(<<x, y>>)
      BY <2>3, PairRanks DEF Pairs
    <2>5. Is(call[<<y, x>>], Either(B, A))
      BY <2>4
    <2>6. QED
      BY <2>1, <2>5 DEF Either
  <1>3. CASE ~IsZero(x) /\ ~IsZero(y) /\ x # y /\ ~IsOne(y)
    <2>1. ~IsTerminal(y) /\ (IsTerminal(x) <=> IsOne(x))
      BY <1>3 DEF IsTerminal
    <2>2. PICK v : IsTop(v, x, y)
      BY <2>1, TopOfTwo
    <2> DEFINE lo == call[<<LoAt(v, x), LoAt(v, y)>>]
               hi == IF HiAt(v, y) = Zero THEN HiAt(v, x)
                     ELSE IF HiAt(v, x) = Zero THEN HiAt(v, y)
                     ELSE call[<<HiAt(v, x), HiAt(v, y)>>]
    <2>3. UnionStep(call, x, y) = GetNode(v, lo, hi)
      <3>1. CASE IsOne(x) \/ Val(x) > Val(y)
        <4>1. v = Val(y) /\ (~IsTerminal(x) => v # Val(x))
          BY <2>1, <2>2, <3>1 DEF IsTop
        <4>2. LoAt(v, x) = x /\ HiAt(v, x) = Zero /\ LoAt(v, y) = Lo(y) /\ HiAt(v, y) = Hi(y)
          BY <2>1, <4>1 DEF LoAt, HiAt
        <4>3. UnionStep(call, x, y) = GetNode(Val(y), call[<<x, Lo(y)>>], Hi(y))
          BY <1>3, <2>1, <2>2, <3>1 DEF UnionStep, IsTop
        <4>4. QED
          BY <4>1, <4>2, <4>3
      <3>2. CASE ~IsOne(x) /\ Val(x) < Val(y)
        <4>1. v = Val(x) /\ v # Val(y) /\ ~IsTerminal(x)
          BY <2>1, <2>2, <3>2 DEF IsTop
        <4>2. LoAt(v, x) = Lo(x) /\ HiAt(v, x) = Hi(x) /\ LoAt(v, y) = y /\ HiAt(v, y) = Zero
          BY <2>1, <4>1 DEF LoAt, HiAt
        <4>3. UnionStep(call, x, y) = GetNode(Val(x), call[<<Lo(x), y>>], Hi(x))
          BY <1>3, <2>1, <3>2 DEF UnionStep
        <4>4. QED
          BY <4>1, <4>2, <4>3
      <3>3. CASE ~IsOne(x) /\ ~(Val(x) > Val(y)) /\ ~(Val(x) < Val(y))
        <4>1. v = Val(x) /\ v = Val(y) /\ ~IsTerminal(x)
          BY <2>1, <2>2, <3>3 DEF IsTop
        <4>2. LoAt(v, x) = Lo(x) /\ HiAt(v, x) = Hi(x) /\ LoAt(v, y) = Lo(y) /\ HiAt(v, y) = Hi(y)
          BY <2>1, <4>1 DEF LoAt, HiAt
        <4>3. Hi(x) # Zero /\ Hi(y) # Zero
          BY <2>1, <4>1, DiagramParts
        <4>4. UnionStep(call, x, y) = GetNode(Val(x), call[<<Lo(x), Lo(y)>>], call[<<Hi(x), Hi(y)>>])
          BY <1>3, <2>1, <3>3 DEF UnionStep
        <4>5. QED
          BY <4>1, <4>2, <4>3, <4>4
      <3>4. QED
        BY <3>1, <3>2, <3>3
    <2>4. /\ <<LoAt(v, x), LoAt(v, y)>> \in Pairs /\ <<HiAt(v, x), HiAt(v, y)>> \in Pairs
          /\ PairRank(<<LoAt(v, x), LoAt(v, y)>>) < PairRank(<<x, y>>)
          /\ PairRank(<<HiAt(v, x), HiAt(v, y)>>) < PairRank(<<x, y>>)
      BY <2>2, TopRanks
    <2>0. v \in Elements /\ x \in From(v) /\ y \in From(v)
      BY <2>2 DEF IsTop
    <2>5. Is(lo, Either(Off(v, A), Off(v, B)))
      BY <2>0, <2>4, CofactorsAt
    <2>6. Is(hi, Either(On(v, A), On(v, B)))
      <3>1. HiAt(v, x) = Zero => On(v, A) = {}
        BY <2>0, CofactorsAt, FamilyParts
      <3>2. HiAt(v, y) = Zero => On(v, B) = {}
        BY <2>0, CofactorsAt, FamilyParts
      <3>3. Is(HiAt(v, x), On(v, A)) /\ Is(HiAt(v, y), On(v, B))
        BY <2>0, CofactorsAt
      <3>4. Is(call[<<HiAt(v, x), HiAt(v, y)>>], Either(On(v, A), On(v, B)))
        BY <2>0, <2>4, CofactorsAt
      <3>5. QED
        BY <3>1, <3>2, <3>3, <3>4 DEF Either
    <2>7. Either(A, B) \in SUBSET AtLeast(v)
      BY <2>0, CofactorsAt, AtLeastSets
    <2>8. Is(GetNode(v, lo, hi), Either(A, B))
      <3> HIDE DEF lo, hi, A, B
      <3>1. Is(lo, Off(v, Either(A, B))) /\ Is(hi, On(v, Either(A, B)))
        BY <2>5, <2>6, CofactorsOfSets
      <3>2. QED
        BY <2>0, <2>7, <3>1, IsByCofactors
    <2>9. QED
      BY <2>3, <2>8
  <1>4. QED
    BY <1>1, <1>2, <1>3

LEMMA PairInduction ==
  ASSUME NEW S,
         \A p \in Pairs : (\A q \in Pairs : PairRank(q) < PairRank(p) => q \in S) => p \in S
  PROVE  Pairs \subseteq S
  <1> DEFINE rank == [p \in Pairs |-> PairRank(p)]
  <1>1. rank \in [Pairs -> Nat]
    BY PairRanks
  <1>2. \A p \in Pairs : (\A q \in Pairs : rank[q] < rank[p] => q \in S) => p \in S
    OBVIOUS
  <1> HIDE DEF rank
  <1>3. QED
    BY <1>1, <1>2, RankInduction

LEMMA PairParts == \A p \in Pairs : p[1] \in Diagrams /\ p[2] \in Diagrams /\ p = <<p[1], p[2]>>
  BY DEF Pairs

IsUnion(u) == u = [p \in Pairs |-> UnionStep(u, p[1], p[2])]

\* union
LEMMA UnionExact ==
  \A x, y \in Diagrams : Is(Union[<<x, y>>], Either(Family[x], Family[y]))
  <1> DEFINE A(p) == Either(Family[p[1]], Family[p[2]])
             S == [p \in Pairs |-> Diagram(A(p))]
             Good == {p \in Pairs : Is(Union[p], A(p))}
  <1>1. \A p \in Pairs : A(p) \in Families
    BY PairParts, FamilyOver, FamiliesSets
  <1>2. ASSUME NEW u, NEW p \in Pairs,
               \A q \in Pairs : PairRank(q) < PairRank(p) => Is(u[q], A(q))
        PROVE  Is(UnionStep(u, p[1], p[2]), A(p))
    BY <1>2, PairParts, UnionStepExact
  <1> HIDE DEF A
  <1>3. \A p \in Pairs : Is(S[p], A(p)) /\ S[p] = UnionStep(S, p[1], p[2])
    <2>1. \A p \in Pairs : Is(S[p], A(p))
      BY <1>1, Unique
    <2> HIDE DEF S
    <2>2. QED
      BY <1>1, <1>2, <2>1, Unique
  <1>4. IsUnion(S)
    BY <1>3 DEF IsUnion
  <1>5. IsUnion(Union)
    <2> HIDE DEF S
    <2>1. QED
      BY <1>4 DEF Union, IsUnion
  <1>6. Pairs \subseteq Good
    <2>1. \A p \in Pairs : Union[p] = UnionStep(Union, p[1], p[2])
      BY <1>5 DEF IsUnion
    <2>2. ASSUME NEW p \in Pairs, \A q \in Pairs : PairRank(q) < PairRank(p) => q \in Good
          PROVE  p \in Good
      BY <1>2, <2>1, <2>2
    <2> HIDE DEF Good
    <2>3. QED
      BY <2>2, PairInduction
  <1>7. QED
    BY <1>6, PairParts DEF Pairs, A

-----------------------------------------------------------------------------
(***************************************************************************)
(* contains_empty_set                                                      *)
(***************************************************************************)
IsContainsEmptySet(u) == u = [z \in Diagrams |-> ContainsEmptySetStep(u, z)]

LEMMA ContainsEmptySetExact ==
  \A z \in Diagrams : ContainsEmptySet[z] = ({} \in Family[z])
  <1> DEFINE S == [z \in Diagrams |-> {} \in Family[z]]
             Good == {z \in Diagrams : ContainsEmptySet[z] = S[z]}
  <1>1. ASSUME NEW u, NEW z \in Diagrams,
               ~IsTerminal(z) => \A y \in Above(Val(z)) : u[y] = S[y]
        PROVE  ContainsEmptySetStep(u, z) = S[z]
    <2>1. CASE IsTerminal(z)
      <3>1. S[z] = IsOne(z)
        BY <2>1, FamilyParts, TerminalDiagrams DEF IsTerminal, IsZero, IsOne
      <3>2. ContainsEmptySetStep(u, z) = IsOne(z)
        BY <2>1 DEF ContainsEmptySetStep
      <3>3. QED
        BY <3>1, <3>2
    <2>2. CASE ~IsTerminal(z)
      <3>1. ContainsEmptySetStep(u, z) = S[Lo(z)]
        BY <1>1, <2>2, DiagramParts DEF ContainsEmptySetStep
      <3>2. {} \in Family[z] <=> {} \in Family[Lo(z)]
        BY <2>2, FamilyParts DEF With
      <3>3. S[z] = S[Lo(z)]
        BY <2>2, <3>2, DiagramParts
      <3>4. QED
        BY <3>1, <3>3
    <2>3. QED
      BY <2>1, <2>2
  <1>2. \A z \in Diagrams : \A y \in Above(Val(z)) : y \in Diagrams
    BY DEF Above
  <1>3. S = [z \in Diagrams |-> S[z]]
    OBVIOUS
  <1>4. \A z \in Diagrams : S[z] = ({} \in Family[z])
    OBVIOUS
  <1> HIDE DEF S
  <1>5. IsContainsEmptySet(S)
    BY <1>1, <1>3 DEF IsContainsEmptySet
  <1>6. IsContainsEmptySet(ContainsEmptySet)
    BY <1>5 DEF ContainsEmptySet, IsContainsEmptySet
  <1>7. \A z \in Diagrams : ContainsEmptySet[z] = ContainsEmptySetStep(ContainsEmptySet, z)
    BY <1>6 DEF IsContainsEmptySet
  <1>8. Zero \in Good /\ One \in Good
    BY <1>1, <1>7, TerminalDiagrams
  <1>9. ASSUME NEW z \in Diagrams, ~IsTerminal(z), \A y \in Above(Val(z)) : y \in Good
        PROVE  z \in Good
    BY <1>1, <1>7, <1>9
  <1>10. Diagrams \subseteq Good
    <2> HIDE DEF Good
    <2>1. QED
      BY <1>8, <1>9, DiagramInduction
  <1>11. QED
    BY <1>4, <1>10

-----------------------------------------------------------------------------
(***************************************************************************)
(* intersect                                                               *)
(***************************************************************************)
\* Without a set that has v, there are only those without v.
LEMMA OffOnly ==
  ASSUME NEW v, NEW A, On(v, A) = {}
  PROVE  Off(v, A) = A
  <1>1. \A s \in A : v \notin s
    BY DEF On
  <1>2. QED
    BY <1>1 DEF Off

LEMMA SetsOfEmpty ==
  ASSUME NEW A
  PROVE  /\ Both(A, {}) = {} /\ Both({}, A) = {} /\ Both(A, A) = A
         /\ Less(A, {}) = A /\ Less({}, A) = {} /\ Less(A, A) = {}
         /\ Either(A, {}) = A /\ Either({}, A) = A /\ Either(A, A) = A
  BY DEF Both, Less, Either

LEMMA SetsCommute ==
  ASSUME NEW A, NEW B
  PROVE  Both(A, B) = Both(B, A) /\ Either(A, B) = Either(B, A)
  BY DEF Both, Either

LEMMA IntersectStepExact ==
  ASSUME NEW call, NEW x \in Diagrams, NEW y \in Diagrams,
         \A p \in Pairs : PairRank(p) < PairRank(<<x, y>>)
                            => Is(call[p], Both(Family[p[1]], Family[p[2]]))
  PROVE  Is(IntersectStep(call, x, y), Both(Family[x], Family[y]))
  <1> DEFINE A == Family[x]
             B == Family[y]
  <1>0. Is(x, A) /\ Is(y, B)
    BY Unique
  <1>1. CASE IsZero(x) \/ IsZero(y) \/ x = y
    <2>1. IsZero(x) \/ IsZero(y) => IntersectStep(call, x, y) = Zero /\ (A = {} \/ B = {})
      BY FamilyParts DEF IntersectStep, IsZero
    <2>2. x = y => IntersectStep(call, x, y) = IF IsZero(x) \/ IsZero(y) THEN Zero ELSE x
      BY DEF IntersectStep
    <2>3. QED
      BY <1>0, <1>1, <2>1, <2>2, SetsOfEmpty, TerminalsAre
  <1>2. CASE ~IsZero(x) /\ ~IsZero(y) /\ x # y /\ IsOne(y)
    <2>1. IntersectStep(call, x, y) = call[<<y, x>>]
      BY <1>2 DEF IntersectStep
    <2>2. ~IsTerminal(x) /\ IsTerminal(y)
      BY <1>2 DEF IsTerminal, IsOne
    <2>3. Rank(y) < Rank(x)
      BY <2>2, DiagramParts, TopExact DEF Rank
    <2>4. <<y, x>> \in Pairs /\ PairRank(<<y, x>>) < PairRank(<<x, y>>)
      BY <2>3, PairRanks DEF Pairs
    <2>5. Is(call[<<y, x>>], Both(B, A))
      BY <2>4
    <2>6. QED
      BY <2>1, <2>5, SetsCommute
  <1>3. CASE ~IsZero(x) /\ ~IsZero(y) /\ x # y /\ ~IsOne(y) /\ IsOne(x)
    <2>1. IntersectStep(call, x, y) = IF {} \in B THEN x ELSE Zero
      BY <1>3, ContainsEmptySetExact DEF IntersectStep
    <2>2. A = {{}}
      BY <1>0, <1>3, IsTerminals
    <2>3. /\ {} \in B => Both(A, B) = A
          /\ {} \notin B => Both(A, B) = {}
      BY <2>2 DEF Both
    <2>4. QED
      BY <1>0, <2>1, <2>3, TerminalsAre
  <1>4. CASE ~IsZero(x) /\ ~IsZero(y) /\ x # y /\ ~IsOne(y) /\ ~IsOne(x)
    <2>1. ~IsTerminal(y) /\ ~IsTerminal(x)
      BY <1>4 DEF IsTerminal
    <2>2. PICK v : IsTop(v, x, y)
      BY <2>1, TopOfTwo
    <2>3. v \in Elements /\ x \in From(v) /\ y \in From(v)
      BY <2>2 DEF IsTop
    <2> DEFINE lo == call[<<LoAt(v, x), LoAt(v, y)>>]
               hi == call[<<HiAt(v, x), HiAt(v, y)>>]
               C  == Both(A, B)
    <2>11. /\ <<LoAt(v, x), LoAt(v, y)>> \in Pairs /\ <<HiAt(v, x), HiAt(v, y)>> \in Pairs
           /\ PairRank(<<LoAt(v, x), LoAt(v, y)>>) < PairRank(<<x, y>>)
           /\ PairRank(<<HiAt(v, x), HiAt(v, y)>>) < PairRank(<<x, y>>)
      BY <2>2, TopRanks
    <2>4. Is(lo, Off(v, C)) /\ Is(hi, On(v, C))
      <3>1. Is(lo, Both(Off(v, A), Off(v, B))) /\ Is(hi, Both(On(v, A), On(v, B)))
        BY <2>3, <2>11, CofactorsAt
      <3> HIDE DEF lo, hi, A, B
      <3>2. QED
        BY <3>1, CofactorsOfSets
    <2>5. On(v, C) = Both(On(v, A), On(v, B))
      <3> HIDE DEF A, B
      <3>1. QED
        BY CofactorsOfSets
    <2>6. CASE Val(x) = Val(y)
      <3>1. v = Val(x)
        BY <2>1, <2>2, <2>6 DEF IsTop
      <3>2. IntersectStep(call, x, y) = GetNode(v, lo, hi)
        BY <1>4, <2>1, <2>6, <3>1, DiagramParts DEF IntersectStep, LoAt, HiAt
      <3>3. C \in SUBSET AtLeast(v)
        BY <2>3, CofactorsAt, AtLeastSets
      <3> HIDE DEF lo, hi, C
      <3>4. QED
        BY <2>3, <2>4, <3>2, <3>3, IsByCofactors DEF C
    <2>7. CASE Val(x) # Val(y)
      <3>1. \/ v = Val(x) /\ v # Val(y) /\ Val(x) < Val(y) /\ LoAt(v, x) = Lo(x)
                 /\ LoAt(v, y) = y /\ HiAt(v, y) = Zero
            \/ v = Val(y) /\ v # Val(x) /\ Val(x) > Val(y) /\ LoAt(v, y) = Lo(y)
                 /\ LoAt(v, x) = x /\ HiAt(v, x) = Zero
        BY <2>1, <2>2, <2>7, DiagramParts DEF IsTop, LoAt, HiAt
      <3>2. IntersectStep(call, x, y) = lo
        BY <1>4, <2>1, <3>1, DiagramParts DEF IntersectStep
      <3>3. On(v, A) = {} \/ On(v, B) = {}
        BY <2>3, <3>1, CofactorsAt, FamilyParts
      <3>4. On(v, C) = {}
        BY <2>5, <3>3, SetsOfEmpty
      <3> HIDE DEF lo, C
      <3>5. QED
        BY <2>4, <3>2, <3>4, OffOnly DEF C
    <2>8. QED
      BY <2>6, <2>7
  <1>5. QED
    BY <1>1, <1>2, <1>3, <1>4

IsIntersect(u) == u = [p \in Pairs |-> IntersectStep(u, p[1], p[2])]

\* intersect
LEMMA IntersectExact ==
  \A x, y \in Diagrams : Is(Intersect[<<x, y>>], Both(Family[x], Family[y]))
  <1> DEFINE A(p) == Both(Family[p[1]], Family[p[2]])
             S == [p \in Pairs |-> Diagram(A(p))]
             Good == {p \in Pairs : Is(Intersect[p], A(p))}
  <1>1. \A p \in Pairs : A(p) \in Families
    BY PairParts, FamilyOver, FamiliesSets
  <1>2. ASSUME NEW u, NEW p \in Pairs,
               \A q \in Pairs : PairRank(q) < PairRank(p) => Is(u[q], A(q))
        PROVE  Is(IntersectStep(u, p[1], p[2]), A(p))
    BY <1>2, PairParts, IntersectStepExact
  <1> HIDE DEF A
  <1>3. \A p \in Pairs : Is(S[p], A(p)) /\ S[p] = IntersectStep(S, p[1], p[2])
    <2>1. \A p \in Pairs : Is(S[p], A(p))
      BY <1>1, Unique
    <2> HIDE DEF S
    <2>2. QED
      BY <1>1, <1>2, <2>1, Unique
  <1>4. IsIntersect(S)
    BY <1>3 DEF IsIntersect
  <1>5. IsIntersect(Intersect)
    <2> HIDE DEF S
    <2>1. QED
      BY <1>4 DEF Intersect, IsIntersect
  <1>6. Pairs \subseteq Good
    <2>1. \A p \in Pairs : Intersect[p] = IntersectStep(Intersect, p[1], p[2])
      BY <1>5 DEF IsIntersect
    <2>2. ASSUME NEW p \in Pairs, \A q \in Pairs : PairRank(q) < PairRank(p) => q \in Good
          PROVE  p \in Good
      BY <1>2, <2>1, <2>2
    <2> HIDE DEF Good
    <2>3. QED
      BY <2>2, PairInduction
  <1>7. QED
    BY <1>6, PairParts DEF Pairs, A

-----------------------------------------------------------------------------
(***************************************************************************)
(* difference                                                              *)
(***************************************************************************)
LEMMA DifferenceStepExact ==
  ASSUME NEW call, NEW x \in Diagrams, NEW y \in Diagrams,
         \A p \in Pairs : PairRank(p) < PairRank(<<x, y>>)
                            => Is(call[p], Less(Family[p[1]], Family[p[2]]))
  PROVE  Is(DifferenceStep(call, x, y), Less(Family[x], Family[y]))
  <1> DEFINE A == Family[x]
             B == Family[y]
  <1>0. Is(x, A) /\ Is(y, B)
    BY Unique
  <1>1. CASE IsZero(x) \/ x = y
    <2>1. DifferenceStep(call, x, y) = Zero
      BY <1>1 DEF DifferenceStep
    <2>2. A = {} \/ A = B
      BY <1>1, FamilyParts DEF IsZero
    <2>3. QED
      BY <2>1, <2>2, SetsOfEmpty, TerminalsAre
  <1>2. CASE ~IsZero(x) /\ x # y /\ IsZero(y)
    <2>1. DifferenceStep(call, x, y) = x /\ B = {}
      BY <1>2, FamilyParts DEF DifferenceStep, IsZero
    <2>2. QED
      BY <1>0, <2>1, SetsOfEmpty
  <1>3. CASE ~IsZero(x) /\ ~IsZero(y) /\ x # y
    <2>1. ~IsTerminal(x) \/ ~IsTerminal(y)
      BY <1>3 DEF IsTerminal, IsZero, IsOne
    <2>2. PICK v : IsTop(v, x, y)
      BY <2>1, TopOfTwo
    <2>3. v \in Elements /\ x \in From(v) /\ y \in From(v)
      BY <2>2 DEF IsTop
    <2> DEFINE lo == call[<<LoAt(v, x), LoAt(v, y)>>]
               hi == IF HiAt(v, y) = Zero THEN HiAt(v, x)
                     ELSE call[<<HiAt(v, x), HiAt(v, y)>>]
               C  == Less(A, B)
    <2>11. /\ <<LoAt(v, x), LoAt(v, y)>> \in Pairs /\ <<HiAt(v, x), HiAt(v, y)>> \in Pairs
           /\ PairRank(<<LoAt(v, x), LoAt(v, y)>>) < PairRank(<<x, y>>)
           /\ PairRank(<<HiAt(v, x), HiAt(v, y)>>) < PairRank(<<x, y>>)
      BY <2>2, TopRanks
    <2>4. Is(lo, Less(Off(v, A), Off(v, B)))
      BY <2>3, <2>11, CofactorsAt
    <2>5. Is(hi, Less(On(v, A), On(v, B)))
      <3>1. HiAt(v, y) = Zero => On(v, B) = {}
        BY <2>3, CofactorsAt, FamilyParts
      <3>2. Is(HiAt(v, x), On(v, A))
        BY <2>3, CofactorsAt
      <3>3. Is(call[<<HiAt(v, x), HiAt(v, y)>>], Less(On(v, A), On(v, B)))
        BY <2>3, <2>11, CofactorsAt
      <3>4. QED
        BY <3>1, <3>2, <3>3, SetsOfEmpty
    <2>6. Is(lo, Off(v, C)) /\ Is(hi, On(v, C))
      <3> HIDE DEF lo, hi, A, B
      <3>1. QED
        BY <2>4, <2>5, CofactorsOfSets
    <2>7. CASE ~IsTerminal(x) /\ v = Val(x)
      <3>1. DifferenceStep(call, x, y) = GetNode(v, lo, hi)
        <4>1. CASE IsTerminal(y)
          <5>1. IsOne(y) /\ ~IsOne(x) /\ LoAt(v, y) = y /\ HiAt(v, y) = Zero
                  /\ LoAt(v, x) = Lo(x) /\ HiAt(v, x) = Hi(x)
            BY <1>3, <2>7, <4>1 DEF IsTerminal, LoAt, HiAt
          <5>2. QED
            BY <1>3, <2>7, <5>1 DEF DifferenceStep
        <4>2. CASE ~IsTerminal(y) /\ Val(y) = v
          <5>1. ~IsOne(y) /\ ~IsOne(x) /\ LoAt(v, y) = Lo(y) /\ HiAt(v, y) = Hi(y)
                  /\ LoAt(v, x) = Lo(x) /\ HiAt(v, x) = Hi(x) /\ Hi(y) # Zero /\ v \in Nat
            BY <1>3, <2>7, <4>2, DiagramParts DEF IsTerminal, LoAt, HiAt
          <5>2. QED
            BY <1>3, <2>7, <4>2, <5>1 DEF DifferenceStep
        <4>3. CASE ~IsTerminal(y) /\ Val(y) # v
          <5>1. ~IsOne(y) /\ ~IsOne(x) /\ LoAt(v, y) = y /\ HiAt(v, y) = Zero
                  /\ LoAt(v, x) = Lo(x) /\ HiAt(v, x) = Hi(x) /\ Val(x) < Val(y)
            BY <1>3, <2>2, <2>7, <4>3, DiagramParts DEF IsTerminal, LoAt, HiAt, IsTop
          <5>2. QED
            BY <1>3, <2>7, <4>3, <5>1 DEF DifferenceStep
        <4>4. QED
          BY <4>1, <4>2, <4>3
      <3>2. C \in SUBSET AtLeast(v)
        BY <2>3, CofactorsAt, AtLeastSets
      <3> HIDE DEF lo, hi, C
      <3>3. QED
        BY <2>3, <2>6, <3>1, <3>2, IsByCofactors DEF C
    <2>8. CASE IsTerminal(x) \/ v # Val(x)
      <3>1. ~IsTerminal(y) /\ v = Val(y) /\ LoAt(v, x) = x /\ HiAt(v, x) = Zero
              /\ LoAt(v, y) = Lo(y) /\ (~IsTerminal(x) => Val(x) > Val(y))
        BY <2>2, <2>8, DiagramParts DEF IsTop, LoAt, HiAt
      <3>2. DifferenceStep(call, x, y) = lo
        <4>1. CASE IsOne(x)
          BY <1>3, <3>1, <4>1 DEF DifferenceStep
        <4>2. CASE ~IsOne(x)
          <5>1. ~IsTerminal(x) /\ ~IsOne(y)
            BY <1>3, <3>1, <4>2 DEF IsTerminal
          <5>2. ~(Val(x) < Val(y)) /\ Val(x) > Val(y)
            BY <3>1, <5>1, DiagramParts
          <5>3. QED
            BY <1>3, <3>1, <4>2, <5>1, <5>2 DEF DifferenceStep
        <4>3. QED
          BY <4>1, <4>2
      <3>3. On(v, A) = {}
        BY <2>3, <3>1, CofactorsAt, FamilyParts
      <3>4. On(v, C) = {}
        <4>1. On(v, C) = Less(On(v, A), On(v, B))
          <5> HIDE DEF A, B
          <5>1. QED
            BY CofactorsOfSets
        <4>2. QED
          BY <3>3, <4>1, SetsOfEmpty
      <3> HIDE DEF lo, C
      <3>5. QED
        BY <2>6, <3>2, <3>4, OffOnly DEF C
    <2>9. QED
      BY <2>7, <2>8
  <1>4. QED
    BY <1>1, <1>2, <1>3

IsDifference(u) == u = [p \in Pairs |-> DifferenceStep(u, p[1], p[2])]

\* difference
LEMMA DifferenceExact ==
  \A x, y \in Diagrams : Is(Difference[<<x, y>>], Less(Family[x], Family[y]))
  <1> DEFINE A(p) == Less(Family[p[1]], Family[p[2]])
             S == [p \in Pairs |-> Diagram(A(p))]
             Good == {p \in Pairs : Is(Difference[p], A(p))}
  <1>1. \A p \in Pairs : A(p) \in Families
    BY PairParts, FamilyOver, FamiliesSets
  <1>2. ASSUME NEW u, NEW p \in Pairs,
               \A q \in Pairs : PairRank(q) < PairRank(p) => Is(u[q], A(q))
        PROVE  Is(DifferenceStep(u, p[1], p[2]), A(p))
    BY <1>2, PairParts, DifferenceStepExact
  <1> HIDE DEF A
  <1>3. \A p \in Pairs : Is(S[p], A(p)) /\ S[p] = DifferenceStep(S, p[1], p[2])
    <2>1. \A p \in Pairs : Is(S[p], A(p))
      BY <1>1, Unique
    <2> HIDE DEF S
    <2>2. QED
      BY <1>1, <1>2, <2>1, Unique
  <1>4. IsDifference(S)
    BY <1>3 DEF IsDifference
  <1>5. IsDifference(Difference)
    <2> HIDE DEF S
    <2>1. QED
      BY <1>4 DEF Difference, IsDifference
  <1>6. Pairs \subseteq Good
    <2>1. \A p \in Pairs : Difference[p] = DifferenceStep(Difference, p[1], p[2])
      BY <1>5 DEF IsDifference
    <2>2. ASSUME NEW p \in Pairs, \A q \in Pairs : PairRank(q) < PairRank(p) => q \in Good
          PROVE  p \in Good
      BY <1>2, <2>1, <2>2
    <2> HIDE DEF Good
    <2>3. QED
      BY <2>2, PairInduction
  <1>7. QED
    BY <1>6, PairParts DEF Pairs, A

-----------------------------------------------------------------------------
(***************************************************************************)
(* One value                                                               *)
(***************************************************************************)
Flip(w, s)   == IF w \in s THEN s \ {w} ELSE s \cup {w}
Toggle(w, A) == {Flip(w, s) : s \in A}

LEMMA OffMembers ==
  ASSUME NEW v, NEW A, NEW s
  PROVE  s \in Off(v, A) <=> v \notin s /\ s \in A
  BY DEF Off

LEMMA WithMembers ==
  ASSUME NEW w, NEW A, NEW s
  PROVE  s \in With(w, A) <=> w \in s /\ (s \in A \/ s \ {w} \in A)
  <1>1. ASSUME s \in With(w, A) PROVE w \in s /\ (s \in A \/ s \ {w} \in A)
    <2>1. PICK t \in A : s = t \cup {w}
      BY <1>1 DEF With
    <2>2. s = t \/ s \ {w} = t
      BY <2>1
    <2>3. QED
      BY <2>1, <2>2
  <1>2. ASSUME w \in s, s \in A \/ s \ {w} \in A PROVE s \in With(w, A)
    <2>1. s = s \cup {w} /\ s = (s \ {w}) \cup {w}
      BY <1>2
    <2>2. QED
      BY <1>2, <2>1 DEF With
  <1>3. QED
    BY <1>1, <1>2

LEMMA ToggleMembers ==
  ASSUME NEW w, NEW A, NEW s
  PROVE  /\ w \in s => (s \in Toggle(w, A) <=> s \ {w} \in A)
         /\ w \notin s => (s \in Toggle(w, A) <=> s \cup {w} \in A)
  <1>1. \A t : (s = Flip(w, t) <=> t = Flip(w, s))
    <2>1. ASSUME NEW t, NEW u, t = Flip(w, u) PROVE u = Flip(w, t)
      <3>1. CASE w \in u
        <4>1. t = u \ {w} /\ w \notin t
          BY <2>1, <3>1 DEF Flip
        <4>2. Flip(w, t) = t \cup {w}
          BY <4>1 DEF Flip
        <4>3. QED
          BY <3>1, <4>1, <4>2
      <3>2. CASE w \notin u
        <4>1. t = u \cup {w} /\ w \in t
          BY <2>1, <3>2 DEF Flip
        <4>2. Flip(w, t) = t \ {w}
          BY <4>1 DEF Flip
        <4>3. QED
          BY <3>2, <4>1, <4>2
      <3>3. QED
        BY <3>1, <3>2
    <2>2. QED
      BY <2>1
  <1>2. s \in Toggle(w, A) <=> Flip(w, s) \in A
    BY <1>1 DEF Toggle
  <1>3. /\ w \in s => Flip(w, s) = s \ {w}
        /\ w \notin s => Flip(w, s) = s \cup {w}
    BY DEF Flip
  <1>4. QED
    BY <1>2, <1>3

\* The cofactors by one value of what is made with another.
LEMMA CofactorsCommute ==
  ASSUME NEW v, NEW w, v # w, NEW A
  PROVE  /\ Off(v, Off(w, A)) = Off(w, Off(v, A)) /\ On(v, Off(w, A)) = Off(w, On(v, A))
         /\ Off(v, On(w, A)) = On(w, Off(v, A)) /\ On(v, On(w, A)) = On(w, On(v, A))
         /\ Off(v, With(w, A)) = With(w, Off(v, A)) /\ On(v, With(w, A)) = With(w, On(v, A))
         /\ Off(v, Toggle(w, A)) = Toggle(w, Off(v, A)) /\ On(v, Toggle(w, A)) = Toggle(w, On(v, A))
  <1>1. ASSUME NEW s
        PROVE  /\ s \in Off(v, Off(w, A)) <=> s \in Off(w, Off(v, A))
               /\ s \in On(v, Off(w, A)) <=> s \in Off(w, On(v, A))
               /\ s \in Off(v, On(w, A)) <=> s \in On(w, Off(v, A))
               /\ s \in On(v, On(w, A)) <=> s \in On(w, On(v, A))
               /\ s \in Off(v, With(w, A)) <=> s \in With(w, Off(v, A))
               /\ s \in On(v, With(w, A)) <=> s \in With(w, On(v, A))
               /\ s \in Off(v, Toggle(w, A)) <=> s \in Toggle(w, Off(v, A))
               /\ s \in On(v, Toggle(w, A)) <=> s \in Toggle(w, On(v, A))
    <2> DEFINE sv  == s \cup {v}
               sw  == s \cup {w}
               svw == sv \cup {w}
               lw  == s \ {w}
               lwv == lw \cup {v}
    <2>1. \A C : /\ s \in On(v, C) <=> v \notin s /\ sv \in C
                 /\ s \in On(w, C) <=> w \notin s /\ sw \in C
                 /\ sw \in On(v, C) <=> v \notin sw /\ svw \in C
                 /\ sv \in On(w, C) <=> w \notin sv /\ svw \in C
                 /\ lw \in On(v, C) <=> v \notin lw /\ lwv \in C
      <3>1. sw \cup {v} = svw
        OBVIOUS
      <3> HIDE DEF sv, sw, svw, lw, lwv
      <3>2. \A C : /\ s \in On(v, C) <=> v \notin s /\ s \cup {v} \in C
                   /\ s \in On(w, C) <=> w \notin s /\ s \cup {w} \in C
                   /\ sw \in On(v, C) <=> v \notin sw /\ sw \cup {v} \in C
                   /\ sv \in On(w, C) <=> w \notin sv /\ sv \cup {w} \in C
                   /\ lw \in On(v, C) <=> v \notin lw /\ lw \cup {v} \in C
        BY OnMembers
      <3>3. QED
        BY <3>1, <3>2 DEF sv, sw, svw, lwv
    <2>2. \A C, t, x : t \in Off(x, C) <=> x \notin t /\ t \in C
      BY OffMembers
    <2>3. \A C : /\ s \in With(w, C) <=> w \in s /\ (s \in C \/ lw \in C)
                 /\ sv \in With(w, C) <=> w \in sv /\ (sv \in C \/ (w \in s /\ lwv \in C))
      <3>1. w \in s => sv \ {w} = lwv
        OBVIOUS
      <3>2. w \in sv => w \in s
        OBVIOUS
      <3>3. \A C : sv \in With(w, C) <=> w \in sv /\ (sv \in C \/ sv \ {w} \in C)
        <4> HIDE DEF sv
        <4>1. QED
          BY WithMembers
      <3>4. \A C : s \in With(w, C) <=> w \in s /\ (s \in C \/ lw \in C)
        BY WithMembers
      <3> HIDE DEF sv, lw, lwv
      <3>5. QED
        BY <3>1, <3>2, <3>3, <3>4
    <2>4. \A C : /\ s \in Toggle(w, C) <=> IF w \in s THEN lw \in C ELSE sw \in C
                 /\ sv \in Toggle(w, C) <=> IF w \in s THEN lwv \in C ELSE svw \in C
      <3>1. w \in s => w \in sv /\ sv \ {w} = lwv
        OBVIOUS
      <3>2. w \notin s => w \notin sv
        OBVIOUS
      <3>3. \A C : /\ w \in sv => (sv \in Toggle(w, C) <=> sv \ {w} \in C)
                   /\ w \notin sv => (sv \in Toggle(w, C) <=> svw \in C)
        <4> HIDE DEF sv
        <4>1. QED
          BY ToggleMembers
      <3>4. \A C : /\ w \in s => (s \in Toggle(w, C) <=> lw \in C)
                   /\ w \notin s => (s \in Toggle(w, C) <=> sw \in C)
        BY ToggleMembers
      <3> HIDE DEF sv, sw, svw, lw, lwv
      <3>5. QED
        BY <3>1, <3>2, <3>3, <3>4
    <2>5. /\ w \in sv <=> w \in s
          /\ v \in sw <=> v \in s
          /\ v \in lw <=> v \in s
      OBVIOUS
    <2> HIDE DEF sv, sw, svw, lw, lwv
    <2>6. QED
      BY <2>1, <2>2, <2>3, <2>4, <2>5
  <1>2. QED
    BY <1>1

\* Its cofactors by the value itself.
LEMMA CofactorsOfOne ==
  ASSUME NEW w, NEW A
  PROVE  /\ Off(w, Off(w, A)) = Off(w, A) /\ On(w, Off(w, A)) = {}
         /\ Off(w, On(w, A)) = On(w, A) /\ On(w, On(w, A)) = {}
         /\ Off(w, With(w, A)) = {} /\ On(w, With(w, A)) = Either(On(w, A), Off(w, A))
         /\ Off(w, Toggle(w, A)) = On(w, A) /\ On(w, Toggle(w, A)) = Off(w, A)
  <1>1. ASSUME NEW s
        PROVE  /\ s \in Off(w, Off(w, A)) <=> s \in Off(w, A)
               /\ s \notin On(w, Off(w, A))
               /\ s \in Off(w, On(w, A)) <=> s \in On(w, A)
               /\ s \notin On(w, On(w, A))
               /\ s \notin Off(w, With(w, A))
               /\ s \in On(w, With(w, A)) <=> s \in Either(On(w, A), Off(w, A))
               /\ s \in Off(w, Toggle(w, A)) <=> s \in On(w, A)
               /\ s \in On(w, Toggle(w, A)) <=> s \in Off(w, A)
    <2> DEFINE sw == s \cup {w}
    <2>1. w \in sw /\ (w \notin s => sw \ {w} = s)
      OBVIOUS
    <2>2. \A C : s \in On(w, C) <=> w \notin s /\ sw \in C
      BY OnMembers
    <2>3. \A C, t : t \in Off(w, C) <=> w \notin t /\ t \in C
      BY OffMembers
    <2>4. \A C : w \notin s => (s \in Toggle(w, C) <=> sw \in C)
      BY ToggleMembers
    <2>5. s \in Either(On(w, A), Off(w, A)) <=> s \in On(w, A) \/ s \in Off(w, A)
      BY DEF Either
    <2> HIDE DEF sw
    <2>6. \A C, t : t \in With(w, C) <=> w \in t /\ (t \in C \/ t \ {w} \in C)
      BY WithMembers
    <2>7. \A C : w \notin s => (sw \in Toggle(w, C) <=> sw \ {w} \in C)
      BY <2>1, ToggleMembers
    <2>8. w \notin s => (sw \in With(w, A) <=> sw \in A \/ s \in A)
      BY <2>1, <2>6
    <2>9. w \notin s => (sw \in Toggle(w, A) <=> s \in A)
      BY <2>1, <2>7
    <2>10. /\ s \in Off(w, Off(w, A)) <=> s \in Off(w, A)
           /\ s \notin On(w, Off(w, A))
           /\ s \in Off(w, On(w, A)) <=> s \in On(w, A)
           /\ s \notin On(w, On(w, A))
      <3>1. sw \notin Off(w, A)
        BY <2>1, <2>3
      <3>2. \A t : t \in On(w, A) => w \notin t
        BY OnMembers
      <3>3. sw \notin On(w, A)
        BY <2>1, <3>2
      <3>4. w \notin s => (s \in Off(w, On(w, A)) <=> s \in On(w, A))
        BY <2>3
      <3>5. w \in s => s \notin Off(w, On(w, A)) /\ s \notin On(w, A)
        BY <2>3, <3>2
      <3>6. s \notin On(w, Off(w, A)) /\ s \notin On(w, On(w, A))
        BY <2>2, <3>1, <3>3
      <3>7. s \in Off(w, Off(w, A)) <=> s \in Off(w, A)
        BY <2>3
      <3>8. QED
        BY <3>4, <3>5, <3>6, <3>7
    <2>11. s \notin Off(w, With(w, A))
      BY <2>3, <2>6
    <2>12. s \in On(w, With(w, A)) <=> s \in Either(On(w, A), Off(w, A))
      BY <2>2, <2>3, <2>5, <2>8
    <2>13. s \in Off(w, Toggle(w, A)) <=> s \in On(w, A)
      BY <2>2, <2>3, <2>4
    <2>14. s \in On(w, Toggle(w, A)) <=> s \in Off(w, A)
      BY <2>2, <2>3, <2>9
    <2>15. QED
      BY <2>10, <2>11, <2>12, <2>13, <2>14
  <1>2. QED
    BY <1>1

LEMMA AtLeastOne ==
  ASSUME NEW v \in Elements, NEW w \in Elements, w >= v, NEW A \in SUBSET AtLeast(v)
  PROVE  /\ Off(w, A) \in SUBSET AtLeast(v) /\ On(w, A) \in SUBSET AtLeast(v)
         /\ With(w, A) \in SUBSET AtLeast(v) /\ Toggle(w, A) \in SUBSET AtLeast(v)
  BY DEF AtLeast, Off, On, With, Toggle, Flip

LEMMA FamiliesOne ==
  ASSUME NEW w \in Elements, NEW A \in Families
  PROVE  /\ Off(w, A) \in Families /\ On(w, A) \in Families
         /\ With(w, A) \in Families /\ Toggle(w, A) \in Families
  BY DEF Families, Off, On, With, Toggle, Flip

LEMMA OfEmpty ==
  ASSUME NEW w
  PROVE  /\ Off(w, {}) = {} /\ On(w, {}) = {} /\ With(w, {}) = {} /\ Toggle(w, {}) = {}
  BY DEF Off, On, With, Toggle

LEMMA ElementInduction ==
  ASSUME NEW S,
         \A p \in ElementCalls :
           (\A q \in ElementCalls : Rank(q[1]) < Rank(p[1]) => q \in S) => p \in S
  PROVE  ElementCalls \subseteq S
  <1> DEFINE rank == [p \in ElementCalls |-> Rank(p[1])]
  <1>1. rank \in [ElementCalls -> Nat]
    BY Ranks DEF ElementCalls
  <1>2. \A p \in ElementCalls : (\A q \in ElementCalls : rank[q] < rank[p] => q \in S) => p \in S
    OBVIOUS
  <1> HIDE DEF rank
  <1>3. QED
    BY <1>1, <1>2, RankInduction

LEMMA ElementParts ==
  \A p \in ElementCalls : p[1] \in Diagrams /\ p[2] \in Elements /\ p = <<p[1], p[2]>>
  BY DEF ElementCalls

\* A node, and the calls on its children.
LEMMA NodeCalls ==
  ASSUME NEW x \in Diagrams, ~IsTerminal(x), NEW w \in Elements
  PROVE  /\ Val(x) \in Elements /\ Val(x) \in Nat /\ w \in Nat /\ x \in From(Val(x))
         /\ <<Lo(x), w>> \in ElementCalls /\ <<Hi(x), w>> \in ElementCalls
         /\ Rank(Lo(x)) < Rank(x) /\ Rank(Hi(x)) < Rank(x)
         /\ Off(Val(x), Family[x]) = Family[Lo(x)] /\ On(Val(x), Family[x]) = Family[Hi(x)]
         /\ Family[x] \in SUBSET AtLeast(Val(x))
         /\ LoAt(Val(x), x) = Lo(x) /\ HiAt(Val(x), x) = Hi(x)
         /\ Is(Lo(x), Off(Val(x), Family[x])) /\ Is(Hi(x), On(Val(x), Family[x]))
  <1>1. Val(x) \in Elements /\ Val(x) \in Nat /\ w \in Nat /\ x \in From(Val(x))
          /\ Lo(x) \in Diagrams /\ Hi(x) \in Diagrams
    BY DiagramParts, TopExact DEF From
  <1>2. LoAt(Val(x), x) = Lo(x) /\ HiAt(Val(x), x) = Hi(x)
    BY DEF LoAt, HiAt
  <1>3. /\ Rank(Lo(x)) < Top + 1 - Val(x) /\ Rank(Hi(x)) < Top + 1 - Val(x)
        /\ Rank(x) = Top + 1 - Val(x)
        /\ Off(Val(x), Family[x]) = Family[Lo(x)] /\ On(Val(x), Family[x]) = Family[Hi(x)]
        /\ Is(Lo(x), Off(Val(x), Family[x])) /\ Is(Hi(x), On(Val(x), Family[x]))
        /\ Family[x] \in SUBSET AtLeast(Val(x))
    BY <1>1, <1>2, CofactorsAt
  <1>4. QED
    BY <1>1, <1>2, <1>3 DEF ElementCalls

\* A diagram that starts at w or after it.
LEMMA FromValue ==
  ASSUME NEW x \in Diagrams, NEW w \in Elements, IsTerminal(x) \/ Val(x) >= w
  PROVE  /\ x \in From(w) /\ Family[x] \in SUBSET AtLeast(w)
         /\ Is(LoAt(w, x), Off(w, Family[x])) /\ Is(HiAt(w, x), On(w, Family[x]))
         /\ LoAt(w, x) \in Diagrams /\ HiAt(w, x) \in Diagrams
         /\ Family[LoAt(w, x)] = Off(w, Family[x]) /\ Family[HiAt(w, x)] = On(w, Family[x])
  BY CofactorsAt DEF From

\* offset
LEMMA OffsetStepExact ==
  ASSUME NEW call, NEW x \in Diagrams, NEW w \in Elements,
         \A q \in ElementCalls : Rank(q[1]) < Rank(x)
                                   => Is(call[q], Off(q[2], Family[q[1]]))
  PROVE  Is(OffsetStep(call, x, w), Off(w, Family[x]))
  <1> DEFINE A == Family[x]
  <1>1. Is(x, A)
    BY Unique
  <1>2. CASE IsTerminal(x) \/ Val(x) >= w
    <2>1. Is(LoAt(w, x), Off(w, A))
      BY <1>2, FromValue
    <2>2. OffsetStep(call, x, w) = LoAt(w, x)
      BY <1>2, NodeCalls DEF OffsetStep, LoAt
    <2>3. QED
      BY <2>1, <2>2
  <1>4. CASE ~IsTerminal(x) /\ Val(x) < w
    <2> DEFINE v == Val(x)
    <2>1. OffsetStep(call, x, w) = GetNode(v, call[<<Lo(x), w>>], call[<<Hi(x), w>>])
      BY <1>4, NodeCalls DEF OffsetStep, IsTerminal
    <2>2. v # w /\ w >= v /\ v \in Elements
      <3>1. v \in Nat /\ w \in Nat /\ v \in Elements
        BY <1>4, NodeCalls
      <3>2. QED
        BY <1>4, <3>1
    <2>3. /\ Is(call[<<Lo(x), w>>], Off(w, Off(v, A)))
          /\ Is(call[<<Hi(x), w>>], Off(w, On(v, A)))
      BY <1>4, NodeCalls
    <2>4. A \in SUBSET AtLeast(v)
      BY <1>4, NodeCalls
    <2> HIDE DEF v, A
    <2>5. /\ Is(call[<<Lo(x), w>>], Off(v, Off(w, A)))
          /\ Is(call[<<Hi(x), w>>], On(v, Off(w, A)))
      BY <2>2, <2>3, CofactorsCommute, CofactorsOfSets
    <2>6. Off(w, A) \in SUBSET AtLeast(v)
      BY <2>2, <2>4, AtLeastOne, AtLeastSets
    <2>7. QED
      BY <2>1, <2>2, <2>5, <2>6, IsByCofactors DEF A
  <1>5. IsTerminal(x) \/ Val(x) >= w \/ Val(x) < w
    <2>1. ~IsTerminal(x) => Val(x) \in Nat /\ w \in Nat
      BY NodeCalls
    <2>2. QED
      BY <2>1
  <1>6. QED
    BY <1>2, <1>4, <1>5

IsOffset(u) == u = [p \in ElementCalls |-> OffsetStep(u, p[1], p[2])]

LEMMA OffsetExact ==
  \A x \in Diagrams, w \in Elements : Is(Offset[<<x, w>>], Off(w, Family[x]))
  <1> DEFINE A(p) == Off(p[2], Family[p[1]])
             S == [p \in ElementCalls |-> Diagram(A(p))]
             Good == {p \in ElementCalls : Is(Offset[p], A(p))}
  <1>1. \A p \in ElementCalls : A(p) \in Families
    BY ElementParts, FamilyOver, FamiliesOne, FamiliesSets
  <1>2. ASSUME NEW u, NEW p \in ElementCalls,
               \A q \in ElementCalls : Rank(q[1]) < Rank(p[1]) => Is(u[q], A(q))
        PROVE  Is(OffsetStep(u, p[1], p[2]), A(p))
    BY <1>2, ElementParts, OffsetStepExact
  <1> HIDE DEF A
  <1>3. \A p \in ElementCalls : Is(S[p], A(p)) /\ S[p] = OffsetStep(S, p[1], p[2])
    <2>1. \A p \in ElementCalls : Is(S[p], A(p))
      BY <1>1, Unique
    <2> HIDE DEF S
    <2>2. QED
      BY <1>1, <1>2, <2>1, Unique
  <1>4. IsOffset(S)
    BY <1>3 DEF IsOffset
  <1>5. IsOffset(Offset)
    <2> HIDE DEF S
    <2>1. QED
      BY <1>4 DEF Offset, IsOffset
  <1>6. ElementCalls \subseteq Good
    <2>1. \A p \in ElementCalls : Offset[p] = OffsetStep(Offset, p[1], p[2])
      BY <1>5 DEF IsOffset
    <2>2. ASSUME NEW p \in ElementCalls, \A q \in ElementCalls : Rank(q[1]) < Rank(p[1]) => q \in Good
          PROVE  p \in Good
      BY <1>2, <2>1, <2>2
    <2> HIDE DEF Good
    <2>3. QED
      BY <2>2, ElementInduction
  <1>7. QED
    BY <1>6, ElementParts DEF ElementCalls, A

\* onset
LEMMA OnsetStepExact ==
  ASSUME NEW call, NEW x \in Diagrams, NEW w \in Elements,
         \A q \in ElementCalls : Rank(q[1]) < Rank(x)
                                   => Is(call[q], On(q[2], Family[q[1]]))
  PROVE  Is(OnsetStep(call, x, w), On(w, Family[x]))
  <1> DEFINE A == Family[x]
  <1>2. CASE IsTerminal(x) \/ Val(x) >= w
    <2>1. Is(HiAt(w, x), On(w, A))
      BY <1>2, FromValue
    <2>2. OnsetStep(call, x, w) = HiAt(w, x)
      BY <1>2, NodeCalls DEF OnsetStep, HiAt
    <2>3. QED
      BY <2>1, <2>2
  <1>4. CASE ~IsTerminal(x) /\ Val(x) < w
    <2> DEFINE v == Val(x)
    <2>1. OnsetStep(call, x, w) = GetNode(v, call[<<Lo(x), w>>], call[<<Hi(x), w>>])
      BY <1>4, NodeCalls DEF OnsetStep, IsTerminal
    <2>2. v # w /\ w >= v /\ v \in Elements
      <3>1. v \in Nat /\ w \in Nat /\ v \in Elements
        BY <1>4, NodeCalls
      <3>2. QED
        BY <1>4, <3>1
    <2>3. /\ Is(call[<<Lo(x), w>>], On(w, Off(v, A)))
          /\ Is(call[<<Hi(x), w>>], On(w, On(v, A)))
      BY <1>4, NodeCalls
    <2>4. A \in SUBSET AtLeast(v)
      BY <1>4, NodeCalls
    <2> HIDE DEF v, A
    <2>5. /\ Is(call[<<Lo(x), w>>], Off(v, On(w, A)))
          /\ Is(call[<<Hi(x), w>>], On(v, On(w, A)))
      BY <2>2, <2>3, CofactorsCommute, CofactorsOfSets
    <2>6. On(w, A) \in SUBSET AtLeast(v)
      BY <2>2, <2>4, AtLeastOne, AtLeastSets
    <2>7. QED
      BY <2>1, <2>2, <2>5, <2>6, IsByCofactors DEF A
  <1>5. IsTerminal(x) \/ Val(x) >= w \/ Val(x) < w
    <2>1. ~IsTerminal(x) => Val(x) \in Nat /\ w \in Nat
      BY NodeCalls
    <2>2. QED
      BY <2>1
  <1>6. QED
    BY <1>2, <1>4, <1>5

IsOnset(u) == u = [p \in ElementCalls |-> OnsetStep(u, p[1], p[2])]

LEMMA OnsetExact ==
  \A x \in Diagrams, w \in Elements : Is(Onset[<<x, w>>], On(w, Family[x]))
  <1> DEFINE A(p) == On(p[2], Family[p[1]])
             S == [p \in ElementCalls |-> Diagram(A(p))]
             Good == {p \in ElementCalls : Is(Onset[p], A(p))}
  <1>1. \A p \in ElementCalls : A(p) \in Families
    BY ElementParts, FamilyOver, FamiliesOne, FamiliesSets
  <1>2. ASSUME NEW u, NEW p \in ElementCalls,
               \A q \in ElementCalls : Rank(q[1]) < Rank(p[1]) => Is(u[q], A(q))
        PROVE  Is(OnsetStep(u, p[1], p[2]), A(p))
    BY <1>2, ElementParts, OnsetStepExact
  <1> HIDE DEF A
  <1>3. \A p \in ElementCalls : Is(S[p], A(p)) /\ S[p] = OnsetStep(S, p[1], p[2])
    <2>1. \A p \in ElementCalls : Is(S[p], A(p))
      BY <1>1, Unique
    <2> HIDE DEF S
    <2>2. QED
      BY <1>1, <1>2, <2>1, Unique
  <1>4. IsOnset(S)
    BY <1>3 DEF IsOnset
  <1>5. IsOnset(Onset)
    <2> HIDE DEF S
    <2>1. QED
      BY <1>4 DEF Onset, IsOnset
  <1>6. ElementCalls \subseteq Good
    <2>1. \A p \in ElementCalls : Onset[p] = OnsetStep(Onset, p[1], p[2])
      BY <1>5 DEF IsOnset
    <2>2. ASSUME NEW p \in ElementCalls, \A q \in ElementCalls : Rank(q[1]) < Rank(p[1]) => q \in Good
          PROVE  p \in Good
      BY <1>2, <2>1, <2>2
    <2> HIDE DEF Good
    <2>3. QED
      BY <2>2, ElementInduction
  <1>7. QED
    BY <1>6, ElementParts DEF ElementCalls, A

\* change
LEMMA ChangeStepExact ==
  ASSUME NEW call, NEW x \in Diagrams, NEW w \in Elements,
         \A q \in ElementCalls : Rank(q[1]) < Rank(x)
                                   => Is(call[q], Toggle(q[2], Family[q[1]]))
  PROVE  Is(ChangeStep(call, x, w), Toggle(w, Family[x]))
  <1> DEFINE A == Family[x]
  <1>1. CASE IsZero(x)
    <2>1. ChangeStep(call, x, w) = x /\ A = {}
      BY <1>1, FamilyParts DEF ChangeStep, IsZero
    <2>2. QED
      BY <2>1, OfEmpty, Unique
  <1>2. CASE ~IsZero(x) /\ (IsTerminal(x) \/ Val(x) >= w)
    <2>1. /\ Is(LoAt(w, x), Off(w, A)) /\ Is(HiAt(w, x), On(w, A))
          /\ A \in SUBSET AtLeast(w)
      BY <1>2, FromValue
    <2>2. ChangeStep(call, x, w) = GetNode(w, HiAt(w, x), LoAt(w, x))
      <3>1. CASE IsTerminal(x)
        <4>1. x = One /\ IsOne(x) /\ LoAt(w, x) = x /\ HiAt(w, x) = Zero
          BY <1>2, <3>1 DEF IsTerminal, IsOne, LoAt, HiAt
        <4>2. QED
          BY <1>2, <4>1 DEF ChangeStep, Singleton
      <3>2. CASE ~IsTerminal(x)
        <4>1. ~IsOne(x) /\ Val(x) \in Nat /\ w \in Nat
          BY <3>2, NodeCalls DEF IsTerminal
        <4>2. QED
          BY <1>2, <3>2, <4>1 DEF ChangeStep, LoAt, HiAt
      <3>3. QED
        BY <3>1, <3>2
    <2>3. w \in Nat /\ w >= w
      BY TopExact
    <2> HIDE DEF A
    <2>4. Is(HiAt(w, x), Off(w, Toggle(w, A))) /\ Is(LoAt(w, x), On(w, Toggle(w, A)))
      BY <2>1, CofactorsOfOne
    <2>5. Toggle(w, A) \in SUBSET AtLeast(w)
      BY <2>1, <2>3, AtLeastOne
    <2>6. QED
      BY <2>2, <2>4, <2>5, IsByCofactors DEF A
  <1>4. CASE ~IsTerminal(x) /\ Val(x) < w
    <2> DEFINE v == Val(x)
    <2>1. ChangeStep(call, x, w) = GetNode(v, call[<<Lo(x), w>>], call[<<Hi(x), w>>])
      BY <1>4, NodeCalls DEF ChangeStep, IsTerminal
    <2>2. v # w /\ w >= v /\ v \in Elements
      <3>1. v \in Nat /\ w \in Nat /\ v \in Elements
        BY <1>4, NodeCalls
      <3>2. QED
        BY <1>4, <3>1
    <2>3. /\ Is(call[<<Lo(x), w>>], Toggle(w, Off(v, A)))
          /\ Is(call[<<Hi(x), w>>], Toggle(w, On(v, A)))
      BY <1>4, NodeCalls
    <2>4. A \in SUBSET AtLeast(v)
      BY <1>4, NodeCalls
    <2> HIDE DEF v, A
    <2>5. /\ Is(call[<<Lo(x), w>>], Off(v, Toggle(w, A)))
          /\ Is(call[<<Hi(x), w>>], On(v, Toggle(w, A)))
      BY <2>2, <2>3, CofactorsCommute, CofactorsOfSets
    <2>6. Toggle(w, A) \in SUBSET AtLeast(v)
      BY <2>2, <2>4, AtLeastOne, AtLeastSets
    <2>7. QED
      BY <2>1, <2>2, <2>5, <2>6, IsByCofactors DEF A
  <1>5. IsTerminal(x) \/ Val(x) >= w \/ Val(x) < w
    <2>1. ~IsTerminal(x) => Val(x) \in Nat /\ w \in Nat
      BY NodeCalls
    <2>2. QED
      BY <2>1
  <1>6. QED
    BY <1>1, <1>2, <1>4, <1>5

IsChange(u) == u = [p \in ElementCalls |-> ChangeStep(u, p[1], p[2])]

LEMMA ChangeExact ==
  \A x \in Diagrams, w \in Elements : Is(Change[<<x, w>>], Toggle(w, Family[x]))
  <1> DEFINE A(p) == Toggle(p[2], Family[p[1]])
             S == [p \in ElementCalls |-> Diagram(A(p))]
             Good == {p \in ElementCalls : Is(Change[p], A(p))}
  <1>1. \A p \in ElementCalls : A(p) \in Families
    BY ElementParts, FamilyOver, FamiliesOne, FamiliesSets
  <1>2. ASSUME NEW u, NEW p \in ElementCalls,
               \A q \in ElementCalls : Rank(q[1]) < Rank(p[1]) => Is(u[q], A(q))
        PROVE  Is(ChangeStep(u, p[1], p[2]), A(p))
    BY <1>2, ElementParts, ChangeStepExact
  <1> HIDE DEF A
  <1>3. \A p \in ElementCalls : Is(S[p], A(p)) /\ S[p] = ChangeStep(S, p[1], p[2])
    <2>1. \A p \in ElementCalls : Is(S[p], A(p))
      BY <1>1, Unique
    <2> HIDE DEF S
    <2>2. QED
      BY <1>1, <1>2, <2>1, Unique
  <1>4. IsChange(S)
    BY <1>3 DEF IsChange
  <1>5. IsChange(Change)
    <2> HIDE DEF S
    <2>1. QED
      BY <1>4 DEF Change, IsChange
  <1>6. ElementCalls \subseteq Good
    <2>1. \A p \in ElementCalls : Change[p] = ChangeStep(Change, p[1], p[2])
      BY <1>5 DEF IsChange
    <2>2. ASSUME NEW p \in ElementCalls, \A q \in ElementCalls : Rank(q[1]) < Rank(p[1]) => q \in Good
          PROVE  p \in Good
      BY <1>2, <2>1, <2>2
    <2> HIDE DEF Good
    <2>3. QED
      BY <2>2, ElementInduction
  <1>7. QED
    BY <1>6, ElementParts DEF ElementCalls, A

\* insert
LEMMA InsertStepExact ==
  ASSUME NEW call, NEW x \in Diagrams, NEW w \in Elements,
         \A q \in ElementCalls : Rank(q[1]) < Rank(x)
                                   => Is(call[q], With(q[2], Family[q[1]]))
  PROVE  Is(InsertStep(call, x, w), With(w, Family[x]))
  <1> DEFINE A == Family[x]
             B == With(w, A)
  <1>1. CASE IsZero(x)
    <2>1. InsertStep(call, x, w) = x /\ A = {}
      BY <1>1, FamilyParts DEF InsertStep, IsZero
    <2>2. B = {}
      <3>1. With(w, {}) = {} /\ Either({}, {}) = {}
        BY OfEmpty, SetsOfEmpty
      <3>2. QED
        BY <2>1, <3>1
    <2>3. Is(x, A)
      BY Unique
    <2>4. QED
      BY <2>1, <2>2, <2>3
  <1>2. CASE ~IsZero(x) /\ (IsTerminal(x) \/ Val(x) >= w)
    <2>1. /\ Is(LoAt(w, x), Off(w, A)) /\ Is(HiAt(w, x), On(w, A))
          /\ A \in SUBSET AtLeast(w) /\ LoAt(w, x) \in Diagrams /\ HiAt(w, x) \in Diagrams
          /\ Family[LoAt(w, x)] = Off(w, A) /\ Family[HiAt(w, x)] = On(w, A)
      BY <1>2, FromValue
    <2>2. Is(Union[<<HiAt(w, x), LoAt(w, x)>>], Either(On(w, A), Off(w, A)))
      BY <2>1, UnionExact
    <2>3. \E hi : Is(hi, Either(On(w, A), Off(w, A)))
                   /\ InsertStep(call, x, w) = GetNode(w, Zero, hi)
      <3>1. CASE IsTerminal(x)
        <4>1. x = One /\ IsOne(x) /\ LoAt(w, x) = x /\ HiAt(w, x) = Zero
          BY <1>2, <3>1 DEF IsTerminal, IsOne, LoAt, HiAt
        <4>2. InsertStep(call, x, w) = GetNode(w, Zero, x)
          BY <1>2, <4>1 DEF InsertStep, Singleton
        <4>3. Is(x, Either(On(w, A), Off(w, A)))
          <5>1. On(w, A) = {} /\ Is(x, Off(w, A))
            BY <2>1, <4>1, FamilyParts
          <5>2. Either({}, Off(w, A)) = Off(w, A)
            BY SetsOfEmpty
          <5>3. QED
            BY <5>1, <5>2
        <4>4. QED
          BY <4>1, <4>2, <4>3
      <3>2. CASE ~IsTerminal(x) /\ Val(x) = w
        <4>1. ~IsOne(x) /\ Val(x) \in Nat /\ w \in Nat /\ LoAt(w, x) = Lo(x) /\ HiAt(w, x) = Hi(x)
          BY <3>2, NodeCalls DEF IsTerminal
        <4>2. InsertStep(call, x, w) = GetNode(w, Zero, Union[<<HiAt(w, x), LoAt(w, x)>>])
          BY <1>2, <3>2, <4>1 DEF InsertStep
        <4>3. QED
          BY <2>2, <4>2
      <3>3. CASE ~IsTerminal(x) /\ Val(x) # w
        <4>1. ~IsOne(x) /\ Val(x) \in Nat /\ w \in Nat /\ LoAt(w, x) = x /\ HiAt(w, x) = Zero
          BY <3>3, NodeCalls DEF IsTerminal, LoAt, HiAt
        <4>2. InsertStep(call, x, w) = GetNode(w, Zero, x)
          BY <1>2, <3>3, <4>1 DEF InsertStep
        <4>3. Is(x, Either(On(w, A), Off(w, A)))
          <5>1. On(w, A) = {} /\ Is(x, Off(w, A))
            BY <2>1, <4>1, FamilyParts
          <5>2. Either({}, Off(w, A)) = Off(w, A)
            BY SetsOfEmpty
          <5>3. QED
            BY <5>1, <5>2
        <4>4. QED
          BY <4>1, <4>2, <4>3
      <3>4. QED
        BY <3>1, <3>2, <3>3
    <2>4. PICK hi : Is(hi, Either(On(w, A), Off(w, A)))
                     /\ InsertStep(call, x, w) = GetNode(w, Zero, hi)
      BY <2>3
    <2>5. w \in Nat /\ w >= w
      BY TopExact
    <2> HIDE DEF A
    <2>6. Is(Zero, Off(w, B)) /\ Is(hi, On(w, B))
      <3>1. Off(w, B) = {} /\ On(w, B) = Either(On(w, A), Off(w, A))
        BY CofactorsOfOne
      <3>2. Is(Zero, {})
        BY TerminalsAre
      <3>3. QED
        BY <2>4, <3>1, <3>2
    <2>7. B \in SUBSET AtLeast(w)
      BY <2>1, <2>5, AtLeastOne, AtLeastSets
    <2> HIDE DEF B
    <2>8. QED
      BY <2>4, <2>6, <2>7, IsByCofactors DEF A, B
  <1>4. CASE ~IsTerminal(x) /\ Val(x) < w
    <2> DEFINE v == Val(x)
    <2>1. InsertStep(call, x, w) = GetNode(v, call[<<Lo(x), w>>], call[<<Hi(x), w>>])
      BY <1>4, NodeCalls DEF InsertStep, IsTerminal
    <2>2. v # w /\ w >= v /\ v \in Elements
      <3>1. v \in Nat /\ w \in Nat /\ v \in Elements
        BY <1>4, NodeCalls
      <3>2. QED
        BY <1>4, <3>1
    <2>3. /\ Is(call[<<Lo(x), w>>], With(w, Off(v, A)))
          /\ Is(call[<<Hi(x), w>>], With(w, On(v, A)))
      BY <1>4, NodeCalls
    <2>4. A \in SUBSET AtLeast(v)
      BY <1>4, NodeCalls
    <2> HIDE DEF v, A
    <2>5. /\ Is(call[<<Lo(x), w>>], Off(v, With(w, A)))
          /\ Is(call[<<Hi(x), w>>], On(v, With(w, A)))
      BY <2>2, <2>3, CofactorsCommute, CofactorsOfSets
    <2>6. With(w, A) \in SUBSET AtLeast(v)
      BY <2>2, <2>4, AtLeastOne, AtLeastSets
    <2>7. QED
      BY <2>1, <2>2, <2>5, <2>6, IsByCofactors DEF A
  <1>5. IsTerminal(x) \/ Val(x) >= w \/ Val(x) < w
    <2>1. ~IsTerminal(x) => Val(x) \in Nat /\ w \in Nat
      BY NodeCalls
    <2>2. QED
      BY <2>1
  <1>6. QED
    BY <1>1, <1>2, <1>4, <1>5

IsInsert(u) == u = [p \in ElementCalls |-> InsertStep(u, p[1], p[2])]

LEMMA InsertExact ==
  \A x \in Diagrams, w \in Elements : Is(Insert[<<x, w>>], With(w, Family[x]))
  <1> DEFINE A(p) == With(p[2], Family[p[1]])
             S == [p \in ElementCalls |-> Diagram(A(p))]
             Good == {p \in ElementCalls : Is(Insert[p], A(p))}
  <1>1. \A p \in ElementCalls : A(p) \in Families
    BY ElementParts, FamilyOver, FamiliesOne, FamiliesSets
  <1>2. ASSUME NEW u, NEW p \in ElementCalls,
               \A q \in ElementCalls : Rank(q[1]) < Rank(p[1]) => Is(u[q], A(q))
        PROVE  Is(InsertStep(u, p[1], p[2]), A(p))
    BY <1>2, ElementParts, InsertStepExact
  <1> HIDE DEF A
  <1>3. \A p \in ElementCalls : Is(S[p], A(p)) /\ S[p] = InsertStep(S, p[1], p[2])
    <2>1. \A p \in ElementCalls : Is(S[p], A(p))
      BY <1>1, Unique
    <2> HIDE DEF S
    <2>2. QED
      BY <1>1, <1>2, <2>1, Unique
  <1>4. IsInsert(S)
    BY <1>3 DEF IsInsert
  <1>5. IsInsert(Insert)
    <2> HIDE DEF S
    <2>1. QED
      BY <1>4 DEF Insert, IsInsert
  <1>6. ElementCalls \subseteq Good
    <2>1. \A p \in ElementCalls : Insert[p] = InsertStep(Insert, p[1], p[2])
      BY <1>5 DEF IsInsert
    <2>2. ASSUME NEW p \in ElementCalls, \A q \in ElementCalls : Rank(q[1]) < Rank(p[1]) => q \in Good
          PROVE  p \in Good
      BY <1>2, <2>1, <2>2
    <2> HIDE DEF Good
    <2>3. QED
      BY <2>2, ElementInduction
  <1>7. QED
    BY <1>6, ElementParts DEF ElementCalls, A

\* insert_as_superset
LEMMA InsertAsSupersetStepExact ==
  ASSUME NEW call, NEW x \in Diagrams, NEW w \in Elements,
         \A q \in ElementCalls : Rank(q[1]) < Rank(x)
                                   => Is(call[q], Either(Family[q[1]], With(q[2], Family[q[1]])))
  PROVE  Is(InsertAsSupersetStep(call, x, w), Either(Family[x], With(w, Family[x])))
  <1> DEFINE A == Family[x]
             B == Either(A, With(w, A))
  <1>1. CASE IsZero(x)
    <2>1. InsertAsSupersetStep(call, x, w) = x /\ A = {}
      BY <1>1, FamilyParts DEF InsertAsSupersetStep, IsZero
    <2>2. B = {}
      <3>1. With(w, {}) = {} /\ Either({}, {}) = {}
        BY OfEmpty, SetsOfEmpty
      <3>2. QED
        BY <2>1, <3>1
    <2>3. Is(x, A)
      BY Unique
    <2>4. QED
      BY <2>1, <2>2, <2>3
  <1>2. CASE ~IsZero(x) /\ (IsTerminal(x) \/ Val(x) >= w)
    <2>1. /\ Is(LoAt(w, x), Off(w, A)) /\ Is(HiAt(w, x), On(w, A))
          /\ A \in SUBSET AtLeast(w) /\ LoAt(w, x) \in Diagrams /\ HiAt(w, x) \in Diagrams
          /\ Family[LoAt(w, x)] = Off(w, A) /\ Family[HiAt(w, x)] = On(w, A)
      BY <1>2, FromValue
    <2>2. Is(Union[<<HiAt(w, x), LoAt(w, x)>>], Either(On(w, A), Off(w, A)))
      BY <2>1, UnionExact
    <2>3. \E hi : Is(hi, Either(On(w, A), Off(w, A)))
                   /\ InsertAsSupersetStep(call, x, w) = GetNode(w, LoAt(w, x), hi)
      <3>1. CASE IsTerminal(x)
        <4>1. x = One /\ IsOne(x) /\ LoAt(w, x) = x /\ HiAt(w, x) = Zero
          BY <1>2, <3>1 DEF IsTerminal, IsOne, LoAt, HiAt
        <4>2. InsertAsSupersetStep(call, x, w) = GetNode(w, x, x)
          BY <1>2, <4>1 DEF InsertAsSupersetStep, Singleton
        <4>3. Is(x, Either(On(w, A), Off(w, A)))
          <5>1. On(w, A) = {} /\ Is(x, Off(w, A))
            BY <2>1, <4>1, FamilyParts
          <5>2. Either({}, Off(w, A)) = Off(w, A)
            BY SetsOfEmpty
          <5>3. QED
            BY <5>1, <5>2
        <4>4. QED
          BY <4>1, <4>2, <4>3
      <3>2. CASE ~IsTerminal(x) /\ Val(x) = w
        <4>1. ~IsOne(x) /\ Val(x) \in Nat /\ w \in Nat /\ LoAt(w, x) = Lo(x) /\ HiAt(w, x) = Hi(x)
          BY <3>2, NodeCalls DEF IsTerminal
        <4>2. InsertAsSupersetStep(call, x, w) = GetNode(w, LoAt(w, x), Union[<<HiAt(w, x), LoAt(w, x)>>])
          BY <1>2, <3>2, <4>1 DEF InsertAsSupersetStep
        <4>3. QED
          BY <2>2, <4>2
      <3>3. CASE ~IsTerminal(x) /\ Val(x) # w
        <4>1. ~IsOne(x) /\ Val(x) \in Nat /\ w \in Nat /\ LoAt(w, x) = x /\ HiAt(w, x) = Zero
          BY <3>3, NodeCalls DEF IsTerminal, LoAt, HiAt
        <4>2. InsertAsSupersetStep(call, x, w) = GetNode(w, x, x)
          BY <1>2, <3>3, <4>1 DEF InsertAsSupersetStep
        <4>3. Is(x, Either(On(w, A), Off(w, A)))
          <5>1. On(w, A) = {} /\ Is(x, Off(w, A))
            BY <2>1, <4>1, FamilyParts
          <5>2. Either({}, Off(w, A)) = Off(w, A)
            BY SetsOfEmpty
          <5>3. QED
            BY <5>1, <5>2
        <4>4. QED
          BY <4>1, <4>2, <4>3
      <3>4. QED
        BY <3>1, <3>2, <3>3
    <2>4. PICK hi : Is(hi, Either(On(w, A), Off(w, A)))
                     /\ InsertAsSupersetStep(call, x, w) = GetNode(w, LoAt(w, x), hi)
      BY <2>3
    <2>5. w \in Nat /\ w >= w
      BY TopExact
    <2> HIDE DEF A
    <2>6. Is(LoAt(w, x), Off(w, B)) /\ Is(hi, On(w, B))
      <3>1. Off(w, B) = Off(w, A)
        <4>1. Off(w, B) = Either(Off(w, A), Off(w, With(w, A)))
          BY CofactorsOfSets
        <4>2. Off(w, With(w, A)) = {}
          BY CofactorsOfOne
        <4>3. Either(Off(w, A), {}) = Off(w, A)
          BY SetsOfEmpty
        <4>4. QED
          BY <4>1, <4>2, <4>3
      <3>2. On(w, B) = Either(On(w, A), Either(On(w, A), Off(w, A)))
        <4>1. On(w, B) = Either(On(w, A), On(w, With(w, A)))
          BY CofactorsOfSets
        <4>2. On(w, With(w, A)) = Either(On(w, A), Off(w, A))
          BY CofactorsOfOne
        <4>3. QED
          BY <4>1, <4>2
      <3>3. Either(On(w, A), Either(On(w, A), Off(w, A))) = Either(On(w, A), Off(w, A))
        BY DEF Either
      <3>4. QED
        BY <2>1, <2>4, <3>1, <3>2, <3>3
    <2>7. B \in SUBSET AtLeast(w)
      BY <2>1, <2>5, AtLeastOne, AtLeastSets
    <2> HIDE DEF B
    <2>8. QED
      BY <2>4, <2>6, <2>7, IsByCofactors DEF A, B
  <1>4. CASE ~IsTerminal(x) /\ Val(x) < w
    <2> DEFINE v == Val(x)
    <2>1. InsertAsSupersetStep(call, x, w) = GetNode(v, call[<<Lo(x), w>>], call[<<Hi(x), w>>])
      BY <1>4, NodeCalls DEF InsertAsSupersetStep, IsTerminal
    <2>2. v # w /\ w >= v /\ v \in Elements
      <3>1. v \in Nat /\ w \in Nat /\ v \in Elements
        BY <1>4, NodeCalls
      <3>2. QED
        BY <1>4, <3>1
    <2>3. /\ Is(call[<<Lo(x), w>>], Either(Off(v, A), With(w, Off(v, A))))
          /\ Is(call[<<Hi(x), w>>], Either(On(v, A), With(w, On(v, A))))
      BY <1>4, NodeCalls
    <2>4. A \in SUBSET AtLeast(v)
      BY <1>4, NodeCalls
    <2> HIDE DEF v, A
    <2>5. /\ Is(call[<<Lo(x), w>>], Off(v, Either(A, With(w, A))))
          /\ Is(call[<<Hi(x), w>>], On(v, Either(A, With(w, A))))
      BY <2>2, <2>3, CofactorsCommute, CofactorsOfSets
    <2>6. Either(A, With(w, A)) \in SUBSET AtLeast(v)
      BY <2>2, <2>4, AtLeastOne, AtLeastSets
    <2>7. QED
      BY <2>1, <2>2, <2>5, <2>6, IsByCofactors DEF A
  <1>5. IsTerminal(x) \/ Val(x) >= w \/ Val(x) < w
    <2>1. ~IsTerminal(x) => Val(x) \in Nat /\ w \in Nat
      BY NodeCalls
    <2>2. QED
      BY <2>1
  <1>6. QED
    BY <1>1, <1>2, <1>4, <1>5

IsInsertAsSuperset(u) == u = [p \in ElementCalls |-> InsertAsSupersetStep(u, p[1], p[2])]

LEMMA InsertAsSupersetExact ==
  \A x \in Diagrams, w \in Elements : Is(InsertAsSuperset[<<x, w>>], Either(Family[x], With(w, Family[x])))
  <1> DEFINE A(p) == Either(Family[p[1]], With(p[2], Family[p[1]]))
             S == [p \in ElementCalls |-> Diagram(A(p))]
             Good == {p \in ElementCalls : Is(InsertAsSuperset[p], A(p))}
  <1>1. \A p \in ElementCalls : A(p) \in Families
    BY ElementParts, FamilyOver, FamiliesOne, FamiliesSets
  <1>2. ASSUME NEW u, NEW p \in ElementCalls,
               \A q \in ElementCalls : Rank(q[1]) < Rank(p[1]) => Is(u[q], A(q))
        PROVE  Is(InsertAsSupersetStep(u, p[1], p[2]), A(p))
    BY <1>2, ElementParts, InsertAsSupersetStepExact
  <1> HIDE DEF A
  <1>3. \A p \in ElementCalls : Is(S[p], A(p)) /\ S[p] = InsertAsSupersetStep(S, p[1], p[2])
    <2>1. \A p \in ElementCalls : Is(S[p], A(p))
      BY <1>1, Unique
    <2> HIDE DEF S
    <2>2. QED
      BY <1>1, <1>2, <2>1, Unique
  <1>4. IsInsertAsSuperset(S)
    BY <1>3 DEF IsInsertAsSuperset
  <1>5. IsInsertAsSuperset(InsertAsSuperset)
    <2> HIDE DEF S
    <2>1. QED
      BY <1>4 DEF InsertAsSuperset, IsInsertAsSuperset
  <1>6. ElementCalls \subseteq Good
    <2>1. \A p \in ElementCalls : InsertAsSuperset[p] = InsertAsSupersetStep(InsertAsSuperset, p[1], p[2])
      BY <1>5 DEF IsInsertAsSuperset
    <2>2. ASSUME NEW p \in ElementCalls, \A q \in ElementCalls : Rank(q[1]) < Rank(p[1]) => q \in Good
          PROVE  p \in Good
      BY <1>2, <2>1, <2>2
    <2> HIDE DEF Good
    <2>3. QED
      BY <2>2, ElementInduction
  <1>7. QED
    BY <1>6, ElementParts DEF ElementCalls, A

-----------------------------------------------------------------------------
(***************************************************************************)
(* Every set with some of the values of T                                  *)
(***************************************************************************)
Grown(T, A) == {s \cup t : s \in A, t \in SUBSET T}

LEMMA GrownMembers ==
  ASSUME NEW T, NEW A, NEW u
  PROVE  u \in Grown(T, A) <=> \E s \in A : s \subseteq u /\ u \ s \subseteq T
  <1>1. ASSUME u \in Grown(T, A) PROVE \E s \in A : s \subseteq u /\ u \ s \subseteq T
    <2>1. PICK s \in A, t \in SUBSET T : u = s \cup t
      BY <1>1 DEF Grown
    <2>2. s \subseteq u /\ u \ s \subseteq T
      BY <2>1
    <2>3. QED
      BY <2>2
  <1>2. ASSUME NEW s \in A, s \subseteq u, u \ s \subseteq T PROVE u \in Grown(T, A)
    <2> DEFINE t == u \ s
    <2>1. u = s \cup t /\ t \in SUBSET T
      BY <1>2
    <2> HIDE DEF t
    <2>2. QED
      BY <2>1 DEF Grown
  <1>3. QED
    BY <1>1, <1>2

LEMMA GrownCofactors ==
  ASSUME NEW v, NEW T, NEW A
  PROVE  /\ Off(v, Grown(T, A)) = Grown(T \ {v}, Off(v, A))
         /\ v \notin T => On(v, Grown(T, A)) = Grown(T \ {v}, On(v, A))
         /\ v \in T => On(v, Grown(T, A))
                         = Either(Grown(T \ {v}, On(v, A)), Grown(T \ {v}, Off(v, A)))
  <1> DEFINE R == T \ {v}
  <1>1. Off(v, Grown(T, A)) = Grown(R, Off(v, A))
    <2>1. ASSUME NEW u PROVE u \in Off(v, Grown(T, A)) <=> u \in Grown(R, Off(v, A))
      <3>1. u \in Off(v, Grown(T, A)) <=> v \notin u /\ \E s \in A : s \subseteq u /\ u \ s \subseteq T
        BY OffMembers, GrownMembers
      <3>2. u \in Grown(R, Off(v, A)) <=> \E s \in Off(v, A) : s \subseteq u /\ u \ s \subseteq R
        <4> HIDE DEF R
        <4>1. QED
          BY GrownMembers
      <3>3. ASSUME v \notin u, NEW s \in A, s \subseteq u, u \ s \subseteq T
            PROVE  s \in Off(v, A) /\ u \ s \subseteq R
        BY <3>3 DEF Off
      <3>4. ASSUME NEW s \in Off(v, A), s \subseteq u, u \ s \subseteq R
            PROVE  v \notin u /\ s \in A /\ u \ s \subseteq T
        BY <3>4 DEF Off
      <3>5. QED
        BY <3>1, <3>2, <3>3, <3>4
    <2>2. QED
      BY <2>1
  <1>2. ASSUME NEW u
        PROVE  u \in On(v, Grown(T, A))
                 <=> (u \in Grown(R, On(v, A)) \/ (v \in T /\ u \in Grown(R, Off(v, A))))
    <2> DEFINE uv == u \cup {v}
    <2>1. u \in On(v, Grown(T, A)) <=> v \notin u /\ uv \in Grown(T, A)
      BY OnMembers
    <2>2. uv \in Grown(T, A) <=> \E s \in A : s \subseteq uv /\ uv \ s \subseteq T
      <3> HIDE DEF uv
      <3>1. QED
        BY GrownMembers
    <2>3. /\ u \in Grown(R, On(v, A)) <=> \E s \in On(v, A) : s \subseteq u /\ u \ s \subseteq R
          /\ u \in Grown(R, Off(v, A)) <=> \E s \in Off(v, A) : s \subseteq u /\ u \ s \subseteq R
      <3> HIDE DEF R
      <3>1. QED
        BY GrownMembers
    <2>4. ASSUME v \notin u, NEW s \in A, s \subseteq uv, uv \ s \subseteq T
          PROVE  \/ u \in Grown(R, On(v, A))
                 \/ v \in T /\ u \in Grown(R, Off(v, A))
      <3>1. CASE v \in s
        <4> DEFINE r == s \ {v}
        <4>1. r \in On(v, A)
          BY <3>1 DEF On
        <4>2. r \subseteq u /\ u \ r \subseteq R
          BY <2>4, <3>1
        <4>3. QED
          BY <2>3, <4>1, <4>2
      <3>2. CASE v \notin s
        <4>1. s \in Off(v, A)
          BY <3>2 DEF Off
        <4>2. v \in T /\ s \subseteq u /\ u \ s \subseteq R
          BY <2>4, <3>2
        <4>3. QED
          BY <2>3, <4>1, <4>2
      <3>3. QED
        BY <3>1, <3>2
    <2>5. ASSUME NEW r \in On(v, A), r \subseteq u, u \ r \subseteq R
          PROVE  v \notin u /\ uv \in Grown(T, A)
      <3>1. PICK s \in A : v \in s /\ r = s \ {v}
        BY DEF On
      <3>2. v \notin u /\ s \subseteq uv /\ uv \ s \subseteq T
        BY <2>5, <3>1
      <3>3. QED
        BY <2>2, <3>2
    <2>6. ASSUME v \in T, NEW s \in Off(v, A), s \subseteq u, u \ s \subseteq R
          PROVE  v \notin u /\ uv \in Grown(T, A)
      <3>1. s \in A /\ v \notin s
        BY DEF Off
      <3>2. v \notin u /\ s \subseteq uv /\ uv \ s \subseteq T
        BY <2>6, <3>1
      <3>3. QED
        BY <2>2, <3>1, <3>2
    <2> HIDE DEF uv, R
    <2>7. u \in On(v, Grown(T, A)) => (u \in Grown(R, On(v, A))
                                       \/ (v \in T /\ u \in Grown(R, Off(v, A))))
      BY <2>1, <2>2, <2>4
    <2>8. u \in Grown(R, On(v, A)) => u \in On(v, Grown(T, A))
      BY <2>1, <2>3, <2>5
    <2>9. v \in T /\ u \in Grown(R, Off(v, A)) => u \in On(v, Grown(T, A))
      BY <2>1, <2>3, <2>6
    <2>10. QED
      BY <2>7, <2>8, <2>9
  <1>3. \A C, D, s : s \in Either(C, D) <=> s \in C \/ s \in D
    BY DEF Either
  <1>4. v \notin T => On(v, Grown(T, A)) = Grown(R, On(v, A))
    <2> HIDE DEF R
    <2>1. \A u : v \notin T => (u \in On(v, Grown(T, A)) <=> u \in Grown(R, On(v, A)))
      BY <1>2
    <2>2. QED
      BY <2>1
  <1>5. v \in T => On(v, Grown(T, A)) = Either(Grown(R, On(v, A)), Grown(R, Off(v, A)))
    <2> HIDE DEF R
    <2>1. QED
      BY <1>2, <1>3
  <1>6. QED
    BY <1>1, <1>4, <1>5

LEMMA GrownNothing ==
  ASSUME NEW T, NEW A
  PROVE  Grown({}, A) = A /\ Grown(T, {}) = {} /\ Grown(T, {{}}) = SUBSET T
  <1>1. \A u : u \in Grown({}, A) <=> u \in A
    <2>1. ASSUME NEW u PROVE u \in Grown({}, A) <=> u \in A
      <3>1. \A s : s \subseteq u /\ u \ s \subseteq {} <=> s = u
        OBVIOUS
      <3>2. QED
        BY <3>1, GrownMembers
    <2>2. QED
      BY <2>1
  <1>2. Grown(T, {}) = {}
    BY DEF Grown
  <1>3. \A u : u \in Grown(T, {{}}) <=> u \subseteq T
    <2>1. ASSUME NEW u PROVE u \in Grown(T, {{}}) <=> u \subseteq T
      <3>1. {} \subseteq u /\ u \ {} = u
        OBVIOUS
      <3>2. u \in Grown(T, {{}}) <=> \E s \in {{}} : s \subseteq u /\ u \ s \subseteq T
        BY GrownMembers
      <3>3. QED
        BY <3>1, <3>2
    <2>2. QED
      BY <2>1
  <1>4. Grown({}, A) = A
    BY <1>1
  <1>5. Grown(T, {{}}) = SUBSET T
    BY <1>3
  <1>6. QED
    BY <1>2, <1>4, <1>5

LEMMA GrownTwice ==
  ASSUME NEW T, NEW U, NEW A
  PROVE  Grown(T, Grown(U, A)) = Grown(T \cup U, A)
  <1> DEFINE W == T \cup U
  <1>1. ASSUME NEW u \in Grown(T, Grown(U, A)) PROVE u \in Grown(W, A)
    <2>1. PICK s \in Grown(U, A) : s \subseteq u /\ u \ s \subseteq T
      BY GrownMembers
    <2>2. PICK r \in A : r \subseteq s /\ s \ r \subseteq U
      BY GrownMembers
    <2>3. r \subseteq u /\ u \ r \subseteq W
      BY <2>1, <2>2
    <2> HIDE DEF W
    <2>4. QED
      BY <2>3, GrownMembers
  <1>2. ASSUME NEW u \in Grown(W, A) PROVE u \in Grown(T, Grown(U, A))
    <2>1. PICK r \in A : r \subseteq u /\ u \ r \subseteq W
      <3> HIDE DEF W
      <3>1. QED
        BY GrownMembers
    <2> DEFINE s == r \cup (U \cap u)
    <2>2. r \subseteq s /\ s \ r \subseteq U /\ s \subseteq u /\ u \ s \subseteq T
      BY <2>1
    <2> HIDE DEF s
    <2>3. s \in Grown(U, A)
      BY <2>2, GrownMembers
    <2>4. QED
      BY <2>2, <2>3, GrownMembers
  <1>3. QED
    BY <1>1, <1>2

LEMMA GrownFamilies ==
  /\ \A T \in SUBSET Elements : \A A \in Families : Grown(T, A) \in Families
  /\ \A v \in Elements : \A T, A : T \in AtLeast(v) /\ A \subseteq AtLeast(v)
                                     => Grown(T, A) \in SUBSET AtLeast(v)
  BY DEF Grown, Families, AtLeast

\* A diagram of sets of v and greater values starts there.
LEMMA StartsAt ==
  ASSUME NEW v \in Elements, NEW z \in Diagrams, Family[z] \subseteq AtLeast(v)
  PROVE  z \in From(v)
  <1>1. CASE ~IsTerminal(z)
    <2>1. \E s \in Family[z] : Val(z) \in s
      BY <1>1, FamilyNotEmpty
    <2>2. QED
      BY <2>1 DEF AtLeast, From
  <1>2. QED
    BY <1>1 DEF From

-----------------------------------------------------------------------------
(***************************************************************************)
(* add_all_subsets                                                         *)
(***************************************************************************)
LEMMA UnderInduction ==
  ASSUME NEW S,
         \A p \in UnderCalls :
           (\A q \in UnderCalls : Cardinality(q[2]) < Cardinality(p[2]) => q \in S) => p \in S
  PROVE  UnderCalls \subseteq S
  <1> DEFINE rank == [p \in UnderCalls |-> Cardinality(p[2])]
  <1>1. rank \in [UnderCalls -> Nat]
    BY ZddAssumption, FS_Subset, FS_CardinalityType DEF UnderCalls, ExtendCalls
  <1>2. \A p \in UnderCalls : (\A q \in UnderCalls : rank[q] < rank[p] => q \in S) => p \in S
    OBVIOUS
  <1> HIDE DEF rank
  <1>3. QED
    BY <1>1, <1>2, RankInduction

LEMMA UnderParts ==
  \A p \in UnderCalls : /\ p[1] \in Diagrams /\ p[2] \in SUBSET Elements
                        /\ p = <<p[1], p[2]>>
  BY DEF UnderCalls, ExtendCalls

\* The first of some values, and the others.
LEMMA FirstValue ==
  ASSUME NEW T \in SUBSET Elements, T # {}
  PROVE  /\ Least(T) \in T /\ Least(T) \in Elements /\ Least(T) \in Nat
         /\ \A y \in T : Least(T) <= y
         /\ \A y \in T \ {Least(T)} : y \in Nat /\ Least(T) < y
         /\ T \in AtLeast(Least(T)) /\ T \ {Least(T)} \in SUBSET Elements
         /\ Cardinality(T \ {Least(T)}) < Cardinality(T)
  <1>1. T \in SUBSET Nat
    BY TopExact
  <1>2. Least(T) \in T /\ \A y \in T : Least(T) <= y
    BY <1>1, Leasts
  <1>3. IsFiniteSet(T)
    BY ZddAssumption, FS_Subset
  <1>4. Cardinality(T \ {Least(T)}) = Cardinality(T) - 1 /\ Cardinality(T) \in Nat
    BY <1>2, <1>3, FS_RemoveElement, FS_CardinalityType
  <1>5. /\ \A y \in T \ {Least(T)} : y \in Nat /\ Least(T) < y
        /\ T \in AtLeast(Least(T))
    <2> DEFINE m == Least(T)
    <2>1. m \in T /\ m \in Nat /\ \A y \in T : y \in Nat /\ y \in Elements /\ m <= y
      BY <1>1, <1>2
    <2> HIDE DEF m
    <2>2. \A y \in T \ {m} : y \in Nat /\ m < y
      BY <2>1
    <2>3. T \in AtLeast(m)
      BY <2>1 DEF AtLeast
    <2>4. QED
      BY <2>2, <2>3 DEF m
  <1>6. Least(T) \in Elements /\ Least(T) \in Nat /\ T \ {Least(T)} \in SUBSET Elements
    BY <1>1, <1>2
  <1>7. Cardinality(T \ {Least(T)}) < Cardinality(T)
    BY <1>4
  <1>8. QED
    BY <1>2, <1>5, <1>6, <1>7

LEMMA AddAllSubsetsStepExact ==
  ASSUME NEW call, NEW x \in Diagrams, NEW T, <<x, T>> \in UnderCalls,
         \A q \in UnderCalls : Cardinality(q[2]) < Cardinality(T)
                                 => Is(call[q], Grown(q[2], Family[q[1]]))
  PROVE  Is(AddAllSubsetsStep(call, x, T), Grown(T, Family[x]))
  <1> DEFINE A == Family[x]
  <1>1. T \in SUBSET Elements
    BY UnderParts
  <1>2. CASE T = {}
    <2>1. AddAllSubsetsStep(call, x, T) = x
      BY <1>2 DEF AddAllSubsetsStep
    <2>2. Grown(T, A) = A
      BY <1>2, GrownNothing
    <2>3. QED
      BY <2>1, <2>2, Unique
  <1>3. CASE T # {}
    <2> DEFINE v == Least(T)
               R == T \ {v}
    <2>1. /\ v \in T /\ v \in Elements /\ v \in Nat
          /\ T \in AtLeast(v) /\ R \in SUBSET Elements
          /\ Cardinality(R) < Cardinality(T)
      BY <1>1, <1>3, FirstValue
    <2>2. AddAllSubsetsStep(call, x, T) = GetNode(v, call[<<x, R>>], call[<<x, R>>])
      BY <1>3 DEF AddAllSubsetsStep
    <2>3. x \in Above(v)
      BY <2>1, DiagramParts DEF UnderCalls, Above
    <2>4. A \in SUBSET Over(v)
      BY <2>1, <2>3, FamilyOver
    <2>5. <<x, R>> \in UnderCalls
      BY <2>1 DEF UnderCalls, ExtendCalls
    <2>6. Is(call[<<x, R>>], Grown(R, A))
      BY <2>1, <2>5
    <2>7. Off(v, A) = A /\ On(v, A) = {}
      BY <2>1, <2>4, Cofactors
    <2>8. A \subseteq AtLeast(v)
      BY <2>1, <2>4, OverAtLeast
    <2>9. Off(v, Grown(T, A)) = Grown(R, A) /\ On(v, Grown(T, A)) = Grown(R, A)
      <3>1. /\ Off(v, Grown(T, A)) = Grown(R, Off(v, A))
            /\ On(v, Grown(T, A)) = Either(Grown(R, On(v, A)), Grown(R, Off(v, A)))
        <4> HIDE DEF A, v
        <4>1. QED
          BY <2>1, GrownCofactors
      <3>2. Grown(R, {}) = {} /\ Either({}, Grown(R, A)) = Grown(R, A)
        <4> HIDE DEF A, R
        <4>1. QED
          BY GrownNothing, SetsOfEmpty
      <3>3. QED
        BY <2>7, <3>1, <3>2
    <2>10. Grown(T, A) \in SUBSET AtLeast(v)
      <3> HIDE DEF A, v
      <3>1. QED
        BY <2>1, <2>8, GrownFamilies
    <2>11. QED
      <3> HIDE DEF A, v, R
      <3>1. Is(GetNode(v, call[<<x, R>>], call[<<x, R>>]), Grown(T, A))
        BY <2>1, <2>6, <2>9, <2>10, IsByCofactors
      <3>2. QED
        BY <2>2, <3>1 DEF A
  <1>4. QED
    BY <1>2, <1>3

IsAddAllSubsets(u) == u = [p \in UnderCalls |-> AddAllSubsetsStep(u, p[1], p[2])]

LEMMA AddAllSubsetsExact ==
  \A p \in UnderCalls : Is(AddAllSubsets[p], Grown(p[2], Family[p[1]]))
  <1> DEFINE A(p) == Grown(p[2], Family[p[1]])
             S == [p \in UnderCalls |-> Diagram(A(p))]
             Good == {p \in UnderCalls : Is(AddAllSubsets[p], A(p))}
  <1>1. \A p \in UnderCalls : A(p) \in Families
    BY UnderParts, FamilyOver, GrownFamilies
  <1>2. ASSUME NEW u, NEW p \in UnderCalls,
               \A q \in UnderCalls : Cardinality(q[2]) < Cardinality(p[2]) => Is(u[q], A(q))
        PROVE  Is(AddAllSubsetsStep(u, p[1], p[2]), A(p))
    BY <1>2, UnderParts, AddAllSubsetsStepExact
  <1> HIDE DEF A
  <1>3. \A p \in UnderCalls : Is(S[p], A(p)) /\ S[p] = AddAllSubsetsStep(S, p[1], p[2])
    <2>1. \A p \in UnderCalls : Is(S[p], A(p))
      BY <1>1, Unique
    <2> HIDE DEF S
    <2>2. QED
      BY <1>1, <1>2, <2>1, Unique
  <1>4. IsAddAllSubsets(S)
    BY <1>3 DEF IsAddAllSubsets
  <1>5. IsAddAllSubsets(AddAllSubsets)
    <2> HIDE DEF S
    <2>1. QED
      BY <1>4 DEF AddAllSubsets, IsAddAllSubsets
  <1>6. UnderCalls \subseteq Good
    <2>1. \A p \in UnderCalls : AddAllSubsets[p] = AddAllSubsetsStep(AddAllSubsets, p[1], p[2])
      BY <1>5 DEF IsAddAllSubsets
    <2>2. ASSUME NEW p \in UnderCalls, \A q \in UnderCalls : Cardinality(q[2]) < Cardinality(p[2]) => q \in Good
          PROVE  p \in Good
      BY <1>2, <2>1, <2>2
    <2> HIDE DEF Good
    <2>3. QED
      BY <2>2, UnderInduction
  <1>7. QED
    BY <1>6, UnderParts DEF UnderCalls, A

LEMMA AllSubsetsExact ==
  \A T \in SUBSET Elements : Is(AllSubsets(T), SUBSET T)
  <1>1. ASSUME NEW T \in SUBSET Elements PROVE Is(AllSubsets(T), SUBSET T)
    <2>1. <<One, T>> \in UnderCalls
      BY TerminalDiagrams DEF UnderCalls, ExtendCalls
    <2>2. Is(AllSubsets(T), Grown(T, {{}}))
      BY <2>1, AddAllSubsetsExact, FamilyParts DEF AllSubsets
    <2>3. QED
      BY <2>2, GrownNothing
  <1>2. QED
    BY <1>1

-----------------------------------------------------------------------------
(***************************************************************************)
(* extend_as_superset                                                      *)
(***************************************************************************)
LEMMA ExtendInduction ==
  ASSUME NEW S,
         \A p \in ExtendCalls :
           (\A q \in ExtendCalls : Rank(q[1]) < Rank(p[1]) => q \in S) => p \in S
  PROVE  ExtendCalls \subseteq S
  <1> DEFINE rank == [p \in ExtendCalls |-> Rank(p[1])]
  <1>1. rank \in [ExtendCalls -> Nat]
    BY Ranks DEF ExtendCalls
  <1>2. \A p \in ExtendCalls : (\A q \in ExtendCalls : rank[q] < rank[p] => q \in S) => p \in S
    OBVIOUS
  <1> HIDE DEF rank
  <1>3. QED
    BY <1>1, <1>2, RankInduction

LEMMA ExtendParts ==
  \A p \in ExtendCalls : /\ p[1] \in Diagrams /\ p[2] \in SUBSET Elements
                         /\ p = <<p[1], p[2]>>
  BY DEF ExtendCalls

LEMMA ExtendAsSupersetStepExact ==
  ASSUME NEW call, NEW x \in Diagrams, NEW T \in SUBSET Elements,
         \A q \in ExtendCalls : Rank(q[1]) < Rank(x)
                                  => Is(call[q], Grown(q[2], Family[q[1]]))
  PROVE  Is(ExtendAsSupersetStep(call, x, T), Grown(T, Family[x]))
  <1> DEFINE A == Family[x]
  <1>1. Is(x, A)
    BY Unique
  <1>2. CASE IsZero(x) \/ T = {}
    <2>1. ExtendAsSupersetStep(call, x, T) = x
      BY <1>2 DEF ExtendAsSupersetStep
    <2>2. A = {} \/ T = {}
      BY <1>2, FamilyParts DEF IsZero
    <2>3. Grown(T, A) = A
      <3> HIDE DEF A
      <3>1. QED
        BY <2>2, GrownNothing
    <2>4. QED
      BY <1>1, <2>1, <2>3
  <1>3. CASE ~IsZero(x) /\ T # {} /\ IsOne(x)
    <2>1. ExtendAsSupersetStep(call, x, T) = AddAllSubsets[<<x, T>>]
      BY <1>3 DEF ExtendAsSupersetStep, IsOne
    <2>2. <<x, T>> \in UnderCalls
      BY <1>3 DEF UnderCalls, ExtendCalls, IsTerminal
    <2>3. QED
      BY <2>1, <2>2, AddAllSubsetsExact
  <1>4. CASE ~IsZero(x) /\ T # {} /\ ~IsOne(x)
    <2> DEFINE v      == Val(x)
               lower  == {e \in T : e < v}
               higher == T \ lower
               rest   == higher \ {v}
               lo     == call[<<Lo(x), rest>>]
               hi     == call[<<Hi(x), rest>>]
               set    == IF higher = {} THEN x
                         ELSE IF v \notin higher THEN GetNode(v, lo, hi)
                         ELSE GetNode(v, lo, Union[<<hi, lo>>])
    <2>1. ~IsTerminal(x)
      BY <1>4 DEF IsTerminal
    <2>2. ExtendAsSupersetStep(call, x, T) = AddAllSubsets[<<set, lower>>]
      BY <1>4 DEF ExtendAsSupersetStep
    <2>3. /\ v \in Elements /\ v \in Nat /\ Lo(x) \in Diagrams /\ Hi(x) \in Diagrams
          /\ Rank(Lo(x)) < Rank(x) /\ Rank(Hi(x)) < Rank(x)
          /\ Off(v, A) = Family[Lo(x)] /\ On(v, A) = Family[Hi(x)]
          /\ A \in SUBSET AtLeast(v)
      <3>1. Val(x) \in Elements /\ Lo(x) \in Diagrams /\ Hi(x) \in Diagrams
        BY <2>1, DiagramParts
      <3>2. QED
        BY <2>1, <3>1, NodeCalls
    <2>4. rest \in SUBSET Elements /\ lower \in SUBSET Elements /\ lower \cup higher = T
      OBVIOUS
    <2>5. higher \in AtLeast(v)
      BY <2>3, TopExact DEF AtLeast
    <2>6. Is(lo, Grown(rest, Off(v, A))) /\ Is(hi, Grown(rest, On(v, A)))
      <3>1. <<Lo(x), rest>> \in ExtendCalls /\ <<Hi(x), rest>> \in ExtendCalls
        BY <2>3, <2>4 DEF ExtendCalls
      <3> HIDE DEF rest
      <3>2. /\ Is(lo, Grown(rest, Family[Lo(x)]))
            /\ Is(hi, Grown(rest, Family[Hi(x)]))
        BY <2>3, <3>1
      <3>3. QED
        BY <2>3, <3>2
    <2>7. Grown(higher, A) \in SUBSET AtLeast(v)
      <3> HIDE DEF A, v, higher
      <3>1. QED
        BY <2>3, <2>5, GrownFamilies
    <2>8. Is(set, Grown(higher, A))
      <3>1. CASE higher = {}
        <4>1. Grown({}, A) = A
          BY GrownNothing
        <4>2. set = x
          BY <3>1
        <4>3. QED
          BY <1>1, <3>1, <4>1, <4>2
      <3>2. CASE higher # {} /\ v \notin higher
        <4>1. set = GetNode(v, lo, hi)
          BY <3>2
        <4> HIDE DEF A, v, lo, hi, set, higher
        <4>2. /\ Off(v, Grown(higher, A)) = Grown(rest, Off(v, A))
              /\ On(v, Grown(higher, A)) = Grown(rest, On(v, A))
          BY <3>2, GrownCofactors
        <4> HIDE DEF rest
        <4>3. QED
          BY <2>3, <2>6, <2>7, <4>1, <4>2, IsByCofactors
      <3>3. CASE higher # {} /\ v \in higher
        <4>1. set = GetNode(v, lo, Union[<<hi, lo>>])
          BY <3>3
        <4> HIDE DEF A, v, lo, hi, set, higher
        <4>2. /\ Off(v, Grown(higher, A)) = Grown(rest, Off(v, A))
              /\ On(v, Grown(higher, A)) = Either(Grown(rest, On(v, A)), Grown(rest, Off(v, A)))
          BY <3>3, GrownCofactors
        <4> HIDE DEF rest
        <4>3. Is(Union[<<hi, lo>>], Either(Grown(rest, On(v, A)), Grown(rest, Off(v, A))))
          BY <2>6, UnionExact DEF Is
        <4>4. QED
          BY <2>3, <2>6, <2>7, <4>1, <4>2, <4>3, IsByCofactors
      <3>4. QED
        BY <3>1, <3>2, <3>3
    <2>9. \A e \in lower : e \in Nat /\ e < v
      BY TopExact
    <2> HIDE DEF set, A, v, lower, higher
    <2>10. set \in Diagrams /\ Family[set] = Grown(higher, A) /\ set \in From(v)
      BY <2>3, <2>7, <2>8, StartsAt DEF Is
    <2>11. <<set, lower>> \in UnderCalls
      <3>1. IsTerminal(set) \/ (Val(set) \in Nat /\ Val(set) >= v)
        BY <2>10, DiagramParts DEF From
      <3>2. IsTerminal(set) \/ \A e \in lower : e < Val(set)
        BY <2>3, <2>9, <3>1
      <3>3. <<set, lower>> \in ExtendCalls
        BY <2>4, <2>10 DEF ExtendCalls
      <3>4. QED
        BY <3>2, <3>3 DEF UnderCalls
    <2>12. Is(AddAllSubsets[<<set, lower>>], Grown(lower, Grown(higher, A)))
      BY <2>10, <2>11, AddAllSubsetsExact
    <2>13. Grown(lower, Grown(higher, A)) = Grown(T, A)
      BY <2>4, GrownTwice
    <2>14. QED
      BY <2>2, <2>12, <2>13 DEF A
  <1>5. QED
    BY <1>2, <1>3, <1>4

IsExtendAsSuperset(u) == u = [p \in ExtendCalls |-> ExtendAsSupersetStep(u, p[1], p[2])]

LEMMA ExtendAsSupersetExact ==
  \A x \in Diagrams, T \in SUBSET Elements : Is(ExtendAsSuperset[<<x, T>>], Grown(T, Family[x]))
  <1> DEFINE A(p) == Grown(p[2], Family[p[1]])
             S == [p \in ExtendCalls |-> Diagram(A(p))]
             Good == {p \in ExtendCalls : Is(ExtendAsSuperset[p], A(p))}
  <1>1. \A p \in ExtendCalls : A(p) \in Families
    BY ExtendParts, FamilyOver, GrownFamilies
  <1>2. ASSUME NEW u, NEW p \in ExtendCalls,
               \A q \in ExtendCalls : Rank(q[1]) < Rank(p[1]) => Is(u[q], A(q))
        PROVE  Is(ExtendAsSupersetStep(u, p[1], p[2]), A(p))
    BY <1>2, ExtendParts, ExtendAsSupersetStepExact
  <1> HIDE DEF A
  <1>3. \A p \in ExtendCalls : Is(S[p], A(p)) /\ S[p] = ExtendAsSupersetStep(S, p[1], p[2])
    <2>1. \A p \in ExtendCalls : Is(S[p], A(p))
      BY <1>1, Unique
    <2> HIDE DEF S
    <2>2. QED
      BY <1>1, <1>2, <2>1, Unique
  <1>4. IsExtendAsSuperset(S)
    BY <1>3 DEF IsExtendAsSuperset
  <1>5. IsExtendAsSuperset(ExtendAsSuperset)
    <2> HIDE DEF S
    <2>1. QED
      BY <1>4 DEF ExtendAsSuperset, IsExtendAsSuperset
  <1>6. ExtendCalls \subseteq Good
    <2>1. \A p \in ExtendCalls : ExtendAsSuperset[p] = ExtendAsSupersetStep(ExtendAsSuperset, p[1], p[2])
      BY <1>5 DEF IsExtendAsSuperset
    <2>2. ASSUME NEW p \in ExtendCalls, \A q \in ExtendCalls : Rank(q[1]) < Rank(p[1]) => q \in Good
          PROVE  p \in Good
      BY <1>2, <2>1, <2>2
    <2> HIDE DEF Good
    <2>3. QED
      BY <2>2, ExtendInduction
  <1>7. QED
    BY <1>6, ExtendParts DEF ExtendCalls, A


-----------------------------------------------------------------------------
(***************************************************************************)
(* join                                                                    *)
(***************************************************************************)
LEMMA ProductMembers ==
  ASSUME NEW A, NEW B, NEW s
  PROVE  s \in Product(A, B) <=> \E a \in A, b \in B : s = a \cup b
  BY DEF Product

LEMMA ProductCofactors ==
  ASSUME NEW v, NEW A, NEW B
  PROVE  /\ Off(v, Product(A, B)) = Product(Off(v, A), Off(v, B))
         /\ On(v, Product(A, B))
              = Either(Either(Product(On(v, A), On(v, B)), Product(On(v, A), Off(v, B))),
                       Product(Off(v, A), On(v, B)))
  <1>1. ASSUME NEW s
        PROVE  s \in Off(v, Product(A, B)) <=> s \in Product(Off(v, A), Off(v, B))
    <2>1. ASSUME s \in Off(v, Product(A, B)) PROVE s \in Product(Off(v, A), Off(v, B))
      <3>1. v \notin s /\ s \in Product(A, B)
        BY <2>1, OffMembers
      <3>2. PICK a \in A, b \in B : s = a \cup b
        BY <3>1, ProductMembers
      <3>3. a \in Off(v, A) /\ b \in Off(v, B)
        BY <3>1, <3>2, OffMembers
      <3>4. QED
        BY <3>2, <3>3, ProductMembers
    <2>2. ASSUME s \in Product(Off(v, A), Off(v, B)) PROVE s \in Off(v, Product(A, B))
      <3>1. PICK a \in Off(v, A), b \in Off(v, B) : s = a \cup b
        BY <2>2, ProductMembers
      <3>2. a \in A /\ b \in B /\ v \notin a /\ v \notin b
        BY OffMembers
      <3>3. s \in Product(A, B) /\ v \notin s
        BY <3>1, <3>2, ProductMembers
      <3>4. QED
        BY <3>3, OffMembers
    <2>3. QED
      BY <2>1, <2>2
  <1> DEFINE P == Product(On(v, A), On(v, B))
             Q == Product(On(v, A), Off(v, B))
             R == Product(Off(v, A), On(v, B))
  <1>2. ASSUME NEW s \in On(v, Product(A, B)) PROVE s \in P \/ s \in Q \/ s \in R
    <2> DEFINE sv == s \cup {v}
    <2>1. v \notin s /\ sv \in Product(A, B)
      BY OnMembers
    <2>2. PICK a \in A, b \in B : sv = a \cup b
      BY <2>1, ProductMembers
    <2> DEFINE c == a \ {v}
               d == b \ {v}
    <2>3. s = c \cup d /\ (v \in a \/ v \in b)
      BY <2>1, <2>2
    <2>4. /\ v \in a => c \in On(v, A)
          /\ v \in b => d \in On(v, B)
      BY DEF On
    <2>5. /\ v \notin a => c = a
          /\ v \notin b => d = b
      OBVIOUS
    <2>6. /\ v \notin a => a \in Off(v, A)
          /\ v \notin b => b \in Off(v, B)
      BY OffMembers
    <2> HIDE DEF c, d
    <2>7. CASE v \in a /\ v \in b
      BY <2>3, <2>4, <2>7, ProductMembers
    <2>8. CASE v \in a /\ v \notin b
      BY <2>3, <2>4, <2>5, <2>6, <2>8, ProductMembers
    <2>9. CASE v \notin a /\ v \in b
      BY <2>3, <2>4, <2>5, <2>6, <2>9, ProductMembers
    <2>10. QED
      BY <2>3, <2>7, <2>8, <2>9
  <1>3. ASSUME NEW s, s \in P \/ s \in Q \/ s \in R PROVE s \in On(v, Product(A, B))
    <2> DEFINE sv == s \cup {v}
    <2>1. ASSUME NEW a, NEW b, NEW c \in A, NEW d \in B, s = a \cup b, v \notin a, v \notin b,
                 sv = c \cup d
          PROVE  s \in On(v, Product(A, B))
      <3>1. sv \in Product(A, B)
        <4> HIDE DEF sv
        <4>1. QED
          BY <2>1, ProductMembers
      <3>2. v \notin s
        BY <2>1
      <3>3. QED
        BY <3>1, <3>2, OnMembers
    <2>2. CASE s \in P
      <3>1. PICK a \in On(v, A), b \in On(v, B) : s = a \cup b
        BY <2>2, ProductMembers
      <3> DEFINE c == a \cup {v}
                 d == b \cup {v}
      <3>2. v \notin a /\ v \notin b /\ c \in A /\ d \in B
        BY OnMembers
      <3>3. sv = c \cup d
        BY <3>1
      <3> HIDE DEF sv, c, d
      <3>4. QED
        BY <2>1, <3>1, <3>2, <3>3
    <2>3. CASE s \in Q
      <3>1. PICK a \in On(v, A), b \in Off(v, B) : s = a \cup b
        BY <2>3, ProductMembers
      <3> DEFINE c == a \cup {v}
      <3>2. v \notin a /\ v \notin b /\ c \in A /\ b \in B
        BY OnMembers, OffMembers
      <3>3. sv = c \cup b
        BY <3>1
      <3> HIDE DEF sv, c
      <3>4. QED
        BY <2>1, <3>1, <3>2, <3>3
    <2>4. CASE s \in R
      <3>1. PICK a \in Off(v, A), b \in On(v, B) : s = a \cup b
        BY <2>4, ProductMembers
      <3> DEFINE d == b \cup {v}
      <3>2. v \notin a /\ v \notin b /\ a \in A /\ d \in B
        BY OnMembers, OffMembers
      <3>3. sv = a \cup d
        BY <3>1
      <3> HIDE DEF sv, d
      <3>4. QED
        BY <2>1, <3>1, <3>2, <3>3
    <2>5. QED
      BY <1>3, <2>2, <2>3, <2>4
  <1>4. \A s : s \in Either(Either(P, Q), R) <=> s \in P \/ s \in Q \/ s \in R
    BY DEF Either
  <1> HIDE DEF P, Q, R
  <1>5. On(v, Product(A, B)) = Either(Either(P, Q), R)
    BY <1>2, <1>3, <1>4
  <1>6. Off(v, Product(A, B)) = Product(Off(v, A), Off(v, B))
    BY <1>1
  <1>7. QED
    BY <1>5, <1>6 DEF P, Q, R

LEMMA ProductSets ==
  /\ \A A : Product(A, {}) = {} /\ Product({}, A) = {}
  /\ \A A : Product(A, {{}}) = A /\ Product({{}}, A) = A
  /\ \A A, B : Product(A, B) = Product(B, A)
  <1>1. \A A : Product(A, {}) = {} /\ Product({}, A) = {}
    BY DEF Product
  <1>2. ASSUME NEW A PROVE Product(A, {{}}) = A /\ Product({{}}, A) = A
    <2>1. \A s : s \cup {} = s /\ {} \cup s = s
      OBVIOUS
    <2>2. QED
      BY <2>1 DEF Product
  <1>3. ASSUME NEW A, NEW B PROVE Product(A, B) \subseteq Product(B, A)
    <2>1. \A a, b : a \cup b = b \cup a
      OBVIOUS
    <2>2. QED
      BY <2>1 DEF Product
  <1>4. \A A, B : Product(A, B) = Product(B, A)
    <2>1. ASSUME NEW A, NEW B PROVE Product(A, B) = Product(B, A)
      <3>1. Product(A, B) \subseteq Product(B, A) /\ Product(B, A) \subseteq Product(A, B)
        BY <1>3
      <3>2. QED
        BY <3>1
    <2>2. QED
      BY <2>1
  <1>5. QED
    BY <1>1, <1>2, <1>4

LEMMA ProductFamilies ==
  /\ \A A, B \in Families : Product(A, B) \in Families
  /\ \A v : \A A, B \in SUBSET AtLeast(v) : Product(A, B) \in SUBSET AtLeast(v)
  BY DEF Product, Families, AtLeast

\* Of pairs with the same sum of ranks, those are last whose first starts
\* after the second.
JoinRank(p) == 2 * (Rank(p[1]) + Rank(p[2])) + (IF Rank(p[1]) < Rank(p[2]) THEN 1 ELSE 0)

LEMMA JoinRanks ==
  /\ \A p \in Pairs : JoinRank(p) \in Nat
  /\ \A x, y, u, w \in Diagrams :
       /\ Rank(u) + Rank(w) < Rank(x) + Rank(y) => JoinRank(<<u, w>>) < JoinRank(<<x, y>>)
       /\ Rank(x) < Rank(y) => JoinRank(<<y, x>>) < JoinRank(<<x, y>>)
  BY Ranks DEF JoinRank, Pairs

LEMMA JoinInduction ==
  ASSUME NEW S,
         \A p \in Pairs : (\A q \in Pairs : JoinRank(q) < JoinRank(p) => q \in S) => p \in S
  PROVE  Pairs \subseteq S
  <1> DEFINE rank == [p \in Pairs |-> JoinRank(p)]
  <1>1. rank \in [Pairs -> Nat]
    BY JoinRanks
  <1>2. \A p \in Pairs : (\A q \in Pairs : rank[q] < rank[p] => q \in S) => p \in S
    OBVIOUS
  <1> HIDE DEF rank
  <1>3. QED
    BY <1>1, <1>2, RankInduction

LEMMA JoinStepExact ==
  ASSUME NEW call, NEW x \in Diagrams, NEW y \in Diagrams,
         \A p \in Pairs : JoinRank(p) < JoinRank(<<x, y>>)
                            => Is(call[p], Product(Family[p[1]], Family[p[2]]))
  PROVE  Is(JoinStep(call, x, y), Product(Family[x], Family[y]))
  <1> DEFINE A == Family[x]
             B == Family[y]
  <1>0. Is(x, A) /\ Is(y, B)
    BY Unique
  <1>1. CASE IsTerminal(x) \/ IsTerminal(y)
    <2>1. IsZero(x) \/ IsZero(y) => JoinStep(call, x, y) = Zero /\ (A = {} \/ B = {})
      BY FamilyParts DEF JoinStep, IsZero
    <2>2. ~IsZero(x) /\ ~IsZero(y) /\ IsOne(y) => JoinStep(call, x, y) = x /\ B = {{}}
      BY FamilyParts DEF JoinStep, IsOne
    <2>3. ~IsZero(x) /\ ~IsZero(y) /\ ~IsOne(y) /\ IsOne(x)
            => JoinStep(call, x, y) = y /\ A = {{}}
      BY FamilyParts DEF JoinStep, IsOne
    <2> HIDE DEF A, B
    <2>4. CASE IsZero(x) \/ IsZero(y)
      BY <2>1, <2>4, ProductSets, TerminalsAre DEF A, B
    <2>5. CASE ~IsZero(x) /\ ~IsZero(y) /\ IsOne(y)
      BY <1>0, <2>2, <2>5, ProductSets DEF A, B
    <2>6. CASE ~IsZero(x) /\ ~IsZero(y) /\ ~IsOne(y) /\ IsOne(x)
      BY <1>0, <2>3, <2>6, ProductSets DEF A, B
    <2>7. QED
      BY <1>1, <2>4, <2>5, <2>6 DEF IsTerminal
  <1>2. CASE ~IsTerminal(x) /\ ~IsTerminal(y) /\ Val(x) > Val(y)
    <2>1. JoinStep(call, x, y) = call[<<y, x>>]
      BY <1>2 DEF JoinStep, IsTerminal
    <2>2. Rank(x) < Rank(y)
      BY <1>2, DiagramParts, TopExact DEF Rank
    <2>3. <<y, x>> \in Pairs /\ JoinRank(<<y, x>>) < JoinRank(<<x, y>>)
      BY <2>2, JoinRanks DEF Pairs
    <2>4. Is(call[<<y, x>>], Product(B, A))
      BY <2>3
    <2> HIDE DEF A, B
    <2>5. Product(B, A) = Product(A, B)
      BY ProductSets
    <2>6. QED
      BY <2>1, <2>4, <2>5 DEF A, B
  <1>3. CASE ~IsTerminal(x) /\ ~IsTerminal(y) /\ ~(Val(x) > Val(y))
    <2>1. Val(x) \in Nat /\ Val(y) \in Nat
      BY <1>3, DiagramParts
    <2>2. PICK v : IsTop(v, x, y)
      BY <1>3, TopOfTwo
    <2>3. v = Val(x) /\ v \in Elements /\ v \in Nat /\ x \in From(v) /\ y \in From(v)
      BY <1>3, <2>1, <2>2 DEF IsTop
    <2> DEFINE a == call[<<HiAt(v, x), HiAt(v, y)>>]
               b == call[<<HiAt(v, x), LoAt(v, y)>>]
               c == call[<<LoAt(v, x), HiAt(v, y)>>]
               d == call[<<LoAt(v, x), LoAt(v, y)>>]
               n == GetNode(v, Zero, Union[<<Union[<<a, b>>], c>>])
    <2>4. JoinStep(call, x, y) = Union[<<n, d>>]
      <3>1. LoAt(v, x) = Lo(x) /\ HiAt(v, x) = Hi(x)
        BY <1>3, <2>3 DEF LoAt, HiAt
      <3>2. /\ LoAt(v, y) = IF Val(x) = Val(y) THEN Lo(y) ELSE y
            /\ HiAt(v, y) = IF Val(x) = Val(y) THEN Hi(y) ELSE Zero
        BY <1>3, <2>3 DEF LoAt, HiAt
      <3>3. QED
        BY <1>3, <2>3, <3>1, <3>2 DEF JoinStep, IsTerminal
    <2>5. ASSUME NEW u \in {LoAt(v, x), HiAt(v, x)}, NEW w \in {LoAt(v, y), HiAt(v, y)}
          PROVE  Is(call[<<u, w>>], Product(Family[u], Family[w]))
      <3>1. <<u, w>> \in Pairs /\ JoinRank(<<u, w>>) < JoinRank(<<x, y>>)
        BY <2>2, TopRanks, JoinRanks
      <3>2. QED
        BY <3>1
    <2>6. /\ Is(a, Product(On(v, A), On(v, B))) /\ Is(b, Product(On(v, A), Off(v, B)))
          /\ Is(c, Product(Off(v, A), On(v, B))) /\ Is(d, Product(Off(v, A), Off(v, B)))
      <3>1. /\ Family[LoAt(v, x)] = Off(v, A) /\ Family[HiAt(v, x)] = On(v, A)
            /\ Family[LoAt(v, y)] = Off(v, B) /\ Family[HiAt(v, y)] = On(v, B)
        BY <2>3, CofactorsAt
      <3>2. QED
        BY <2>5, <3>1
    <2>7. A \in SUBSET AtLeast(v) /\ B \in SUBSET AtLeast(v)
      BY <2>3, CofactorsAt
    <2> DEFINE C == Product(A, B)
               o == Union[<<Union[<<a, b>>], c>>]
    <2> HIDE DEF A, B, a, b, c, d
    <2>8. Is(o, On(v, C)) /\ Is(d, Off(v, C))
      <3> DEFINE U == Product(On(v, A), On(v, B))
                 V == Product(On(v, A), Off(v, B))
                 W == Product(Off(v, A), On(v, B))
      <3>1. On(v, C) = Either(Either(U, V), W) /\ Off(v, C) = Product(Off(v, A), Off(v, B))
        BY ProductCofactors
      <3>2. Is(a, U) /\ Is(b, V) /\ Is(c, W)
        BY <2>6
      <3> HIDE DEF U, V, W
      <3>3. Is(Union[<<a, b>>], Either(U, V))
        BY <3>2, UnionExact DEF Is
      <3>4. Is(o, Either(Either(U, V), W))
        BY <3>2, <3>3, UnionExact DEF Is
      <3>5. QED
        BY <2>6, <3>1, <3>4
    <2>9. C \in SUBSET AtLeast(v)
      BY <2>7, ProductFamilies
    <2> HIDE DEF C, o
    <2>10. On(v, C) \in SUBSET Over(v) /\ {} \in SUBSET Over(v)
      BY <2>3, <2>9, OverAtLeast
    <2>11. Is(n, With(v, On(v, C)))
      <3>1. Is(GetNode(v, Zero, o), {} \cup With(v, On(v, C)))
        BY <2>3, <2>8, <2>10, TerminalsAre, IsNode
      <3>2. {} \cup With(v, On(v, C)) = With(v, On(v, C))
        OBVIOUS
      <3>3. QED
        BY <3>1, <3>2 DEF o
    <2> HIDE DEF n
    <2>12. Is(Union[<<n, d>>], Either(With(v, On(v, C)), Off(v, C)))
      BY <2>8, <2>11, UnionExact DEF Is
    <2>13. Either(With(v, On(v, C)), Off(v, C)) = C
      BY CofactorsJoin DEF Either
    <2>14. QED
      BY <2>4, <2>12, <2>13 DEF A, B, C
  <1>4. QED
    BY <1>1, <1>2, <1>3

IsJoin(u) == u = [p \in Pairs |-> JoinStep(u, p[1], p[2])]

\* join
LEMMA JoinExact ==
  \A x, y \in Diagrams : Is(Join[<<x, y>>], Product(Family[x], Family[y]))
  <1> DEFINE A(p) == Product(Family[p[1]], Family[p[2]])
             S == [p \in Pairs |-> Diagram(A(p))]
             Good == {p \in Pairs : Is(Join[p], A(p))}
  <1>1. \A p \in Pairs : A(p) \in Families
    BY PairParts, FamilyOver, ProductFamilies
  <1>2. ASSUME NEW u, NEW p \in Pairs,
               \A q \in Pairs : JoinRank(q) < JoinRank(p) => Is(u[q], A(q))
        PROVE  Is(JoinStep(u, p[1], p[2]), A(p))
    BY <1>2, PairParts, JoinStepExact
  <1> HIDE DEF A
  <1>3. \A p \in Pairs : Is(S[p], A(p)) /\ S[p] = JoinStep(S, p[1], p[2])
    <2>1. \A p \in Pairs : Is(S[p], A(p))
      BY <1>1, Unique
    <2> HIDE DEF S
    <2>2. QED
      BY <1>1, <1>2, <2>1, Unique
  <1>4. IsJoin(S)
    BY <1>3 DEF IsJoin
  <1>5. IsJoin(Join)
    <2> HIDE DEF S
    <2>1. QED
      BY <1>4 DEF Join, IsJoin
  <1>6. Pairs \subseteq Good
    <2>1. \A p \in Pairs : Join[p] = JoinStep(Join, p[1], p[2])
      BY <1>5 DEF IsJoin
    <2>2. ASSUME NEW p \in Pairs, \A q \in Pairs : JoinRank(q) < JoinRank(p) => q \in Good
          PROVE  p \in Good
      BY <1>2, <2>1, <2>2
    <2> HIDE DEF Good
    <2>3. QED
      BY <2>2, JoinInduction
  <1>7. QED
    BY <1>6, PairParts DEF Pairs, A

-----------------------------------------------------------------------------
(***************************************************************************)
(* Sizes of sets                                                           *)
(***************************************************************************)
LEMMA SetSizes ==
  /\ Cardinality(Elements) \in Nat
  /\ \A s \in SUBSET Elements : IsFiniteSet(s) /\ Cardinality(s) \in Nat
                                /\ Cardinality(s) <= Cardinality(Elements)
  /\ \A s, t \in SUBSET Elements : s \subseteq t => Cardinality(s) <= Cardinality(t)
  /\ \A s, t \in SUBSET Elements : s \subseteq t /\ Cardinality(s) = Cardinality(t) => s = t
  <1>1. \A s \in SUBSET Elements : IsFiniteSet(s) /\ Cardinality(s) <= Cardinality(Elements)
    BY ZddAssumption, FS_Subset
  <1>2. Cardinality(Elements) \in Nat
    BY ZddAssumption, FS_CardinalityType
  <1>3. \A s \in SUBSET Elements : Cardinality(s) \in Nat
    BY <1>1, FS_CardinalityType
  <1>4. \A s, t \in SUBSET Elements :
          s \subseteq t => (Cardinality(s) <= Cardinality(t)
                             /\ (Cardinality(t) = Cardinality(s) => t = s))
    <2>1. ASSUME NEW t \in SUBSET Elements, NEW s \in SUBSET t
          PROVE  /\ Cardinality(s) <= Cardinality(t)
                 /\ Cardinality(t) = Cardinality(s) => t = s
      BY <1>1, FS_Subset
    <2>2. QED
      BY <2>1
  <1>5. \A s, t \in SUBSET Elements : s \subseteq t => Cardinality(s) <= Cardinality(t)
    BY <1>4
  <1>6. \A s, t \in SUBSET Elements : s \subseteq t /\ Cardinality(s) = Cardinality(t) => s = t
    BY <1>4
  <1>7. QED
    BY <1>1, <1>2, <1>3, <1>5, <1>6

LEMMA ExtremeSets ==
  ASSUME NEW A \in Families, A # {}
  PROVE  /\ \E s \in A : \A t \in A : Cardinality(t) <= Cardinality(s)
         /\ \E s \in A : \A t \in A : Cardinality(s) <= Cardinality(t)
  <1> DEFINE N == {Cardinality(s) : s \in A}
  <1>1. \A s \in A : s \in SUBSET Elements
    BY DEF Families
  <1>2. /\ N \in SUBSET Nat /\ N # {}
        /\ Cardinality(Elements) \in Nat /\ \A n \in N : n <= Cardinality(Elements)
    BY <1>1, SetSizes
  <1>3. \A n : n \in N <=> \E s \in A : n = Cardinality(s)
    OBVIOUS
  <1> HIDE DEF N
  <1>4. Greatest(N) \in N /\ \A n \in N : Greatest(N) >= n
    BY <1>2, Greatests
  <1>5. Least(N) \in N /\ \A n \in N : Least(N) <= n
    BY <1>2, Leasts
  <1>6. PICK s \in A : Cardinality(s) = Greatest(N)
    BY <1>3, <1>4
  <1>7. PICK r \in A : Cardinality(r) = Least(N)
    BY <1>3, <1>5
  <1>8. \A t \in A : Cardinality(t) \in N /\ Cardinality(t) \in Nat
    BY <1>2, <1>3
  <1>9. \A t \in A : Cardinality(t) <= Cardinality(s)
    BY <1>4, <1>6, <1>8
  <1>10. \A t \in A : Cardinality(r) <= Cardinality(t)
    BY <1>5, <1>7, <1>8
  <1>11. QED
    BY <1>9, <1>10

-----------------------------------------------------------------------------
(***************************************************************************)
(* divide                                                                  *)
(***************************************************************************)

\* The quotient by the sets with v.
LEMMA QuotientCofactors ==
  ASSUME NEW v \in Elements, NEW A \in Families, NEW B \in Families
  PROVE  /\ QuotientOf(A, With(v, On(v, B))) = QuotientOf(On(v, A), On(v, B))
         /\ On(v, B) # {}
              => QuotientOf(A, B)
                   = Both(QuotientOf(On(v, A), On(v, B)), QuotientOf(Off(v, A), Off(v, B)))
  <1> DEFINE BW == With(v, On(v, B))
  <1>1. ASSUME NEW s, NEW b, v \notin b
        PROVE  (s \cap (b \cup {v}) = {} /\ s \cup (b \cup {v}) \in A)
                 <=> (s \cap b = {} /\ s \cup b \in On(v, A))
    <2> DEFINE c == s \cup b
               cv == c \cup {v}
    <2>1. s \cup (b \cup {v}) = cv
      OBVIOUS
    <2>2. c \in On(v, A) <=> v \notin c /\ cv \in A
      <3> HIDE DEF c
      <3>1. QED
        BY OnMembers
    <2>3. s \cap (b \cup {v}) = {} <=> s \cap b = {} /\ v \notin s
      OBVIOUS
    <2>4. v \notin c <=> v \notin s
      BY <1>1
    <2> HIDE DEF c, cv
    <2>5. QED
      BY <2>1, <2>2, <2>3, <2>4 DEF c
  <1>2. \A b \in On(v, B) : v \notin b
    BY OnMembers
  <1>3. ASSUME NEW s \in SUBSET Elements
        PROVE  s \in QuotientOf(A, BW) <=> s \in QuotientOf(On(v, A), On(v, B))
    <2>1. s \in QuotientOf(A, BW) <=> \A b \in On(v, B) : s \cap (b \cup {v}) = {} /\ s \cup (b \cup {v}) \in A
      <3>1. \A c : c \in BW <=> \E b \in On(v, B) : c = b \cup {v}
        BY DEF With
      <3> HIDE DEF BW
      <3>2. s \in QuotientOf(A, BW) <=> \A c \in BW : s \cap c = {} /\ s \cup c \in A
        BY DEF QuotientOf
      <3>3. ASSUME \A c \in BW : s \cap c = {} /\ s \cup c \in A, NEW b \in On(v, B)
            PROVE  s \cap (b \cup {v}) = {} /\ s \cup (b \cup {v}) \in A
        <4> DEFINE c == b \cup {v}
        <4>1. c \in BW
          BY <3>1
        <4> HIDE DEF c
        <4>2. s \cap c = {} /\ s \cup c \in A
          BY <3>3, <4>1
        <4>3. QED
          BY <4>2 DEF c
      <3>4. ASSUME \A b \in On(v, B) : s \cap (b \cup {v}) = {} /\ s \cup (b \cup {v}) \in A,
                   NEW c \in BW
            PROVE  s \cap c = {} /\ s \cup c \in A
        BY <3>1, <3>4
      <3>5. QED
        BY <3>2, <3>3, <3>4
    <2>2. s \in QuotientOf(On(v, A), On(v, B)) <=> \A b \in On(v, B) : s \cap b = {} /\ s \cup b \in On(v, A)
      BY DEF QuotientOf
    <2>3. QED
      BY <1>1, <1>2, <2>1, <2>2
  <1>4. \A C, D : QuotientOf(C, D) \subseteq SUBSET Elements
    BY DEF QuotientOf
  <1> HIDE DEF BW
  <1>5. QuotientOf(A, BW) = QuotientOf(On(v, A), On(v, B))
    BY <1>3, <1>4
  <1>6. ASSUME On(v, B) # {}
        PROVE  QuotientOf(A, B)
                 = Both(QuotientOf(On(v, A), On(v, B)), QuotientOf(Off(v, A), Off(v, B)))
    <2>1. ASSUME NEW s \in SUBSET Elements
          PROVE  s \in QuotientOf(A, B) <=> /\ s \in QuotientOf(A, BW)
                                            /\ s \in QuotientOf(A, Off(v, B))
      <3>1. B = Off(v, B) \cup BW
        BY CofactorsJoin DEF BW
      <3>2. QED
        BY <3>1 DEF QuotientOf
    <2>2. ASSUME NEW s \in SUBSET Elements, s \in QuotientOf(On(v, A), On(v, B))
          PROVE  s \in QuotientOf(A, Off(v, B)) <=> s \in QuotientOf(Off(v, A), Off(v, B))
      <3>1. PICK b \in On(v, B) : s \cup b \in On(v, A)
        BY <1>6, <2>2 DEF QuotientOf
      <3>2. v \notin s
        <4>1. \A t \in On(v, A) : v \notin t
          BY OnMembers
        <4>2. QED
          BY <3>1, <4>1
      <3>3. \A c \in Off(v, B) : s \cup c \in A <=> s \cup c \in Off(v, A)
        BY <3>2 DEF Off
      <3>4. QED
        BY <3>3 DEF QuotientOf
    <2> DEFINE Q == QuotientOf(On(v, A), On(v, B))
               R == QuotientOf(Off(v, A), Off(v, B))
               W == QuotientOf(A, B)
    <2>3. W \subseteq SUBSET Elements /\ Q \subseteq SUBSET Elements
      BY <1>4
    <2>4. \A s \in SUBSET Elements : s \in W <=> s \in Q /\ s \in R
      BY <1>5, <2>1, <2>2
    <2> HIDE DEF W, Q, R
    <2>5. W = Both(Q, R)
      BY <2>3, <2>4 DEF Both
    <2>6. QED
      BY <2>5 DEF W, Q, R
  <1>7. QED
    BY <1>5, <1>6 DEF BW

LEMMA QuotientNothing ==
  /\ \A A \in Families : QuotientOf(A, {{}}) = A
  /\ \A A, C : C \subseteq SUBSET Elements => Both(C, QuotientOf(A, {})) = C
  /\ \A A, B, b : b \in B /\ b # {} /\ A \subseteq {{}} => QuotientOf(A, B) = {}
  /\ \A A, B : QuotientOf(A, B) \in Families
  <1>1. ASSUME NEW A \in Families PROVE QuotientOf(A, {{}}) = A
    <2>1. \A s : s \cap {} = {} /\ s \cup {} = s
      OBVIOUS
    <2>2. QED
      BY <2>1 DEF QuotientOf, Families
  <1>2. ASSUME NEW A, NEW C, C \subseteq SUBSET Elements PROVE Both(C, QuotientOf(A, {})) = C
    BY <1>2 DEF QuotientOf, Both
  <1>3. ASSUME NEW A, NEW B, NEW b \in B, b # {}, A \subseteq {{}} PROVE QuotientOf(A, B) = {}
    <2>1. \A s : s \cup b # {}
      BY <1>3
    <2>2. \A s : s \cup b \notin A
      BY <1>3, <2>1
    <2>3. QED
      BY <1>3, <2>2 DEF QuotientOf
  <1>4. ASSUME NEW A, NEW B PROVE QuotientOf(A, B) \in Families
    <2>1. QuotientOf(A, B) \subseteq SUBSET Elements
      BY DEF QuotientOf
    <2>2. QED
      BY <2>1 DEF Families
  <1>5. QED
    BY <1>1, <1>2, <1>3, <1>4

\* A family divided by itself: only the empty set can be added to its largest
\* set.
LEMMA QuotientOfSelf ==
  ASSUME NEW A \in Families, A # {}
  PROVE  QuotientOf(A, A) = {{}}
  <1>1. PICK b \in A : \A t \in A : Cardinality(t) <= Cardinality(b)
    BY ExtremeSets
  <1>2. ASSUME NEW s \in QuotientOf(A, A) PROVE s = {}
    <2> DEFINE c == s \cup b
    <2>1. s \cap b = {} /\ c \in A
      BY DEF QuotientOf
    <2>2. c \in SUBSET Elements /\ b \in SUBSET Elements /\ b \subseteq c
      BY <2>1 DEF Families
    <2> HIDE DEF c
    <2>3. Cardinality(b) = Cardinality(c)
      BY <1>1, <2>1, <2>2, SetSizes
    <2>4. b = c
      BY <2>2, <2>3, SetSizes
    <2>5. QED
      BY <2>1, <2>4 DEF c
  <1>3. {} \in QuotientOf(A, A)
    <2>1. \A t : {} \cap t = {} /\ {} \cup t = t
      OBVIOUS
    <2>2. QED
      BY <2>1 DEF QuotientOf
  <1>4. QED
    BY <1>2, <1>3

\* What a division answers with; by Zero it may panic.
DivideIs(p, z) ==
  IF IsZero(p[2]) THEN z = IF IsTerminal(p[1]) THEN Zero ELSE Panic
  ELSE Is(z, QuotientOf(Family[p[1]], Family[p[2]]))

LEMMA SecondInduction ==
  ASSUME NEW S,
         \A p \in Pairs : (\A q \in Pairs : Rank(q[2]) < Rank(p[2]) => q \in S) => p \in S
  PROVE  Pairs \subseteq S
  <1> DEFINE rank == [p \in Pairs |-> Rank(p[2])]
  <1>1. rank \in [Pairs -> Nat]
    BY Ranks DEF Pairs
  <1>2. \A p \in Pairs : (\A q \in Pairs : rank[q] < rank[p] => q \in S) => p \in S
    OBVIOUS
  <1> HIDE DEF rank
  <1>3. QED
    BY <1>1, <1>2, RankInduction

LEMMA DivideStepExact ==
  ASSUME NEW call, NEW x \in Diagrams, NEW y \in Diagrams,
         \A p \in Pairs : Rank(p[2]) < Rank(y) => DivideIs(p, call[p])
  PROVE  DivideIs(<<x, y>>, DivideStep(call, x, y))
  <1> DEFINE A == Family[x]
             B == Family[y]
  <1>0. Is(x, A) /\ Is(y, B) /\ A \in Families /\ B \in Families
    BY Unique, FamilyOver
  <1>1. CASE IsZero(y)
    <2>1. ~IsOne(y) /\ x = y => IsTerminal(x)
      BY <1>1 DEF IsTerminal
    <2>2. ~IsOne(y)
      BY <1>1, TerminalDiagrams DEF IsZero
    <2>3. DivideStep(call, x, y) = IF IsTerminal(x) THEN Zero ELSE Panic
      BY <1>1, <2>1, <2>2 DEF DivideStep
    <2>4. QED
      BY <1>1, <2>3 DEF DivideIs
  <1>2. ASSUME ~IsZero(y), Is(DivideStep(call, x, y), QuotientOf(A, B))
        PROVE  DivideIs(<<x, y>>, DivideStep(call, x, y))
    BY <1>2 DEF DivideIs
  <1>3. CASE IsOne(y)
    <2>1. DivideStep(call, x, y) = x /\ B = {{}}
      BY <1>3, FamilyParts DEF DivideStep, IsOne
    <2> HIDE DEF A, B
    <2>2. QuotientOf(A, B) = A
      BY <1>0, <2>1, QuotientNothing
    <2>3. ~IsZero(y)
      BY <1>3, TerminalDiagrams DEF IsOne
    <2>4. QED
      BY <1>0, <1>2, <2>1, <2>2, <2>3 DEF A, B
  <1>4. CASE ~IsTerminal(y) /\ IsTerminal(x)
    <2>1. DivideStep(call, x, y) = Zero
      BY <1>4 DEF DivideStep, IsTerminal
    <2>2. PICK b \in B : Val(y) \in b
      BY <1>4, FamilyNotEmpty
    <2>3. A \subseteq {{}}
      BY <1>4, FamilyParts DEF IsTerminal, IsZero, IsOne
    <2> HIDE DEF A, B
    <2>4. QuotientOf(A, B) = {}
      BY <2>2, <2>3, QuotientNothing
    <2>5. QED
      BY <1>2, <1>4, <2>1, <2>4, TerminalsAre DEF A, B, IsTerminal
  <1>5. CASE ~IsTerminal(y) /\ ~IsTerminal(x) /\ x = y
    <2>1. DivideStep(call, x, y) = One
      BY <1>5 DEF DivideStep, IsTerminal
    <2>2. A = B /\ A # {}
      BY <1>5, FamilyNotEmpty
    <2> HIDE DEF A, B
    <2>3. QuotientOf(A, B) = {{}}
      BY <1>0, <2>2, QuotientOfSelf
    <2>4. QED
      BY <1>2, <1>5, <2>1, <2>3, TerminalsAre DEF A, B, IsTerminal
  <1>6. CASE ~IsTerminal(y) /\ ~IsTerminal(x) /\ x # y
    <2> DEFINE v == Val(y)
               r == call[<<Onset[<<x, v>>], Hi(y)>>]
               q == call[<<Offset[<<x, v>>], Lo(y)>>]
    <2>1. /\ v \in Elements /\ Lo(y) \in Diagrams /\ Hi(y) \in Diagrams /\ Hi(y) # Zero
          /\ Rank(Lo(y)) < Rank(y) /\ Rank(Hi(y)) < Rank(y)
          /\ Family[Lo(y)] = Off(v, B) /\ Family[Hi(y)] = On(v, B)
      <3>1. v \in Elements /\ Lo(y) \in Diagrams /\ Hi(y) \in Diagrams /\ Hi(y) # Zero
        BY <1>6, DiagramParts
      <3>2. QED
        BY <1>6, <3>1, NodeCalls
    <2>2. DivideStep(call, x, y) = IF IsZero(Lo(y)) /\ IsOne(Hi(y)) THEN Onset[<<x, v>>]
                                   ELSE IF IsZero(r) \/ IsZero(Lo(y)) THEN r
                                   ELSE Intersect[<<r, q>>]
      BY <1>6 DEF DivideStep, IsTerminal, ElementDivision, ElementRemainder
    <2>3. Is(Onset[<<x, v>>], On(v, A)) /\ Is(Offset[<<x, v>>], Off(v, A))
      BY <2>1, OnsetExact, OffsetExact
    <2>4. Is(r, QuotientOf(On(v, A), On(v, B)))
      <3>1. <<Onset[<<x, v>>], Hi(y)>> \in Pairs /\ ~IsZero(Hi(y))
        BY <2>1, <2>3 DEF Pairs, Is, IsZero
      <3>2. DivideIs(<<Onset[<<x, v>>], Hi(y)>>, r)
        BY <2>1, <3>1
      <3>3. Is(r, QuotientOf(Family[Onset[<<x, v>>]], Family[Hi(y)]))
        BY <3>1, <3>2 DEF DivideIs
      <3>4. QED
        BY <2>1, <2>3, <3>3 DEF Is
    <2>5. ~IsZero(Lo(y)) => Is(q, QuotientOf(Off(v, A), Off(v, B)))
      <3>1. <<Offset[<<x, v>>], Lo(y)>> \in Pairs
        BY <2>1, <2>3 DEF Pairs, Is
      <3>2. DivideIs(<<Offset[<<x, v>>], Lo(y)>>, q)
        BY <2>1, <3>1
      <3>3. ~IsZero(Lo(y)) => Is(q, QuotientOf(Family[Offset[<<x, v>>]], Family[Lo(y)]))
        BY <3>2 DEF DivideIs
      <3>4. QED
        BY <2>1, <2>3, <3>3 DEF Is
    <2>6. On(v, B) # {}
      BY <2>1, FamilyNotEmpty
    <2>7. IsZero(Lo(y)) => Off(v, B) = {}
      BY <2>1, FamilyParts DEF IsZero
    <2>8. IsOne(Hi(y)) => On(v, B) = {{}}
      BY <2>1, FamilyParts DEF IsOne
    <2>9. On(v, A) \in Families
      BY <1>0, <2>1, FamiliesOne
    <2> HIDE DEF A, B, v, r, q
    <2> DEFINE Q == QuotientOf(On(v, A), On(v, B))
               R == QuotientOf(Off(v, A), Off(v, B))
    <2>10. QuotientOf(A, B) = Both(Q, R) /\ Q \in Families /\ R \in Families
      <3>1. QuotientOf(A, B) = Both(Q, R)
        BY <1>0, <2>1, <2>6, QuotientCofactors
      <3>2. Q \in Families /\ R \in Families
        BY QuotientNothing
      <3>3. QED
        BY <3>1, <3>2
    <2>11. IsZero(Lo(y)) => Both(Q, R) = Q
      <3>1. Q \subseteq SUBSET Elements
        BY <2>10 DEF Families
      <3>2. Both(Q, QuotientOf(Off(v, A), {})) = Q
        <4> HIDE DEF Q
        <4>1. QED
          BY <3>1, QuotientNothing
      <3>3. QED
        BY <2>7, <3>2
    <2>12. IsOne(Hi(y)) => Q = On(v, A)
      BY <2>8, <2>9, QuotientNothing
    <2> HIDE DEF Q, R
    <2>13. Is(DivideStep(call, x, y), Both(Q, R))
      <3>1. CASE IsZero(Lo(y)) /\ IsOne(Hi(y))
        BY <2>2, <2>3, <2>11, <2>12, <3>1
      <3>2. CASE ~(IsZero(Lo(y)) /\ IsOne(Hi(y))) /\ IsZero(Lo(y))
        BY <2>2, <2>4, <2>11, <3>2 DEF Q
      <3>3. CASE ~IsZero(Lo(y)) /\ IsZero(r)
        <4>1. Is(r, Q) /\ DivideStep(call, x, y) = r
          BY <2>2, <2>4, <3>3 DEF Q
        <4>2. Q = {}
          BY <3>3, <4>1, IsTerminals
        <4>3. Both({}, R) = {}
          BY SetsOfEmpty
        <4>4. QED
          BY <4>1, <4>2, <4>3
      <3>4. CASE ~IsZero(Lo(y)) /\ ~IsZero(r)
        <4>1. Is(r, Q) /\ Is(q, R) /\ DivideStep(call, x, y) = Intersect[<<r, q>>]
          BY <2>2, <2>4, <2>5, <3>4 DEF Q, R
        <4>2. QED
          BY <4>1, IntersectExact DEF Is
      <3>5. QED
        BY <3>1, <3>2, <3>3, <3>4
    <2>14. QED
      BY <1>2, <1>6, <2>10, <2>13 DEF A, B, IsTerminal
  <1>7. QED
    BY <1>1, <1>3, <1>4, <1>5, <1>6 DEF IsTerminal

IsDivide(u) == u = [p \in Pairs |-> DivideStep(u, p[1], p[2])]

\* divide
LEMMA DivideExact ==
  \A x, y \in Diagrams : y # Zero => Is(Divide[<<x, y>>], QuotientOf(Family[x], Family[y]))
  <1> DEFINE Result(p) == CHOOSE z : DivideIs(p, z)
             S == [p \in Pairs |-> Result(p)]
             Good == {p \in Pairs : DivideIs(p, Divide[p])}
  <1>1. ASSUME NEW p \in Pairs PROVE DivideIs(p, Result(p))
    <2>1. \E z : DivideIs(p, z)
      <3>1. CASE IsZero(p[2])
        BY <3>1 DEF DivideIs
      <3>2. CASE ~IsZero(p[2])
        <4>1. QuotientOf(Family[p[1]], Family[p[2]]) \in Families
          BY QuotientNothing
        <4>2. \E z : Is(z, QuotientOf(Family[p[1]], Family[p[2]]))
          BY <4>1, Unique
        <4>3. QED
          BY <3>2, <4>2 DEF DivideIs
      <3>3. QED
        BY <3>1, <3>2
    <2>2. QED
      BY <2>1
  <1>2. ASSUME NEW p \in Pairs, NEW z, NEW u, DivideIs(p, z), DivideIs(p, u) PROVE z = u
    <2>1. QuotientOf(Family[p[1]], Family[p[2]]) \in Families
      BY QuotientNothing
    <2>2. \A a, b : (Is(a, QuotientOf(Family[p[1]], Family[p[2]]))
                       /\ Is(b, QuotientOf(Family[p[1]], Family[p[2]]))) => a = b
      BY <2>1, Unique
    <2>3. QED
      BY <1>2, <2>2 DEF DivideIs
  <1>3. ASSUME NEW u, NEW p \in Pairs,
               \A q \in Pairs : Rank(q[2]) < Rank(p[2]) => DivideIs(q, u[q])
        PROVE  DivideIs(p, DivideStep(u, p[1], p[2]))
    BY <1>3, PairParts, DivideStepExact
  <1>4. \A p \in Pairs : S[p] = DivideStep(S, p[1], p[2])
    <2>1. \A p \in Pairs : DivideIs(p, S[p])
      BY <1>1
    <2> HIDE DEF S
    <2>2. QED
      BY <1>2, <1>3, <2>1
  <1>5. IsDivide(S)
    BY <1>4 DEF IsDivide
  <1>6. IsDivide(Divide)
    <2> HIDE DEF S
    <2>1. QED
      BY <1>5 DEF Divide, IsDivide
  <1>7. Pairs \subseteq Good
    <2>1. \A p \in Pairs : Divide[p] = DivideStep(Divide, p[1], p[2])
      BY <1>6 DEF IsDivide
    <2>2. ASSUME NEW p \in Pairs, \A q \in Pairs : Rank(q[2]) < Rank(p[2]) => q \in Good
          PROVE  p \in Good
      BY <1>3, <2>1, <2>2
    <2> HIDE DEF Good
    <2>3. QED
      BY <2>2, SecondInduction
  <1>8. ASSUME NEW x \in Diagrams, NEW y \in Diagrams, y # Zero
        PROVE  Is(Divide[<<x, y>>], QuotientOf(Family[x], Family[y]))
    <2>1. <<x, y>> \in Pairs
      BY DEF Pairs
    <2>2. DivideIs(<<x, y>>, Divide[<<x, y>>])
      BY <1>7, <2>1
    <2>3. QED
      BY <1>8, <2>2 DEF DivideIs, IsZero
  <1>9. QED
    BY <1>8

LEMMA RemainderExact ==
  \A x, y \in Diagrams :
    y # Zero => Is(Remainder(x, y),
                   Less(Family[x], Product(Family[y], QuotientOf(Family[x], Family[y]))))
  <1>1. ASSUME NEW x \in Diagrams, NEW y \in Diagrams, y # Zero
        PROVE  Is(Remainder(x, y),
                  Less(Family[x], Product(Family[y], QuotientOf(Family[x], Family[y]))))
    <2> DEFINE d == Divide[<<x, y>>]
               j == Join[<<y, d>>]
    <2>1. Is(d, QuotientOf(Family[x], Family[y]))
      BY <1>1, DivideExact
    <2>2. Is(j, Product(Family[y], QuotientOf(Family[x], Family[y])))
      <3> HIDE DEF d
      <3>1. QED
        BY <2>1, JoinExact DEF Is
    <2>3. Remainder(x, y) = Difference[<<x, j>>]
      BY DEF Remainder
    <2> HIDE DEF j
    <2>4. QED
      BY <2>2, <2>3, DifferenceExact DEF Is
  <1>2. QED
    BY <1>1

-----------------------------------------------------------------------------
(***************************************************************************)
(* nonsup                                                                  *)
(***************************************************************************)
\* The sets of A without a subset in B, and those with one.
Without(A, B) == {s \in A : ~ \E t \in B : t \subseteq s}
Having(A, B)  == {s \in A : \E t \in B : t \subseteq s}

LEMMA SubsetsOf ==
  ASSUME NEW v, NEW B, NEW s, v \notin s
  PROVE  /\ (\E t \in B : t \subseteq s) <=> \E t \in Off(v, B) : t \subseteq s
         /\ (\E t \in B : t \subseteq s \cup {v})
              <=> (\E t \in Off(v, B) : t \subseteq s) \/ (\E t \in On(v, B) : t \subseteq s)
  <1>1. (\E t \in B : t \subseteq s) <=> \E t \in Off(v, B) : t \subseteq s
    BY DEF Off
  <1>2. ASSUME NEW t \in B, t \subseteq s \cup {v}
        PROVE  (\E u \in Off(v, B) : u \subseteq s) \/ (\E u \in On(v, B) : u \subseteq s)
    <2>1. CASE v \in t
      <3> DEFINE u == t \ {v}
      <3>1. u \in On(v, B)
        BY <2>1 DEF On
      <3>2. u \subseteq s
        BY <1>2
      <3>3. QED
        BY <3>1, <3>2
    <2>2. CASE v \notin t
      <3>1. t \in Off(v, B) /\ t \subseteq s
        BY <1>2, <2>2 DEF Off
      <3>2. QED
        BY <3>1
    <2>3. QED
      BY <2>1, <2>2
  <1>3. ASSUME NEW t \in Off(v, B), t \subseteq s PROVE \E u \in B : u \subseteq s \cup {v}
    BY <1>3 DEF Off
  <1>4. ASSUME NEW t \in On(v, B), t \subseteq s PROVE \E u \in B : u \subseteq s \cup {v}
    <2> DEFINE u == t \cup {v}
    <2>1. u \in B
      BY OnMembers
    <2>2. u \subseteq s \cup {v}
      BY <1>4
    <2>3. QED
      BY <2>1, <2>2
  <1>5. QED
    BY <1>1, <1>2, <1>3, <1>4

LEMMA SubsetCofactors ==
  ASSUME NEW v, NEW A, NEW B
  PROVE  /\ Off(v, Without(A, B)) = Without(Off(v, A), Off(v, B))
         /\ On(v, Without(A, B))
              = Both(Without(On(v, A), Off(v, B)), Without(On(v, A), On(v, B)))
         /\ Off(v, Having(A, B)) = Having(Off(v, A), Off(v, B))
         /\ On(v, Having(A, B)) = Having(On(v, A), Either(On(v, B), Off(v, B)))
  <1>1. ASSUME NEW s
        PROVE  /\ s \in Off(v, Without(A, B)) <=> s \in Without(Off(v, A), Off(v, B))
               /\ s \in Off(v, Having(A, B)) <=> s \in Having(Off(v, A), Off(v, B))
    <2>1. v \notin s => ((\E t \in B : t \subseteq s) <=> \E t \in Off(v, B) : t \subseteq s)
      BY SubsetsOf
    <2>2. \A C : s \in Off(v, C) <=> v \notin s /\ s \in C
      BY OffMembers
    <2>3. \A C, D : /\ s \in Without(C, D) <=> s \in C /\ ~ \E t \in D : t \subseteq s
                    /\ s \in Having(C, D) <=> s \in C /\ \E t \in D : t \subseteq s
      BY DEF Without, Having
    <2>4. QED
      BY <2>1, <2>2, <2>3
  <1>2. ASSUME NEW s
        PROVE  /\ s \in On(v, Without(A, B))
                    <=> /\ s \in Without(On(v, A), Off(v, B))
                        /\ s \in Without(On(v, A), On(v, B))
               /\ s \in On(v, Having(A, B)) <=> s \in Having(On(v, A), Either(On(v, B), Off(v, B)))
    <2> DEFINE sv == s \cup {v}
    <2>1. v \notin s => ((\E t \in B : t \subseteq sv)
                           <=> ((\E t \in Off(v, B) : t \subseteq s) \/ (\E t \in On(v, B) : t \subseteq s)))
      BY SubsetsOf
    <2>2. \A C : s \in On(v, C) <=> v \notin s /\ sv \in C
      BY OnMembers
    <2>3. \A C, D, r : /\ r \in Without(C, D) <=> r \in C /\ ~ \E t \in D : t \subseteq r
                       /\ r \in Having(C, D) <=> r \in C /\ \E t \in D : t \subseteq r
      BY DEF Without, Having
    <2>4. (\E t \in Either(On(v, B), Off(v, B)) : t \subseteq s)
             <=> ((\E t \in Off(v, B) : t \subseteq s) \/ (\E t \in On(v, B) : t \subseteq s))
      BY DEF Either
    <2> HIDE DEF sv
    <2>5. QED
      BY <2>1, <2>2, <2>3, <2>4
  <1>3. \A C, D, s : s \in Both(C, D) <=> s \in C /\ s \in D
    BY DEF Both
  <1>4. On(v, Without(A, B)) = Both(Without(On(v, A), Off(v, B)), Without(On(v, A), On(v, B)))
    BY <1>2, <1>3
  <1>5. On(v, Having(A, B)) = Having(On(v, A), Either(On(v, B), Off(v, B)))
    BY <1>2
  <1>6. QED
    BY <1>1, <1>4, <1>5

LEMMA SubsetFamilies ==
  ASSUME NEW A, NEW B
  PROVE  /\ A \in Families => Without(A, B) \in Families /\ Having(A, B) \in Families
         /\ \A v : A \in SUBSET AtLeast(v) =>
                     Without(A, B) \in SUBSET AtLeast(v) /\ Having(A, B) \in SUBSET AtLeast(v)
         /\ Without(A, {}) = A /\ Without({}, B) = {} /\ Having(A, {}) = {} /\ Having({}, B) = {}
         /\ {} \in B => Without(A, B) = {} /\ Having(A, B) = A
         /\ Without(A, A) = {} /\ Having(A, A) = A
         /\ Both(A, A) = A
  BY DEF Without, Having, Families, Both

LEMMA NonsupStepExact ==
  ASSUME NEW call, NEW x \in Diagrams, NEW y \in Diagrams,
         \A p \in Pairs : PairRank(p) < PairRank(<<x, y>>)
                            => Is(call[p], Without(Family[p[1]], Family[p[2]]))
  PROVE  Is(NonsupStep(call, x, y), Without(Family[x], Family[y]))
  <1> DEFINE A == Family[x]
             B == Family[y]
  <1>0. Is(x, A) /\ Is(y, B)
    BY Unique
  <1>1. CASE IsZero(y)
    <2>1. NonsupStep(call, x, y) = x /\ B = {}
      BY <1>1, FamilyParts DEF NonsupStep, IsZero
    <2>2. QED
      BY <1>0, <2>1, SubsetFamilies
  <1>2. CASE ~IsZero(y) /\ (IsZero(x) \/ IsOne(y) \/ x = y)
    <2>1. NonsupStep(call, x, y) = Zero
      BY <1>2 DEF NonsupStep
    <2>2. A = {} \/ {} \in B \/ A = B
      BY <1>2, FamilyParts DEF IsZero, IsOne
    <2> HIDE DEF A, B
    <2>3. Without(A, B) = {}
      BY <2>2, SubsetFamilies
    <2>4. QED
      BY <2>1, <2>3, TerminalsAre DEF A, B
  <1>3. CASE ~IsZero(y) /\ ~IsZero(x) /\ ~IsOne(y) /\ x # y /\ IsOne(x)
    <2>1. ~IsTerminal(y)
      BY <1>3 DEF IsTerminal
    <2>2. Lo(y) \in Diagrams /\ ({} \in Family[Lo(y)] <=> {} \in B)
      BY <2>1, DiagramParts, FamilyParts DEF With
    <2>3. NonsupStep(call, x, y) = IF {} \in B THEN Zero ELSE x
      BY <1>3, <2>2, ContainsEmptySetExact DEF NonsupStep
    <2>4. A = {{}}
      BY <1>0, <1>3, IsTerminals
    <2>5. {} \notin B => Without({{}}, B) = {{}}
      BY DEF Without
    <2> HIDE DEF A, B
    <2>6. {} \in B => Without(A, B) = {}
      BY SubsetFamilies
    <2>7. CASE {} \in B
      BY <2>3, <2>6, <2>7, TerminalsAre DEF A, B
    <2>8. CASE {} \notin B
      <3>1. Without(A, B) = A
        BY <2>4, <2>5, <2>8
      <3>2. NonsupStep(call, x, y) = x
        BY <2>3, <2>8
      <3>3. QED
        BY <1>0, <3>1, <3>2 DEF A, B
    <2>9. QED
      BY <2>7, <2>8
  <1>4. CASE ~IsZero(y) /\ ~IsZero(x) /\ ~IsOne(y) /\ x # y /\ ~IsOne(x)
    <2>1. ~IsTerminal(y) /\ ~IsTerminal(x)
      BY <1>4 DEF IsTerminal
    <2>2. PICK v : IsTop(v, x, y)
      BY <2>1, TopOfTwo
    <2>3. v \in Elements /\ x \in From(v) /\ y \in From(v)
      BY <2>2 DEF IsTop
    <2> DEFINE lo == call[<<LoAt(v, x), LoAt(v, y)>>]
               a  == call[<<HiAt(v, x), LoAt(v, y)>>]
               b  == call[<<HiAt(v, x), HiAt(v, y)>>]
               C  == Without(A, B)
               P  == Without(On(v, A), Off(v, B))
               Q  == Without(On(v, A), On(v, B))
    <2>4. /\ Is(lo, Without(Off(v, A), Off(v, B))) /\ Is(a, P) /\ Is(b, Q)
          /\ Family[LoAt(v, x)] = Off(v, A) /\ Family[HiAt(v, x)] = On(v, A)
          /\ Family[HiAt(v, y)] = On(v, B)
          /\ A \in SUBSET AtLeast(v)
      <3>1. ASSUME NEW u \in {LoAt(v, x), HiAt(v, x)}, NEW w \in {LoAt(v, y), HiAt(v, y)}
            PROVE  Is(call[<<u, w>>], Without(Family[u], Family[w]))
        <4>1. <<u, w>> \in Pairs /\ PairRank(<<u, w>>) < PairRank(<<x, y>>)
          BY <2>2, TopRanks
        <4>2. QED
          BY <4>1
      <3>2. /\ Family[LoAt(v, x)] = Off(v, A) /\ Family[HiAt(v, x)] = On(v, A)
            /\ Family[LoAt(v, y)] = Off(v, B) /\ Family[HiAt(v, y)] = On(v, B)
            /\ A \in SUBSET AtLeast(v)
        BY <2>3, CofactorsAt
      <3>3. QED
        BY <3>1, <3>2
    <2>5. Off(v, C) = Without(Off(v, A), Off(v, B)) /\ On(v, C) = Both(P, Q)
      <3> HIDE DEF A, B
      <3>1. QED
        BY SubsetCofactors
    <2>6. C \in SUBSET AtLeast(v)
      <3> HIDE DEF A, B
      <3>1. QED
        BY <2>4, SubsetFamilies
    <2>7. CASE Val(x) > Val(y)
      <3>1. v = Val(y) /\ v # Val(x) /\ LoAt(v, x) = x /\ HiAt(v, x) = Zero /\ LoAt(v, y) = Lo(y)
        BY <2>1, <2>2, <2>7 DEF IsTop, LoAt, HiAt
      <3>2. NonsupStep(call, x, y) = lo
        BY <1>4, <2>7, <3>1 DEF NonsupStep
      <3>3. On(v, A) = {}
        BY <2>4, <3>1, FamilyParts
      <3> HIDE DEF lo, C, A, B
      <3>4. P = {}
        BY <3>3, SubsetFamilies
      <3>5. On(v, C) = {}
        BY <2>5, <3>4, SetsOfEmpty
      <3>6. QED
        BY <2>4, <2>5, <3>2, <3>5, OffOnly DEF A, B, C
    <2>8. CASE Val(x) < Val(y)
      <3>1. v = Val(x) /\ v # Val(y) /\ LoAt(v, x) = Lo(x) /\ HiAt(v, x) = Hi(x)
               /\ LoAt(v, y) = y /\ HiAt(v, y) = Zero
        BY <2>1, <2>2, <2>8 DEF IsTop, LoAt, HiAt
      <3>2. NonsupStep(call, x, y) = GetNode(v, lo, a)
        <4>1. ~(Val(x) > Val(y))
          BY <2>2, <2>1, <2>8 DEF IsTop
        <4>2. QED
          BY <1>4, <2>8, <3>1, <4>1 DEF NonsupStep
      <3>3. On(v, B) = {}
        BY <2>4, <3>1, FamilyParts
      <3> HIDE DEF lo, a, b, C, A, B
      <3>4. Q = On(v, A) /\ Both(P, Q) = P
        BY <3>3, SubsetFamilies DEF Both, Without
      <3> HIDE DEF P, Q
      <3>5. Is(lo, Off(v, C)) /\ Is(a, On(v, C))
        BY <2>4, <2>5, <3>4
      <3>6. QED
        BY <2>3, <2>6, <3>2, <3>5, IsByCofactors DEF A, B, C
    <2>9. CASE ~(Val(x) > Val(y)) /\ ~(Val(x) < Val(y))
      <3>1. v = Val(x) /\ v = Val(y) /\ LoAt(v, x) = Lo(x) /\ HiAt(v, x) = Hi(x)
               /\ LoAt(v, y) = Lo(y) /\ HiAt(v, y) = Hi(y)
        BY <2>1, <2>2, <2>9 DEF IsTop, LoAt, HiAt
      <3>2. NonsupStep(call, x, y) = GetNode(v, lo, Intersect[<<a, b>>])
        BY <1>4, <2>9, <3>1 DEF NonsupStep
      <3> HIDE DEF lo, a, b, C, A, B, P, Q
      <3>3. Is(Intersect[<<a, b>>], Both(P, Q))
        BY <2>4, IntersectExact DEF Is
      <3>4. Is(lo, Off(v, C)) /\ Is(Intersect[<<a, b>>], On(v, C))
        BY <2>4, <2>5, <3>3
      <3>5. QED
        BY <2>3, <2>6, <3>2, <3>4, IsByCofactors DEF A, B, C
    <2>10. QED
      BY <2>7, <2>8, <2>9
  <1>5. QED
    BY <1>1, <1>2, <1>3, <1>4

IsNonsup(u) == u = [p \in Pairs |-> NonsupStep(u, p[1], p[2])]

\* nonsup
LEMMA NonsupExact ==
  \A x, y \in Diagrams : Is(Nonsup[<<x, y>>], Without(Family[x], Family[y]))
  <1> DEFINE A(p) == Without(Family[p[1]], Family[p[2]])
             S == [p \in Pairs |-> Diagram(A(p))]
             Good == {p \in Pairs : Is(Nonsup[p], A(p))}
  <1>1. \A p \in Pairs : A(p) \in Families
    BY PairParts, FamilyOver, SubsetFamilies
  <1>2. ASSUME NEW u, NEW p \in Pairs,
               \A q \in Pairs : PairRank(q) < PairRank(p) => Is(u[q], A(q))
        PROVE  Is(NonsupStep(u, p[1], p[2]), A(p))
    BY <1>2, PairParts, NonsupStepExact
  <1> HIDE DEF A
  <1>3. \A p \in Pairs : Is(S[p], A(p)) /\ S[p] = NonsupStep(S, p[1], p[2])
    <2>1. \A p \in Pairs : Is(S[p], A(p))
      BY <1>1, Unique
    <2> HIDE DEF S
    <2>2. QED
      BY <1>1, <1>2, <2>1, Unique
  <1>4. IsNonsup(S)
    BY <1>3 DEF IsNonsup
  <1>5. IsNonsup(Nonsup)
    <2> HIDE DEF S
    <2>1. QED
      BY <1>4 DEF Nonsup, IsNonsup
  <1>6. Pairs \subseteq Good
    <2>1. \A p \in Pairs : Nonsup[p] = NonsupStep(Nonsup, p[1], p[2])
      BY <1>5 DEF IsNonsup
    <2>2. ASSUME NEW p \in Pairs, \A q \in Pairs : PairRank(q) < PairRank(p) => q \in Good
          PROVE  p \in Good
      BY <1>2, <2>1, <2>2
    <2> HIDE DEF Good
    <2>3. QED
      BY <2>2, PairInduction
  <1>7. QED
    BY <1>6, PairParts DEF Pairs, A

-----------------------------------------------------------------------------
(***************************************************************************)
(* minimal_elements                                                        *)
(***************************************************************************)
MinimalOf(A) == {s \in A : \A t \in A : t \subseteq s => s = t}

\* Below every set is a minimal one.
LEMMA MinimalBelow ==
  ASSUME NEW A \in Families, NEW s \in A
  PROVE  \E t \in MinimalOf(A) : t \subseteq s
  <1> DEFINE B == {t \in A : t \subseteq s}
  <1>1. B \in Families /\ B # {}
    BY DEF Families
  <1> HIDE DEF B
  <1>2. PICK t \in B : \A u \in B : Cardinality(t) <= Cardinality(u)
    BY <1>1, ExtremeSets
  <1>3. t \in A /\ t \subseteq s
    BY DEF B
  <1>4. ASSUME NEW u \in A, u \subseteq t PROVE t = u
    <2>1. u \in B
      BY <1>3, <1>4 DEF B
    <2>2. u \in SUBSET Elements /\ t \in SUBSET Elements
      BY <1>3 DEF Families
    <2>3. Cardinality(u) <= Cardinality(t) /\ Cardinality(t) <= Cardinality(u)
      BY <1>2, <1>4, <2>1, <2>2, SetSizes
    <2>4. Cardinality(u) = Cardinality(t)
      BY <2>2, <2>3, SetSizes
    <2>5. QED
      BY <1>4, <2>2, <2>4, SetSizes
  <1>5. t \in MinimalOf(A)
    BY <1>3, <1>4 DEF MinimalOf
  <1>6. QED
    BY <1>3, <1>5

LEMMA MinimalCofactors ==
  ASSUME NEW v \in Elements, NEW A \in Families
  PROVE  /\ Off(v, MinimalOf(A)) = MinimalOf(Off(v, A))
         /\ On(v, MinimalOf(A)) = Without(MinimalOf(On(v, A)), MinimalOf(Off(v, A)))
  <1>1. Off(v, MinimalOf(A)) = MinimalOf(Off(v, A))
    BY DEF MinimalOf, Off
  <1>2. ASSUME NEW s, v \notin s
        PROVE  s \cup {v} \in MinimalOf(A)
                 <=> /\ s \in MinimalOf(On(v, A))
                     /\ ~ \E t \in Off(v, A) : t \subseteq s
    <2> DEFINE sv == s \cup {v}
    <2>1. s \in On(v, A) <=> sv \in A
      BY <1>2, OnMembers
    <2>2. ASSUME sv \in MinimalOf(A)
          PROVE  s \in MinimalOf(On(v, A)) /\ ~ \E t \in Off(v, A) : t \subseteq s
      <3>1. sv \in A /\ \A t \in A : t \subseteq sv => sv = t
        BY <2>2 DEF MinimalOf
      <3>2. ASSUME NEW t \in Off(v, A) PROVE ~(t \subseteq s)
        <4>1. t \in A /\ v \notin t
          BY OffMembers
        <4>2. t # sv
          BY <4>1
        <4>3. QED
          BY <3>1, <4>1, <4>2
      <3>3. ASSUME NEW t \in On(v, A), t \subseteq s PROVE s = t
        <4> DEFINE tv == t \cup {v}
        <4>1. v \notin t /\ tv \in A
          BY OnMembers
        <4>2. tv \subseteq sv
          BY <3>3
        <4>3. tv = sv
          <5> HIDE DEF tv, sv
          <5>1. QED
            BY <3>1, <4>1, <4>2
        <4>4. QED
          BY <1>2, <4>1, <4>3
      <3>4. s \in On(v, A)
        BY <2>1, <3>1
      <3>5. QED
        BY <3>2, <3>3, <3>4 DEF MinimalOf
    <2>3. ASSUME s \in MinimalOf(On(v, A)), ~ \E t \in Off(v, A) : t \subseteq s
          PROVE  sv \in MinimalOf(A)
      <3>1. s \in On(v, A) /\ \A t \in On(v, A) : t \subseteq s => s = t
        BY <2>3 DEF MinimalOf
      <3>2. ASSUME NEW t \in A, t \subseteq sv PROVE sv = t
        <4>1. CASE v \notin t
          <5>1. t \in Off(v, A) /\ t \subseteq s
            BY <3>2, <4>1, OffMembers
          <5>2. QED
            BY <2>3, <5>1
        <4>2. CASE v \in t
          <5> DEFINE u == t \ {v}
          <5>1. u \in On(v, A)
            BY <4>2 DEF On
          <5>2. u \subseteq s
            BY <3>2
          <5>3. s = u
            <6> HIDE DEF u
            <6>1. QED
              BY <3>1, <5>1, <5>2
          <5>4. QED
            BY <4>2, <5>3
        <4>3. QED
          BY <4>1, <4>2
      <3>3. sv \in A
        BY <2>1, <3>1
      <3> HIDE DEF sv
      <3>4. QED
        BY <3>2, <3>3 DEF MinimalOf
    <2>4. QED
      BY <2>2, <2>3
  <1>3. ASSUME NEW s
        PROVE  (\E t \in Off(v, A) : t \subseteq s) <=> \E t \in MinimalOf(Off(v, A)) : t \subseteq s
    <2>1. Off(v, A) \in Families
      BY FamiliesOne
    <2>2. ASSUME NEW t \in Off(v, A), t \subseteq s
          PROVE  \E u \in MinimalOf(Off(v, A)) : u \subseteq s
      <3>1. PICK u \in MinimalOf(Off(v, A)) : u \subseteq t
        BY <2>1, MinimalBelow
      <3>2. u \subseteq s
        BY <2>2, <3>1
      <3>3. QED
        BY <3>2
    <2>3. MinimalOf(Off(v, A)) \subseteq Off(v, A)
      BY DEF MinimalOf
    <2>4. QED
      BY <2>2, <2>3
  <1>4. ASSUME NEW s
        PROVE  s \in On(v, MinimalOf(A)) <=> s \in Without(MinimalOf(On(v, A)), MinimalOf(Off(v, A)))
    <2>1. s \in On(v, MinimalOf(A)) <=> v \notin s /\ s \cup {v} \in MinimalOf(A)
      BY OnMembers
    <2>2. s \in Without(MinimalOf(On(v, A)), MinimalOf(Off(v, A)))
            <=> s \in MinimalOf(On(v, A)) /\ ~ \E t \in MinimalOf(Off(v, A)) : t \subseteq s
      BY DEF Without
    <2>3. s \in MinimalOf(On(v, A)) => v \notin s
      <3>1. s \in On(v, A) => v \notin s
        BY OnMembers
      <3>2. QED
        BY <3>1 DEF MinimalOf
    <2>4. QED
      BY <1>2, <1>3, <2>1, <2>2, <2>3
  <1>5. QED
    BY <1>1, <1>4

LEMMA MinimalElementsStepExact ==
  ASSUME NEW call, NEW x \in Diagrams,
         \A z \in Diagrams : Rank(z) < Rank(x) => Is(call[z], MinimalOf(Family[z]))
  PROVE  Is(MinimalElementsStep(call, x), MinimalOf(Family[x]))
  <1> DEFINE A == Family[x]
  <1>1. CASE IsTerminal(x)
    <2>1. MinimalElementsStep(call, x) = x
      BY <1>1 DEF MinimalElementsStep
    <2>2. A = {} \/ A = {{}}
      BY <1>1, FamilyParts DEF IsTerminal, IsZero, IsOne
    <2>3. MinimalOf(A) = A
      <3> HIDE DEF A
      <3>1. QED
        BY <2>2 DEF MinimalOf
    <2>4. QED
      BY <2>1, <2>3, Unique
  <1>2. CASE ~IsTerminal(x)
    <2> DEFINE v == Val(x)
               lo == call[Lo(x)]
               hi == call[Hi(x)]
    <2>1. /\ v \in Elements /\ Lo(x) \in Diagrams /\ Hi(x) \in Diagrams
          /\ Rank(Lo(x)) < Rank(x) /\ Rank(Hi(x)) < Rank(x)
          /\ Off(v, A) = Family[Lo(x)] /\ On(v, A) = Family[Hi(x)]
          /\ A \in SUBSET AtLeast(v) /\ A \in Families
      <3>1. Val(x) \in Elements /\ Lo(x) \in Diagrams /\ Hi(x) \in Diagrams
        BY <1>2, DiagramParts
      <3>2. QED
        BY <1>2, <3>1, NodeCalls, FamilyOver
    <2>2. MinimalElementsStep(call, x) = GetNode(v, lo, Nonsup[<<hi, lo>>])
      BY <1>2 DEF MinimalElementsStep
    <2>3. Is(lo, MinimalOf(Off(v, A))) /\ Is(hi, MinimalOf(On(v, A)))
      BY <2>1
    <2> HIDE DEF A, v, lo, hi
    <2>4. Is(Nonsup[<<hi, lo>>], Without(MinimalOf(On(v, A)), MinimalOf(Off(v, A))))
      BY <2>3, NonsupExact DEF Is
    <2>5. Is(lo, Off(v, MinimalOf(A))) /\ Is(Nonsup[<<hi, lo>>], On(v, MinimalOf(A)))
      BY <2>1, <2>3, <2>4, MinimalCofactors
    <2>6. MinimalOf(A) \in SUBSET AtLeast(v)
      BY <2>1 DEF MinimalOf
    <2>7. QED
      BY <2>1, <2>2, <2>5, <2>6, IsByCofactors DEF A
  <1>3. QED
    BY <1>1, <1>2

LEMMA OneInduction ==
  ASSUME NEW S,
         \A p \in Diagrams : (\A q \in Diagrams : Rank(q) < Rank(p) => q \in S) => p \in S
  PROVE  Diagrams \subseteq S
  <1> DEFINE rank == [p \in Diagrams |-> Rank(p)]
  <1>1. rank \in [Diagrams -> Nat]
    BY Ranks
  <1>2. \A p \in Diagrams : (\A q \in Diagrams : rank[q] < rank[p] => q \in S) => p \in S
    OBVIOUS
  <1> HIDE DEF rank
  <1>3. QED
    BY <1>1, <1>2, RankInduction

LEMMA MinimalFamilies == \A A \in Families : MinimalOf(A) \in Families
  BY DEF MinimalOf, Families

IsMinimalElements(u) == u = [p \in Diagrams |-> MinimalElementsStep(u, p)]

\* minimal_elements
LEMMA MinimalElementsExact ==
  \A z \in Diagrams : Is(MinimalElements[z], MinimalOf(Family[z]))
  <1> DEFINE A(p) == MinimalOf(Family[p])
             S == [p \in Diagrams |-> Diagram(A(p))]
             Good == {p \in Diagrams : Is(MinimalElements[p], A(p))}
  <1>1. \A p \in Diagrams : A(p) \in Families
    BY Unique, FamilyOver, MinimalFamilies
  <1>2. ASSUME NEW u, NEW p \in Diagrams,
               \A q \in Diagrams : Rank(q) < Rank(p) => Is(u[q], A(q))
        PROVE  Is(MinimalElementsStep(u, p), A(p))
    BY <1>2, Unique, MinimalElementsStepExact
  <1> HIDE DEF A
  <1>3. \A p \in Diagrams : Is(S[p], A(p)) /\ S[p] = MinimalElementsStep(S, p)
    <2>1. \A p \in Diagrams : Is(S[p], A(p))
      BY <1>1, Unique
    <2> HIDE DEF S
    <2>2. QED
      BY <1>1, <1>2, <2>1, Unique
  <1>4. IsMinimalElements(S)
    BY <1>3 DEF IsMinimalElements
  <1>5. IsMinimalElements(MinimalElements)
    <2> HIDE DEF S
    <2>1. QED
      BY <1>4 DEF MinimalElements, IsMinimalElements
  <1>6. Diagrams \subseteq Good
    <2>1. \A p \in Diagrams : MinimalElements[p] = MinimalElementsStep(MinimalElements, p)
      BY <1>5 DEF IsMinimalElements
    <2>2. ASSUME NEW p \in Diagrams, \A q \in Diagrams : Rank(q) < Rank(p) => q \in Good
          PROVE  p \in Good
      BY <1>2, <2>1, <2>2
    <2> HIDE DEF Good
    <2>3. QED
      BY <2>2, OneInduction
  <1>7. QED
    BY <1>6 DEF A

-----------------------------------------------------------------------------
(***************************************************************************)
(* The parts of a node, and the sizes of its sets                          *)
(***************************************************************************)
LEMMA NodeFamily ==
  ASSUME NEW x \in Diagrams, ~IsTerminal(x)
  PROVE  /\ Val(x) \in Elements
         /\ Lo(x) \in Diagrams /\ Hi(x) \in Diagrams
         /\ Rank(Lo(x)) < Rank(x) /\ Rank(Hi(x)) < Rank(x)
         /\ Family[x] = Family[Lo(x)] \cup With(Val(x), Family[Hi(x)])
         /\ Family[x] \in Families /\ Family[Lo(x)] \in Families /\ Family[Hi(x)] \in Families
         /\ Family[Hi(x)] # {}
         /\ \A s \in Family[Lo(x)] : Val(x) \notin s
         /\ \A s \in Family[Hi(x)] : /\ Val(x) \notin s /\ s \cup {Val(x)} \in Family[x]
                                    /\ Cardinality(s \cup {Val(x)}) = Cardinality(s) + 1
         /\ \A t \in Family[x] : \/ t \in Family[Lo(x)]
                                 \/ \E s \in Family[Hi(x)] : t = s \cup {Val(x)}
  <1>1. /\ Val(x) \in Elements /\ Lo(x) \in Diagrams /\ Hi(x) \in Diagrams /\ Hi(x) # Zero
    BY DiagramParts
  <1>2. Rank(Lo(x)) < Rank(x) /\ Rank(Hi(x)) < Rank(x)
    BY <1>1, NodeCalls
  <1>3. Family[x] = Family[Lo(x)] \cup With(Val(x), Family[Hi(x)]) /\ Family[Hi(x)] # {}
    BY <1>1, FamilyParts, FamilyNotEmpty
  <1>4. Family[x] \in Families /\ Family[Lo(x)] \in Families /\ Family[Hi(x)] \in Families
    BY <1>1, FamilyOver
  <1>5. /\ \A s \in Family[Lo(x)] : Val(x) \notin s
        /\ \A s \in Family[Hi(x)] : Val(x) \notin s
    <2>1. Val(x) \in Nat
      BY DiagramParts
    <2>2. Family[Lo(x)] \subseteq Over(Val(x)) /\ Family[Hi(x)] \subseteq Over(Val(x))
      BY NodeCofactors
    <2>3. QED
      BY <2>1, <2>2 DEF Over
  <1>6. \A s \in Family[Hi(x)] : s \cup {Val(x)} \in Family[x]
    BY <1>3 DEF With
  <1>7. ASSUME NEW s \in Family[Hi(x)] PROVE Cardinality(s \cup {Val(x)}) = Cardinality(s) + 1
    <2>1. IsFiniteSet(s)
      BY <1>4, SetSizes DEF Families
    <2>2. QED
      BY <1>5, <2>1, FS_AddElement
  <1>8. \A t \in Family[x] : \/ t \in Family[Lo(x)]
                             \/ \E s \in Family[Hi(x)] : t = s \cup {Val(x)}
    BY <1>3 DEF With
  <1>9. QED
    BY <1>1, <1>2, <1>3, <1>4, <1>5, <1>6, <1>7, <1>8

-----------------------------------------------------------------------------
(***************************************************************************)
(* universe                                                                *)
(***************************************************************************)
LEMMA UniverseStepExact ==
  ASSUME NEW call, NEW x \in Diagrams,
         \A z \in Diagrams : Rank(z) < Rank(x) => call[z] = UNION Family[z]
  PROVE  UniverseStep(call, x) = UNION Family[x]
  <1>1. CASE IsTerminal(x)
    BY <1>1, FamilyParts DEF UniverseStep, IsTerminal, IsZero, IsOne
  <1>2. CASE ~IsTerminal(x)
    <2> DEFINE v == Val(x)
               A == Family[x]
               B == Family[Lo(x)]
               C == Family[Hi(x)]
    <2>1. UniverseStep(call, x) = {v} \cup (UNION B) \cup (UNION C)
      BY <1>2, NodeFamily DEF UniverseStep
    <2>2. A = B \cup With(v, C) /\ C # {}
      BY <1>2, NodeFamily
    <2> HIDE DEF A, B, C, v
    <2>3. UNION With(v, C) = {v} \cup UNION C
      <3>1. PICK s : s \in C
        BY <2>2
      <3>2. v \in UNION With(v, C)
        BY <3>1 DEF With
      <3>3. \A e : e \in UNION C => e \in UNION With(v, C)
        BY DEF With
      <3>4. \A e : e \in UNION With(v, C) => e = v \/ e \in UNION C
        BY DEF With
      <3>5. QED
        BY <3>2, <3>3, <3>4
    <2>4. UNION A = (UNION B) \cup UNION With(v, C)
      BY <2>2
    <2>5. UNION A = {v} \cup (UNION B) \cup (UNION C)
      BY <2>3, <2>4
    <2>6. QED
      BY <2>1, <2>5 DEF A
  <1>3. QED
    BY <1>1, <1>2

IsUniverse(u) == u = [p \in Diagrams |-> UniverseStep(u, p)]

\* universe
LEMMA UniverseExact == \A z \in Diagrams : Universe[z] = UNION Family[z]
  <1> DEFINE A(p) == UNION Family[p]
             S == [p \in Diagrams |-> A(p)]
             Good == {p \in Diagrams : Universe[p] = A(p)}
  <1>1. ASSUME NEW u, NEW p \in Diagrams,
               \A q \in Diagrams : Rank(q) < Rank(p) => u[q] = A(q)
        PROVE  UniverseStep(u, p) = A(p)
    BY <1>1, UniverseStepExact
  <1> HIDE DEF A
  <1>2. \A p \in Diagrams : S[p] = UniverseStep(S, p)
    <2>1. \A p \in Diagrams : S[p] = A(p)
      OBVIOUS
    <2> HIDE DEF S
    <2>2. QED
      BY <1>1, <2>1
  <1>3. IsUniverse(S)
    BY <1>2 DEF IsUniverse
  <1>4. IsUniverse(Universe)
    <2> HIDE DEF S
    <2>1. QED
      BY <1>3 DEF Universe, IsUniverse
  <1>5. Diagrams \subseteq Good
    <2>1. \A p \in Diagrams : Universe[p] = UniverseStep(Universe, p)
      BY <1>4 DEF IsUniverse
    <2>2. ASSUME NEW p \in Diagrams, \A q \in Diagrams : Rank(q) < Rank(p) => q \in Good
          PROVE  p \in Good
      BY <1>1, <2>1, <2>2
    <2> HIDE DEF Good
    <2>3. QED
      BY <2>2, OneInduction
  <1>6. QED
    BY <1>5 DEF A

-----------------------------------------------------------------------------
(***************************************************************************)
(* size                                                                    *)
(***************************************************************************)
SizeOf(A) == IF Cardinality(A) > MaxUsize THEN PositiveInfinity ELSE Cardinality(A)

LEMMA FamiliesFinite == \A A \in Families : IsFiniteSet(A) /\ Cardinality(A) \in Nat
  <1>1. IsFiniteSet(SUBSET Elements)
    BY ZddAssumption, FS_SUBSET
  <1>2. \A A \in Families : IsFiniteSet(A)
    BY <1>1, FS_Subset DEF Families
  <1>3. QED
    BY <1>2, FS_CardinalityType

LEMMA NodeSize ==
  ASSUME NEW v, NEW B \in Families, NEW C \in Families,
         \A s \in B \cup C : v \notin s
  PROVE  Cardinality(B \cup With(v, C)) = Cardinality(B) + Cardinality(C)
  <1> DEFINE W == With(v, C)
             m == [s \in C |-> s \cup {v}]
  <1>1. m \in Bijection(C, W)
    <2>1. m \in [C -> W]
      BY DEF With
    <2>2. ASSUME NEW s \in C, NEW t \in C, m[s] = m[t] PROVE s = t
      BY <2>2
    <2>3. \A t \in W : \E s \in C : m[s] = t
      BY DEF With
    <2> HIDE DEF m, W
    <2>4. QED
      BY <2>1, <2>2, <2>3 DEF Bijection, Injection, Surjection, IsInjective
  <1>2. IsFiniteSet(B) /\ IsFiniteSet(C)
    BY FamiliesFinite
  <1>3. B \cap W = {}
    BY DEF With
  <1> HIDE DEF W, m
  <1>4. IsFiniteSet(W) /\ Cardinality(W) = Cardinality(C)
    BY <1>1, <1>2, FS_Bijection DEF ExistsBijection
  <1>5. Cardinality(B \cup W) = Cardinality(B) + Cardinality(W) - Cardinality(B \cap W)
    BY <1>2, <1>4, FS_Union
  <1>6. Cardinality(B \cap W) = 0
    BY <1>3, FS_EmptySet
  <1>7. Cardinality(B) \in Nat /\ Cardinality(C) \in Nat
    BY FamiliesFinite
  <1>8. QED
    BY <1>4, <1>5, <1>6, <1>7 DEF W

LEMMA SizeStepExact ==
  ASSUME NEW call, NEW x \in Diagrams,
         \A z \in Diagrams : Rank(z) < Rank(x) => call[z] = SizeOf(Family[z])
  PROVE  SizeStep(call, x) = SizeOf(Family[x])
  <1>0. MaxUsize \in Nat
    BY ZddAssumption
  <1>1. CASE IsZero(x)
    <2>1. Family[x] = {} /\ SizeStep(call, x) = 0
      BY <1>1, FamilyParts DEF IsZero, SizeStep
    <2>2. Cardinality({}) = 0
      BY FS_EmptySet
    <2>3. QED
      BY <1>0, <2>1, <2>2 DEF SizeOf
  <1>2. CASE ~IsZero(x) /\ IsOne(x)
    <2>1. Family[x] = {{}} /\ SizeStep(call, x) = 1
      BY <1>2, FamilyParts DEF IsOne, SizeStep
    <2>2. Cardinality({{}}) = 1
      BY FS_Singleton
    <2>3. QED
      BY <1>0, <2>1, <2>2 DEF SizeOf, PositiveInfinity
  <1>3. CASE ~IsZero(x) /\ ~IsOne(x)
    <2> DEFINE v == Val(x)
               A == Family[x]
               B == Family[Lo(x)]
               C == Family[Hi(x)]
    <2>0. ~IsTerminal(x)
      BY <1>3 DEF IsTerminal
    <2>1. SizeStep(call, x) = AddUsize(SizeOf(B), SizeOf(C))
      BY <1>3, <2>0, NodeFamily DEF SizeStep
    <2>2. /\ A = B \cup With(v, C) /\ B \in Families /\ C \in Families
          /\ \A s \in B \cup C : v \notin s
      BY <2>0, NodeFamily
    <2> HIDE DEF A, B, C, v
    <2>3. Cardinality(A) = Cardinality(B) + Cardinality(C)
      BY <2>2, NodeSize
    <2>4. Cardinality(B) \in Nat /\ Cardinality(C) \in Nat
      BY <2>2, FamiliesFinite
    <2>5. AddUsize(SizeOf(B), SizeOf(C)) = SizeOf(A)
      BY <1>0, <2>3, <2>4 DEF AddUsize, SizeOf, PositiveInfinity
    <2>6. QED
      BY <2>1, <2>5 DEF A
  <1>4. QED
    BY <1>1, <1>2, <1>3

IsSize(u) == u = [p \in Diagrams |-> SizeStep(u, p)]

\* size
LEMMA SizeExact == \A z \in Diagrams : Size[z] = SizeOf(Family[z])
  <1> DEFINE A(p) == SizeOf(Family[p])
             S == [p \in Diagrams |-> A(p)]
             Good == {p \in Diagrams : Size[p] = A(p)}
  <1>1. ASSUME NEW u, NEW p \in Diagrams,
               \A q \in Diagrams : Rank(q) < Rank(p) => u[q] = A(q)
        PROVE  SizeStep(u, p) = A(p)
    BY <1>1, SizeStepExact
  <1> HIDE DEF A
  <1>2. \A p \in Diagrams : S[p] = SizeStep(S, p)
    <2>1. \A p \in Diagrams : S[p] = A(p)
      OBVIOUS
    <2> HIDE DEF S
    <2>2. QED
      BY <1>1, <2>1
  <1>3. IsSize(S)
    BY <1>2 DEF IsSize
  <1>4. IsSize(Size)
    <2> HIDE DEF S
    <2>1. QED
      BY <1>3 DEF Size, IsSize
  <1>5. Diagrams \subseteq Good
    <2>1. \A p \in Diagrams : Size[p] = SizeStep(Size, p)
      BY <1>4 DEF IsSize
    <2>2. ASSUME NEW p \in Diagrams, \A q \in Diagrams : Rank(q) < Rank(p) => q \in Good
          PROVE  p \in Good
      BY <1>1, <2>1, <2>2
    <2> HIDE DEF Good
    <2>3. QED
      BY <2>2, OneInduction
  <1>6. QED
    BY <1>5 DEF A

-----------------------------------------------------------------------------
(***************************************************************************)
(* max_cardinality, min_cardinality and bounds_cardinality                 *)
(***************************************************************************)
MaxOf(A) == IF A = {} THEN 0 ELSE Greatest({Cardinality(s) : s \in A})
MinOf(A) == IF A = {} THEN PositiveInfinity ELSE Least({Cardinality(s) : s \in A})

IsMaxOf(m, A) == (\E s \in A : Cardinality(s) = m) /\ \A s \in A : Cardinality(s) <= m
IsMinOf(m, A) == (\E s \in A : Cardinality(s) = m) /\ \A s \in A : m <= Cardinality(s)

LEMMA ExtremesAre ==
  ASSUME NEW A \in Families, A # {}
  PROVE  /\ MaxOf(A) \in Nat /\ IsMaxOf(MaxOf(A), A) /\ \A m : IsMaxOf(m, A) => m = MaxOf(A)
         /\ MinOf(A) \in Nat /\ IsMinOf(MinOf(A), A) /\ \A m : IsMinOf(m, A) => m = MinOf(A)
         /\ MinOf(A) <= Cardinality(Elements)
         /\ \A s \in A : Cardinality(s) \in Nat
  <1> DEFINE N == {Cardinality(s) : s \in A}
  <1>1. \A s \in A : s \in SUBSET Elements
    BY DEF Families
  <1>2. \A s \in A : Cardinality(s) \in Nat /\ Cardinality(s) <= Cardinality(Elements)
    BY <1>1, SetSizes
  <1>3. /\ N \in SUBSET Nat /\ N # {}
        /\ Cardinality(Elements) \in Nat /\ \A n \in N : n <= Cardinality(Elements)
    BY <1>2, SetSizes
  <1>4. \A n : n \in N <=> \E s \in A : n = Cardinality(s)
    OBVIOUS
  <1>5. MaxOf(A) = Greatest(N) /\ MinOf(A) = Least(N)
    BY DEF MaxOf, MinOf
  <1> HIDE DEF N
  <1>6. MaxOf(A) \in N /\ \A n \in N : MaxOf(A) >= n
    BY <1>3, <1>5, Greatests
  <1>7. MinOf(A) \in N /\ \A n \in N : MinOf(A) <= n
    BY <1>3, <1>5, Leasts
  <1>8. \A s \in A : Cardinality(s) \in N
    BY <1>4
  <1>9. IsMaxOf(MaxOf(A), A) /\ MaxOf(A) \in Nat
    BY <1>2, <1>3, <1>4, <1>6, <1>8 DEF IsMaxOf
  <1>10. IsMinOf(MinOf(A), A) /\ MinOf(A) \in Nat
    BY <1>2, <1>3, <1>4, <1>7, <1>8 DEF IsMinOf
  <1>11. ASSUME NEW m, IsMaxOf(m, A) PROVE m = MaxOf(A)
    <2>1. m \in Nat /\ m <= MaxOf(A) /\ MaxOf(A) <= m
      BY <1>2, <1>9, <1>11 DEF IsMaxOf
    <2>2. QED
      BY <1>9, <2>1
  <1>12. ASSUME NEW m, IsMinOf(m, A) PROVE m = MinOf(A)
    <2>1. m \in Nat /\ m <= MinOf(A) /\ MinOf(A) <= m
      BY <1>2, <1>10, <1>12 DEF IsMinOf
    <2>2. QED
      BY <1>10, <2>1
  <1>13. QED
    BY <1>2, <1>3, <1>7, <1>9, <1>10, <1>11, <1>12

LEMMA MaxCardinalityStepExact ==
  ASSUME NEW call, NEW x \in Diagrams,
         \A z \in Diagrams : Rank(z) < Rank(x) => call[z] = MaxOf(Family[z])
  PROVE  MaxCardinalityStep(call, x) = MaxOf(Family[x])
  <1>1. CASE IsTerminal(x)
    <2>1. MaxCardinalityStep(call, x) = 0
      BY <1>1 DEF MaxCardinalityStep
    <2>2. Family[x] = {} \/ Family[x] = {{}}
      BY <1>1, FamilyParts DEF IsTerminal, IsZero, IsOne
    <2>3. CASE Family[x] = {}
      BY <2>1, <2>3 DEF MaxOf
    <2>4. CASE Family[x] = {{}}
      <3>1. IsMaxOf(0, {{}})
        BY FS_EmptySet DEF IsMaxOf
      <3>2. {{}} \in Families /\ {{}} # {}
        BY DEF Families
      <3>3. MaxOf({{}}) = 0
        BY <3>1, <3>2, ExtremesAre
      <3>4. QED
        BY <2>1, <2>4, <3>3
    <2>5. QED
      BY <2>2, <2>3, <2>4
  <1>2. CASE ~IsTerminal(x)
    <2> DEFINE v == Val(x)
               A == Family[x]
               B == Family[Lo(x)]
               C == Family[Hi(x)]
    <2>1. MaxCardinalityStep(call, x) = Greater(MaxOf(B), MaxOf(C) + 1)
      BY <1>2, NodeFamily DEF MaxCardinalityStep
    <2>2. /\ A \in Families /\ B \in Families /\ C \in Families /\ C # {}
          /\ A = B \cup With(v, C)
          /\ \A s \in C : s \cup {v} \in A /\ Cardinality(s \cup {v}) = Cardinality(s) + 1
          /\ \A t \in A : t \in B \/ \E s \in C : t = s \cup {v}
      BY <1>2, NodeFamily
    <2> HIDE DEF A, B, C, v
    <2>3. /\ MaxOf(C) \in Nat /\ IsMaxOf(MaxOf(C), C)
          /\ \A s \in C : Cardinality(s) \in Nat
          /\ B # {} => MaxOf(B) \in Nat /\ IsMaxOf(MaxOf(B), B)
          /\ \A s \in B : Cardinality(s) \in Nat
          /\ B = {} => MaxOf(B) = 0
      BY <2>2, ExtremesAre DEF MaxOf
    <2>4. PICK c \in C : Cardinality(c) = MaxOf(C)
      BY <2>3 DEF IsMaxOf
    <2> DEFINE cv == c \cup {v}
               m  == Greater(MaxOf(B), MaxOf(C) + 1)
    <2>5. cv \in A /\ Cardinality(cv) = MaxOf(C) + 1
      BY <2>2, <2>4
    <2> HIDE DEF cv
    <2>6. \A t \in A : t \in B \/ (Cardinality(t) \in Nat /\ Cardinality(t) <= MaxOf(C) + 1)
      BY <2>2, <2>3 DEF IsMaxOf
    <2>7. \A t \in B : t \in A /\ Cardinality(t) <= MaxOf(B)
      BY <2>2, <2>3 DEF IsMaxOf
    <2>8. \A t \in A : Cardinality(t) <= m
      BY <2>3, <2>6, <2>7 DEF Greater
    <2>9. \E t \in A : Cardinality(t) = m
      <3>1. CASE MaxOf(B) >= MaxOf(C) + 1
        <4>1. m = MaxOf(B) /\ B # {}
          BY <2>3, <3>1 DEF Greater
        <4>2. QED
          BY <2>3, <2>7, <4>1 DEF IsMaxOf
      <3>2. CASE ~(MaxOf(B) >= MaxOf(C) + 1)
        BY <2>5, <3>2 DEF Greater
      <3>3. QED
        BY <3>1, <3>2
    <2> HIDE DEF m
    <2>10. IsMaxOf(m, A) /\ A # {}
      BY <2>5, <2>8, <2>9 DEF IsMaxOf
    <2>11. m = MaxOf(A)
      BY <2>2, <2>10, ExtremesAre
    <2>12. QED
      BY <2>1, <2>11 DEF m, A
  <1>3. QED
    BY <1>1, <1>2

IsMaxCardinality(u) == u = [p \in Diagrams |-> MaxCardinalityStep(u, p)]

\* max_cardinality
LEMMA MaxCardinalityExact == \A z \in Diagrams : MaxCardinality[z] = MaxOf(Family[z])
  <1> DEFINE A(p) == MaxOf(Family[p])
             S == [p \in Diagrams |-> A(p)]
             Good == {p \in Diagrams : MaxCardinality[p] = A(p)}
  <1>1. ASSUME NEW u, NEW p \in Diagrams,
               \A q \in Diagrams : Rank(q) < Rank(p) => u[q] = A(q)
        PROVE  MaxCardinalityStep(u, p) = A(p)
    BY <1>1, MaxCardinalityStepExact
  <1> HIDE DEF A
  <1>2. \A p \in Diagrams : S[p] = MaxCardinalityStep(S, p)
    <2>1. \A p \in Diagrams : S[p] = A(p)
      OBVIOUS
    <2> HIDE DEF S
    <2>2. QED
      BY <1>1, <2>1
  <1>3. IsMaxCardinality(S)
    BY <1>2 DEF IsMaxCardinality
  <1>4. IsMaxCardinality(MaxCardinality)
    <2> HIDE DEF S
    <2>1. QED
      BY <1>3 DEF MaxCardinality, IsMaxCardinality
  <1>5. Diagrams \subseteq Good
    <2>1. \A p \in Diagrams : MaxCardinality[p] = MaxCardinalityStep(MaxCardinality, p)
      BY <1>4 DEF IsMaxCardinality
    <2>2. ASSUME NEW p \in Diagrams, \A q \in Diagrams : Rank(q) < Rank(p) => q \in Good
          PROVE  p \in Good
      BY <1>1, <2>1, <2>2
    <2> HIDE DEF Good
    <2>3. QED
      BY <2>2, OneInduction
  <1>6. QED
    BY <1>5 DEF A

LEMMA MinCardinalityStepExact ==
  ASSUME NEW call, NEW x \in Diagrams,
         \A z \in Diagrams : Rank(z) < Rank(x) => call[z] = MinOf(Family[z])
  PROVE  MinCardinalityStep(call, x) = MinOf(Family[x])
  <1>0. MaxUsize \in Nat /\ Cardinality(Elements) \in Nat /\ Cardinality(Elements) <= MaxUsize
    BY ZddAssumption, SetSizes
  <1>1. CASE IsZero(x)
    <2>1. MinCardinalityStep(call, x) = PositiveInfinity /\ Family[x] = {}
      BY <1>1, FamilyParts DEF MinCardinalityStep, IsZero
    <2>2. QED
      BY <2>1 DEF MinOf
  <1>2. CASE ~IsZero(x) /\ IsOne(x)
    <2>1. MinCardinalityStep(call, x) = 0 /\ Family[x] = {{}}
      BY <1>2, FamilyParts DEF MinCardinalityStep, IsOne
    <2>2. IsMinOf(0, {{}})
      BY FS_EmptySet DEF IsMinOf
    <2>3. {{}} \in Families /\ {{}} # {}
      BY DEF Families
    <2>4. MinOf({{}}) = 0
      BY <2>2, <2>3, ExtremesAre
    <2>5. QED
      BY <2>1, <2>4
  <1>3. CASE ~IsZero(x) /\ ~IsOne(x)
    <2> DEFINE v == Val(x)
               A == Family[x]
               B == Family[Lo(x)]
               C == Family[Hi(x)]
    <2>0. ~IsTerminal(x)
      BY <1>3 DEF IsTerminal
    <2>1. MinCardinalityStep(call, x) = Lesser(MinOf(B), AddUsize(MinOf(C), 1))
      BY <1>3, <2>0, NodeFamily DEF MinCardinalityStep
    <2>2. /\ A \in Families /\ B \in Families /\ C \in Families /\ C # {}
          /\ A = B \cup With(v, C)
          /\ \A s \in C : s \cup {v} \in A /\ Cardinality(s \cup {v}) = Cardinality(s) + 1
          /\ \A t \in A : t \in B \/ \E s \in C : t = s \cup {v}
      BY <2>0, NodeFamily
    <2> HIDE DEF A, B, C, v
    <2>3. /\ MinOf(C) \in Nat /\ IsMinOf(MinOf(C), C)
          /\ \A s \in C : Cardinality(s) \in Nat
          /\ B # {} => MinOf(B) \in Nat /\ IsMinOf(MinOf(B), B)
          /\ \A s \in B : Cardinality(s) \in Nat
          /\ B = {} => MinOf(B) = MaxUsize + 1
      BY <2>2, ExtremesAre DEF MinOf, PositiveInfinity
    <2>4. PICK c \in C : Cardinality(c) = MinOf(C)
      BY <2>3 DEF IsMinOf
    <2> DEFINE cv == c \cup {v}
               m  == Lesser(MinOf(B), MinOf(C) + 1)
    <2>5. cv \in A /\ Cardinality(cv) = MinOf(C) + 1
      BY <2>2, <2>4
    <2> HIDE DEF cv
    <2>6. MinOf(C) + 1 <= MaxUsize
      <3>1. cv \in SUBSET Elements
        BY <2>2, <2>5 DEF Families
      <3>2. Cardinality(cv) <= Cardinality(Elements) /\ Cardinality(cv) \in Nat
        BY <3>1, SetSizes
      <3>3. QED
        BY <1>0, <2>5, <3>2
    <2>7. AddUsize(MinOf(C), 1) = MinOf(C) + 1
      BY <1>0, <2>3, <2>6 DEF AddUsize
    <2>8. \A t \in A : t \in B \/ (Cardinality(t) \in Nat /\ MinOf(C) + 1 <= Cardinality(t))
      BY <2>2, <2>3 DEF IsMinOf
    <2>9. \A t \in B : t \in A /\ MinOf(B) <= Cardinality(t)
      BY <2>2, <2>3 DEF IsMinOf
    <2>10. \A t \in A : m <= Cardinality(t)
      BY <1>0, <2>3, <2>8, <2>9 DEF Lesser
    <2>11. \E t \in A : Cardinality(t) = m
      <3>1. CASE MinOf(B) <= MinOf(C) + 1
        <4>1. m = MinOf(B) /\ B # {}
          BY <1>0, <2>3, <2>6, <3>1 DEF Lesser
        <4>2. QED
          BY <2>3, <2>9, <4>1 DEF IsMinOf
      <3>2. CASE ~(MinOf(B) <= MinOf(C) + 1)
        BY <2>5, <3>2 DEF Lesser
      <3>3. QED
        BY <3>1, <3>2
    <2> HIDE DEF m
    <2>12. IsMinOf(m, A) /\ A # {}
      BY <2>5, <2>10, <2>11 DEF IsMinOf
    <2>13. m = MinOf(A)
      BY <2>2, <2>12, ExtremesAre
    <2>14. QED
      BY <2>1, <2>7, <2>13 DEF m, A
  <1>4. QED
    BY <1>1, <1>2, <1>3

IsMinCardinality(u) == u = [p \in Diagrams |-> MinCardinalityStep(u, p)]

\* min_cardinality
LEMMA MinCardinalityExact == \A z \in Diagrams : MinCardinality[z] = MinOf(Family[z])
  <1> DEFINE A(p) == MinOf(Family[p])
             S == [p \in Diagrams |-> A(p)]
             Good == {p \in Diagrams : MinCardinality[p] = A(p)}
  <1>1. ASSUME NEW u, NEW p \in Diagrams,
               \A q \in Diagrams : Rank(q) < Rank(p) => u[q] = A(q)
        PROVE  MinCardinalityStep(u, p) = A(p)
    BY <1>1, MinCardinalityStepExact
  <1> HIDE DEF A
  <1>2. \A p \in Diagrams : S[p] = MinCardinalityStep(S, p)
    <2>1. \A p \in Diagrams : S[p] = A(p)
      OBVIOUS
    <2> HIDE DEF S
    <2>2. QED
      BY <1>1, <2>1
  <1>3. IsMinCardinality(S)
    BY <1>2 DEF IsMinCardinality
  <1>4. IsMinCardinality(MinCardinality)
    <2> HIDE DEF S
    <2>1. QED
      BY <1>3 DEF MinCardinality, IsMinCardinality
  <1>5. Diagrams \subseteq Good
    <2>1. \A p \in Diagrams : MinCardinality[p] = MinCardinalityStep(MinCardinality, p)
      BY <1>4 DEF IsMinCardinality
    <2>2. ASSUME NEW p \in Diagrams, \A q \in Diagrams : Rank(q) < Rank(p) => q \in Good
          PROVE  p \in Good
      BY <1>1, <2>1, <2>2
    <2> HIDE DEF Good
    <2>3. QED
      BY <2>2, OneInduction
  <1>6. QED
    BY <1>5 DEF A

LEMMA BoundsCardinalityStepExact ==
  ASSUME NEW call, NEW x \in Diagrams,
         \A z \in Diagrams : Rank(z) < Rank(x) => call[z] = <<MinOf(Family[z]), MaxOf(Family[z])>>
  PROVE  BoundsCardinalityStep(call, x) = <<MinOf(Family[x]), MaxOf(Family[x])>>
  <1>1. MinOf(Family[x]) = MinCardinalityStep([z \in Diagrams |-> MinOf(Family[z])], x)
    <2> DEFINE u == [z \in Diagrams |-> MinOf(Family[z])]
    <2>1. \A z \in Diagrams : u[z] = MinOf(Family[z])
      OBVIOUS
    <2> HIDE DEF u
    <2>2. MinCardinalityStep(u, x) = MinOf(Family[x])
      BY <2>1, MinCardinalityStepExact
    <2>3. QED
      BY <2>2 DEF u
  <1>2. MaxOf(Family[x]) = MaxCardinalityStep([z \in Diagrams |-> MaxOf(Family[z])], x)
    <2> DEFINE u == [z \in Diagrams |-> MaxOf(Family[z])]
    <2>1. \A z \in Diagrams : u[z] = MaxOf(Family[z])
      OBVIOUS
    <2> HIDE DEF u
    <2>2. MaxCardinalityStep(u, x) = MaxOf(Family[x])
      BY <2>1, MaxCardinalityStepExact
    <2>3. QED
      BY <2>2 DEF u
  <1>3. CASE IsTerminal(x)
    BY <1>1, <1>2, <1>3 DEF BoundsCardinalityStep, MinCardinalityStep, MaxCardinalityStep, IsTerminal
  <1>4. CASE ~IsTerminal(x)
    <2>1. /\ Lo(x) \in Diagrams /\ Hi(x) \in Diagrams
          /\ call[Lo(x)] = <<MinOf(Family[Lo(x)]), MaxOf(Family[Lo(x)])>>
          /\ call[Hi(x)] = <<MinOf(Family[Hi(x)]), MaxOf(Family[Hi(x)])>>
      BY <1>4, NodeFamily
    <2>2. MinOf(Family[x]) = Lesser(MinOf(Family[Lo(x)]), AddUsize(MinOf(Family[Hi(x)]), 1))
      BY <1>1, <1>4, <2>1 DEF MinCardinalityStep, IsTerminal
    <2>3. MaxOf(Family[x]) = Greater(MaxOf(Family[Lo(x)]), MaxOf(Family[Hi(x)]) + 1)
      BY <1>2, <1>4, <2>1 DEF MaxCardinalityStep, IsTerminal
    <2>4. QED
      BY <1>4, <2>1, <2>2, <2>3 DEF BoundsCardinalityStep, IsTerminal
  <1>5. QED
    BY <1>3, <1>4

IsBoundsCardinality(u) == u = [p \in Diagrams |-> BoundsCardinalityStep(u, p)]

\* bounds_cardinality
LEMMA BoundsCardinalityExact == \A z \in Diagrams : BoundsCardinality[z] = <<MinOf(Family[z]), MaxOf(Family[z])>>
  <1> DEFINE A(p) == <<MinOf(Family[p]), MaxOf(Family[p])>>
             S == [p \in Diagrams |-> A(p)]
             Good == {p \in Diagrams : BoundsCardinality[p] = A(p)}
  <1>1. ASSUME NEW u, NEW p \in Diagrams,
               \A q \in Diagrams : Rank(q) < Rank(p) => u[q] = A(q)
        PROVE  BoundsCardinalityStep(u, p) = A(p)
    BY <1>1, BoundsCardinalityStepExact
  <1> HIDE DEF A
  <1>2. \A p \in Diagrams : S[p] = BoundsCardinalityStep(S, p)
    <2>1. \A p \in Diagrams : S[p] = A(p)
      OBVIOUS
    <2> HIDE DEF S
    <2>2. QED
      BY <1>1, <2>1
  <1>3. IsBoundsCardinality(S)
    BY <1>2 DEF IsBoundsCardinality
  <1>4. IsBoundsCardinality(BoundsCardinality)
    <2> HIDE DEF S
    <2>1. QED
      BY <1>3 DEF BoundsCardinality, IsBoundsCardinality
  <1>5. Diagrams \subseteq Good
    <2>1. \A p \in Diagrams : BoundsCardinality[p] = BoundsCardinalityStep(BoundsCardinality, p)
      BY <1>4 DEF IsBoundsCardinality
    <2>2. ASSUME NEW p \in Diagrams, \A q \in Diagrams : Rank(q) < Rank(p) => q \in Good
          PROVE  p \in Good
      BY <1>1, <2>1, <2>2
    <2> HIDE DEF Good
    <2>3. QED
      BY <2>2, OneInduction
  <1>6. QED
    BY <1>5 DEF A

-----------------------------------------------------------------------------
(***************************************************************************)
(* has_subset_in                                                           *)
(***************************************************************************)
LEMMA SkipBelowStepExact ==
  ASSUME NEW call, NEW x \in Diagrams, NEW w \in Elements,
         \A q \in ElementCalls : Rank(q[1]) < Rank(x)
                                   => Is(call[q], Both(Family[q[1]], AtLeast(q[2])))
  PROVE  Is(SkipBelowStep(call, x, w), Both(Family[x], AtLeast(w)))
  <1>1. CASE IsTerminal(x) \/ Val(x) >= w
    <2>1. SkipBelowStep(call, x, w) = x
      BY <1>1 DEF SkipBelowStep
    <2>2. Family[x] \in SUBSET AtLeast(w)
      BY <1>1, FromValue
    <2>3. Both(Family[x], AtLeast(w)) = Family[x]
      BY <2>2 DEF Both
    <2>4. QED
      BY <2>1, <2>3, Unique
  <1>2. CASE ~IsTerminal(x) /\ ~(Val(x) >= w)
    <2>1. SkipBelowStep(call, x, w) = call[<<Lo(x), w>>]
      BY <1>2 DEF SkipBelowStep
    <2>2. <<Lo(x), w>> \in ElementCalls /\ Rank(Lo(x)) < Rank(x)
      BY <1>2, NodeCalls
    <2>3. Is(call[<<Lo(x), w>>], Both(Family[Lo(x)], AtLeast(w)))
      BY <2>2
    <2>4. \A s \in Family[x] : s \in AtLeast(w) => s \in Family[Lo(x)]
      <3>1. ASSUME NEW s \in Family[x], s \in AtLeast(w) PROVE Val(x) \notin s
        BY <1>2, <3>1 DEF AtLeast
      <3>2. \A s \in Family[x] : s \in Family[Lo(x)] \/ Val(x) \in s
        BY <1>2, NodeFamily
      <3>3. QED
        BY <3>1, <3>2
    <2>5. Family[Lo(x)] \subseteq Family[x]
      BY <1>2, NodeFamily
    <2>6. Both(Family[x], AtLeast(w)) = Both(Family[Lo(x)], AtLeast(w))
      BY <2>4, <2>5 DEF Both
    <2>7. QED
      BY <2>1, <2>3, <2>6
  <1>3. QED
    BY <1>1, <1>2

LEMMA PartFamilies == \A A \in Families : \A C : Both(A, C) \in Families
  BY DEF Both, Families

IsSkipBelow(u) == u = [p \in ElementCalls |-> SkipBelowStep(u, p[1], p[2])]

\* The lo children below a value.
LEMMA SkipBelowExact ==
  \A x \in Diagrams, w \in Elements : Is(SkipBelow[<<x, w>>], Both(Family[x], AtLeast(w)))
  <1> DEFINE A(p) == Both(Family[p[1]], AtLeast(p[2]))
             S == [p \in ElementCalls |-> Diagram(A(p))]
             Good == {p \in ElementCalls : Is(SkipBelow[p], A(p))}
  <1>1. \A p \in ElementCalls : A(p) \in Families
    BY ElementParts, FamilyOver, PartFamilies
  <1>2. ASSUME NEW u, NEW p \in ElementCalls,
               \A q \in ElementCalls : Rank(q[1]) < Rank(p[1]) => Is(u[q], A(q))
        PROVE  Is(SkipBelowStep(u, p[1], p[2]), A(p))
    BY <1>2, ElementParts, SkipBelowStepExact
  <1> HIDE DEF A
  <1>3. \A p \in ElementCalls : Is(S[p], A(p)) /\ S[p] = SkipBelowStep(S, p[1], p[2])
    <2>1. \A p \in ElementCalls : Is(S[p], A(p))
      BY <1>1, Unique
    <2> HIDE DEF S
    <2>2. QED
      BY <1>1, <1>2, <2>1, Unique
  <1>4. IsSkipBelow(S)
    BY <1>3 DEF IsSkipBelow
  <1>5. IsSkipBelow(SkipBelow)
    <2> HIDE DEF S
    <2>1. QED
      BY <1>4 DEF SkipBelow, IsSkipBelow
  <1>6. ElementCalls \subseteq Good
    <2>1. \A p \in ElementCalls : SkipBelow[p] = SkipBelowStep(SkipBelow, p[1], p[2])
      BY <1>5 DEF IsSkipBelow
    <2>2. ASSUME NEW p \in ElementCalls, \A q \in ElementCalls : Rank(q[1]) < Rank(p[1]) => q \in Good
          PROVE  p \in Good
      BY <1>2, <2>1, <2>2
    <2> HIDE DEF Good
    <2>3. QED
      BY <2>2, ElementInduction
  <1>7. QED
    BY <1>6, ElementParts DEF ElementCalls, A

LEMMA SmallerPairs ==
  ASSUME NEW x \in Diagrams, NEW y \in Diagrams, NEW u \in Diagrams, NEW w \in Diagrams,
         Rank(u) < Rank(x) \/ u = x, Rank(w) < Rank(y)
  PROVE  <<u, w>> \in Pairs /\ PairRank(<<u, w>>) < PairRank(<<x, y>>)
  <1>1. Rank(x) \in Nat /\ Rank(y) \in Nat /\ Rank(u) \in Nat /\ Rank(w) \in Nat
    BY Ranks
  <1>2. Rank(u) <= Rank(x)
    BY <1>1
  <1>3. Rank(u) + Rank(w) < Rank(x) + Rank(y)
    BY <1>1, <1>2
  <1>4. <<u, w>> \in Pairs
    BY DEF Pairs
  <1>5. QED
    BY <1>3, <1>4, PairRanks

LEMMA HasSubsetInStepExact ==
  ASSUME NEW call, NEW x \in Diagrams, NEW y \in Diagrams,
         \A p \in Pairs : PairRank(p) < PairRank(<<x, y>>)
                            => Is(call[p], Having(Family[p[1]], Family[p[2]]))
  PROVE  Is(HasSubsetInStep(call, x, y), Having(Family[x], Family[y]))
  <1> DEFINE A == Family[x]
             B == Family[y]
             Plain == x = y \/ IsZero(x) \/ IsOne(y) \/ {} \in B
             Apart == MinOf(B) > MaxOf(A)
  <1>0. Is(x, A) /\ Is(y, B) /\ A \in Families /\ B \in Families
    BY Unique, FamilyOver
  <1>1. HasSubsetInStep(call, x, y) =
          IF Plain THEN x
          ELSE IF IsOne(x) THEN Zero
          ELSE IF IsZero(y) THEN y
          ELSE IF Apart THEN Zero
          ELSE IF Val(x) < Val(y)
            THEN GetNode(Val(x), call[<<Lo(x), y>>], call[<<Hi(x), y>>])
          ELSE IF Val(x) = Val(y)
            THEN GetNode(Val(x), call[<<Lo(x), Lo(y)>>],
                         call[<<Hi(x), Union[<<Hi(y), Lo(y)>>]>>])
          ELSE call[<<x, SkipBelow[<<Lo(y), Val(x)>>]>>]
    <2>1. ContainsEmptySet[y] = ({} \in B) /\ MinCardinality[y] = MinOf(B)
            /\ MaxCardinality[x] = MaxOf(A)
      BY ContainsEmptySetExact, MinCardinalityExact, MaxCardinalityExact
    <2>2. QED
      BY <2>1 DEF HasSubsetInStep
  <1>2. CASE Plain
    <2>1. A = {} \/ {} \in B \/ A = B
      BY <1>2, FamilyParts DEF IsZero, IsOne
    <2>2. HasSubsetInStep(call, x, y) = x
      BY <1>1, <1>2
    <2> HIDE DEF A, B
    <2>3. Having(A, B) = A
      BY <2>1, SubsetFamilies
    <2>4. QED
      BY <1>0, <2>2, <2>3 DEF A, B
  <1>3. CASE ~Plain /\ IsOne(x)
    <2>1. HasSubsetInStep(call, x, y) = Zero
      BY <1>1, <1>3
    <2>2. A = {{}} /\ {} \notin B
      BY <1>3, FamilyParts DEF IsOne
    <2> HIDE DEF A, B
    <2>3. Having(A, B) = {}
      BY <2>2 DEF Having
    <2>4. QED
      BY <2>1, <2>3, TerminalsAre DEF A, B
  <1>4. CASE ~Plain /\ ~IsOne(x) /\ IsZero(y)
    <2>1. HasSubsetInStep(call, x, y) = y
      BY <1>1, <1>4
    <2>2. B = {}
      BY <1>4, FamilyParts DEF IsZero
    <2> HIDE DEF A, B
    <2>3. Having(A, B) = B
      BY <2>2, SubsetFamilies
    <2>4. QED
      BY <1>0, <2>1, <2>3 DEF A, B
  <1>5. CASE ~Plain /\ ~IsOne(x) /\ ~IsZero(y)
    <2>1. ~IsTerminal(x) /\ ~IsTerminal(y)
      BY <1>5 DEF IsTerminal
    <2>2. A # {} /\ B # {}
      BY <2>1, FamilyNotEmpty
    <2>3. CASE Apart
      <3>1. HasSubsetInStep(call, x, y) = Zero
        BY <1>1, <1>5, <2>3
      <3>2. ASSUME NEW s \in A, NEW t \in B PROVE ~(t \subseteq s)
        <4>1. s \in SUBSET Elements /\ t \in SUBSET Elements
          BY <1>0 DEF Families
        <4> HIDE DEF A, B
        <4>2. Cardinality(s) <= MaxOf(A) /\ MinOf(B) <= Cardinality(t)
                /\ MaxOf(A) \in Nat /\ MinOf(B) \in Nat
          BY <1>0, <2>2, ExtremesAre DEF IsMaxOf, IsMinOf
        <4>3. Cardinality(s) \in Nat /\ Cardinality(t) \in Nat
          BY <4>1, SetSizes
        <4>4. ~(Cardinality(t) <= Cardinality(s))
          BY <2>3, <4>2, <4>3
        <4>5. QED
          BY <4>1, <4>4, SetSizes
      <3> HIDE DEF A, B
      <3>3. Having(A, B) = {}
        BY <3>2 DEF Having
      <3>4. QED
        BY <3>1, <3>3, TerminalsAre DEF A, B
    <2>4. PICK v : IsTop(v, x, y)
      BY <2>1, TopOfTwo
    <2>5. v \in Elements /\ v \in Nat /\ x \in From(v) /\ y \in From(v)
            /\ Val(x) \in Nat /\ Val(y) \in Nat
      BY <2>1, <2>4 DEF IsTop
    <2> DEFINE C == Having(A, B)
    <2>6. /\ Family[LoAt(v, x)] = Off(v, A) /\ Family[HiAt(v, x)] = On(v, A)
          /\ Family[LoAt(v, y)] = Off(v, B) /\ Family[HiAt(v, y)] = On(v, B)
          /\ Is(LoAt(v, y), Off(v, B)) /\ Is(HiAt(v, y), On(v, B))
          /\ A \in SUBSET AtLeast(v) /\ B \in SUBSET AtLeast(v)
      BY <2>5, CofactorsAt
    <2>7. /\ Off(v, C) = Having(Off(v, A), Off(v, B))
          /\ On(v, C) = Having(On(v, A), Either(On(v, B), Off(v, B)))
          /\ C \in SUBSET AtLeast(v)
      <3> HIDE DEF A, B
      <3>1. QED
        BY <2>6, SubsetCofactors, SubsetFamilies
    <2>8. ASSUME NEW u \in {LoAt(v, x), HiAt(v, x)}, NEW w \in {LoAt(v, y), HiAt(v, y)}
          PROVE  Is(call[<<u, w>>], Having(Family[u], Family[w]))
      <3>1. <<u, w>> \in Pairs /\ PairRank(<<u, w>>) < PairRank(<<x, y>>)
        BY <2>4, TopRanks
      <3>2. QED
        BY <3>1
    <2>9. CASE ~Apart /\ Val(x) < Val(y)
      <3>1. v = Val(x) /\ v # Val(y) /\ LoAt(v, x) = Lo(x) /\ HiAt(v, x) = Hi(x)
               /\ LoAt(v, y) = y /\ HiAt(v, y) = Zero
        BY <2>1, <2>4, <2>9 DEF IsTop, LoAt, HiAt
      <3> DEFINE lo == call[<<Lo(x), y>>]
                 hi == call[<<Hi(x), y>>]
      <3>2. HasSubsetInStep(call, x, y) = GetNode(v, lo, hi)
        BY <1>1, <1>5, <2>9, <3>1
      <3>3. On(v, B) = {}
        BY <2>6, <3>1, FamilyParts
      <3>4. Is(lo, Having(Off(v, A), Off(v, B))) /\ Is(hi, Having(On(v, A), Off(v, B)))
        BY <2>6, <2>8, <3>1
      <3> HIDE DEF lo, hi, A, B, C
      <3>5. Either({}, Off(v, B)) = Off(v, B)
        BY SetsOfEmpty
      <3>6. Is(lo, Off(v, C)) /\ Is(hi, On(v, C))
        BY <2>7, <3>3, <3>4, <3>5
      <3>7. QED
        BY <2>5, <2>7, <3>2, <3>6, IsByCofactors DEF A, B, C
    <2>10. CASE ~Apart /\ Val(x) = Val(y)
      <3>1. v = Val(x) /\ v = Val(y) /\ LoAt(v, x) = Lo(x) /\ HiAt(v, x) = Hi(x)
               /\ LoAt(v, y) = Lo(y) /\ HiAt(v, y) = Hi(y)
        BY <2>1, <2>4, <2>10 DEF IsTop, LoAt, HiAt
      <3> DEFINE lo == call[<<Lo(x), Lo(y)>>]
                 u  == Union[<<Hi(y), Lo(y)>>]
                 hi == call[<<Hi(x), u>>]
      <3>2. HasSubsetInStep(call, x, y) = GetNode(v, lo, hi)
        <4>1. ~(Val(x) < Val(y))
          BY <2>5, <2>10
        <4>2. QED
          BY <1>1, <1>5, <2>10, <3>1, <4>1
      <3>3. Is(lo, Having(Off(v, A), Off(v, B)))
        BY <2>6, <2>8, <3>1
      <3>4. Is(u, Either(On(v, B), Off(v, B)))
        BY <2>6, <3>1, UnionExact DEF Is
      <3>5. Either(On(v, B), Off(v, B)) \in SUBSET AtLeast(v)
              /\ Either(On(v, B), Off(v, B)) \subseteq Over(v)
        BY <2>5, <2>6, OverAtLeast DEF Either
      <3>6. u \in Diagrams /\ Rank(u) < Rank(y)
        <4>1. u \in Diagrams /\ Family[u] \subseteq Over(v)
          BY <3>4, <3>5 DEF Is
        <4> HIDE DEF u
        <4>2. u \in Above(v)
          BY <2>5, <4>1, AboveOver
        <4>3. Rank(u) < Top + 1 - v /\ Rank(y) = Top + 1 - v
          BY <2>1, <2>5, <3>1, <4>2, Ranks DEF Rank
        <4>4. QED
          BY <4>1, <4>3
      <3>7. Is(hi, Having(On(v, A), Either(On(v, B), Off(v, B))))
        <4> HIDE DEF u
        <4>1. Hi(x) \in Diagrams /\ Rank(Hi(x)) < Rank(x)
          BY <2>1, NodeFamily
        <4>2. <<Hi(x), u>> \in Pairs /\ PairRank(<<Hi(x), u>>) < PairRank(<<x, y>>)
          BY <2>1, <3>6, <4>1, SmallerPairs
        <4>3. Is(hi, Having(Family[Hi(x)], Family[u]))
          BY <4>2
        <4>4. QED
          BY <2>6, <3>1, <3>4, <4>3 DEF Is
      <3> HIDE DEF lo, hi, A, B, C
      <3>8. Is(lo, Off(v, C)) /\ Is(hi, On(v, C))
        BY <2>7, <3>3, <3>7
      <3>9. QED
        BY <2>5, <2>7, <3>2, <3>8, IsByCofactors DEF A, B, C
    <2>11. CASE ~Apart /\ ~(Val(x) < Val(y)) /\ Val(x) # Val(y)
      <3> DEFINE w == Val(x)
                 u == SkipBelow[<<Lo(y), w>>]
      <3>1. v = Val(y) /\ v # Val(x) /\ LoAt(v, y) = Lo(y) /\ w \in Elements
        BY <2>1, <2>4, <2>5, <2>11, DiagramParts DEF IsTop, LoAt, HiAt
      <3>2. HasSubsetInStep(call, x, y) = call[<<x, u>>]
        BY <1>1, <1>5, <2>11
      <3>3. Is(u, Both(Family[Lo(y)], AtLeast(w))) /\ Lo(y) \in Diagrams
        BY <2>1, <3>1, SkipBelowExact, NodeFamily
      <3>4. u \in Diagrams /\ Rank(u) < Rank(y)
        <4>1. u \in Diagrams /\ Family[u] \subseteq Family[Lo(y)]
          BY <3>3 DEF Is, Both
        <4>2. Family[Lo(y)] \subseteq Over(v)
          BY <2>1, <3>1, NodeCofactors
        <4> HIDE DEF u
        <4>3. u \in Above(v)
          BY <2>5, <4>1, <4>2, AboveOver
        <4>4. Rank(u) < Top + 1 - v /\ Rank(y) = Top + 1 - v
          BY <2>1, <2>5, <3>1, <4>3, Ranks DEF Rank
        <4>5. QED
          BY <4>1, <4>4
      <3>5. Is(call[<<x, u>>], Having(A, Family[u]))
        <4> HIDE DEF u
        <4>1. <<x, u>> \in Pairs /\ PairRank(<<x, u>>) < PairRank(<<x, y>>)
          BY <3>4, SmallerPairs
        <4>2. QED
          BY <4>1
      <3>6. A \in SUBSET AtLeast(w)
        <4>1. Val(x) \in Elements
          BY <2>1, NodeFamily
        <4>2. QED
          BY <2>1, <4>1, NodeCalls
      <3>7. w > v
        BY <2>4, <2>5, <2>1, <3>1 DEF IsTop
      <3>8. ASSUME NEW s \in A, NEW t \in B, t \subseteq s PROVE t \in Family[u]
        <4>1. t \in AtLeast(w)
          BY <3>6, <3>8 DEF AtLeast
        <4>2. v \notin t
          BY <2>5, <3>7, <4>1 DEF AtLeast
        <4>3. t \in Family[Lo(y)]
          BY <2>6, <3>1, <4>2 DEF Off
        <4>4. QED
          BY <3>3, <4>1, <4>3 DEF Is, Both
      <3>9. ASSUME NEW t \in Family[u] PROVE t \in B
        <4>1. t \in Off(v, B)
          BY <2>6, <3>1, <3>3 DEF Is, Both
        <4>2. QED
          BY <4>1 DEF Off
      <3>10. Having(A, Family[u]) = Having(A, B)
        <4> HIDE DEF A, B, u
        <4>1. QED
          BY <3>8, <3>9 DEF Having
      <3>11. QED
        BY <3>2, <3>5, <3>10
    <2>12. QED
      BY <2>3, <2>9, <2>10, <2>11
  <1>6. QED
    BY <1>2, <1>3, <1>4, <1>5

IsHasSubsetIn(u) == u = [p \in Pairs |-> HasSubsetInStep(u, p[1], p[2])]

\* has_subset_in
LEMMA HasSubsetInExact ==
  \A x, y \in Diagrams : Is(HasSubsetIn[<<x, y>>], Having(Family[x], Family[y]))
  <1> DEFINE A(p) == Having(Family[p[1]], Family[p[2]])
             S == [p \in Pairs |-> Diagram(A(p))]
             Good == {p \in Pairs : Is(HasSubsetIn[p], A(p))}
  <1>1. \A p \in Pairs : A(p) \in Families
    BY PairParts, FamilyOver, SubsetFamilies
  <1>2. ASSUME NEW u, NEW p \in Pairs,
               \A q \in Pairs : PairRank(q) < PairRank(p) => Is(u[q], A(q))
        PROVE  Is(HasSubsetInStep(u, p[1], p[2]), A(p))
    BY <1>2, PairParts, HasSubsetInStepExact
  <1> HIDE DEF A
  <1>3. \A p \in Pairs : Is(S[p], A(p)) /\ S[p] = HasSubsetInStep(S, p[1], p[2])
    <2>1. \A p \in Pairs : Is(S[p], A(p))
      BY <1>1, Unique
    <2> HIDE DEF S
    <2>2. QED
      BY <1>1, <1>2, <2>1, Unique
  <1>4. IsHasSubsetIn(S)
    BY <1>3 DEF IsHasSubsetIn
  <1>5. IsHasSubsetIn(HasSubsetIn)
    <2> HIDE DEF S
    <2>1. QED
      BY <1>4 DEF HasSubsetIn, IsHasSubsetIn
  <1>6. Pairs \subseteq Good
    <2>1. \A p \in Pairs : HasSubsetIn[p] = HasSubsetInStep(HasSubsetIn, p[1], p[2])
      BY <1>5 DEF IsHasSubsetIn
    <2>2. ASSUME NEW p \in Pairs, \A q \in Pairs : PairRank(q) < PairRank(p) => q \in Good
          PROVE  p \in Good
      BY <1>2, <2>1, <2>2
    <2> HIDE DEF Good
    <2>3. QED
      BY <2>2, PairInduction
  <1>7. QED
    BY <1>6, PairParts DEF Pairs, A

-----------------------------------------------------------------------------
(***************************************************************************)
(* superset                                                                *)
(***************************************************************************)
LEMMA CoverInduction ==
  ASSUME NEW S,
         \A p \in CoverCalls :
           (\A q \in CoverCalls : Cardinality(q[2]) < Cardinality(p[2]) => q \in S) => p \in S
  PROVE  CoverCalls \subseteq S
  <1> DEFINE rank == [p \in CoverCalls |-> Cardinality(p[2])]
  <1>1. rank \in [CoverCalls -> Nat]
    BY SetSizes DEF CoverCalls, ExtendCalls
  <1>2. \A p \in CoverCalls : (\A q \in CoverCalls : rank[q] < rank[p] => q \in S) => p \in S
    OBVIOUS
  <1> HIDE DEF rank
  <1>3. QED
    BY <1>1, <1>2, RankInduction

LEMMA CoverParts ==
  \A p \in CoverCalls : /\ p[1] \in Diagrams /\ p[2] \in SUBSET Elements
                        /\ p = <<p[1], p[2]>>
  BY DEF CoverCalls, ExtendCalls

LEMMA CoverMembers ==
  \A z, T : <<z, T>> \in CoverCalls <=> /\ z \in Diagrams /\ T \in SUBSET Elements
                                        /\ \A s \in Family[z] : s \subseteq T
  <1>1. \A z, T : <<z, T>> \in CoverCalls <=> z \in Diagrams /\ T \in SUBSET Elements /\ Universe[z] \subseteq T
    BY DEF CoverCalls, ExtendCalls
  <1>2. \A z \in Diagrams : \A T : UNION Family[z] \subseteq T <=> \A s \in Family[z] : s \subseteq T
    OBVIOUS
  <1>3. \A z \in Diagrams : \A T : Universe[z] \subseteq T <=> \A s \in Family[z] : s \subseteq T
    BY <1>2, UniverseExact
  <1>4. QED
    BY <1>1, <1>3

LEMMA SupersetInnerStepExact ==
  ASSUME NEW call, NEW x \in Diagrams, NEW T, <<x, T>> \in CoverCalls,
         \A q \in CoverCalls : Cardinality(q[2]) < Cardinality(T)
                                 => Is(call[q], Grown(q[2], Family[q[1]]))
  PROVE  Is(SupersetInnerStep(call, x, T), Grown(T, Family[x]))
  <1> DEFINE A == Family[x]
  <1>1. T \in SUBSET Elements /\ \A s \in A : s \subseteq T
    BY CoverMembers
  <1>2. CASE IsTerminal(x)
    <2>1. IsZero(x) => SupersetInnerStep(call, x, T) = x /\ A = {}
      BY FamilyParts DEF SupersetInnerStep, IsZero
    <2>2. ~IsZero(x) => SupersetInnerStep(call, x, T) = AllSubsets(T) /\ A = {{}}
      BY <1>2, FamilyParts DEF SupersetInnerStep, IsTerminal, IsOne
    <2> HIDE DEF A
    <2>3. CASE IsZero(x)
      <3>1. Grown(T, A) = {}
        BY <2>1, <2>3, GrownNothing
      <3>2. Is(x, {})
        BY <2>1, <2>3, Unique DEF A
      <3>3. QED
        BY <2>1, <2>3, <3>1, <3>2 DEF A
    <2>4. CASE ~IsZero(x)
      <3>1. Grown(T, A) = SUBSET T
        BY <2>2, <2>4, GrownNothing
      <3>2. Is(AllSubsets(T), SUBSET T)
        BY <1>1, AllSubsetsExact
      <3>3. QED
        BY <2>2, <2>4, <3>1, <3>2 DEF A
    <2>5. QED
      BY <2>3, <2>4
  <1>3. CASE ~IsTerminal(x)
    <2> DEFINE v == Least(T)
               R == T \ {v}
    <2>1. PICK s \in A : Val(x) \in s
      BY <1>3, FamilyNotEmpty
    <2>2. Val(x) \in T
      BY <1>1, <2>1
    <2>3. /\ v \in T /\ v \in Elements /\ v \in Nat /\ v <= Val(x)
          /\ T \in AtLeast(v) /\ R \in SUBSET Elements
          /\ Cardinality(R) < Cardinality(T)
      BY <1>1, <2>2, FirstValue
    <2>4. Val(x) \in Nat /\ ~IsZero(x) /\ ~IsOne(x)
      BY <1>3, DiagramParts DEF IsTerminal
    <2>5. x \in From(v)
      BY <2>3, <2>4 DEF From
    <2>6. ASSUME NEW z, z \in Diagrams, Family[z] = Off(v, A) \/ Family[z] = On(v, A)
          PROVE  Is(call[<<z, R>>], Grown(R, Family[z]))
      <3>1. \A t \in Family[z] : t \subseteq R
        <4>1. \A t \in Off(v, A) : t \subseteq R
          BY <1>1 DEF Off
        <4>2. \A t \in On(v, A) : t \subseteq R
          BY <1>1 DEF On
        <4>3. QED
          BY <2>6, <4>1, <4>2
      <3> HIDE DEF R, v
      <3>2. <<z, R>> \in CoverCalls
        BY <2>3, <2>6, <3>1, CoverMembers
      <3>3. QED
        BY <2>3, <3>2
    <2>7. /\ LoAt(v, x) \in Diagrams /\ HiAt(v, x) \in Diagrams
          /\ Family[LoAt(v, x)] = Off(v, A) /\ Family[HiAt(v, x)] = On(v, A)
          /\ A \in SUBSET AtLeast(v)
      BY <2>3, <2>5, CofactorsAt
    <2> DEFINE lo == call[<<LoAt(v, x), R>>]
               hi == call[<<HiAt(v, x), R>>]
    <2>8. Is(lo, Grown(R, Off(v, A))) /\ Is(hi, Grown(R, On(v, A)))
      BY <2>6, <2>7
    <2>9. /\ Off(v, Grown(T, A)) = Grown(R, Off(v, A))
          /\ On(v, Grown(T, A)) = Either(Grown(R, On(v, A)), Grown(R, Off(v, A)))
      <3> HIDE DEF A, v
      <3>1. QED
        BY <2>3, GrownCofactors
    <2>10. Grown(T, A) \in SUBSET AtLeast(v)
      <3> HIDE DEF A, v
      <3>1. QED
        BY <2>3, <2>7, GrownFamilies
    <2>11. CASE v < Val(x)
      <3>1. LoAt(v, x) = x /\ HiAt(v, x) = Zero
        BY <2>3, <2>4, <2>11 DEF LoAt, HiAt
      <3>2. SupersetInnerStep(call, x, T) = GetNode(v, lo, lo)
        BY <2>4, <2>11, <3>1 DEF SupersetInnerStep
      <3>3. On(v, A) = {}
        BY <2>7, <3>1, FamilyParts
      <3> HIDE DEF A, v, R, lo, hi
      <3>4. Grown(R, {}) = {} /\ Either({}, Grown(R, Off(v, A))) = Grown(R, Off(v, A))
        BY GrownNothing, SetsOfEmpty
      <3>5. Is(lo, Off(v, Grown(T, A))) /\ Is(lo, On(v, Grown(T, A)))
        BY <2>8, <2>9, <3>3, <3>4
      <3>6. QED
        BY <2>3, <2>10, <3>2, <3>5, IsByCofactors DEF A
    <2>12. CASE v = Val(x)
      <3>1. LoAt(v, x) = Lo(x) /\ HiAt(v, x) = Hi(x)
        BY <1>3, <2>12 DEF LoAt, HiAt
      <3>2. SupersetInnerStep(call, x, T) = GetNode(v, lo, Union[<<lo, hi>>])
        <4>1. ~(v < Val(x))
          BY <2>4, <2>12
        <4>2. QED
          BY <2>4, <2>12, <3>1, <4>1 DEF SupersetInnerStep
      <3> HIDE DEF A, v, R, lo, hi
      <3>3. Is(Union[<<lo, hi>>], Either(Grown(R, Off(v, A)), Grown(R, On(v, A))))
        BY <2>8, UnionExact DEF Is
      <3>4. Either(Grown(R, Off(v, A)), Grown(R, On(v, A))) = Either(Grown(R, On(v, A)), Grown(R, Off(v, A)))
        BY SetsCommute
      <3>5. Is(lo, Off(v, Grown(T, A))) /\ Is(Union[<<lo, hi>>], On(v, Grown(T, A)))
        BY <2>8, <2>9, <3>3, <3>4
      <3>6. QED
        BY <2>3, <2>10, <3>2, <3>5, IsByCofactors DEF A
    <2>13. QED
      BY <2>3, <2>4, <2>11, <2>12
  <1>4. QED
    BY <1>2, <1>3

IsSupersetInner(u) == u = [p \in CoverCalls |-> SupersetInnerStep(u, p[1], p[2])]

LEMMA SupersetInnerExact ==
  \A p \in CoverCalls : Is(SupersetInner[p], Grown(p[2], Family[p[1]]))
  <1> DEFINE A(p) == Grown(p[2], Family[p[1]])
             S == [p \in CoverCalls |-> Diagram(A(p))]
             Good == {p \in CoverCalls : Is(SupersetInner[p], A(p))}
  <1>1. \A p \in CoverCalls : A(p) \in Families
    BY CoverParts, FamilyOver, GrownFamilies
  <1>2. ASSUME NEW u, NEW p \in CoverCalls,
               \A q \in CoverCalls : Cardinality(q[2]) < Cardinality(p[2]) => Is(u[q], A(q))
        PROVE  Is(SupersetInnerStep(u, p[1], p[2]), A(p))
    BY <1>2, CoverParts, SupersetInnerStepExact
  <1> HIDE DEF A
  <1>3. \A p \in CoverCalls : Is(S[p], A(p)) /\ S[p] = SupersetInnerStep(S, p[1], p[2])
    <2>1. \A p \in CoverCalls : Is(S[p], A(p))
      BY <1>1, Unique
    <2> HIDE DEF S
    <2>2. QED
      BY <1>1, <1>2, <2>1, Unique
  <1>4. IsSupersetInner(S)
    BY <1>3 DEF IsSupersetInner
  <1>5. IsSupersetInner(SupersetInner)
    <2> HIDE DEF S
    <2>1. QED
      BY <1>4 DEF SupersetInner, IsSupersetInner
  <1>6. CoverCalls \subseteq Good
    <2>1. \A p \in CoverCalls : SupersetInner[p] = SupersetInnerStep(SupersetInner, p[1], p[2])
      BY <1>5 DEF IsSupersetInner
    <2>2. ASSUME NEW p \in CoverCalls, \A q \in CoverCalls : Cardinality(q[2]) < Cardinality(p[2]) => q \in Good
          PROVE  p \in Good
      BY <1>2, <2>1, <2>2
    <2> HIDE DEF Good
    <2>3. QED
      BY <2>2, CoverInduction
  <1>7. QED
    BY <1>6, CoverParts DEF CoverCalls, A

\* superset
LEMMA SupersetExact ==
  \A x \in Diagrams : Is(Superset(x), Grown(UNION Family[x], Family[x]))
  <1>1. ASSUME NEW x \in Diagrams PROVE Is(Superset(x), Grown(UNION Family[x], Family[x]))
    <2> DEFINE T == UNION Family[x]
    <2>1. Universe[x] = T
      BY UniverseExact
    <2>2. T \in SUBSET Elements /\ \A s \in Family[x] : s \subseteq T
      BY FamilyOver DEF Families
    <2> HIDE DEF T
    <2>3. <<x, T>> \in CoverCalls
      BY <2>2, CoverMembers
    <2>4. Is(SupersetInner[<<x, T>>], Grown(T, Family[x]))
      BY <2>3, SupersetInnerExact
    <2>5. QED
      BY <2>1, <2>4 DEF Superset, T
  <1>2. QED
    BY <1>1

-----------------------------------------------------------------------------
(***************************************************************************)
(* from_sets                                                               *)
(***************************************************************************)
ChainCalls == (SUBSET Elements) \X {Zero, One}

LEMMA ChainParts ==
  \A p \in ChainCalls : /\ p[1] \in SUBSET Elements /\ p[2] \in {Zero, One}
                        /\ p = <<p[1], p[2]>>
  BY DEF ChainCalls

LEMMA ChainInduction ==
  ASSUME NEW S,
         \A p \in ChainCalls :
           (\A q \in ChainCalls : Cardinality(q[1]) < Cardinality(p[1]) => q \in S) => p \in S
  PROVE  ChainCalls \subseteq S
  <1> DEFINE rank == [p \in ChainCalls |-> Cardinality(p[1])]
  <1>1. rank \in [ChainCalls -> Nat]
    BY SetSizes DEF ChainCalls
  <1>2. \A p \in ChainCalls : (\A q \in ChainCalls : rank[q] < rank[p] => q \in S) => p \in S
    OBVIOUS
  <1> HIDE DEF rank
  <1>3. QED
    BY <1>1, <1>2, RankInduction

LEMMA ChainStepExact ==
  ASSUME NEW call, NEW s \in SUBSET Elements, NEW lo \in {Zero, One},
         \A q \in ChainCalls : Cardinality(q[1]) < Cardinality(s)
                                 => Is(call[q], Either({q[1]}, Family[q[2]]))
  PROVE  Is(ChainStep(call, s, lo), Either({s}, Family[lo]))
  <1> DEFINE L == Family[lo]
             A == Either({s}, L)
  <1>1. Is(lo, L) /\ (L = {} \/ L = {{}})
    BY TerminalsAre DEF Is
  <1>2. CASE s = {}
    <2>1. ChainStep(call, s, lo) = One
      BY <1>2 DEF ChainStep
    <2>2. A = {{}}
      <3> HIDE DEF L
      <3>1. QED
        BY <1>1, <1>2 DEF Either
    <2>3. QED
      BY <2>1, <2>2, TerminalsAre
  <1>3. CASE s # {}
    <2> DEFINE v == Least(s)
               r == s \ {v}
               hi == call[<<r, Zero>>]
    <2>1. /\ v \in s /\ v \in Elements /\ s \in AtLeast(v) /\ r \in SUBSET Elements
          /\ Cardinality(r) < Cardinality(s)
      BY <1>3, FirstValue
    <2>2. ChainStep(call, s, lo) = GetNode(v, lo, hi)
      BY <1>3 DEF ChainStep
    <2> HIDE DEF v
    <2>3. <<r, Zero>> \in ChainCalls
      BY <2>1 DEF ChainCalls
    <2>4. Is(hi, Either({r}, Family[Zero]))
      BY <2>1, <2>3
    <2>5. Is(hi, {r})
      <3>1. Either({r}, {}) = {r}
        BY SetsOfEmpty
      <3>2. QED
        BY <2>4, <3>1, FamilyParts
    <2> HIDE DEF hi, L
    <2>6. A \in SUBSET AtLeast(v)
      BY <1>1, <2>1 DEF Either, AtLeast
    <2>7. Off(v, A) = L
      BY <1>1, <2>1 DEF Either, Off
    <2>8. On(v, A) = {r}
      BY <1>1, <2>1 DEF Either, On
    <2> HIDE DEF A, r
    <2>9. Is(GetNode(v, lo, hi), A)
      BY <1>1, <2>1, <2>5, <2>6, <2>7, <2>8, IsByCofactors
    <2>10. QED
      BY <2>2, <2>9 DEF A, L
  <1>4. QED
    BY <1>2, <1>3

LEMMA ChainFamilies == \A p \in ChainCalls : Either({p[1]}, Family[p[2]]) \in Families
  <1>1. \A p \in ChainCalls : p[1] \in SUBSET Elements /\ Family[p[2]] \in Families
    BY ChainParts, TerminalDiagrams, FamilyOver
  <1>2. QED
    BY <1>1 DEF Either, Families

IsChain(u) == u = [p \in ChainCalls |-> ChainStep(u, p[1], p[2])]

\* A set alone, or a set and the empty set.
LEMMA ChainExact ==
  \A s \in SUBSET Elements, lo \in {Zero, One} : Is(Chain[<<s, lo>>], Either({s}, Family[lo]))
  <1> DEFINE A(p) == Either({p[1]}, Family[p[2]])
             S == [p \in ChainCalls |-> Diagram(A(p))]
             Good == {p \in ChainCalls : Is(Chain[p], A(p))}
  <1>1. \A p \in ChainCalls : A(p) \in Families
    BY ChainParts, ChainFamilies
  <1>2. ASSUME NEW u, NEW p \in ChainCalls,
               \A q \in ChainCalls : Cardinality(q[1]) < Cardinality(p[1]) => Is(u[q], A(q))
        PROVE  Is(ChainStep(u, p[1], p[2]), A(p))
    BY <1>2, ChainParts, ChainStepExact
  <1> HIDE DEF A
  <1>3. \A p \in ChainCalls : Is(S[p], A(p)) /\ S[p] = ChainStep(S, p[1], p[2])
    <2>1. \A p \in ChainCalls : Is(S[p], A(p))
      BY <1>1, Unique
    <2> HIDE DEF S
    <2>2. QED
      BY <1>1, <1>2, <2>1, Unique
  <1>4. IsChain(S)
    BY <1>3 DEF IsChain
  <1>5. IsChain(Chain)
    <2> HIDE DEF S
    <2>1. QED
      BY <1>4 DEF Chain, IsChain, ChainCalls
  <1>6. ChainCalls \subseteq Good
    <2>1. \A p \in ChainCalls : Chain[p] = ChainStep(Chain, p[1], p[2])
      BY <1>5 DEF IsChain
    <2>2. ASSUME NEW p \in ChainCalls, \A q \in ChainCalls : Cardinality(q[1]) < Cardinality(p[1]) => q \in Good
          PROVE  p \in Good
      BY <1>2, <2>1, <2>2
    <2> HIDE DEF Good
    <2>3. QED
      BY <2>2, ChainInduction
  <1>7. QED
    BY <1>6, ChainParts DEF ChainCalls, A

SplitCalls == Families \X BOOLEAN

\* The empty set, when the flag says that it was seen.
Flagged(flag) == IF flag THEN {{}} ELSE {}

LEMMA SplitParts ==
  \A p \in SplitCalls : p[1] \in Families /\ p[2] \in BOOLEAN /\ p = <<p[1], p[2]>>
  BY DEF SplitCalls

LEMMA SplitInduction ==
  ASSUME NEW S,
         \A p \in SplitCalls :
           (\A q \in SplitCalls : Cardinality(UNION q[1]) < Cardinality(UNION p[1]) => q \in S)
             => p \in S
  PROVE  SplitCalls \subseteq S
  <1> DEFINE rank == [p \in SplitCalls |-> Cardinality(UNION p[1])]
  <1>1. \A p \in SplitCalls : Cardinality(UNION p[1]) \in Nat
    <2>1. \A p \in SplitCalls : UNION p[1] \in SUBSET Elements
      BY DEF SplitCalls, Families
    <2>2. QED
      BY <2>1, SetSizes
  <1>2. rank \in [SplitCalls -> Nat]
    BY <1>1
  <1>3. \A p \in SplitCalls : (\A q \in SplitCalls : rank[q] < rank[p] => q \in S) => p \in S
    OBVIOUS
  <1> HIDE DEF rank
  <1>4. QED
    BY <1>2, <1>3, RankInduction

LEMMA SplitStepExact ==
  ASSUME NEW call, NEW range \in Families, NEW flag \in BOOLEAN,
         \A q \in SplitCalls : Cardinality(UNION q[1]) < Cardinality(UNION range)
                                 => Is(call[q], Either(q[1], Flagged(q[2])))
  PROVE  Is(SplitStep(call, range, flag), Either(range, Flagged(flag)))
  <1> DEFINE contains == flag \/ {} \in range
             sets == range \ {{}}
             lo == IF contains THEN One ELSE Zero
             T == UNION sets
             v == Least(T)
             split == {s \in sets : v \in s}
             rest == sets \ split
             tails == {s \ {v} : s \in split}
             A == Either(range, Flagged(flag))
  <1>1. SplitStep(call, range, flag) =
          IF sets = {} THEN lo
          ELSE IF Cardinality(sets) = 1 THEN Chain[<<T, lo>>]
          ELSE GetNode(v, call[<<rest, contains>>], call[<<tails, FALSE>>])
    BY DEF SplitStep
  <1>2. Is(lo, Flagged(contains)) /\ lo \in {Zero, One} /\ Family[lo] = Flagged(contains)
    BY TerminalsAre DEF Is, Flagged
  <1>3. A = Either(sets, Flagged(contains))
    <2>1. \A s : s \in A <=> s \in range \/ (flag /\ s = {})
      BY DEF Either, Flagged
    <2>2. \A s : s \in Either(sets, Flagged(contains)) <=> (s \in range /\ s # {}) \/ (contains /\ s = {})
      BY DEF Either, Flagged
    <2>3. QED
      <3>1. \A s : s \in A <=> s \in Either(sets, Flagged(contains))
        BY <2>1, <2>2
      <3> HIDE DEF A, sets, contains
      <3>2. QED
        BY <3>1
  <1>4. sets \in Families /\ T \in SUBSET Elements /\ \A s \in sets : s \subseteq T /\ s # {}
    BY DEF Families
  <1>5. T = UNION range
    OBVIOUS
  <1>6. CASE sets = {}
    <2>1. SplitStep(call, range, flag) = lo
      BY <1>1, <1>6
    <2> HIDE DEF sets, contains, lo, A
    <2>2. A = Flagged(contains)
      BY <1>3, <1>6, SetsOfEmpty
    <2>3. QED
      BY <1>2, <2>1, <2>2 DEF A
  <1>7. CASE sets # {} /\ Cardinality(sets) = 1
    <2>1. SplitStep(call, range, flag) = Chain[<<T, lo>>]
      BY <1>1, <1>7
    <2>2. sets = {T}
      <3> HIDE DEF sets
      <3>1. IsFiniteSet(sets)
        BY <1>4, FamiliesFinite
      <3>2. PICK t : sets = {t}
        BY <1>7, <3>1, FS_Singleton
      <3>3. QED
        BY <3>2
    <2> HIDE DEF sets, contains, lo, A, T
    <2>3. Is(Chain[<<T, lo>>], Either({T}, Family[lo]))
      BY <1>2, <1>4, ChainExact
    <2>4. QED
      BY <1>2, <1>3, <2>1, <2>2, <2>3 DEF A
  <1>8. CASE sets # {} /\ Cardinality(sets) # 1
    <2>1. SplitStep(call, range, flag) = GetNode(v, call[<<rest, contains>>], call[<<tails, FALSE>>])
      BY <1>1, <1>8
    <2>2. T # {}
      <3> HIDE DEF sets
      <3>1. QED
        BY <1>4, <1>8
    <2>3. v \in T /\ v \in Elements /\ T \in AtLeast(v) /\ T \ {v} \in SUBSET Elements
            /\ Cardinality(T \ {v}) < Cardinality(T)
      <3> HIDE DEF T
      <3>1. QED
        BY <1>4, <2>2, FirstValue
    <2>4. contains \in BOOLEAN
      OBVIOUS
    <2> HIDE DEF sets, contains, T, v
    <2>5. ASSUME NEW R \in {rest, tails}
          PROVE  R \in Families /\ Cardinality(UNION R) < Cardinality(T)
      <3>1. R \in Families /\ UNION R \subseteq T \ {v}
        BY <1>4 DEF Families
      <3>2. UNION R \in SUBSET Elements
        BY <3>1 DEF Families
      <3> DEFINE U == UNION R
                 W == T \ {v}
      <3> HIDE DEF U, W
      <3>3. U \in SUBSET Elements /\ W \in SUBSET Elements /\ U \subseteq W
        BY <2>3, <3>1, <3>2 DEF U, W
      <3>4. Cardinality(U) <= Cardinality(W) /\ Cardinality(U) \in Nat /\ Cardinality(W) \in Nat
              /\ Cardinality(T) \in Nat
        BY <1>4, <3>3, SetSizes
      <3>5. Cardinality(W) < Cardinality(T)
        BY <2>3 DEF W
      <3>6. Cardinality(U) < Cardinality(T)
        BY <3>4, <3>5
      <3>7. QED
        BY <3>1, <3>6 DEF U
    <2>6. ASSUME NEW R \in {rest, tails}, NEW b \in BOOLEAN
          PROVE  Is(call[<<R, b>>], Either(R, Flagged(b)))
      <3>1. <<R, b>> \in SplitCalls
        BY <2>5 DEF SplitCalls
      <3>2. Cardinality(UNION R) < Cardinality(UNION range)
        BY <1>5, <2>5
      <3>3. QED
        BY <3>1, <3>2
    <2> DEFINE l == call[<<rest, contains>>]
               h == call[<<tails, FALSE>>]
    <2>7. Is(l, Either(rest, Flagged(contains)))
      BY <2>4, <2>6
    <2>8. Is(h, tails)
      <3>1. Is(h, Either(tails, Flagged(FALSE)))
        BY <2>6
      <3>2. Flagged(FALSE) = {}
        BY DEF Flagged
      <3> HIDE DEF tails, h
      <3>3. QED
        BY <3>1, <3>2, SetsOfEmpty
    <2> HIDE DEF l, h
    <2>9. \A s \in Flagged(contains) : s = {}
      BY DEF Flagged
    <2>10. A \in SUBSET AtLeast(v)
      <3>1. \A s \in A : s \subseteq T
        <4> HIDE DEF A
        <4>1. QED
          BY <1>3, <1>4, <2>9 DEF Either
      <3> HIDE DEF A
      <3>2. QED
        BY <2>3, <3>1 DEF AtLeast
    <2>11. Off(v, A) = Either(rest, Flagged(contains))
      <3> HIDE DEF A
      <3>1. QED
        BY <1>3, <2>9 DEF Either, Off
    <2>12. On(v, A) = tails
      <3> HIDE DEF A
      <3>1. {s \in A : v \in s} = split
        BY <1>3, <2>9 DEF Either
      <3>2. \A s : (s \in A /\ v \in s) <=> s \in split
        BY <3>1
      <3> HIDE DEF split
      <3>3. QED
        BY <3>2 DEF On
    <2> HIDE DEF A, rest, tails
    <2>13. Is(GetNode(v, l, h), A)
      BY <2>3, <2>7, <2>8, <2>10, <2>11, <2>12, IsByCofactors
    <2>14. QED
      BY <2>1, <2>13 DEF A, l, h
  <1>9. QED
    BY <1>6, <1>7, <1>8

LEMMA SplitFamilies == \A p \in SplitCalls : Either(p[1], Flagged(p[2])) \in Families
  BY SplitParts DEF Either, Flagged, Families

IsSplit(u) == u = [p \in SplitCalls |-> SplitStep(u, p[1], p[2])]

LEMMA SplitExact ==
  \A A \in Families, flag \in BOOLEAN : Is(Split[<<A, flag>>], Either(A, Flagged(flag)))
  <1> DEFINE A(p) == Either(p[1], Flagged(p[2]))
             S == [p \in SplitCalls |-> Diagram(A(p))]
             Good == {p \in SplitCalls : Is(Split[p], A(p))}
  <1>1. \A p \in SplitCalls : A(p) \in Families
    BY SplitParts, SplitFamilies
  <1>2. ASSUME NEW u, NEW p \in SplitCalls,
               \A q \in SplitCalls : Cardinality(UNION q[1]) < Cardinality(UNION p[1]) => Is(u[q], A(q))
        PROVE  Is(SplitStep(u, p[1], p[2]), A(p))
    BY <1>2, SplitParts, SplitStepExact
  <1> HIDE DEF A
  <1>3. \A p \in SplitCalls : Is(S[p], A(p)) /\ S[p] = SplitStep(S, p[1], p[2])
    <2>1. \A p \in SplitCalls : Is(S[p], A(p))
      BY <1>1, Unique
    <2> HIDE DEF S
    <2>2. QED
      BY <1>1, <1>2, <2>1, Unique
  <1>4. IsSplit(S)
    BY <1>3 DEF IsSplit
  <1>5. IsSplit(Split)
    <2> HIDE DEF S
    <2>1. QED
      BY <1>4 DEF Split, IsSplit, SplitCalls
  <1>6. SplitCalls \subseteq Good
    <2>1. \A p \in SplitCalls : Split[p] = SplitStep(Split, p[1], p[2])
      BY <1>5 DEF IsSplit
    <2>2. ASSUME NEW p \in SplitCalls, \A q \in SplitCalls : Cardinality(UNION q[1]) < Cardinality(UNION p[1]) => q \in Good
          PROVE  p \in Good
      BY <1>2, <2>1, <2>2
    <2> HIDE DEF Good
    <2>3. QED
      BY <2>2, SplitInduction
  <1>7. QED
    BY <1>6, SplitParts DEF SplitCalls, A

\* from_sets
LEMMA FromSetsExact == \A A \in Families : Is(FromSets(A), A)
  <1>1. ASSUME NEW A \in Families PROVE Is(FromSets(A), A)
    <2>1. CASE A = {} \/ A = {{}}
      BY <2>1, TerminalsAre DEF FromSets
    <2>2. CASE ~(A = {} \/ A = {{}})
      <3>1. FromSets(A) = Split[<<A, FALSE>>]
        BY <2>2 DEF FromSets
      <3>2. Is(Split[<<A, FALSE>>], Either(A, Flagged(FALSE)))
        BY SplitExact
      <3>3. Either(A, Flagged(FALSE)) = A
        BY SetsOfEmpty DEF Flagged
      <3>4. QED
        BY <3>1, <3>2, <3>3
    <2>3. QED
      BY <2>1, <2>2
  <1>2. QED
    BY <1>1

-----------------------------------------------------------------------------
(***************************************************************************)
(* SingleSet: a diagram with one path                                      *)
(***************************************************************************)
LEMMA LastValue ==
  ASSUME NEW T \in SUBSET Elements, T # {}
  PROVE  /\ Greatest(T) \in T /\ \A y \in T : y <= Greatest(T)
         /\ \A m \in T : (\A y \in T : y <= m) => m = Greatest(T)
         /\ T \in SUBSET Nat
  <1>1. T \in SUBSET Nat /\ Top \in Nat /\ \A y \in T : y <= Top
    BY TopExact
  <1>2. Greatest(T) \in T /\ \A y \in T : Greatest(T) >= y
    BY <1>1, Greatests
  <1> DEFINE g0 == Greatest(T)
  <1>3. g0 \in T /\ \A y \in T : g0 >= y
    BY <1>2
  <1> HIDE DEF g0
  <1>4. \A y \in T : y <= g0
    BY <1>1, <1>3
  <1>5. \A m \in T : (\A y \in T : y <= m) => m = g0
    BY <1>1, <1>3, <1>4
  <1>6. QED
    BY <1>1, <1>3, <1>4, <1>5 DEF g0

\* The diagram of one set is its chain.
LEMMA SingleParts ==
  ASSUME NEW s \in SUBSET Elements, NEW z, z = Chain[<<s, Zero>>]
  PROVE  /\ Is(z, {s}) /\ z \in Singles /\ z \in Diagrams /\ Family[z] = {s} /\ UNION Family[z] = s
         /\ IsTerminal(z) <=> s = {}
         /\ IsOne(z) <=> s = {}
         /\ s # {} => Val(z) = Least(s) /\ Hi(z) = Chain[<<s \ {Least(s)}, Zero>>]
  <1>1. ASSUME NEW t \in SUBSET Elements PROVE Is(Chain[<<t, Zero>>], {t})
    <2>1. Is(Chain[<<t, Zero>>], Either({t}, Family[Zero]))
      BY ChainExact
    <2>2. Either({t}, {}) = {t}
      BY SetsOfEmpty
    <2>3. QED
      BY <2>1, <2>2, FamilyParts
  <1>2. Is(z, {s}) /\ z \in Singles /\ z \in Diagrams /\ Family[z] = {s} /\ UNION Family[z] = s
    BY <1>1 DEF Singles, Is
  <1>3. IsOne(z) <=> s = {}
    <2>1. IsOne(z) <=> {s} = {{}}
      BY <1>2, IsTerminals
    <2>2. QED
      BY <2>1
  <1>4. IsTerminal(z) <=> s = {}
    <2>1. ~IsZero(z)
      BY <1>2, IsTerminals
    <2>2. QED
      BY <1>3, <2>1 DEF IsTerminal
  <1>5. ASSUME s # {}
        PROVE  Val(z) = Least(s) /\ Hi(z) = Chain[<<s \ {Least(s)}, Zero>>]
    <2> DEFINE v == Least(s)
               r == s \ {v}
               hi == Chain[<<r, Zero>>]
    <2>1. v \in s /\ v \in Elements /\ s \in AtLeast(v) /\ r \in SUBSET Elements
      BY <1>5, FirstValue
    <2> HIDE DEF v
    <2>2. Is(hi, {r})
      BY <1>1, <2>1
    <2>3. {s} \in SUBSET AtLeast(v)
      BY <2>1
    <2>4. Off(v, {s}) = {} /\ On(v, {s}) = {r}
      BY <2>1 DEF Off, On
    <2> HIDE DEF hi
    <2>5. Is(Zero, Off(v, {s})) /\ Is(hi, On(v, {s}))
      BY <2>2, <2>4, TerminalsAre
    <2>6. Is(GetNode(v, Zero, hi), {s})
      <3> DEFINE A == {s}
      <3> HIDE DEF A
      <3>1. A \in SUBSET AtLeast(v) /\ Is(Zero, Off(v, A)) /\ Is(hi, On(v, A))
        BY <2>3, <2>5 DEF A
      <3>2. Is(GetNode(v, Zero, hi), A)
        BY <2>1, <3>1, IsByCofactors
      <3>3. QED
        BY <3>2 DEF A
    <2>7. z = GetNode(v, Zero, hi)
      <3>1. {s} \in Families
        BY DEF Families
      <3>2. QED
        BY <1>2, <2>6, <3>1, Unique
    <2>8. ~IsZero(hi)
      BY <2>2, IsTerminals
    <2>9. z = Node(v, Zero, hi)
      BY <2>7, <2>8 DEF GetNode
    <2>10. QED
      BY <2>9 DEF Node, Val, Hi, v, hi
  <1>6. QED
    BY <1>2, <1>3, <1>4, <1>5

\* A diagram of Singles by its set.
LEMMA SinglesAre ==
  /\ \A z \in Singles : \E s \in SUBSET Elements : z = Chain[<<s, Zero>>]
  /\ \A z : \A s \in SUBSET Elements : Is(z, {s}) => z = Chain[<<s, Zero>>] /\ z \in Singles
  <1>1. \A z \in Singles : \E s \in SUBSET Elements : z = Chain[<<s, Zero>>]
    BY DEF Singles
  <1>2. ASSUME NEW z, NEW s \in SUBSET Elements, Is(z, {s})
        PROVE  z = Chain[<<s, Zero>>] /\ z \in Singles
    <2>1. Is(Chain[<<s, Zero>>], {s}) /\ Chain[<<s, Zero>>] \in Singles
      BY SingleParts
    <2>2. {s} \in Families
      BY DEF Families
    <2>3. QED
      BY <1>2, <2>1, <2>2, Unique
  <1>3. QED
    BY <1>1, <1>2

LEMMA SingleDiagrams == \A z \in Singles : z \in Diagrams /\ UNION Family[z] \in SUBSET Elements
  <1>1. ASSUME NEW z \in Singles PROVE z \in Diagrams /\ UNION Family[z] \in SUBSET Elements
    <2>1. PICK s \in SUBSET Elements : z = Chain[<<s, Zero>>]
      BY SinglesAre
    <2>2. z \in Diagrams /\ UNION Family[z] = s
      BY <2>1, SingleParts
    <2>3. QED
      BY <2>2
  <1>2. QED
    BY <1>1

IsPath(u) == u = [z \in Singles |-> PathStep(u, z)]

LEMMA PathStepExact ==
  ASSUME NEW u, NEW z \in Singles,
         \A y \in Singles : Rank(y) < Rank(z) => u[y] = UNION Family[y]
  PROVE  PathStep(u, z) = UNION Family[z]
  <1>1. PICK s \in SUBSET Elements : z = Chain[<<s, Zero>>]
    BY SinglesAre
  <1>2. /\ z \in Diagrams /\ UNION Family[z] = s /\ (IsTerminal(z) <=> s = {})
        /\ s # {} => Val(z) = Least(s) /\ Hi(z) = Chain[<<s \ {Least(s)}, Zero>>]
    BY <1>1, SingleParts
  <1>3. CASE s = {}
    BY <1>2, <1>3 DEF PathStep
  <1>4. CASE s # {}
    <2> DEFINE v == Least(s)
               r == s \ {v}
    <2>1. v \in s /\ r \in SUBSET Elements
      BY <1>4, FirstValue
    <2>2. Hi(z) \in Singles /\ UNION Family[Hi(z)] = r
      <3> HIDE DEF r
      <3>1. Hi(z) = Chain[<<r, Zero>>]
        BY <1>2, <1>4 DEF r
      <3>2. QED
        BY <2>1, <3>1, SingleParts
    <2>3. Rank(Hi(z)) < Rank(z)
      BY <1>2, <1>4, NodeFamily
    <2>4. PathStep(u, z) = {v} \cup r
      BY <1>2, <1>4, <2>2, <2>3 DEF PathStep
    <2>5. QED
      BY <1>2, <2>1, <2>4
  <1>5. QED
    BY <1>3, <1>4

\* The values on the path.
LEMMA PathExact == \A z \in Singles : Path[z] = UNION Family[z]
  <1> DEFINE S == [z \in Singles |-> UNION Family[z]]
             Good == {z \in Diagrams : z \in Singles => Path[z] = UNION Family[z]}
  <1>1. \A z \in Singles : PathStep(S, z) = S[z]
    <2>1. \A z \in Singles : S[z] = UNION Family[z]
      OBVIOUS
    <2> HIDE DEF S
    <2>2. QED
      BY <2>1, PathStepExact
  <1>2. IsPath(S)
    BY <1>1 DEF IsPath
  <1>3. IsPath(Path)
    <2> HIDE DEF S
    <2>1. QED
      BY <1>2 DEF Path, IsPath
  <1>4. Diagrams \subseteq Good
    <2>1. \A z \in Singles : Path[z] = PathStep(Path, z)
      BY <1>3 DEF IsPath
    <2>2. ASSUME NEW z \in Diagrams, \A y \in Diagrams : Rank(y) < Rank(z) => y \in Good
          PROVE  z \in Good
      <3>1. Singles \subseteq Diagrams
        BY SingleDiagrams
      <3>2. QED
        BY <2>1, <2>2, <3>1, PathStepExact
    <2> HIDE DEF Good
    <2>3. QED
      BY <2>2, OneInduction
  <1>5. QED
    BY <1>4, SingleDiagrams

PivotCalls == Singles \X Elements
HalfOf(v, z) == {x \in UNION Family[z] : x >= v}

LEMMA PivotInduction ==
  ASSUME NEW S,
         \A p \in PivotCalls : (\A q \in PivotCalls : Rank(q[1]) < Rank(p[1]) => q \in S) => p \in S
  PROVE  PivotCalls \subseteq S
  <1> DEFINE rank == [p \in PivotCalls |-> Rank(p[1])]
  <1>1. rank \in [PivotCalls -> Nat]
    BY Ranks, SingleDiagrams DEF PivotCalls
  <1>2. \A p \in PivotCalls : (\A q \in PivotCalls : rank[q] < rank[p] => q \in S) => p \in S
    OBVIOUS
  <1> HIDE DEF rank
  <1>3. QED
    BY <1>1, <1>2, RankInduction

LEMMA AtOrAboveStepExact ==
  ASSUME NEW u, NEW z \in Singles, NEW v \in Elements,
         \A q \in PivotCalls : Rank(q[1]) < Rank(z) => Is(u[q], {HalfOf(q[2], q[1])})
  PROVE  Is(AtOrAboveStep(u, z, v), {HalfOf(v, z)})
  <1>1. PICK s \in SUBSET Elements : z = Chain[<<s, Zero>>]
    BY SinglesAre
  <1>2. /\ Is(z, {s}) /\ z \in Diagrams /\ UNION Family[z] = s /\ (IsTerminal(z) <=> s = {})
        /\ s # {} => Val(z) = Least(s) /\ Hi(z) = Chain[<<s \ {Least(s)}, Zero>>]
    BY <1>1, SingleParts
  <1>3. CASE s = {}
    <2>1. AtOrAboveStep(u, z, v) = z
      BY <1>2, <1>3 DEF AtOrAboveStep
    <2>2. HalfOf(v, z) = s
      BY <1>2, <1>3 DEF HalfOf
    <2>3. QED
      BY <1>2, <2>1, <2>2
  <1>4. CASE s # {}
    <2> DEFINE m == Least(s)
               r == s \ {m}
    <2>1. m \in s /\ r \in SUBSET Elements /\ m \in Nat /\ (\A x \in r : x \in Nat /\ m < x)
      BY <1>4, FirstValue
    <2>2. Val(z) = m /\ ~IsTerminal(z)
      BY <1>2, <1>4
    <2> HIDE DEF m
    <2>3. v \in Nat
      BY TopExact
    <2>4. CASE m >= v
      <3>1. AtOrAboveStep(u, z, v) = z
        BY <2>2, <2>4 DEF AtOrAboveStep
      <3>2. \A x \in s : x >= v
        <4>1. \A x \in s : x = m \/ x \in r
          OBVIOUS
        <4> HIDE DEF r
        <4>2. \A x \in r : x >= v
          BY <2>1, <2>3, <2>4
        <4>3. QED
          BY <2>4, <4>1, <4>2
      <3>3. HalfOf(v, z) = s
        BY <1>2, <3>2 DEF HalfOf
      <3>4. QED
        BY <1>2, <3>1, <3>3
    <2>5. CASE ~(m >= v)
      <3>1. AtOrAboveStep(u, z, v) = u[<<Hi(z), v>>]
        BY <2>2, <2>5 DEF AtOrAboveStep
      <3>2. Hi(z) \in Singles /\ UNION Family[Hi(z)] = r
        <4> HIDE DEF r
        <4>1. Hi(z) = Chain[<<r, Zero>>]
          BY <1>2, <1>4 DEF r, m
        <4>2. QED
          BY <2>1, <4>1, SingleParts
      <3>3. <<Hi(z), v>> \in PivotCalls /\ Rank(Hi(z)) < Rank(z)
        BY <1>2, <2>2, <3>2, NodeFamily DEF PivotCalls
      <3>4. Is(u[<<Hi(z), v>>], {HalfOf(v, Hi(z))})
        BY <3>3
      <3>5. HalfOf(v, Hi(z)) = HalfOf(v, z)
        BY <1>2, <2>5, <3>2 DEF HalfOf
      <3>6. QED
        BY <3>1, <3>4, <3>5
    <2>6. QED
      BY <2>4, <2>5
  <1>5. QED
    BY <1>3, <1>4

LEMMA PivotParts ==
  \A p \in PivotCalls : /\ p[1] \in Singles /\ p[2] \in Elements /\ p = <<p[1], p[2]>>
                        /\ {HalfOf(p[2], p[1])} \in Families
  <1>1. \A p \in PivotCalls : p[1] \in Singles /\ p[2] \in Elements /\ p = <<p[1], p[2]>>
    BY DEF PivotCalls
  <1>2. \A z \in Singles : UNION Family[z] \in SUBSET Elements
    BY SingleDiagrams
  <1>3. QED
    BY <1>1, <1>2 DEF HalfOf, Families

IsAtOrAbove(u) == u = [p \in PivotCalls |-> AtOrAboveStep(u, p[1], p[2])]

\* The rest of the path from a value on.
LEMMA AtOrAboveExact ==
  \A z \in Singles, v \in Elements : Is(AtOrAbove[<<z, v>>], {HalfOf(v, z)})
  <1> DEFINE A(p) == {HalfOf(p[2], p[1])}
             S == [p \in PivotCalls |-> Diagram(A(p))]
             Good == {p \in PivotCalls : Is(AtOrAbove[p], A(p))}
  <1>1. \A p \in PivotCalls : A(p) \in Families
    BY PivotParts
  <1>2. ASSUME NEW u, NEW p \in PivotCalls,
               \A q \in PivotCalls : Rank(q[1]) < Rank(p[1]) => Is(u[q], A(q))
        PROVE  Is(AtOrAboveStep(u, p[1], p[2]), A(p))
    BY <1>2, PivotParts, AtOrAboveStepExact
  <1> HIDE DEF A
  <1>3. \A p \in PivotCalls : Is(S[p], A(p)) /\ S[p] = AtOrAboveStep(S, p[1], p[2])
    <2>1. \A p \in PivotCalls : Is(S[p], A(p))
      BY <1>1, Unique
    <2> HIDE DEF S
    <2>2. QED
      BY <1>1, <1>2, <2>1, Unique
  <1>4. IsAtOrAbove(S)
    BY <1>3 DEF IsAtOrAbove
  <1>5. IsAtOrAbove(AtOrAbove)
    <2> HIDE DEF S
    <2>1. QED
      BY <1>4 DEF AtOrAbove, IsAtOrAbove, PivotCalls
  <1>6. PivotCalls \subseteq Good
    <2>1. \A p \in PivotCalls : AtOrAbove[p] = AtOrAboveStep(AtOrAbove, p[1], p[2])
      BY <1>5 DEF IsAtOrAbove
    <2>2. ASSUME NEW p \in PivotCalls, \A q \in PivotCalls : Rank(q[1]) < Rank(p[1]) => q \in Good
          PROVE  p \in Good
      BY <1>2, <2>1, <2>2
    <2> HIDE DEF Good
    <2>3. QED
      BY <2>2, PivotInduction
  <1>7. QED
    BY <1>6, PivotParts DEF PivotCalls, A

LEMMA GreatestIs ==
  ASSUME NEW T \in SUBSET Elements, NEW m \in T, \A y \in T : y <= m
  PROVE  m = Greatest(T)
  BY LastValue

\* A SingleSet after any pops and pivots.
SingleInv == content \in SUBSET Elements /\ BehavesAsASet

LEMMA SingleIs ==
  ASSUME NEW s \in SUBSET Elements, NEW one, Is(one.set, {s})
  PROVE  /\ one.set = Chain[<<s, Zero>>] /\ one.set \in Singles
         /\ Path[one.set] = s /\ First(one) = FirstOf(s)
         /\ IsOne(one.set) <=> s = {}
         /\ s # {} => Hi(one.set) = Chain[<<s \ {Least(s)}, Zero>>]
  <1> DEFINE z == one.set
  <1>1. z = Chain[<<s, Zero>>] /\ z \in Singles
    BY SinglesAre
  <1>2. /\ UNION Family[z] = s /\ (IsOne(z) <=> s = {})
        /\ s # {} => Val(z) = Least(s) /\ Hi(z) = Chain[<<s \ {Least(s)}, Zero>>]
    BY <1>1, SingleParts
  <1>3. Path[z] = s
    BY <1>1, <1>2, PathExact
  <1>4. First(one) = FirstOf(s)
    BY <1>2 DEF First, FirstOf
  <1>5. QED
    BY <1>1, <1>2, <1>3, <1>4

LEMMA MakeSingleIs ==
  ASSUME NEW s \in SUBSET Elements
  PROVE  /\ Is(MakeSingle(s).set, {s}) /\ MakeSingle(s).last = LastOf(s)
  <1>1. Is(Chain[<<s, Zero>>], {s})
    BY SingleParts
  <1>2. MakeSingle(s).set = Chain[<<s, Zero>>] /\ MakeSingle(s).last = LastOf(s)
    BY DEF MakeSingle, SingleSet
  <1>3. QED
    BY <1>1, <1>2

LEMMA SingleInitially == SingleInit => SingleInv
  <1> SUFFICES ASSUME SingleInit PROVE SingleInv
    OBVIOUS
  <1>1. content \in SUBSET Elements /\ single = MakeSingle(content) /\ popped.answer = popped.end
    BY DEF SingleInit
  <1>2. Is(single.set, {content}) /\ single.last = LastOf(content)
    BY <1>1, MakeSingleIs
  <1>3. First(single) = FirstOf(content)
    BY <1>1, <1>2, SingleIs
  <1>4. QED
    BY <1>1, <1>2, <1>3 DEF SingleInv, BehavesAsASet, FirstOf, LastOf

\* What is left to show of a step: the new diagram and its last value.
LEMMA SingleAfter ==
  ASSUME content' \in SUBSET Elements, Is(single'.set, {content'}),
         popped'.answer = popped'.end,
         content' # {} => single'.last = Greatest(content')
  PROVE  SingleInv'
  <1>1. First(single') = FirstOf(content')
    BY SingleIs
  <1>2. content' # {} => First(single') = Least(content')
    BY <1>1 DEF FirstOf
  <1>3. QED
    BY <1>2 DEF SingleInv, BehavesAsASet, First

LEMMA SingleStep == SingleInv /\ [SingleNext]_singleVars => SingleInv'
  <1> SUFFICES ASSUME SingleInv, [SingleNext]_singleVars PROVE SingleInv'
    OBVIOUS
  <1>1. /\ content \in SUBSET Elements /\ Is(single.set, {content})
        /\ popped.answer = popped.end
        /\ content # {} => single.last = Greatest(content)
    BY DEF SingleInv, BehavesAsASet
  <1>2. /\ single.set = Chain[<<content, Zero>>] /\ single.set \in Singles
        /\ Path[single.set] = content /\ First(single) = FirstOf(content)
        /\ IsOne(single.set) <=> content = {}
        /\ content # {} => Hi(single.set) = Chain[<<content \ {Least(content)}, Zero>>]
    BY <1>1, SingleIs
  <1>3. CASE PopFirst
    <2>1. popped'.answer = popped'.end
      BY <1>2, <1>3 DEF PopFirst
    <2>2. CASE content = {}
      <3>1. single' = single /\ content' = content
        BY <1>2, <1>3, <2>2 DEF PopFirst
      <3>2. QED
        BY <1>1, <2>1, <3>1, SingleAfter
    <2>3. CASE content # {}
      <3> DEFINE v == Least(content)
                 r == content \ {v}
                 rest == Hi(single.set)
      <3>1. v \in content /\ r \in SUBSET Elements
        BY <1>1, <2>3, FirstValue
      <3>2. content' = r
        BY <1>3, <2>3 DEF PopFirst, FirstOf
      <3>3. single' = SingleSet(rest, IF IsOne(rest) THEN NoValue ELSE single.last)
        BY <1>2, <1>3, <2>3 DEF PopFirst
      <3>4. rest = Chain[<<r, Zero>>]
        BY <1>2, <2>3
      <3> HIDE DEF rest
      <3>5. single'.set = rest /\ single'.last = IF IsOne(rest) THEN NoValue ELSE single.last
        BY <3>3 DEF SingleSet
      <3>6. Is(rest, {r}) /\ (IsOne(rest) <=> r = {})
        <4> HIDE DEF r
        <4>1. QED
          BY <3>1, <3>4, SingleParts
      <3>7. r # {} => single'.last = Greatest(r)
        <4> SUFFICES ASSUME r # {} PROVE single'.last = Greatest(r)
          OBVIOUS
        <4> DEFINE m == Greatest(content)
        <4>1. single'.last = m
          BY <1>1, <2>3, <3>5, <3>6
        <4>2. m \in content /\ (\A y \in content : y <= m) /\ content \in SUBSET Nat
          BY <1>1, <2>3, LastValue
        <4>3. PICK y \in r : TRUE
          OBVIOUS
        <4>4. y \in Nat /\ v \in Nat /\ v < y
          BY <1>1, <2>3, <4>3, FirstValue
        <4> HIDE DEF m, v
        <4>5. m # v
          <5>1. y <= m /\ m \in Nat
            BY <4>2, <4>3
          <5>2. QED
            BY <4>4, <5>1
        <4>6. m \in r /\ \A z \in r : z <= m
          BY <4>2, <4>5
        <4> HIDE DEF r
        <4>7. m = Greatest(r)
          BY <3>1, <4>6, GreatestIs
        <4>8. QED
          BY <4>1, <4>7
      <3> HIDE DEF r
      <3>8. QED
        BY <2>1, <3>1, <3>2, <3>5, <3>6, <3>7, SingleAfter
    <2>4. QED
      BY <2>2, <2>3
  <1>4. ASSUME NEW t \in SUBSET Elements, single' = MakeSingle(t), content' = t,
               popped'.answer = popped'.end
        PROVE  SingleInv'
    <2>1. Is(single'.set, {content'}) /\ single'.last = LastOf(content')
      BY <1>4, MakeSingleIs
    <2>2. content' # {} => single'.last = Greatest(content')
      BY <2>1 DEF LastOf
    <2>3. QED
      BY <1>4, <2>1, <2>2, SingleAfter
  <1>5. CASE PopLast
    <2> DEFINE t == content \ {LastOf(content)}
    <2>1. single' = MakeSingle(t) /\ content' = t /\ popped'.answer = popped'.end
      BY <1>2, <1>5 DEF PopLast
    <2>2. t \in SUBSET Elements
      BY <1>1
    <2> HIDE DEF t
    <2>3. QED
      BY <1>4, <2>1, <2>2
  <1>6. ASSUME NEW v \in Elements, NEW pos, pos = AtOrAbove[<<single.set, v>>]
        PROVE  /\ Is(pos, {{x \in content : x >= v}})
               /\ Path[single.set] \ Path[pos] = {x \in content : x < v}
    <2> DEFINE h == {x \in content : x >= v}
    <2>1. UNION Family[single.set] = content
      <3>1. Family[single.set] = {content}
        BY <1>1 DEF Is
      <3>2. QED
        BY <3>1
    <2>2. HalfOf(v, single.set) = h
      BY <2>1 DEF HalfOf
    <2>3. Is(pos, {h})
      BY <1>2, <1>6, <2>2, AtOrAboveExact
    <2>4. h \in SUBSET Elements
      BY <1>1
    <2>5. Path[pos] = h
      <3> HIDE DEF h
      <3>1. pos = Chain[<<h, Zero>>] /\ pos \in Singles
        BY <2>3, <2>4, SinglesAre
      <3>2. UNION Family[pos] = h
        BY <2>4, <3>1, SingleParts
      <3>3. QED
        BY <3>1, <3>2, PathExact
    <2>6. \A x \in content : x \in Nat /\ v \in Nat
      BY <1>1, TopExact
    <2>7. content \ h = {x \in content : x < v}
      BY <2>6
    <2> HIDE DEF h
    <2>8. QED
      BY <1>2, <2>3, <2>5, <2>7 DEF h
  <1>7. ASSUME NEW v \in Elements, KeepLower(v) PROVE SingleInv'
    <2> DEFINE t == {x \in content : x < v}
               pos == AtOrAbove[<<single.set, v>>]
    <2>1. Path[single.set] \ Path[pos] = t
      BY <1>6
    <2>2. single' = MakeSingle(Path[single.set] \ Path[pos]) /\ content' = t /\ popped' = popped
      BY <1>7 DEF KeepLower, Pivot
    <2>3. t \in SUBSET Elements
      BY <1>1
    <2> HIDE DEF t, pos
    <2>4. QED
      BY <1>1, <1>4, <2>1, <2>2, <2>3
  <1>8. ASSUME NEW v \in Elements, KeepHigher(v) PROVE SingleInv'
    <2> DEFINE t == {x \in content : x >= v}
               pos == AtOrAbove[<<single.set, v>>]
    <2>1. Is(pos, {t})
      BY <1>6
    <2>2. single' = SingleSet(pos, single.last) /\ content' = t /\ popped' = popped
      BY <1>8 DEF KeepHigher, Pivot
    <2>3. single'.set = pos /\ single'.last = single.last
      BY <2>2 DEF SingleSet
    <2>4. t \in SUBSET Elements
      BY <1>1
    <2>5. t # {} => single.last = Greatest(t)
      <3> SUFFICES ASSUME t # {} PROVE single.last = Greatest(t)
        OBVIOUS
      <3> DEFINE m == Greatest(content)
      <3>1. content # {}
        OBVIOUS
      <3>2. m \in content /\ (\A y \in content : y <= m) /\ content \in SUBSET Nat /\ single.last = m
        BY <1>1, <3>1, LastValue
      <3> HIDE DEF m
      <3>3. PICK x \in content : x >= v
        OBVIOUS
      <3>4. v \in Nat /\ x \in Nat /\ m \in Nat /\ x <= m
        BY <3>2, <3>3, TopExact
      <3>5. m >= v
        BY <3>3, <3>4
      <3>6. m \in t /\ \A y \in t : y <= m
        BY <3>2, <3>5
      <3> HIDE DEF t
      <3>7. m = Greatest(t)
        BY <2>4, <3>6, GreatestIs
      <3>8. QED
        BY <3>2, <3>7
    <2> HIDE DEF t, pos
    <2>6. QED
      BY <1>1, <2>1, <2>2, <2>3, <2>4, <2>5, SingleAfter
  <1>9. CASE UNCHANGED singleVars
    <2>1. single' = single /\ content' = content /\ popped' = popped
      BY <1>9 DEF singleVars
    <2>2. QED
      BY <1>1, <2>1, SingleAfter
  <1>10. QED
    BY <1>3, <1>5, <1>7, <1>8, <1>9 DEF SingleNext

-----------------------------------------------------------------------------
(***************************************************************************)
(* A recursion whose calls have lower rank than their caller has a         *)
(* solution: for loops over stacks, whose answers no closed form gives.    *)
(* `step` is what one call does with a function for the recursive calls.   *)
(***************************************************************************)
Agree(D, rank, n, F1, F2) == \A q \in D : rank[q] < n => F1[q] = F2[q]

Solves(D, rank, step, n, F1) == \A p \in D : rank[p] < n => F1[p] = step[<<p, F1>>]

\* A step looks at lower ranks only.
Lowers(D, R, rank, step) ==
  \A p \in D : \A F1, F2 \in [D -> R] :
    Agree(D, rank, rank[p], F1, F2) => step[<<p, F1>>] = step[<<p, F2>>]

Ranked(D, R, rank, step) ==
  /\ R # {} /\ rank \in [D -> Nat] /\ step \in [D \X [D -> R] -> R]
  /\ Lowers(D, R, rank, step)

Solvable(D, R, step) == \E S \in [D -> R] : \A p \in D : S[p] = step[<<p, S>>]

LEMMA Recursion ==
  ASSUME NEW D, NEW R, NEW rank, NEW step, Ranked(D, R, rank, step)
  PROVE  Solvable(D, R, step)
  <1> DEFINE Good(n, F1) == Solves(D, rank, step, n, F1)
             Bad == {n \in Nat : ~ \E F1 \in [D -> R] : Good(n, F1)}
  <1>d. rank \in [D -> Nat] /\ step \in [D \X [D -> R] -> R]
    BY DEF Ranked
  <1>0. \A p \in D : rank[p] \in Nat
    BY <1>d
  <1>r. PICK r0 \in R : TRUE
    BY DEF Ranked
  <1>l. \A p \in D : \A F1, F2 \in [D -> R] :
          Agree(D, rank, rank[p], F1, F2) => step[<<p, F1>>] = step[<<p, F2>>]
    BY DEF Ranked, Lowers
  <1>1. Good(0, [p \in D |-> r0])
    BY <1>0 DEF Solves
  <1>2. ASSUME NEW n \in Nat, NEW F1 \in [D -> R], Good(n, F1)
        PROVE  \E F2 \in [D -> R] : Good(n + 1, F2)
    <2> DEFINE F2 == [p \in D |-> step[<<p, F1>>]]
    <2>1. F2 \in [D -> R]
      BY <1>d
    <2>2. ASSUME NEW p \in D, rank[p] < n + 1 PROVE F2[p] = step[<<p, F2>>]
      <3>1. Agree(D, rank, rank[p], F1, F2)
        <4>1. ASSUME NEW q \in D, rank[q] < rank[p] PROVE F1[q] = F2[q]
          <5>1. rank[q] < n
            BY <1>0, <2>2, <4>1
          <5>2. QED
            BY <5>1, <1>2 DEF Solves
        <4> HIDE DEF F2
        <4>2. QED
          BY <4>1 DEF Agree
      <3>2. step[<<p, F1>>] = step[<<p, F2>>]
        <4> HIDE DEF F2
        <4>1. QED
          BY <3>1, <2>1, <1>l
      <3>3. QED
        BY <3>2
    <2> HIDE DEF F2
    <2>3. QED
      BY <2>1, <2>2 DEF Solves
  <1>3. \A n \in Nat : \E F1 \in [D -> R] : Good(n, F1)
    <2>1. ASSUME Bad # {} PROVE FALSE
      <3>1. Bad \in SUBSET Nat
        OBVIOUS
      <3>2. PICK n \in Bad : \A m \in Bad : n <= m
        <4> HIDE DEF Bad
        <4>1. QED
          BY <2>1, <3>1, LeastOf
      <3>3. n \in Nat /\ ~ \E F1 \in [D -> R] : Good(n, F1)
        OBVIOUS
      <3>4. n # 0
        <4>1. [p \in D |-> r0] \in [D -> R]
          OBVIOUS
        <4> HIDE DEF Good
        <4>2. QED
          BY <1>1, <3>3, <4>1
      <3>5. n - 1 \in Nat /\ n - 1 \notin Bad
        <4> HIDE DEF Bad
        <4>1. QED
          BY <3>2, <3>3, <3>4
      <3>6. PICK F1 \in [D -> R] : Good(n - 1, F1)
        BY <3>5
      <3>7. \E F2 \in [D -> R] : Good((n - 1) + 1, F2)
        <4> HIDE DEF Good
        <4>1. QED
          BY <1>2, <3>5, <3>6
      <3>8. (n - 1) + 1 = n
        BY <3>3
      <3> HIDE DEF Good
      <3>9. QED
        BY <3>3, <3>7, <3>8
    <2>2. QED
      BY <2>1
  <1>4. ASSUME NEW n \in Nat, NEW m \in Nat, NEW F1 \in [D -> R], NEW F2 \in [D -> R],
               Good(n, F1), Good(m, F2)
        PROVE  \A p \in D : rank[p] < n /\ rank[p] < m => F1[p] = F2[p]
    <2> DEFINE Same == {p \in D : rank[p] < n /\ rank[p] < m => F1[p] = F2[p]}
    <2>1. ASSUME NEW p \in D, \A q \in D : rank[q] < rank[p] => q \in Same
          PROVE  p \in Same
      <3>1. ASSUME rank[p] < n, rank[p] < m PROVE F1[p] = F2[p]
        <4>1. Agree(D, rank, rank[p], F1, F2)
          <5>1. ASSUME NEW q \in D, rank[q] < rank[p] PROVE F1[q] = F2[q]
            <6>1. q \in Same
              BY <2>1, <5>1
            <6>2. rank[q] < n /\ rank[q] < m
              BY <1>0, <3>1, <5>1
            <6>3. QED
              BY <6>1, <6>2
          <5>2. QED
            BY <5>1 DEF Agree
        <4>2. F1[p] = step[<<p, F1>>] /\ F2[p] = step[<<p, F2>>]
          BY <1>4, <3>1 DEF Solves
        <4>3. QED
          BY <4>1, <4>2, <1>l
      <3>2. QED
        BY <3>1
    <2> HIDE DEF Same
    <2>2. D \subseteq Same
      BY <2>1, <1>d, RankInduction
    <2>3. QED
      BY <2>2 DEF Same
  <1> DEFINE H == [n \in Nat |-> CHOOSE F1 \in [D -> R] : Good(n, F1)]
             S == [p \in D |-> H[rank[p] + 1][p]]
  <1>5. \A n \in Nat : H[n] \in [D -> R] /\ Good(n, H[n])
    <2> HIDE DEF Good
    <2>1. QED
      BY <1>3
  <1> HIDE DEF H
  <1>6. S \in [D -> R]
    BY <1>0, <1>5
  <1>7. ASSUME NEW p \in D PROVE S[p] = step[<<p, S>>]
    <2> DEFINE n == rank[p] + 1
    <2>1. n \in Nat /\ rank[p] < n
      BY <1>0
    <2>2. H[n][p] = step[<<p, H[n]>>]
      BY <1>5, <2>1 DEF Solves
    <2>3. Agree(D, rank, rank[p], S, H[n])
      <3>1. ASSUME NEW q \in D, rank[q] < rank[p] PROVE S[q] = H[n][q]
        <4>1. rank[q] + 1 \in Nat /\ rank[q] < rank[q] + 1 /\ rank[q] < n
          BY <1>0, <3>1, <2>1
        <4>2. /\ H[rank[q] + 1] \in [D -> R] /\ Good(rank[q] + 1, H[rank[q] + 1])
              /\ H[n] \in [D -> R] /\ Good(n, H[n])
          BY <1>5, <4>1, <2>1
        <4> HIDE DEF Good
        <4>3. H[rank[q] + 1][q] = H[n][q]
          BY <1>4, <4>1, <4>2, <2>1
        <4>4. QED
          BY <4>3
      <3> HIDE DEF S
      <3>2. QED
        BY <3>1 DEF Agree
    <2>4. step[<<p, S>>] = step[<<p, H[n]>>]
      <3> HIDE DEF S
      <3>1. QED
        BY <1>5, <1>6, <1>l, <2>1, <2>3
    <2>5. QED
      BY <2>2, <2>4
  <1> HIDE DEF S
  <1>8. QED
    BY <1>6, <1>7 DEF Solvable

-----------------------------------------------------------------------------
(***************************************************************************)
(* map                                                                     *)
(***************************************************************************)
MapCalls == Diagrams \X Maps

Image(func, s) == {func[v] : v \in s}
Images(func, A) == {Image(func, s) : s \in A}

LEMMA MapParts ==
  \A p \in MapCalls : p[1] \in Diagrams /\ p[2] \in Maps /\ p = <<p[1], p[2]>>
  BY DEF MapCalls

LEMMA ImagesExact ==
  ASSUME NEW func \in Maps
  PROVE  /\ \A A \in Families : Images(func, A) \in Families
         /\ Images(func, {}) = {} /\ Images(func, {{}}) = {{}}
         /\ \A v \in Elements, A, B \in Families :
              Images(func, A \cup With(v, B))
                = Images(func, A) \cup With(func[v], Images(func, B))
  <1>1. ASSUME NEW A \in Families, NEW s \in A PROVE Image(func, s) \in SUBSET Elements
    <2>1. s \in SUBSET Elements
      BY DEF Families
    <2>2. QED
      BY <2>1 DEF Maps, Image
  <1>2. \A A \in Families : Images(func, A) \in Families
    BY <1>1 DEF Images, Families
  <1>3. Image(func, {}) = {}
    BY DEF Image
  <1>4. Images(func, {}) = {} /\ Images(func, {{}}) = {{}}
    BY <1>3 DEF Images
  <1>5. ASSUME NEW v \in Elements, NEW s
        PROVE  Image(func, s \cup {v}) = Image(func, s) \cup {func[v]}
    BY DEF Image
  <1>6. ASSUME NEW v \in Elements, NEW A \in Families, NEW B \in Families
        PROVE  Images(func, A \cup With(v, B))
                 = Images(func, A) \cup With(func[v], Images(func, B))
    <2>1. Images(func, A \cup With(v, B)) = Images(func, A) \cup Images(func, With(v, B))
      BY DEF Images
    <2>2. Images(func, With(v, B)) = {Image(func, s \cup {v}) : s \in B}
      BY DEF Images, With
    <2>3. With(func[v], Images(func, B)) = {Image(func, s) \cup {func[v]} : s \in B}
      BY DEF Images, With
    <2>4. \A s \in B : Image(func, s \cup {v}) = Image(func, s) \cup {func[v]}
      BY <1>5
    <2>5. Images(func, With(v, B)) = With(func[v], Images(func, B))
      <3>1. \A t : t \in Images(func, With(v, B)) <=> \E s \in B : t = Image(func, s \cup {v})
        BY <2>2
      <3>2. \A t : t \in With(func[v], Images(func, B))
                    <=> \E s \in B : t = Image(func, s) \cup {func[v]}
        BY <2>3
      <3> DEFINE X == Images(func, With(v, B))
                 Y == With(func[v], Images(func, B))
      <3>3. \A t : t \in X <=> t \in Y
        <4>1. ASSUME NEW t, t \in X PROVE t \in Y
          <5>1. PICK s \in B : t = Image(func, s \cup {v})
            BY <3>1, <4>1
          <5>2. t = Image(func, s) \cup {func[v]}
            BY <5>1, <2>4
          <5>3. QED
            BY <5>2, <3>2
        <4>2. ASSUME NEW t, t \in Y PROVE t \in X
          <5>1. PICK s \in B : t = Image(func, s) \cup {func[v]}
            BY <3>2, <4>2
          <5>2. t = Image(func, s \cup {v})
            BY <5>1, <2>4
          <5>3. QED
            BY <5>2, <3>1
        <4>3. QED
          BY <4>1, <4>2
      <3> HIDE DEF X, Y
      <3>4. X = Y
        BY <3>3
      <3>5. QED
        BY <3>4 DEF X, Y
    <2>6. QED
      BY <2>1, <2>5
  <1>7. QED
    BY <1>2, <1>4, <1>6

LEMMA MapIntoStepExact ==
  ASSUME NEW call, NEW x \in Diagrams, NEW func \in Maps,
         \A q \in MapCalls : Rank(q[1]) < Rank(x) => Is(call[q], Images(q[2], Family[q[1]]))
  PROVE  Is(MapIntoStep(call, x, func), Images(func, Family[x]))
  <1>1. CASE IsTerminal(x)
    <2>1. MapIntoStep(call, x, func) = x /\ Images(func, Family[x]) = Family[x]
      BY <1>1, ImagesExact, FamilyParts DEF MapIntoStep, IsTerminal, IsZero, IsOne
    <2>2. QED
      BY <2>1, Unique
  <1>2. CASE ~IsTerminal(x)
    <2> DEFINE lo == call[<<Lo(x), func>>]
               hi == call[<<Hi(x), func>>]
               w == func[Val(x)]
    <2>1. <<Lo(x), func>> \in MapCalls /\ <<Hi(x), func>> \in MapCalls /\ w \in Elements
      BY <1>2, NodeFamily DEF MapCalls, Maps
    <2>2. Is(lo, Images(func, Family[Lo(x)])) /\ Is(hi, Images(func, Family[Hi(x)]))
      BY <1>2, <2>1, NodeFamily
    <2>3. Images(func, Family[x])
            = Either(Images(func, Family[Lo(x)]), With(w, Images(func, Family[Hi(x)])))
      BY <1>2, NodeFamily, ImagesExact DEF Either
    <2>4. MapIntoStep(call, x, func) = Union[<<lo, Insert[<<hi, w>>]>>]
      BY <1>2 DEF MapIntoStep
    <2> HIDE DEF lo, hi, w
    <2>5. Is(Insert[<<hi, w>>], With(w, Images(func, Family[Hi(x)])))
      BY <2>1, <2>2, InsertExact DEF Is
    <2>6. Is(Union[<<lo, Insert[<<hi, w>>]>>],
              Either(Images(func, Family[Lo(x)]), With(w, Images(func, Family[Hi(x)]))))
      BY <2>2, <2>5, UnionExact DEF Is
    <2>7. QED
      BY <2>3, <2>4, <2>6
  <1>3. QED
    BY <1>1, <1>2

LEMMA MapInduction ==
  ASSUME NEW S,
         \A p \in MapCalls : (\A q \in MapCalls : Rank(q[1]) < Rank(p[1]) => q \in S) => p \in S
  PROVE  MapCalls \subseteq S
  <1> DEFINE rank == [p \in MapCalls |-> Rank(p[1])]
  <1>1. rank \in [MapCalls -> Nat]
    BY Ranks DEF MapCalls
  <1>2. \A p \in MapCalls : (\A q \in MapCalls : rank[q] < rank[p] => q \in S) => p \in S
    OBVIOUS
  <1> HIDE DEF rank
  <1>3. QED
    BY <1>1, <1>2, RankInduction

IsMapInto(u) == u = [p \in MapCalls |-> MapIntoStep(u, p[1], p[2])]

LEMMA MapIntoExact ==
  \A x \in Diagrams, func \in Maps : Is(MapInto[<<x, func>>], Images(func, Family[x]))
  <1> DEFINE A(p) == Images(p[2], Family[p[1]])
             S == [p \in MapCalls |-> Diagram(A(p))]
             Good == {p \in MapCalls : Is(MapInto[p], A(p))}
  <1>1. \A p \in MapCalls : A(p) \in Families
    BY MapParts, FamilyOver, ImagesExact
  <1>2. ASSUME NEW u, NEW p \in MapCalls,
               \A q \in MapCalls : Rank(q[1]) < Rank(p[1]) => Is(u[q], A(q))
        PROVE  Is(MapIntoStep(u, p[1], p[2]), A(p))
    BY <1>2, MapParts, MapIntoStepExact
  <1> HIDE DEF A
  <1>3. \A p \in MapCalls : Is(S[p], A(p)) /\ S[p] = MapIntoStep(S, p[1], p[2])
    <2>1. \A p \in MapCalls : Is(S[p], A(p))
      BY <1>1, Unique
    <2> HIDE DEF S
    <2>2. QED
      BY <1>1, <1>2, <2>1, Unique
  <1>4. IsMapInto(S)
    BY <1>3 DEF IsMapInto
  <1>5. IsMapInto(MapInto)
    <2> HIDE DEF S
    <2>1. QED
      BY <1>4 DEF MapInto, IsMapInto, MapCalls
  <1>6. MapCalls \subseteq Good
    <2>1. \A p \in MapCalls : MapInto[p] = MapIntoStep(MapInto, p[1], p[2])
      BY <1>5 DEF IsMapInto
    <2>2. ASSUME NEW p \in MapCalls, \A q \in MapCalls : Rank(q[1]) < Rank(p[1]) => q \in Good
          PROVE  p \in Good
      BY <1>2, <2>1, <2>2
    <2> HIDE DEF Good
    <2>3. QED
      BY <2>2, MapInduction
  <1>7. QED
    BY <1>6, MapParts DEF MapCalls, A

-----------------------------------------------------------------------------
(***************************************************************************)
(* members                                                                 *)
(*                                                                         *)
(* What a node yields below the values `current_set` does not depend on    *)
(* the rest of the stack: Listing is what it yields alone, and a stack     *)
(* yields one listing after the other.                                     *)
(***************************************************************************)
Paths  == Seq(Elements)
Lists  == Seq(Paths)
Stacks == Seq(Diagrams \X Paths)

LEMMA PathsAssociate ==
  \A c, d, e \in Paths : c \o (d \o e) = (c \o d) \o e
  BY ConcatAssociative DEF Paths

LEMMA ListEqual ==
  ASSUME NEW L \in Lists, NEW M \in Lists, Len(L) = Len(M),
         \A i \in 1 .. Len(L) : L[i] = M[i]
  PROVE  L = M
  BY SeqEqual DEF Lists

LEMMA ListConcat ==
  ASSUME NEW L \in Lists, NEW M \in Lists
  PROVE  /\ Len(L) \in Nat /\ Len(M) \in Nat
         /\ L \o M \in Lists /\ Len(L \o M) = Len(L) + Len(M)
         /\ \A i \in 1 .. Len(L) : (L \o M)[i] = L[i]
         /\ \A i \in 1 .. Len(M) : (L \o M)[Len(L) + i] = M[i]
  <1>1. /\ L \o M \in Lists /\ Len(L \o M) = Len(L) + Len(M)
        /\ \A i \in 1 .. Len(L) + Len(M) :
             (L \o M)[i] = IF i <= Len(L) THEN L[i] ELSE M[i - Len(L)]
    BY ConcatProperties DEF Lists
  <1>2. Len(L) \in Nat /\ Len(M) \in Nat
    BY LenProperties DEF Lists
  <1>3. ASSUME NEW i \in 1 .. Len(L) PROVE (L \o M)[i] = L[i]
    BY <1>1, <1>2
  <1>4. ASSUME NEW i \in 1 .. Len(M) PROVE (L \o M)[Len(L) + i] = M[i]
    <2>1. Len(L) + i \in 1 .. Len(L) + Len(M) /\ ~(Len(L) + i <= Len(L))
            /\ (Len(L) + i) - Len(L) = i
      BY <1>2
    <2>2. QED
      BY <1>1, <2>1
  <1>5. QED
    BY <1>1, <1>2, <1>3, <1>4

Prefixed(c, L) == [i \in 1 .. Len(L) |-> c \o L[i]]

LEMMA PrefixedLists ==
  ASSUME NEW c \in Paths, NEW L \in Lists
  PROVE  /\ Prefixed(c, L) \in Lists /\ Len(Prefixed(c, L)) = Len(L)
         /\ \A i \in 1 .. Len(L) : Prefixed(c, L)[i] = c \o L[i]
  <1>1. Len(L) \in Nat /\ \A i \in 1 .. Len(L) : L[i] \in Paths
    BY LenProperties, ElementOfSeq DEF Lists
  <1>2. \A i \in 1 .. Len(L) : c \o L[i] \in Paths
    BY <1>1, ConcatProperties DEF Paths
  <1>3. QED
    BY <1>1, <1>2 DEF Prefixed, Lists

LEMMA PrefixedEmptyPath ==
  ASSUME NEW c \in Paths, NEW L \in Lists
  PROVE  /\ Prefixed(c, <<>>) = <<>> /\ Prefixed(c, << <<>> >>) = <<c>>
         /\ Prefixed(<<>>, L) = L
  <1>0. Len(L) \in Nat /\ \A i \in 1 .. Len(L) : L[i] \in Paths
    BY LenProperties, ElementOfSeq DEF Lists
  <1>1. Prefixed(c, <<>>) = <<>>
    BY DEF Prefixed
  <1>2. Prefixed(c, << <<>> >>) = <<c>>
    <2> DEFINE E == << <<>> >>
               C == <<c>>
               P == Prefixed(c, E)
    <2>1. E \in Lists /\ Len(E) = 1 /\ E[1] = <<>> /\ C \in Lists /\ Len(C) = 1 /\ C[1] = c
      BY DEF Paths, Lists
    <2> HIDE DEF E, C
    <2>2. c \o <<>> = c
      BY ConcatEmptySeq DEF Paths
    <2>3. P \in Lists /\ Len(P) = Len(E) /\ \A i \in 1 .. Len(E) : P[i] = c \o E[i]
      BY <2>1, PrefixedLists
    <2> HIDE DEF P
    <2>4. \A i \in 1 .. Len(P) : P[i] = C[i]
      <3>1. ASSUME NEW i \in 1 .. Len(P) PROVE P[i] = C[i]
        <4>1. i = 1 /\ i \in 1 .. Len(E)
          BY <2>1, <2>3
        <4>2. P[i] = c \o E[1]
          BY <2>3, <4>1
        <4>3. QED
          BY <2>1, <2>2, <4>1, <4>2
      <3>2. QED
        BY <3>1
    <2>5. P = C
      BY <2>1, <2>3, <2>4, ListEqual
    <2>6. QED
      BY <2>5 DEF P, C, E
  <1>3. Prefixed(<<>>, L) = L
    <2> DEFINE P == Prefixed(<<>>, L)
    <2>1. <<>> \in Paths
      BY DEF Paths
    <2>2. \A i \in 1 .. Len(L) : <<>> \o L[i] = L[i]
      BY <1>0, ConcatEmptySeq DEF Paths
    <2>3. P \in Lists /\ Len(P) = Len(L) /\ \A i \in 1 .. Len(L) : P[i] = <<>> \o L[i]
      BY <2>1, PrefixedLists
    <2> HIDE DEF P
    <2>4. \A i \in 1 .. Len(P) : P[i] = L[i]
      BY <2>2, <2>3
    <2>5. P = L
      BY <2>3, <2>4, ListEqual
    <2>6. QED
      BY <2>5 DEF P
  <1>4. QED
    BY <1>1, <1>2, <1>3

LEMMA PrefixedParts ==
  ASSUME NEW c \in Paths, NEW L \in Lists, NEW M \in Lists, NEW v \in Elements
  PROVE  /\ Prefixed(c, L \o M) = Prefixed(c, L) \o Prefixed(c, M)
         /\ Prefixed(c, Prefixed(<<v>>, L)) = Prefixed(Append(c, v), L)
  <1>0. /\ Len(L) \in Nat /\ Len(M) \in Nat
        /\ \A i \in 1 .. Len(L) : L[i] \in Paths
        /\ \A i \in 1 .. Len(M) : M[i] \in Paths
    BY LenProperties, ElementOfSeq DEF Lists
  <1>4. Prefixed(c, L \o M) = Prefixed(c, L) \o Prefixed(c, M)
    <2> DEFINE A == Prefixed(c, L)
               B == Prefixed(c, M)
               N == L \o M
               P == Prefixed(c, N)
               Q == A \o B
    <2>1. /\ N \in Lists /\ Len(N) = Len(L) + Len(M)
          /\ \A i \in 1 .. Len(L) : N[i] = L[i]
          /\ \A i \in 1 .. Len(M) : N[Len(L) + i] = M[i]
      BY ListConcat
    <2>2. /\ A \in Lists /\ B \in Lists
          /\ Len(A) = Len(L) /\ Len(B) = Len(M)
          /\ \A i \in 1 .. Len(L) : A[i] = c \o L[i]
          /\ \A i \in 1 .. Len(M) : B[i] = c \o M[i]
      BY PrefixedLists
    <2> HIDE DEF N
    <2>3. P \in Lists /\ Len(P) = Len(N) /\ \A i \in 1 .. Len(N) : P[i] = c \o N[i]
      BY <2>1, PrefixedLists
    <2> HIDE DEF A, B, P
    <2>4. /\ Q \in Lists /\ Len(Q) = Len(A) + Len(B)
          /\ \A i \in 1 .. Len(A) : Q[i] = A[i]
          /\ \A i \in 1 .. Len(B) : Q[Len(A) + i] = B[i]
      BY <2>2, ListConcat
    <2> HIDE DEF Q
    <2>5. ASSUME NEW i \in 1 .. Len(P) PROVE P[i] = Q[i]
      <3>1. CASE i <= Len(L)
        <4>1. i \in 1 .. Len(L) /\ i \in 1 .. Len(N)
          BY <3>1, <1>0, <2>1, <2>3
        <4>2. P[i] = c \o L[i] /\ Q[i] = c \o L[i]
          BY <4>1, <2>1, <2>2, <2>3, <2>4
        <4>3. QED
          BY <4>2
      <3>2. CASE i > Len(L)
        <4> DEFINE k == i - Len(L)
        <4>1. k \in 1 .. Len(M) /\ i = Len(L) + k /\ i \in 1 .. Len(N)
          BY <3>2, <1>0, <2>1, <2>3
        <4> HIDE DEF k
        <4>2. P[i] = c \o M[k] /\ Q[i] = c \o M[k]
          BY <4>1, <2>1, <2>2, <2>3, <2>4
        <4>3. QED
          BY <4>2
      <3>3. QED
        BY <3>1, <3>2, <1>0, <2>1, <2>3
    <2>6. P = Q
      BY <2>1, <2>2, <2>3, <2>4, <2>5, ListEqual
    <2>7. QED
      BY <2>6 DEF A, B, P, Q, N
  <1>5. Prefixed(c, Prefixed(<<v>>, L)) = Prefixed(Append(c, v), L)
    <2> DEFINE d == <<v>>
               e == Append(c, v)
               N == Prefixed(d, L)
               A == Prefixed(c, N)
               B == Prefixed(e, L)
    <2>1. d \in Paths /\ e \in Paths /\ e = c \o d
      BY AppendProperties, AppendIsConcat DEF Paths
    <2> HIDE DEF d, e
    <2>2. N \in Lists /\ Len(N) = Len(L) /\ \A i \in 1 .. Len(L) : N[i] = d \o L[i]
      BY <2>1, PrefixedLists
    <2>3. B \in Lists /\ Len(B) = Len(L) /\ \A i \in 1 .. Len(L) : B[i] = e \o L[i]
      BY <2>1, PrefixedLists
    <2> HIDE DEF N, B
    <2>4. A \in Lists /\ Len(A) = Len(N) /\ \A i \in 1 .. Len(N) : A[i] = c \o N[i]
      BY <2>2, PrefixedLists
    <2> HIDE DEF A
    <2>5. ASSUME NEW i \in 1 .. Len(A) PROVE A[i] = B[i]
      <3>1. L[i] \in Paths /\ A[i] = c \o (d \o L[i]) /\ B[i] = (c \o d) \o L[i]
        BY <1>0, <2>1, <2>2, <2>3, <2>4
      <3>2. c \o (d \o L[i]) = (c \o d) \o L[i]
        BY <2>1, <3>1, PathsAssociate
      <3>3. QED
        BY <3>1, <3>2
    <2>6. A = B
      BY <2>2, <2>3, <2>4, <2>5, ListEqual
    <2>7. QED
      BY <2>6 DEF A, B, N, d, e
  <1>6. QED
    BY <1>4, <1>5

ListStep(call, z) ==
  IF IsZero(z) THEN <<>>
  ELSE IF IsOne(z) THEN << <<>> >>
  ELSE Prefixed(<<Val(z)>>, call[Hi(z)]) \o call[Lo(z)]

IsListing(L) == L \in [Diagrams -> Lists] /\ \A z \in Diagrams : L[z] = ListStep(L, z)

Listing == CHOOSE L : IsListing(L)

LEMMA ListingIs == IsListing(Listing)
  <1> DEFINE rank == [z \in Diagrams |-> Rank(z)]
             step == [x \in Diagrams \X [Diagrams -> Lists] |-> ListStep(x[2], x[1])]
  <1>1. rank \in [Diagrams -> Nat]
    BY Ranks
  <1>2. <<>> \in Lists /\ << <<>> >> \in Lists
    BY DEF Lists, Paths
  <1>3. ASSUME NEW z \in Diagrams, NEW L \in [Diagrams -> Lists]
        PROVE  ListStep(L, z) \in Lists
    <2>1. CASE IsTerminal(z)
      BY <2>1, <1>2 DEF ListStep, IsTerminal
    <2>2. CASE ~IsTerminal(z)
      <3>1. L[Lo(z)] \in Lists /\ L[Hi(z)] \in Lists /\ <<Val(z)>> \in Paths
        BY <2>2, NodeFamily DEF Paths
      <3>2. Prefixed(<<Val(z)>>, L[Hi(z)]) \in Lists
        BY <3>1, PrefixedLists
      <3>3. Prefixed(<<Val(z)>>, L[Hi(z)]) \o L[Lo(z)] \in Lists
        BY <3>1, <3>2, ConcatProperties DEF Lists
      <3>4. QED
        BY <2>2, <3>3 DEF ListStep, IsTerminal
    <2>3. QED
      BY <2>1, <2>2
  <1>4. step \in [Diagrams \X [Diagrams -> Lists] -> Lists]
    BY <1>3
  <1>5. ASSUME NEW z \in Diagrams, NEW L \in [Diagrams -> Lists], NEW M \in [Diagrams -> Lists],
               Agree(Diagrams, rank, rank[z], L, M)
        PROVE  step[<<z, L>>] = step[<<z, M>>]
    <2>1. CASE IsTerminal(z)
      BY <2>1 DEF ListStep, IsTerminal
    <2>2. CASE ~IsTerminal(z)
      <3>1. L[Lo(z)] = M[Lo(z)] /\ L[Hi(z)] = M[Hi(z)]
        BY <1>5, <2>2, NodeFamily DEF Agree
      <3>2. QED
        BY <3>1 DEF ListStep
    <2>3. QED
      BY <2>1, <2>2
  <1>6. \A z \in Diagrams, L \in [Diagrams -> Lists] : step[<<z, L>>] = ListStep(L, z)
    OBVIOUS
  <1> HIDE DEF rank, step
  <1>a. Ranked(Diagrams, Lists, rank, step)
    BY <1>1, <1>2, <1>4, <1>5 DEF Ranked, Lowers
  <1>b. Solvable(Diagrams, Lists, step)
    BY <1>a, Recursion
  <1>7. \E L \in [Diagrams -> Lists] : \A z \in Diagrams : L[z] = step[<<z, L>>]
    BY <1>b DEF Solvable
  <1>8. \E L : IsListing(L)
    BY <1>6, <1>7 DEF IsListing
  <1>9. QED
    BY <1>8 DEF Listing

Yields(S, stack) ==
  IF stack = <<>> THEN <<>>
  ELSE Prefixed(Head(stack)[2], Listing[Head(stack)[1]]) \o S[Tail(stack)]

LEMMA StackHead ==
  ASSUME NEW stack \in Stacks, stack # <<>>
  PROVE  /\ Head(stack) = <<Head(stack)[1], Head(stack)[2]>>
         /\ Head(stack)[1] \in Diagrams /\ Head(stack)[2] \in Paths
         /\ Tail(stack) \in Stacks /\ Len(stack) \in Nat /\ Len(Tail(stack)) = Len(stack) - 1
         /\ stack = <<Head(stack)>> \o Tail(stack)
         /\ Prefixed(Head(stack)[2], Listing[Head(stack)[1]]) \in Lists
  <1>1. /\ Head(stack) \in Diagrams \X Paths /\ Tail(stack) \in Stacks
        /\ Len(Tail(stack)) = Len(stack) - 1 /\ Len(stack) \in Nat
    BY HeadTailProperties, LenProperties DEF Stacks
  <1>2. Head(stack) = <<Head(stack)[1], Head(stack)[2]>>
          /\ Head(stack)[1] \in Diagrams /\ Head(stack)[2] \in Paths
    BY <1>1
  <1>3. Listing[Head(stack)[1]] \in Lists
    BY <1>2, ListingIs DEF IsListing
  <1>4. stack = <<Head(stack)>> \o Tail(stack)
    <2>1. <<Head(stack)>> \in Stacks /\ Len(<<Head(stack)>>) = 1 /\ <<Head(stack)>>[1] = Head(stack)
      BY <1>1 DEF Stacks
    <2>2. \A i \in 1 .. Len(Tail(stack)) : Tail(stack)[i] = stack[i + 1]
      BY HeadTailProperties DEF Stacks
    <2>3. /\ <<Head(stack)>> \o Tail(stack) \in Stacks
          /\ Len(<<Head(stack)>> \o Tail(stack)) = Len(stack)
          /\ \A i \in 1 .. Len(stack) : (<<Head(stack)>> \o Tail(stack))[i]
               = IF i <= 1 THEN <<Head(stack)>>[i] ELSE Tail(stack)[i - 1]
      BY <1>1, <2>1, ConcatProperties DEF Stacks
    <2>4. ASSUME NEW i \in 1 .. Len(stack) PROVE stack[i] = (<<Head(stack)>> \o Tail(stack))[i]
      <3>1. CASE i = 1
        <4>1. Head(stack) = stack[1]
          OBVIOUS
        <4>2. (<<Head(stack)>> \o Tail(stack))[1] = Head(stack)
          BY <2>1, <2>3, <1>1
        <4>3. QED
          BY <3>1, <4>1, <4>2
      <3>2. CASE i # 1
        <4>1. i - 1 \in 1 .. Len(Tail(stack)) /\ ~(i <= 1) /\ (i - 1) + 1 = i
          BY <3>2, <1>1
        <4>2. QED
          BY <4>1, <2>2, <2>3
      <3>3. QED
        BY <3>1, <3>2
    <2>5. QED
      BY <2>3, <2>4, SeqEqual DEF Stacks
  <1>5. QED
    BY <1>1, <1>2, <1>3, <1>4, PrefixedLists

LEMMA YieldsExists ==
  \E S \in [Stacks -> Lists] : \A stack \in Stacks : S[stack] = Yields(S, stack)
  <1> DEFINE rank == [stack \in Stacks |-> Len(stack)]
             step == [x \in Stacks \X [Stacks -> Lists] |-> Yields(x[2], x[1])]
  <1>1. rank \in [Stacks -> Nat]
    BY LenProperties DEF Stacks
  <1>2. <<>> \in Lists
    BY DEF Lists
  <1>3. ASSUME NEW stack \in Stacks, NEW S \in [Stacks -> Lists]
        PROVE  Yields(S, stack) \in Lists
    <2>1. CASE stack = <<>>
      BY <2>1, <1>2 DEF Yields
    <2>2. CASE stack # <<>>
      <3>1. S[Tail(stack)] \in Lists
        BY <2>2, StackHead
      <3>2. Prefixed(Head(stack)[2], Listing[Head(stack)[1]]) \o S[Tail(stack)] \in Lists
        BY <2>2, <3>1, StackHead, ConcatProperties DEF Lists
      <3>3. QED
        BY <2>2, <3>2 DEF Yields
    <2>3. QED
      BY <2>1, <2>2
  <1>4. step \in [Stacks \X [Stacks -> Lists] -> Lists]
    BY <1>3
  <1>5. ASSUME NEW stack \in Stacks, NEW S \in [Stacks -> Lists], NEW M \in [Stacks -> Lists],
               Agree(Stacks, rank, rank[stack], S, M)
        PROVE  step[<<stack, S>>] = step[<<stack, M>>]
    <2>1. CASE stack = <<>>
      BY <2>1 DEF Yields
    <2>2. CASE stack # <<>>
      <3>1. Tail(stack) \in Stacks /\ Len(Tail(stack)) < Len(stack)
        <4>1. Tail(stack) \in Stacks /\ Len(stack) \in Nat /\ Len(Tail(stack)) = Len(stack) - 1
          BY <2>2, StackHead
        <4> DEFINE n == Len(stack)
                   m == Len(Tail(stack))
        <4>2. n \in Nat /\ m = n - 1
          BY <4>1
        <4> HIDE DEF n, m
        <4>3. m < n
          BY <4>2
        <4>4. QED
          BY <4>1, <4>3 DEF n, m
      <3>2. rank[Tail(stack)] < rank[stack]
        BY <3>1
      <3>3. S[Tail(stack)] = M[Tail(stack)]
        BY <1>5, <3>1, <3>2 DEF Agree
      <3>4. QED
        BY <3>3 DEF Yields
    <2>3. QED
      BY <2>1, <2>2
  <1>6. \A stack \in Stacks, S \in [Stacks -> Lists] : step[<<stack, S>>] = Yields(S, stack)
    OBVIOUS
  <1> HIDE DEF rank, step
  <1>a. Ranked(Stacks, Lists, rank, step)
    BY <1>1, <1>2, <1>4, <1>5 DEF Ranked, Lowers
  <1>b. Solvable(Stacks, Lists, step)
    BY <1>a, Recursion
  <1>7. \E S \in [Stacks -> Lists] : \A stack \in Stacks : S[stack] = step[<<stack, S>>]
    BY <1>b DEF Solvable
  <1>8. QED
    BY <1>6, <1>7

LEMMA ListsAssociate ==
  \A L, M, N \in Lists : L \o (M \o N) = (L \o M) \o N
  BY ConcatAssociative DEF Lists

Entry(z, c) == IF IsZero(z) THEN <<>> ELSE << <<z, c>> >>

LEMMA StackPush ==
  ASSUME NEW z \in Diagrams, NEW c \in Paths, NEW rest \in Stacks
  PROVE  /\ << <<z, c>> >> \o rest \in Stacks /\ << <<z, c>> >> \o rest # <<>>
         /\ Head(<< <<z, c>> >> \o rest) = <<z, c>> /\ Tail(<< <<z, c>> >> \o rest) = rest
         /\ Entry(z, c) \in Stacks
  <1> DEFINE e == <<z, c>>
             E == <<e>>
             Q == E \o rest
  <1>1. e \in Diagrams \X Paths
    OBVIOUS
  <1> HIDE DEF e
  <1>2. E \in Stacks /\ Len(E) = 1 /\ E[1] = e /\ <<>> \in Stacks
    BY <1>1 DEF Stacks
  <1>3. Len(rest) \in Nat
    BY LenProperties DEF Stacks
  <1> HIDE DEF E
  <1>4. Q \in Stacks /\ Len(Q) = 1 + Len(rest)
          /\ \A i \in 1 .. 1 + Len(rest) : Q[i] = IF i <= 1 THEN E[i] ELSE rest[i - 1]
    <2>1. /\ Q \in Stacks /\ Len(Q) = Len(E) + Len(rest)
          /\ \A i \in 1 .. Len(E) + Len(rest) :
               Q[i] = IF i <= Len(E) THEN E[i] ELSE rest[i - Len(E)]
      BY <1>2, ConcatProperties DEF Stacks
    <2> HIDE DEF Q
    <2>2. QED
      BY <2>1, <1>2
  <1> HIDE DEF Q
  <1>5. Len(Q) # 0
    BY <1>3, <1>4
  <1>6. Q # <<>>
    BY <1>5
  <1>7. Head(Q) = e
    <2>1. Head(Q) = Q[1]
      OBVIOUS
    <2>2. 1 \in 1 .. 1 + Len(rest)
      BY <1>3
    <2>3. QED
      BY <1>2, <1>4, <2>1, <2>2
  <1>8. Tail(Q) = rest
    <2>1. Tail(Q) \in Stacks /\ Len(Tail(Q)) = Len(Q) - 1
            /\ \A i \in 1 .. Len(Tail(Q)) : Tail(Q)[i] = Q[i + 1]
      BY <1>4, <1>6, HeadTailProperties DEF Stacks
    <2> DEFINE T == Tail(Q)
    <2>2. T \in Stacks /\ Len(T) = Len(Q) - 1 /\ \A i \in 1 .. Len(T) : T[i] = Q[i + 1]
      BY <2>1
    <2> HIDE DEF T
    <2>3. Len(T) = Len(rest)
      BY <1>3, <1>4, <2>2
    <2>4. ASSUME NEW i \in 1 .. Len(T) PROVE T[i] = rest[i]
      <3>1. i + 1 \in 1 .. 1 + Len(rest) /\ ~(i + 1 <= 1) /\ (i + 1) - 1 = i
        BY <1>3, <2>3
      <3>2. QED
        BY <1>4, <2>2, <3>1
    <2>5. T = rest
      BY <2>2, <2>3, <2>4, SeqEqual DEF Stacks
    <2>6. QED
      BY <2>5 DEF T
  <1>9. Entry(z, c) \in Stacks
    BY <1>2 DEF Entry, E, e
  <1>10. QED
    BY <1>4, <1>6, <1>7, <1>8, <1>9 DEF Q, E, e

IsYields(S) == S \in [Stacks -> Lists] /\ \A stack \in Stacks : S[stack] = Yields(S, stack)

LEMMA YieldsEntry ==
  ASSUME NEW S, IsYields(S), NEW z \in Diagrams, NEW c \in Paths, NEW rest \in Stacks
  PROVE  /\ S[<< <<z, c>> >> \o rest] = Prefixed(c, Listing[z]) \o S[rest]
         /\ S[Entry(z, c) \o rest] = Prefixed(c, Listing[z]) \o S[rest]
         /\ Entry(z, c) \o rest \in Stacks
         /\ Listing[z] \in Lists /\ Prefixed(c, Listing[z]) \in Lists /\ S[rest] \in Lists
         /\ S[<<>>] = <<>> /\ <<>> \in Stacks
  <1> DEFINE Q == << <<z, c>> >> \o rest
             e == <<z, c>>
  <1>0. <<>> \in Stacks
    BY DEF Stacks
  <1>1. S[rest] \in Lists /\ Listing[z] \in Lists
    BY ListingIs DEF IsListing, IsYields
  <1>2. Prefixed(c, Listing[z]) \in Lists
    BY <1>1, PrefixedLists
  <1>3. e[1] = z /\ e[2] = c
    OBVIOUS
  <1>4. Q \in Stacks /\ Q # <<>> /\ Head(Q) = e /\ Tail(Q) = rest
    BY StackPush
  <1> HIDE DEF Q, e
  <1>5. S[Q] = Prefixed(c, Listing[z]) \o S[rest]
    <2>1. S[Q] = Yields(S, Q)
      BY <1>4 DEF IsYields
    <2>2. Yields(S, Q) = Prefixed(Head(Q)[2], Listing[Head(Q)[1]]) \o S[Tail(Q)]
      BY <1>4 DEF Yields
    <2>3. QED
      BY <2>1, <2>2, <1>3, <1>4
  <1>6. CASE IsZero(z)
    <2>1. Listing[z] = <<>>
      BY <1>6, ListingIs DEF IsListing, ListStep
    <2>2. Prefixed(c, Listing[z]) = <<>>
      BY <2>1 DEF Prefixed
    <2>3. <<>> \o rest = rest
      BY ConcatEmptySeq DEF Stacks
    <2>4. <<>> \o S[rest] = S[rest]
      BY <1>1, ConcatEmptySeq DEF Lists
    <2>5. Entry(z, c) \o rest = rest
      BY <1>6, <2>3 DEF Entry
    <2>6. S[<<>>] = <<>>
      BY <1>0 DEF IsYields, Yields
    <2>7. QED
      BY <1>0, <1>1, <1>2, <1>5, <2>2, <2>4, <2>5, <2>6 DEF Q, e
  <1>7. CASE ~IsZero(z)
    <2>1. Entry(z, c) \o rest = Q
      BY <1>7 DEF Entry, Q, e
    <2>2. S[<<>>] = <<>>
      BY <1>0 DEF IsYields, Yields
    <2>3. QED
      BY <1>0, <1>1, <1>2, <1>4, <1>5, <2>1, <2>2 DEF Q, e
  <1>8. QED
    BY <1>6, <1>7

\* The stack that members goes on with after a node.
After(z, c, rest) == Entry(Hi(z), Append(c, Val(z))) \o Entry(Lo(z), c) \o rest

LEMMA YieldsAfter ==
  ASSUME NEW S, IsYields(S), NEW z \in Diagrams, ~IsTerminal(z), NEW c \in Paths,
         NEW rest \in Stacks
  PROVE  /\ Append(c, Val(z)) \in Paths
         /\ Entry(Lo(z), c) \o rest \in Stacks
         /\ After(z, c, rest) = Entry(Hi(z), Append(c, Val(z))) \o (Entry(Lo(z), c) \o rest)
         /\ After(z, c, rest) \in Stacks
         /\ S[After(z, c, rest)] = Prefixed(c, Listing[z]) \o S[rest]
  <1> DEFINE d == Append(c, Val(z))
             lo == Lo(z)
             hi == Hi(z)
             r1 == Entry(lo, c) \o rest
             A == Prefixed(d, Listing[hi])
             B == Prefixed(c, Listing[lo])
  <1>1. lo \in Diagrams /\ hi \in Diagrams /\ d \in Paths /\ Val(z) \in Elements
    BY NodeFamily, AppendProperties DEF Paths
  <1>2. After(z, c, rest) = (Entry(hi, d) \o Entry(lo, c)) \o rest
    BY DEF After
  <1> HIDE DEF d, lo, hi
  <1>3. Entry(hi, d) \in Stacks /\ Entry(lo, c) \in Stacks
    BY <1>1, StackPush
  <1>4. After(z, c, rest) = Entry(hi, d) \o r1
    <2> DEFINE P == Entry(hi, d)
               Q == Entry(lo, c)
               E == Diagrams \X Paths
    <2>1. P \in Seq(E) /\ Q \in Seq(E) /\ rest \in Seq(E)
      BY <1>3 DEF Stacks
    <2> HIDE DEF P, Q, E
    <2>2. (P \o Q) \o rest = P \o (Q \o rest)
      BY <2>1, ConcatAssociative
    <2>3. QED
      BY <1>2, <2>2 DEF P, Q
  <1>5. S[r1] = B \o S[rest] /\ r1 \in Stacks /\ B \in Lists /\ S[rest] \in Lists
          /\ Listing[lo] \in Lists
    BY <1>1, YieldsEntry
  <1> HIDE DEF r1
  <1>6. S[Entry(hi, d) \o r1] = A \o S[r1] /\ Entry(hi, d) \o r1 \in Stacks /\ A \in Lists
          /\ Listing[hi] \in Lists
    <2>1. hi \in Diagrams /\ d \in Paths /\ r1 \in Stacks
      BY <1>1, <1>5
    <2>2. QED
      BY <2>1, YieldsEntry
  <1>7. Prefixed(c, Listing[z]) = A \o B
    <2> DEFINE P == Prefixed(<<Val(z)>>, Listing[hi])
    <2>1. Listing[z] = P \o Listing[lo]
      BY ListingIs DEF IsListing, ListStep, IsTerminal, hi, lo
    <2>2. <<Val(z)>> \in Paths
      BY <1>1 DEF Paths
    <2>3. P \in Lists
      BY <1>6, <2>2, PrefixedLists
    <2>4. Prefixed(c, P) = A
      BY <1>1, <1>6, PrefixedParts DEF d
    <2> HIDE DEF P
    <2>5. Prefixed(c, P \o Listing[lo]) = Prefixed(c, P) \o B
      BY <1>1, <1>5, <2>3, PrefixedParts
    <2>6. QED
      BY <2>1, <2>4, <2>5
  <1> HIDE DEF A, B
  <1>8. A \o (B \o S[rest]) = (A \o B) \o S[rest]
    <2>1. S[rest] \in Lists /\ A \in Lists /\ B \in Lists
      BY <1>5, <1>6
    <2>2. QED
      BY <2>1, ListsAssociate
  <1>9. S[After(z, c, rest)] = Prefixed(c, Listing[z]) \o S[rest]
    BY <1>4, <1>5, <1>6, <1>7, <1>8
  <1>10. QED
    BY <1>1, <1>4, <1>5, <1>6, <1>9 DEF d, lo, hi, r1

IsMembers(u) == u = [stack \in Stacks |-> MembersStep(u, stack)]

LEMMA MembersStepIs ==
  ASSUME NEW u, NEW stack \in Stacks
  PROVE  MembersStep(u, stack) =
           IF stack = <<>> THEN <<>>
           ELSE IF IsZero(Head(stack)[1]) THEN u[Tail(stack)]
           ELSE IF IsOne(Head(stack)[1]) THEN <<Head(stack)[2]>> \o u[Tail(stack)]
           ELSE u[After(Head(stack)[1], Head(stack)[2], Tail(stack))]
  BY DEF MembersStep, After, Entry

LEMMA MembersSolved ==
  ASSUME NEW S, IsYields(S)
  PROVE  IsMembers(S)
  <1>1. ASSUME NEW stack \in Stacks PROVE S[stack] = MembersStep(S, stack)
    <2> DEFINE z == Head(stack)[1]
               c == Head(stack)[2]
               rest == Tail(stack)
    <2>1. CASE stack = <<>>
      BY <2>1, MembersStepIs DEF IsYields, Yields
    <2>2. CASE stack # <<>>
      <3>1. z \in Diagrams /\ c \in Paths /\ rest \in Stacks
        BY <2>2, StackHead
      <3>2. S[stack] = Prefixed(c, Listing[z]) \o S[rest]
        BY <2>2 DEF IsYields, Yields
      <3>3. MembersStep(S, stack) = IF IsZero(z) THEN S[rest]
              ELSE IF IsOne(z) THEN <<c>> \o S[rest] ELSE S[After(z, c, rest)]
        BY <2>2, MembersStepIs
      <3> HIDE DEF z, c, rest
      <3>4. S[rest] \in Lists
        BY <3>1 DEF IsYields
      <3>5. CASE IsZero(z)
        <4>1. Listing[z] = <<>>
          BY <3>1, <3>5, ListingIs DEF IsListing, ListStep
        <4>2. Prefixed(c, Listing[z]) = <<>>
          BY <4>1 DEF Prefixed
        <4>3. <<>> \o S[rest] = S[rest]
          BY <3>4, ConcatEmptySeq DEF Lists
        <4>4. QED
          BY <3>2, <3>3, <3>5, <4>2, <4>3
      <3>6. CASE ~IsZero(z) /\ IsOne(z)
        <4>1. Listing[z] = << <<>> >>
          BY <3>1, <3>6, ListingIs DEF IsListing, ListStep
        <4>2. Prefixed(c, << <<>> >>) = <<c>>
          <5>1. <<>> \in Lists
            BY DEF Lists
          <5>2. QED
            BY <3>1, <5>1, PrefixedEmptyPath
        <4>3. QED
          BY <3>2, <3>3, <3>6, <4>1, <4>2
      <3>7. CASE ~IsZero(z) /\ ~IsOne(z)
        <4>1. S[After(z, c, rest)] = Prefixed(c, Listing[z]) \o S[rest]
          BY <3>1, <3>7, YieldsAfter DEF IsTerminal
        <4>2. QED
          BY <3>2, <3>3, <3>7, <4>1
      <3>8. QED
        BY <3>5, <3>6, <3>7
    <2>3. QED
      BY <2>1, <2>2
  <1>2. S = [stack \in Stacks |-> S[stack]]
    BY DEF IsYields
  <1>3. [stack \in Stacks |-> S[stack]] = [stack \in Stacks |-> MembersStep(S, stack)]
    BY <1>1
  <1>4. QED
    BY <1>2, <1>3 DEF IsMembers

LEMMA MembersIs == IsMembers(Members)
  <1>1. \E S : IsMembers(S)
    BY YieldsExists, MembersSolved DEF IsYields
  <1>2. Members = CHOOSE u : u = [stack \in Stacks |-> MembersStep(u, stack)]
    BY DEF Members, Stacks, Paths
  <1>3. QED
    BY <1>1, <1>2 DEF IsMembers

\* Whatever solves it yields the same, node by node.
LEMMA MembersListing ==
  ASSUME NEW z \in Diagrams
  PROVE  Members[<< <<z, <<>> >> >>] = Listing[z]
  <1> USE MembersIs
  <1>1. PICK S : IsYields(S)
    BY YieldsExists DEF IsYields
  <1> DEFINE Right(stack) == Members[stack] = S[stack]
             Good == {x \in Diagrams : \A c \in Paths : \A rest \in Stacks :
                        Right(rest) => Right(<< <<x, c>> >> \o rest)}
  <1>2. \A stack \in Stacks : Members[stack] = MembersStep(Members, stack)
    BY DEF IsMembers
  <1>3. \A stack \in Stacks : S[stack] = MembersStep(S, stack)
    BY <1>1, MembersSolved DEF IsMembers
  <1>4. ASSUME NEW x \in Diagrams, NEW c \in Paths, NEW rest \in Stacks, Right(rest),
               ~IsTerminal(x) => Right(After(x, c, rest))
        PROVE  Right(<< <<x, c>> >> \o rest)
    <2> DEFINE Q == << <<x, c>> >> \o rest
               e == <<x, c>>
    <2>1. Q \in Stacks /\ Q # <<>> /\ Head(Q) = e /\ Tail(Q) = rest /\ e[1] = x /\ e[2] = c
      BY StackPush
    <2> HIDE DEF Q, e
    <2>2. Members[Q] = MembersStep(Members, Q) /\ S[Q] = MembersStep(S, Q)
      BY <1>2, <1>3, <2>1
    <2>a. \A u : MembersStep(u, Q) =
            IF IsZero(x) THEN u[rest] ELSE IF IsOne(x) THEN <<c>> \o u[rest]
            ELSE u[After(x, c, rest)]
      BY <2>1, MembersStepIs
    <2>b. Members[rest] = S[rest]
      BY <1>4
    <2>c. ~IsTerminal(x) => Members[After(x, c, rest)] = S[After(x, c, rest)]
      BY <1>4
    <2>3. MembersStep(Members, Q) = MembersStep(S, Q)
      <3> HIDE DEF Right
      <3>1. CASE IsZero(x)
        BY <3>1, <2>a, <2>b
      <3>2. CASE ~IsZero(x) /\ IsOne(x)
        BY <3>2, <2>a, <2>b
      <3>3. CASE ~IsZero(x) /\ ~IsOne(x)
        BY <3>3, <2>a, <2>c DEF IsTerminal
      <3>4. QED
        BY <3>1, <3>2, <3>3
    <2>4. QED
      BY <2>2, <2>3 DEF Q, e
  <1>5. Zero \in Good /\ One \in Good
    <2> HIDE DEF Right
    <2>1. QED
      BY <1>4, TerminalDiagrams
  <1>6. ASSUME NEW x \in Diagrams, ~IsTerminal(x), \A y \in Above(Val(x)) : y \in Good
        PROVE  x \in Good
    <2>1. Lo(x) \in Good /\ Hi(x) \in Good
      BY <1>6, DiagramParts
    <2>2. ASSUME NEW c \in Paths, NEW rest \in Stacks, Right(rest)
          PROVE  Right(<< <<x, c>> >> \o rest)
      <3> DEFINE d == Append(c, Val(x))
                 r1 == Entry(Lo(x), c) \o rest
      <3>1. d \in Paths /\ r1 \in Stacks /\ After(x, c, rest) = Entry(Hi(x), d) \o r1
        BY <1>1, <1>6, YieldsAfter
      <3> HIDE DEF Right
      <3>2. Right(r1)
        <4>1. <<>> \o rest = rest
          BY ConcatEmptySeq DEF Stacks
        <4>2. QED
          BY <2>1, <2>2, <4>1 DEF Entry
      <3> HIDE DEF d, r1
      <3>3. Right(After(x, c, rest))
        <4>1. <<>> \o r1 = r1
          BY <3>1, ConcatEmptySeq DEF Stacks
        <4>2. QED
          BY <2>1, <3>1, <3>2, <4>1 DEF Entry
      <3>4. QED
        BY <1>4, <2>2, <3>3
    <2> HIDE DEF Right
    <2>3. QED
      BY <2>2
  <1>7. Diagrams \subseteq Good
    <2> HIDE DEF Good
    <2>1. QED
      BY <1>5, <1>6, DiagramInduction
  <1>8. <<>> \in Stacks /\ <<>> \in Paths
    BY DEF Stacks, Paths
  <1>9. Right(<<>>)
    BY <1>2, <1>3, <1>8, MembersStepIs
  <1>10. Right(<< <<z, <<>> >> >> \o <<>>)
    <2> HIDE DEF Right
    <2>1. QED
      BY <1>7, <1>8, <1>9
  <1>11. << <<z, <<>> >> >> \o <<>> = << <<z, <<>> >> >>
    <2>1. << <<z, <<>> >> >> \in Stacks
      BY <1>8 DEF Stacks
    <2>2. QED
      BY <2>1, ConcatEmptySeq DEF Stacks
  <1>12. S[<< <<z, <<>> >> >> \o <<>>] = Prefixed(<<>>, Listing[z]) \o <<>>
    <2>1. S[<<>>] = <<>>
      BY <1>1, <1>8 DEF IsYields, Yields
    <2>2. S[<< <<z, <<>> >> >> \o <<>>] = Prefixed(<<>>, Listing[z]) \o S[<<>>]
      BY <1>1, <1>8, YieldsEntry
    <2>3. QED
      BY <2>1, <2>2
  <1>13. Prefixed(<<>>, Listing[z]) \o <<>> = Listing[z]
    <2>1. Listing[z] \in Lists
      BY ListingIs DEF IsListing
    <2>2. Prefixed(<<>>, Listing[z]) = Listing[z]
      BY <1>8, <2>1, PrefixedEmptyPath
    <2>3. QED
      BY <2>1, <2>2, ConcatEmptySeq DEF Lists
  <1>14. QED
    BY <1>10, <1>11, <1>12, <1>13

LEMMA Led ==
  ASSUME NEW v \in Elements, NEW p \in Paths
  PROVE  /\ Values(<<v>> \o p) = Values(p) \cup {v}
         /\ Rising(p) /\ (\A w \in Values(p) : v < w) => Rising(<<v>> \o p)
  <1> DEFINE d == <<v>>
             q == d \o p
  <1>0. d \in Paths /\ Len(d) = 1 /\ d[1] = v
    BY DEF Paths
  <1> HIDE DEF d
  <1>1. Len(p) \in Nat /\ DOMAIN p = 1 .. Len(p)
    BY LenProperties DEF Paths
  <1>2. q \in Paths /\ Len(q) = 1 + Len(p)
          /\ \A i \in 1 .. 1 + Len(p) : q[i] = IF i <= 1 THEN d[i] ELSE p[i - 1]
    <2>1. /\ q \in Paths /\ Len(q) = Len(d) + Len(p)
          /\ \A i \in 1 .. Len(d) + Len(p) :
               q[i] = IF i <= Len(d) THEN d[i] ELSE p[i - Len(d)]
      BY <1>0, ConcatProperties DEF Paths
    <2> HIDE DEF q
    <2>2. QED
      BY <2>1, <1>0
  <1>3. DOMAIN q = 1 .. 1 + Len(p)
    BY <1>2, LenProperties DEF Paths
  <1> HIDE DEF q
  <1>4. /\ 1 \in DOMAIN q /\ q[1] = v
        /\ \A i \in DOMAIN p : i + 1 \in DOMAIN q /\ q[i + 1] = p[i]
        /\ \A i \in DOMAIN q : i = 1 \/ (i - 1 \in DOMAIN p /\ q[i] = p[i - 1])
    <2>1. 1 \in 1 .. 1 + Len(p)
      BY <1>1
    <2>2. q[1] = v
      BY <2>1, <1>0, <1>2
    <2>3. ASSUME NEW i \in DOMAIN p PROVE i + 1 \in DOMAIN q /\ q[i + 1] = p[i]
      <3>1. i + 1 \in 1 .. 1 + Len(p) /\ ~(i + 1 <= 1) /\ (i + 1) - 1 = i
        BY <1>1
      <3>2. QED
        BY <3>1, <1>2, <1>3
    <2>4. ASSUME NEW i \in DOMAIN q, i # 1 PROVE i - 1 \in DOMAIN p /\ q[i] = p[i - 1]
      <3>1. i \in 1 .. 1 + Len(p) /\ ~(i <= 1) /\ i - 1 \in 1 .. Len(p)
        BY <2>4, <1>1, <1>3
      <3>2. QED
        BY <3>1, <1>1, <1>2
    <2>5. QED
      BY <2>1, <2>2, <2>3, <2>4, <1>3
  <1>5. Values(q) = Values(p) \cup {v}
    <2>1. ASSUME NEW w \in Values(q) PROVE w \in Values(p) \cup {v}
      <3>1. PICK i \in DOMAIN q : w = q[i]
        BY DEF Values
      <3>2. CASE i = 1
        BY <3>1, <3>2, <1>4
      <3>3. CASE i # 1
        BY <3>1, <3>3, <1>4 DEF Values
      <3>4. QED
        BY <3>2, <3>3
    <2>2. Values(p) \subseteq Values(q)
      BY <1>4 DEF Values
    <2>3. v \in Values(q)
      BY <1>4 DEF Values
    <2>4. QED
      BY <2>1, <2>2, <2>3
  <1>6. ASSUME Rising(p), \A w \in Values(p) : v < w,
               NEW j \in DOMAIN q, NEW k \in DOMAIN q, j < k
        PROVE  q[j] < q[k]
    <2>1. j \in Nat /\ k \in Nat /\ j >= 1 /\ k >= 1
      BY <1>1, <1>3
    <2>2. k # 1
      BY <1>6, <2>1
    <2>3. k - 1 \in DOMAIN p /\ q[k] = p[k - 1]
      BY <1>4, <2>2
    <2>4. CASE j = 1
      <3>1. p[k - 1] \in Values(p)
        BY <2>3 DEF Values
      <3>2. QED
        BY <1>4, <1>6, <2>3, <2>4, <3>1
    <2>5. CASE j # 1
      <3>1. j - 1 \in DOMAIN p /\ q[j] = p[j - 1]
        BY <1>4, <2>5
      <3>2. j - 1 < k - 1
        BY <1>6, <2>1
      <3>3. p[j - 1] < p[k - 1]
        BY <1>6, <2>3, <3>1, <3>2 DEF Rising
      <3>4. QED
        BY <2>3, <3>1, <3>3
    <2>6. QED
      BY <2>4, <2>5
  <1>7. Rising(p) /\ (\A w \in Values(p) : v < w) => Rising(q)
    BY <1>6 DEF Rising
  <1>8. QED
    BY <1>5, <1>7 DEF q, d

LEMMA ListingExact ==
  ASSUME NEW z \in Diagrams
  PROVE  Enumerates(Listing[z], Family[z])
  <1> DEFINE Good == {x \in Diagrams : Enumerates(Listing[x], Family[x])}
  <1>1. \A x \in Diagrams : Listing[x] \in Lists /\ Listing[x] = ListStep(Listing, x)
    BY ListingIs DEF IsListing
  <1>2. Zero \in Good
    <2>1. Listing[Zero] = <<>> /\ Family[Zero] = {} /\ Zero \in Diagrams
      BY <1>1, TerminalDiagrams, FamilyParts DEF ListStep
    <2>2. Cardinality({}) = 0
      BY FS_EmptySet
    <2>3. Enumerates(<<>>, {})
      BY <2>2 DEF Enumerates
    <2>4. QED
      BY <2>1, <2>3
  <1>3. One \in Good
    <2> DEFINE L == << <<>> >>
    <2>1. Listing[One] = L /\ Family[One] = {{}} /\ One \in Diagrams
      BY <1>1, TerminalDiagrams, FamilyParts DEF ListStep
    <2>2. Cardinality({{}}) = 1
      BY FS_Singleton
    <2>3. DOMAIN L = {1} /\ L[1] = <<>> /\ Len(L) = 1
      OBVIOUS
    <2> HIDE DEF L
    <2>4. Values(<<>>) = {} /\ Rising(<<>>)
      BY DEF Values, Rising
    <2>5. Enumerates(L, {{}})
      <3>1. {Values(L[i]) : i \in DOMAIN L} = {{}}
        <4>1. {Values(L[i]) : i \in DOMAIN L} = {Values(L[1])}
          BY <2>3
        <4>2. Values(L[1]) = {}
          BY <2>3, <2>4
        <4>3. QED
          BY <4>1, <4>2
      <3>2. \A i \in DOMAIN L : Rising(L[i])
        BY <2>3, <2>4
      <3>3. QED
        BY <2>2, <2>3, <3>1, <3>2 DEF Enumerates
    <2>6. QED
      BY <2>1, <2>5
  <1>4. ASSUME NEW x \in Diagrams, ~IsTerminal(x), \A y \in Above(Val(x)) : y \in Good
        PROVE  x \in Good
    <2> DEFINE v == Val(x)
               A == Family[Lo(x)]
               B == Family[Hi(x)]
               K == Listing[Lo(x)]
               H == Listing[Hi(x)]
               P == Prefixed(<<v>>, H)
               L == Listing[x]
    <2>1. /\ v \in Elements /\ v \in Nat /\ Lo(x) \in Above(v) /\ Hi(x) \in Above(v)
          /\ Lo(x) \in Diagrams /\ Hi(x) \in Diagrams
      BY <1>4, DiagramParts
    <2>2. Enumerates(K, A) /\ Enumerates(H, B)
      BY <1>4, <2>1
    <2>3. K \in Lists /\ H \in Lists /\ L \in Lists /\ <<v>> \in Paths
      BY <1>1, <2>1 DEF Paths
    <2>4. L = P \o K
      BY <1>1, <1>4 DEF ListStep, IsTerminal
    <2>5. Family[x] = A \cup With(v, B) /\ A \in Families /\ B \in Families
            /\ \A s \in A \cup B : v \notin s
      BY <1>4, NodeFamily
    <2>6. \A s \in B : \A w \in s : v < w
      <3>1. B \subseteq Over(v)
        BY <2>1, FamilyOver
      <3>2. \A w \in Elements : w \in Nat
        BY TopExact
      <3> HIDE DEF B, v
      <3>3. \A s \in B : \A w \in s : w \in Elements /\ w > v
        BY <3>1 DEF Over
      <3>4. QED
        BY <3>2, <3>3, <2>1
    <2>7. Cardinality(Family[x]) = Cardinality(A) + Cardinality(B)
      <3> HIDE DEF v, A, B
      <3>1. QED
        BY <2>5, NodeSize
    <2> HIDE DEF L, P, K, H, A, B, v
    <2>8. /\ Len(H) \in Nat /\ DOMAIN H = 1 .. Len(H) /\ Len(K) \in Nat /\ DOMAIN K = 1 .. Len(K)
          /\ \A i \in DOMAIN H : H[i] \in Paths
      BY <2>3, LenProperties, ElementOfSeq DEF Lists
    <2>9. P \in Lists /\ Len(P) = Len(H) /\ \A i \in DOMAIN H : P[i] = <<v>> \o H[i]
      BY <2>3, <2>8, PrefixedLists DEF P
    <2>10. /\ Len(L) = Len(H) + Len(K)
           /\ \A i \in 1 .. Len(H) : L[i] = P[i]
           /\ \A i \in 1 .. Len(K) : L[Len(H) + i] = K[i]
      <3>1. /\ Len(P \o K) = Len(P) + Len(K)
            /\ \A i \in 1 .. Len(P) : (P \o K)[i] = P[i]
            /\ \A i \in 1 .. Len(K) : (P \o K)[Len(P) + i] = K[i]
        BY <2>3, <2>9, ListConcat
      <3>2. Len(P) = Len(H)
        BY <2>9
      <3>3. QED
        BY <3>1, <3>2, <2>4
    <2>11. DOMAIN L = 1 .. Len(L)
      BY <2>3, LenProperties DEF Lists
    <2>12. ASSUME NEW i \in DOMAIN H
           PROVE  /\ i \in DOMAIN L /\ Values(L[i]) = Values(H[i]) \cup {v}
                  /\ Rising(L[i]) /\ Values(H[i]) \in B
      <3>1. i \in DOMAIN L /\ L[i] = <<v>> \o H[i]
        BY <2>8, <2>9, <2>10, <2>11
      <3>2. Values(H[i]) \in B /\ Rising(H[i])
        BY <2>2 DEF Enumerates
      <3>3. \A w \in Values(H[i]) : v < w
        BY <2>6, <3>2
      <3>4. H[i] \in Paths
        BY <2>8
      <3>5. QED
        BY <2>1, <3>1, <3>2, <3>3, <3>4, Led
    <2>13. ASSUME NEW i \in DOMAIN K
           PROVE  Len(H) + i \in DOMAIN L /\ L[Len(H) + i] = K[i]
                    /\ Rising(K[i]) /\ Values(K[i]) \in A
      <3>1. Len(H) + i \in DOMAIN L /\ L[Len(H) + i] = K[i]
        BY <2>8, <2>10, <2>11
      <3>2. QED
        BY <3>1, <2>2 DEF Enumerates
    <2>14. ASSUME NEW i \in DOMAIN L
           PROVE  i \in DOMAIN H \/ \E k \in DOMAIN K : i = Len(H) + k
      <3>1. CASE i <= Len(H)
        BY <3>1, <2>8, <2>10, <2>11
      <3>2. CASE i > Len(H)
        <4>1. i - Len(H) \in 1 .. Len(K) /\ i = Len(H) + (i - Len(H))
          BY <3>2, <2>8, <2>10, <2>11
        <4>2. QED
          BY <4>1, <2>8
      <3>3. QED
        BY <3>1, <3>2, <2>8, <2>10, <2>11
    <2>15. \A i \in DOMAIN L : Rising(L[i])
      BY <2>12, <2>13, <2>14
    <2>16. Len(L) = Cardinality(Family[x])
      <3>1. Len(K) = Cardinality(A) /\ Len(H) = Cardinality(B)
        BY <2>2 DEF Enumerates
      <3>2. QED
        BY <3>1, <2>7, <2>8, <2>10
    <2>17. {Values(L[i]) : i \in DOMAIN L} = Family[x]
      <3>1. ASSUME NEW i \in DOMAIN L PROVE Values(L[i]) \in A \cup With(v, B)
        <4>1. CASE i \in DOMAIN H
          BY <4>1, <2>12 DEF With
        <4>2. CASE \E k \in DOMAIN K : i = Len(H) + k
          BY <4>2, <2>13
        <4>3. QED
          BY <4>1, <4>2, <2>14
      <3>2. ASSUME NEW s \in A PROVE \E i \in DOMAIN L : Values(L[i]) = s
        <4>1. PICK k \in DOMAIN K : Values(K[k]) = s
          BY <2>2 DEF Enumerates
        <4>2. QED
          BY <4>1, <2>13
      <3>3. ASSUME NEW s \in With(v, B) PROVE \E i \in DOMAIN L : Values(L[i]) = s
        <4>1. PICK t \in B : s = t \cup {v}
          BY DEF With
        <4>2. PICK k \in DOMAIN H : Values(H[k]) = t
          BY <2>2 DEF Enumerates
        <4>3. QED
          BY <4>1, <4>2, <2>12
      <3>4. QED
        BY <3>1, <3>2, <3>3, <2>5
    <2>18. QED
      BY <2>15, <2>16, <2>17 DEF Enumerates, L
  <1>5. Diagrams \subseteq Good
    <2> HIDE DEF Good
    <2>1. QED
      BY <1>2, <1>3, <1>4, DiagramInduction
  <1>6. QED
    BY <1>5

LEMMA MembersAnswers ==
  ASSUME NEW z, NEW A, Is(z, A)
  PROVE  /\ Enumerates(Members[<< <<z, <<>> >> >>], A)
         /\ \A func \in Maps :
              Is(MapInto[<<z, func>>], {{func[v] : v \in s} : s \in A})
  <1>1. z \in Diagrams /\ Family[z] = A
    BY DEF Is
  <1>2. Enumerates(Members[<< <<z, <<>> >> >>], A)
    BY <1>1, MembersListing, ListingExact
  <1>3. \A func \in Maps : Is(MapInto[<<z, func>>], Images(func, A))
    BY <1>1, MapIntoExact
  <1>4. QED
    BY <1>2, <1>3 DEF Images, Image

-----------------------------------------------------------------------------
(***************************************************************************)
(* The program of AlgebraCalls                                             *)
(***************************************************************************)
Built == /\ F \in Families /\ G \in Families
         /\ Is(f, F) /\ Is(g, G)

AlgebraInv ==
  /\ Built /\ SingleInv
  /\ ConstructionExact /\ ElementOperations /\ FamilyOperations /\ FilterOperations

LEMMA OnlyOne == \A v \in Elements : Least({v}) = v
  <1>1. ASSUME NEW v \in Elements PROVE Least({v}) = v
    <2> DEFINE T == {v}
    <2>1. T \in SUBSET Elements /\ T # {}
      OBVIOUS
    <2> HIDE DEF T
    <2>2. Least(T) \in T
      BY <2>1, FirstValue
    <2>3. QED
      BY <2>2 DEF T
  <1>2. QED
    BY <1>1

\* superset keeps the sets of values of the family with a subset in it.
LEMMA SupersetsOf ==
  ASSUME NEW A
  PROVE  Grown(UNION A, A) = {s \in SUBSET UNION A : \E x \in A : x \subseteq s}
  <1> DEFINE T == UNION A
             B == {s \in SUBSET T : \E x \in A : x \subseteq s}
  <1>1. ASSUME NEW u PROVE u \in Grown(T, A) <=> u \in B
    <2>1. \A x \in A : x \subseteq T
      OBVIOUS
    <2> HIDE DEF T
    <2>2. u \in Grown(T, A) <=> \E x \in A : x \subseteq u /\ u \ x \subseteq T
      BY GrownMembers
    <2>3. \A x \in A : x \subseteq u /\ u \ x \subseteq T <=> x \subseteq u /\ u \subseteq T
      BY <2>1
    <2>4. QED
      BY <2>2, <2>3
  <1>2. QED
    BY <1>1

-----------------------------------------------------------------------------
(***************************************************************************)
(* A call of each operation on the diagram of F, or of F and of G          *)
(***************************************************************************)
LEMMA ElementAnswers ==
  ASSUME NEW z, NEW A, Is(z, A), NEW v \in Elements
  PROVE  /\ Is(ElementRemainder(z, v), {s \in A : v \notin s})
         /\ Is(ElementDivision(z, v), {s \ {v} : s \in {x \in A : v \in x}})
         /\ Is(Change[<<z, v>>], {IF v \in s THEN s \ {v} ELSE s \cup {v} : s \in A})
         /\ Is(Insert[<<z, v>>], With(v, A))
         /\ Is(InsertAsSuperset[<<z, v>>], A \cup With(v, A))
  <1>1. z \in Diagrams /\ Family[z] = A
    BY DEF Is
  <1>2. Is(Offset[<<z, v>>], Off(v, A)) /\ Is(Onset[<<z, v>>], On(v, A))
    BY <1>1, OffsetExact, OnsetExact
  <1>3. Is(Change[<<z, v>>], Toggle(v, A)) /\ Is(Insert[<<z, v>>], With(v, A))
          /\ Is(InsertAsSuperset[<<z, v>>], Either(A, With(v, A)))
    BY <1>1, ChangeExact, InsertExact, InsertAsSupersetExact
  <1>4. QED
    BY <1>2, <1>3 DEF ElementRemainder, ElementDivision, Off, On, Toggle, Flip, Either

LEMMA ExtendAnswers ==
  ASSUME NEW z, NEW A, Is(z, A), NEW T \in SUBSET Elements
  PROVE  Is(ExtendAsSuperset[<<z, T>>], Grown(T, A))
  <1>1. z \in Diagrams /\ Family[z] = A
    BY DEF Is
  <1>2. QED
    BY <1>1, ExtendAsSupersetExact

LEMMA FamilyAnswers ==
  ASSUME NEW y, NEW z, NEW A, NEW B, Is(y, A), Is(z, B)
  PROVE  /\ Is(Union[<<y, z>>], A \cup B) /\ Is(Intersect[<<y, z>>], A \cap B)
         /\ Is(Difference[<<y, z>>], A \ B) /\ Is(Join[<<y, z>>], Product(A, B))
         /\ ~IsZero(z) => /\ Is(Divide[<<y, z>>], QuotientOf(A, B))
                          /\ Is(Remainder(y, z), A \ Product(B, QuotientOf(A, B)))
  <1>1. y \in Diagrams /\ Family[y] = A /\ z \in Diagrams /\ Family[z] = B
    BY DEF Is
  <1>2. Is(Union[<<y, z>>], Either(A, B)) /\ Is(Intersect[<<y, z>>], Both(A, B))
          /\ Is(Difference[<<y, z>>], Less(A, B)) /\ Is(Join[<<y, z>>], Product(A, B))
    BY <1>1, UnionExact, IntersectExact, DifferenceExact, JoinExact
  <1>3. ASSUME ~IsZero(z)
        PROVE  /\ Is(Divide[<<y, z>>], QuotientOf(A, B))
               /\ Is(Remainder(y, z), Less(A, Product(B, QuotientOf(A, B))))
    <2>1. z # Zero
      BY <1>3 DEF IsZero
    <2>2. QED
      BY <1>1, <2>1, DivideExact, RemainderExact
  <1>4. QED
    BY <1>2, <1>3 DEF Either, Both, Less

LEMMA FilterAnswers ==
  ASSUME NEW y, NEW z, NEW A, NEW B, Is(y, A), Is(z, B)
  PROVE  Is(Nonsup[<<y, z>>], Without(A, B)) /\ Is(HasSubsetIn[<<y, z>>], Having(A, B))
  <1>1. y \in Diagrams /\ Family[y] = A /\ z \in Diagrams /\ Family[z] = B
    BY DEF Is
  <1>2. QED
    BY <1>1, NonsupExact, HasSubsetInExact

LEMMA OneAnswers ==
  ASSUME NEW z, NEW A, Is(z, A)
  PROVE  /\ Is(MinimalElements[z], {x \in A : \A y \in A : y \subseteq x => x = y})
         /\ Is(Superset(z), {s \in SUBSET UNION A : \E x \in A : x \subseteq s})
  <1>1. z \in Diagrams /\ Family[z] = A
    BY DEF Is
  <1>2. Is(MinimalElements[z], MinimalOf(A)) /\ Is(Superset(z), Grown(UNION A, A))
    BY <1>1, MinimalElementsExact, SupersetExact
  <1>3. QED
    BY <1>2, SupersetsOf DEF MinimalOf

LEMMA SizeAnswers ==
  ASSUME NEW z, NEW A, Is(z, A)
  PROVE  /\ Size[z] = IF Cardinality(A) > MaxUsize THEN PositiveInfinity ELSE Cardinality(A)
         /\ MaxCardinality[z] = IF A = {} THEN 0 ELSE Greatest({Cardinality(s) : s \in A})
         /\ MinCardinality[z] = IF A = {} THEN PositiveInfinity
                                ELSE Least({Cardinality(s) : s \in A})
         /\ BoundsCardinality[z] = <<MinCardinality[z], MaxCardinality[z]>>
         /\ Universe[z] = UNION A
         /\ Is(AllSubsets(Universe[z]), SUBSET UNION A)
         /\ ContainsEmptySet[z] = ({} \in A)
  <1>1. z \in Diagrams /\ Family[z] = A /\ A \in Families
    BY FamilyOver DEF Is
  <1>2. Size[z] = SizeOf(A) /\ MaxCardinality[z] = MaxOf(A) /\ MinCardinality[z] = MinOf(A)
          /\ BoundsCardinality[z] = <<MinOf(A), MaxOf(A)>>
          /\ Universe[z] = UNION A /\ ContainsEmptySet[z] = ({} \in A)
    BY <1>1, SizeExact, MaxCardinalityExact, MinCardinalityExact, BoundsCardinalityExact,
       UniverseExact, ContainsEmptySetExact
  <1>3. UNION A \in SUBSET Elements
    BY <1>1 DEF Families
  <1>4. Is(AllSubsets(Universe[z]), SUBSET UNION A)
    BY <1>2, <1>3, AllSubsetsExact
  <1>5. QED
    BY <1>2, <1>4 DEF SizeOf, MaxOf, MinOf

-----------------------------------------------------------------------------
(***************************************************************************)
(* Every step                                                              *)
(***************************************************************************)
LEMMA AlgebraInitially == Init => AlgebraInv
  <1> SUFFICES ASSUME Init PROVE AlgebraInv
    OBVIOUS
  <1>1. Built
    BY CallsAssumption, FromSetsExact DEF Init, Built
  <1>2. SingleInv
    BY SingleInitially DEF Init
  <1>3. answer.op = "none"
    BY DEF Init, NoAnswer
  <1>4. ConstructionExact /\ ElementOperations /\ FamilyOperations /\ FilterOperations
    BY <1>1, <1>3 DEF Built, ConstructionExact, ElementOperations, FamilyOperations,
       FilterOperations, Answers
  <1>5. QED
    BY <1>1, <1>2, <1>4 DEF AlgebraInv

\* What is left to show of a call: the invariant about its name.
LEMMA AfterAnswer ==
  ASSUME AlgebraInv, NEW op, NEW arg, NEW z, Answer(op, arg, z)
  PROVE  /\ Built' /\ SingleInv' /\ F' = F /\ G' = G
         /\ answer' = [op |-> op, arg |-> arg, zdd |-> z]
         /\ answer'.op = op /\ answer'.arg = arg /\ answer'.zdd = z
  <1>1. answer' = [op |-> op, arg |-> arg, zdd |-> z]
    BY DEF Answer
  <1>2. F' = F /\ G' = G /\ f' = f /\ g' = g /\ UNCHANGED singleVars
    BY DEF Answer
  <1>3. Built'
    BY <1>2 DEF AlgebraInv, Built
  <1>4. SingleInv'
    BY <1>2, SingleStep DEF AlgebraInv
  <1>5. QED
    BY <1>1, <1>2, <1>3, <1>4

ElementNames == {"offset", "onset", "change", "insert", "insert_as_superset"}
FamilyNames  == {"union", "intersect", "difference", "join", "divide", "remainder"}
FilterNames  == {"nonsup", "has_subset_in", "minimal", "superset"}

\* An invariant says nothing of the calls it is not about.
LEMMA Others ==
  ASSUME Built', NEW op, answer'.op = op
  PROVE  /\ op # "sizes" => ConstructionExact'
         /\ op \notin ElementNames \cup {"extend_as_superset"} => ElementOperations'
         /\ op \notin FamilyNames => FamilyOperations'
         /\ op \notin FilterNames => FilterOperations'
  <1>1. op # "sizes" => ConstructionExact'
    BY DEF Built, ConstructionExact
  <1>2. op \notin ElementNames \cup {"extend_as_superset"} => ElementOperations'
    BY DEF ElementOperations, Answers, ElementNames
  <1>3. op \notin FamilyNames => FamilyOperations'
    BY DEF FamilyOperations, Answers, FamilyNames
  <1>4. op \notin FilterNames => FilterOperations'
    BY DEF FilterOperations, Answers, FilterNames
  <1>5. QED
    BY <1>1, <1>2, <1>3, <1>4

LEMMA ElementStep ==
  ASSUME AlgebraInv, NEW v \in Elements, CallElement(v) PROVE AlgebraInv'
  <1>0. Is(f, F)
    BY DEF AlgebraInv, Built
  <1>a. PICK op \in ElementNames :
           \E z :
             /\ Answer(op, {v}, z)
             /\ op = "offset" => Is(z, {s \in F : v \notin s})
             /\ op = "onset" => Is(z, {s \ {v} : s \in {x \in F : v \in x}})
             /\ op = "change" => Is(z, {IF v \in s THEN s \ {v} ELSE s \cup {v} : s \in F})
             /\ op = "insert" => Is(z, With(v, F))
             /\ op = "insert_as_superset" => Is(z, F \cup With(v, F))
    <2>1. /\ Is(ElementRemainder(f, v), {s \in F : v \notin s})
          /\ Is(ElementDivision(f, v), {s \ {v} : s \in {x \in F : v \in x}})
          /\ Is(Change[<<f, v>>], {IF v \in s THEN s \ {v} ELSE s \cup {v} : s \in F})
          /\ Is(Insert[<<f, v>>], With(v, F))
          /\ Is(InsertAsSuperset[<<f, v>>], F \cup With(v, F))
      BY <1>0, ElementAnswers
    <2>2. \/ Answer("offset", {v}, ElementRemainder(f, v))
          \/ Answer("onset", {v}, ElementDivision(f, v))
          \/ Answer("change", {v}, Change[<<f, v>>])
          \/ Answer("insert", {v}, Insert[<<f, v>>])
          \/ Answer("insert_as_superset", {v}, InsertAsSuperset[<<f, v>>])
      BY DEF CallElement, Unary
    <2>3. QED
      BY <2>1, <2>2 DEF ElementNames
  <1>1. PICK z :
           /\ Answer(op, {v}, z)
           /\ op = "offset" => Is(z, {s \in F : v \notin s})
           /\ op = "onset" => Is(z, {s \ {v} : s \in {x \in F : v \in x}})
           /\ op = "change" => Is(z, {IF v \in s THEN s \ {v} ELSE s \cup {v} : s \in F})
           /\ op = "insert" => Is(z, With(v, F))
           /\ op = "insert_as_superset" => Is(z, F \cup With(v, F))
    BY <1>a
  <1>2. /\ Built' /\ SingleInv' /\ F' = F
        /\ answer'.op = op /\ answer'.arg = {v} /\ answer'.zdd = z
    BY <1>1, AfterAnswer
  <1>3. op # "sizes" /\ op # "extend_as_superset" /\ op \notin FamilyNames /\ op \notin FilterNames
    BY DEF ElementNames, FamilyNames, FilterNames
  <1>4. ConstructionExact' /\ FamilyOperations' /\ FilterOperations'
    BY <1>2, <1>3, Others
  <1>5. Arg' = v
    <2>1. Least(answer'.arg) = v
      BY <1>2, OnlyOne
    <2>2. QED
      BY <2>1 DEF Arg
  <1>6. ElementOperations'
    <2>1. Answers("extend_as_superset", {s \cup t : s \in F, t \in SUBSET answer.arg})'
      BY <1>2, <1>3 DEF Answers
    <2>2. Answers("offset", {s \in F : Arg \notin s})'
      BY <1>1, <1>2, <1>5 DEF Answers
    <2>3. Answers("onset", {s \ {Arg} : s \in {x \in F : Arg \in x}})'
      BY <1>1, <1>2, <1>5 DEF Answers
    <2>4. Answers("change", {IF Arg \in s THEN s \ {Arg} ELSE s \cup {Arg} : s \in F})'
      BY <1>1, <1>2, <1>5 DEF Answers
    <2>5. Answers("insert", With(Arg, F))'
      BY <1>1, <1>2, <1>5 DEF Answers
    <2>6. Answers("insert_as_superset", F \cup With(Arg, F))'
      BY <1>1, <1>2, <1>5 DEF Answers
    <2>7. QED
      BY <2>1, <2>2, <2>3, <2>4, <2>5, <2>6 DEF ElementOperations
  <1>7. QED
    BY <1>2, <1>4, <1>6 DEF AlgebraInv

LEMMA ExtendStep ==
  ASSUME AlgebraInv, NEW T \in SUBSET Elements, CallExtend(T) PROVE AlgebraInv'
  <1>0. Is(f, F)
    BY DEF AlgebraInv, Built
  <1> DEFINE z == ExtendAsSuperset[<<f, T>>]
  <1>1. Is(z, Grown(T, F))
    BY <1>0, ExtendAnswers
  <1>2. Answer("extend_as_superset", T, z)
    BY DEF CallExtend, Unary
  <1> HIDE DEF z
  <1>3. /\ Built' /\ SingleInv' /\ F' = F
        /\ answer'.op = "extend_as_superset" /\ answer'.arg = T /\ answer'.zdd = z
    BY <1>2, AfterAnswer
  <1>4. ConstructionExact' /\ FamilyOperations' /\ FilterOperations'
    BY <1>3, Others DEF FamilyNames, FilterNames
  <1>5. ElementOperations'
    <2>1. Answers("extend_as_superset", {s \cup t : s \in F, t \in SUBSET answer.arg})'
      BY <1>1, <1>3 DEF Answers, Grown
    <2>2. QED
      BY <1>3, <2>1 DEF ElementOperations
  <1>6. QED
    BY <1>3, <1>4, <1>5 DEF AlgebraInv

LEMMA SizesStep == ASSUME AlgebraInv, CallSizes PROVE AlgebraInv'
  <1> DEFINE r == [size |-> Size[f], max |-> MaxCardinality[f],
                   min |-> MinCardinality[f], bounds |-> BoundsCardinality[f],
                   universe |-> Universe[f], powerset |-> AllSubsets(Universe[f]),
                   empty |-> ContainsEmptySet[f]]
             sizes == {Cardinality(s) : s \in F}
  <1>1. /\ r.size = IF Cardinality(F) > MaxUsize THEN PositiveInfinity ELSE Cardinality(F)
        /\ r.max = IF F = {} THEN 0 ELSE Greatest(sizes)
        /\ r.min = IF F = {} THEN PositiveInfinity ELSE Least(sizes)
        /\ r.bounds = <<r.min, r.max>>
        /\ r.universe = UNION F
        /\ Is(r.powerset, SUBSET UNION F)
        /\ r.empty = ({} \in F)
    BY SizeAnswers DEF AlgebraInv, Built
  <1>2. Answer("sizes", {}, r)
    BY DEF CallSizes, Unary
  <1> HIDE DEF r
  <1>3. /\ Built' /\ SingleInv' /\ F' = F
        /\ answer'.op = "sizes" /\ answer'.zdd = r
    BY <1>2, AfterAnswer
  <1>4. ElementOperations' /\ FamilyOperations' /\ FilterOperations'
    BY <1>3, Others DEF ElementNames, FamilyNames, FilterNames
  <1>5. ConstructionExact'
    BY <1>1, <1>3 DEF Built, ConstructionExact
  <1>6. QED
    BY <1>3, <1>4, <1>5 DEF AlgebraInv

LEMMA FamilyStepExact ==
  ASSUME AlgebraInv, CallSets \/ CallUnate PROVE AlgebraInv'
  <1>0. Is(f, F) /\ Is(g, G)
    BY DEF AlgebraInv, Built
  <1>a. PICK op \in FamilyNames :
           \E z :
             /\ Answer(op, {}, z)
             /\ op = "union" => Is(z, F \cup G)
             /\ op = "intersect" => Is(z, F \cap G)
             /\ op = "difference" => Is(z, F \ G)
             /\ op = "join" => Is(z, Product(F, G))
             /\ op = "divide" => Is(z, QuotientOf(F, G))
             /\ op = "remainder" => Is(z, F \ Product(G, QuotientOf(F, G)))
    <2>1. /\ Is(Union[<<f, g>>], F \cup G) /\ Is(Intersect[<<f, g>>], F \cap G)
          /\ Is(Difference[<<f, g>>], F \ G) /\ Is(Join[<<f, g>>], Product(F, G))
          /\ ~IsZero(g) => /\ Is(Divide[<<f, g>>], QuotientOf(F, G))
                           /\ Is(Remainder(f, g), F \ Product(G, QuotientOf(F, G)))
      BY <1>0, FamilyAnswers
    <2>2. CASE CallSets
      <3>1. \/ Answer("union", {}, Union[<<f, g>>])
            \/ Answer("intersect", {}, Intersect[<<f, g>>])
            \/ Answer("difference", {}, Difference[<<f, g>>])
        BY <2>2 DEF CallSets, Binary
      <3>2. QED
        BY <2>1, <3>1 DEF FamilyNames
    <2>3. CASE CallUnate
      <3>1. \/ Answer("join", {}, Join[<<f, g>>])
            \/ ~IsZero(g) /\ Answer("divide", {}, Divide[<<f, g>>])
            \/ ~IsZero(g) /\ Answer("remainder", {}, Remainder(f, g))
        BY <2>3 DEF CallUnate, Binary
      <3>2. QED
        BY <2>1, <3>1 DEF FamilyNames
    <2>4. QED
      BY <2>2, <2>3
  <1>1. PICK z :
           /\ Answer(op, {}, z)
           /\ op = "union" => Is(z, F \cup G)
           /\ op = "intersect" => Is(z, F \cap G)
           /\ op = "difference" => Is(z, F \ G)
           /\ op = "join" => Is(z, Product(F, G))
           /\ op = "divide" => Is(z, QuotientOf(F, G))
           /\ op = "remainder" => Is(z, F \ Product(G, QuotientOf(F, G)))
    BY <1>a
  <1>2. /\ Built' /\ SingleInv' /\ F' = F /\ G' = G /\ answer'.op = op /\ answer'.zdd = z
    BY <1>1, AfterAnswer
  <1>3. op # "sizes" /\ op \notin ElementNames \cup {"extend_as_superset"} /\ op \notin FilterNames
    BY DEF ElementNames, FamilyNames, FilterNames
  <1>4. ConstructionExact' /\ ElementOperations' /\ FilterOperations'
    BY <1>2, <1>3, Others
  <1>5. FamilyOperations'
    <2>1. Answers("union", F \cup G)'
      BY <1>1, <1>2 DEF Answers
    <2>2. Answers("intersect", F \cap G)'
      BY <1>1, <1>2 DEF Answers
    <2>3. Answers("difference", F \ G)'
      BY <1>1, <1>2 DEF Answers
    <2>4. Answers("join", Product(F, G))'
      BY <1>1, <1>2 DEF Answers
    <2>5. Answers("divide", QuotientOf(F, G))'
      BY <1>1, <1>2 DEF Answers
    <2>6. Answers("remainder", F \ Product(G, QuotientOf(F, G)))'
      BY <1>1, <1>2 DEF Answers
    <2>7. QED
      BY <2>1, <2>2, <2>3, <2>4, <2>5, <2>6 DEF FamilyOperations
  <1>6. QED
    BY <1>2, <1>4, <1>5 DEF AlgebraInv

LEMMA FilterStep ==
  ASSUME AlgebraInv, CallFilter \/ CallMinimal \/ CallSuperset PROVE AlgebraInv'
  <1>0. Is(f, F) /\ Is(g, G)
    BY DEF AlgebraInv, Built
  <1> DEFINE Kept == Without(F, G)
             Found == Having(F, G)
             Least0 == {x \in F : \A y \in F : y \subseteq x => x = y}
             Closed == {s \in SUBSET UNION F : \E x \in F : x \subseteq s}
  <1>a. PICK op \in FilterNames :
           \E z :
             /\ Answer(op, {}, z)
             /\ op = "nonsup" => Is(z, Kept)
             /\ op = "has_subset_in" => Is(z, Found)
             /\ op = "minimal" => Is(z, Least0)
             /\ op = "superset" => Is(z, Closed)
    <2>1. Is(Nonsup[<<f, g>>], Kept) /\ Is(HasSubsetIn[<<f, g>>], Found)
      BY <1>0, FilterAnswers
    <2>2. Is(MinimalElements[f], Least0) /\ Is(Superset(f), Closed)
      BY <1>0, OneAnswers
    <2>3. \/ Answer("nonsup", {}, Nonsup[<<f, g>>])
          \/ Answer("has_subset_in", {}, HasSubsetIn[<<f, g>>])
          \/ Answer("minimal", {}, MinimalElements[f])
          \/ Answer("superset", {}, Superset(f))
      BY DEF CallFilter, CallMinimal, CallSuperset, Unary, Binary
    <2> HIDE DEF Kept, Found, Least0, Closed
    <2>4. QED
      BY <2>1, <2>2, <2>3 DEF FilterNames
  <1>1. PICK z :
           /\ Answer(op, {}, z)
           /\ op = "nonsup" => Is(z, Kept)
           /\ op = "has_subset_in" => Is(z, Found)
           /\ op = "minimal" => Is(z, Least0)
           /\ op = "superset" => Is(z, Closed)
    BY <1>a
  <1>2. /\ Built' /\ SingleInv' /\ F' = F /\ G' = G /\ answer'.op = op /\ answer'.zdd = z
    BY <1>1, AfterAnswer
  <1>3. op # "sizes" /\ op \notin ElementNames \cup {"extend_as_superset"} /\ op \notin FamilyNames
    BY DEF ElementNames, FamilyNames, FilterNames
  <1>4. ConstructionExact' /\ ElementOperations' /\ FamilyOperations'
    BY <1>2, <1>3, Others
  <1>5. FilterOperations'
    <2>1. Answers("nonsup", {x \in F : ~\E y \in G : y \subseteq x})'
      BY <1>1, <1>2 DEF Answers, Without
    <2>2. Answers("has_subset_in", {x \in F : \E y \in G : y \subseteq x})'
      BY <1>1, <1>2 DEF Answers, Having
    <2>3. Answers("minimal", {x \in F : \A y \in F : y \subseteq x => x = y})'
      BY <1>1, <1>2 DEF Answers
    <2>4. Answers("superset", {s \in SUBSET UNION F : \E x \in F : x \subseteq s})'
      BY <1>1, <1>2 DEF Answers
    <2>5. QED
      BY <2>1, <2>2, <2>3, <2>4 DEF FilterOperations
  <1>6. QED
    BY <1>2, <1>4, <1>5 DEF AlgebraInv

\* The calls that other invariants are about.
LEMMA OtherAnswers ==
  ASSUME AlgebraInv, CallMembers \/ CallToOwned \/ CallTryFrom PROVE AlgebraInv'
  <1>1. PICK op \in {"members", "map", "to_owned_zdd", "to_owned_zdds", "try_from"} :
          \E arg, z : Answer(op, arg, z)
    <2>1. CASE CallMembers
      BY <2>1 DEF CallMembers, Unary
    <2>2. CASE CallToOwned
      BY <2>2 DEF CallToOwned, Unary, Binary
    <2>3. CASE CallTryFrom
      BY <2>3 DEF CallTryFrom
    <2>4. QED
      BY <2>1, <2>2, <2>3
  <1>2. Built' /\ SingleInv' /\ answer'.op = op
    BY <1>1, AfterAnswer
  <1>3. op # "sizes" /\ op \notin ElementNames \cup {"extend_as_superset"}
          /\ op \notin FamilyNames /\ op \notin FilterNames
    BY DEF ElementNames, FamilyNames, FilterNames
  <1>4. QED
    BY <1>2, <1>3, Others DEF AlgebraInv

\* A step of the SingleSet, and a step that answers nothing.
LEMMA QuietStep ==
  ASSUME AlgebraInv, UseSingleSet \/ Forget \/ UNCHANGED vars PROVE AlgebraInv'
  <1>1. F' = F /\ G' = G /\ f' = f /\ g' = g
    BY DEF UseSingleSet, Forget, vars
  <1>2. Built'
    BY <1>1 DEF AlgebraInv, Built
  <1>3. SingleInv'
    BY SingleStep DEF AlgebraInv, UseSingleSet, Forget, vars
  <1>4. CASE Forget
    <2>1. answer'.op = "none"
      BY <1>4 DEF Forget, NoAnswer
    <2>2. QED
      BY <1>2, <1>3, <2>1, Others DEF AlgebraInv, ElementNames, FamilyNames, FilterNames
  <1>5. CASE answer' = answer
    BY <1>1, <1>2, <1>3, <1>5 DEF AlgebraInv, ConstructionExact, ElementOperations,
       FamilyOperations, FilterOperations, Answers, Arg
  <1>6. QED
    BY <1>4, <1>5 DEF UseSingleSet, vars

LEMMA AlgebraStep == AlgebraInv /\ [Next]_vars => AlgebraInv'
  <1> SUFFICES ASSUME AlgebraInv, [Next]_vars PROVE AlgebraInv'
    OBVIOUS
  <1>1. CASE \E v \in Elements : CallElement(v)
    BY <1>1, ElementStep
  <1>2. CASE \E T \in SUBSET Elements : CallExtend(T)
    BY <1>2, ExtendStep
  <1>3. CASE CallSizes
    BY <1>3, SizesStep
  <1>4. CASE CallSets \/ CallUnate
    BY <1>4, FamilyStepExact
  <1>5. CASE CallFilter \/ CallMinimal \/ CallSuperset
    BY <1>5, FilterStep
  <1>6. CASE CallMembers \/ CallToOwned \/ CallTryFrom
    BY <1>6, OtherAnswers
  <1>7. CASE UseSingleSet \/ Forget \/ UNCHANGED vars
    BY <1>7, QuietStep
  <1>8. QED
    BY <1>1, <1>2, <1>3, <1>4, <1>5, <1>6, <1>7 DEF Next

LEMMA MembersStepExact == ASSUME AlgebraInv, CallMembers PROVE MembersExact'
  <1>0. Is(f, F)
    BY DEF AlgebraInv, Built
  <1>1. CASE Unary("members", {}, Members[<< <<f, <<>> >> >>])
    <2> DEFINE L == Members[<< <<f, <<>> >> >>]
    <2>1. Enumerates(L, F)
      BY <1>0, MembersAnswers
    <2>2. Answer("members", {}, L)
      BY <1>1 DEF Unary
    <2> HIDE DEF L
    <2>3. F' = F /\ answer'.op = "members" /\ answer'.zdd = L
      BY <2>2, AfterAnswer
    <2>4. QED
      <3>1. Enumerates(answer'.zdd, F')
        BY <2>1, <2>3
      <3>2. Answers("map", {{func[v] : v \in s, func \in answer.arg} : s \in F})'
        BY <2>3 DEF Answers
      <3>3. QED
        BY <3>1, <3>2 DEF MembersExact
  <1>2. ASSUME NEW func \in Funcs, Unary("map", {func}, MapInto[<<f, func>>])
        PROVE  MembersExact'
    <2> DEFINE z == MapInto[<<f, func>>]
    <2>1. func \in Maps
      BY CallsAssumption
    <2>2. Is(z, {{func[v] : v \in s} : s \in F})
      BY <1>0, <2>1, MembersAnswers
    <2>3. Answer("map", {func}, z)
      BY <1>2 DEF Unary
    <2> HIDE DEF z
    <2>4. F' = F /\ answer'.op = "map" /\ answer'.arg = {func} /\ answer'.zdd = z
      BY <2>3, AfterAnswer
    <2>5. {{func0[v] : v \in s, func0 \in answer'.arg} : s \in F'}
            = {{func[v] : v \in s} : s \in F}
      <3>1. \A s : {func0[v] : v \in s, func0 \in {func}} = {func[v] : v \in s}
        OBVIOUS
      <3>2. QED
        BY <2>4, <3>1
    <2>6. Answers("map", {{func0[v] : v \in s, func0 \in answer.arg} : s \in F})'
      <3>1. Is(answer'.zdd, {{func0[v] : v \in s, func0 \in answer'.arg} : s \in F'})
        <4> DEFINE C == {{func[v] : v \in s} : s \in F}
                   N == {{func0[v] : v \in s, func0 \in answer'.arg} : s \in F'}
        <4>1. N = C /\ Is(z, C) /\ answer'.zdd = z
          BY <2>2, <2>4, <2>5
        <4> HIDE DEF C, N
        <4>2. Is(answer'.zdd, N)
          BY <4>1
        <4>3. QED
          BY <4>2 DEF N
      <3>2. QED
        BY <3>1 DEF Answers
    <2>7. QED
      BY <2>4, <2>6 DEF MembersExact
  <1>3. QED
    BY <1>1, <1>2 DEF CallMembers

LEMMA MembersQuiet ==
  ASSUME NEW op, answer'.op = op, op \notin {"members", "map"} PROVE MembersExact'
  BY DEF MembersExact, Answers

LEMMA MembersKept == AlgebraInv /\ MembersExact /\ [Next]_vars => MembersExact'
  <1> SUFFICES ASSUME AlgebraInv, MembersExact, [Next]_vars PROVE MembersExact'
    OBVIOUS
  <1>1. CASE CallMembers
    BY <1>1, MembersStepExact
  <1>2. CASE UseSingleSet \/ UNCHANGED vars
    <2>1. answer' = answer /\ F' = F
      BY <1>2 DEF UseSingleSet, vars
    <2>2. QED
      BY <2>1 DEF MembersExact, Answers
  <1>3. ASSUME Next, ~CallMembers, ~UseSingleSet
        PROVE  \E op : answer'.op = op /\ op \notin {"members", "map"}
    <2>1. CASE Forget
      BY <2>1 DEF Forget, NoAnswer
    <2>2. CASE CallToOwned \/ CallTryFrom
      BY <2>2 DEF CallToOwned, CallTryFrom, Unary, Binary, Answer
    <2>3. CASE CallSizes \/ CallSets \/ CallUnate
      BY <2>3 DEF CallSizes, CallSets, CallUnate, Unary, Binary, Answer
    <2>4. CASE CallFilter \/ CallMinimal \/ CallSuperset
      BY <2>4 DEF CallFilter, CallMinimal, CallSuperset, Unary, Binary, Answer
    <2>5. ASSUME NEW v \in Elements, CallElement(v)
          PROVE  \E op : answer'.op = op /\ op \notin {"members", "map"}
      BY <2>5 DEF CallElement, Unary, Answer
    <2>6. ASSUME NEW T \in SUBSET Elements, CallExtend(T)
          PROVE  \E op : answer'.op = op /\ op \notin {"members", "map"}
      BY <2>6 DEF CallExtend, Unary, Answer
    <2>7. QED
      BY <1>3, <2>1, <2>2, <2>3, <2>4, <2>5, <2>6 DEF Next
  <1>4. QED
    BY <1>1, <1>2, <1>3, MembersQuiet

\* What holds of an answer holds of it until the next call: the two families are
\* those the program gave, and the answer is the one that its call must give.
THEOREM AlgebraInvariant == Spec => []AlgebraInv
  <1>1. QED
    BY AlgebraInitially, AlgebraStep, PTL DEF Spec

\* For every finite set of values: what from_sets builds is the one diagram of
\* the sets it was given, and its sizes, universe and powerset are theirs.
THEOREM ConstructionIsExact == Spec => []ConstructionExact
  <1>1. AlgebraInv => ConstructionExact
    BY DEF AlgebraInv
  <1>2. QED
    BY <1>1, AlgebraInvariant, PTL

\* offset, onset, change, insert, insert_as_superset and extend_as_superset
\* answer with the diagram of what they do to every set.
THEOREM ElementOperationsAreExact == Spec => []ElementOperations
  <1>1. AlgebraInv => ElementOperations
    BY DEF AlgebraInv
  <1>2. QED
    BY <1>1, AlgebraInvariant, PTL

\* union, intersect, difference, join, divide and remainder answer with the
\* diagram of that operation on the families, whatever way the recursion took.
THEOREM FamilyOperationsAreExact == Spec => []FamilyOperations
  <1>1. AlgebraInv => FamilyOperations
    BY DEF AlgebraInv
  <1>2. QED
    BY <1>1, AlgebraInvariant, PTL

\* nonsup, has_subset_in, minimal and superset answer with the diagram of the
\* sets that their subset conditions select.
THEOREM FiltersAreExact == Spec => []FilterOperations
  <1>1. AlgebraInv => FilterOperations
    BY DEF AlgebraInv
  <1>2. QED
    BY <1>1, AlgebraInvariant, PTL

\* The iterator yields every set of the family once and no other, its values
\* from the least up, and map answers with the diagram of the images of the
\* sets, for every function on the values, also one that merges or reorders them.
THEOREM MembersAreExact == Spec => []MembersExact
  <1>1. Init => MembersExact
    BY DEF Init, NoAnswer, MembersExact, Answers
  <1>2. QED
    BY <1>1, MembersKept, AlgebraInvariant, PTL DEF Spec

\* A SingleSet is the set that a BTreeSet would hold after the same pops and
\* pivots, with its ends where first and last look for them.
THEOREM SingleSetIsASet == Spec => []BehavesAsASet
  <1>1. AlgebraInv => BehavesAsASet
    BY DEF AlgebraInv, SingleInv
  <1>2. QED
    BY <1>1, AlgebraInvariant, PTL

\* Equal families have equal diagrams, and every family has one: an answer that
\* stands for the right sets is the right index.
THEOREM OneDiagramPerFamily ==
  \A A \in Families : \E z \in Diagrams : \A y \in Diagrams : Family[y] = A <=> y = z
  <1>1. ASSUME NEW A \in Families
        PROVE  \E z \in Diagrams : \A y \in Diagrams : Family[y] = A <=> y = z
    <2>1. PICK z \in Diagrams : Family[z] = A
      BY DiagramExists
    <2>2. \A y \in Diagrams : Family[y] = A => y = z
      BY <2>1, Canonical
    <2>3. QED
      BY <2>1, <2>2
  <1>2. QED
    BY <1>1
=============================================================================
