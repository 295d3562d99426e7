---------------------------- MODULE OpCacheProofs ----------------------------
(***************************************************************************)
(* The accounts of the caches, for any number of threads, any hashes and   *)
(* any sizes of entries: the tracked sizes are exact, and cache_max bounds *)
(* the tables, and the tables with their entries but for two entries for   *)
(* each thread.                                                            *)
(*                                                                         *)
(* A sum over the slots changes with one slot at a time, which is what the *)
(* first part proves of SumFunction.  The second part is the rounding to a *)
(* power of two: slot_capacity at most doubles, and does not reorder.  The *)
(* invariant adds to SizeExact what a call of a collection carries, and    *)
(* that tables set_cache_size has resized cannot grow, since no collection *)
(* is granted more slots than it gave them.  The last part bounds the      *)
(* entries; what its invariant says of them is explained there.            *)
(***************************************************************************)
EXTENDS OpCache, FiniteSetTheorems, WellFoundedInduction, TLAPS

-----------------------------------------------------------------------------
(***************************************************************************)
(* Induction without an operator: the least counterexample.                *)
(***************************************************************************)
LEMMA LeastOf ==
  ASSUME NEW S \in SUBSET Nat, S # {}
  PROVE  \E x \in S : \A y \in S : x <= y
  <1>1. PICK x \in S : \A y \in SetLessThan(x, OpToRel(<, Nat), Nat) : y \notin S
    <2>1. PICK x \in S : \A y \in S : ~(<<y, x>> \in OpToRel(<, Nat))
      BY NatLessThanWellFounded, WFMin
    <2>2. QED
      BY <2>1 DEF SetLessThan
  <1>2. ASSUME NEW y \in S PROVE x <= y
    <2>1. CASE y < x
      <3>1. <<y, x>> \in OpToRel(<, Nat)
        BY <2>1 DEF OpToRel
      <3>2. QED
        BY <3>1, <1>1, <2>1 DEF SetLessThan
    <2>2. QED
      BY <2>1
  <1>3. QED
    BY <1>2

-----------------------------------------------------------------------------
(***************************************************************************)
(* Sums                                                                    *)
(***************************************************************************)
Chosen(s) == CHOOSE x \in s : TRUE

\* g adds up f over the subsets of S, one chosen element at a time.
IsSum(f, S, g) ==
  g = [s \in SUBSET S |-> IF s = {} THEN 0 ELSE f[Chosen(s)] + g[s \ {Chosen(s)}]]

LEMMA SumIs ==
  ASSUME NEW f, NEW S
  PROVE  SumFunctionOnSet(f, S) = (CHOOSE g : IsSum(f, S, g))[S]
  BY DEF SumFunctionOnSet, FoldFunctionOnSet, MapThenFoldSet, IsSum, Chosen

\* A set and what is left of it without its chosen element.
LEMMA ChosenLeft ==
  ASSUME NEW S, IsFiniteSet(S), NEW s \in SUBSET S
  PROVE  /\ IsFiniteSet(s) /\ Cardinality(s) \in Nat /\ Cardinality(s) <= Cardinality(S)
         /\ Cardinality(S) \in Nat
         /\ Cardinality(s) = 0 <=> s = {}
         /\ s # {} => /\ Chosen(s) \in s /\ s \ {Chosen(s)} \in SUBSET S
                      /\ Cardinality(s \ {Chosen(s)}) = Cardinality(s) - 1
  <1>1. IsFiniteSet(s) /\ Cardinality(s) <= Cardinality(S)
    BY FS_Subset
  <1>2. Cardinality(s) \in Nat /\ Cardinality(S) \in Nat
    BY <1>1, FS_CardinalityType
  <1>3. Cardinality(s) = 0 <=> s = {}
    BY <1>1, FS_EmptySet
  <1>4. s # {} => Chosen(s) \in s
    BY DEF Chosen
  <1>5. ASSUME s # {} PROVE Cardinality(s \ {Chosen(s)}) = Cardinality(s) - 1
    BY <1>1, <1>4, <1>5, FS_RemoveElement
  <1>6. QED
    BY <1>1, <1>2, <1>3, <1>4, <1>5

\* The same as IsSum for the subsets of at most n elements.
Small(S, n) == {s \in SUBSET S : Cardinality(s) <= n}
IsPart(f, S, n, g) ==
  g = [s \in Small(S, n) |-> IF s = {} THEN 0 ELSE f[Chosen(s)] + g[s \ {Chosen(s)}]]

LEMMA PartsExist ==
  ASSUME NEW f, NEW S, IsFiniteSet(S), NEW m \in Nat
  PROVE  \E g : IsPart(f, S, m, g)
  <1> DEFINE Bad == {n \in Nat : ~ \E g : IsPart(f, S, n, g)}
  <1>1. ASSUME Bad # {} PROVE FALSE
    <2>1. PICK n \in Bad : \A y \in Bad : n <= y
      <3>1. Bad \in SUBSET Nat
        OBVIOUS
      <3> HIDE DEF Bad
      <3>2. QED
        BY <1>1, <3>1, LeastOf
    <2>2. n # 0
      <3>1. ASSUME NEW s \in Small(S, 0) PROVE s = {}
        <4>1. s \in SUBSET S /\ Cardinality(s) <= 0
          BY DEF Small
        <4>2. Cardinality(s) \in Nat /\ (Cardinality(s) = 0 <=> s = {})
          BY <4>1, ChosenLeft
        <4>3. QED
          BY <4>1, <4>2
      <3>2. IsPart(f, S, 0, [s \in Small(S, 0) |-> 0])
        BY <3>1 DEF IsPart
      <3>3. QED
        BY <3>2
    <2>3. n - 1 \in Nat /\ n - 1 \notin Bad
      BY <2>1, <2>2
    <2>4. PICK h : IsPart(f, S, n - 1, h)
      BY <2>3
    <2> DEFINE g == [s \in Small(S, n) |->
                       IF s = {} THEN 0 ELSE f[Chosen(s)] + h[s \ {Chosen(s)}]]
    <2>5. \A s \in Small(S, n - 1) : g[s] = h[s]
      <3>1. ASSUME NEW s \in Small(S, n - 1) PROVE s \in Small(S, n)
        <4>1. s \in SUBSET S /\ Cardinality(s) <= n - 1
          BY DEF Small
        <4>2. Cardinality(s) \in Nat
          BY <4>1, ChosenLeft
        <4>3. QED
          BY <2>3, <4>1, <4>2 DEF Small
      <3>2. QED
        BY <2>4, <3>1 DEF IsPart
    <2>6. ASSUME NEW s \in Small(S, n), s # {}
          PROVE  s \ {Chosen(s)} \in Small(S, n - 1)
      BY <2>3, <2>6, ChosenLeft DEF Small
    <2>7. g = [s \in Small(S, n) |->
                 IF s = {} THEN 0 ELSE f[Chosen(s)] + g[s \ {Chosen(s)}]]
      <3> DEFINE G == [s \in Small(S, n) |->
                        IF s = {} THEN 0 ELSE f[Chosen(s)] + g[s \ {Chosen(s)}]]
      <3>1. ASSUME NEW s \in Small(S, n) PROVE g[s] = G[s]
        <4>1. CASE s = {}
          BY <4>1
        <4>2. CASE s # {}
          <5>1. g[s \ {Chosen(s)}] = h[s \ {Chosen(s)}]
            BY <2>5, <2>6, <4>2
          <5>2. g[s] = f[Chosen(s)] + h[s \ {Chosen(s)}]
            BY <4>2
          <5>3. G[s] = f[Chosen(s)] + g[s \ {Chosen(s)}]
            BY <4>2
          <5>4. QED
            BY <5>1, <5>2, <5>3
        <4>3. QED
          BY <4>1, <4>2
      <3>2. g = [s \in Small(S, n) |-> g[s]]
        OBVIOUS
      <3>3. G = [s \in Small(S, n) |-> G[s]]
        OBVIOUS
      <3>4. [s \in Small(S, n) |-> g[s]] = [s \in Small(S, n) |-> G[s]]
        <4> HIDE DEF g, G
        <4>1. QED
          BY <3>1
      <3> HIDE DEF g
      <3>5. QED
        BY <3>2, <3>3, <3>4
    <2>8. IsPart(f, S, n, g)
      BY <2>7 DEF IsPart
    <2>9. QED
      BY <2>1, <2>8
  <1>2. QED
    BY <1>1

LEMMA SumExists ==
  ASSUME NEW f, NEW S, IsFiniteSet(S)
  PROVE  \E g : IsSum(f, S, g) /\ SumFunctionOnSet(f, S) = g[S]
  <1>1. Cardinality(S) \in Nat
    BY FS_CardinalityType
  <1>2. PICK g : IsPart(f, S, Cardinality(S), g)
    BY <1>1, PartsExist
  <1>3. Small(S, Cardinality(S)) = SUBSET S
    BY ChosenLeft DEF Small
  <1>4. IsSum(f, S, g)
    BY <1>2, <1>3 DEF IsPart, IsSum
  <1>5. IsSum(f, S, CHOOSE h : IsSum(f, S, h))
    BY <1>4
  <1>6. QED
    BY <1>5, SumIs

LEMMA SumAt ==
  ASSUME NEW f, NEW S, NEW g, IsSum(f, S, g), NEW s \in SUBSET S
  PROVE  /\ s = {} => g[s] = 0
         /\ s # {} => g[s] = f[Chosen(s)] + g[s \ {Chosen(s)}]
  BY DEF IsSum

Agree(e, f, S) == \A x \in S : e[x] = f[x]

\* Functions that agree on a set have one sum over it.
LEMMA SumSame ==
  ASSUME NEW S, IsFiniteSet(S), NEW T \in SUBSET S, NEW e, NEW f, NEW g, NEW h,
         IsSum(e, S, g), IsSum(f, T, h), Agree(e, f, T)
  PROVE  \A s \in SUBSET T : g[s] = h[s]
  <1> DEFINE Bad == {n \in Nat : \E s \in SUBSET T : n = Cardinality(s) /\ g[s] # h[s]}
  <1>1. ASSUME Bad # {} PROVE FALSE
    <2>1. PICK n \in Bad : \A y \in Bad : n <= y
      <3>1. Bad \in SUBSET Nat
        OBVIOUS
      <3> HIDE DEF Bad
      <3>2. QED
        BY <1>1, <3>1, LeastOf
    <2>2. PICK s \in SUBSET T : n = Cardinality(s) /\ g[s] # h[s]
      BY <2>1
    <2>3. s \in SUBSET S
      OBVIOUS
    <2>4. /\ s = {} => g[s] = 0
          /\ s # {} => g[s] = e[Chosen(s)] + g[s \ {Chosen(s)}]
      BY <2>3 DEF IsSum
    <2>5. /\ s = {} => h[s] = 0
          /\ s # {} => h[s] = f[Chosen(s)] + h[s \ {Chosen(s)}]
      BY SumAt
    <2>6. s # {}
      BY <2>2, <2>4, <2>5
    <2> DEFINE r == s \ {Chosen(s)}
    <2>7. Chosen(s) \in s /\ r \in SUBSET T /\ Cardinality(s) \in Nat
          /\ Cardinality(r) = Cardinality(s) - 1 /\ Cardinality(r) \in Nat
      <3>1. r \in SUBSET S
        BY <2>3
      <3> HIDE DEF r
      <3>2. Cardinality(r) \in Nat
        BY <3>1, ChosenLeft
      <3> USE DEF r
      <3>3. QED
        BY <2>3, <2>6, <3>2, ChosenLeft
    <2>8. Cardinality(r) \notin Bad
      <3> HIDE DEF Bad, r
      <3>1. QED
        BY <2>1, <2>2, <2>7
    <2>9. g[r] = h[r]
      BY <2>7, <2>8
    <2>10. QED
      BY <2>2, <2>4, <2>5, <2>6, <2>7, <2>9 DEF Agree
  <1>2. ASSUME NEW s \in SUBSET T PROVE g[s] = h[s]
    <2>1. Cardinality(s) \in Nat
      BY ChosenLeft
    <2>2. QED
      BY <1>1, <2>1
  <1>3. QED
    BY <1>2

LEMMA SumAgrees ==
  ASSUME NEW S, IsFiniteSet(S), NEW e, NEW f, \A x \in S : e[x] = f[x]
  PROVE  SumFunctionOnSet(e, S) = SumFunctionOnSet(f, S)
  <1>1. PICK g : IsSum(e, S, g) /\ SumFunctionOnSet(e, S) = g[S]
    BY SumExists
  <1>2. PICK h : IsSum(f, S, h) /\ SumFunctionOnSet(f, S) = h[S]
    BY SumExists
  <1>3. S \in SUBSET S
    OBVIOUS
  <1>4. \A s \in SUBSET S : g[s] = h[s]
    BY <1>1, <1>2, <1>3, SumSame DEF Agree
  <1>5. QED
    BY <1>1, <1>2, <1>3, <1>4

\* The sum over a set, from the chosen element on.
LEMMA SumChosen ==
  ASSUME NEW S, IsFiniteSet(S), NEW f
  PROVE  /\ S = {} => SumFunctionOnSet(f, S) = 0
         /\ S # {} => SumFunctionOnSet(f, S)
                        = f[Chosen(S)] + SumFunctionOnSet(f, S \ {Chosen(S)})
  <1>1. PICK g : IsSum(f, S, g) /\ SumFunctionOnSet(f, S) = g[S]
    BY SumExists
  <1>2. S \in SUBSET S
    OBVIOUS
  <1>3. /\ S = {} => g[S] = 0
        /\ S # {} => g[S] = f[Chosen(S)] + g[S \ {Chosen(S)}]
    BY <1>1, <1>2, SumAt
  <1> DEFINE T == S \ {Chosen(S)}
  <1>4. g[T] = SumFunctionOnSet(f, T)
    <2>1. T \in SUBSET S
      OBVIOUS
    <2>2. IsFiniteSet(T)
      BY <2>1, FS_Subset
    <2> HIDE DEF T
    <2>3. PICK h : IsSum(f, T, h) /\ SumFunctionOnSet(f, T) = h[T]
      BY <2>2, SumExists
    <2>6. Agree(f, f, T)
      BY DEF Agree
    <2>4. \A s \in SUBSET T : g[s] = h[s]
      BY <1>1, <2>1, <2>3, <2>6, SumSame
    <2>5. QED
      BY <2>3, <2>4
  <1>5. QED
    BY <1>1, <1>3, <1>4

\* Every element can be taken first.
LEMMA SumSplits ==
  ASSUME NEW S, IsFiniteSet(S), NEW f, \A x \in S : f[x] \in Int
  PROVE  /\ SumFunctionOnSet(f, S) \in Int
         /\ \A x \in S : SumFunctionOnSet(f, S) = f[x] + SumFunctionOnSet(f, S \ {x})
  <1> DEFINE Sum(s) == SumFunctionOnSet(f, s)
             Fine(s) == Sum(s) \in Int /\ \A x \in s : Sum(s) = f[x] + Sum(s \ {x})
             Bad == {n \in Nat : \E s \in SUBSET S : n = Cardinality(s) /\ ~Fine(s)}
  <1>1. ASSUME Bad # {} PROVE FALSE
    <2>1. PICK n \in Bad : \A y \in Bad : n <= y
      <3>1. Bad \in SUBSET Nat
        OBVIOUS
      <3> HIDE DEF Bad
      <3>2. QED
        BY <1>1, <3>1, LeastOf
    <2>2. PICK s \in SUBSET S : n = Cardinality(s) /\ ~Fine(s)
      BY <2>1
    <2>3. IsFiniteSet(s) /\ Cardinality(s) \in Nat
      BY ChosenLeft
    <2>4. /\ s = {} => Sum(s) = 0
          /\ s # {} => Sum(s) = f[Chosen(s)] + Sum(s \ {Chosen(s)})
      BY <2>3, SumChosen
    <2>5. ASSUME NEW x \in s PROVE Fine(s \ {x})
      <3>1. s \ {x} \in SUBSET S /\ Cardinality(s \ {x}) = Cardinality(s) - 1
        BY <2>3, FS_RemoveElement
      <3>2. Cardinality(s \ {x}) \in Nat
        BY <3>1, ChosenLeft
      <3>3. Cardinality(s \ {x}) \notin Bad
        <4> HIDE DEF Bad
        <4>1. QED
          BY <2>1, <2>2, <2>3, <3>1, <3>2
      <3> HIDE DEF Fine
      <3>4. QED
        BY <3>1, <3>2, <3>3
    <2>6. s # {}
      BY <2>2, <2>4
    <2> DEFINE c == Chosen(s)
    <2>7. c \in s
      BY <2>6 DEF Chosen
    <2>8. Sum(s) = f[c] + Sum(s \ {c}) /\ f[c] \in Int
      BY <2>4, <2>6, <2>7
    <2>9. Sum(s) \in Int
      BY <2>5, <2>7, <2>8
    <2> HIDE DEF c, Sum
    <2>10. ASSUME NEW x \in s PROVE Sum(s) = f[x] + Sum(s \ {x})
      <3>1. CASE x = c
        BY <2>8, <3>1
      <3>2. CASE x # c
        <4>1. Sum(s \ {c}) = f[x] + Sum((s \ {c}) \ {x})
          BY <2>5, <2>7, <3>2
        <4>2. Sum(s \ {x}) = f[c] + Sum((s \ {x}) \ {c})
          BY <2>5, <2>7, <3>2
        <4>3. (s \ {c}) \ {x} = (s \ {x}) \ {c}
          OBVIOUS
        <4> DEFINE r == (s \ {c}) \ {x}
        <4>4. Sum(r) \in Int
          <5>1. IsFiniteSet(s \ {c}) /\ Cardinality(s \ {c}) = Cardinality(s) - 1
            BY <2>3, <2>7, FS_RemoveElement
          <5>2. x \in s \ {c}
            BY <3>2
          <5>3. r \in SUBSET S /\ Cardinality(r) = Cardinality(s \ {c}) - 1
            BY <5>1, <5>2, FS_RemoveElement
          <5> HIDE DEF r
          <5>4. Cardinality(r) \in Nat
            BY <5>3, ChosenLeft
          <5>5. Cardinality(r) \notin Bad
            <6> HIDE DEF Bad
            <6>1. QED
              BY <2>1, <2>2, <2>3, <5>1, <5>3, <5>4
          <5>6. QED
            BY <5>3, <5>4, <5>5
        <4> HIDE DEF r
        <4>5. f[x] \in Int /\ f[c] \in Int
          BY <2>7
        <4>6. Sum(s \ {c}) = f[x] + Sum(r) /\ Sum(s \ {x}) = f[c] + Sum(r)
          BY <4>1, <4>2, <4>3 DEF r
        <4>7. f[c] + (f[x] + Sum(r)) = f[x] + (f[c] + Sum(r))
          BY <4>4, <4>5
        <4>8. QED
          BY <2>8, <4>6, <4>7
      <3>3. QED
        BY <3>1, <3>2
    <2>11. QED
      BY <2>2, <2>9, <2>10
  <1>2. Cardinality(S) \in Nat /\ S \in SUBSET S
    BY FS_CardinalityType
  <1> HIDE DEF Fine
  <1>3. Fine(S)
    BY <1>1, <1>2
  <1>4. QED
    BY <1>3 DEF Fine

LEMMA SumNatural ==
  ASSUME NEW S, IsFiniteSet(S), NEW f, \A x \in S : f[x] \in Nat
  PROVE  /\ SumFunctionOnSet(f, S) \in Nat
         /\ (\A x \in S : f[x] = 0) => SumFunctionOnSet(f, S) = 0
  <1> DEFINE Sum(s) == SumFunctionOnSet(f, s)
             Fine(s) == /\ Sum(s) \in Nat
                        /\ (\A x \in S : f[x] = 0) => Sum(s) = 0
             Bad == {n \in Nat : \E s \in SUBSET S : n = Cardinality(s) /\ ~Fine(s)}
  <1>1. ASSUME Bad # {} PROVE FALSE
    <2>1. PICK n \in Bad : \A y \in Bad : n <= y
      <3>1. Bad \in SUBSET Nat
        OBVIOUS
      <3> HIDE DEF Bad
      <3>2. QED
        BY <1>1, <3>1, LeastOf
    <2>2. PICK s \in SUBSET S : n = Cardinality(s) /\ ~Fine(s)
      BY <2>1
    <2>3. IsFiniteSet(s) /\ Cardinality(s) \in Nat
      BY ChosenLeft
    <2>4. /\ s = {} => Sum(s) = 0
          /\ s # {} => Sum(s) = f[Chosen(s)] + Sum(s \ {Chosen(s)})
      BY <2>3, SumChosen
    <2>5. s # {}
      BY <2>2, <2>4
    <2> DEFINE r == s \ {Chosen(s)}
    <2>6. r \in SUBSET S /\ Chosen(s) \in s /\ Cardinality(r) = Cardinality(s) - 1
      BY <2>5, ChosenLeft
    <2>7. Fine(r)
      <3> HIDE DEF r, Fine
      <3>1. Cardinality(r) \in Nat
        BY <2>6, ChosenLeft
      <3>2. Cardinality(r) \notin Bad
        <4> HIDE DEF Bad
        <4>1. QED
          BY <2>1, <2>2, <2>3, <2>6, <3>1
      <3>3. QED
        BY <2>6, <3>1, <3>2
    <2>8. f[Chosen(s)] \in Nat /\ ((\A x \in S : f[x] = 0) => f[Chosen(s)] = 0)
      BY <2>6
    <2> HIDE DEF Sum
    <2>9. Sum(s) = f[Chosen(s)] + Sum(r)
      BY <2>4, <2>5
    <2>10. QED
      BY <2>2, <2>7, <2>8, <2>9
  <1>2. Cardinality(S) \in Nat /\ S \in SUBSET S
    BY FS_CardinalityType
  <1> HIDE DEF Fine
  <1>3. Fine(S)
    BY <1>1, <1>2
  <1>4. QED
    BY <1>3 DEF Fine

\* A slot's share of the sum of its table.
Share(s, i) == IF i \in DOMAIN s THEN s[i] ELSE 0

\* The tables of slots: finitely many, with natural sizes.
IsTable(s) == IsFiniteSet(DOMAIN s) /\ s = [i \in DOMAIN s |-> s[i]]
              /\ \A i \in DOMAIN s : s[i] \in Nat

LEMMA SumDropped ==
  ASSUME NEW s, IsTable(s), NEW i
  PROVE  LET r == Restrict(s, DOMAIN s \ {i})
         IN /\ IsTable(r) /\ DOMAIN r = DOMAIN s \ {i}
            /\ SumFunction(s) = SumFunction(r) + Share(s, i)
            /\ SumFunction(s) \in Nat /\ SumFunction(r) \in Nat /\ Share(s, i) \in Nat
  <1> DEFINE S == DOMAIN s
             T == S \ {i}
             r == Restrict(s, T)
  <1>1. IsFiniteSet(S) /\ \A x \in S : s[x] \in Nat
    BY DEF IsTable
  <1>2. IsFiniteSet(T)
    BY <1>1, FS_RemoveElement
  <1>3. DOMAIN r = T /\ \A x \in T : r[x] = s[x]
    BY DEF Restrict
  <1>4. IsTable(r)
    BY <1>1, <1>2, <1>3 DEF IsTable, Restrict
  <1> HIDE DEF r
  <1>5. SumFunctionOnSet(r, T) = SumFunctionOnSet(s, T)
    BY <1>2, <1>3, SumAgrees
  <1>6. SumFunctionOnSet(s, S) = SumFunctionOnSet(s, T) + Share(s, i)
    <2>1. CASE i \in S
      <3>1. \A x \in S : s[x] \in Int
        BY <1>1
      <3>2. SumFunctionOnSet(s, S) = s[i] + SumFunctionOnSet(s, T)
        BY <1>1, <2>1, <3>1, SumSplits
      <3>3. SumFunctionOnSet(s, T) \in Nat /\ s[i] \in Nat
        BY <1>1, <1>2, <2>1, SumNatural
      <3>4. QED
        BY <2>1, <3>2, <3>3 DEF Share
    <2>2. CASE i \notin S
      <3>1. T = S /\ Share(s, i) = 0
        BY <2>2 DEF Share
      <3>2. SumFunctionOnSet(s, S) \in Nat
        BY <1>1, SumNatural
      <3>3. QED
        BY <3>1, <3>2
    <2>3. QED
      BY <2>1, <2>2
  <1>7. SumFunctionOnSet(s, S) \in Nat /\ SumFunctionOnSet(s, T) \in Nat /\ Share(s, i) \in Nat
    BY <1>1, <1>2, SumNatural DEF Share
  <1>8. SumFunction(s) = SumFunctionOnSet(s, S) /\ SumFunction(r) = SumFunctionOnSet(r, T)
    BY <1>3 DEF SumFunction
  <1>9. QED
    BY <1>3, <1>4, <1>5, <1>6, <1>7, <1>8 DEF r

LEMMA SumFilled ==
  ASSUME NEW s, IsTable(s), NEW i, NEW bytes \in Nat
  PROVE  LET r == Filled(s, i, bytes)
         IN /\ IsTable(r) /\ DOMAIN r = DOMAIN s \cup {i}
            /\ SumFunction(r) = SumFunction(s) + (bytes - Share(s, i))
            /\ SumFunction(s) \in Nat /\ Share(s, i) \in Nat
  <1> DEFINE S == DOMAIN s \cup {i}
             T == S \ {i}
             r == Filled(s, i, bytes)
             p == Restrict(s, DOMAIN s \ {i})
  <1>1. /\ IsTable(p) /\ DOMAIN p = T
        /\ SumFunction(s) = SumFunction(p) + Share(s, i)
        /\ SumFunction(s) \in Nat /\ SumFunction(p) \in Nat /\ Share(s, i) \in Nat
    <2>1. DOMAIN s \ {i} = T
      OBVIOUS
    <2>2. QED
      BY <2>1, SumDropped
  <1>2. DOMAIN r = S /\ r[i] = bytes /\ \A x \in T : r[x] = p[x]
    BY DEF Filled, Restrict
  <1>3. IsFiniteSet(S)
    BY FS_AddElement DEF IsTable
  <1>4. IsTable(r)
    BY <1>3 DEF IsTable, Filled
  <1> HIDE DEF r, p
  <1>5. SumFunctionOnSet(r, S) = bytes + SumFunctionOnSet(r, T)
    <2>1. \A x \in S : r[x] \in Int
      BY <1>2, <1>4 DEF IsTable
    <2>2. i \in S
      OBVIOUS
    <2> HIDE DEF S
    <2>3. QED
      BY <1>2, <1>3, <2>1, <2>2, SumSplits
  <1>6. SumFunctionOnSet(r, T) = SumFunctionOnSet(p, T)
    <2>1. IsFiniteSet(T)
      BY <1>1 DEF IsTable
    <2> HIDE DEF T
    <2>2. QED
      BY <1>2, <2>1, SumAgrees
  <1>7. SumFunction(r) = SumFunctionOnSet(r, S) /\ SumFunction(p) = SumFunctionOnSet(p, T)
    BY <1>1, <1>2 DEF SumFunction
  <1>8. SumFunction(r) = SumFunction(s) + (bytes - Share(s, i))
    <2> HIDE DEF S, T
    <2>1. SumFunction(r) = bytes + SumFunction(p)
      BY <1>5, <1>6, <1>7
    <2>2. QED
      BY <1>1, <2>1
  <1>9. QED
    BY <1>1, <1>2, <1>4, <1>8 DEF r

\* Tables that differ in one place.
AgreeOff(e, f, i) == DOMAIN e = DOMAIN f /\ \A x \in DOMAIN f \ {i} : e[x] = f[x]

LEMMA SumMoved ==
  ASSUME NEW e, NEW f, IsTable(e), IsTable(f), NEW i, AgreeOff(e, f, i)
  PROVE  /\ SumFunction(e) - Share(e, i) = SumFunction(f) - Share(f, i)
         /\ SumFunction(e) \in Nat /\ SumFunction(f) \in Nat
         /\ Share(e, i) \in Nat /\ Share(f, i) \in Nat
  <1> DEFINE p == Restrict(e, DOMAIN e \ {i})
             q == Restrict(f, DOMAIN f \ {i})
  <1>1. p = q
    BY DEF AgreeOff, Restrict
  <1>2. /\ SumFunction(e) = SumFunction(p) + Share(e, i)
        /\ SumFunction(e) \in Nat /\ SumFunction(p) \in Nat /\ Share(e, i) \in Nat
    BY SumDropped
  <1>3. /\ SumFunction(f) = SumFunction(q) + Share(f, i)
        /\ SumFunction(f) \in Nat /\ SumFunction(q) \in Nat /\ Share(f, i) \in Nat
    BY SumDropped
  <1> HIDE DEF p, q
  <1>4. QED
    BY <1>1, <1>2, <1>3

LEMMA SumZero ==
  ASSUME NEW f, IsTable(f), \A i \in DOMAIN f : f[i] = 0
  PROVE  SumFunction(f) = 0
  BY SumNatural DEF IsTable, SumFunction

LEMMA Empty == IsTable(<<>>) /\ DOMAIN <<>> = {} /\ SumFunction(<<>>) = 0
  <1>1. DOMAIN <<>> = {}
    OBVIOUS
  <1>2. IsFiniteSet(DOMAIN <<>>)
    BY <1>1, FS_EmptySet
  <1>3. IsTable(<<>>)
    BY <1>1, <1>2 DEF IsTable
  <1>4. QED
    BY <1>1, <1>3, SumZero

-----------------------------------------------------------------------------
(***************************************************************************)
(* Rounding to a power of two                                              *)
(***************************************************************************)
\* P doubles p until it reaches n.
IsDoubling(n, D, P) == P = [p \in D |-> IF p >= n THEN p ELSE P[2 * p]]

LEMMA CapacityIs ==
  ASSUME NEW n
  PROVE  SlotCapacity(n) = (CHOOSE P : IsDoubling(n, Nat, P))[2]
  BY DEF SlotCapacity, IsDoubling

Near(n, k) == {p \in Nat : p = 0 \/ p + k >= n}

LEMMA DoublingExists ==
  ASSUME NEW n \in Nat
  PROVE  \E P : IsDoubling(n, Nat, P)
  <1> DEFINE Bad == {k \in Nat : ~ \E P : IsDoubling(n, Near(n, k), P) /\ P[0] = 0}
  <1>1. ASSUME Bad # {} PROVE FALSE
    <2>1. PICK k \in Bad : \A y \in Bad : k <= y
      <3>1. Bad \in SUBSET Nat
        OBVIOUS
      <3> HIDE DEF Bad
      <3>2. QED
        BY <1>1, <3>1, LeastOf
    <2>2. k # 0
      <3>1. IsDoubling(n, Near(n, 0), [p \in Near(n, 0) |-> p])
        BY DEF IsDoubling, Near
      <3>2. 0 \in Near(n, 0)
        BY DEF Near
      <3>3. [p \in Near(n, 0) |-> p][0] = 0
        BY <3>2
      <3>4. QED
        BY <3>1, <3>3
    <2>3. k - 1 \in Nat /\ k - 1 \notin Bad
      BY <2>1, <2>2
    <2>4. PICK h : IsDoubling(n, Near(n, k - 1), h) /\ h[0] = 0
      BY <2>3
    <2> DEFINE g == [p \in Near(n, k) |->
                       IF p = 0 THEN 0 ELSE IF p >= n THEN p ELSE h[2 * p]]
               G == [p \in Near(n, k) |-> IF p >= n THEN p ELSE g[2 * p]]
    <2>5. ASSUME NEW p \in Near(n, k - 1) PROVE p \in Near(n, k) /\ g[p] = h[p]
      <3>1. p \in Near(n, k)
        BY <2>3 DEF Near
      <3>2. h[p] = IF p >= n THEN p ELSE h[2 * p]
        BY <2>4 DEF IsDoubling
      <3>3. QED
        BY <2>4, <3>1, <3>2
    <2>6. ASSUME NEW p \in Near(n, k) PROVE g[p] = G[p]
      <3>1. CASE p = 0
        BY <3>1
      <3>2. CASE p # 0 /\ p >= n
        BY <3>2
      <3>3. CASE p # 0 /\ ~(p >= n)
        <4>1. 2 * p \in Near(n, k - 1)
          BY <2>3, <3>3 DEF Near
        <4>2. g[2 * p] = h[2 * p]
          BY <4>1, <2>5
        <4>3. g[p] = h[2 * p] /\ G[p] = g[2 * p]
          BY <3>3
        <4>4. QED
          BY <4>2, <4>3
      <3>4. QED
        BY <3>1, <3>2, <3>3
    <2>7. g = G
      <3>1. g = [p \in Near(n, k) |-> g[p]] /\ G = [p \in Near(n, k) |-> G[p]]
        OBVIOUS
      <3>2. [p \in Near(n, k) |-> g[p]] = [p \in Near(n, k) |-> G[p]]
        <4> HIDE DEF g, G
        <4>1. QED
          BY <2>6
      <3> HIDE DEF g, G
      <3>3. QED
        BY <3>1, <3>2
    <2>8. 0 \in Near(n, k)
      BY DEF Near
    <2>9. g[0] = 0
      BY <2>8
    <2>10. IsDoubling(n, Near(n, k), g)
      <3>1. g = G
        BY <2>7
      <3> HIDE DEF g
      <3>2. QED
        BY <3>1 DEF IsDoubling
    <2> HIDE DEF g
    <2>11. QED
      BY <2>1, <2>9, <2>10
  <1>2. PICK P : IsDoubling(n, Near(n, n), P)
    BY <1>1
  <1>3. Near(n, n) = Nat
    BY DEF Near
  <1>4. QED
    BY <1>2, <1>3

LEMMA Doubling ==
  ASSUME NEW n \in Nat
  PROVE  \E P : IsDoubling(n, Nat, P) /\ SlotCapacity(n) = P[2]
  <1>1. IsDoubling(n, Nat, CHOOSE P : IsDoubling(n, Nat, P))
    BY DoublingExists
  <1>2. QED
    BY <1>1, CapacityIs

LEMMA DoublingAt ==
  ASSUME NEW n \in Nat, NEW P, IsDoubling(n, Nat, P), NEW p \in Nat
  PROVE  /\ p >= n => P[p] = p
         /\ p < n => P[p] = P[2 * p]
  BY DEF IsDoubling

\* What doubling reaches: n, and not twice as much.
Reaches(n, p, q) ==
  q \in Nat /\ q >= n /\ q >= p /\ (p < n => q < 2 * n)

LEMMA DoublingReaches ==
  ASSUME NEW n \in Nat, NEW P, IsDoubling(n, Nat, P), NEW p \in Nat \ {0}
  PROVE  Reaches(n, p, P[p])
  <1> DEFINE Bad == {k \in Nat : \E q \in Nat \ {0} : k + q >= n /\ ~Reaches(n, q, P[q])}
  <1>1. ASSUME Bad # {} PROVE FALSE
    <2>1. PICK k \in Bad : \A y \in Bad : k <= y
      <3>1. Bad \in SUBSET Nat
        OBVIOUS
      <3> HIDE DEF Bad
      <3>2. QED
        BY <1>1, <3>1, LeastOf
    <2>2. PICK q \in Nat \ {0} : k \in Nat /\ k + q >= n /\ ~Reaches(n, q, P[q])
      BY <2>1
    <2>3. q < n
      <3>1. q >= n => P[q] = q
        BY DoublingAt
      <3>2. QED
        BY <2>2, <3>1 DEF Reaches
    <2>4. P[q] = P[2 * q]
      BY <2>3, DoublingAt
    <2>5. k - 1 \in Nat /\ k - 1 + 2 * q >= n /\ 2 * q \in Nat \ {0}
      BY <2>2, <2>3
    <2>6. k - 1 \notin Bad
      <3> HIDE DEF Bad
      <3>1. QED
        BY <2>1, <2>2, <2>5
    <2>7. Reaches(n, 2 * q, P[2 * q])
      BY <2>5, <2>6
    <2>8. 2 * q >= n => P[2 * q] = 2 * q
      BY <2>5, DoublingAt
    <2>9. Reaches(n, q, P[q])
      BY <2>3, <2>4, <2>7, <2>8 DEF Reaches
    <2>10. QED
      BY <2>2, <2>9
  <1>2. n + p >= n
    OBVIOUS
  <1>3. QED
    BY <1>1, <1>2

LEMMA DoublingOrdered ==
  ASSUME NEW n \in Nat, NEW m \in Nat, n <= m, NEW P, IsDoubling(n, Nat, P),
         NEW Q, IsDoubling(m, Nat, Q), NEW p \in Nat \ {0}
  PROVE  P[p] <= Q[p]
  <1> DEFINE Bad == {k \in Nat : \E q \in Nat \ {0} : k + q >= m /\ ~(P[q] <= Q[q])}
  <1>1. ASSUME Bad # {} PROVE FALSE
    <2>1. PICK k \in Bad : \A y \in Bad : k <= y
      <3>1. Bad \in SUBSET Nat
        OBVIOUS
      <3> HIDE DEF Bad
      <3>2. QED
        BY <1>1, <3>1, LeastOf
    <2>2. PICK q \in Nat \ {0} : k \in Nat /\ k + q >= m /\ ~(P[q] <= Q[q])
      BY <2>1
    <2>3. /\ q >= n => P[q] = q
          /\ q < n => P[q] = P[2 * q]
      BY DoublingAt
    <2>4. /\ q >= m => Q[q] = q
          /\ q < m => Q[q] = Q[2 * q]
      BY DoublingAt
    <2>5. q < m
      BY <2>2, <2>3, <2>4
    <2>6. k - 1 \in Nat /\ k - 1 + 2 * q >= m /\ 2 * q \in Nat \ {0}
      BY <2>2, <2>5
    <2>7. k - 1 \notin Bad
      <3> HIDE DEF Bad
      <3>1. QED
        BY <2>1, <2>2, <2>6
    <2>8. P[2 * q] <= Q[2 * q]
      BY <2>6, <2>7
    <2>9. Q[2 * q] \in Nat /\ Q[2 * q] >= 2 * q
      BY <2>6, DoublingReaches DEF Reaches
    <2>10. P[q] <= Q[q]
      BY <2>3, <2>4, <2>5, <2>8, <2>9
    <2>11. QED
      BY <2>2, <2>10
  <1>2. m + p >= m
    OBVIOUS
  <1>3. QED
    BY <1>1, <1>2

\* slot_capacity gives at least two slots and what was asked for, less than
\* twice as much, and more when more is asked for.
LEMMA CapacityReaches ==
  ASSUME NEW n \in Nat
  PROVE  /\ SlotCapacity(n) \in Nat /\ SlotCapacity(n) >= n /\ SlotCapacity(n) >= 2
         /\ n <= 2 => SlotCapacity(n) = 2
         /\ n > 2 => SlotCapacity(n) < 2 * n
  <1>1. PICK P : IsDoubling(n, Nat, P) /\ SlotCapacity(n) = P[2]
    BY Doubling
  <1>2. Reaches(n, 2, P[2])
    BY <1>1, DoublingReaches
  <1>3. 2 >= n => P[2] = 2
    BY <1>1, DoublingAt
  <1>4. QED
    BY <1>1, <1>2, <1>3 DEF Reaches

LEMMA CapacityOrdered ==
  ASSUME NEW n \in Nat, NEW m \in Nat, n <= m
  PROVE  SlotCapacity(n) <= SlotCapacity(m)
  <1>1. PICK P : IsDoubling(n, Nat, P) /\ SlotCapacity(n) = P[2]
    BY Doubling
  <1>2. PICK Q : IsDoubling(m, Nat, Q) /\ SlotCapacity(m) = Q[2]
    BY Doubling
  <1>3. QED
    BY <1>1, <1>2, DoublingOrdered

\* The budget of a table: two tables of that many slots, rounded up, fit.
LEMMA BudgetFits ==
  ASSUME NEW max \in Nat
  PROVE  /\ CacheSlotBudget(max) \in Nat
         /\ SlotCapacity(CacheSlotBudget(max)) \in Nat
         /\ max >= 64 => 32 * SlotCapacity(CacheSlotBudget(max)) <= max
  <1>1. CacheSlotBudget(max) \in Nat /\ 64 * CacheSlotBudget(max) <= max
    BY DEF CacheSlotBudget, BytesPerSlot
  <1> HIDE DEF CacheSlotBudget
  <1>2. QED
    BY <1>1, CapacityReaches

-----------------------------------------------------------------------------
(***************************************************************************)
(* The invariant                                                           *)
(***************************************************************************)
Calls ==
  [pc : {"idle", "use", "halve_op", "halve_size"}]
  \cup [pc : {"check"}, seen : Int]
  \cup [pc : {"turn"}, half : Caches, odd : BOOLEAN]
  \cup [pc : {"wipe"}, half : Caches, todo : SUBSET Nat, freed : Nat]
  \cup [pc : {"resize_op", "resize_size"}, live : LiveCounts]

Typed ==
  /\ nSlots \in [Caches -> Nat \ {0}]
  /\ slots = [c \in Caches |-> slots[c]]
  /\ \A c \in Caches : IsTable(slots[c])
  /\ size \in [Caches -> Int]
  /\ call \in [Threads -> Calls] /\ wipeOdd \in [Caches -> BOOLEAN]
  /\ grown \in BOOLEAN /\ fitted \in BOOLEAN /\ panicked \in BOOLEAN

\* The slots set_cache_size gives to each table when it resizes them.
Grant == SlotCapacity(CacheSlotBudget(cacheMax))

\* What keeps the tables under cache_max: those set_cache_size has resized
\* already have all that a collection may grant.
Granted ==
  ~panicked /\ cacheMax # Unlimited =>
    /\ fitted => \A c \in Caches : nSlots[c] = Grant
    /\ fitted \/ ~grown => TablesSize <= cacheMax

OInv ==
  /\ Typed
  /\ SizeExact
  /\ Granted
  /\ panicked => cacheMax < 2 * TableBytes(2)

-----------------------------------------------------------------------------
(***************************************************************************)
(* What the threads have dropped and not subtracted yet                    *)
(***************************************************************************)
Drops(k, t, c) == IF k[t].pc = "wipe" /\ k[t].half = c THEN k[t].freed ELSE 0
Dropping(k, c) == [t \in Threads |-> Drops(k, t, c)]

LEMMA DroppingCounted ==
  ASSUME NEW k \in [Threads -> Calls], NEW c
  PROVE  /\ IsTable(Dropping(k, c)) /\ DOMAIN Dropping(k, c) = Threads
         /\ \A t \in Threads : Share(Dropping(k, c), t) = Drops(k, t, c)
         /\ \A t \in Threads : Dropping(k, c)[t] = Drops(k, t, c)
  <1>1. ASSUME NEW t \in Threads PROVE Drops(k, t, c) \in Nat
    <2>1. k[t] \in Calls
      OBVIOUS
    <2>2. k[t].pc = "wipe" => k[t].freed \in Nat
      BY <2>1 DEF Calls
    <2>3. QED
      BY <2>2 DEF Drops
  <1>2. IsTable(Dropping(k, c)) /\ DOMAIN Dropping(k, c) = Threads
    BY <1>1, OpCacheAssumption DEF IsTable, Dropping
  <1>3. QED
    BY <1>2 DEF Dropping, Share

LEMMA FreedIs ==
  ASSUME NEW c
  PROVE  /\ FreedOf(c) = SumFunction(Dropping(call, c))
         /\ FreedOf(c)' = SumFunction(Dropping(call', c))
         /\ \A t : Freed(t, c) = Drops(call, t, c) /\ Freed(t, c)' = Drops(call', t, c)
  BY DEF FreedOf, Dropping, Freed, Drops, Wiping, At

LEMMA FreedNone ==
  ASSUME call \in [Threads -> Calls], NEW c, \A t \in Threads : ~Wiping(t, c)
  PROVE  FreedOf(c) = 0
  <1>1. IsTable(Dropping(call, c)) /\ DOMAIN Dropping(call, c) = Threads
        /\ \A t \in Threads : Dropping(call, c)[t] = Drops(call, t, c)
    BY DroppingCounted
  <1>2. \A t \in Threads : Drops(call, t, c) = 0
    BY DEF Drops, Wiping, At
  <1>3. QED
    BY <1>1, <1>2, FreedIs, SumZero

\* What one thread does changes its own part of the sum.
LEMMA FreedMoves ==
  ASSUME call \in [Threads -> Calls], call' \in [Threads -> Calls],
         NEW t \in Threads, NEW d, Goes(t, d), NEW c
  PROVE  /\ FreedOf(c)' - Freed(t, c)' = FreedOf(c) - Freed(t, c)
         /\ FreedOf(c)' \in Nat /\ FreedOf(c) \in Nat
         /\ Freed(t, c)' \in Nat /\ Freed(t, c) \in Nat
  <1> DEFINE e == Dropping(call', c)
             f == Dropping(call, c)
  <1>1. /\ IsTable(f) /\ DOMAIN f = Threads
        /\ \A u \in Threads : Share(f, u) = Drops(call, u, c)
        /\ \A u \in Threads : f[u] = Drops(call, u, c)
    BY DroppingCounted
  <1>2. /\ IsTable(e) /\ DOMAIN e = Threads
        /\ \A u \in Threads : Share(e, u) = Drops(call', u, c)
        /\ \A u \in Threads : e[u] = Drops(call', u, c)
    BY DroppingCounted
  <1>3. FreedOf(c)' = SumFunction(e) /\ Freed(t, c)' = Share(e, t)
    BY <1>2, FreedIs
  <1>4. FreedOf(c) = SumFunction(f) /\ Freed(t, c) = Share(f, t)
    BY <1>1, FreedIs
  <1>5. AgreeOff(e, f, t)
    <2>1. ASSUME NEW u \in Threads \ {t} PROVE Drops(call', u, c) = Drops(call, u, c)
      BY DEF Goes, Drops
    <2> HIDE DEF e, f
    <2>2. QED
      BY <1>1, <1>2, <2>1 DEF AgreeOff
  <1> HIDE DEF e, f
  <1>6. QED
    BY <1>1, <1>2, <1>3, <1>4, <1>5, SumMoved

-----------------------------------------------------------------------------
(***************************************************************************)
(* The steps                                                               *)
(***************************************************************************)
\* Nothing but the call of a thread changes, which was not wiping a half
\* and has dropped nothing of one.
Quiet(t, d) ==
  /\ ~At(t, "wipe")
  /\ Goes(t, d) /\ d \in Calls /\ (d.pc = "wipe" => d.freed = 0)
  /\ wipeOdd' \in [Caches -> BOOLEAN]
  /\ UNCHANGED <<cacheMax, nSlots, slots, size, panicked, grown, fitted>>

LEMMA QuietKeeps ==
  ASSUME OInv, NEW t \in Threads, NEW d, Quiet(t, d)
  PROVE  OInv'
  <1>1. call' \in [Threads -> Calls]
    BY DEF OInv, Typed, Quiet, Goes
  <1>2. ASSUME NEW c \in Caches PROVE FreedOf(c)' = FreedOf(c)
    <2>1. Freed(t, c) = 0
      BY DEF Quiet, Freed, Wiping, At
    <2>2. Freed(t, c)' = 0
      BY DEF OInv, Typed, Quiet, Freed, Wiping, At, Goes
    <2>3. Goes(t, d) /\ call \in [Threads -> Calls]
      BY DEF Quiet, OInv, Typed
    <2>4. QED
      BY <1>1, <2>1, <2>2, <2>3, FreedMoves
  <1>3. Typed'
    BY <1>1 DEF OInv, Typed, Quiet
  <1>4. SizeExact'
    BY <1>2 DEF OInv, SizeExact, Quiet, SlotsOf
  <1>5. Granted' /\ (panicked => cacheMax < 2 * TableBytes(2))'
    BY DEF OInv, Granted, Quiet, TablesSize, Grant
  <1>6. QED
    BY <1>3, <1>4, <1>5 DEF OInv

LEMMA CallKinds ==
  ASSUME NEW k \in Calls
  PROVE  /\ k.pc = "wipe" => /\ k \in [pc : {"wipe"}, half : Caches, todo : SUBSET Nat, freed : Nat]
                             /\ k.half \in Caches /\ k.freed \in Nat
         /\ k.pc \in {"resize_op", "resize_size"} =>
              /\ k \in [pc : {"resize_op", "resize_size"}, live : LiveCounts]
              /\ k.live \in LiveCounts
  BY DEF Calls

LEMMA AccessQuiet ==
  ASSUME OInv, NEW t \in Threads, Access(t)
  PROVE  OInv'
  <1> DEFINE d == IF cacheMax = Unlimited THEN Step("use")
                  ELSE [pc |-> "check", seen |-> size["op"]]
  <1>1. d \in Calls /\ d.pc # "wipe"
    <2>1. size["op"] \in Int
      BY DEF OInv, Typed, Caches
    <2>2. Step("use") \in Calls /\ Step("use").pc # "wipe"
      BY DEF Calls, Step
    <2>3. [pc |-> "check", seen |-> size["op"]] \in Calls
      BY <2>1 DEF Calls
    <2>4. QED
      BY <2>2, <2>3
  <1>2. ~At(t, "wipe") /\ Goes(t, d)
    BY DEF Access, At, Idle, Step
  <1>3. UNCHANGED <<cacheMax, nSlots, slots, size, panicked, grown, fitted, wipeOdd>>
    BY DEF Access, tables, history
  <1>4. wipeOdd' \in [Caches -> BOOLEAN]
    BY <1>3 DEF OInv, Typed
  <1> HIDE DEF d
  <1>5. QED
    BY <1>1, <1>2, <1>3, <1>4, QuietKeeps DEF Quiet

LEMMA CheckQuiet ==
  ASSUME OInv, NEW t \in Threads, Check(t)
  PROVE  OInv'
  <1> DEFINE d == Step(IF call[t].seen + size["size"] > cacheMax THEN "halve_op" ELSE "use")
  <1>1. d \in Calls /\ d.pc # "wipe"
    BY DEF Calls, Step
  <1>2. ~At(t, "wipe") /\ Goes(t, d)
    BY DEF Check, At
  <1>3. UNCHANGED <<cacheMax, nSlots, slots, size, panicked, grown, fitted, wipeOdd>>
    BY DEF Check, tables, history
  <1>4. wipeOdd' \in [Caches -> BOOLEAN]
    BY <1>3 DEF OInv, Typed
  <1> HIDE DEF d
  <1>5. QED
    BY <1>1, <1>2, <1>3, <1>4, QuietKeeps DEF Quiet

LEMMA HalveQuiet ==
  ASSUME OInv, NEW t \in Threads, NEW c \in Caches, Halve(t, c)
  PROVE  OInv'
  <1> DEFINE d == Turn(c, wipeOdd[c])
  <1>1. d \in Calls /\ d.pc # "wipe"
    <2>1. wipeOdd[c] \in BOOLEAN
      BY DEF OInv, Typed
    <2>2. QED
      BY <2>1 DEF Calls, Turn
  <1>2. ~At(t, "wipe") /\ Goes(t, d)
    BY DEF Halve, At, HalveOf
  <1>3. UNCHANGED <<cacheMax, nSlots, slots, size, panicked, grown, fitted>>
    BY DEF Halve, tables, history
  <1>4. wipeOdd' \in [Caches -> BOOLEAN]
    BY DEF Halve, OInv, Typed
  <1> HIDE DEF d
  <1>5. QED
    BY <1>1, <1>2, <1>3, <1>4, QuietKeeps DEF Quiet

LEMMA ReadTableQuiet ==
  ASSUME OInv, NEW t \in Threads, NEW c \in Caches, ReadTable(t, c)
  PROVE  OInv'
  <1> DEFINE d == Wipe(c, Half(c, call[t].odd), 0)
  <1>1. d \in Calls /\ d.freed = 0
    <2>1. Half(c, call[t].odd) \subseteq Nat
      <3>1. nSlots[c] \in Nat \ {0} /\ Hashes[c] \subseteq Nat
        BY OpCacheAssumption DEF OInv, Typed
      <3>2. QED
        BY <3>1 DEF Half, SlotsOf
    <2>2. QED
      BY <2>1 DEF Calls, Wipe
  <1>2. ~At(t, "wipe") /\ Goes(t, d)
    BY DEF ReadTable, At
  <1>3. UNCHANGED <<cacheMax, nSlots, slots, size, panicked, grown, fitted>>
    BY DEF ReadTable, tables, history
  <1>4. wipeOdd' \in [Caches -> BOOLEAN]
    BY DEF ReadTable, OInv, Typed
  <1> HIDE DEF d
  <1>5. QED
    BY <1>1, <1>2, <1>3, <1>4, QuietKeeps DEF Quiet

LEMMA IdleCall == Idle \in Calls /\ Idle.pc = "idle"
  BY DEF Calls, Idle, Step

LEMMA GetQuiet ==
  ASSUME OInv, NEW t \in Threads, Get(t)
  PROVE  OInv'
  <1>1. ~At(t, "wipe") /\ Goes(t, Idle)
    BY DEF Get, At
  <1>2. UNCHANGED <<cacheMax, nSlots, slots, size, panicked, grown, fitted, wipeOdd>>
    BY DEF Get, tables, history
  <1>3. wipeOdd' \in [Caches -> BOOLEAN]
    BY <1>2 DEF OInv, Typed
  <1>4. QED
    BY <1>1, <1>2, <1>3, IdleCall, QuietKeeps DEF Quiet

LEMMA GcQuiet ==
  ASSUME OInv, NEW t \in Threads, NEW live \in LiveCounts, Gc(t, live)
  PROVE  OInv'
  <1> DEFINE d == [pc |-> "resize_op", live |-> live]
  <1>1. d \in Calls /\ d.pc # "wipe"
    BY DEF Calls
  <1>2. ~At(t, "wipe") /\ Goes(t, d)
    BY IdleCall DEF Gc, At
  <1>3. UNCHANGED <<cacheMax, nSlots, slots, size, panicked, grown, fitted, wipeOdd>>
    BY DEF Gc, tables, history
  <1>4. wipeOdd' \in [Caches -> BOOLEAN]
    BY <1>3 DEF OInv, Typed
  <1> HIDE DEF d
  <1>5. QED
    BY <1>1, <1>2, <1>3, <1>4, QuietKeeps DEF Quiet

\* Where a collection goes from a table.
GcGoes(t, c) == IF c = "op" THEN [call[t] EXCEPT !.pc = "resize_size"] ELSE Idle

LEMMA GcNextCall ==
  ASSUME OInv, NEW t \in Threads, NEW c \in Caches, At(t, ResizeOf(c))
  PROVE  GcGoes(t, c) \in Calls /\ GcGoes(t, c).pc # "wipe" /\ ~At(t, "wipe")
         /\ call[t].live \in LiveCounts
  <1>1. call[t] \in Calls /\ call[t].pc \in {"resize_op", "resize_size"}
    BY DEF OInv, Typed, At, ResizeOf
  <1>2. call[t] \in [pc : {"resize_op", "resize_size"}, live : LiveCounts]
        /\ call[t].live \in LiveCounts
    BY <1>1, CallKinds
  <1>3. [call[t] EXCEPT !.pc = "resize_size"] \in Calls
        /\ [call[t] EXCEPT !.pc = "resize_size"].pc = "resize_size"
    BY <1>2 DEF Calls
  <1>4. QED
    BY <1>1, <1>2, <1>3, IdleCall DEF GcGoes, At

LEMMA ResizeKeepsQuiet ==
  ASSUME OInv, NEW t \in Threads, NEW c \in Caches, ResizeKeeps(t, c)
  PROVE  OInv'
  <1>1. Goes(t, GcGoes(t, c))
    BY DEF ResizeKeeps, GcNext, GcGoes
  <1>2. GcGoes(t, c) \in Calls /\ GcGoes(t, c).pc # "wipe" /\ ~At(t, "wipe")
    BY GcNextCall DEF ResizeKeeps
  <1>3. UNCHANGED <<cacheMax, nSlots, slots, size, panicked, grown, fitted, wipeOdd>>
    BY DEF ResizeKeeps, tables, history
  <1>4. wipeOdd' \in [Caches -> BOOLEAN]
    BY <1>3 DEF OInv, Typed
  <1>5. QED
    BY <1>1, <1>2, <1>3, <1>4, QuietKeeps DEF Quiet

LEMMA SlotSizes ==
  ASSUME OInv, NEW c \in Caches
  PROVE  /\ IsTable(slots[c]) /\ SumFunction(slots[c]) \in Nat
         /\ nSlots[c] \in Nat /\ size[c] \in Int
         /\ size[c] = TableBytes(nSlots[c]) + SumFunction(slots[c]) + FreedOf(c)
         /\ \A i : SizeIn(c, i) = Share(slots[c], i)
  <1>1. IsTable(slots[c])
    BY DEF OInv, Typed
  <1>2. SumFunction(slots[c]) \in Nat
    BY <1>1, SumDropped
  <1>3. QED
    BY <1>1, <1>2 DEF OInv, Typed, SizeExact, SizeIn, Share

\* The accounts are kept by a step of a thread under an unchanged
\* cache_max that leaves the lengths of the tables alone.
LEMMA StepCounts ==
  ASSUME OInv, call' \in [Threads -> Calls],
         UNCHANGED <<cacheMax, nSlots, panicked, grown, fitted, wipeOdd>>,
         slots' = [c \in Caches |-> slots'[c]], \A c \in Caches : IsTable(slots'[c]),
         size' \in [Caches -> Int],
         \A c \in Caches : DOMAIN slots'[c] \subseteq SlotsOf(c),
         \A c \in Caches :
           size'[c] - size[c] = (SumFunction(slots'[c]) - SumFunction(slots[c]))
                                + (FreedOf(c)' - FreedOf(c)),
         \A c \in Caches : FreedOf(c) \in Nat /\ FreedOf(c)' \in Nat
  PROVE  OInv'
  <1>1. Typed'
    BY DEF OInv, Typed
  <1>2. ASSUME NEW c \in Caches
        PROVE  size'[c] = TableBytes(nSlots[c]) + SumFunction(slots'[c]) + FreedOf(c)'
    <2>1. /\ SumFunction(slots[c]) \in Nat /\ nSlots[c] \in Nat /\ size[c] \in Int
          /\ size[c] = TableBytes(nSlots[c]) + SumFunction(slots[c]) + FreedOf(c)
      BY SlotSizes
    <2>2. SumFunction(slots'[c]) \in Nat
      BY SumDropped
    <2>3. size'[c] \in Int /\ TableBytes(nSlots[c]) \in Nat
      BY <2>1 DEF TableBytes, BytesPerSlot
    <2>4. /\ size'[c] - size[c] = (SumFunction(slots'[c]) - SumFunction(slots[c]))
                                  + (FreedOf(c)' - FreedOf(c))
          /\ FreedOf(c) \in Nat /\ FreedOf(c)' \in Nat
      OBVIOUS
    <2>5. QED
      BY <2>1, <2>2, <2>3, <2>4
  <1>3. SizeExact'
    BY <1>2 DEF OInv, SizeExact, SlotsOf
  <1>4. Granted' /\ (panicked => cacheMax < 2 * TableBytes(2))'
    BY DEF OInv, Granted, TablesSize, Grant
  <1>5. QED
    BY <1>1, <1>3, <1>4 DEF OInv

\* A slot goes from the table to what clear_half has dropped.
LEMMA WipeSlotCounts ==
  ASSUME OInv, NEW t \in Threads, NEW c \in Caches, WipeSlot(t, c)
  PROVE  OInv'
  <1> DEFINE i == Least(call[t].todo)
             d == Wipe(c, call[t].todo \ {i}, call[t].freed + SizeIn(c, i))
             r == Restrict(slots[c], DOMAIN slots[c] \ {i})
  <1>1. call[t] \in [pc : {"wipe"}, half : Caches, todo : SUBSET Nat, freed : Nat]
        /\ call[t].half = c /\ call[t].freed \in Nat
    <2>1. call[t] \in Calls
      BY DEF OInv, Typed
    <2>2. QED
      BY <2>1, CallKinds DEF WipeSlot, Wiping, At
  <1>2. Goes(t, d) /\ slots' = [slots EXCEPT ![c] = r]
    BY DEF WipeSlot
  <1>3. UNCHANGED <<cacheMax, nSlots, size, panicked, grown, fitted, wipeOdd>>
    BY DEF WipeSlot, history
  <1>4. SizeIn(c, i) = Share(slots[c], i) /\ IsTable(slots[c])
    BY SlotSizes
  <1>5. /\ IsTable(r) /\ DOMAIN r = DOMAIN slots[c] \ {i}
        /\ SumFunction(slots[c]) = SumFunction(r) + Share(slots[c], i)
        /\ SumFunction(slots[c]) \in Nat /\ SumFunction(r) \in Nat
        /\ Share(slots[c], i) \in Nat
    BY <1>4, SumDropped
  <1> HIDE DEF r, i
  <1>6. d \in Calls /\ d.pc = "wipe" /\ d.half = c
        /\ d.freed = call[t].freed + Share(slots[c], i)
    <2>1. call[t].freed + Share(slots[c], i) \in Nat /\ call[t].todo \ {i} \in SUBSET Nat
      BY <1>1, <1>5
    <2>2. QED
      BY <1>4, <2>1 DEF Calls, Wipe
  <1> HIDE DEF d
  <1>7. call' \in [Threads -> Calls] /\ call'[t] = d
    BY <1>2, <1>6 DEF OInv, Typed, Goes
  <1>8. ASSUME NEW e \in Caches
        PROVE  /\ FreedOf(e) \in Nat /\ FreedOf(e)' \in Nat
               /\ e = c => FreedOf(e)' = FreedOf(e) + Share(slots[c], i)
               /\ e # c => FreedOf(e)' = FreedOf(e)
    <2>1. /\ FreedOf(e)' - Freed(t, e)' = FreedOf(e) - Freed(t, e)
          /\ FreedOf(e)' \in Nat /\ FreedOf(e) \in Nat
          /\ Freed(t, e)' \in Nat /\ Freed(t, e) \in Nat
      <3>1. call \in [Threads -> Calls]
        BY DEF OInv, Typed
      <3>2. QED
        BY <1>2, <1>7, <3>1, FreedMoves
    <2>2. Freed(t, e) = IF e = c THEN call[t].freed ELSE 0
      BY <1>1 DEF Freed, Wiping, At
    <2>3. Freed(t, e)' = IF e = c THEN call[t].freed + Share(slots[c], i) ELSE 0
      BY <1>6, <1>7 DEF Freed, Wiping, At
    <2>4. QED
      BY <1>1, <1>5, <2>1, <2>2, <2>3
  <1>9. /\ slots' = [e \in Caches |-> slots'[e]]
        /\ slots'[c] = r /\ \A e \in Caches \ {c} : slots'[e] = slots[e]
    BY <1>2 DEF OInv, Typed
  <1>10. ASSUME NEW e \in Caches
         PROVE  /\ IsTable(slots'[e]) /\ DOMAIN slots'[e] \subseteq SlotsOf(e)
                /\ size'[e] - size[e] = (SumFunction(slots'[e]) - SumFunction(slots[e]))
                                        + (FreedOf(e)' - FreedOf(e))
    <2>1. /\ IsTable(slots[e]) /\ SumFunction(slots[e]) \in Nat /\ size[e] \in Int
      BY SlotSizes
    <2>2. DOMAIN slots[e] \subseteq SlotsOf(e)
      BY DEF OInv, SizeExact
    <2>3. CASE e = c
      BY <1>3, <1>5, <1>8, <1>9, <2>1, <2>2, <2>3
    <2>4. CASE e # c
      BY <1>3, <1>8, <1>9, <2>1, <2>2, <2>4
    <2>5. QED
      BY <2>3, <2>4
  <1>11. size' \in [Caches -> Int]
    BY <1>3 DEF OInv, Typed
  <1>12. UNCHANGED <<cacheMax, nSlots, panicked, grown, fitted, wipeOdd>>
    BY <1>3
  <1>13. QED
    BY <1>7, <1>8, <1>9, <1>10, <1>11, <1>12, StepCounts

\* The end of clear_half subtracts what it has dropped.
LEMMA EndHalveCounts ==
  ASSUME OInv, NEW t \in Threads, NEW c \in Caches, EndHalve(t, c)
  PROVE  OInv'
  <1> DEFINE d == Step(IF c = "op" THEN "halve_size" ELSE "use")
  <1>1. call[t].pc = "wipe" /\ call[t].half = c /\ call[t].freed \in Nat
    <2>1. call[t] \in Calls
      BY DEF OInv, Typed
    <2>2. QED
      BY <2>1, CallKinds DEF EndHalve, Wiping, At
  <1>2. Goes(t, d) /\ size' = [size EXCEPT ![c] = @ - call[t].freed]
    BY DEF EndHalve, Sized
  <1>3. UNCHANGED <<cacheMax, nSlots, slots, panicked, grown, fitted, wipeOdd>>
    BY DEF EndHalve, tables
  <1>4. d \in Calls /\ d.pc # "wipe"
    BY DEF Calls, Step
  <1> HIDE DEF d
  <1>5. call' \in [Threads -> Calls] /\ call'[t] = d
    BY <1>2, <1>4 DEF OInv, Typed, Goes
  <1>6. ASSUME NEW e \in Caches
        PROVE  /\ FreedOf(e) \in Nat /\ FreedOf(e)' \in Nat
               /\ e = c => FreedOf(e)' = FreedOf(e) - call[t].freed
               /\ e # c => FreedOf(e)' = FreedOf(e)
    <2>1. /\ FreedOf(e)' - Freed(t, e)' = FreedOf(e) - Freed(t, e)
          /\ FreedOf(e)' \in Nat /\ FreedOf(e) \in Nat
      <3>1. call \in [Threads -> Calls]
        BY DEF OInv, Typed
      <3>2. QED
        BY <1>2, <1>5, <3>1, FreedMoves
    <2>2. Freed(t, e) = IF e = c THEN call[t].freed ELSE 0
      BY <1>1 DEF Freed, Wiping, At
    <2>3. Freed(t, e)' = 0
      BY <1>4, <1>5 DEF Freed, Wiping, At
    <2>4. QED
      BY <1>1, <2>1, <2>2, <2>3
  <1>7. ASSUME NEW e \in Caches
        PROVE  /\ IsTable(slots'[e]) /\ DOMAIN slots'[e] \subseteq SlotsOf(e)
               /\ size'[e] - size[e] = (SumFunction(slots'[e]) - SumFunction(slots[e]))
                                       + (FreedOf(e)' - FreedOf(e))
    <2>1. /\ IsTable(slots[e]) /\ SumFunction(slots[e]) \in Nat /\ size[e] \in Int
      BY SlotSizes
    <2>2. DOMAIN slots[e] \subseteq SlotsOf(e)
      BY DEF OInv, SizeExact
    <2>3. size'[e] = IF e = c THEN size[e] - call[t].freed ELSE size[e]
      BY <1>2 DEF OInv, Typed
    <2>4. QED
      BY <1>1, <1>3, <1>6, <2>1, <2>2, <2>3
  <1>8. size' \in [Caches -> Int] /\ slots' = [e \in Caches |-> slots'[e]]
    BY <1>1, <1>2, <1>3 DEF OInv, Typed
  <1>9. UNCHANGED <<cacheMax, nSlots, panicked, grown, fitted, wipeOdd>>
    BY <1>3
  <1>10. QED
    BY <1>5, <1>6, <1>7, <1>8, <1>9, StepCounts

\* A store counts the entry and no longer the one it overwrites.
LEMMA InsertCounts ==
  ASSUME OInv, NEW t \in Threads, NEW c \in Caches, NEW h \in Hashes[c],
         NEW bytes \in EntrySizes, Insert(t, c, h, bytes)
  PROVE  OInv'
  <1> DEFINE i == h % nSlots[c]
             r == Filled(slots[c], i, bytes)
  <1>1. call[t].pc = "use" /\ bytes \in Nat
    BY OpCacheAssumption DEF Insert, At
  <1>2. /\ Goes(t, Idle) /\ slots' = [slots EXCEPT ![c] = r]
        /\ size' = [size EXCEPT ![c] = @ + (bytes - SizeIn(c, i))]
    BY DEF Insert, Sized
  <1>3. UNCHANGED <<cacheMax, nSlots, panicked, grown, fitted, wipeOdd>>
    BY DEF Insert
  <1>4. SizeIn(c, i) = Share(slots[c], i) /\ IsTable(slots[c])
    BY SlotSizes
  <1>5. /\ IsTable(r) /\ DOMAIN r = DOMAIN slots[c] \cup {i}
        /\ SumFunction(r) = SumFunction(slots[c]) + (bytes - Share(slots[c], i))
        /\ SumFunction(slots[c]) \in Nat /\ Share(slots[c], i) \in Nat
    BY <1>1, <1>4, SumFilled
  <1>6. i \in SlotsOf(c)
    BY DEF SlotsOf
  <1> HIDE DEF r, i
  <1>7. call' \in [Threads -> Calls] /\ call'[t] = Idle
    BY <1>2, IdleCall DEF OInv, Typed, Goes
  <1>8. ASSUME NEW e \in Caches
        PROVE  FreedOf(e) \in Nat /\ FreedOf(e)' = FreedOf(e)
    <2>1. /\ FreedOf(e)' - Freed(t, e)' = FreedOf(e) - Freed(t, e)
          /\ FreedOf(e)' \in Nat /\ FreedOf(e) \in Nat
      <3>1. call \in [Threads -> Calls]
        BY DEF OInv, Typed
      <3>2. QED
        BY <1>2, <1>7, <3>1, FreedMoves
    <2>2. Freed(t, e) = 0 /\ Freed(t, e)' = 0
      BY <1>1, <1>7, IdleCall DEF Freed, Wiping, At
    <2>3. QED
      BY <2>1, <2>2
  <1>9. /\ slots' = [e \in Caches |-> slots'[e]]
        /\ slots'[c] = r /\ \A e \in Caches \ {c} : slots'[e] = slots[e]
    BY <1>2 DEF OInv, Typed
  <1>10. ASSUME NEW e \in Caches
         PROVE  /\ IsTable(slots'[e]) /\ DOMAIN slots'[e] \subseteq SlotsOf(e)
                /\ size'[e] - size[e] = (SumFunction(slots'[e]) - SumFunction(slots[e]))
                                        + (FreedOf(e)' - FreedOf(e))
    <2>1. /\ IsTable(slots[e]) /\ SumFunction(slots[e]) \in Nat /\ size[e] \in Int
      BY SlotSizes
    <2>2. DOMAIN slots[e] \subseteq SlotsOf(e)
      BY DEF OInv, SizeExact
    <2>3. size'[e] = IF e = c THEN size[e] + (bytes - Share(slots[c], i)) ELSE size[e]
      BY <1>2, <1>4 DEF OInv, Typed
    <2>4. CASE e = c
      BY <1>1, <1>5, <1>6, <1>8, <1>9, <2>1, <2>2, <2>3, <2>4
    <2>5. CASE e # c
      BY <1>8, <1>9, <2>1, <2>2, <2>3, <2>5
    <2>6. QED
      BY <2>4, <2>5
  <1>11. size' \in [Caches -> Int]
    BY <1>1, <1>2, <1>4, <1>5 DEF OInv, Typed
  <1>12. QED
    BY <1>3, <1>7, <1>8, <1>9, <1>10, <1>11, StepCounts

LEMMA CacheMaxIs ==
  ASSUME OInv
  PROVE  cacheMax = Unlimited \/ cacheMax \in Nat
  BY OpCacheAssumption DEF OInv, SizeExact

\* What a collection grants stays within the grant of set_cache_size.
LEMMA GrantedToGc ==
  ASSUME OInv, NEW c \in Caches, NEW live \in LiveCounts
  PROVE  /\ GcSlots(c, live) \in Nat \ {0}
         /\ cacheMax # Unlimited => GcSlots(c, live) <= Grant
  <1> DEFINE k == (IF c = "op" THEN 4 ELSE 2) * live
  <1>1. k \in Nat
    BY OpCacheAssumption
  <1> HIDE DEF k
  <1>2. GcSlots(c, live) = SlotCapacity(Budgeted(k))
    BY DEF GcSlots, k
  <1>3. CASE cacheMax = Unlimited
    <2>1. Budgeted(k) = k
      BY <1>3 DEF Budgeted
    <2>2. QED
      BY <1>1, <1>2, <1>3, <2>1, CapacityReaches
  <1>4. CASE cacheMax # Unlimited
    <2>1. cacheMax \in Nat
      BY <1>4, CacheMaxIs
    <2>2. CacheSlotBudget(cacheMax) \in Nat
      BY <2>1, BudgetFits
    <2>3. Budgeted(k) \in Nat /\ Budgeted(k) <= CacheSlotBudget(cacheMax)
      BY <1>1, <1>4, <2>2 DEF Budgeted, Lesser
    <2>4. SlotCapacity(Budgeted(k)) <= Grant
      BY <2>2, <2>3, CapacityOrdered DEF Grant
    <2>5. SlotCapacity(Budgeted(k)) \in Nat /\ SlotCapacity(Budgeted(k)) >= 2
      BY <2>3, CapacityReaches
    <2>6. QED
      BY <1>2, <2>4, <2>5
  <1>5. QED
    BY <1>3, <1>4

\* Nobody is wiping the table that is replaced, so nothing dropped from it
\* is left to subtract.
LEMMA ResizeGrowsCounts ==
  ASSUME OInv, NEW t \in Threads, NEW c \in Caches, ResizeGrows(t, c)
  PROVE  OInv'
  <1> DEFINE n == GcSlots(c, call[t].live)
  <1>1. /\ Goes(t, GcGoes(t, c))
        /\ nSlots[c] < n
        /\ \A u \in Threads : ~Wiping(u, c)
        /\ nSlots' = [nSlots EXCEPT ![c] = n]
        /\ slots' = [slots EXCEPT ![c] = <<>>]
        /\ size' = [size EXCEPT ![c] = TableBytes(n)]
        /\ grown' = TRUE /\ UNCHANGED <<cacheMax, wipeOdd, panicked, fitted>>
    BY DEF ResizeGrows, GcNext, GcGoes
  <1>2. GcGoes(t, c) \in Calls /\ GcGoes(t, c).pc # "wipe" /\ ~At(t, "wipe")
        /\ call[t].live \in LiveCounts
    BY GcNextCall DEF ResizeGrows
  <1>3. n \in Nat \ {0} /\ (cacheMax # Unlimited => n <= Grant)
    BY <1>2, GrantedToGc
  <1> HIDE DEF n
  <1>4. call' \in [Threads -> Calls] /\ call'[t] = GcGoes(t, c)
    BY <1>1, <1>2 DEF OInv, Typed, Goes
  <1>5. ASSUME NEW e \in Caches
        PROVE  FreedOf(e) \in Nat /\ FreedOf(e)' = FreedOf(e)
    <2>1. /\ FreedOf(e)' - Freed(t, e)' = FreedOf(e) - Freed(t, e)
          /\ FreedOf(e)' \in Nat /\ FreedOf(e) \in Nat
      <3>1. call \in [Threads -> Calls]
        BY DEF OInv, Typed
      <3>2. QED
        BY <1>1, <1>4, <3>1, FreedMoves
    <2>2. Freed(t, e) = 0 /\ Freed(t, e)' = 0
      BY <1>2, <1>4 DEF Freed, Wiping, At
    <2>3. QED
      BY <2>1, <2>2
  <1>6. FreedOf(c) = 0
    BY <1>1, FreedNone DEF OInv, Typed
  <1>7. TableBytes(n) \in Nat
    BY <1>3 DEF TableBytes, BytesPerSlot
  <1>8. ASSUME NEW e \in Caches
        PROVE  /\ nSlots'[e] = IF e = c THEN n ELSE nSlots[e]
               /\ slots'[e] = IF e = c THEN <<>> ELSE slots[e]
               /\ size'[e] = IF e = c THEN TableBytes(n) ELSE size[e]
    BY <1>1 DEF OInv, Typed
  <1>9. Typed'
    <2>1. /\ nSlots' \in [Caches -> Nat \ {0}]
          /\ slots' = [e \in Caches |-> slots'[e]]
          /\ size' \in [Caches -> Int]
      <3>1. /\ nSlots \in [Caches -> Nat \ {0}] /\ size \in [Caches -> Int]
            /\ slots = [e \in Caches |-> slots[e]]
        BY DEF OInv, Typed
      <3>2. nSlots' \in [Caches -> Nat \ {0}]
        BY <1>1, <1>3, <3>1
      <3>3. size' \in [Caches -> Int]
        BY <1>1, <1>7, <3>1
      <3>4. slots' = [e \in Caches |-> slots'[e]]
        BY <1>1, <3>1
      <3>5. QED
        BY <3>2, <3>3, <3>4
    <2>2. ASSUME NEW e \in Caches PROVE IsTable(slots'[e])
      BY <1>8, SlotSizes, Empty
    <2>3. /\ grown' \in BOOLEAN /\ fitted' \in BOOLEAN /\ panicked' \in BOOLEAN
          /\ wipeOdd' \in [Caches -> BOOLEAN]
      BY <1>1 DEF OInv, Typed
    <2>4. QED
      BY <1>4, <2>1, <2>2, <2>3 DEF Typed, IsTable
  <1>10. SizeExact'
    <2>1. ASSUME NEW e \in Caches
          PROVE  /\ size'[e] = TableBytes(nSlots'[e]) + SumFunction(slots'[e]) + FreedOf(e)'
                 /\ DOMAIN slots'[e] \subseteq SlotsOf(e)'
      <3>1. CASE e = c
        BY <1>5, <1>6, <1>7, <1>8, <3>1, Empty
      <3>2. CASE e # c
        <4>1. SlotsOf(e)' = SlotsOf(e) /\ DOMAIN slots[e] \subseteq SlotsOf(e)
          BY <1>8, <3>2 DEF SlotsOf, OInv, SizeExact
        <4>2. QED
          BY <1>5, <1>8, <3>2, <4>1, SlotSizes
      <3>3. QED
        BY <3>1, <3>2
    <2>2. QED
      BY <1>1, <2>1 DEF OInv, SizeExact, TableBytes
  <1>11. Granted'
    <2>1. ~panicked /\ cacheMax # Unlimited => ~fitted
      <3>1. ~panicked /\ cacheMax # Unlimited /\ fitted => nSlots[c] = Grant
        BY DEF OInv, Granted
      <3>2. nSlots[c] \in Nat
        BY SlotSizes
      <3>3. QED
        BY <1>1, <1>3, <3>1, <3>2
    <2>2. QED
      BY <1>1, <2>1 DEF Granted
  <1>12. (panicked => cacheMax < 2 * TableBytes(2))'
    BY <1>1 DEF OInv, TableBytes
  <1>13. QED
    BY <1>9, <1>10, <1>11, <1>12 DEF OInv

-----------------------------------------------------------------------------
(***************************************************************************)
(* set_cache_size                                                          *)
(***************************************************************************)
\* Alone, the owner finds nothing dropped and not subtracted.
LEMMA LimitAlone ==
  ASSUME OInv, NEW max \in CacheMaxes, Limit(max)
  PROVE  /\ \A c \in Caches : FreedOf(c) = 0 /\ FreedOf(c)' = 0
         /\ max = Unlimited \/ max \in Nat
         /\ max \in CacheMaxes \cup {Unlimited}
         /\ cacheMax' = max /\ grown' = FALSE /\ UNCHANGED <<wipeOdd, call>>
  <1>1. \A t \in Threads : call[t] = Idle /\ call' = call
    BY DEF Limit
  <1>2. ASSUME NEW c \in Caches PROVE FreedOf(c) = 0
    <2>1. \A t \in Threads : ~Wiping(t, c)
      BY <1>1, IdleCall DEF Wiping, At
    <2>2. QED
      BY <2>1, FreedNone DEF OInv, Typed
  <1>3. ASSUME NEW c \in Caches PROVE FreedOf(c)' = FreedOf(c)
    BY FreedIs DEF Limit
  <1>4. QED
    BY <1>2, <1>3, OpCacheAssumption DEF Limit

LEMMA Bytes ==
  ASSUME NEW s \in [Caches -> Nat]
  PROVE  /\ TableBytes(s["op"] + s["size"]) = TableBytes(s["op"]) + TableBytes(s["size"])
         /\ \A c \in Caches : TableBytes(s[c]) \in Nat
  BY DEF TableBytes, BytesPerSlot, Caches

LEMMA LimitKeepsCounts ==
  ASSUME OInv, ~panicked, NEW max \in CacheMaxes, LimitKeeps(max)
  PROVE  OInv'
  <1>1. /\ \A c \in Caches : FreedOf(c) = 0 /\ FreedOf(c)' = 0
        /\ max = Unlimited \/ max \in Nat
        /\ max \in CacheMaxes \cup {Unlimited}
        /\ cacheMax' = max /\ grown' = FALSE /\ UNCHANGED <<wipeOdd, call>>
    BY LimitAlone DEF LimitKeeps
  <1>2. UNCHANGED <<nSlots, slots, size, panicked>> /\ fitted' = FALSE
    BY DEF LimitKeeps, tables
  <1>3. max # Unlimited => size["op"] + size["size"] <= max
    <2>1. size["op"] + size["size"] \in Int
      BY DEF OInv, Typed, Caches
    <2>2. QED
      BY <1>1, <2>1 DEF LimitKeeps, Total, RegularCacheSize
  <1>4. ASSUME max # Unlimited PROVE TablesSize <= max
    <2>1. nSlots \in [Caches -> Nat]
      BY DEF OInv, Typed
    <2>2. TablesSize = TableBytes(nSlots["op"]) + TableBytes(nSlots["size"])
      BY <2>1, Bytes DEF TablesSize
    <2>3. ASSUME NEW c \in Caches
          PROVE  TableBytes(nSlots[c]) \in Nat /\ size[c] >= TableBytes(nSlots[c]) /\ size[c] \in Int
      BY <1>1, <2>1, Bytes, SlotSizes
    <2>4. "op" \in Caches /\ "size" \in Caches
      BY DEF Caches
    <2>5. QED
      BY <1>1, <1>3, <1>4, <2>2, <2>3, <2>4
  <1>5. Typed'
    BY <1>1, <1>2 DEF OInv, Typed
  <1>6. SizeExact'
    BY <1>1, <1>2 DEF OInv, SizeExact, SlotsOf
  <1>7. Granted'
    BY <1>1, <1>2, <1>4 DEF Granted, TablesSize
  <1>8. (panicked => cacheMax < 2 * TableBytes(2))'
    BY <1>2
  <1>9. QED
    BY <1>5, <1>6, <1>7, <1>8 DEF OInv

LEMMA LimitEmptiesCounts ==
  ASSUME OInv, ~panicked, NEW max \in CacheMaxes, LimitEmpties(max)
  PROVE  OInv'
  <1>1. /\ \A c \in Caches : FreedOf(c) = 0 /\ FreedOf(c)' = 0
        /\ max = Unlimited \/ max \in Nat
        /\ max \in CacheMaxes \cup {Unlimited}
        /\ cacheMax' = max /\ grown' = FALSE /\ UNCHANGED <<wipeOdd, call>>
    BY LimitAlone DEF LimitEmpties
  <1>2. /\ slots' = [c \in Caches |-> <<>>]
        /\ size' = [c \in Caches |-> TableBytes(nSlots[c])]
        /\ fitted' = FALSE /\ UNCHANGED <<nSlots, panicked>>
    BY DEF LimitEmpties, EmptyTables
  <1>3. nSlots \in [Caches -> Nat]
    BY DEF OInv, Typed
  <1>4. \A c \in Caches : TableBytes(nSlots[c]) \in Nat
    BY <1>3, Bytes
  <1>5. "op" \in Caches /\ "size" \in Caches
    BY DEF Caches
  <1>6. ASSUME max # Unlimited PROVE TablesSize <= max
    <2>1. ~(EmptyTables["op"] + EmptyTables["size"] > max)
      BY <1>6 DEF LimitEmpties, Total, RegularCacheSize
    <2>2. /\ EmptyTables["op"] = TableBytes(nSlots["op"])
          /\ EmptyTables["size"] = TableBytes(nSlots["size"])
      BY <1>5 DEF EmptyTables
    <2>3. TablesSize = TableBytes(nSlots["op"]) + TableBytes(nSlots["size"])
      BY <1>3, Bytes DEF TablesSize
    <2>4. QED
      BY <1>1, <1>4, <1>5, <1>6, <2>1, <2>2, <2>3
  <1>7. \A c \in Caches : slots'[c] = <<>> /\ size'[c] = TableBytes(nSlots[c])
    BY <1>2
  <1>8. Typed'
    <2>1. \A c \in Caches : IsTable(slots'[c])
      BY <1>7, Empty
    <2>2. /\ size' \in [Caches -> Int] /\ slots' = [c \in Caches |-> slots'[c]]
      BY <1>2, <1>4
    <2>3. nSlots' \in [Caches -> Nat \ {0}] /\ call' \in [Threads -> Calls]
          /\ wipeOdd' \in [Caches -> BOOLEAN]
      BY <1>1, <1>2 DEF OInv, Typed
    <2>4. grown' \in BOOLEAN /\ fitted' \in BOOLEAN /\ panicked' \in BOOLEAN
      BY <1>1, <1>2 DEF OInv, Typed
    <2>5. QED
      BY <2>1, <2>2, <2>3, <2>4 DEF Typed, IsTable
  <1>9. SizeExact'
    BY <1>1, <1>2, <1>4, <1>7, Empty DEF SizeExact
  <1>10. Granted' /\ (panicked => cacheMax < 2 * TableBytes(2))'
    BY <1>1, <1>2, <1>6 DEF Granted, TablesSize
  <1>11. QED
    BY <1>8, <1>9, <1>10 DEF OInv

LEMMA LimitResizesCounts ==
  ASSUME OInv, ~panicked, NEW max \in CacheMaxes, LimitResizes(max)
  PROVE  OInv'
  <1> DEFINE n == SlotCapacity(CacheSlotBudget(max))
  <1>1. /\ \A c \in Caches : FreedOf(c) = 0 /\ FreedOf(c)' = 0
        /\ max = Unlimited \/ max \in Nat
        /\ max \in CacheMaxes \cup {Unlimited}
        /\ cacheMax' = max /\ grown' = FALSE /\ UNCHANGED <<wipeOdd, call>>
    BY LimitAlone DEF LimitResizes
  <1>2. max \in Nat
    BY <1>1 DEF LimitResizes, Total
  <1>3. /\ nSlots' = [c \in Caches |-> n]
        /\ slots' = [c \in Caches |-> <<>>]
        /\ size' = [c \in Caches |-> TableBytes(n)]
        /\ panicked' = (2 * TableBytes(n) > max)
        /\ fitted' = TRUE
    BY DEF LimitResizes
  <1>4. n \in Nat /\ (max >= 64 => 32 * n <= max)
    BY <1>2, BudgetFits
  <1>5. n # 0
    <2>1. CacheSlotBudget(max) \in Nat
      BY <1>2, BudgetFits
    <2>2. QED
      BY <1>4, <2>1, CapacityReaches
  <1>6. Grant' = n
    BY <1>1 DEF Grant, CacheSlotBudget, BytesPerSlot
  <1> HIDE DEF n
  <1>7. TableBytes(n) = 16 * n
    BY DEF TableBytes, BytesPerSlot
  <1>8. \A c \in Caches : nSlots'[c] = n /\ slots'[c] = <<>> /\ size'[c] = TableBytes(n)
    BY <1>3
  <1>9. Typed'
    <2>1. \A c \in Caches : IsTable(slots'[c])
      BY <1>8, Empty
    <2>2. nSlots' \in [Caches -> Nat \ {0}] /\ size' \in [Caches -> Int]
          /\ slots' = [c \in Caches |-> slots'[c]]
      BY <1>3, <1>4, <1>5, <1>7
    <2>3. call' \in [Threads -> Calls] /\ wipeOdd' \in [Caches -> BOOLEAN]
      BY <1>1 DEF OInv, Typed
    <2>4. panicked' \in BOOLEAN
      BY <1>3
    <2>5. grown' \in BOOLEAN /\ fitted' \in BOOLEAN
      BY <1>1, <1>3
    <2>6. QED
      BY <2>1, <2>2, <2>3, <2>4, <2>5 DEF Typed, IsTable
  <1>10. SizeExact'
    <2>1. ASSUME NEW c \in Caches
          PROVE  /\ size'[c] = TableBytes(nSlots'[c]) + SumFunction(slots'[c]) + FreedOf(c)'
                 /\ DOMAIN slots'[c] = {}
      BY <1>1, <1>4, <1>7, <1>8, Empty
    <2>2. QED
      BY <1>1, <2>1 DEF SizeExact, TableBytes
  <1>11. TablesSize' = 32 * n
    BY <1>4, <1>8 DEF TablesSize, TableBytes, BytesPerSlot, Caches
  <1>12. ASSUME ~panicked' PROVE 32 * n <= max
    <2>1. ~(2 * TableBytes(n) > max)
      BY <1>3, <1>12
    <2>2. QED
      BY <1>2, <1>4, <1>7, <2>1
  <1>13. ASSUME panicked' PROVE max < 64
    <2>1. 2 * TableBytes(n) > max
      BY <1>3, <1>13
    <2>2. QED
      BY <1>2, <1>4, <1>7, <2>1
  <1>14. Granted'
    BY <1>1, <1>3, <1>6, <1>8, <1>11, <1>12 DEF Granted
  <1>15. (panicked => cacheMax < 2 * TableBytes(2))'
    <2>1. TableBytes(2)' = 32
      BY DEF TableBytes, BytesPerSlot
    <2>2. QED
      BY <1>1, <1>13, <2>1
  <1>16. QED
    BY <1>9, <1>10, <1>14, <1>15 DEF OInv

-----------------------------------------------------------------------------
LEMMA Starts == Init => OInv
  <1> SUFFICES ASSUME Init PROVE OInv
    OBVIOUS
  <1>1. \A n \in Nat : SlotCapacity(n) \in Nat \ {0}
    BY CapacityReaches
  <1>2. ASSUME NEW c \in Caches PROVE InitialSlots[c] \in Nat \ {0}
    <2>1. (IF c = "op" THEN 64 ELSE 16) * Capacity \in Nat
      BY OpCacheAssumption
    <2>2. QED
      BY <1>1, <2>1 DEF InitialSlots
  <1>3. nSlots \in [Caches -> Nat \ {0}]
    BY <1>2 DEF Init, InitialSlots
  <1>4. ASSUME NEW c \in Caches
        PROVE  /\ slots[c] = <<>> /\ size[c] = TableBytes(nSlots[c])
               /\ TableBytes(nSlots[c]) \in Nat
    BY <1>3 DEF Init, TableBytes, BytesPerSlot
  <1>5. call \in [Threads -> Calls] /\ \A t \in Threads : call[t].pc = "idle"
    BY IdleCall DEF Init
  <1>6. ASSUME NEW c \in Caches PROVE FreedOf(c) = 0
    BY <1>5, FreedNone DEF Wiping, At
  <1>7. Typed
    <2>1. \A c \in Caches : IsTable(slots[c])
      BY <1>4, Empty
    <2>2. size \in [Caches -> Int] /\ slots = [c \in Caches |-> slots[c]]
      BY <1>4 DEF Init
    <2>3. wipeOdd \in [Caches -> BOOLEAN]
      BY DEF Init
    <2>4. QED
      BY <1>3, <1>5, <2>1, <2>2, <2>3 DEF Init, Typed
  <1>8. SizeExact
    BY <1>4, <1>6, Empty DEF Init, SizeExact
  <1>9. Granted /\ (panicked => cacheMax < 2 * TableBytes(2))
    BY DEF Init, Granted
  <1>10. QED
    BY <1>7, <1>8, <1>9 DEF OInv

LEMMA StutterKeeps ==
  ASSUME OInv, UNCHANGED vars
  PROVE  OInv'
  <1>1. UNCHANGED <<cacheMax, nSlots, slots, size, panicked, grown, fitted, call, wipeOdd>>
    BY DEF vars, tables, history
  <1>2. \A c : FreedOf(c)' = FreedOf(c)
    BY <1>1, FreedIs
  <1>3. SizeExact'
    BY <1>1, <1>2 DEF OInv, SizeExact, SlotsOf
  <1>4. Typed'
    BY <1>1 DEF OInv, Typed
  <1>5. Granted' /\ (panicked => cacheMax < 2 * TableBytes(2))'
    BY <1>1 DEF OInv, Granted, TablesSize, Grant
  <1>6. QED
    BY <1>3, <1>4, <1>5 DEF OInv

LEMMA Steps == OInv /\ [Next]_vars => OInv'
  <1> SUFFICES ASSUME OInv, [Next]_vars PROVE OInv'
    OBVIOUS
  <1>1. ASSUME NEW t \in Threads, Access(t) PROVE OInv'
    BY <1>1, AccessQuiet
  <1>2. ASSUME NEW t \in Threads, Check(t) PROVE OInv'
    BY <1>2, CheckQuiet
  <1>3. ASSUME NEW t \in Threads, NEW c \in Caches, Halve(t, c) PROVE OInv'
    BY <1>3, HalveQuiet
  <1>4. ASSUME NEW t \in Threads, NEW c \in Caches, ReadTable(t, c) PROVE OInv'
    BY <1>4, ReadTableQuiet
  <1>5. ASSUME NEW t \in Threads, NEW c \in Caches, WipeSlot(t, c) PROVE OInv'
    BY <1>5, WipeSlotCounts
  <1>6. ASSUME NEW t \in Threads, NEW c \in Caches, EndHalve(t, c) PROVE OInv'
    BY <1>6, EndHalveCounts
  <1>7. ASSUME NEW t \in Threads, NEW c \in Caches, ResizeKeeps(t, c) PROVE OInv'
    BY <1>7, ResizeKeepsQuiet
  <1>8. ASSUME NEW t \in Threads, NEW c \in Caches, ResizeGrows(t, c) PROVE OInv'
    BY <1>8, ResizeGrowsCounts
  <1>9. ASSUME NEW t \in Threads, Get(t) PROVE OInv'
    BY <1>9, GetQuiet
  <1>10. ASSUME NEW t \in Threads, NEW c \in Caches, NEW h \in Hashes[c],
               NEW bytes \in EntrySizes, Insert(t, c, h, bytes)
        PROVE  OInv'
    BY <1>10, InsertCounts
  <1>11. ASSUME NEW t \in Threads, NEW live \in LiveCounts, Gc(t, live) PROVE OInv'
    BY <1>11, GcQuiet
  <1>12. ASSUME ~panicked, NEW max \in CacheMaxes, LimitKeeps(max) PROVE OInv'
    BY <1>12, LimitKeepsCounts
  <1>13. ASSUME ~panicked, NEW max \in CacheMaxes, LimitEmpties(max) PROVE OInv'
    BY <1>13, LimitEmptiesCounts
  <1>14. ASSUME ~panicked, NEW max \in CacheMaxes, LimitResizes(max) PROVE OInv'
    BY <1>14, LimitResizesCounts
  <1>15. ASSUME UNCHANGED vars PROVE OInv'
    BY <1>15, StutterKeeps
  <1>16. QED
    BY <1>1, <1>2, <1>3, <1>4, <1>5, <1>6, <1>7, <1>8, <1>9, <1>10, <1>11, <1>12,
       <1>13, <1>14, <1>15 DEF Next

\* The invariant holds of every behaviour, for every number of threads,
\* hash, size of an entry, limit and live count.
THEOREM AccountsHold == Spec => []OInv
  BY Starts, Steps, PTL DEF Spec

\* What clear_caches_if_over reads is exact (op_cache.rs): a tracked size is
\* what the table, its entries and the entries dropped and not subtracted
\* yet occupy, whichever stores, halvings and resizes overlap.
THEOREM SizeStaysExact == Spec => []SizeExact
  <1>1. OInv => SizeExact
    BY DEF OInv
  <1>2. QED
    BY <1>1, AccountsHold, PTL

\* cache_max bounds the tables (manager.rs): they exceed it only where
\* set_cache_size left them as they were and a collection enlarged one
\* since, and set_cache_size panics only where two tables of two slots do
\* not fit.
THEOREM TablesStayUnderCap == Spec => []TablesFitCap
  <1>1. OInv => TablesFitCap
    <2> SUFFICES ASSUME OInv PROVE TablesFitCap
      OBVIOUS
    <2>1. TablesSize \in Int
      <3>1. nSlots["op"] \in Nat /\ nSlots["size"] \in Nat
        BY DEF OInv, Typed, Caches
      <3>2. QED
        BY <3>1 DEF TablesSize, TableBytes, BytesPerSlot
    <2>2. cacheMax = Unlimited \/ cacheMax \in Nat
      BY CacheMaxIs
    <2>3. QED
      BY <2>1, <2>2 DEF OInv, Typed, Granted, TablesFitCap
  <1>2. QED
    BY <1>1, AccountsHold, PTL

-----------------------------------------------------------------------------
(***************************************************************************)
(* Sums over parts of a set, and counting                                  *)
(***************************************************************************)
\* The sum over a part of a set, and what the rest can add to it.
LEMMA SumOfPart ==
  ASSUME NEW T, IsFiniteSet(T), NEW f, \A x \in T : f[x] \in Nat,
         NEW S \in SUBSET T, NEW m \in Nat, \A x \in T \ S : f[x] <= m
  PROVE  /\ SumFunctionOnSet(f, S) \in Nat /\ SumFunctionOnSet(f, T) \in Nat
         /\ SumFunctionOnSet(f, S) <= SumFunctionOnSet(f, T)
         /\ SumFunctionOnSet(f, T) <= SumFunctionOnSet(f, S) + Cardinality(T \ S) * m
  <1> DEFINE Sum(s) == SumFunctionOnSet(f, s)
             Fine(s) == /\ Sum(S) <= Sum(s)
                        /\ Sum(s) <= Sum(S) + Cardinality(s \ S) * m
             Bad == {n \in Nat : \E s \in SUBSET T :
                                   n = Cardinality(s \ S) /\ S \subseteq s /\ ~Fine(s)}
  <1>1. \A s \in SUBSET T : /\ IsFiniteSet(s) /\ Sum(s) \in Nat
                            /\ IsFiniteSet(s \ S) /\ Cardinality(s \ S) \in Nat
    <2>1. ASSUME NEW s \in SUBSET T
          PROVE  /\ IsFiniteSet(s) /\ Sum(s) \in Nat
                 /\ IsFiniteSet(s \ S) /\ Cardinality(s \ S) \in Nat
      <3>1. IsFiniteSet(s)
        BY FS_Subset
      <3>2. \A x \in s : f[x] \in Nat
        OBVIOUS
      <3>3. Sum(s) \in Nat
        BY <3>1, <3>2, SumNatural
      <3>4. IsFiniteSet(s \ S)
        BY <3>1, FS_Difference
      <3>5. QED
        BY <3>1, <3>3, <3>4, FS_CardinalityType
    <2>2. QED
      BY <2>1
  <1>2. ASSUME Bad # {} PROVE FALSE
    <2>1. PICK n \in Bad : \A y \in Bad : n <= y
      <3>1. Bad \in SUBSET Nat
        OBVIOUS
      <3> HIDE DEF Bad
      <3>2. QED
        BY <1>2, <3>1, LeastOf
    <2>2. PICK s \in SUBSET T : n = Cardinality(s \ S) /\ S \subseteq s /\ ~Fine(s)
      BY <2>1
    <2>3. s # S
      <3>1. Cardinality(S \ S) = 0
        <4>1. S \ S = {}
          OBVIOUS
        <4>2. QED
          BY <4>1, FS_EmptySet
      <3>2. Sum(S) \in Nat
        BY <1>1
      <3> HIDE DEF Sum
      <3>3. Fine(S)
        BY <3>1, <3>2
      <3> HIDE DEF Fine
      <3>4. QED
        BY <2>2, <3>3
    <2>4. PICK x \in s : x \notin S
      BY <2>2, <2>3
    <2> DEFINE r == s \ {x}
    <2>5. r \in SUBSET T /\ S \subseteq r /\ r \ S = (s \ S) \ {x}
      BY <2>2, <2>4
    <2>6. Cardinality(r \ S) = Cardinality(s \ S) - 1 /\ Cardinality(r \ S) \in Nat
      <3>1. IsFiniteSet(s \ S) /\ x \in s \ S
        BY <1>1, <2>4
      <3>2. Cardinality((s \ S) \ {x}) = Cardinality(s \ S) - 1
        BY <3>1, FS_RemoveElement
      <3> HIDE DEF r
      <3>3. QED
        BY <1>1, <2>5, <3>2
    <2>7. Sum(s) = f[x] + Sum(r)
      <3>1. \A z \in s : f[z] \in Int
        OBVIOUS
      <3>2. IsFiniteSet(s)
        BY <1>1
      <3>3. QED
        BY <3>1, <3>2, SumSplits
    <2>8. f[x] \in Nat /\ f[x] <= m
      BY <2>4
    <2>9. Sum(S) \in Nat /\ Sum(s) \in Nat /\ Sum(r) \in Nat /\ Cardinality(s \ S) \in Nat
      <3> HIDE DEF r, Sum
      <3>1. QED
        BY <1>1, <2>5
    <2> HIDE DEF Sum, r
    <2>10. Cardinality(r \ S) \notin Bad
      <3>1. n = Cardinality(s \ S)
        BY <2>2
      <3>2. ~(n <= Cardinality(r \ S))
        BY <2>6, <2>9, <3>1
      <3>3. \A y \in Bad : n <= y
        BY <2>1
      <3> HIDE DEF Bad, Fine
      <3>4. QED
        BY <3>2, <3>3
    <2>11. Fine(r)
      <3> HIDE DEF Fine
      <3>1. QED
        BY <2>5, <2>6, <2>10
    <2>12. Cardinality(r \ S) * m + m = Cardinality(s \ S) * m
           /\ Cardinality(r \ S) * m \in Nat
      BY <2>6, <2>9
    <2>13. Fine(s)
      <3> DEFINE p == Cardinality(r \ S) * m
                 q == Cardinality(s \ S) * m
      <3>1. Sum(S) <= Sum(r) /\ Sum(r) <= Sum(S) + p
        BY <2>11
      <3>2. p + m = q /\ p \in Nat
        BY <2>12
      <3>3. Sum(S) <= Sum(s) /\ Sum(s) <= Sum(S) + q
        <4> HIDE DEF p, q
        <4>1. QED
          BY <2>7, <2>8, <2>9, <3>1, <3>2
      <3>4. QED
        BY <3>3
    <2> HIDE DEF Fine
    <2>14. QED
      BY <2>2, <2>13
  <1>3. T \in SUBSET T
    OBVIOUS
  <1>4. Cardinality(T \ S) \in Nat
    BY <1>1, <1>3
  <1> HIDE DEF Fine
  <1>5. Fine(T)
    BY <1>2, <1>3, <1>4
  <1>6. Sum(S) \in Nat /\ Sum(T) \in Nat
    BY <1>1, <1>3
  <1>7. QED
    BY <1>5, <1>6 DEF Fine

\* Fewer slots with the same sizes have a smaller sum.
LEMMA SumLess ==
  ASSUME NEW T, IsFiniteSet(T), NEW f, \A x \in T : f[x] \in Nat,
         NEW S \in SUBSET T, NEW e, \A x \in S : e[x] = f[x]
  PROVE  /\ SumFunctionOnSet(e, S) \in Nat /\ SumFunctionOnSet(f, T) \in Nat
         /\ SumFunctionOnSet(e, S) <= SumFunctionOnSet(f, T)
  <1>1. IsFiniteSet(S)
    BY FS_Subset
  <1>2. SumFunctionOnSet(e, S) = SumFunctionOnSet(f, S)
    BY <1>1, SumAgrees
  <1> DEFINE Bounds == {m \in Nat : \A x \in T \ S : f[x] <= m}
  <1>3. SumFunctionOnSet(f, T) \in Nat
    BY SumNatural
  <1>4. ASSUME NEW x \in T PROVE f[x] <= SumFunctionOnSet(f, T)
    <2>1. \A z \in T : f[z] \in Int
      OBVIOUS
    <2>2. SumFunctionOnSet(f, T) = f[x] + SumFunctionOnSet(f, T \ {x})
      BY <2>1, SumSplits
    <2>3. IsFiniteSet(T \ {x}) /\ \A z \in T \ {x} : f[z] \in Nat
      BY FS_RemoveElement
    <2>4. SumFunctionOnSet(f, T \ {x}) \in Nat
      BY <2>3, SumNatural
    <2>5. QED
      BY <2>2, <2>4
  <1>5. QED
    BY <1>2, <1>3, <1>4, SumOfPart

\* A sum over some of the slots, read off another table that agrees on them.
LEMMA PartLess ==
  ASSUME NEW f, IsTable(f), NEW g, NEW S \in SUBSET DOMAIN f, NEW R \in SUBSET S,
         \A x \in R : g[x] = f[x]
  PROVE  /\ SumFunctionOnSet(g, R) <= SumFunctionOnSet(f, S)
         /\ SumFunctionOnSet(g, R) \in Nat /\ SumFunctionOnSet(f, S) \in Nat
  <1>1. IsFiniteSet(S) /\ \A x \in S : f[x] \in Nat
    BY FS_Subset DEF IsTable
  <1>2. QED
    BY <1>1, SumLess

\* One member more or less.
Counts(x, S) == IF x \in S THEN 1 ELSE 0

LEMMA CountMoves ==
  ASSUME NEW S, IsFiniteSet(S), NEW P \in SUBSET S, NEW R \in SUBSET S, NEW x,
         P \ {x} = R \ {x}
  PROVE  /\ Cardinality(P) \in Nat /\ Cardinality(R) \in Nat
         /\ Cardinality(R) - Counts(x, R) = Cardinality(P) - Counts(x, P)
  <1>1. IsFiniteSet(P) /\ IsFiniteSet(R)
    BY FS_Subset
  <1>2. Cardinality(P) \in Nat /\ Cardinality(R) \in Nat
    BY <1>1, FS_CardinalityType
  <1>3. \A Q \in {P, R} : Cardinality(Q \ {x}) = Cardinality(Q) - Counts(x, Q)
    <2>1. ASSUME NEW Q, Q = P \/ Q = R
          PROVE  Cardinality(Q \ {x}) = Cardinality(Q) - Counts(x, Q)
      <3>1. IsFiniteSet(Q) /\ Cardinality(Q) \in Nat
        BY <1>1, <1>2, <2>1
      <3>2. Cardinality(Q \ {x}) = IF x \in Q THEN Cardinality(Q) - 1 ELSE Cardinality(Q)
        BY <3>1, FS_RemoveElement
      <3>3. QED
        BY <3>1, <3>2 DEF Counts
    <2>2. QED
      BY <2>1
  <1>4. QED
    BY <1>2, <1>3

-----------------------------------------------------------------------------
(***************************************************************************)
(* How much the caches can outgrow cache_max                               *)
(*                                                                         *)
(* Since some moment at which the sizes fitted, entries have been stored   *)
(* that are still there, the young ones.  The age of a young entry is the  *)
(* number of stores since, its own included, so that no two ages agree and *)
(* there are no more young entries than the greatest age.  The invariant   *)
(* bounds an age by what the threads are doing: a thread owes an entry a   *)
(* store when it will store without taking one more turn, and it holds the *)
(* entry when it has taken the turn that drops it and has not come to its  *)
(* slot.  The halves are taken in turn, so that between two turns that     *)
(* would drop an entry there is only one that would not.  The ages are     *)
(* nowhere in the code: the invariant says that there are such numbers.    *)
(***************************************************************************)
Ages   == [Caches -> [Nat -> Nat]]
Stamps == [Threads -> Nat]

IsOdd(i) == i % 2 = 1

\* What a thread does, k, and an entry at slot i of c of age m; n is the
\* number of stores since the thread has started its access.
Holds(k, c, i) ==
  \/ k.pc = "turn" /\ k.half = c /\ k.odd = IsOdd(i)
  \/ k.pc = "wipe" /\ k.half = c /\ i \in k.todo

Before(k, c) ==
  \/ k.pc \in {"check", "halve_op"}
  \/ c = "size" /\ (k.pc = "halve_size" \/ (k.pc \in {"turn", "wipe"} /\ k.half = "op"))

After(k, c) ==
  \/ k.pc = "use"
  \/ k.pc \in {"turn", "wipe"} /\ (c = "op" \/ k.half = "size")
  \/ c = "op" /\ k.pc = "halve_size"

Owes(k, n, c, i, m) == ~Holds(k, c, i) /\ (After(k, c) \/ (Before(k, c) /\ n >= m))

Holders(k, c, i) == {t \in Threads : Holds(k[t], c, i)}
Owing(k, s, c, i, m) == {t \in Threads : Owes(k[t], s[t], c, i, m)}

\* The next turn drops the entry.
Due(w, c, i) == IF w[c] = IsOdd(i) THEN 1 ELSE 0

Balanced(k, w, s, c, i, m) ==
  /\ m + Cardinality(Owing(k, s, c, i, m))
       <= Cardinality(Threads) + Cardinality(Holders(k, c, i)) + Due(w, c, i)
  /\ Due(w, c, i) = 1 => \E t \in Threads : ~Holds(k[t], c, i)

\* The bytes of the old entries of a table; of those and of the young ones
\* that were there n stores ago.
OldBytes(f, a) == SumFunctionOnSet(f, {i \in DOMAIN f : a[i] = 0})
BytesSince(f, a, n) == SumFunctionOnSet(f, {i \in DOMAIN f : a[i] = 0 \/ a[i] > n})

Traced(a, s) ==
  /\ \A c, d \in Caches : \A i \in DOMAIN slots[c], j \in DOMAIN slots[d] :
       a[c][i] > 0 /\ a[c][i] = a[d][j] => c = d /\ i = j
  /\ TablesSize + OldBytes(slots["op"], a["op"]) + OldBytes(slots["size"], a["size"])
       <= cacheMax
  /\ \A c \in Caches : \A i \in DOMAIN slots[c] :
       a[c][i] > 0 => Balanced(call, wipeOdd, s, c, i, a[c][i])
  /\ \A t \in Threads :
       /\ call[t].pc = "check"
       /\ \E c \in Caches : \E i \in DOMAIN slots[c] : a[c][i] > s[t]
       => call[t].seen >= TableBytes(nSlots["op"])
                          + BytesSince(slots["op"], a["op"], s[t])

Absorbing == settled /\ cacheMax # Unlimited /\ ~panicked

SInv == Absorbing => \E a \in Ages, s \in Stamps : Traced(a, s)

\* How a thread weighs on the balance of an entry.
Weight(k, n, c, i, m) ==
  IF Holds(k, c, i) THEN -1 ELSE IF Owes(k, n, c, i, m) THEN 1 ELSE 0

LEMMA DueIs ==
  ASSUME NEW w, NEW c, NEW i
  PROVE  Due(w, c, i) \in {0, 1}
  BY DEF Due

\* A step of one thread that does not weigh more on an entry, but for the
\* age and the turn, keeps its balance.
LEMMA Rebalances ==
  ASSUME NEW k, NEW l, NEW t \in Threads, \A u \in Threads \ {t} : l[u] = k[u],
         NEW r \in Stamps, NEW s \in Stamps, NEW m \in Nat, NEW n \in Nat,
         \A u \in Threads \ {t} : (s[u] >= n) <=> (r[u] >= m),
         NEW v, NEW w, NEW c, NEW i, Balanced(k, v, r, c, i, m),
         n + Weight(l[t], s[t], c, i, n) - Due(w, c, i)
           <= m + Weight(k[t], r[t], c, i, m) - Due(v, c, i),
         Due(w, c, i) = 1 => ~Holds(l[t], c, i) \/ (Due(v, c, i) = 1 /\ Holds(k[t], c, i))
  PROVE  Balanced(l, w, s, c, i, n)
  <1> DEFINE P == Owing(k, r, c, i, m)
             Q == Owing(l, s, c, i, n)
             G == Holders(k, c, i)
             H == Holders(l, c, i)
  <1>1. P \in SUBSET Threads /\ Q \in SUBSET Threads /\ G \in SUBSET Threads
        /\ H \in SUBSET Threads
    BY DEF Owing, Holders
  <1>2. P \ {t} = Q \ {t}
    BY DEF Owing, Owes
  <1>3. G \ {t} = H \ {t}
    BY DEF Holders
  <1>4. /\ Weight(k[t], r[t], c, i, m) = Counts(t, P) - Counts(t, G)
        /\ Weight(l[t], s[t], c, i, n) = Counts(t, Q) - Counts(t, H)
    BY DEF Weight, Counts, Owing, Holders, Owes
  <1>5. \A S : Counts(t, S) \in {0, 1}
    BY DEF Counts
  <1>6. IsFiniteSet(Threads) /\ Cardinality(Threads) \in Nat
    BY OpCacheAssumption, FS_CardinalityType
  <1>7. m + Cardinality(P) <= Cardinality(Threads) + Cardinality(G) + Due(v, c, i)
    BY DEF Balanced
  <1> HIDE DEF P, Q, G, H
  <1>8. /\ Cardinality(P) \in Nat /\ Cardinality(Q) \in Nat
        /\ Cardinality(Q) - Counts(t, Q) = Cardinality(P) - Counts(t, P)
    BY <1>1, <1>2, <1>6, CountMoves
  <1>9. /\ Cardinality(G) \in Nat /\ Cardinality(H) \in Nat
        /\ Cardinality(H) - Counts(t, H) = Cardinality(G) - Counts(t, G)
    BY <1>1, <1>3, <1>6, CountMoves
  <1>10. Due(v, c, i) \in {0, 1} /\ Due(w, c, i) \in {0, 1}
    BY DueIs
  <1>11. n + Cardinality(Q) <= Cardinality(Threads) + Cardinality(H) + Due(w, c, i)
    <2>1. n + (Counts(t, Q) - Counts(t, H)) - Due(w, c, i)
            <= m + (Counts(t, P) - Counts(t, G)) - Due(v, c, i)
      BY <1>4
    <2> DEFINE cp == Counts(t, P)
               cq == Counts(t, Q)
               cg == Counts(t, G)
               ch == Counts(t, H)
               dv == Due(v, c, i)
               dw == Due(w, c, i)
               kp == Cardinality(P)
               kq == Cardinality(Q)
               kg == Cardinality(G)
               kh == Cardinality(H)
               kt == Cardinality(Threads)
    <2>2. /\ cp \in Int /\ cq \in Int /\ cg \in Int /\ ch \in Int /\ dv \in Int /\ dw \in Int
          /\ kp \in Int /\ kq \in Int /\ kg \in Int /\ kh \in Int /\ kt \in Int
      BY <1>5, <1>6, <1>8, <1>9, <1>10
    <2>3. /\ n + (cq - ch) - dw <= m + (cp - cg) - dv
          /\ m + kp <= kt + kg + dv
          /\ kq - cq = kp - cp
          /\ kh - ch = kg - cg
      BY <1>7, <1>8, <1>9, <2>1
    <2> HIDE DEF cp, cq, cg, ch, dv, dw, kp, kq, kg, kh, kt
    <2>4. n + kq <= kt + kh + dw
      BY <2>2, <2>3
    <2>5. QED
      BY <2>4 DEF kq, kt, kh, dw
  <1>12. ASSUME Due(w, c, i) = 1 PROVE \E u \in Threads : ~Holds(l[u], c, i)
    <2>1. CASE ~Holds(l[t], c, i)
      BY <2>1
    <2>2. CASE Due(v, c, i) = 1 /\ Holds(k[t], c, i)
      <3>1. PICK u \in Threads : ~Holds(k[u], c, i)
        BY <2>2 DEF Balanced
      <3>2. l[u] = k[u]
        BY <2>2, <3>1
      <3>3. QED
        BY <3>1, <3>2
    <2>3. QED
      BY <1>12, <2>1, <2>2
  <1>13. QED
    BY <1>11, <1>12 DEF Balanced, Q, H

-----------------------------------------------------------------------------
(***************************************************************************)
(* A step that stores nothing keeps the ages                               *)
(***************************************************************************)
LEMMA SlotNumber ==
  ASSUME OInv, NEW c \in Caches, NEW i \in DOMAIN slots[c]
  PROVE  i \in Nat /\ i \in SlotsOf(c)
  <1>1. DOMAIN slots[c] \subseteq SlotsOf(c) /\ nSlots[c] \in Nat \ {0} /\ Hashes[c] \subseteq Nat
    BY OpCacheAssumption DEF OInv, SizeExact, Typed
  <1>2. QED
    BY <1>1 DEF SlotsOf

\* A table's sums over fewer slots.
LEMMA BytesLess ==
  ASSUME NEW f, IsTable(f), NEW g, DOMAIN g \subseteq DOMAIN f,
         \A i \in DOMAIN g : g[i] = f[i], NEW a, NEW b
  PROVE  /\ (\A i \in DOMAIN g : b[i] = 0 => a[i] = 0)
              => /\ OldBytes(g, b) <= OldBytes(f, a)
                 /\ OldBytes(g, b) \in Nat /\ OldBytes(f, a) \in Nat
         /\ \A m, n : (\A i \in DOMAIN g : b[i] = 0 \/ b[i] > n => a[i] = 0 \/ a[i] > m)
              => /\ BytesSince(g, b, n) <= BytesSince(f, a, m)
                 /\ BytesSince(g, b, n) \in Nat /\ BytesSince(f, a, m) \in Nat
  <1>1. ASSUME NEW S \in SUBSET DOMAIN f, NEW R \in SUBSET S, R \subseteq DOMAIN g
        PROVE  /\ SumFunctionOnSet(g, R) <= SumFunctionOnSet(f, S)
               /\ SumFunctionOnSet(g, R) \in Nat /\ SumFunctionOnSet(f, S) \in Nat
    <2>1. \A x \in R : g[x] = f[x]
      BY <1>1
    <2>2. QED
      BY <2>1, PartLess
  <1>2. ASSUME \A i \in DOMAIN g : b[i] = 0 => a[i] = 0
        PROVE  /\ OldBytes(g, b) <= OldBytes(f, a)
               /\ OldBytes(g, b) \in Nat /\ OldBytes(f, a) \in Nat
    <2> DEFINE S == {i \in DOMAIN f : a[i] = 0}
               R == {i \in DOMAIN g : b[i] = 0}
    <2>1. S \in SUBSET DOMAIN f /\ R \in SUBSET S /\ R \subseteq DOMAIN g
      BY <1>2
    <2> HIDE DEF S, R
    <2>2. /\ SumFunctionOnSet(g, R) <= SumFunctionOnSet(f, S)
          /\ SumFunctionOnSet(g, R) \in Nat /\ SumFunctionOnSet(f, S) \in Nat
      BY <1>1, <2>1
    <2>3. QED
      BY <2>2 DEF OldBytes, S, R
  <1>3. ASSUME NEW m, NEW n,
               \A i \in DOMAIN g : b[i] = 0 \/ b[i] > n => a[i] = 0 \/ a[i] > m
        PROVE  /\ BytesSince(g, b, n) <= BytesSince(f, a, m)
               /\ BytesSince(g, b, n) \in Nat /\ BytesSince(f, a, m) \in Nat
    <2> DEFINE S == {i \in DOMAIN f : a[i] = 0 \/ a[i] > m}
               R == {i \in DOMAIN g : b[i] = 0 \/ b[i] > n}
    <2>1. S \in SUBSET DOMAIN f /\ R \in SUBSET S /\ R \subseteq DOMAIN g
      BY <1>3
    <2> HIDE DEF S, R
    <2>2. /\ SumFunctionOnSet(g, R) <= SumFunctionOnSet(f, S)
          /\ SumFunctionOnSet(g, R) \in Nat /\ SumFunctionOnSet(f, S) \in Nat
      BY <1>1, <2>1
    <2>3. QED
      BY <2>2 DEF BytesSince, S, R
  <1>4. QED
    BY <1>2, <1>3

\* What Traced says of a moment, when entries are only dropped and stay as
\* young as they were.
Thins(b, a) ==
  /\ UNCHANGED <<cacheMax, nSlots>>
  /\ \A c \in Caches : DOMAIN slots'[c] \subseteq DOMAIN slots[c]
  /\ \A c \in Caches : \A i \in DOMAIN slots'[c] :
       slots'[c][i] = slots[c][i] /\ b[c][i] \in {0, a[c][i]}

\* A step of t that weighs no more on the entries that stay.
Bears(t, b, a, r, s) ==
  \A c \in Caches : \A i \in DOMAIN slots'[c] : b[c][i] > 0 =>
    /\ Weight(call'[t], s[t], c, i, b[c][i]) - Due(wipeOdd', c, i)
         <= Weight(call[t], r[t], c, i, b[c][i]) - Due(wipeOdd, c, i)
    /\ Due(wipeOdd', c, i) = 1 =>
         ~Holds(call'[t], c, i) \/ (Due(wipeOdd, c, i) = 1 /\ Holds(call[t], c, i))

LEMMA BearsBalance ==
  ASSUME OInv, OInv', NEW a \in Ages, NEW b \in Ages, NEW r \in Stamps, NEW s \in Stamps,
         Traced(a, r), Thins(b, a), NEW t \in Threads,
         \A u \in Threads \ {t} : call'[u] = call[u] /\ s[u] = r[u],
         Bears(t, b, a, r, s)
  PROVE  \A c \in Caches : \A i \in DOMAIN slots'[c] :
           b[c][i] > 0 => Balanced(call', wipeOdd', s, c, i, b[c][i])
  <1> SUFFICES ASSUME NEW c \in Caches, NEW i \in DOMAIN slots'[c], b[c][i] > 0
               PROVE  Balanced(call', wipeOdd', s, c, i, b[c][i])
    OBVIOUS
  <1> DEFINE m == b[c][i]
  <1>1. i \in DOMAIN slots[c] /\ i \in Nat /\ m = a[c][i] /\ m \in Nat /\ m > 0
    <2>1. i \in DOMAIN slots[c] /\ m \in {0, a[c][i]}
      BY DEF Thins
    <2>2. i \in Nat
      BY <2>1, SlotNumber
    <2>3. m \in Nat
      BY <2>2 DEF Ages
    <2>4. QED
      BY <2>1, <2>2, <2>3
  <1> HIDE DEF m
  <1>2. Balanced(call, wipeOdd, r, c, i, m)
    BY <1>1 DEF Traced
  <1>3. /\ Weight(call'[t], s[t], c, i, m) - Due(wipeOdd', c, i)
             <= Weight(call[t], r[t], c, i, m) - Due(wipeOdd, c, i)
        /\ Due(wipeOdd', c, i) = 1 =>
             ~Holds(call'[t], c, i) \/ (Due(wipeOdd, c, i) = 1 /\ Holds(call[t], c, i))
    BY DEF Bears, m
  <1>4. \A u \in Threads \ {t} : (s[u] >= m) <=> (r[u] >= m)
    OBVIOUS
  <1>5. m + Weight(call'[t], s[t], c, i, m) - Due(wipeOdd', c, i)
          <= m + Weight(call[t], r[t], c, i, m) - Due(wipeOdd, c, i)
    <2> DEFINE x == Weight(call'[t], s[t], c, i, m)
               y == Weight(call[t], r[t], c, i, m)
               v == Due(wipeOdd', c, i)
               w == Due(wipeOdd, c, i)
    <2>1. x \in Int /\ y \in Int /\ v \in Int /\ w \in Int
      BY DEF Weight, Due
    <2>2. x - v <= y - w
      BY <1>3
    <2> HIDE DEF x, y, v, w
    <2>3. m + x - v <= m + y - w
      BY <1>1, <2>1, <2>2
    <2>4. QED
      BY <2>3 DEF x, y, v, w
  <1>6. Balanced(call', wipeOdd', s, c, i, m)
    BY <1>1, <1>2, <1>3, <1>4, <1>5, Rebalances
  <1>7. QED
    BY <1>6 DEF m

\* The conjuncts of Traced that a step of t leaves as they were.
LEMMA Carries ==
  ASSUME OInv, OInv', NEW a \in Ages, NEW r \in Stamps, NEW s \in Stamps,
         Traced(a, r), Thins(a, a), NEW t \in Threads,
         \A u \in Threads \ {t} : call'[u] = call[u] /\ s[u] = r[u],
         Bears(t, a, a, r, s),
         call'[t].pc = "check" => call'[t].seen >= size["op"]
  PROVE  Traced(a, s)'
  <1>1. \A c \in Caches : IsTable(slots[c]) /\ DOMAIN slots'[c] \subseteq DOMAIN slots[c]
                          /\ \A i \in DOMAIN slots'[c] : slots'[c][i] = slots[c][i]
    BY DEF OInv, Typed, Thins
  <1>2. "op" \in Caches /\ "size" \in Caches
    BY DEF Caches
  <1>3. \A c, d \in Caches : \A i \in DOMAIN slots'[c], j \in DOMAIN slots'[d] :
          a[c][i] > 0 /\ a[c][i] = a[d][j] => c = d /\ i = j
    BY <1>1 DEF Traced
  <1>4. TablesSize' + OldBytes(slots'["op"], a["op"]) + OldBytes(slots'["size"], a["size"])
          <= cacheMax'
    <2>1. \A c \in Caches : /\ OldBytes(slots'[c], a[c]) <= OldBytes(slots[c], a[c])
                            /\ OldBytes(slots'[c], a[c]) \in Nat /\ OldBytes(slots[c], a[c]) \in Nat
      BY <1>1, BytesLess
    <2>2. TablesSize' = TablesSize /\ cacheMax' = cacheMax
      BY DEF Thins, TablesSize
    <2>3. TablesSize \in Nat /\ cacheMax \in Int
      <3>1. nSlots["op"] \in Nat /\ nSlots["size"] \in Nat
        BY <1>2 DEF OInv, Typed
      <3>2. QED
        BY <3>1, CacheMaxIs DEF TablesSize, TableBytes, BytesPerSlot, Unlimited
    <2>4. TablesSize + OldBytes(slots["op"], a["op"]) + OldBytes(slots["size"], a["size"])
            <= cacheMax
      BY DEF Traced
    <2>5. QED
      BY <1>2, <2>1, <2>2, <2>3, <2>4
  <1>5. \A c \in Caches : \A i \in DOMAIN slots'[c] :
          a[c][i] > 0 => Balanced(call', wipeOdd', s, c, i, a[c][i])
    BY BearsBalance
  <1>6. ASSUME NEW u \in Threads, call'[u].pc = "check",
               NEW d \in Caches, NEW j \in DOMAIN slots'[d], a[d][j] > s[u]
        PROVE  call'[u].seen >= TableBytes(nSlots'["op"])
                                + BytesSince(slots'["op"], a["op"], s[u])
    <2>1. TableBytes(nSlots'["op"]) = TableBytes(nSlots["op"]) /\ TableBytes(nSlots["op"]) \in Nat
      BY <1>2 DEF Thins, TableBytes, BytesPerSlot, OInv, Typed
    <2>2. \A n : /\ BytesSince(slots'["op"], a["op"], n) <= BytesSince(slots["op"], a["op"], n)
                 /\ BytesSince(slots'["op"], a["op"], n) \in Nat
                 /\ BytesSince(slots["op"], a["op"], n) \in Nat
      BY <1>1, <1>2, BytesLess
    <2>3. call'[u].seen \in Int
      <3>1. call'[u] \in Calls
        BY DEF OInv, Typed
      <3>2. QED
        BY <1>6, <3>1 DEF Calls
    <2>4. CASE u # t
      <3>1. call'[u] = call[u] /\ s[u] = r[u] /\ j \in DOMAIN slots[d]
        BY <1>1, <2>4
      <3>2. call[u].seen >= TableBytes(nSlots["op"]) + BytesSince(slots["op"], a["op"], r[u])
        BY <1>6, <3>1 DEF Traced
      <3>3. QED
        BY <2>1, <2>2, <2>3, <3>1, <3>2
    <2>5. CASE u = t
      <3>1. /\ size["op"] = TableBytes(nSlots["op"]) + SumFunction(slots["op"]) + FreedOf("op")
            /\ SumFunction(slots["op"]) \in Nat /\ size["op"] \in Int
        BY <1>2, SlotSizes
      <3>2. FreedOf("op") \in Nat
        <4>1. call \in [Threads -> Calls]
          BY DEF OInv, Typed
        <4>2. FreedOf("op") = SumFunction(Dropping(call, "op")) /\ IsTable(Dropping(call, "op"))
          BY <4>1, FreedIs, DroppingCounted
        <4>3. QED
          BY <4>2, SumDropped
      <3>3. BytesSince(slots["op"], a["op"], s[u]) <= SumFunction(slots["op"])
        <4> DEFINE S == {i \in DOMAIN slots["op"] : a["op"][i] = 0 \/ a["op"][i] > s[u]}
        <4>1. S \in SUBSET DOMAIN slots["op"] /\ IsFiniteSet(DOMAIN slots["op"])
              /\ \A x \in DOMAIN slots["op"] : slots["op"][x] \in Nat
          BY <1>1, <1>2 DEF IsTable
        <4>2. SumFunctionOnSet(slots["op"], S) <= SumFunctionOnSet(slots["op"], DOMAIN slots["op"])
          <5> HIDE DEF S
          <5>1. \A x \in S : slots["op"][x] = slots["op"][x]
            OBVIOUS
          <5>2. QED
            BY <4>1, <5>1, SumLess
        <4>3. QED
          BY <4>2 DEF BytesSince, SumFunction
      <3>4. call'[u].seen >= size["op"]
        BY <1>6, <2>5
      <3>5. QED
        BY <2>1, <2>2, <2>3, <3>1, <3>2, <3>3, <3>4
    <2>6. QED
      BY <2>4, <2>5
  <1>7. QED
    BY <1>3, <1>4, <1>5, <1>6 DEF Traced

\* What a step of t makes of its own stamp: it starts to count at a check.
Stamped(s, t, d) == IF d.pc = "check" THEN [s EXCEPT ![t] = 0] ELSE s

\* The step takes t to d, stores nothing, and weighs no more on any entry
\* that stays.
Lightens(t, d) ==
  \A c \in Caches : \A i \in DOMAIN slots'[c] : \A m \in Nat \ {0} : \A n \in Nat :
    /\ Weight(d, IF d.pc = "check" THEN 0 ELSE n, c, i, m) - Due(wipeOdd', c, i)
         <= Weight(call[t], n, c, i, m) - Due(wipeOdd, c, i)
    /\ Due(wipeOdd', c, i) = 1 =>
         ~Holds(d, c, i) \/ (Due(wipeOdd, c, i) = 1 /\ Holds(call[t], c, i))

LEMMA SameAges ==
  ASSUME OInv, OInv', SInv, Absorbing' => Absorbing,
         NEW t \in Threads, NEW d, Goes(t, d), UNCHANGED <<cacheMax, nSlots>>,
         \A c \in Caches : DOMAIN slots'[c] \subseteq DOMAIN slots[c],
         \A c \in Caches : \A i \in DOMAIN slots'[c] : slots'[c][i] = slots[c][i],
         d.pc = "check" => d.seen >= size["op"], Lightens(t, d)
  PROVE  SInv'
  <1> SUFFICES ASSUME Absorbing' PROVE (\E a \in Ages, s \in Stamps : Traced(a, s))'
    BY DEF SInv
  <1>1. PICK a \in Ages, r \in Stamps : Traced(a, r)
    BY DEF SInv
  <1> DEFINE s == Stamped(r, t, d)
  <1>2. s \in Stamps /\ \A u \in Threads \ {t} : s[u] = r[u]
    BY DEF Stamps, Stamped
  <1>3. s[t] = IF d.pc = "check" THEN 0 ELSE r[t]
    BY DEF Stamps, Stamped
  <1>4. call'[t] = d /\ \A u \in Threads \ {t} : call'[u] = call[u]
    BY DEF Goes, OInv, Typed
  <1>5. Thins(a, a)
    BY DEF Thins
  <1> HIDE DEF s
  <1>6. Bears(t, a, a, r, s)
    <2> SUFFICES ASSUME NEW c \in Caches, NEW i \in DOMAIN slots'[c], a[c][i] > 0
                 PROVE  /\ Weight(call'[t], s[t], c, i, a[c][i]) - Due(wipeOdd', c, i)
                             <= Weight(call[t], r[t], c, i, a[c][i]) - Due(wipeOdd, c, i)
                        /\ Due(wipeOdd', c, i) = 1 => ~Holds(call'[t], c, i)
                                \/ (Due(wipeOdd, c, i) = 1 /\ Holds(call[t], c, i))
      BY DEF Bears
    <2>1. i \in Nat
      <3>1. i \in DOMAIN slots[c]
        OBVIOUS
      <3>2. QED
        BY <3>1, SlotNumber
    <2>2. a[c][i] \in Nat \ {0} /\ r[t] \in Nat
      BY <2>1 DEF Ages, Stamps
    <2>3. QED
      BY <1>3, <1>4, <2>2 DEF Lightens
  <1>7. Traced(a, s)'
    BY <1>1, <1>2, <1>4, <1>5, <1>6, Carries
  <1>8. QED
    BY <1>2, <1>7

LEMMA Weights ==
  ASSUME NEW k, NEW n, NEW c, NEW i, NEW m
  PROVE  /\ Holds(k, c, i) => Weight(k, n, c, i, m) = -1
         /\ ~Holds(k, c, i) /\ After(k, c) => Weight(k, n, c, i, m) = 1
         /\ ~Holds(k, c, i) /\ ~After(k, c) /\ Before(k, c) =>
              Weight(k, n, c, i, m) = IF n >= m THEN 1 ELSE 0
         /\ ~Holds(k, c, i) /\ ~After(k, c) /\ ~Before(k, c) => Weight(k, n, c, i, m) = 0
         /\ Weight(k, n, c, i, m) \in {-1, 0, 1}
  BY DEF Weight, Owes

\* The turns are the same, and t stands as it did to every entry, or no
\* longer owes it anything.
LEMMA SameStanding ==
  ASSUME NEW t, NEW d, wipeOdd' = wipeOdd,
         \A c \in Caches : \A i \in DOMAIN slots'[c] :
           /\ Holds(d, c, i) <=> Holds(call[t], c, i)
           /\ \/ /\ d.pc # "check"
                 /\ After(d, c) <=> After(call[t], c)
                 /\ Before(d, c) <=> Before(call[t], c)
              \/ ~After(d, c) /\ (Before(d, c) => d.pc = "check")
  PROVE  Lightens(t, d)
  <1> SUFFICES ASSUME NEW c \in Caches, NEW i \in DOMAIN slots'[c],
                      NEW m \in Nat \ {0}, NEW n \in Nat
               PROVE  /\ Weight(d, IF d.pc = "check" THEN 0 ELSE n, c, i, m)
                           - Due(wipeOdd', c, i)
                           <= Weight(call[t], n, c, i, m) - Due(wipeOdd, c, i)
                      /\ Due(wipeOdd', c, i) = 1 => ~Holds(d, c, i)
                              \/ (Due(wipeOdd, c, i) = 1 /\ Holds(call[t], c, i))
    BY DEF Lightens
  <1> DEFINE p == IF d.pc = "check" THEN 0 ELSE n
  <1>1. Holds(d, c, i) <=> Holds(call[t], c, i)
    OBVIOUS
  <1>2. p \in Nat
    OBVIOUS
  <1>3. ASSUME d.pc # "check", After(d, c) <=> After(call[t], c),
               Before(d, c) <=> Before(call[t], c)
        PROVE  Weight(d, p, c, i, m) <= Weight(call[t], n, c, i, m)
    <2>1. p = n
      BY <1>3
    <2>2. Weight(d, n, c, i, m) = Weight(call[t], n, c, i, m)
      BY <1>1, <1>3 DEF Weight, Owes
    <2>3. Weight(call[t], n, c, i, m) \in {-1, 0, 1}
      BY Weights
    <2>4. QED
      BY <2>1, <2>2, <2>3
  <1>4. ASSUME ~After(d, c), Before(d, c) => d.pc = "check"
        PROVE  Weight(d, p, c, i, m) <= Weight(call[t], n, c, i, m)
    <2>1. ~Owes(d, p, c, i, m)
      BY <1>4 DEF Owes
    <2>2. Weight(d, p, c, i, m) = IF Holds(d, c, i) THEN -1 ELSE 0
      BY <2>1 DEF Weight
    <2>3. Weight(call[t], n, c, i, m) \in (IF Holds(d, c, i) THEN {-1} ELSE {0, 1})
      BY <1>1 DEF Weight
    <2>4. QED
      BY <2>2, <2>3
  <1>5. Weight(d, p, c, i, m) <= Weight(call[t], n, c, i, m)
    <2> HIDE DEF p
    <2>1. QED
      BY <1>3, <1>4
  <1>6. Due(wipeOdd', c, i) = Due(wipeOdd, c, i)
    OBVIOUS
  <1>7. Due(wipeOdd, c, i) \in {0, 1}
    BY DueIs
  <1>8. Weight(d, p, c, i, m) \in {-1, 0, 1} /\ Weight(call[t], n, c, i, m) \in {-1, 0, 1}
    BY Weights
  <1>9. QED
    BY <1>1, <1>5, <1>6, <1>7, <1>8

LEMMA QuietTraces ==
  ASSUME OInv, OInv', SInv, NEW t \in Threads, NEW d, Goes(t, d),
         UNCHANGED <<cacheMax, nSlots, slots, panicked, settled>>,
         d.pc = "check" => d.seen >= size["op"], Lightens(t, d)
  PROVE  SInv'
  <1>1. Absorbing' => Absorbing
    BY DEF Absorbing
  <1>2. \A c \in Caches : DOMAIN slots'[c] \subseteq DOMAIN slots[c]
    OBVIOUS
  <1>3. \A c \in Caches : \A i \in DOMAIN slots'[c] : slots'[c][i] = slots[c][i]
    OBVIOUS
  <1>4. UNCHANGED <<cacheMax, nSlots>>
    OBVIOUS
  <1>5. QED
    BY <1>1, <1>2, <1>3, <1>4, SameAges

LEMMA NoSteps ==
  ASSUME NEW k, k.pc \in {"idle", "resize_op", "resize_size"}, NEW c, NEW i
  PROVE  ~Holds(k, c, i) /\ ~After(k, c) /\ ~Before(k, c)
  BY DEF Holds, After, Before

LEMMA AccessTraces ==
  ASSUME OInv, OInv', SInv, NEW t \in Threads, Access(t)
  PROVE  SInv'
  <1> DEFINE d == IF cacheMax = Unlimited THEN Step("use")
                  ELSE [pc |-> "check", seen |-> size["op"]]
  <1>1. CASE cacheMax = Unlimited
    <2>1. cacheMax' = Unlimited
      BY <1>1 DEF Access
    <2>2. QED
      BY <2>1 DEF SInv, Absorbing
  <1>2. CASE cacheMax # Unlimited
    <2>1. d = [pc |-> "check", seen |-> size["op"]] /\ size["op"] \in Int
      BY <1>2 DEF OInv, Typed, Caches
    <2>2. Goes(t, d) /\ UNCHANGED <<cacheMax, nSlots, slots, panicked, settled, wipeOdd>>
      BY DEF Access, tables, history
    <2>3. call[t].pc = "idle"
      BY IdleCall DEF Access
    <2> HIDE DEF d
    <2>4. d.pc = "check" /\ d.seen >= size["op"]
      BY <2>1
    <2>5. ASSUME NEW c \in Caches, NEW i \in DOMAIN slots'[c]
          PROVE  ~Holds(d, c, i) /\ ~Holds(call[t], c, i) /\ ~After(d, c)
      BY <2>3, <2>4 DEF Holds, After
    <2>6. Lightens(t, d)
      BY <2>2, <2>4, <2>5, SameStanding
    <2>7. QED
      BY <2>2, <2>4, <2>6, QuietTraces
  <1>3. QED
    BY <1>1, <1>2

\* A check that sends its thread to halve the tables.
LEMMA CheckHalves ==
  ASSUME OInv, OInv', SInv, NEW t \in Threads, Check(t),
         call[t].seen + size["size"] > cacheMax
  PROVE  SInv'
  <1> DEFINE d == Step("halve_op")
  <1>1. Goes(t, d) /\ UNCHANGED <<cacheMax, nSlots, slots, panicked, settled, wipeOdd>>
    BY DEF Check, tables, history
  <1>2. call[t].pc = "check" /\ d.pc = "halve_op"
    BY DEF Check, At, Step
  <1> HIDE DEF d
  <1>3. ASSUME NEW c \in Caches, NEW i \in DOMAIN slots'[c]
        PROVE  /\ ~Holds(d, c, i) /\ ~Holds(call[t], c, i)
               /\ ~After(d, c) /\ ~After(call[t], c)
               /\ Before(d, c) /\ Before(call[t], c)
    BY <1>2 DEF Holds, After, Before
  <1>4. Lightens(t, d)
    BY <1>1, <1>2, <1>3, SameStanding
  <1>5. QED
    BY <1>1, <1>2, <1>4, QuietTraces

\* A turn is taken: either it drops the entry and the next one does not, or
\* the next one does and t will store.
LEMMA HalveTraces ==
  ASSUME OInv, OInv', SInv, NEW t \in Threads, NEW b \in Caches, Halve(t, b)
  PROVE  SInv'
  <1> DEFINE d == Turn(b, wipeOdd[b])
  <1>1. Goes(t, d) /\ UNCHANGED <<cacheMax, nSlots, slots, panicked, settled>>
    BY DEF Halve, tables, history
  <1>2. call[t].pc = HalveOf(b) /\ d.pc = "turn" /\ d.half = b /\ d.odd = wipeOdd[b]
    BY DEF Halve, At, Turn
  <1>3. /\ wipeOdd[b] \in BOOLEAN
        /\ wipeOdd'[b] = ~wipeOdd[b] /\ \A c \in Caches \ {b} : wipeOdd'[c] = wipeOdd[c]
    BY DEF Halve, OInv, Typed
  <1> HIDE DEF d
  <1>4. ASSUME NEW c \in Caches, NEW i \in DOMAIN slots'[c], NEW m \in Nat \ {0}, NEW n \in Nat
        PROVE  /\ Weight(d, n, c, i, m) - Due(wipeOdd', c, i)
                    <= Weight(call[t], n, c, i, m) - Due(wipeOdd, c, i)
               /\ Due(wipeOdd', c, i) = 1 =>
                    ~Holds(d, c, i) \/ (Due(wipeOdd, c, i) = 1 /\ Holds(call[t], c, i))
    <2>1. ~Holds(call[t], c, i)
      BY <1>2 DEF Holds, HalveOf
    <2>2. Weight(call[t], n, c, i, m) \in {0, 1} /\ Weight(d, n, c, i, m) \in {-1, 0, 1}
      BY <2>1 DEF Weight
    <2>3. Due(wipeOdd, c, i) \in {0, 1} /\ Due(wipeOdd', c, i) \in {0, 1}
      BY DueIs
    <2>4. CASE c # b
      <3>1. Due(wipeOdd', c, i) = Due(wipeOdd, c, i)
        BY <1>3, <2>4 DEF Due
      <3>2. ~Holds(d, c, i)
        BY <1>2, <2>4 DEF Holds
      <3>3. (After(d, c) <=> After(call[t], c)) /\ (Before(d, c) <=> Before(call[t], c))
        BY <1>2, <2>4 DEF After, Before, HalveOf, Caches
      <3>4. Weight(d, n, c, i, m) = Weight(call[t], n, c, i, m)
        BY <2>1, <3>2, <3>3 DEF Weight, Owes
      <3>5. QED
        BY <2>2, <2>3, <3>1, <3>2, <3>4
    <2>5. CASE c = b /\ wipeOdd[b] = IsOdd(i)
      <3>1. Due(wipeOdd, c, i) = 1 /\ Due(wipeOdd', c, i) = 0
        BY <1>3, <2>5 DEF Due, IsOdd
      <3>2. Weight(d, n, c, i, m) = -1
        BY <1>2, <2>5 DEF Weight, Holds
      <3>3. QED
        BY <2>2, <3>1, <3>2
    <2>6. CASE c = b /\ wipeOdd[b] # IsOdd(i)
      <3>1. Due(wipeOdd, c, i) = 0
        BY <2>6 DEF Due
      <3>2. ~Holds(d, c, i)
        BY <1>2, <2>6 DEF Holds
      <3>3. Due(wipeOdd', c, i) = 1
        BY <1>3, <2>6 DEF Due, IsOdd
      <3>4. QED
        BY <2>2, <3>1, <3>2, <3>3
    <2>7. QED
      BY <2>4, <2>5, <2>6
  <1>5. Lightens(t, d)
    BY <1>2, <1>4 DEF Lightens
  <1>6. QED
    BY <1>1, <1>2, <1>5, QuietTraces

\* The slots to go are those of the turn.
LEMMA ReadTableTraces ==
  ASSUME OInv, OInv', SInv, NEW t \in Threads, NEW b \in Caches, ReadTable(t, b)
  PROVE  SInv'
  <1> DEFINE d == Wipe(b, Half(b, call[t].odd), 0)
  <1>1. Goes(t, d) /\ UNCHANGED <<cacheMax, nSlots, slots, panicked, settled, wipeOdd>>
    BY DEF ReadTable, tables, history
  <1>2. /\ call[t].pc = "turn" /\ call[t].half = b
        /\ d.pc = "wipe" /\ d.half = b /\ d.todo = Half(b, call[t].odd)
    BY DEF ReadTable, At, Wipe
  <1>3. call[t].odd \in BOOLEAN
    <2>1. call[t] \in Calls
      BY DEF OInv, Typed
    <2>2. QED
      BY <1>2, <2>1 DEF Calls
  <1> HIDE DEF d
  <1>4. ASSUME NEW c \in Caches, NEW i \in DOMAIN slots'[c]
        PROVE  /\ Holds(d, c, i) <=> Holds(call[t], c, i)
               /\ After(d, c) <=> After(call[t], c)
               /\ Before(d, c) <=> Before(call[t], c)
    <2>1. i \in SlotsOf(c) /\ i \in Nat
      <3>1. i \in DOMAIN slots[c]
        BY <1>1
      <3>2. QED
        BY <3>1, SlotNumber
    <2>2. i % 2 \in {0, 1}
      BY <2>1
    <2>3. c = b => (i \in Half(b, call[t].odd) <=> call[t].odd = IsOdd(i))
      BY <1>3, <2>1, <2>2 DEF Half, IsOdd
    <2>4. Holds(d, c, i) <=> Holds(call[t], c, i)
      BY <1>2, <2>3 DEF Holds
    <2>5. QED
      BY <1>2, <2>4 DEF After, Before
  <1>5. Lightens(t, d)
    BY <1>1, <1>2, <1>4, SameStanding
  <1>6. QED
    BY <1>1, <1>2, <1>5, QuietTraces

\* The slot at which a wipe has come is empty after.
LEMMA WipeSlotTraces ==
  ASSUME OInv, OInv', SInv, NEW t \in Threads, NEW b \in Caches, WipeSlot(t, b)
  PROVE  SInv'
  <1> DEFINE i == Least(call[t].todo)
             d == Wipe(b, call[t].todo \ {i}, call[t].freed + SizeIn(b, i))
             r == Restrict(slots[b], DOMAIN slots[b] \ {i})
  <1>1. /\ Goes(t, d) /\ slots' = [slots EXCEPT ![b] = r]
        /\ UNCHANGED <<cacheMax, nSlots, panicked, settled, wipeOdd>>
    BY DEF WipeSlot, history
  <1>2. /\ call[t].pc = "wipe" /\ call[t].half = b
        /\ d.pc = "wipe" /\ d.half = b /\ d.todo = call[t].todo \ {i}
    BY DEF WipeSlot, Wiping, At, Wipe
  <1>3. DOMAIN r = DOMAIN slots[b] \ {i} /\ \A j \in DOMAIN r : r[j] = slots[b][j]
    BY DEF Restrict
  <1> HIDE DEF d, r, i
  <1>4. slots'[b] = r /\ \A c \in Caches \ {b} : slots'[c] = slots[c]
    BY <1>1 DEF OInv, Typed
  <1>5. \A c \in Caches : DOMAIN slots'[c] \subseteq DOMAIN slots[c]
    BY <1>3, <1>4
  <1>6. \A c \in Caches : \A j \in DOMAIN slots'[c] : slots'[c][j] = slots[c][j]
    BY <1>3, <1>4
  <1>7. ASSUME NEW c \in Caches, NEW j \in DOMAIN slots'[c]
        PROVE  /\ Holds(d, c, j) <=> Holds(call[t], c, j)
               /\ After(d, c) <=> After(call[t], c)
               /\ Before(d, c) <=> Before(call[t], c)
    <2>1. c = b => j # i
      BY <1>3, <1>4
    <2>2. QED
      BY <1>2, <2>1 DEF Holds, After, Before
  <1>8. Lightens(t, d)
    BY <1>1, <1>2, <1>7, SameStanding
  <1>9. Absorbing' => Absorbing
    BY <1>1 DEF Absorbing
  <1>10. UNCHANGED <<cacheMax, nSlots>>
    BY <1>1
  <1>11. QED
    BY <1>1, <1>2, <1>5, <1>6, <1>8, <1>9, <1>10, SameAges

\* The end of a half, when the sizes had been settled before.
LEMMA EndHalveTraces ==
  ASSUME OInv, OInv', SInv, NEW t \in Threads, NEW b \in Caches, EndHalve(t, b), settled
  PROVE  SInv'
  <1> DEFINE d == Step(IF b = "op" THEN "halve_size" ELSE "use")
  <1>1. Goes(t, d) /\ UNCHANGED <<cacheMax, nSlots, slots, panicked, wipeOdd>>
    BY DEF EndHalve, tables
  <1>2. settled' = settled
    <2>1. settled'
      BY DEF EndHalve, Sized
    <2>2. QED
      BY <2>1 DEF EndHalve, Sized
  <1>3. /\ call[t].pc = "wipe" /\ call[t].half = b /\ call[t].todo = {}
        /\ d.pc = (IF b = "op" THEN "halve_size" ELSE "use")
    BY DEF EndHalve, Wiping, At, Step
  <1> HIDE DEF d
  <1>4. ASSUME NEW c \in Caches, NEW i \in DOMAIN slots'[c]
        PROVE  /\ ~Holds(d, c, i) /\ ~Holds(call[t], c, i)
               /\ After(d, c) <=> After(call[t], c)
               /\ Before(d, c) <=> Before(call[t], c)
    BY <1>3 DEF Holds, After, Before, Caches
  <1>5. Lightens(t, d)
    BY <1>1, <1>3, <1>4, SameStanding
  <1>6. QED
    BY <1>1, <1>2, <1>3, <1>5, QuietTraces

\* A thread that is done, or that collects, owes nothing.
LEMMA DoneTraces ==
  ASSUME OInv, OInv', SInv, NEW t \in Threads, NEW d, Goes(t, d),
         d.pc \in {"idle", "resize_op", "resize_size"},
         call[t].pc \in {"idle", "use", "resize_op", "resize_size"},
         UNCHANGED <<cacheMax, nSlots, slots, panicked, settled, wipeOdd>>
  PROVE  SInv'
  <1>1. ASSUME NEW c \in Caches, NEW i \in DOMAIN slots'[c]
        PROVE  ~Holds(d, c, i) /\ ~Holds(call[t], c, i) /\ ~After(d, c) /\ ~Before(d, c)
    BY DEF Holds, After, Before
  <1>2. Lightens(t, d)
    BY <1>1, SameStanding
  <1>3. QED
    BY <1>2, QuietTraces

LEMMA GetTraces ==
  ASSUME OInv, OInv', SInv, NEW t \in Threads, Get(t)
  PROVE  SInv'
  BY IdleCall, DoneTraces DEF Get, At, tables, history

LEMMA GcTraces ==
  ASSUME OInv, OInv', SInv, NEW t \in Threads, NEW live \in LiveCounts, Gc(t, live)
  PROVE  SInv'
  <1>1. [pc |-> "resize_op", live |-> live].pc = "resize_op"
    OBVIOUS
  <1>2. QED
    BY <1>1, IdleCall, DoneTraces DEF Gc, tables, history

LEMMA ResizeKeepsTraces ==
  ASSUME OInv, OInv', SInv, NEW t \in Threads, NEW c \in Caches, ResizeKeeps(t, c)
  PROVE  SInv'
  <1>1. Goes(t, GcGoes(t, c)) /\ UNCHANGED <<cacheMax, nSlots, slots, panicked, settled, wipeOdd>>
    BY DEF ResizeKeeps, GcNext, GcGoes, tables, history
  <1>2. call[t] \in Calls /\ call[t].pc \in {"resize_op", "resize_size"}
    BY DEF OInv, Typed, ResizeKeeps, At, ResizeOf
  <1>3. GcGoes(t, c).pc \in {"idle", "resize_op", "resize_size"}
    <2>1. call[t] \in [pc : {"resize_op", "resize_size"}, live : LiveCounts]
      BY <1>2, CallKinds
    <2>2. [call[t] EXCEPT !.pc = "resize_size"].pc = "resize_size"
      BY <2>1
    <2>3. QED
      BY <2>2, IdleCall DEF GcGoes
  <1>4. QED
    BY <1>1, <1>2, <1>3, DoneTraces

-----------------------------------------------------------------------------
(***************************************************************************)
(* The sizes fit again                                                     *)
(***************************************************************************)
\* When the sizes fit, every entry is old.
LEMMA Fresh ==
  ASSUME OInv', Fits(size)'
  PROVE  SInv'
  <1> SUFFICES ASSUME Absorbing' PROVE (\E a \in Ages, s \in Stamps : Traced(a, s))'
    BY DEF SInv
  <1> DEFINE a == [c \in Caches |-> [i \in Nat |-> 0]]
             s == [t \in Threads |-> 0]
  <1>1. a \in Ages /\ s \in Stamps
    BY DEF Ages, Stamps
  <1>2. ASSUME NEW c \in Caches, NEW i \in DOMAIN slots'[c] PROVE a[c][i] = 0
    <2>1. i \in Nat
      <3>1. DOMAIN slots'[c] \subseteq SlotsOf(c)' /\ nSlots'[c] \in Nat \ {0} /\ Hashes[c] \subseteq Nat
        BY OpCacheAssumption DEF OInv, SizeExact, Typed
      <3>2. QED
        BY <3>1 DEF SlotsOf
    <2>2. QED
      BY <2>1
  <1> HIDE DEF a, s
  <1>3. "op" \in Caches /\ "size" \in Caches
    BY DEF Caches
  <1>4. ASSUME NEW c \in Caches
        PROVE  /\ OldBytes(slots'[c], a[c]) = SumFunction(slots'[c])
               /\ SumFunction(slots'[c]) \in Nat
    <2>1. {i \in DOMAIN slots'[c] : a[c][i] = 0} = DOMAIN slots'[c]
      BY <1>2
    <2>2. IsTable(slots'[c])
      BY DEF OInv, Typed
    <2>3. SumFunction(slots'[c]) \in Nat
      BY <2>2, SumDropped
    <2>4. QED
      BY <2>1, <2>3 DEF OldBytes, SumFunction
  <1>5. TablesSize' + OldBytes(slots'["op"], a["op"]) + OldBytes(slots'["size"], a["size"])
          <= cacheMax'
    <2>1. ASSUME NEW c \in Caches
          PROVE  /\ size'[c] = TableBytes(nSlots'[c]) + SumFunction(slots'[c]) + FreedOf(c)'
                 /\ FreedOf(c)' \in Nat /\ nSlots'[c] \in Nat
      <3>1. call' \in [Threads -> Calls]
        BY DEF OInv, Typed
      <3>2. FreedOf(c)' = SumFunction(Dropping(call', c)) /\ IsTable(Dropping(call', c))
        BY <3>1, FreedIs, DroppingCounted
      <3>3. FreedOf(c)' \in Nat
        BY <3>2, SumDropped
      <3>4. QED
        BY <3>3 DEF OInv, Typed, SizeExact
    <2>2. size'["op"] + size'["size"] <= cacheMax'
      BY DEF Absorbing, Fits, RegularCacheSize
    <2>3. cacheMax' \in Nat
      BY OpCacheAssumption DEF OInv, SizeExact, Absorbing
    <2> DEFINE o == nSlots'["op"]
               z == nSlots'["size"]
    <2>4. o \in Nat /\ z \in Nat
      BY <1>3, <2>1
    <2> HIDE DEF o, z
    <2>5. TableBytes(o + z) = TableBytes(o) + TableBytes(z)
          /\ TableBytes(o) \in Nat /\ TableBytes(z) \in Nat
      BY <2>4 DEF TableBytes, BytesPerSlot
    <2>6. /\ size'["op"] = TableBytes(o) + SumFunction(slots'["op"]) + FreedOf("op")'
          /\ size'["size"] = TableBytes(z) + SumFunction(slots'["size"]) + FreedOf("size")'
      BY <1>3, <2>1 DEF o, z
    <2>7. TableBytes(o + z) + SumFunction(slots'["op"]) + SumFunction(slots'["size"]) <= cacheMax'
      BY <1>3, <1>4, <2>1, <2>2, <2>3, <2>5, <2>6
    <2>8. QED
      BY <1>3, <1>4, <2>7 DEF TablesSize, o, z
  <1>6. Traced(a, s)'
    <2>1. \A c \in Caches : \A i \in DOMAIN slots'[c] : ~(a[c][i] > 0)
      BY <1>2
    <2>2. \A c \in Caches : \A i \in DOMAIN slots'[c] : \A t \in Threads : ~(a[c][i] > s[t])
      BY <1>1, <1>2 DEF Stamps
    <2>3. QED
      BY <1>5, <2>1, <2>2 DEF Traced
  <1>7. QED
    BY <1>1, <1>6

LEMMA SettlesNow ==
  ASSUME OInv', ~settled, Sized(size'), cacheMax' = cacheMax
  PROVE  SInv'
  <1>1. settled' = Fits(size)'
    BY DEF Sized, Fits
  <1>2. CASE Fits(size)'
    BY <1>2, Fresh
  <1>3. CASE ~Fits(size)'
    BY <1>1, <1>3 DEF SInv, Absorbing
  <1>4. QED
    BY <1>2, <1>3

LEMMA EndHalveBounded ==
  ASSUME OInv, OInv', SInv, NEW t \in Threads, NEW b \in Caches, EndHalve(t, b)
  PROVE  SInv'
  <1>1. CASE settled
    BY <1>1, EndHalveTraces
  <1>2. CASE ~settled
    BY <1>2, SettlesNow DEF EndHalve, Sized
  <1>3. QED
    BY <1>1, <1>2

LEMMA ResizeGrowsTraces ==
  ASSUME OInv', NEW t \in Threads, NEW c \in Caches, ResizeGrows(t, c)
  PROVE  SInv'
  <1>1. settled' = Fits(size)'
    BY DEF ResizeGrows, Fits
  <1>2. CASE Fits(size)'
    BY <1>2, Fresh
  <1>3. CASE ~Fits(size)'
    BY <1>1, <1>3 DEF SInv, Absorbing
  <1>4. QED
    BY <1>2, <1>3

LEMMA LimitTraces ==
  ASSUME OInv, OInv', NEW max \in CacheMaxes,
         LimitKeeps(max) \/ LimitEmpties(max) \/ LimitResizes(max)
  PROVE  SInv'
  <1> SUFFICES ASSUME Absorbing' PROVE Fits(size)'
    BY Fresh DEF SInv
  <1>1. cacheMax' = max
    BY DEF LimitKeeps, LimitEmpties, LimitResizes, Limit
  <1>2. max \in Nat /\ max # Unlimited
    BY <1>1, OpCacheAssumption DEF Absorbing
  <1>3. size' \in [Caches -> Int] /\ "op" \in Caches /\ "size" \in Caches
    BY DEF OInv, Typed, Caches
  <1>4. CASE LimitKeeps(max)
    <2>1. ~(RegularCacheSize(size') > max)
      BY <1>2, <1>4 DEF LimitKeeps, Total
    <2>2. RegularCacheSize(size') \in Int
      BY <1>3 DEF RegularCacheSize
    <2>3. QED
      BY <1>1, <1>2, <2>1, <2>2 DEF Fits, RegularCacheSize
  <1>5. CASE LimitEmpties(max)
    <2>1. ~(RegularCacheSize(size') > max)
      BY <1>2, <1>5 DEF LimitEmpties, Total
    <2>2. RegularCacheSize(size') \in Int
      BY <1>3 DEF RegularCacheSize
    <2>3. QED
      BY <1>1, <1>2, <2>1, <2>2 DEF Fits, RegularCacheSize
  <1>6. CASE LimitResizes(max)
    <2> DEFINE n == SlotCapacity(CacheSlotBudget(max))
    <2>1. ~(2 * TableBytes(n) > max)
      BY <1>6 DEF LimitResizes, Absorbing
    <2>2. size'["op"] = TableBytes(n) /\ size'["size"] = TableBytes(n)
      BY <1>3, <1>6 DEF LimitResizes
    <2> HIDE DEF n
    <2>3. size'["op"] + size'["size"] <= max
      BY <1>2, <1>3, <2>1, <2>2
    <2>4. QED
      BY <1>1, <2>3 DEF Fits, RegularCacheSize
  <1>7. QED
    BY <1>4, <1>5, <1>6

-----------------------------------------------------------------------------
(***************************************************************************)
(* A check that passes, and a store                                        *)
(***************************************************************************)
\* The ages once a check has passed: what has been stored since its first
\* load is among what it has counted.
Counted(a, n) == [c \in Caches |-> [i \in Nat |-> IF a[c][i] <= n THEN a[c][i] ELSE 0]]

LEMMA CountedIs ==
  ASSUME NEW a \in Ages, NEW n \in Nat
  PROVE  /\ Counted(a, n) \in Ages
         /\ \A c \in Caches, i \in Nat :
              /\ a[c][i] \in Nat
              /\ a[c][i] <= n => Counted(a, n)[c][i] = a[c][i]
              /\ a[c][i] > n => Counted(a, n)[c][i] = 0
  BY DEF Counted, Ages

LEMMA CheckPasses ==
  ASSUME OInv, OInv', SInv, NEW t \in Threads, Check(t),
         ~(call[t].seen + size["size"] > cacheMax)
  PROVE  SInv'
  <1> SUFFICES ASSUME Absorbing' PROVE (\E a \in Ages, s \in Stamps : Traced(a, s))'
    BY DEF SInv
  <1>1. /\ call[t].pc = "check" /\ call'[t] = Step("use") /\ call'[t].pc = "use"
        /\ \A u \in Threads \ {t} : call'[u] = call[u]
        /\ UNCHANGED <<cacheMax, nSlots, slots, panicked, settled, wipeOdd>>
    BY DEF Check, At, Goes, OInv, Typed, Step, tables, history
  <1>2. Absorbing
    BY <1>1 DEF Absorbing
  <1>3. PICK a \in Ages, r \in Stamps : Traced(a, r)
    BY <1>2 DEF SInv
  <1> DEFINE b == Counted(a, r[t])
  <1>4. r[t] \in Nat /\ \A u \in Threads : r[u] \in Nat
    BY DEF Stamps
  <1>5. /\ b \in Ages
        /\ \A c \in Caches : \A i \in DOMAIN slots[c] :
             /\ i \in Nat /\ a[c][i] \in Nat
             /\ a[c][i] <= r[t] => b[c][i] = a[c][i]
             /\ a[c][i] > r[t] => b[c][i] = 0
    BY <1>4, CountedIs, SlotNumber
  <1> HIDE DEF b
  <1>6. ASSUME NEW c \in Caches, NEW i \in DOMAIN slots[c], NEW m \in Nat, m <= r[t]
        PROVE  /\ Weight(call'[t], r[t], c, i, m) - Due(wipeOdd', c, i)
                    <= Weight(call[t], r[t], c, i, m) - Due(wipeOdd, c, i)
               /\ ~Holds(call'[t], c, i)
    <2>1. ~Holds(call'[t], c, i) /\ ~Holds(call[t], c, i)
      BY <1>1 DEF Holds
    <2>2. Owes(call'[t], r[t], c, i, m) /\ Owes(call[t], r[t], c, i, m)
      <3>1. After(call'[t], c)
        BY <1>1 DEF After
      <3>2. Before(call[t], c)
        BY <1>1 DEF Before
      <3>3. r[t] >= m
        BY <1>4, <1>6
      <3>4. QED
        BY <2>1, <3>1, <3>2, <3>3 DEF Owes
    <2>3. Weight(call'[t], r[t], c, i, m) = 1 /\ Weight(call[t], r[t], c, i, m) = 1
      BY <2>1, <2>2 DEF Weight
    <2>4. Due(wipeOdd', c, i) = Due(wipeOdd, c, i) /\ Due(wipeOdd, c, i) \in {0, 1}
      BY <1>1, DueIs
    <2>5. QED
      BY <2>1, <2>3, <2>4
  <1>7. Thins(a, a) /\ Thins(b, a)
    BY <1>1, <1>4, <1>5 DEF Thins
  <1>8. CASE \A c \in Caches : \A i \in DOMAIN slots[c] : ~(a[c][i] > r[t])
    <2>1. Bears(t, a, a, r, r)
      BY <1>1, <1>4, <1>5, <1>6, <1>8 DEF Bears
    <2>2. Traced(a, r)'
      BY <1>1, <1>3, <1>7, <2>1, Carries
    <2>3. QED
      BY <2>2
  <1>9. CASE \E c \in Caches : \E i \in DOMAIN slots[c] : a[c][i] > r[t]
    <2>1. call[t].seen >= TableBytes(nSlots["op"]) + BytesSince(slots["op"], a["op"], r[t])
      BY <1>1, <1>3, <1>9 DEF Traced
    <2>2. "op" \in Caches /\ "size" \in Caches
      BY DEF Caches
    <2>3. \A c, d \in Caches : \A i \in DOMAIN slots'[c], j \in DOMAIN slots'[d] :
            b[c][i] > 0 /\ b[c][i] = b[d][j] => c = d /\ i = j
      <3>1. ASSUME NEW c \in Caches, NEW d \in Caches, NEW i \in DOMAIN slots[c],
                   NEW j \in DOMAIN slots[d], b[c][i] > 0, b[c][i] = b[d][j]
            PROVE  c = d /\ i = j
        <4>1. b[c][i] = a[c][i] /\ b[d][j] = a[d][j]
          BY <1>4, <1>5, <3>1
        <4>2. QED
          BY <1>3, <3>1, <4>1 DEF Traced
      <3>2. QED
        BY <1>1, <3>1
    <2>4. TablesSize' + OldBytes(slots'["op"], b["op"]) + OldBytes(slots'["size"], b["size"])
            <= cacheMax'
      <3>1. OldBytes(slots["op"], b["op"]) = BytesSince(slots["op"], a["op"], r[t])
        <4>1. {i \in DOMAIN slots["op"] : b["op"][i] = 0}
                = {i \in DOMAIN slots["op"] : a["op"][i] = 0 \/ a["op"][i] > r[t]}
          BY <1>4, <1>5, <2>2
        <4>2. QED
          BY <4>1 DEF OldBytes, BytesSince
      <3>2. OldBytes(slots["size"], b["size"]) <= SumFunction(slots["size"])
            /\ OldBytes(slots["size"], b["size"]) \in Nat
        <4> DEFINE S == {i \in DOMAIN slots["size"] : b["size"][i] = 0}
        <4>1. IsTable(slots["size"])
          BY <2>2 DEF OInv, Typed
        <4>2. S \in SUBSET DOMAIN slots["size"] /\ IsFiniteSet(DOMAIN slots["size"])
              /\ \A x \in DOMAIN slots["size"] : slots["size"][x] \in Nat
          BY <4>1 DEF IsTable
        <4>3. \A x \in S : slots["size"][x] = slots["size"][x]
          OBVIOUS
        <4> HIDE DEF S
        <4>4. SumFunctionOnSet(slots["size"], S) <= SumFunctionOnSet(slots["size"], DOMAIN slots["size"])
              /\ SumFunctionOnSet(slots["size"], S) \in Nat
          BY <4>2, <4>3, SumLess
        <4>5. QED
          BY <4>4 DEF OldBytes, SumFunction, S
      <3>3. ASSUME NEW c \in Caches
            PROVE  /\ size[c] = TableBytes(nSlots[c]) + SumFunction(slots[c]) + FreedOf(c)
                   /\ SumFunction(slots[c]) \in Nat /\ FreedOf(c) \in Nat
                   /\ nSlots[c] \in Nat /\ size[c] \in Int
        <4>1. call \in [Threads -> Calls]
          BY DEF OInv, Typed
        <4>2. FreedOf(c) = SumFunction(Dropping(call, c)) /\ IsTable(Dropping(call, c))
          BY <4>1, FreedIs, DroppingCounted
        <4>3. FreedOf(c) \in Nat
          BY <4>2, SumDropped
        <4>4. QED
          BY <4>3, SlotSizes
      <3> DEFINE o == nSlots["op"]
                 z == nSlots["size"]
      <3>4. o \in Nat /\ z \in Nat
        BY <2>2, <3>3
      <3> HIDE DEF o, z
      <3>5. TableBytes(o + z) = TableBytes(o) + TableBytes(z)
            /\ TableBytes(o) \in Nat /\ TableBytes(z) \in Nat
        BY <3>4 DEF TableBytes, BytesPerSlot
      <3>6. size["size"] = TableBytes(z) + SumFunction(slots["size"]) + FreedOf("size")
        BY <2>2, <3>3 DEF z
      <3>7. call[t].seen \in Int /\ cacheMax \in Int
        <4>1. call[t] \in Calls
          BY DEF OInv, Typed
        <4>2. QED
          BY <1>1, <4>1, CacheMaxIs DEF Calls, Unlimited
      <3>8. call[t].seen >= TableBytes(o) + BytesSince(slots["op"], a["op"], r[t])
        BY <2>1 DEF o
      <3>9. BytesSince(slots["op"], a["op"], r[t]) \in Nat
        <4>1. IsTable(slots["op"])
          BY <2>2 DEF OInv, Typed
        <4>2. QED
          BY <4>1, BytesLess
      <3>10. TableBytes(o + z) + BytesSince(slots["op"], a["op"], r[t])
               + OldBytes(slots["size"], b["size"]) <= cacheMax
        <4>1. size["size"] >= TableBytes(z) + OldBytes(slots["size"], b["size"])
          BY <2>2, <3>2, <3>3, <3>5, <3>6
        <4>2. call[t].seen + size["size"] <= cacheMax /\ size["size"] \in Int
          BY <2>2, <3>3, <3>7
        <4>3. QED
          BY <3>2, <3>5, <3>7, <3>8, <3>9, <4>1, <4>2
      <3>11. QED
        BY <1>1, <3>1, <3>10 DEF TablesSize, o, z
    <2>5. Bears(t, b, a, r, r)
      <3>1. ASSUME NEW c \in Caches, NEW i \in DOMAIN slots[c], b[c][i] > 0
            PROVE  b[c][i] \in Nat /\ b[c][i] <= r[t]
        BY <1>4, <1>5, <3>1
      <3>2. QED
        BY <1>1, <1>6, <3>1 DEF Bears
    <2>6. \A c \in Caches : \A i \in DOMAIN slots'[c] :
            b[c][i] > 0 => Balanced(call', wipeOdd', r, c, i, b[c][i])
      BY <1>1, <1>3, <1>5, <1>7, <2>5, BearsBalance
    <2>7. ASSUME NEW u \in Threads, call'[u].pc = "check",
                 NEW d \in Caches, NEW j \in DOMAIN slots'[d], b[d][j] > r[u]
          PROVE  call'[u].seen >= TableBytes(nSlots'["op"])
                                  + BytesSince(slots'["op"], b["op"], r[u])
      <3>1. u # t /\ call'[u] = call[u] /\ j \in DOMAIN slots[d]
        BY <1>1, <2>7
      <3>2. a[d][j] = b[d][j] /\ a[d][j] <= r[t]
        BY <1>4, <1>5, <2>7, <3>1
      <3>3. r[u] < r[t] /\ a[d][j] > r[u]
        BY <1>4, <1>5, <2>7, <3>1, <3>2
      <3>4. call[u].seen >= TableBytes(nSlots["op"]) + BytesSince(slots["op"], a["op"], r[u])
        BY <1>3, <2>7, <3>1, <3>3 DEF Traced
      <3>5. /\ BytesSince(slots["op"], b["op"], r[u]) <= BytesSince(slots["op"], a["op"], r[u])
            /\ BytesSince(slots["op"], b["op"], r[u]) \in Nat
            /\ BytesSince(slots["op"], a["op"], r[u]) \in Nat
        <4>1. ASSUME NEW i \in DOMAIN slots["op"], b["op"][i] = 0 \/ b["op"][i] > r[u]
              PROVE  a["op"][i] = 0 \/ a["op"][i] > r[u]
          BY <1>4, <1>5, <2>2, <3>3, <4>1
        <4>2. IsTable(slots["op"])
          BY <2>2 DEF OInv, Typed
        <4>3. QED
          BY <4>1, <4>2, BytesLess
      <3>6. call[u].seen \in Int /\ TableBytes(nSlots["op"]) \in Nat
        <4>1. call[u] \in Calls /\ nSlots["op"] \in Nat
          BY <2>2 DEF OInv, Typed
        <4>2. QED
          BY <2>7, <3>1, <4>1 DEF Calls, TableBytes, BytesPerSlot
      <3>7. call[u].seen >= TableBytes(nSlots["op"]) + BytesSince(slots["op"], b["op"], r[u])
        BY <3>4, <3>5, <3>6
      <3>8. QED
        BY <1>1, <3>1, <3>7
    <2>8. Traced(b, r)'
      BY <2>3, <2>4, <2>6, <2>7 DEF Traced
    <2>9. QED
      BY <1>5, <2>8
  <1>10. QED
    BY <1>8, <1>9

LEMMA CheckTraces ==
  ASSUME OInv, OInv', SInv, NEW t \in Threads, Check(t)
  PROVE  SInv'
  BY CheckHalves, CheckPasses

\* The ages after one more store, of slot i of c.
Aged(a, c, i) ==
  [d \in Caches |-> [j \in Nat |-> IF d = c /\ j = i THEN 1
                                   ELSE IF a[d][j] = 0 THEN 0 ELSE a[d][j] + 1]]

LEMMA AgedIs ==
  ASSUME NEW a \in Ages, NEW c \in Caches, NEW i \in Nat
  PROVE  /\ Aged(a, c, i) \in Ages
         /\ Aged(a, c, i)[c][i] = 1
         /\ \A d \in Caches, j \in Nat :
              /\ a[d][j] \in Nat
              /\ d # c \/ j # i =>
                   Aged(a, c, i)[d][j] = IF a[d][j] = 0 THEN 0 ELSE a[d][j] + 1
  BY DEF Aged, Ages

\* A new entry: the thread that has stored it is idle, so that fewer than
\* all threads owe it a store.
LEMMA NewBalanced ==
  ASSUME NEW k, NEW t \in Threads, k[t] = Idle, NEW w, NEW s, NEW c, NEW i
  PROVE  Balanced(k, w, s, c, i, 1)
  <1>1. t \notin Owing(k, s, c, i, 1) /\ ~Holds(k[t], c, i)
    BY IdleCall, NoSteps DEF Owing, Owes
  <1>2. Owing(k, s, c, i, 1) \subseteq Threads \ {t} /\ Holders(k, c, i) \subseteq Threads
    BY <1>1 DEF Owing, Holders
  <1>3. IsFiniteSet(Threads \ {t}) /\ IsFiniteSet(Holders(k, c, i))
        /\ Cardinality(Threads \ {t}) = Cardinality(Threads) - 1
        /\ Cardinality(Threads) \in Nat
    BY <1>2, OpCacheAssumption, FS_RemoveElement, FS_Subset, FS_CardinalityType
  <1>4. Cardinality(Holders(k, c, i)) \in Nat
    BY <1>3, FS_CardinalityType
  <1>5. Cardinality(Owing(k, s, c, i, 1)) \in Nat
        /\ Cardinality(Owing(k, s, c, i, 1)) <= Cardinality(Threads \ {t})
    BY <1>2, <1>3, FS_Subset, FS_CardinalityType
  <1>6. Due(w, c, i) \in {0, 1}
    BY DueIs
  <1>7. 1 + Cardinality(Owing(k, s, c, i, 1))
          <= Cardinality(Threads) + Cardinality(Holders(k, c, i)) + Due(w, c, i)
    <2> DEFINE x == Cardinality(Owing(k, s, c, i, 1))
               y == Cardinality(Holders(k, c, i))
               z == Cardinality(Threads)
               v == Due(w, c, i)
               p == Cardinality(Threads \ {t})
    <2>1. x \in Nat /\ y \in Nat /\ z \in Nat /\ v \in {0, 1} /\ x <= p /\ p = z - 1
      BY <1>3, <1>4, <1>5, <1>6
    <2> HIDE DEF x, y, z, v, p
    <2>2. 1 + x <= z + y + v
      BY <2>1
    <2>3. QED
      BY <2>2 DEF x, y, z, v
  <1>8. QED
    BY <1>1, <1>7 DEF Balanced

LEMMA InsertAges ==
  ASSUME OInv, OInv', SInv, NEW t \in Threads, NEW c \in Caches, NEW h \in Hashes[c],
         NEW bytes \in EntrySizes, Insert(t, c, h, bytes), settled
  PROVE  SInv'
  <1> SUFFICES ASSUME Absorbing' PROVE (\E a \in Ages, s \in Stamps : Traced(a, s))'
    BY DEF SInv
  <1>4. PICK i \in Nat : i = h % nSlots[c]
    <2>1. nSlots[c] \in Nat \ {0} /\ h \in Nat
      BY OpCacheAssumption DEF OInv, Typed
    <2>2. QED
      BY <2>1
  <1> DEFINE f == Filled(slots[c], i, bytes)
  <1>1. /\ call[t].pc = "use" /\ call'[t] = Idle /\ call'[t].pc = "idle"
        /\ \A u \in Threads \ {t} : call'[u] = call[u]
        /\ UNCHANGED <<cacheMax, nSlots, panicked, wipeOdd>>
        /\ slots' = [slots EXCEPT ![c] = f]
    BY <1>4, IdleCall DEF Insert, At, Goes, OInv, Typed
  <1>2. Absorbing
    BY <1>1 DEF Absorbing
  <1>3. PICK a \in Ages, r \in Stamps : Traced(a, r)
    BY <1>2 DEF SInv
  <1>5. DOMAIN f = DOMAIN slots[c] \cup {i} /\ \A j \in DOMAIN f \ {i} : f[j] = slots[c][j]
    BY DEF Filled
  <1> HIDE DEF f
  <1>6. slots'[c] = f /\ \A d \in Caches \ {c} : slots'[d] = slots[d]
    BY <1>1 DEF OInv, Typed
  <1> DEFINE b == Aged(a, c, i)
             s == [u \in Threads |-> r[u] + 1]
             Other(d, j) == d # c \/ j # i
  <1>7. \A u \in Threads : r[u] \in Nat /\ s[u] = r[u] + 1
    BY DEF Stamps
  <1>8. s \in Stamps
    BY <1>7 DEF Stamps
  <1>9. /\ b \in Ages /\ b[c][i] = 1
        /\ \A d \in Caches, j \in Nat :
             /\ a[d][j] \in Nat
             /\ Other(d, j) => b[d][j] = IF a[d][j] = 0 THEN 0 ELSE a[d][j] + 1
    BY <1>4, AgedIs
  <1> HIDE DEF b, s
  <1>10. ASSUME NEW d \in Caches, NEW j \in DOMAIN slots'[d], Other(d, j)
         PROVE  /\ j \in DOMAIN slots[d] /\ slots'[d][j] = slots[d][j]
                /\ a[d][j] \in Nat
                /\ b[d][j] = IF a[d][j] = 0 THEN 0 ELSE a[d][j] + 1
    <2>1. j \in DOMAIN slots[d] /\ slots'[d][j] = slots[d][j]
      BY <1>5, <1>6, <1>10
    <2>2. j \in Nat
      BY <2>1, SlotNumber
    <2>3. QED
      BY <1>9, <1>10, <2>1, <2>2
  <1>11. "op" \in Caches /\ "size" \in Caches
    BY DEF Caches
  <1>12. \A d \in Caches : IsTable(slots[d])
    BY DEF OInv, Typed
  <1>13. \A d, e \in Caches : \A j \in DOMAIN slots'[d], l \in DOMAIN slots'[e] :
           b[d][j] > 0 /\ b[d][j] = b[e][l] => d = e /\ j = l
    <2>1. ASSUME NEW d \in Caches, NEW e \in Caches, NEW j \in DOMAIN slots'[d],
                 NEW l \in DOMAIN slots'[e], b[d][j] > 0, b[d][j] = b[e][l]
          PROVE  d = e /\ j = l
      <3>1. CASE Other(d, j) /\ Other(e, l)
        <4>1. a[d][j] > 0 /\ a[d][j] = a[e][l] /\ j \in DOMAIN slots[d] /\ l \in DOMAIN slots[e]
          BY <1>10, <2>1, <3>1
        <4>2. QED
          BY <1>3, <4>1 DEF Traced
      <3>2. CASE ~Other(d, j) /\ Other(e, l)
        <4>1. b[d][j] = 1
          BY <1>9, <3>2
        <4>2. b[e][l] # 1
          BY <1>10, <3>2
        <4>3. QED
          BY <2>1, <4>1, <4>2
      <3>3. CASE Other(d, j) /\ ~Other(e, l)
        <4>1. b[e][l] = 1
          BY <1>9, <3>3
        <4>2. b[d][j] # 1
          BY <1>10, <3>3
        <4>3. QED
          BY <2>1, <4>1, <4>2
      <3>4. QED
        BY <3>1, <3>2, <3>3
    <2>2. QED
      BY <2>1
  <1>14. ASSUME NEW d \in Caches
         PROVE  /\ OldBytes(slots'[d], b[d]) <= OldBytes(slots[d], a[d])
                /\ OldBytes(slots'[d], b[d]) \in Nat /\ OldBytes(slots[d], a[d]) \in Nat
    <2> DEFINE R == {j \in DOMAIN slots'[d] : b[d][j] = 0}
               S == {j \in DOMAIN slots[d] : a[d][j] = 0}
    <2>1. ASSUME NEW j \in R PROVE j \in S /\ slots'[d][j] = slots[d][j]
      <3>1. Other(d, j)
        BY <1>9
      <3>2. QED
        BY <1>10, <3>1
    <2>2. S \in SUBSET DOMAIN slots[d] /\ R \in SUBSET S
      BY <2>1
    <2>3. IsTable(slots[d])
      BY <1>12
    <2> HIDE DEF R, S
    <2>4. /\ SumFunctionOnSet(slots'[d], R) <= SumFunctionOnSet(slots[d], S)
          /\ SumFunctionOnSet(slots'[d], R) \in Nat /\ SumFunctionOnSet(slots[d], S) \in Nat
      BY <2>1, <2>2, <2>3, PartLess
    <2>5. QED
      BY <2>4 DEF OldBytes, R, S
  <1>15. TablesSize' + OldBytes(slots'["op"], b["op"]) + OldBytes(slots'["size"], b["size"])
           <= cacheMax'
    <2>1. TablesSize' = TablesSize /\ cacheMax' = cacheMax
      BY <1>1 DEF TablesSize
    <2>2. TablesSize \in Nat /\ cacheMax \in Int
      <3>1. nSlots["op"] \in Nat /\ nSlots["size"] \in Nat
        BY <1>11 DEF OInv, Typed
      <3>2. QED
        BY <3>1, CacheMaxIs DEF TablesSize, TableBytes, BytesPerSlot, Unlimited
    <2>3. TablesSize + OldBytes(slots["op"], a["op"]) + OldBytes(slots["size"], a["size"])
            <= cacheMax
      BY <1>3 DEF Traced
    <2>4. QED
      BY <1>11, <1>14, <2>1, <2>2, <2>3
  <1>16. ASSUME NEW d \in Caches, NEW j \in DOMAIN slots'[d], b[d][j] > 0
         PROVE  Balanced(call', wipeOdd', s, d, j, b[d][j])
    <2>1. CASE ~Other(d, j)
      <3>1. b[d][j] = 1
        BY <1>9, <2>1
      <3>2. QED
        BY <1>1, <3>1, NewBalanced
    <2>2. CASE Other(d, j)
      <3> DEFINE m == a[d][j]
                 n == b[d][j]
      <3>1. m \in Nat /\ m > 0 /\ n = m + 1 /\ n \in Nat /\ j \in DOMAIN slots[d]
        BY <1>10, <1>16, <2>2
      <3> HIDE DEF m, n
      <3>2. Balanced(call, wipeOdd, r, d, j, m)
        BY <1>3, <3>1 DEF Traced, m
      <3>3. \A u \in Threads \ {t} : (s[u] >= n) <=> (r[u] >= m)
        BY <1>7, <3>1
      <3>4. ~Holds(call'[t], d, j) /\ ~Holds(call[t], d, j)
        BY <1>1, NoSteps DEF Holds
      <3>5. Weight(call[t], r[t], d, j, m) = 1
        BY <1>1, <3>4 DEF Weight, Owes, After
      <3>6. Weight(call'[t], s[t], d, j, n) = 0
        BY <1>1, <3>4, NoSteps DEF Weight, Owes
      <3>7. Due(wipeOdd', d, j) = Due(wipeOdd, d, j) /\ Due(wipeOdd, d, j) \in {0, 1}
        BY <1>1, DueIs
      <3>8. n + Weight(call'[t], s[t], d, j, n) - Due(wipeOdd', d, j)
              <= m + Weight(call[t], r[t], d, j, m) - Due(wipeOdd, d, j)
        BY <3>1, <3>5, <3>6, <3>7
      <3>9. Balanced(call', wipeOdd', s, d, j, n)
        BY <1>1, <1>8, <3>1, <3>2, <3>3, <3>4, <3>8, Rebalances
      <3>10. QED
        BY <3>9 DEF n
    <2>3. QED
      BY <2>1, <2>2
  <1>17. ASSUME NEW u \in Threads, call'[u].pc = "check",
                NEW d \in Caches, NEW j \in DOMAIN slots'[d], b[d][j] > s[u]
         PROVE  call'[u].seen >= TableBytes(nSlots'["op"])
                                 + BytesSince(slots'["op"], b["op"], s[u])
    <2>1. u # t /\ call'[u] = call[u]
      BY <1>1, <1>17
    <2>2. Other(d, j)
      BY <1>7, <1>9, <1>17
    <2>3. j \in DOMAIN slots[d] /\ a[d][j] > r[u]
      BY <1>7, <1>10, <1>17, <2>2
    <2>4. call[u].seen >= TableBytes(nSlots["op"]) + BytesSince(slots["op"], a["op"], r[u])
      BY <1>3, <1>17, <2>1, <2>3 DEF Traced
    <2> DEFINE R == {x \in DOMAIN slots'["op"] : b["op"][x] = 0 \/ b["op"][x] > s[u]}
               S == {x \in DOMAIN slots["op"] : a["op"][x] = 0 \/ a["op"][x] > r[u]}
    <2>5. ASSUME NEW x \in R PROVE x \in S /\ slots'["op"][x] = slots["op"][x]
      <3>1. Other("op", x)
        BY <1>7, <1>9
      <3>2. QED
        BY <1>7, <1>10, <1>11, <3>1
    <2>6. S \in SUBSET DOMAIN slots["op"] /\ R \in SUBSET S
      BY <2>5
    <2>7. IsTable(slots["op"])
      BY <1>11, <1>12
    <2> HIDE DEF R, S
    <2>8. /\ SumFunctionOnSet(slots'["op"], R) <= SumFunctionOnSet(slots["op"], S)
          /\ SumFunctionOnSet(slots'["op"], R) \in Nat /\ SumFunctionOnSet(slots["op"], S) \in Nat
      BY <2>5, <2>6, <2>7, PartLess
    <2>9. call[u].seen \in Int /\ TableBytes(nSlots["op"]) \in Nat
      <3>1. call[u] \in Calls /\ nSlots["op"] \in Nat
        BY <1>11 DEF OInv, Typed
      <3>2. QED
        BY <1>17, <2>1, <3>1 DEF Calls, TableBytes, BytesPerSlot
    <2>10. call[u].seen >= TableBytes(nSlots["op"]) + SumFunctionOnSet(slots'["op"], R)
      <3>1. call[u].seen >= TableBytes(nSlots["op"]) + SumFunctionOnSet(slots["op"], S)
        BY <2>4 DEF BytesSince, S
      <3>2. QED
        BY <2>8, <2>9, <3>1
    <2>11. QED
      BY <1>1, <2>1, <2>10 DEF BytesSince, R
  <1>18. Traced(b, s)'
    BY <1>13, <1>15, <1>16, <1>17 DEF Traced
  <1>19. QED
    BY <1>8, <1>9, <1>18

LEMMA InsertTraces ==
  ASSUME OInv, OInv', SInv, NEW t \in Threads, NEW c \in Caches, NEW h \in Hashes[c],
         NEW bytes \in EntrySizes, Insert(t, c, h, bytes)
  PROVE  SInv'
  <1>1. CASE settled
    BY <1>1, InsertAges
  <1>2. CASE ~settled
    <2>1. Sized(size') /\ cacheMax' = cacheMax
      BY DEF Insert, Sized
    <2>2. QED
      BY <1>2, <2>1, SettlesNow
  <1>3. QED
    BY <1>1, <1>2

-----------------------------------------------------------------------------
(***************************************************************************)
(* The bound                                                               *)
(***************************************************************************)
\* No entry is greater than the greatest.
Entered == \A c \in Caches : \A i \in DOMAIN slots[c] : slots[c][i] <= MaxEntry

LEMMA MaxEntryIs == MaxEntry \in Nat /\ \A bytes \in EntrySizes : bytes <= MaxEntry
  BY OpCacheAssumption DEF MaxEntry

LEMMA EnteredKept ==
  ASSUME OInv, Entered, [Next]_vars
  PROVE  Entered'
  <1>1. slots = [c \in Caches |-> slots[c]]
    BY DEF OInv, Typed
  <1>2. CASE slots' = slots
    BY <1>2 DEF Entered
  <1>3. ASSUME NEW b \in Caches, slots' = [slots EXCEPT ![b] = <<>>]
        PROVE  Entered'
    <2>1. ASSUME NEW c \in Caches, NEW i \in DOMAIN slots'[c]
          PROVE  slots'[c][i] <= MaxEntry
      <3>1. c # b /\ slots'[c] = slots[c]
        BY <1>1, <1>3, Empty
      <3>2. QED
        BY <3>1 DEF Entered
    <2>2. QED
      BY <2>1 DEF Entered
  <1>4. ASSUME slots' = [c \in Caches |-> <<>>]
        PROVE  Entered'
    BY <1>4, Empty DEF Entered
  <1>5. ASSUME NEW t \in Threads, NEW b \in Caches, WipeSlot(t, b)
        PROVE  Entered'
    <2> DEFINE i == Least(call[t].todo)
               r == Restrict(slots[b], DOMAIN slots[b] \ {i})
    <2>1. slots' = [slots EXCEPT ![b] = r]
      BY <1>5 DEF WipeSlot
    <2>2. DOMAIN r \subseteq DOMAIN slots[b] /\ \A j \in DOMAIN r : r[j] = slots[b][j]
      BY DEF Restrict
    <2> HIDE DEF r, i
    <2>3. slots'[b] = r /\ \A c \in Caches \ {b} : slots'[c] = slots[c]
      BY <1>1, <2>1
    <2>4. QED
      BY <2>2, <2>3 DEF Entered
  <1>6. ASSUME NEW t \in Threads, NEW b \in Caches, NEW h \in Hashes[b],
               NEW bytes \in EntrySizes, Insert(t, b, h, bytes)
        PROVE  Entered'
    <2> DEFINE i == h % nSlots[b]
               r == Filled(slots[b], i, bytes)
    <2>1. slots' = [slots EXCEPT ![b] = r]
      BY <1>6 DEF Insert
    <2>2. \A j \in DOMAIN r : r[j] = bytes \/ (j \in DOMAIN slots[b] /\ r[j] = slots[b][j])
      BY DEF Filled
    <2> HIDE DEF r, i
    <2>3. slots'[b] = r /\ \A c \in Caches \ {b} : slots'[c] = slots[c]
      BY <1>1, <2>1
    <2>4. bytes <= MaxEntry
      BY MaxEntryIs
    <2>5. ASSUME NEW c \in Caches, NEW j \in DOMAIN slots'[c]
          PROVE  slots'[c][j] <= MaxEntry
      <3>1. CASE c = b
        <4>1. slots'[c][j] = r[j] /\ j \in DOMAIN r
          BY <2>3, <3>1
        <4>2. r[j] = bytes \/ (j \in DOMAIN slots[b] /\ r[j] = slots[b][j])
          BY <2>2, <4>1
        <4>3. QED
          BY <2>4, <3>1, <4>1, <4>2 DEF Entered
      <3>2. CASE c # b
        BY <2>3, <3>2 DEF Entered
      <3>3. QED
        BY <3>1, <3>2
    <2>6. QED
      BY <2>5 DEF Entered
  <1>7. ASSUME NEW t \in Threads PROVE
           (Access(t) \/ Check(t) \/ Get(t) \/ \E live \in LiveCounts : Gc(t, live))
             => slots' = slots
    BY DEF Access, Check, Get, Gc, tables
  <1>8. ASSUME NEW t \in Threads, NEW c \in Caches PROVE
           (Halve(t, c) \/ ReadTable(t, c) \/ EndHalve(t, c) \/ ResizeKeeps(t, c))
             => slots' = slots
    BY DEF Halve, ReadTable, EndHalve, ResizeKeeps, tables
  <1>9. ASSUME NEW t \in Threads, NEW c \in Caches, ResizeGrows(t, c) PROVE Entered'
    BY <1>3, <1>9 DEF ResizeGrows
  <1>10. ASSUME NEW max \in CacheMaxes, LimitKeeps(max) PROVE slots' = slots
    BY <1>10 DEF LimitKeeps, tables
  <1>11. ASSUME NEW max \in CacheMaxes, LimitEmpties(max) \/ LimitResizes(max) PROVE Entered'
    BY <1>4, <1>11 DEF LimitEmpties, LimitResizes
  <1>12. CASE UNCHANGED vars
    BY <1>2, <1>12 DEF vars, tables
  <1>13. QED
    BY <1>2, <1>5, <1>6, <1>7, <1>8, <1>9, <1>10, <1>11, <1>12 DEF Next

LEMMA TracedKept ==
  ASSUME OInv, OInv', SInv, [Next]_vars
  PROVE  SInv'
  <1>1. ASSUME NEW t \in Threads, Access(t) PROVE SInv'
    BY <1>1, AccessTraces
  <1>2. ASSUME NEW t \in Threads, Check(t) PROVE SInv'
    BY <1>2, CheckTraces
  <1>3. ASSUME NEW t \in Threads, NEW c \in Caches, Halve(t, c) PROVE SInv'
    BY <1>3, HalveTraces
  <1>4. ASSUME NEW t \in Threads, NEW c \in Caches, ReadTable(t, c) PROVE SInv'
    BY <1>4, ReadTableTraces
  <1>5. ASSUME NEW t \in Threads, NEW c \in Caches, WipeSlot(t, c) PROVE SInv'
    BY <1>5, WipeSlotTraces
  <1>6. ASSUME NEW t \in Threads, NEW c \in Caches, EndHalve(t, c) PROVE SInv'
    BY <1>6, EndHalveBounded
  <1>7. ASSUME NEW t \in Threads, NEW c \in Caches, ResizeKeeps(t, c) PROVE SInv'
    BY <1>7, ResizeKeepsTraces
  <1>8. ASSUME NEW t \in Threads, NEW c \in Caches, ResizeGrows(t, c) PROVE SInv'
    BY <1>8, ResizeGrowsTraces
  <1>9. ASSUME NEW t \in Threads, Get(t) PROVE SInv'
    BY <1>9, GetTraces
  <1>10. ASSUME NEW t \in Threads, NEW c \in Caches, NEW h \in Hashes[c],
                NEW bytes \in EntrySizes, Insert(t, c, h, bytes)
         PROVE  SInv'
    BY <1>10, InsertTraces
  <1>11. ASSUME NEW t \in Threads, NEW live \in LiveCounts, Gc(t, live) PROVE SInv'
    BY <1>11, GcTraces
  <1>12. ASSUME NEW max \in CacheMaxes,
                LimitKeeps(max) \/ LimitEmpties(max) \/ LimitResizes(max)
         PROVE  SInv'
    BY <1>12, LimitTraces
  <1>13. ASSUME UNCHANGED vars PROVE SInv'
    BY <1>13 DEF vars, tables, history, SInv, Absorbing, Traced, TablesSize
  <1>14. QED
    BY <1>1, <1>2, <1>3, <1>4, <1>5, <1>6, <1>7, <1>8, <1>9, <1>10, <1>11, <1>12, <1>13
       DEF Next

-----------------------------------------------------------------------------
\* As many numbers as slots.
LEMMA Numbered ==
  ASSUME NEW S, IsFiniteSet(S), NEW f, NEW T, IsFiniteSet(T),
         \A x \in S : f[x] \in T, \A x, y \in S : f[x] = f[y] => x = y
  PROVE  Cardinality(S) <= Cardinality(T)
  <1> DEFINE g == [x \in S |-> f[x]]
  <1>1. g \in [S -> T]
    OBVIOUS
  <1>2. ~(\E x, y \in S : x # y /\ g[x] = g[y])
    OBVIOUS
  <1> HIDE DEF g
  <1>3. ~(Cardinality(T) < Cardinality(S))
    BY <1>1, <1>2, FS_PigeonHole
  <1>4. Cardinality(T) \in Nat /\ Cardinality(S) \in Nat
    BY FS_CardinalityType
  <1>5. QED
    BY <1>3, <1>4

\* A balanced entry is at most two stores old for each thread.
LEMMA BalancedAge ==
  ASSUME NEW k, NEW w, NEW s, NEW c, NEW i, NEW m \in Nat, Balanced(k, w, s, c, i, m)
  PROVE  m <= 2 * Cardinality(Threads)
  <1>1. Holders(k, c, i) \subseteq Threads /\ Owing(k, s, c, i, m) \subseteq Threads
    BY DEF Holders, Owing
  <1>2. IsFiniteSet(Threads) /\ Cardinality(Threads) \in Nat
        /\ Cardinality(Holders(k, c, i)) \in Nat /\ Cardinality(Owing(k, s, c, i, m)) \in Nat
        /\ Cardinality(Holders(k, c, i)) <= Cardinality(Threads)
    BY <1>1, OpCacheAssumption, FS_Subset, FS_CardinalityType
  <1>3. m + Cardinality(Owing(k, s, c, i, m))
          <= Cardinality(Threads) + Cardinality(Holders(k, c, i)) + Due(w, c, i)
    BY DEF Balanced
  <1>4. CASE Due(w, c, i) = 0
    BY <1>2, <1>3, <1>4
  <1>5. CASE Due(w, c, i) = 1
    <2>1. PICK t \in Threads : ~Holds(k[t], c, i)
      BY <1>5 DEF Balanced
    <2>2. Holders(k, c, i) \subseteq Threads \ {t}
      BY <2>1 DEF Holders
    <2>3. IsFiniteSet(Threads \ {t}) /\ Cardinality(Threads \ {t}) = Cardinality(Threads) - 1
      BY <1>2, FS_RemoveElement
    <2>4. Cardinality(Holders(k, c, i)) <= Cardinality(Threads \ {t})
      BY <2>2, <2>3, FS_Subset
    <2>5. QED
      BY <1>2, <1>3, <1>5, <2>3, <2>4
  <1>6. QED
    BY <1>4, <1>5, DueIs

LEMMA AtMostTimes ==
  ASSUME NEW k \in Nat, NEW l \in Nat, k <= l, NEW m \in Nat
  PROVE  k * m <= l * m /\ k * m \in Nat /\ l * m \in Nat
  <1>1. PICK d \in Nat : l = k + d
    <2>1. l - k \in Nat /\ l = k + (l - k)
      OBVIOUS
    <2>2. QED
      BY <2>1
  <1>2. l * m = k * m + d * m /\ d * m \in Nat /\ k * m \in Nat
    BY <1>1
  <1>3. QED
    BY <1>2

LEMMA TracedBounds ==
  ASSUME OInv, Entered, Absorbing, NEW a \in Ages, NEW s \in Stamps, Traced(a, s)
  PROVE  Occupied <= cacheMax + 2 * Cardinality(Threads) * MaxEntry
  <1> DEFINE Young(c) == {i \in DOMAIN slots[c] : a[c][i] > 0}
             Old(c) == {i \in DOMAIN slots[c] : a[c][i] = 0}
             Numbers(c) == {a[c][i] : i \in Young(c)}
             most == 2 * Cardinality(Threads)
             n(c) == Cardinality(Young(c))
  <1>1. most \in Nat /\ IsFiniteSet(1..most) /\ Cardinality(1..most) = most
    <2>1. most \in Nat
      BY OpCacheAssumption, FS_CardinalityType
    <2> HIDE DEF most
    <2>2. IsFiniteSet(1..most) /\ Cardinality(1..most) = IF 1 > most THEN 0 ELSE most - 1 + 1
      BY <2>1, FS_Interval
    <2>3. QED
      BY <2>1, <2>2
  <1>2. ASSUME NEW c \in Caches
        PROVE  /\ IsTable(slots[c]) /\ \A i \in DOMAIN slots[c] : a[c][i] \in Nat
               /\ DOMAIN slots[c] \ Old(c) = Young(c)
    <2>1. IsTable(slots[c])
      BY DEF OInv, Typed
    <2>2. \A i \in DOMAIN slots[c] : a[c][i] \in Nat
      BY SlotNumber DEF Ages
    <2>3. QED
      BY <2>1, <2>2
  <1>3. ASSUME NEW c \in Caches
        PROVE  /\ Numbers(c) \subseteq 1..most
               /\ IsFiniteSet(Numbers(c)) /\ Cardinality(Numbers(c)) \in Nat
               /\ n(c) \in Nat /\ n(c) <= Cardinality(Numbers(c))
    <2>1. ASSUME NEW i \in Young(c) PROVE a[c][i] \in 1..most
      <3>1. a[c][i] \in Nat /\ a[c][i] > 0 /\ Balanced(call, wipeOdd, s, c, i, a[c][i])
        BY <1>2 DEF Traced
      <3>2. a[c][i] <= most
        BY <3>1, BalancedAge
      <3> HIDE DEF most
      <3>3. QED
        BY <1>1, <3>1, <3>2
    <2>2. Numbers(c) \subseteq 1..most
      <3> HIDE DEF Young, most
      <3>1. QED
        BY <2>1
    <2>3. IsFiniteSet(Numbers(c)) /\ Cardinality(Numbers(c)) \in Nat
      <3> HIDE DEF Numbers, most
      <3>1. QED
        BY <1>1, <2>2, FS_Subset, FS_CardinalityType
    <2>4. IsFiniteSet(Young(c)) /\ n(c) \in Nat
      <3>1. IsFiniteSet(DOMAIN slots[c]) /\ Young(c) \subseteq DOMAIN slots[c]
        BY <1>2 DEF IsTable
      <3> HIDE DEF Young
      <3>2. QED
        BY <3>1, FS_Subset, FS_CardinalityType
    <2>5. \A i, j \in Young(c) : a[c][i] = a[c][j] => i = j
      BY DEF Traced
    <2>6. \A i \in Young(c) : a[c][i] \in Numbers(c)
      OBVIOUS
    <2>7. n(c) <= Cardinality(Numbers(c))
      <3> DEFINE f == a[c]
      <3>1. (\A i \in Young(c) : f[i] \in Numbers(c)) /\ \A i, j \in Young(c) : f[i] = f[j] => i = j
        BY <2>5, <2>6
      <3> HIDE DEF Young, Numbers, f
      <3>2. QED
        BY <2>3, <2>4, <3>1, Numbered
    <2>8. QED
      BY <2>2, <2>3, <2>4, <2>7
  <1>4. "op" \in Caches /\ "size" \in Caches /\ "op" # "size"
    BY DEF Caches
  <1>5. Numbers("op") \cap Numbers("size") = {}
    <2>1. ASSUME NEW i \in Young("op"), NEW j \in Young("size"), a["op"][i] = a["size"][j]
          PROVE  FALSE
      BY <1>4, <2>1 DEF Traced
    <2>2. QED
      <3> HIDE DEF Young
      <3>1. QED
        BY <2>1
  <1>6. n("op") + n("size") <= most
    <2> DEFINE p == Numbers("op")
               q == Numbers("size")
    <2>1. /\ p \subseteq 1..most /\ q \subseteq 1..most /\ IsFiniteSet(p) /\ IsFiniteSet(q)
          /\ p \cap q = {} /\ Cardinality(p) \in Nat /\ Cardinality(q) \in Nat
      BY <1>3, <1>4, <1>5
    <2>2. n("op") \in Nat /\ n("size") \in Nat
          /\ n("op") <= Cardinality(p) /\ n("size") <= Cardinality(q)
      BY <1>3, <1>4
    <2> HIDE DEF p, q, n, most
    <2>3. Cardinality(p \cup q) = Cardinality(p) + Cardinality(q) /\ IsFiniteSet(p \cup q)
      <3>1. Cardinality(p \cap q) = 0
        BY <2>1, FS_EmptySet
      <3>2. QED
        BY <2>1, <3>1, FS_Union
    <2>4. Cardinality(p \cup q) <= most
      <3>1. p \cup q \in SUBSET (1..most)
        BY <2>1
      <3>2. QED
        BY <1>1, <3>1, FS_Subset
    <2>5. QED
      BY <1>1, <2>1, <2>2, <2>3, <2>4
  <1>7. MaxEntry \in Nat
    BY MaxEntryIs
  <1>8. ASSUME NEW c \in Caches
        PROVE  /\ SumFunction(slots[c]) <= OldBytes(slots[c], a[c]) + n(c) * MaxEntry
               /\ SumFunction(slots[c]) \in Nat /\ OldBytes(slots[c], a[c]) \in Nat
    <2>1. IsFiniteSet(DOMAIN slots[c]) /\ \A i \in DOMAIN slots[c] : slots[c][i] \in Nat
      BY <1>2 DEF IsTable
    <2>2. \A i \in DOMAIN slots[c] : slots[c][i] <= MaxEntry
      BY DEF Entered
    <2>3. Old(c) \in SUBSET DOMAIN slots[c]
      OBVIOUS
    <2>4. DOMAIN slots[c] \ Old(c) = Young(c)
      BY <1>2
    <2> DEFINE f == slots[c]
               o == Old(c)
               D == DOMAIN slots[c]
    <2>5. /\ IsFiniteSet(D) /\ (\A x \in D : f[x] \in Nat) /\ o \in SUBSET D
          /\ \A x \in D \ o : f[x] <= MaxEntry
      BY <2>1, <2>2, <2>3
    <2> HIDE DEF f, o, D
    <2>6. /\ SumFunctionOnSet(f, o) \in Nat /\ SumFunctionOnSet(f, D) \in Nat
          /\ SumFunctionOnSet(f, D) <= SumFunctionOnSet(f, o) + Cardinality(D \ o) * MaxEntry
      BY <1>7, <2>5, SumOfPart
    <2>7. QED
      BY <2>4, <2>6 DEF SumFunction, OldBytes, f, o, D
  <1>9. /\ TablesSize + OldBytes(slots["op"], a["op"]) + OldBytes(slots["size"], a["size"])
             <= cacheMax
        /\ cacheMax \in Int /\ TablesSize \in Nat
    <2>1. nSlots["op"] \in Nat /\ nSlots["size"] \in Nat
      BY <1>4 DEF OInv, Typed
    <2>2. QED
      BY <2>1, CacheMaxIs DEF Traced, TablesSize, TableBytes, BytesPerSlot, Unlimited
  <1>10. n("op") \in Nat /\ n("size") \in Nat
    BY <1>3, <1>4
  <1> HIDE DEF n, most
  <1>11. /\ (n("op") + n("size")) * MaxEntry <= most * MaxEntry
         /\ (n("op") + n("size")) * MaxEntry = n("op") * MaxEntry + n("size") * MaxEntry
         /\ n("op") * MaxEntry \in Nat /\ n("size") * MaxEntry \in Nat /\ most * MaxEntry \in Nat
    <2>1. n("op") + n("size") \in Nat
      BY <1>10
    <2>2. (n("op") + n("size")) * MaxEntry <= most * MaxEntry /\ most * MaxEntry \in Nat
      BY <1>1, <1>6, <1>7, <2>1, AtMostTimes
    <2>3. QED
      BY <1>7, <1>10, <2>2
  <1>12. Occupied <= cacheMax + most * MaxEntry
    <2> DEFINE x == n("op") * MaxEntry
               y == n("size") * MaxEntry
               z == most * MaxEntry
    <2>1. x + y <= z /\ x \in Nat /\ y \in Nat /\ z \in Nat
      BY <1>11
    <2>2. SumFunction(slots["op"]) <= OldBytes(slots["op"], a["op"]) + x
          /\ SumFunction(slots["size"]) <= OldBytes(slots["size"], a["size"]) + y
          /\ SumFunction(slots["op"]) \in Nat /\ OldBytes(slots["op"], a["op"]) \in Nat
          /\ SumFunction(slots["size"]) \in Nat /\ OldBytes(slots["size"], a["size"]) \in Nat
      BY <1>4, <1>8
    <2> HIDE DEF x, y, z
    <2>3. TablesSize + SumFunction(slots["op"]) + SumFunction(slots["size"]) <= cacheMax + z
      BY <1>9, <2>1, <2>2
    <2>4. QED
      BY <2>3 DEF Occupied, z
  <1>13. QED
    BY <1>12 DEF most

\* Halving bounds the caches (clear_caches_if_over, manager.rs): since the
\* last growth has been absorbed, what the tables and their entries occupy
\* exceeds cache_max by at most two entries for each thread, for any number
\* of threads that check, halve and store in any order.
THEOREM OccupancyBounded == Spec => []SizeBounded
  <1>1. Init => SInv /\ Entered
    <2> SUFFICES ASSUME Init PROVE SInv /\ Entered
      OBVIOUS
    <2>1. SInv
      BY DEF Init, SInv, Absorbing
    <2>2. Entered
      BY Empty DEF Init, Entered
    <2>3. QED
      BY <2>1, <2>2
  <1>2. OInv /\ OInv' /\ SInv /\ Entered /\ [Next]_vars => SInv' /\ Entered'
    BY EnteredKept, TracedKept
  <1>3. OInv /\ SInv /\ Entered => SizeBounded
    <2> SUFFICES ASSUME OInv, SInv, Entered, Absorbing
                 PROVE  Occupied <= cacheMax + 2 * Cardinality(Threads) * MaxEntry
      BY DEF SizeBounded, Absorbing
    <2>1. PICK a \in Ages, s \in Stamps : Traced(a, s)
      BY DEF SInv
    <2>2. QED
      BY <2>1, TracedBounds
  <1>4. QED
    BY <1>1, <1>2, <1>3, AccountsHold, PTL DEF Spec

=============================================================================
