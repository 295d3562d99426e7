-------------------------- MODULE OwnedFormsProofs --------------------------
(***************************************************************************)
(* The owned forms of OwnedForms, for every finite set of values and every *)
(* form: what is made of a family is accepted and loads back to it, and    *)
(* what is accepted loads to the one diagram of what it spells.            *)
(*                                                                         *)
(* A form that is accepted has no fault at any node (AcceptedParts), so    *)
(* every child has a lower index and a greater value: by induction on the  *)
(* index, what is loaded stands for the sets that are spelt (LoadExact).   *)
(*                                                                         *)
(* The search of to_owned_zdds_with_mapping keeps a stack; it is first     *)
(* shown to visit what the plain recursion would (DfsIs).  The recursion   *)
(* keeps the children of a node before it and every node once              *)
(* (VisitCloses), and visits nothing that the families do not reach        *)
(* (VisitStays), so that the test of the form finds no fault and no node   *)
(* unvisited (FormAccepted).                                               *)
(***************************************************************************)
EXTENDS AlgebraProofs

-----------------------------------------------------------------------------
(***************************************************************************)
(* check_validity                                                          *)
(*                                                                         *)
(* What the search reaches is the least set with the roots and the         *)
(* children of its nodes without a fault.                                  *)
(***************************************************************************)
NodeLists == Seq(OwnedNodes)
Indices == SUBSET Nat
Searches == Indices \X Indices

Opens(nodes, S) == \A x \in S : Fault(nodes, x) = "none" => Children(nodes, x) \subseteq S

LEMMA NodeListParts ==
  ASSUME NEW nodes \in NodeLists
  PROVE  /\ Len(nodes) \in Nat /\ DOMAIN nodes = 1 .. Len(nodes)
         /\ \A i \in DOMAIN nodes : /\ nodes[i].value \in Elements
                                    /\ nodes[i].lo \in Nat /\ nodes[i].hi \in Nat
         /\ \A x \in Nat : x - 1 \in DOMAIN nodes <=> x \in 2 .. Len(nodes) + 1
         /\ \A x \in 2 .. Len(nodes) + 1 : /\ NodeAt(nodes, x).value \in Elements
                                           /\ NodeAt(nodes, x).lo \in Nat
                                           /\ NodeAt(nodes, x).hi \in Nat
  <1>1. Len(nodes) \in Nat /\ DOMAIN nodes = 1 .. Len(nodes)
          /\ \A i \in 1 .. Len(nodes) : nodes[i] \in OwnedNodes
    BY LenProperties, ElementOfSeq DEF NodeLists
  <1>2. \A i \in DOMAIN nodes : /\ nodes[i].value \in Elements
                                /\ nodes[i].lo \in Nat /\ nodes[i].hi \in Nat
    BY <1>1 DEF OwnedNodes
  <1>3. ASSUME NEW x \in Nat PROVE x - 1 \in DOMAIN nodes <=> x \in 2 .. Len(nodes) + 1
    BY <1>1
  <1>4. QED
    BY <1>1, <1>2, <1>3 DEF NodeAt

LEMMA ChildrenParts ==
  ASSUME NEW nodes \in NodeLists
  PROVE  /\ \A x \in Nat : Fault(nodes, x) # "panic" => x \in 2 .. Len(nodes) + 1
         /\ \A x \in 2 .. Len(nodes) + 1 :
              Children(nodes, x) \subseteq Nat /\ IsFiniteSet(Children(nodes, x))
         /\ \A S \in Indices : Below(nodes, S) \in Indices
  <1>1. ASSUME NEW x \in Nat, Fault(nodes, x) # "panic" PROVE x \in 2 .. Len(nodes) + 1
    BY <1>1, NodeListParts DEF Fault
  <1>2. ASSUME NEW x \in 2 .. Len(nodes) + 1
        PROVE  Children(nodes, x) \subseteq Nat /\ IsFiniteSet(Children(nodes, x))
    <2> DEFINE P == {NodeAt(nodes, x).lo, NodeAt(nodes, x).hi}
    <2>1. P \subseteq Nat
      BY NodeListParts
    <2>2. IsFiniteSet(P)
      <3> DEFINE l == NodeAt(nodes, x).lo
                 h == NodeAt(nodes, x).hi
      <3> HIDE DEF l, h
      <3>1. IsFiniteSet({l}) /\ IsFiniteSet({h})
        BY FS_Singleton
      <3>2. IsFiniteSet({l} \cup {h})
        BY <3>1, FS_Union
      <3>3. {l} \cup {h} = {l, h}
        OBVIOUS
      <3>4. IsFiniteSet({l, h})
        BY <3>2, <3>3
      <3>5. QED
        BY <3>4 DEF l, h
    <2>3. Children(nodes, x) \subseteq P
      BY DEF Children
    <2> HIDE DEF P
    <2>4. QED
      BY <2>1, <2>2, <2>3, FS_Subset
  <1>3. ASSUME NEW S \in Indices PROVE Below(nodes, S) \in Indices
    <2>1. ASSUME NEW x \in S, Fault(nodes, x) = "none" PROVE Children(nodes, x) \subseteq Nat
      <3>1. x \in Nat /\ Fault(nodes, x) # "panic"
        BY <2>1 DEF Indices
      <3>2. QED
        BY <3>1, <1>1, <1>2
    <2>2. QED
      BY <2>1 DEF Below, Indices
  <1>4. QED
    BY <1>1, <1>2, <1>3

\* The children that are not visited yet get fewer.
AllChildren(nodes) == UNION {Children(nodes, x) : x \in 2 .. Len(nodes) + 1}

LEMMA SearchRanks ==
  ASSUME NEW nodes \in NodeLists
  PROVE  \E rank \in [Searches -> Nat] :
           \A p \in Searches : p[1] # {} =>
             LET new == Below(nodes, p[1]) \ p[2] IN
             rank[<<new, p[2] \cup new>>] < rank[p]
  <1> DEFINE C == AllChildren(nodes)
             left(S) == Cardinality(C \ S)
             rank == [p \in Searches |-> IF p[1] = {} THEN 0 ELSE 1 + left(p[2])]
  <1>1. IsFiniteSet(C)
    <2> DEFINE I == 2 .. Len(nodes) + 1
               T == {Children(nodes, x) : x \in I}
    <2>1. IsFiniteSet(I)
      BY NodeListParts, FS_Interval
    <2>2. IsFiniteSet(T)
      <3> DEFINE m == [x \in I |-> Children(nodes, x)]
      <3> HIDE DEF I
      <3>1. m \in Surjection(I, T)
        BY DEF Surjection
      <3> HIDE DEF m, T
      <3>2. QED
        BY <2>1, <3>1, FS_Surjection
    <2>3. \A S \in T : IsFiniteSet(S)
      BY ChildrenParts
    <2> HIDE DEF T
    <2>4. IsFiniteSet(UNION T)
      BY <2>2, <2>3, FS_UNION
    <2>5. QED
      BY <2>4 DEF AllChildren, T, I
  <1> HIDE DEF C
  <1>2. \A S : left(S) \in Nat
    BY <1>1, FS_Subset, FS_CardinalityType
  <1>3. rank \in [Searches -> Nat]
    BY <1>2
  <1>4. ASSUME NEW p \in Searches, p[1] # {}
        PROVE  rank[<<Below(nodes, p[1]) \ p[2], p[2] \cup (Below(nodes, p[1]) \ p[2])>>] < rank[p]
    <2> DEFINE new == Below(nodes, p[1]) \ p[2]
               visited == p[2] \cup new
               q == <<new, visited>>
    <2>0. p[1] \in Indices /\ p[2] \in Indices
      BY DEF Searches
    <2>1. new \in Indices /\ visited \in Indices
      BY <2>0, ChildrenParts DEF Indices
    <2>2. new \subseteq C /\ new \cap p[2] = {}
      <3>1. ASSUME NEW x \in p[1], Fault(nodes, x) = "none" PROVE x \in 2 .. Len(nodes) + 1
        <4>1. x \in Nat /\ Fault(nodes, x) # "panic"
          BY <2>0, <3>1 DEF Indices
        <4>2. QED
          BY <4>1, ChildrenParts
      <3>2. Below(nodes, p[1]) \subseteq C
        BY <3>1 DEF Below, C, AllChildren
      <3>3. QED
        BY <3>2
    <2> HIDE DEF new
    <2>3. q \in Searches /\ q[1] = new /\ q[2] = visited
      BY <2>1 DEF Searches
    <2>4. rank[p] = 1 + left(p[2]) /\ rank[q] = IF new = {} THEN 0 ELSE 1 + left(visited)
      BY <1>4, <2>3
    <2>5. ASSUME new # {} PROVE left(visited) < left(p[2])
      <3>1. PICK c \in new : TRUE
        BY <2>5
      <3>2. C \ visited \subseteq C \ p[2] /\ c \in C \ p[2] /\ c \notin C \ visited
        BY <2>2, <3>1
      <3>3. IsFiniteSet(C \ p[2])
        BY <1>1, FS_Subset
      <3>4. Cardinality(C \ visited) <= Cardinality(C \ p[2])
              /\ (Cardinality(C \ visited) = Cardinality(C \ p[2])
                    => C \ visited = C \ p[2])
        BY <3>2, <3>3, FS_Subset
      <3>5. Cardinality(C \ visited) # Cardinality(C \ p[2])
        BY <3>2, <3>4
      <3>6. left(visited) \in Nat /\ left(p[2]) \in Nat
        BY <1>2
      <3>7. QED
        BY <3>4, <3>5, <3>6
    <2> HIDE DEF rank, left, visited
    <2>6. left(visited) \in Nat /\ left(p[2]) \in Nat
      BY <1>2
    <2>7. rank[q] < rank[p]
      BY <2>4, <2>5, <2>6
    <2>8. QED
      BY <2>7 DEF q, visited, new
  <1>5. QED
    <2> HIDE DEF rank
    <2>1. QED
      BY <1>3, <1>4

IsSearch(nodes, u) == u = [p \in Searches |-> SearchStep(u, nodes, p[1], p[2])]

LEMMA SearchNext ==
  ASSUME NEW nodes \in NodeLists, NEW p \in Searches
  PROVE  LET new == Below(nodes, p[1]) \ p[2] IN
         /\ p[1] \in Indices /\ p[2] \in Indices /\ p = <<p[1], p[2]>>
         /\ new \in Indices /\ p[2] \cup new \in Indices /\ <<new, p[2] \cup new>> \in Searches
  BY ChildrenParts DEF Searches, Indices

LEMMA SearchExists ==
  ASSUME NEW nodes \in NodeLists
  PROVE  \E S \in [Searches -> Indices] : IsSearch(nodes, S)
  <1>1. PICK rank \in [Searches -> Nat] :
          \A p \in Searches : p[1] # {} =>
            LET new == Below(nodes, p[1]) \ p[2] IN
            rank[<<new, p[2] \cup new>>] < rank[p]
    BY SearchRanks
  <1> DEFINE step == [x \in Searches \X [Searches -> Indices] |->
                        SearchStep(x[2], nodes, x[1][1], x[1][2])]
  <1>2. ASSUME NEW p \in Searches, NEW S \in [Searches -> Indices]
        PROVE  SearchStep(S, nodes, p[1], p[2]) \in Indices
    BY SearchNext DEF SearchStep
  <1>3. step \in [Searches \X [Searches -> Indices] -> Indices]
    BY <1>2
  <1>4. ASSUME NEW p \in Searches, NEW S \in [Searches -> Indices],
               NEW M \in [Searches -> Indices], Agree(Searches, rank, rank[p], S, M)
        PROVE  step[<<p, S>>] = step[<<p, M>>]
    <2>1. SearchStep(S, nodes, p[1], p[2]) = SearchStep(M, nodes, p[1], p[2])
      BY <1>1, <1>4, SearchNext DEF SearchStep, Agree
    <2>2. QED
      BY <2>1
  <1>5. \A p \in Searches, S \in [Searches -> Indices] :
          step[<<p, S>>] = SearchStep(S, nodes, p[1], p[2])
    OBVIOUS
  <1>6. {} \in Indices
    BY DEF Indices
  <1> HIDE DEF step
  <1>7. Ranked(Searches, Indices, rank, step)
    BY <1>3, <1>4, <1>6 DEF Ranked, Lowers
  <1>8. PICK S \in [Searches -> Indices] : \A p \in Searches : S[p] = step[<<p, S>>]
    BY <1>7, Recursion DEF Solvable
  <1>9. IsSearch(nodes, S)
    <2>1. \A p \in Searches : S[p] = SearchStep(S, nodes, p[1], p[2])
      BY <1>5, <1>8
    <2>2. QED
      BY <2>1 DEF IsSearch
  <1>10. QED
    BY <1>9

LEMMA ReachedLeast ==
  ASSUME NEW nodes \in NodeLists, NEW roots \in Indices
  PROVE  /\ Reached(nodes, roots) \in Indices
         /\ roots \subseteq Reached(nodes, roots)
         /\ Opens(nodes, Reached(nodes, roots))
         /\ \A S \in Indices : roots \subseteq S /\ Opens(nodes, S)
                                 => Reached(nodes, roots) \subseteq S
  <1> DEFINE search == CHOOSE u : IsSearch(nodes, u)
  <1>1. IsSearch(nodes, search)
    BY SearchExists
  <1>2. Reached(nodes, roots) = search[<<roots, roots>>]
    BY DEF Reached, IsSearch, Searches, Indices
  <1> HIDE DEF search
  <1>3. \A p \in Searches : search[p] = SearchStep(search, nodes, p[1], p[2])
    BY <1>1 DEF IsSearch
  <1>4. PICK rank \in [Searches -> Nat] :
          \A p \in Searches : p[1] # {} =>
            LET new == Below(nodes, p[1]) \ p[2] IN
            rank[<<new, p[2] \cup new>>] < rank[p]
    BY SearchRanks
  <1> DEFINE \* All that is visited is on the stack or has its children visited.
             Mid(p) == /\ p[1] \subseteq p[2]
                       /\ \A x \in p[2] \ p[1] : Fault(nodes, x) = "none"
                                                   => Children(nodes, x) \subseteq p[2]
             Right(p) == /\ search[p] \in Indices /\ p[2] \subseteq search[p]
                         /\ Opens(nodes, search[p])
                         /\ \A S \in Indices : p[2] \subseteq S /\ Opens(nodes, S)
                                                 => search[p] \subseteq S
             Good == {p \in Searches : Mid(p) => Right(p)}
  <1>5. ASSUME NEW p \in Searches, \A q \in Searches : rank[q] < rank[p] => q \in Good
        PROVE  p \in Good
    <2>1. CASE ~Mid(p)
      BY <2>1
    <2>2. CASE Mid(p) /\ p[1] = {}
      <3>1. search[p] = p[2]
        BY <1>3, <2>2 DEF SearchStep
      <3>2. Opens(nodes, p[2])
        BY <2>2 DEF Opens
      <3>3. p[2] \in Indices
        BY SearchNext
      <3>4. Right(p)
        BY <3>1, <3>2, <3>3
      <3>5. QED
        BY <3>4
    <2>3. CASE Mid(p) /\ p[1] # {}
      <3> DEFINE new == Below(nodes, p[1]) \ p[2]
                 visited == p[2] \cup new
                 q == <<new, visited>>
      <3>1. q \in Searches /\ q[1] = new /\ q[2] = visited /\ rank[q] < rank[p]
              /\ p[2] \in Indices /\ p[1] \in Indices
        BY <1>4, <2>3, SearchNext
      <3>2. search[p] = search[q]
        BY <1>3, <2>3 DEF SearchStep
      <3>3. \A x \in p[1] : Fault(nodes, x) = "none" => Children(nodes, x) \subseteq visited
        BY DEF Below
      <3>4. \A S \in Indices : p[2] \subseteq S /\ Opens(nodes, S) => visited \subseteq S
        BY <2>3 DEF Below, Opens
      <3> HIDE DEF new
      <3>5. Mid(q)
        <4>1. q[1] \subseteq q[2]
          BY <3>1
        <4>2. ASSUME NEW x \in visited \ new, Fault(nodes, x) = "none"
              PROVE  Children(nodes, x) \subseteq visited
          BY <2>3, <3>3, <4>2
        <4>3. QED
          BY <3>1, <4>1, <4>2
      <3>6. Right(q)
        BY <1>5, <3>1, <3>5
      <3> HIDE DEF q
      <3>7. Right(p)
        <4>1. search[p] \in Indices /\ Opens(nodes, search[p])
          BY <3>2, <3>6
        <4>2. p[2] \subseteq search[p]
          BY <3>1, <3>2, <3>6
        <4>3. ASSUME NEW S \in Indices, p[2] \subseteq S, Opens(nodes, S)
              PROVE  search[p] \subseteq S
          BY <3>1, <3>2, <3>4, <3>6, <4>3
        <4>4. QED
          BY <4>1, <4>2, <4>3
      <3>8. QED
        BY <3>7
    <2>4. QED
      BY <2>1, <2>2, <2>3
  <1>6. Searches \subseteq Good
    <2> HIDE DEF Good
    <2>1. QED
      BY <1>5, RankInduction
  <1>7. <<roots, roots>> \in Good
    BY <1>6 DEF Searches
  <1>8. Right(<<roots, roots>>)
    BY <1>7
  <1>9. QED
    BY <1>2, <1>8

-----------------------------------------------------------------------------
(***************************************************************************)
(* Loading                                                                 *)
(*                                                                         *)
(* By induction on the index: every child is at a lower one.               *)
(***************************************************************************)
\* A form without a fault.
Sound(nodes) == \A x \in 2 .. Len(nodes) + 1 : Fault(nodes, x) = "none"

Last(nodes) == Len(nodes) + 1

LEMMA SoundParts ==
  ASSUME NEW nodes \in NodeLists, Sound(nodes), NEW x \in 2 .. Last(nodes)
  PROVE  LET n == NodeAt(nodes, x) IN
         /\ n.value \in Elements /\ n.lo \in 0 .. Last(nodes) /\ n.hi \in 0 .. Last(nodes)
         /\ \A c \in {n.lo, n.hi} :
              c < x /\ (c >= 2 => c \in 2 .. Last(nodes) /\ n.value < NodeAt(nodes, c).value)
  <1> DEFINE n == NodeAt(nodes, x)
             N == Last(nodes)
  <1>1. n.value \in Elements /\ n.lo \in Nat /\ n.hi \in Nat /\ N \in Nat
    BY NodeListParts DEF Last
  <1>2. /\ \A c \in Children(nodes, x) : ~(x < c)
        /\ \A c \in Children(nodes, x) : ~(NodeAt(nodes, c).value <= n.value)
    BY DEF Sound, Fault, Last
  <1>3. ASSUME NEW c \in {n.lo, n.hi}, c >= 2
        PROVE  c < x /\ c \in 2 .. N /\ n.value < NodeAt(nodes, c).value
    <2>1. c \in Children(nodes, x) /\ c \in Nat
      BY <1>1, <1>3 DEF Children
    <2>2. ~(x < c) /\ ~(NodeAt(nodes, c).value <= n.value)
      BY <1>2, <2>1
    <2>3. x \in Nat /\ x <= N
      BY <1>1
    <2>4. c \in 2 .. N
      BY <1>1, <1>3, <2>1, <2>2, <2>3
    <2>5. NodeAt(nodes, c).value \in Elements
      BY <2>4, NodeListParts DEF Last
    <2>6. NodeAt(nodes, c).value \in Nat /\ n.value \in Nat
      BY <1>1, <2>5, TopExact
    <2>7. c # x
      BY <2>2, <2>6
    <2>8. QED
      BY <2>1, <2>2, <2>3, <2>4, <2>6, <2>7
  <1> HIDE DEF n
  <1>4. ASSUME NEW c \in {n.lo, n.hi}, ~(c >= 2) PROVE c < x /\ c \in 0 .. N
    BY <1>1, <1>4
  <1>5. \A c \in {n.lo, n.hi} : c < x /\ c \in 0 .. N /\ (c >= 2 => c \in 2 .. N)
    <2>1. ASSUME NEW c \in {n.lo, n.hi} PROVE c < x /\ c \in 0 .. N /\ (c >= 2 => c \in 2 .. N)
      <3>1. CASE c >= 2
        BY <1>1, <1>3, <3>1 DEF n
      <3>2. CASE ~(c >= 2)
        BY <1>1, <1>4, <3>2
      <3>3. QED
        BY <3>1, <3>2
    <2>2. QED
      BY <2>1
  <1>6. n.lo \in 0 .. N /\ n.hi \in 0 .. N
    BY <1>5
  <1>7. QED
    BY <1>1, <1>3, <1>5, <1>6 DEF n, N

\* By induction on the position of a node.
LEMMA PositionInduction ==
  ASSUME NEW N \in Nat, NEW S,
         \A x \in 0 .. N : (\A y \in 0 .. N : y < x => y \in S) => x \in S
  PROVE  0 .. N \subseteq S
  <1> DEFINE D == 0 .. N
             rank == [x \in D |-> x]
  <1>1. rank \in [D -> Nat] /\ \A x \in D : rank[x] = x
    OBVIOUS
  <1> HIDE DEF rank
  <1>2. \A x \in D : (\A y \in D : rank[y] < rank[x] => y \in S) => x \in S
    BY <1>1
  <1> HIDE DEF D
  <1>3. QED
    <2>1. D \subseteq S
      BY <1>1, <1>2, RankInduction
    <2>2. QED
      BY <2>1 DEF D

IsSpelt(nodes, u) == u = [x \in 0 .. Last(nodes) |-> SpeltStep(u, nodes, x)]
IsMapping(nodes, u) == u = [x \in 0 .. Last(nodes) |-> Load(u, nodes, x)]

\* The positions before x.
Positional(N, R, step) ==
  /\ R # {} /\ step \in [(0 .. N) \X [0 .. N -> R] -> R]
  /\ \A x \in 0 .. N : \A F1, F2 \in [0 .. N -> R] :
       (\A y \in 0 .. N : y < x => F1[y] = F2[y]) => step[<<x, F1>>] = step[<<x, F2>>]

LEMMA PositionSolved ==
  ASSUME NEW N \in Nat, NEW R, NEW step, Positional(N, R, step)
  PROVE  \E S \in [0 .. N -> R] : \A x \in 0 .. N : S[x] = step[<<x, S>>]
  <1> DEFINE D == 0 .. N
             rank == [x \in D |-> x]
  <1>0. step \in [D \X [D -> R] -> R] /\ R # {}
    BY DEF Positional
  <1>p. \A x \in D : \A F1, F2 \in [D -> R] :
          (\A y \in D : y < x => F1[y] = F2[y]) => step[<<x, F1>>] = step[<<x, F2>>]
    BY DEF Positional
  <1>1. rank \in [D -> Nat] /\ \A x \in D : rank[x] = x
    OBVIOUS
  <1> HIDE DEF rank
  <1>2. Lowers(D, R, rank, step)
    <2>1. ASSUME NEW x \in D, NEW F1 \in [D -> R], NEW F2 \in [D -> R],
                 Agree(D, rank, rank[x], F1, F2)
          PROVE  step[<<x, F1>>] = step[<<x, F2>>]
      <3>1. \A y \in D : y < x => F1[y] = F2[y]
        BY <1>1, <2>1 DEF Agree
      <3>2. QED
        BY <3>1, <1>p
    <2> HIDE DEF D
    <2>2. QED
      BY <2>1 DEF Lowers
  <1>3. Ranked(D, R, rank, step)
    <2> HIDE DEF D
    <2>1. QED
      BY <1>0, <1>1, <1>2 DEF Ranked
  <1>4. Solvable(D, R, step)
    <2> HIDE DEF D
    <2>1. QED
      BY <1>3, Recursion
  <1>5. QED
    BY <1>4 DEF Solvable

LEMMA SpeltExists ==
  ASSUME NEW nodes \in NodeLists, Sound(nodes)
  PROVE  \E u \in [0 .. Last(nodes) -> Families] : IsSpelt(nodes, u)
  <1> DEFINE N == Last(nodes)
             D == 0 .. N
             step == [x \in D \X [D -> Families] |-> SpeltStep(x[2], nodes, x[1])]
  <1>0. N \in Nat
    BY NodeListParts DEF Last
  <1>1. \A x \in D : x # 0 /\ x # 1 => x \in 2 .. N
    BY <1>0
  <1>2. ASSUME NEW x \in D, NEW u \in [D -> Families] PROVE SpeltStep(u, nodes, x) \in Families
    <2>1. CASE x = 0 \/ x = 1
      BY <2>1 DEF SpeltStep, Families
    <2>2. CASE x # 0 /\ x # 1
      <3> DEFINE n == NodeAt(nodes, x)
      <3>1. n.value \in Elements /\ n.lo \in D /\ n.hi \in D
        BY <1>1, <2>2, SoundParts
      <3> HIDE DEF n, D
      <3>2. u[n.lo] \in Families /\ u[n.hi] \in Families
        BY <3>1
      <3>3. u[n.lo] \cup With(n.value, u[n.hi]) \in Families
        BY <3>1, <3>2 DEF With, Families
      <3>4. QED
        BY <2>2, <3>3 DEF SpeltStep, n
    <2>3. QED
      BY <2>1, <2>2
  <1>3. step \in [D \X [D -> Families] -> Families]
    BY <1>2
  <1>4. ASSUME NEW x \in D, NEW u \in [D -> Families], NEW w \in [D -> Families],
               \A y \in D : y < x => u[y] = w[y]
        PROVE  step[<<x, u>>] = step[<<x, w>>]
    <2>1. SpeltStep(u, nodes, x) = SpeltStep(w, nodes, x)
      <3>1. CASE x = 0 \/ x = 1
        BY <3>1 DEF SpeltStep
      <3>2. CASE x # 0 /\ x # 1
        <4> DEFINE n == NodeAt(nodes, x)
        <4>1. n.lo \in D /\ n.hi \in D /\ n.lo < x /\ n.hi < x
          BY <1>1, <3>2, SoundParts
        <4>2. u[n.lo] = w[n.lo] /\ u[n.hi] = w[n.hi]
          BY <1>4, <4>1
        <4>3. QED
          BY <4>2 DEF SpeltStep
      <3>3. QED
        BY <3>1, <3>2
    <2>2. QED
      BY <2>1
  <1>5. \A x \in D, u \in [D -> Families] : step[<<x, u>>] = SpeltStep(u, nodes, x)
    OBVIOUS
  <1>6. Families # {}
    BY DEF Families
  <1> HIDE DEF step, N
  <1>7. PICK u \in [D -> Families] : \A x \in D : u[x] = step[<<x, u>>]
    <2>1. \A x \in 0 .. N : \A u, w \in [0 .. N -> Families] :
            (\A y \in 0 .. N : y < x => u[y] = w[y]) => step[<<x, u>>] = step[<<x, w>>]
      BY <1>4
    <2>2. Positional(N, Families, step)
      BY <2>1, <1>3, <1>6 DEF Positional
    <2>3. QED
      BY <1>0, <2>2, PositionSolved
  <1>8. u = [x \in D |-> SpeltStep(u, nodes, x)]
    BY <1>5, <1>7
  <1>9. QED
    BY <1>8 DEF IsSpelt, N

\* Loading a node whose children have been loaded.
LEMMA LoadStepExact ==
  ASSUME NEW nodes \in NodeLists, Sound(nodes), NEW x \in 0 .. Last(nodes), NEW u, NEW w,
         w[x] = SpeltStep(w, nodes, x),
         \A y \in 0 .. Last(nodes) : y < x =>
           Is(u[y], w[y]) /\ (y >= 2 => w[y] \subseteq AtLeast(NodeAt(nodes, y).value))
           /\ (y < 2 => w[y] \subseteq {{}})
  PROVE  /\ Is(Load(u, nodes, x), w[x])
         /\ x >= 2 => w[x] \subseteq AtLeast(NodeAt(nodes, x).value)
         /\ x < 2 => w[x] \subseteq {{}}
  <1> DEFINE N == Last(nodes)
  <1>0. N \in Nat
    BY NodeListParts DEF Last
  <1>1. CASE x = 0
    <2>1. w[x] = {} /\ Load(u, nodes, x) = Zero
      BY <1>1 DEF SpeltStep, Load
    <2>2. QED
      BY <1>1, <2>1, TerminalDiagrams, FamilyParts DEF Is
  <1>2. CASE x = 1
    <2>1. w[x] = {{}} /\ Load(u, nodes, x) = One
      BY <1>2 DEF SpeltStep, Load
    <2>2. QED
      <3>1. Is(One, {{}})
        BY TerminalDiagrams, FamilyParts DEF Is
      <3>2. ~(x >= 2)
        BY <1>2
      <3>3. QED
        BY <2>1, <3>1, <3>2
  <1>3. CASE x # 0 /\ x # 1
    <2> DEFINE n == NodeAt(nodes, x)
               v == n.value
               A == w[n.lo]
               B == w[n.hi]
    <2>1. x \in 2 .. N /\ x >= 2 /\ ~(x < 2)
      BY <1>0, <1>3
    <2>2. /\ v \in Elements /\ n.lo \in 0 .. N /\ n.hi \in 0 .. N
          /\ \A c \in {n.lo, n.hi} :
               c < x /\ (c >= 2 => c \in 2 .. N /\ v < NodeAt(nodes, c).value)
      BY <2>1, SoundParts
    <2>3. ASSUME NEW c \in {n.lo, n.hi} PROVE Is(u[c], w[c]) /\ w[c] \subseteq Over(v)
      <3>1. c \in 0 .. N /\ c < x
        BY <2>2
      <3>2. Is(u[c], w[c])
        BY <3>1
      <3>3. CASE c >= 2
        <4> DEFINE t == NodeAt(nodes, c).value
        <4>1. w[c] \subseteq AtLeast(t) /\ v < t /\ c \in 2 .. N
          BY <2>2, <3>1, <3>3
        <4>2. t \in Elements
          BY <4>1, NodeListParts DEF Last
        <4> HIDE DEF t, v, n
        <4>3. t \in Nat /\ v \in Nat /\ \A e \in Elements : e \in Nat
          BY <4>2, <2>2, TopExact
        <4>4. \A e \in Elements : e >= t => e > v
          BY <4>1, <4>3
        <4>5. AtLeast(t) \subseteq Over(v)
          BY <4>4 DEF AtLeast, Over
        <4>6. QED
          BY <3>2, <4>1, <4>5
      <3>4. CASE ~(c >= 2)
        <4>1. c < 2
          BY <3>1, <3>4
        <4>2. w[c] \subseteq {{}}
          BY <3>1, <4>1
        <4>3. {} \in Over(v)
          BY DEF Over
        <4>4. QED
          BY <3>2, <4>2, <4>3
      <3>5. QED
        BY <3>3, <3>4
    <2>4. Is(u[n.lo], A) /\ Is(u[n.hi], B) /\ A \in SUBSET Over(v) /\ B \in SUBSET Over(v)
      BY <2>3
    <2>5. w[x] = A \cup With(v, B) /\ Load(u, nodes, x) = GetNode(v, u[n.lo], u[n.hi])
      BY <1>3 DEF SpeltStep, Load
    <2> HIDE DEF A, B, v, n
    <2>6. Is(GetNode(v, u[n.lo], u[n.hi]), A \cup With(v, B))
      BY <2>2, <2>4, IsNode
    <2>7. A \cup With(v, B) \subseteq AtLeast(v)
      BY <2>2, <2>4, OverAtLeast
    <2>8. QED
      BY <2>1, <2>5, <2>6, <2>7 DEF v, n
  <1>4. QED
    BY <1>1, <1>2, <1>3

LEMMA LoadExact ==
  ASSUME NEW nodes \in NodeLists, Sound(nodes), NEW u, NEW w,
         IsSpelt(nodes, w), \A x \in 0 .. Last(nodes) :
           u[x] = Load(u, nodes, x) \/ (Load(u, nodes, x) \notin Diagrams)
  PROVE  \A x \in 0 .. Last(nodes) : u[x] = Load(u, nodes, x) /\ Is(u[x], w[x])
  <1> DEFINE N == Last(nodes)
             Good == {x \in 0 .. N :
                        /\ u[x] = Load(u, nodes, x) /\ Is(u[x], w[x])
                        /\ x >= 2 => w[x] \subseteq AtLeast(NodeAt(nodes, x).value)
                        /\ x < 2 => w[x] \subseteq {{}}}
  <1>0. N \in Nat
    BY NodeListParts DEF Last
  <1>1. \A x \in 0 .. N : w[x] = SpeltStep(w, nodes, x)
    BY DEF IsSpelt
  <1>2. ASSUME NEW x \in 0 .. N, \A y \in 0 .. N : y < x => y \in Good
        PROVE  x \in Good
    <2>1. /\ Is(Load(u, nodes, x), w[x])
          /\ x >= 2 => w[x] \subseteq AtLeast(NodeAt(nodes, x).value)
          /\ x < 2 => w[x] \subseteq {{}}
      BY <1>1, <1>2, LoadStepExact
    <2>2. u[x] = Load(u, nodes, x)
      BY <2>1 DEF Is
    <2>3. QED
      BY <2>1, <2>2
  <1>3. 0 .. N \subseteq Good
    <2> HIDE DEF Good
    <2>1. QED
      BY <1>0, <1>2, PositionInduction
  <1>4. QED
    BY <1>3

LEMMA MappingExists ==
  ASSUME NEW nodes \in NodeLists, Sound(nodes)
  PROVE  \E u : IsMapping(nodes, u)
  <1> DEFINE N == Last(nodes)
             D == 0 .. N
             put(z) == IF z \in Diagrams THEN z ELSE Zero
             step == [x \in D \X [D -> Diagrams] |-> put(Load(x[2], nodes, x[1]))]
  <1>0. N \in Nat
    BY NodeListParts DEF Last
  <1>1. \A x \in D : x # 0 /\ x # 1 => x \in 2 .. N
    BY <1>0
  <1>2. \A z : put(z) \in Diagrams
    BY TerminalDiagrams
  <1>3. step \in [D \X [D -> Diagrams] -> Diagrams]
    <2> HIDE DEF put
    <2>1. QED
      BY <1>2
  <1>4. ASSUME NEW x \in D, NEW u \in [D -> Diagrams], NEW w \in [D -> Diagrams],
               \A y \in D : y < x => u[y] = w[y]
        PROVE  step[<<x, u>>] = step[<<x, w>>]
    <2>1. Load(u, nodes, x) = Load(w, nodes, x)
      <3>1. CASE x = 0 \/ x = 1
        BY <3>1 DEF Load
      <3>2. CASE x # 0 /\ x # 1
        <4> DEFINE n == NodeAt(nodes, x)
        <4>1. n.lo \in D /\ n.hi \in D /\ n.lo < x /\ n.hi < x
          BY <1>1, <3>2, SoundParts
        <4>2. u[n.lo] = w[n.lo] /\ u[n.hi] = w[n.hi]
          BY <1>4, <4>1
        <4>3. QED
          BY <4>2 DEF Load
      <3>3. QED
        BY <3>1, <3>2
    <2> HIDE DEF put
    <2>2. QED
      BY <2>1
  <1>5. \A x \in D, u \in [D -> Diagrams] : step[<<x, u>>] = put(Load(u, nodes, x))
    <2> HIDE DEF put
    <2>1. QED
      OBVIOUS
  <1>6. Diagrams # {}
    BY TerminalDiagrams
  <1> HIDE DEF step, N
  <1>7. PICK u \in [D -> Diagrams] : \A x \in D : u[x] = step[<<x, u>>]
    <2> HIDE DEF put
    <2>1. \A x \in 0 .. N : \A u, w \in [0 .. N -> Diagrams] :
            (\A y \in 0 .. N : y < x => u[y] = w[y]) => step[<<x, u>>] = step[<<x, w>>]
      BY <1>4
    <2>2. Positional(N, Diagrams, step)
      BY <2>1, <1>3, <1>6 DEF Positional
    <2>3. QED
      BY <1>0, <2>2, PositionSolved
  <1>8. PICK w : IsSpelt(nodes, w)
    BY SpeltExists
  <1>9. \A x \in D : u[x] = Load(u, nodes, x) \/ Load(u, nodes, x) \notin Diagrams
    BY <1>5, <1>7
  <1>10. \A x \in D : u[x] = Load(u, nodes, x)
    BY <1>8, <1>9, LoadExact DEF N
  <1>11. u = [x \in D |-> Load(u, nodes, x)]
    BY <1>7, <1>10
  <1>12. QED
    BY <1>11 DEF IsMapping, N

\* A form without a fault loads to the one diagram of what it spells.
LEMMA SoundLoads ==
  ASSUME NEW form, form.nodes \in NodeLists, Sound(form.nodes)
  PROVE  \E u : /\ \A x \in 0 .. Last(form.nodes) : u[x] = Load(u, form.nodes, x)
                /\ \A r \in form.roots : ToSetFamilies(form)[r] = u[r]
                /\ \A x \in 0 .. Last(form.nodes) : Is(u[x], Spelt(form.nodes)[x])
  <1> DEFINE nodes == form.nodes
             u == CHOOSE m : IsMapping(nodes, m)
             w == CHOOSE m : IsSpelt(nodes, m)
  <1>1. IsMapping(nodes, u)
    BY MappingExists
  <1>2. IsSpelt(nodes, w)
    BY SpeltExists
  <1>3. ToSetFamilies(form) = [r \in form.roots |-> u[r]]
    BY DEF ToSetFamilies, IsMapping, Last
  <1>4. Spelt(nodes) = w
    BY DEF Spelt, IsSpelt, Last
  <1> HIDE DEF u, w
  <1>5. \A x \in 0 .. Last(nodes) : u[x] = Load(u, nodes, x)
    BY <1>1 DEF IsMapping
  <1>6. \A x \in 0 .. Last(nodes) : Is(u[x], w[x])
    BY <1>2, <1>5, LoadExact
  <1>7. QED
    BY <1>3, <1>4, <1>5, <1>6

-----------------------------------------------------------------------------
(***************************************************************************)
(* Verdicts                                                                *)
(***************************************************************************)
FormSets == [nodes : NodeLists, roots : Indices]

\* The roots that are no terminals, and what the search reaches from them.
NodeRoots(form) == {r \in form.roots : r >= 2}
Found(form) == Reached(form.nodes, NodeRoots(form))

LEMMA FoundParts ==
  ASSUME NEW form \in FormSets
  PROVE  /\ form.nodes \in NodeLists /\ form.roots \in Indices
         /\ Found(form) \in Indices /\ NodeRoots(form) \subseteq Found(form)
         /\ Opens(form.nodes, Found(form))
         /\ \A S \in Indices : NodeRoots(form) \subseteq S /\ Opens(form.nodes, S)
                                 => Found(form) \subseteq S
  <1>1. form.nodes \in NodeLists /\ form.roots \in Indices
    BY DEF FormSets
  <1>2. NodeRoots(form) \in Indices
    BY <1>1 DEF NodeRoots, Indices
  <1>3. QED
    BY <1>1, <1>2, ReachedLeast DEF Found

\* Only a root that is no node makes the search open a node that is not there.
LEMMA OpensNodes ==
  ASSUME NEW form \in FormSets, NEW x \in Found(form), x \notin 2 .. Last(form.nodes)
  PROVE  x \in form.roots /\ x >= Len(form.nodes) + 2
  <1> DEFINE nodes == form.nodes
             N == Last(nodes)
             S == NodeRoots(form) \cup (2 .. N)
  <1>0. nodes \in NodeLists /\ form.roots \in Indices /\ N \in Nat /\ N = Len(nodes) + 1
          /\ Len(nodes) \in Nat
    BY FoundParts, NodeListParts DEF Last
  <1>1. S \in Indices /\ NodeRoots(form) \subseteq S
    BY <1>0 DEF NodeRoots, Indices
  <1>2. Opens(nodes, S)
    <2>1. ASSUME NEW y \in S, Fault(nodes, y) = "none", NEW c \in Children(nodes, y)
          PROVE  c \in 2 .. N
      <3>1. y \in Nat /\ Fault(nodes, y) # "panic"
        BY <1>1, <2>1 DEF Indices
      <3>2. y \in 2 .. N
        BY <3>1, <1>0, ChildrenParts DEF Last
      <3>3. c \in Nat /\ c >= 2
        BY <3>2, <1>0, ChildrenParts DEF Children, Last
      <3>4. ~(y < c)
        BY <2>1 DEF Fault
      <3>5. QED
        BY <1>0, <3>2, <3>3, <3>4
    <2>2. QED
      BY <2>1 DEF Opens
  <1>3. x \in S
    BY <1>0, <1>1, <1>2, FoundParts
  <1>4. x \in form.roots /\ x >= 2 /\ x \in Nat
    BY <1>0, <1>3 DEF NodeRoots, Indices
  <1>5. QED
    BY <1>0, <1>4

\* What is accepted: every node is found, and none has a fault.
LEMMA AcceptedParts ==
  ASSUME NEW form \in FormSets, "Ok" \in CheckValidity(form)
  PROVE  /\ Found(form) = 2 .. Last(form.nodes) /\ Sound(form.nodes)
         /\ form.roots \subseteq 0 .. Last(form.nodes)
  <1> DEFINE nodes == form.nodes
             N == Last(nodes)
             R == Found(form)
             I == 2 .. N
             faults == {Fault(nodes, x) : x \in R} \ {"none"}
  <1>0. nodes \in NodeLists /\ form.roots \in Indices /\ N \in Nat /\ N = Len(nodes) + 1
          /\ Len(nodes) \in Nat /\ R \in Indices /\ NodeRoots(form) \subseteq R
    BY FoundParts, NodeListParts DEF Last
  <1>1. "Ok" \notin faults
    BY DEF Fault
  <1>2. faults = {} /\ Cardinality(R) = Len(nodes)
    BY <1>1 DEF CheckValidity, Found, NodeRoots
  <1>3. \A x \in R : Fault(nodes, x) = "none"
    BY <1>2
  <1>4. R \subseteq I
    <2>1. ASSUME NEW x \in R PROVE x \in I
      <3>1. x \in Nat /\ Fault(nodes, x) # "panic"
        BY <1>0, <1>3 DEF Indices
      <3>2. QED
        BY <3>1, <1>0, ChildrenParts
    <2>2. QED
      BY <2>1
  <1>5. IsFiniteSet(I) /\ Cardinality(I) = Len(nodes)
    <2>0. N \in Int /\ 2 \in Int
      BY <1>0
    <2> HIDE DEF N
    <2>1. IsFiniteSet(I) /\ Cardinality(I) = IF 2 > N THEN 0 ELSE N - 2 + 1
      BY <2>0, FS_Interval
    <2>2. QED
      BY <2>1, <1>0
  <1>6. R = I
    BY <1>2, <1>4, <1>5, FS_Subset
  <1>7. Sound(nodes)
    BY <1>0, <1>3, <1>6 DEF Sound
  <1>8. ASSUME NEW r \in form.roots PROVE r \in 0 .. N
    <2>1. r \in Nat
      BY <1>0 DEF Indices
    <2>2. CASE r >= 2
      BY <1>0, <1>6, <2>2 DEF NodeRoots
    <2>3. CASE ~(r >= 2)
      BY <1>0, <2>1, <2>3
    <2>4. QED
      BY <2>2, <2>3
  <1>9. QED
    BY <1>6, <1>7, <1>8

LEMMA VerdictExact ==
  ASSUME NEW form \in FormSets
  PROVE  /\ "Ok" \in CheckValidity(form) =>
              \A r \in form.roots : Is(ToSetFamilies(form)[r], Spelt(form.nodes)[r])
         /\ "panic" \in CheckValidity(form) =>
              \E r \in form.roots : r >= Len(form.nodes) + 2
  <1>1. ASSUME "Ok" \in CheckValidity(form), NEW r \in form.roots
        PROVE  Is(ToSetFamilies(form)[r], Spelt(form.nodes)[r])
    <2>1. r \in 0 .. Last(form.nodes) /\ Sound(form.nodes) /\ form.nodes \in NodeLists
      BY <1>1, AcceptedParts, FoundParts
    <2>2. PICK u : /\ \A q \in form.roots : ToSetFamilies(form)[q] = u[q]
                   /\ \A x \in 0 .. Last(form.nodes) : Is(u[x], Spelt(form.nodes)[x])
      BY <2>1, SoundLoads
    <2>3. QED
      BY <2>1, <2>2
  <1>2. ASSUME "panic" \in CheckValidity(form)
        PROVE  \E r \in form.roots : r >= Len(form.nodes) + 2
    <2> DEFINE faults == {Fault(form.nodes, x) : x \in Found(form)} \ {"none"}
    <2>1. "panic" \in faults
      BY <1>2 DEF CheckValidity, Found, NodeRoots
    <2>2. PICK x \in Found(form) : Fault(form.nodes, x) = "panic"
      BY <2>1
    <2>3. x \in Nat
      BY FoundParts DEF Indices
    <2>4. x \notin 2 .. Last(form.nodes)
      <3>1. x - 1 \notin DOMAIN form.nodes
        BY <2>2 DEF Fault
      <3>2. QED
        BY <2>3, <3>1, FoundParts, NodeListParts DEF Last
    <2>5. QED
      BY <2>4, OpensNodes
  <1>3. QED
    BY <1>1, <1>2

-----------------------------------------------------------------------------
(***************************************************************************)
(* to_owned_zdds                                                           *)
(*                                                                         *)
(* The search with its stack visits a node as the recursion would that     *)
(* visits the hi child, the lo child and then adds the node (Visit).       *)
(***************************************************************************)
LEMMA Push ==
  ASSUME NEW S, NEW e \in S, NEW rest \in Seq(S)
  PROVE  /\ <<e>> \in Seq(S) /\ <<e>> \o rest \in Seq(S) /\ <<e>> \o rest # <<>>
         /\ Len(<<e>> \o rest) = 1 + Len(rest) /\ Len(rest) \in Nat
         /\ Head(<<e>> \o rest) = e /\ Tail(<<e>> \o rest) = rest
  <1> DEFINE E == <<e>>
             Q == E \o rest
  <1>2. E \in Seq(S) /\ Len(E) = 1 /\ E[1] = e
    OBVIOUS
  <1>3. Len(rest) \in Nat
    BY LenProperties
  <1> HIDE DEF E
  <1>4. Q \in Seq(S) /\ Len(Q) = 1 + Len(rest)
          /\ \A i \in 1 .. 1 + Len(rest) : Q[i] = IF i <= 1 THEN E[i] ELSE rest[i - 1]
    <2>1. /\ Q \in Seq(S) /\ Len(Q) = Len(E) + Len(rest)
          /\ \A i \in 1 .. Len(E) + Len(rest) :
               Q[i] = IF i <= Len(E) THEN E[i] ELSE rest[i - Len(E)]
      BY <1>2, ConcatProperties
    <2> HIDE DEF Q
    <2>2. QED
      BY <2>1, <1>2
  <1> HIDE DEF Q
  <1>5. Len(Q) # 0
    BY <1>3, <1>4
  <1>6. Q # <<>>
    BY <1>5
  <1>7. Head(Q) = e
    <2>1. Head(Q) = Q[1]
      OBVIOUS
    <2>2. 1 \in 1 .. 1 + Len(rest)
      BY <1>3
    <2>3. QED
      BY <1>2, <1>4, <2>1, <2>2
  <1>8. Tail(Q) = rest
    <2> DEFINE T == Tail(Q)
    <2>2. T \in Seq(S) /\ Len(T) = Len(Q) - 1 /\ \A i \in 1 .. Len(T) : T[i] = Q[i + 1]
      BY <1>4, <1>6, HeadTailProperties
    <2> HIDE DEF T
    <2>3. Len(T) = Len(rest)
      BY <1>3, <1>4, <2>2
    <2>4. ASSUME NEW i \in 1 .. Len(T) PROVE T[i] = rest[i]
      <3>1. i + 1 \in 1 .. 1 + Len(rest) /\ ~(i + 1 <= 1) /\ (i + 1) - 1 = i
        BY <1>3, <2>3
      <3>2. QED
        BY <1>4, <2>2, <3>1
    <2>5. T = rest
      BY <2>2, <2>3, <2>4, SeqEqual
    <2>6. QED
      BY <2>5 DEF T
  <1>9. QED
    BY <1>2, <1>3, <1>4, <1>6, <1>7, <1>8 DEF Q, E

LEMMA Popped ==
  ASSUME NEW S, NEW stack \in Seq(S), stack # <<>>
  PROVE  /\ Head(stack) \in S /\ Tail(stack) \in Seq(S) /\ stack = <<Head(stack)>> \o Tail(stack)
         /\ Len(Tail(stack)) < Len(stack)
  <1> DEFINE e == Head(stack)
             T == Tail(stack)
             Q == <<e>> \o T
  <1>1. /\ e \in S /\ T \in Seq(S) /\ Len(T) = Len(stack) - 1 /\ Len(stack) \in Nat
        /\ e = stack[1] /\ \A i \in 1 .. Len(T) : T[i] = stack[i + 1]
    BY HeadTailProperties, LenProperties
  <1> HIDE DEF e, T
  <1>2. <<e>> \in Seq(S) /\ Len(<<e>>) = 1 /\ <<e>>[1] = e
    BY <1>1
  <1> DEFINE E == <<e>>
  <1>3. E \in Seq(S) /\ Len(E) = 1 /\ E[1] = e /\ Q = E \o T
    BY <1>2
  <1> HIDE DEF E, Q
  <1>4. /\ Q \in Seq(S) /\ Len(Q) = 1 + Len(T)
        /\ \A i \in 1 .. 1 + Len(T) : Q[i] = IF i <= 1 THEN E[i] ELSE T[i - 1]
    <2>1. /\ Q \in Seq(S) /\ Len(Q) = Len(E) + Len(T)
          /\ \A i \in 1 .. Len(E) + Len(T) :
               Q[i] = IF i <= Len(E) THEN E[i] ELSE T[i - Len(E)]
      <3>1. /\ E \o T \in Seq(S) /\ Len(E \o T) = Len(E) + Len(T)
            /\ \A i \in 1 .. Len(E) + Len(T) :
                 (E \o T)[i] = IF i <= Len(E) THEN E[i] ELSE T[i - Len(E)]
        <4>1. E \in Seq(S) /\ T \in Seq(S)
          BY <1>1, <1>3
        <4>2. QED
          BY <4>1, ConcatProperties
      <3>2. QED
        BY <1>3, <3>1
    <2>2. QED
      BY <2>1, <1>3
  <1>5. Len(Q) = Len(stack) /\ Len(T) < Len(stack)
    BY <1>1, <1>4
  <1>6. ASSUME NEW i \in 1 .. Len(stack) PROVE Q[i] = stack[i]
    <2>1. CASE i = 1
      <3>1. 1 \in 1 .. 1 + Len(T) /\ 1 <= 1
        BY <1>1
      <3>2. Q[1] = E[1]
        BY <1>4, <3>1
      <3>3. QED
        BY <1>1, <1>3, <2>1, <3>2
    <2>2. CASE i # 1
      <3>1. i \in 1 .. 1 + Len(T) /\ ~(i <= 1) /\ i - 1 \in 1 .. Len(T) /\ (i - 1) + 1 = i
        BY <1>1, <2>2
      <3>2. QED
        BY <1>1, <1>4, <3>1
    <2>3. QED
      BY <2>1, <2>2
  <1>7. Q = stack
    BY <1>4, <1>5, <1>6, SeqEqual
  <1>8. QED
    BY <1>1, <1>5, <1>7 DEF Q, e, T

LEMMA SomeVisited == VisitedIds # {}
  <1> DEFINE s == <<Zero, One>>
  <1>1. s \in Seq(Diagrams) /\ DOMAIN s = {1, 2} /\ s[1] = Zero /\ s[2] = One
    BY TerminalDiagrams
  <1> HIDE DEF s
  <1>2. s \in VisitedIds
    BY <1>1 DEF VisitedIds, Visited
  <1>3. QED
    BY <1>2

AddTo(ids, z) == IF Visited(ids, z) THEN ids ELSE Append(ids, z)

VisitStep(call, ids, z) ==
  IF Visited(ids, z) THEN ids
  ELSE AddTo(call[<<call[<<ids, Hi(z)>>], Lo(z)>>], z)

Visits == VisitedIds \X Diagrams

IsVisit(u) ==
  /\ u \in [Visits -> VisitedIds]
  /\ \A ids \in VisitedIds, z \in Diagrams : u[<<ids, z>>] = VisitStep(u, ids, z)

Visit == CHOOSE u : IsVisit(u)

LEMMA AddParts ==
  ASSUME NEW ids \in VisitedIds, NEW z \in Diagrams
  PROVE  /\ AddTo(ids, z) \in VisitedIds /\ Visited(AddTo(ids, z), z)
         /\ \A c : Visited(AddTo(ids, z), c) <=> Visited(ids, c) \/ c = z
         /\ ~Visited(ids, z) =>
              /\ Append(ids, z) \in VisitedIds
              /\ Len(Append(ids, z)) = Len(ids) + 1 /\ Append(ids, z)[Len(ids) + 1] = z
              /\ \A i \in 1 .. Len(ids) : Append(ids, z)[i] = ids[i]
         /\ Len(ids) \in Nat /\ DOMAIN ids = 1 .. Len(ids)
         /\ \A i \in 1 .. Len(ids) : ids[i] \in Diagrams
         /\ IsTerminal(z) => Visited(ids, z)
  <1>1. ids \in Seq(Diagrams) /\ Visited(ids, Zero) /\ Visited(ids, One)
    BY DEF VisitedIds
  <1>2. Len(ids) \in Nat /\ DOMAIN ids = 1 .. Len(ids)
          /\ \A i \in 1 .. Len(ids) : ids[i] \in Diagrams
    BY <1>1, LenProperties, ElementOfSeq
  <1> DEFINE A == Append(ids, z)
  <1>3. /\ A \in Seq(Diagrams) /\ Len(A) = Len(ids) + 1 /\ A[Len(ids) + 1] = z
        /\ \A i \in 1 .. Len(ids) : A[i] = ids[i]
    BY <1>1, AppendProperties
  <1> HIDE DEF A
  <1>4. DOMAIN A = 1 .. Len(ids) + 1
    BY <1>3, LenProperties
  <1>5. ASSUME NEW c PROVE Visited(A, c) <=> Visited(ids, c) \/ c = z
    <2>1. ASSUME NEW i \in DOMAIN A PROVE i \in DOMAIN ids \/ i = Len(ids) + 1
      BY <1>2, <1>4
    <2>2. Len(ids) + 1 \in DOMAIN A /\ DOMAIN ids \subseteq DOMAIN A
      BY <1>2, <1>4
    <2>3. QED
      BY <1>2, <1>3, <2>1, <2>2 DEF Visited
  <1>6. A \in VisitedIds
    BY <1>1, <1>3, <1>5 DEF VisitedIds
  <1>7. IsTerminal(z) => Visited(ids, z)
    BY <1>1 DEF IsTerminal, IsZero, IsOne
  <1>8. QED
    BY <1>2, <1>3, <1>5, <1>6, <1>7 DEF AddTo, A

LEMMA VisitIs == IsVisit(Visit)
  <1> DEFINE rank == [p \in Visits |-> Rank(p[2])]
             step == [x \in Visits \X [Visits -> VisitedIds] |->
                        VisitStep(x[2], x[1][1], x[1][2])]
  <1>1. rank \in [Visits -> Nat]
    BY Ranks DEF Visits
  <1>2. \A p \in Visits : p[1] \in VisitedIds /\ p[2] \in Diagrams /\ p = <<p[1], p[2]>>
    BY DEF Visits
  <1>3. \A ids \in VisitedIds, z \in Diagrams :
          <<ids, z>> \in Visits /\ rank[<<ids, z>>] = Rank(z)
    BY DEF Visits
  <1>4. \A ids \in VisitedIds, z \in Diagrams :
          ~Visited(ids, z) => /\ Lo(z) \in Diagrams /\ Hi(z) \in Diagrams
                              /\ Rank(Lo(z)) < Rank(z) /\ Rank(Hi(z)) < Rank(z)
    BY AddParts, NodeFamily
  <1>5. ASSUME NEW p \in Visits, NEW u \in [Visits -> VisitedIds]
        PROVE  VisitStep(u, p[1], p[2]) \in VisitedIds
    <2> DEFINE ids == p[1]
               z == p[2]
    <2>1. ids \in VisitedIds /\ z \in Diagrams
      BY <1>2
    <2> HIDE DEF ids, z
    <2>2. ASSUME Visited(ids, z) PROVE VisitStep(u, ids, z) \in VisitedIds
      BY <2>1, <2>2 DEF VisitStep
    <2>3. ASSUME ~Visited(ids, z) PROVE VisitStep(u, ids, z) \in VisitedIds
      <3>1. u[<<ids, Hi(z)>>] \in VisitedIds
        BY <1>3, <1>4, <2>1, <2>3
      <3>2. u[<<u[<<ids, Hi(z)>>], Lo(z)>>] \in VisitedIds
        BY <1>3, <1>4, <2>1, <2>3, <3>1
      <3>3. QED
        BY <2>1, <2>3, <3>2, AddParts DEF VisitStep
    <2>4. QED
      BY <2>2, <2>3 DEF ids, z
  <1>6. step \in [Visits \X [Visits -> VisitedIds] -> VisitedIds]
    BY <1>5
  <1>7. ASSUME NEW p \in Visits, NEW u \in [Visits -> VisitedIds],
               NEW w \in [Visits -> VisitedIds], Agree(Visits, rank, rank[p], u, w)
        PROVE  step[<<p, u>>] = step[<<p, w>>]
    <2> DEFINE ids == p[1]
               z == p[2]
    <2>1. ids \in VisitedIds /\ z \in Diagrams /\ rank[p] = Rank(z)
      BY <1>2
    <2>2. VisitStep(u, p[1], p[2]) = VisitStep(w, p[1], p[2])
      <3> HIDE DEF ids, z, rank
      <3>1. CASE Visited(ids, z)
        BY <3>1 DEF VisitStep, ids, z
      <3>2. CASE ~Visited(ids, z)
        <4>1. u[<<ids, Hi(z)>>] = w[<<ids, Hi(z)>>] /\ u[<<ids, Hi(z)>>] \in VisitedIds
          BY <1>3, <1>4, <1>7, <2>1, <3>2 DEF Agree
        <4> DEFINE a == u[<<ids, Hi(z)>>]
        <4>2. a \in VisitedIds /\ a = w[<<ids, Hi(z)>>]
          BY <4>1
        <4> HIDE DEF a
        <4>3. u[<<a, Lo(z)>>] = w[<<a, Lo(z)>>]
          BY <1>3, <1>4, <1>7, <2>1, <3>2, <4>2 DEF Agree
        <4>4. VisitStep(u, ids, z) = VisitStep(w, ids, z)
          BY <4>2, <4>3 DEF VisitStep, a
        <4>5. QED
          BY <4>4 DEF ids, z
      <3>3. QED
        BY <3>1, <3>2
    <2>3. QED
      BY <2>2
  <1>8. \A p \in Visits, u \in [Visits -> VisitedIds] :
          step[<<p, u>>] = VisitStep(u, p[1], p[2])
    OBVIOUS
  <1>9. VisitedIds # {}
    BY SomeVisited
  <1> HIDE DEF step, rank
  <1>10. Ranked(Visits, VisitedIds, rank, step)
    BY <1>1, <1>6, <1>7, <1>9 DEF Ranked, Lowers
  <1>11. PICK u \in [Visits -> VisitedIds] : \A p \in Visits : u[p] = step[<<p, u>>]
    BY <1>10, Recursion DEF Solvable
  <1>12. \A ids \in VisitedIds, z \in Diagrams : u[<<ids, z>>] = VisitStep(u, ids, z)
    <2>1. ASSUME NEW ids \in VisitedIds, NEW z \in Diagrams
          PROVE  u[<<ids, z>>] = VisitStep(u, ids, z)
      <3> DEFINE p == <<ids, z>>
      <3>1. p \in Visits /\ p[1] = ids /\ p[2] = z
        BY <1>3
      <3> HIDE DEF p
      <3>2. u[p] = VisitStep(u, p[1], p[2])
        BY <1>8, <1>11, <3>1
      <3>3. QED
        BY <3>1, <3>2 DEF p
    <2>2. QED
      BY <2>1
  <1>13. IsVisit(u)
    BY <1>11, <1>12 DEF IsVisit
  <1>14. QED
    BY <1>13 DEF Visit

LEMMA VisitParts ==
  ASSUME NEW ids \in VisitedIds, NEW z \in Diagrams
  PROVE  /\ Visit[<<ids, z>>] \in VisitedIds
         /\ Visited(ids, z) => Visit[<<ids, z>>] = ids
         /\ ~Visited(ids, z) =>
              /\ ~IsTerminal(z) /\ Lo(z) \in Diagrams /\ Hi(z) \in Diagrams
              /\ Visit[<<ids, Hi(z)>>] \in VisitedIds
              /\ Visit[<<Visit[<<ids, Hi(z)>>], Lo(z)>>] \in VisitedIds
              /\ Visit[<<ids, z>>] = AddTo(Visit[<<Visit[<<ids, Hi(z)>>], Lo(z)>>], z)
  <1>1. \A i \in VisitedIds, c \in Diagrams :
          Visit[<<i, c>>] \in VisitedIds /\ Visit[<<i, c>>] = VisitStep(Visit, i, c)
    BY VisitIs DEF IsVisit, Visits
  <1>2. ~Visited(ids, z) => ~IsTerminal(z) /\ Lo(z) \in Diagrams /\ Hi(z) \in Diagrams
    BY AddParts, NodeFamily
  <1>3. QED
    BY <1>1, <1>2 DEF VisitStep

\* What has been visited stays so.
LEMMA VisitKeeps ==
  ASSUME NEW z \in Diagrams
  PROVE  \A ids \in VisitedIds :
           Visited(Visit[<<ids, z>>], z)
             /\ \A c : Visited(ids, c) => Visited(Visit[<<ids, z>>], c)
  <1> DEFINE Keeps(x) == \A ids \in VisitedIds :
                           Visited(Visit[<<ids, x>>], x)
                             /\ \A c : Visited(ids, c) => Visited(Visit[<<ids, x>>], c)
             Good == {x \in Diagrams : Keeps(x)}
  <1>1. Zero \in Good /\ One \in Good
    <2>1. \A ids \in VisitedIds : Visited(ids, Zero) /\ Visited(ids, One)
      BY DEF VisitedIds
    <2>2. Zero \in Diagrams /\ One \in Diagrams
      BY TerminalDiagrams
    <2>3. QED
      BY <2>1, <2>2, VisitParts
  <1>2. ASSUME NEW x \in Diagrams, ~IsTerminal(x), \A y \in Above(Val(x)) : y \in Good
        PROVE  x \in Good
    <2>1. Keeps(Lo(x)) /\ Keeps(Hi(x))
      BY <1>2, DiagramParts
    <2>2. ASSUME NEW ids \in VisitedIds
          PROVE  Visited(Visit[<<ids, x>>], x)
                   /\ \A c : Visited(ids, c) => Visited(Visit[<<ids, x>>], c)
      <3>1. CASE Visited(ids, x)
        BY <3>1, VisitParts
      <3>2. CASE ~Visited(ids, x)
        <4> DEFINE a == Visit[<<ids, Hi(x)>>]
                   b == Visit[<<a, Lo(x)>>]
        <4>1. a \in VisitedIds /\ b \in VisitedIds /\ Visit[<<ids, x>>] = AddTo(b, x)
          BY <3>2, VisitParts
        <4>2. \A c : (Visited(ids, c) => Visited(a, c)) /\ (Visited(a, c) => Visited(b, c))
          BY <2>1, <4>1
        <4> HIDE DEF a, b
        <4>3. QED
          BY <4>1, <4>2, AddParts
      <3>3. QED
        BY <3>1, <3>2
    <2>3. QED
      BY <2>2
  <1>3. Diagrams \subseteq Good
    <2> HIDE DEF Good
    <2>1. QED
      BY <1>1, <1>2, DiagramInduction
  <1>4. QED
    BY <1>3

PortionStacks == Seq(Portions)
Runs == PortionStacks \X VisitedIds

LEMMA PortionParts ==
  /\ \A z \in Diagrams : /\ Search(z) \in Portions /\ Search(z).id = z
                         /\ Search(z).portion = "search"
                         /\ Add(z) \in Portions /\ Add(z).id = z /\ Add(z).portion = "add"
  /\ \A h \in Portions : /\ h.id \in Diagrams /\ h.portion \in {"search", "add"}
                         /\ h.portion = "search" => h = Search(h.id)
                         /\ h.portion # "search" => h = Add(h.id)
  BY DEF Portions, Search, Add

\* What a portion does to the visited.
Put(h, ids) == IF h.portion = "search" THEN Visit[<<ids, h.id>>] ELSE AddTo(ids, h.id)

LEMMA PutParts ==
  ASSUME NEW h \in Portions, NEW ids \in VisitedIds
  PROVE  Put(h, ids) \in VisitedIds
  BY PortionParts, VisitParts, AddParts DEF Put

NewOf(ids, c) == IF Visited(ids, c) THEN <<>> ELSE <<Search(c)>>

Onward(ids, z, rest) == NewOf(ids, Hi(z)) \o NewOf(ids, Lo(z)) \o <<Add(z)>> \o rest

LEMMA DfsStepIs ==
  ASSUME NEW u, NEW stack, NEW ids
  PROVE  DfsStep(u, stack, ids) =
           IF stack = <<>> THEN ids
           ELSE IF Visited(ids, Head(stack).id) THEN u[<<Tail(stack), ids>>]
           ELSE IF Head(stack).portion = "search"
             THEN u[<<Onward(ids, Head(stack).id, Tail(stack)), ids>>]
           ELSE u[<<Tail(stack), Append(ids, Head(stack).id)>>]
  BY DEF DfsStep, Onward, NewOf

\* Going on with portions one after the other.
Searches1(u, c) == \A i \in VisitedIds, r \in PortionStacks :
                     u[<<<<Search(c)>> \o r, i>>] = u[<<r, Visit[<<i, c>>]>>]
Adds1(u, z) == \A i \in VisitedIds, r \in PortionStacks :
                 u[<<<<Add(z)>> \o r, i>>] = u[<<r, AddTo(i, z)>>]

Then(r, s) == r \o s

Goes(u, new, i, j) == /\ new \in PortionStacks
                      /\ \A r \in PortionStacks : u[<<Then(new, r), i>>] = u[<<r, j>>]

LEMMA NewGoes ==
  ASSUME NEW u, NEW c \in Diagrams, Searches1(u, c), NEW ids \in VisitedIds,
         NEW i \in VisitedIds, Visited(ids, c) => Visited(i, c)
  PROVE  Goes(u, NewOf(ids, c), i, Visit[<<i, c>>])
  <1>1. Search(c) \in Portions
    BY PortionParts
  <1>2. CASE Visited(ids, c)
    <2>1. NewOf(ids, c) = <<>> /\ Visit[<<i, c>>] = i
      BY <1>2, VisitParts DEF NewOf
    <2>2. <<>> \in PortionStacks
      BY DEF PortionStacks
    <2>3. ASSUME NEW r \in PortionStacks PROVE <<>> \o r = r
      BY ConcatEmptySeq DEF PortionStacks
    <2>4. QED
      BY <2>1, <2>2, <2>3 DEF Goes, Then
  <1>3. CASE ~Visited(ids, c)
    <2>1. NewOf(ids, c) = <<Search(c)>>
      BY <1>3 DEF NewOf
    <2>2. <<Search(c)>> \in PortionStacks
      BY <1>1 DEF PortionStacks
    <2>3. \A r \in PortionStacks :
            u[<<<<Search(c)>> \o r, i>>] = u[<<r, Visit[<<i, c>>]>>]
      BY DEF Searches1
    <2>4. QED
      BY <2>1, <2>2, <2>3 DEF Goes, Then
  <1>4. QED
    BY <1>2, <1>3

LEMMA ThenParts ==
  /\ \A r, s \in PortionStacks : Then(r, s) \in PortionStacks
  /\ \A r, s, t \in PortionStacks : Then(Then(r, s), t) = Then(r, Then(s, t))
  BY ConcatAssociative, ConcatProperties DEF PortionStacks, Then

LEMMA OnwardGoes ==
  ASSUME NEW u, NEW z \in Diagrams, NEW ids \in VisitedIds, ~Visited(ids, z),
         NEW rest \in PortionStacks, Searches1(u, Lo(z)), Searches1(u, Hi(z)), Adds1(u, z)
  PROVE  /\ Onward(ids, z, rest) \in PortionStacks
         /\ u[<<Onward(ids, z, rest), ids>>] = u[<<rest, Visit[<<ids, z>>]>>]
  <1> DEFINE lo == NewOf(ids, Lo(z))
             hi == NewOf(ids, Hi(z))
             add == <<Add(z)>>
             a == Visit[<<ids, Hi(z)>>]
             b == Visit[<<a, Lo(z)>>]
  <1>1. /\ Lo(z) \in Diagrams /\ Hi(z) \in Diagrams /\ a \in VisitedIds /\ b \in VisitedIds
        /\ Visit[<<ids, z>>] = AddTo(b, z)
    BY VisitParts
  <1>2. Visited(ids, Lo(z)) => Visited(a, Lo(z))
    BY <1>1, VisitKeeps
  <1>3. add \in PortionStacks
    BY PortionParts, Push DEF PortionStacks
  <1>4. Goes(u, lo, a, b)
    BY <1>1, <1>2, NewGoes
  <1>5. Goes(u, hi, ids, a)
    BY <1>1, NewGoes
  <1>6. \A r \in PortionStacks : u[<<Then(add, r), b>>] = u[<<r, AddTo(b, z)>>]
    BY <1>1 DEF Adds1, Then
  <1>7. lo \in PortionStacks /\ hi \in PortionStacks
    BY <1>4, <1>5 DEF Goes
  <1>8. Onward(ids, z, rest) = Then(Then(Then(hi, lo), add), rest)
    BY DEF Onward, Then
  <1> HIDE DEF lo, hi, add, a, b
  <1> DEFINE two == Then(add, rest)
             three == Then(lo, two)
             four == Then(hi, three)
  <1>9. two \in PortionStacks
    BY <1>3, ThenParts
  <1>10. three \in PortionStacks
    BY <1>7, <1>9, ThenParts
  <1>11. four \in PortionStacks
    BY <1>7, <1>10, ThenParts
  <1>12. Onward(ids, z, rest) = four
    BY <1>3, <1>7, <1>8, ThenParts
  <1>13. u[<<four, ids>>] = u[<<rest, AddTo(b, z)>>]
    BY <1>4, <1>5, <1>6, <1>9, <1>10 DEF Goes
  <1>14. QED
    BY <1>1, <1>11, <1>12, <1>13

RunStep(u, stack, ids) ==
  IF stack = <<>> THEN ids ELSE u[<<Tail(stack), Put(Head(stack), ids)>>]

LEMMA RunExists ==
  \E u \in [Runs -> VisitedIds] : \A stack \in PortionStacks, ids \in VisitedIds :
    u[<<stack, ids>>] = RunStep(u, stack, ids)
  <1> DEFINE rank == [p \in Runs |-> Len(p[1])]
             step == [x \in Runs \X [Runs -> VisitedIds] |-> RunStep(x[2], x[1][1], x[1][2])]
  <1>1. \A p \in Runs : p[1] \in PortionStacks /\ p[2] \in VisitedIds /\ p = <<p[1], p[2]>>
    BY DEF Runs
  <1>2. rank \in [Runs -> Nat]
    BY <1>1, LenProperties DEF PortionStacks
  <1>3. ASSUME NEW p \in Runs, p[1] # <<>>
        PROVE  LET q == <<Tail(p[1]), Put(Head(p[1]), p[2])>> IN
               q \in Runs /\ rank[q] < rank[p]
    <2> DEFINE t == Tail(p[1])
               i == Put(Head(p[1]), p[2])
               q == <<t, i>>
    <2>1. t \in PortionStacks /\ i \in VisitedIds /\ Len(t) < Len(p[1])
      BY <1>1, <1>3, Popped, PutParts DEF PortionStacks
    <2> HIDE DEF t, i
    <2>2. q \in Runs /\ q[1] = t
      BY <2>1 DEF Runs
    <2>3. rank[q] < rank[p]
      BY <2>1, <2>2
    <2>4. QED
      BY <2>2, <2>3 DEF t, i
  <1>4. ASSUME NEW p \in Runs, NEW u \in [Runs -> VisitedIds]
        PROVE  RunStep(u, p[1], p[2]) \in VisitedIds
    <2> HIDE DEF rank
    <2>1. QED
      BY <1>1, <1>3 DEF RunStep
  <1>5. step \in [Runs \X [Runs -> VisitedIds] -> VisitedIds]
    BY <1>4
  <1>6. ASSUME NEW p \in Runs, NEW u \in [Runs -> VisitedIds], NEW w \in [Runs -> VisitedIds],
               Agree(Runs, rank, rank[p], u, w)
        PROVE  step[<<p, u>>] = step[<<p, w>>]
    <2>1. RunStep(u, p[1], p[2]) = RunStep(w, p[1], p[2])
      <3> HIDE DEF rank
      <3>1. QED
        BY <1>1, <1>3, <1>6 DEF RunStep, Agree
    <2>2. QED
      BY <2>1
  <1>7. \A p \in Runs, u \in [Runs -> VisitedIds] : step[<<p, u>>] = RunStep(u, p[1], p[2])
    OBVIOUS
  <1>8. VisitedIds # {}
    BY SomeVisited
  <1>9. \A stack \in PortionStacks, ids \in VisitedIds : <<stack, ids>> \in Runs
    BY DEF Runs
  <1> HIDE DEF rank, step
  <1>10. Ranked(Runs, VisitedIds, rank, step)
    BY <1>2, <1>5, <1>6, <1>8 DEF Ranked, Lowers
  <1>11. PICK u \in [Runs -> VisitedIds] : \A p \in Runs : u[p] = step[<<p, u>>]
    BY <1>10, Recursion DEF Solvable
  <1>12. ASSUME NEW stack \in PortionStacks, NEW ids \in VisitedIds
         PROVE  u[<<stack, ids>>] = RunStep(u, stack, ids)
    <2> DEFINE p == <<stack, ids>>
    <2>1. p \in Runs /\ p[1] = stack /\ p[2] = ids
      BY <1>9
    <2> HIDE DEF p
    <2>2. u[p] = RunStep(u, p[1], p[2])
      BY <1>7, <1>11, <2>1
    <2>3. QED
      BY <2>1, <2>2 DEF p
  <1>13. QED
    BY <1>12

IsDfs(u) == u = [p \in Runs |-> DfsStep(u, p[1], p[2])]

LEMMA DfsSolved == \E u : IsDfs(u)
  <1>1. PICK u \in [Runs -> VisitedIds] : \A stack \in PortionStacks, ids \in VisitedIds :
          u[<<stack, ids>>] = RunStep(u, stack, ids)
    BY RunExists
  <1>2. ASSUME NEW h \in Portions, NEW r \in PortionStacks, NEW i \in VisitedIds
        PROVE  u[<<<<h>> \o r, i>>] = u[<<r, Put(h, i)>>]
    <2> DEFINE Q == <<h>> \o r
    <2>1. Q \in PortionStacks /\ Q # <<>> /\ Head(Q) = h /\ Tail(Q) = r
      BY Push DEF PortionStacks
    <2> HIDE DEF Q
    <2>2. u[<<Q, i>>] = RunStep(u, Q, i)
      BY <1>1, <2>1
    <2>3. QED
      BY <2>1, <2>2 DEF RunStep, Q
  <1>3. \A c \in Diagrams : Searches1(u, c) /\ Adds1(u, c)
    <2>1. ASSUME NEW c \in Diagrams, NEW r \in PortionStacks, NEW i \in VisitedIds
          PROVE  /\ u[<<<<Search(c)>> \o r, i>>] = u[<<r, Visit[<<i, c>>]>>]
                 /\ u[<<<<Add(c)>> \o r, i>>] = u[<<r, AddTo(i, c)>>]
      <3> DEFINE s == Search(c)
                 a == Add(c)
      <3>1. /\ s \in Portions /\ s.id = c /\ s.portion = "search"
            /\ a \in Portions /\ a.id = c /\ a.portion = "add"
        BY PortionParts
      <3> HIDE DEF s, a
      <3>2. u[<<<<s>> \o r, i>>] = u[<<r, Put(s, i)>>]
        BY <1>2, <3>1
      <3>3. u[<<<<a>> \o r, i>>] = u[<<r, Put(a, i)>>]
        BY <1>2, <3>1
      <3>4. Put(s, i) = Visit[<<i, c>>] /\ Put(a, i) = AddTo(i, c)
        BY <3>1 DEF Put
      <3>5. QED
        BY <3>2, <3>3, <3>4 DEF s, a
    <2>2. QED
      BY <2>1 DEF Searches1, Adds1
  <1>4. ASSUME NEW stack \in PortionStacks, NEW ids \in VisitedIds
        PROVE  u[<<stack, ids>>] = DfsStep(u, stack, ids)
    <2>1. CASE stack = <<>>
      BY <1>1, <2>1, DfsStepIs DEF RunStep
    <2>2. CASE stack # <<>>
      <3> DEFINE h == Head(stack)
                 r == Tail(stack)
                 z == h.id
      <3>1. h \in Portions /\ r \in PortionStacks /\ z \in Diagrams
        BY <2>2, Popped, PortionParts DEF PortionStacks
      <3>2. u[<<stack, ids>>] = u[<<r, Put(h, ids)>>]
        BY <1>1, <2>2 DEF RunStep
      <3>3. DfsStep(u, stack, ids) =
              IF Visited(ids, z) THEN u[<<r, ids>>]
              ELSE IF h.portion = "search" THEN u[<<Onward(ids, z, r), ids>>]
              ELSE u[<<r, Append(ids, z)>>]
        BY <2>2, DfsStepIs
      <3> HIDE DEF h, r
      <3>4. CASE Visited(ids, z)
        <4>1. Put(h, ids) = ids
          BY <3>1, <3>4, VisitParts DEF Put, AddTo
        <4>2. QED
          BY <3>2, <3>3, <3>4, <4>1
      <3>5. CASE ~Visited(ids, z) /\ h.portion = "search"
        <4>1. Lo(z) \in Diagrams /\ Hi(z) \in Diagrams
          BY <3>1, <3>5, VisitParts
        <4>2. u[<<Onward(ids, z, r), ids>>] = u[<<r, Visit[<<ids, z>>]>>]
          BY <1>3, <3>1, <3>5, <4>1, OnwardGoes
        <4>3. QED
          BY <3>2, <3>3, <3>5, <4>2 DEF Put
      <3>6. CASE ~Visited(ids, z) /\ h.portion # "search"
        BY <3>2, <3>3, <3>6 DEF Put, AddTo
      <3>7. QED
        BY <3>4, <3>5, <3>6
    <2>3. QED
      BY <2>1, <2>2
  <1>5. \A p \in Runs : u[p] = DfsStep(u, p[1], p[2])
    BY <1>4 DEF Runs
  <1>6. u = [p \in Runs |-> DfsStep(u, p[1], p[2])]
    BY <1>5
  <1>7. QED
    BY <1>6 DEF IsDfs

LEMMA DfsIs ==
  /\ \A ids \in VisitedIds : Dfs[<<<<>>, ids>>] = ids
  /\ \A z \in Diagrams : Searches1(Dfs, z)
  <1>1. IsDfs(Dfs)
    BY DfsSolved DEF Dfs, IsDfs, Runs, PortionStacks
  <1>2. \A stack \in PortionStacks, ids \in VisitedIds :
          Dfs[<<stack, ids>>] = DfsStep(Dfs, stack, ids)
    BY <1>1 DEF IsDfs, Runs
  <1>3. \A ids \in VisitedIds : Dfs[<<<<>>, ids>>] = ids
    <2>1. <<>> \in PortionStacks
      BY DEF PortionStacks
    <2>2. ASSUME NEW ids \in VisitedIds PROVE Dfs[<<<<>>, ids>>] = ids
      <3> DEFINE e == <<>>
      <3>1. e \in PortionStacks /\ e = <<>>
        BY <2>1
      <3> HIDE DEF e
      <3>2. Dfs[<<e, ids>>] = DfsStep(Dfs, e, ids)
        BY <1>2, <3>1
      <3>3. DfsStep(Dfs, e, ids) = ids
        BY <3>1, DfsStepIs
      <3>4. QED
        BY <3>1, <3>2, <3>3
    <2>3. QED
      BY <2>2
  <1>4. ASSUME NEW h \in Portions, NEW r \in PortionStacks, NEW i \in VisitedIds
        PROVE  Dfs[<<<<h>> \o r, i>>] =
                 IF Visited(i, h.id) THEN Dfs[<<r, i>>]
                 ELSE IF h.portion = "search" THEN Dfs[<<Onward(i, h.id, r), i>>]
                 ELSE Dfs[<<r, Append(i, h.id)>>]
    <2> DEFINE Q == <<h>> \o r
    <2>1. Q \in PortionStacks /\ Q # <<>> /\ Head(Q) = h /\ Tail(Q) = r
      BY Push DEF PortionStacks
    <2> HIDE DEF Q
    <2>2. Dfs[<<Q, i>>] = DfsStep(Dfs, Q, i)
      BY <1>2, <2>1
    <2>3. QED
      BY <2>1, <2>2, DfsStepIs DEF Q
  <1>5. ASSUME NEW z \in Diagrams PROVE Adds1(Dfs, z)
    <2>1. ASSUME NEW i \in VisitedIds, NEW r \in PortionStacks
          PROVE  Dfs[<<<<Add(z)>> \o r, i>>] = Dfs[<<r, AddTo(i, z)>>]
      <3> DEFINE h == Add(z)
      <3>1. h \in Portions /\ h.id = z /\ h.portion # "search"
        BY PortionParts
      <3> HIDE DEF h
      <3>2. Dfs[<<<<h>> \o r, i>>] =
              IF Visited(i, z) THEN Dfs[<<r, i>>] ELSE Dfs[<<r, Append(i, z)>>]
        BY <1>4, <3>1
      <3>3. QED
        BY <3>2 DEF AddTo, h
    <2>2. QED
      BY <2>1 DEF Adds1
  <1> DEFINE Good == {z \in Diagrams : Searches1(Dfs, z)}
  <1>6. ASSUME NEW z \in Diagrams,
               \A i \in VisitedIds, r \in PortionStacks : ~Visited(i, z) =>
                 Dfs[<<Onward(i, z, r), i>>] = Dfs[<<r, Visit[<<i, z>>]>>]
        PROVE  z \in Good
    <2>1. ASSUME NEW i \in VisitedIds, NEW r \in PortionStacks
          PROVE  Dfs[<<<<Search(z)>> \o r, i>>] = Dfs[<<r, Visit[<<i, z>>]>>]
      <3>1. Dfs[<<<<Search(z)>> \o r, i>>] =
              IF Visited(i, z) THEN Dfs[<<r, i>>] ELSE Dfs[<<Onward(i, z, r), i>>]
        <4> DEFINE h == Search(z)
        <4>1. h \in Portions /\ h.id = z /\ h.portion = "search"
          BY PortionParts
        <4> HIDE DEF h
        <4>2. Dfs[<<<<h>> \o r, i>>] =
                IF Visited(i, z) THEN Dfs[<<r, i>>] ELSE Dfs[<<Onward(i, z, r), i>>]
          BY <1>4, <4>1
        <4>3. QED
          BY <4>2 DEF h
      <3>2. Visited(i, z) => Visit[<<i, z>>] = i
        BY VisitParts
      <3>3. QED
        BY <1>6, <3>1, <3>2
    <2>2. QED
      BY <2>1 DEF Searches1
  <1>7. Zero \in Good /\ One \in Good
    <2>1. \A i \in VisitedIds : Visited(i, Zero) /\ Visited(i, One)
      BY DEF VisitedIds
    <2> HIDE DEF Good
    <2>2. QED
      BY <1>6, <2>1, TerminalDiagrams
  <1>8. ASSUME NEW z \in Diagrams, ~IsTerminal(z), \A y \in Above(Val(z)) : y \in Good
        PROVE  z \in Good
    <2>1. Searches1(Dfs, Lo(z)) /\ Searches1(Dfs, Hi(z))
      BY <1>8, DiagramParts
    <2>2. \A i \in VisitedIds, r \in PortionStacks : ~Visited(i, z) =>
            Dfs[<<Onward(i, z, r), i>>] = Dfs[<<r, Visit[<<i, z>>]>>]
      BY <2>1, <1>5, OnwardGoes
    <2> HIDE DEF Good
    <2>3. QED
      BY <1>6, <2>2
  <1>9. Diagrams \subseteq Good
    <2> HIDE DEF Good
    <2>1. QED
      BY <1>7, <1>8, DiagramInduction
  <1>10. QED
    BY <1>3, <1>9

\* The terminals first, then every node once, after its children.
Closed(ids) ==
  /\ ids \in VisitedIds /\ Len(ids) >= 2 /\ ids[1] = Zero /\ ids[2] = One
  /\ \A i, j \in 1 .. Len(ids) : ids[i] = ids[j] => i = j
  /\ \A i \in 3 .. Len(ids) :
       ~IsTerminal(ids[i]) /\ \A c \in {Lo(ids[i]), Hi(ids[i])} :
                                \E j \in 1 .. i - 1 : ids[j] = c

LEMMA AddCloses ==
  ASSUME NEW ids, Closed(ids), NEW z \in Diagrams, ~IsTerminal(z),
         Visited(ids, Lo(z)), Visited(ids, Hi(z))
  PROVE  Closed(AddTo(ids, z))
  <1>0. ids \in VisitedIds
    BY DEF Closed
  <1>1. CASE Visited(ids, z)
    BY <1>1 DEF AddTo
  <1>2. CASE ~Visited(ids, z)
    <2> DEFINE A == Append(ids, z)
               n == Len(ids)
    <2>1. /\ A \in VisitedIds /\ Len(A) = n + 1 /\ A[n + 1] = z
          /\ \A i \in 1 .. n : A[i] = ids[i]
          /\ n \in Nat /\ DOMAIN ids = 1 .. n
      BY <1>0, <1>2, AddParts
    <2> HIDE DEF A
    <2>2. n >= 2 /\ ids[1] = Zero /\ ids[2] = One
      BY DEF Closed
    <2>3. Len(A) >= 2 /\ A[1] = Zero /\ A[2] = One
      BY <2>1, <2>2
    <2>4. \A i \in 1 .. n : ids[i] # z
      BY <1>2, <2>1 DEF Visited
    <2>5. ASSUME NEW i \in 1 .. Len(A), NEW j \in 1 .. Len(A), A[i] = A[j] PROVE i = j
      <3>1. CASE i = n + 1 /\ j = n + 1
        BY <3>1
      <3>2. CASE i # n + 1 /\ j # n + 1
        <4>1. i \in 1 .. n /\ j \in 1 .. n
          BY <2>1, <3>2
        <4>2. ids[i] = ids[j]
          BY <2>1, <2>5, <4>1
        <4>3. QED
          BY <4>1, <4>2 DEF Closed
      <3>3. CASE i # n + 1 /\ j = n + 1
        BY <2>1, <2>4, <2>5, <3>3
      <3>4. CASE i = n + 1 /\ j # n + 1
        BY <2>1, <2>4, <2>5, <3>4
      <3>5. QED
        BY <3>1, <3>2, <3>3, <3>4
    <2>6. ASSUME NEW i \in 3 .. Len(A)
          PROVE  ~IsTerminal(A[i]) /\ \A c \in {Lo(A[i]), Hi(A[i])} :
                                        \E j \in 1 .. i - 1 : A[j] = c
      <3>1. CASE i = n + 1
        <4>1. A[i] = z /\ i - 1 = n
          BY <2>1, <3>1
        <4>2. ASSUME NEW c, Visited(ids, c) PROVE \E j \in 1 .. i - 1 : A[j] = c
          BY <2>1, <4>1, <4>2 DEF Visited
        <4>3. QED
          BY <4>1, <4>2
      <3>2. CASE i # n + 1
        <4>1. i \in 3 .. n /\ i \in 1 .. n
          BY <2>1, <3>2
        <4>2. A[i] = ids[i]
          BY <2>1, <4>1
        <4>3. \A j \in 1 .. i - 1 : A[j] = ids[j]
          BY <2>1, <4>1
        <4>4. ~IsTerminal(ids[i]) /\ \A c \in {Lo(ids[i]), Hi(ids[i])} :
                                        \E j \in 1 .. i - 1 : ids[j] = c
          BY <4>1 DEF Closed
        <4>5. QED
          BY <4>2, <4>3, <4>4
      <3>3. QED
        BY <3>1, <3>2
    <2>7. Closed(A)
      BY <2>1, <2>3, <2>5, <2>6 DEF Closed
    <2>8. QED
      BY <1>2, <2>7 DEF AddTo, A
  <1>3. QED
    BY <1>1, <1>2

LEMMA VisitCloses ==
  ASSUME NEW z \in Diagrams
  PROVE  \A ids : Closed(ids) => Closed(Visit[<<ids, z>>])
  <1> DEFINE Closes(x) == \A ids : Closed(ids) => Closed(Visit[<<ids, x>>])
             Good == {x \in Diagrams : Closes(x)}
  <1>0. \A ids : Closed(ids) => ids \in VisitedIds
    BY DEF Closed
  <1>1. Zero \in Good /\ One \in Good
    <2>1. \A ids \in VisitedIds : Visited(ids, Zero) /\ Visited(ids, One)
      BY DEF VisitedIds
    <2>2. Zero \in Diagrams /\ One \in Diagrams
      BY TerminalDiagrams
    <2>a. \A x \in {Zero, One} : \A ids \in VisitedIds : Visit[<<ids, x>>] = ids
      <3>1. ASSUME NEW x \in {Zero, One}, NEW ids \in VisitedIds PROVE Visit[<<ids, x>>] = ids
        <4>1. x \in Diagrams /\ Visited(ids, x)
          BY <2>1, <2>2
        <4>2. QED
          BY <4>1, VisitParts
      <3>2. QED
        BY <3>1
    <2>3. ASSUME NEW x \in {Zero, One} PROVE Closes(x)
      BY <1>0, <2>a
    <2>4. QED
      BY <2>2, <2>3
  <1>2. ASSUME NEW x \in Diagrams, ~IsTerminal(x), \A y \in Above(Val(x)) : y \in Good
        PROVE  x \in Good
    <2>1. Closes(Lo(x)) /\ Closes(Hi(x))
      BY <1>2, DiagramParts
    <2>2. ASSUME NEW ids, Closed(ids) PROVE Closed(Visit[<<ids, x>>])
      <3>0. ids \in VisitedIds
        BY <1>0, <2>2
      <3>1. CASE Visited(ids, x)
        BY <2>2, <3>0, <3>1, VisitParts
      <3>2. CASE ~Visited(ids, x)
        <4> DEFINE a == Visit[<<ids, Hi(x)>>]
                   b == Visit[<<a, Lo(x)>>]
        <4>1. /\ a \in VisitedIds /\ b \in VisitedIds /\ Visit[<<ids, x>>] = AddTo(b, x)
              /\ Lo(x) \in Diagrams /\ Hi(x) \in Diagrams
          BY <3>0, <3>2, VisitParts
        <4>2. Closed(a)
          BY <2>1, <2>2
        <4>3. Closed(b)
          BY <2>1, <4>2
        <4>4. Visited(a, Hi(x))
          BY <3>0, <4>1, VisitKeeps
        <4>5. Visited(b, Hi(x)) /\ Visited(b, Lo(x))
          BY <4>1, <4>4, VisitKeeps
        <4> HIDE DEF a, b
        <4>6. QED
          BY <1>2, <4>1, <4>3, <4>5, AddCloses
      <3>3. QED
        BY <3>1, <3>2
    <2>3. QED
      BY <2>2
  <1>3. Diagrams \subseteq Good
    <2> HIDE DEF Good
    <2>1. QED
      BY <1>1, <1>2, DiagramInduction
  <1>4. QED
    BY <1>3

\* Nothing is visited but what can be reached.
Within(ids, S) == \A c : Visited(ids, c) => c \in S

LEMMA VisitStays ==
  ASSUME NEW S, \A x \in S : ~IsTerminal(x) => Lo(x) \in S /\ Hi(x) \in S, NEW z \in Diagrams
  PROVE  z \in S => \A ids \in VisitedIds : Within(ids, S) => Within(Visit[<<ids, z>>], S)
  <1> DEFINE Stays(x) == x \in S => \A ids \in VisitedIds :
                                      Within(ids, S) => Within(Visit[<<ids, x>>], S)
             Good == {x \in Diagrams : Stays(x)}
  <1>1. Zero \in Good /\ One \in Good
    <2>1. \A ids \in VisitedIds : Visited(ids, Zero) /\ Visited(ids, One)
      BY DEF VisitedIds
    <2>2. Zero \in Diagrams /\ One \in Diagrams
      BY TerminalDiagrams
    <2>a. \A x \in {Zero, One} : \A ids \in VisitedIds : Visit[<<ids, x>>] = ids
      <3>1. ASSUME NEW x \in {Zero, One}, NEW ids \in VisitedIds PROVE Visit[<<ids, x>>] = ids
        <4>1. x \in Diagrams /\ Visited(ids, x)
          BY <2>1, <2>2
        <4>2. QED
          BY <4>1, VisitParts
      <3>2. QED
        BY <3>1
    <2>3. ASSUME NEW x \in {Zero, One} PROVE Stays(x)
      BY <2>a
    <2>4. QED
      BY <2>2, <2>3
  <1>2. ASSUME NEW x \in Diagrams, ~IsTerminal(x), \A y \in Above(Val(x)) : y \in Good
        PROVE  x \in Good
    <2>1. Stays(Lo(x)) /\ Stays(Hi(x))
      BY <1>2, DiagramParts
    <2>2. ASSUME x \in S, NEW ids \in VisitedIds, Within(ids, S)
          PROVE  Within(Visit[<<ids, x>>], S)
      <3>1. CASE Visited(ids, x)
        BY <2>2, <3>1, VisitParts
      <3>2. CASE ~Visited(ids, x)
        <4> DEFINE a == Visit[<<ids, Hi(x)>>]
                   b == Visit[<<a, Lo(x)>>]
        <4>1. a \in VisitedIds /\ b \in VisitedIds /\ Visit[<<ids, x>>] = AddTo(b, x)
          BY <3>2, VisitParts
        <4>2. Within(a, S)
          BY <1>2, <2>1, <2>2
        <4>3. Within(b, S)
          BY <1>2, <2>1, <2>2, <4>1, <4>2
        <4> HIDE DEF a, b
        <4>4. Within(AddTo(b, x), S)
          BY <2>2, <4>1, <4>3, AddParts DEF Within
        <4>5. QED
          BY <4>1, <4>4
      <3>3. QED
        BY <3>1, <3>2
    <2>3. QED
      BY <2>2
  <1>3. Diagrams \subseteq Good
    <2> HIDE DEF Good
    <2>1. QED
      BY <1>1, <1>2, DiagramInduction
  <1>4. QED
    BY <1>3

\* The terminals alone.
LEMMA ClosedTerminals ==
  LET ids == <<Zero, One>> IN
  /\ ids \in VisitedIds /\ Closed(ids)
  /\ \A c : Visited(ids, c) <=> c \in {Zero, One}
  <1> DEFINE s == <<Zero, One>>
  <1>1. s \in Seq(Diagrams) /\ Len(s) = 2 /\ DOMAIN s = {1, 2} /\ s[1] = Zero /\ s[2] = One
    BY TerminalDiagrams
  <1>2. Zero # One
    BY DEF Zero, One
  <1> HIDE DEF s
  <1>3. s \in VisitedIds
    BY <1>1 DEF VisitedIds, Visited
  <1>4. \A c : Visited(s, c) <=> c \in {Zero, One}
    BY <1>1 DEF Visited
  <1>5. \A i, j \in 1 .. 2 : s[i] = s[j] => i = j
    BY <1>1, <1>2
  <1>6. Closed(s)
    BY <1>1, <1>3, <1>5 DEF Closed
  <1>7. QED
    BY <1>3, <1>4, <1>6 DEF s

-----------------------------------------------------------------------------
(***************************************************************************)
(* The form of what was visited                                            *)
(***************************************************************************)
\* The form of what the search visited.
FormNodes(ids) ==
  [i \in 1 .. Len(ids) - 2 |->
     LET z == ids[i + 2] IN
     OwnedZddNode(Val(z), IndexOf(ids, Lo(z)), IndexOf(ids, Hi(z)))]

LEMMA ClosedParts ==
  ASSUME NEW ids, Closed(ids)
  PROVE  /\ Len(ids) \in Nat /\ Len(ids) >= 2 /\ DOMAIN ids = 1 .. Len(ids)
         /\ \A i \in 1 .. Len(ids) : ids[i] \in Diagrams /\ IndexOf(ids, ids[i]) = i - 1
         /\ \A z : Visited(ids, z) => /\ IndexOf(ids, z) \in 0 .. Len(ids) - 1
                                      /\ ids[IndexOf(ids, z) + 1] = z
  <1>1. /\ Len(ids) \in Nat /\ Len(ids) >= 2 /\ DOMAIN ids = 1 .. Len(ids)
        /\ \A i \in 1 .. Len(ids) : ids[i] \in Diagrams
    BY AddParts, TerminalDiagrams DEF Closed
  <1>2. ASSUME NEW i \in 1 .. Len(ids) PROVE IndexOf(ids, ids[i]) = i - 1
    <2> DEFINE j == CHOOSE x \in DOMAIN ids : ids[x] = ids[i]
    <2>1. j \in 1 .. Len(ids) /\ ids[j] = ids[i]
      BY <1>1
    <2> HIDE DEF j
    <2>2. j = i
      BY <2>1 DEF Closed
    <2>3. QED
      BY <2>2 DEF IndexOf, j
  <1>3. ASSUME NEW z, Visited(ids, z)
        PROVE  IndexOf(ids, z) \in 0 .. Len(ids) - 1 /\ ids[IndexOf(ids, z) + 1] = z
    <2>1. PICK i \in 1 .. Len(ids) : ids[i] = z
      BY <1>1, <1>3 DEF Visited
    <2>2. IndexOf(ids, z) = i - 1
      BY <1>2, <2>1
    <2>3. i - 1 \in 0 .. Len(ids) - 1 /\ (i - 1) + 1 = i
      BY <1>1
    <2>4. QED
      BY <2>1, <2>2, <2>3
  <1>4. QED
    BY <1>1, <1>2, <1>3

LEMMA FormNodeParts ==
  ASSUME NEW ids, Closed(ids)
  PROVE  LET nodes == FormNodes(ids) IN
         /\ nodes \in NodeLists /\ Len(nodes) = Len(ids) - 2 /\ Last(nodes) = Len(ids) - 1
         /\ \A i \in 1 .. Len(nodes) : NodeAt(nodes, i + 1) = nodes[i]
         /\ \A x \in 2 .. Last(nodes) :
              LET n == NodeAt(nodes, x)
                  z == ids[x + 1]
              IN  /\ z \in Diagrams /\ ~IsTerminal(z) /\ n.value = Val(z)
                  /\ n.lo \in 0 .. x - 1 /\ ids[n.lo + 1] = Lo(z)
                  /\ n.hi \in 0 .. x - 1 /\ ids[n.hi + 1] = Hi(z)
  <1> DEFINE nodes == FormNodes(ids)
             N == Len(ids) - 2
  <1>1. /\ Len(ids) \in Nat /\ Len(ids) >= 2 /\ DOMAIN ids = 1 .. Len(ids) /\ N \in Nat
        /\ \A i \in 1 .. Len(ids) : ids[i] \in Diagrams /\ IndexOf(ids, ids[i]) = i - 1
    BY ClosedParts
  <1>2. ASSUME NEW i \in 1 .. N
        PROVE  LET z == ids[i + 2] IN
               /\ z \in Diagrams /\ ~IsTerminal(z) /\ Val(z) \in Elements
               /\ \A c \in {Lo(z), Hi(z)} : IndexOf(ids, c) \in 0 .. i /\ ids[IndexOf(ids, c) + 1] = c
    <2> DEFINE z == ids[i + 2]
    <2>1. i + 2 \in 3 .. Len(ids) /\ i + 2 \in 1 .. Len(ids) /\ (i + 2) - 1 = i + 1 /\ i \in Nat
      BY <1>1
    <2>2. z \in Diagrams /\ ~IsTerminal(z)
      BY <1>1, <2>1 DEF Closed
    <2>3. ASSUME NEW c \in {Lo(z), Hi(z)}
          PROVE  IndexOf(ids, c) \in 0 .. i /\ ids[IndexOf(ids, c) + 1] = c
      <3>1. PICK j \in 1 .. i + 1 : ids[j] = c
        BY <2>1 DEF Closed
      <3>2. j \in 1 .. Len(ids) /\ j - 1 \in 0 .. i /\ (j - 1) + 1 = j
        BY <1>1, <2>1
      <3>3. IndexOf(ids, c) = j - 1
        BY <1>1, <3>1, <3>2
      <3>4. QED
        BY <3>1, <3>2, <3>3
    <2>4. Val(z) \in Elements
      BY <2>2, NodeFamily
    <2> HIDE DEF z
    <2>5. QED
      BY <2>2, <2>3, <2>4 DEF z
  <1>3. DOMAIN nodes = 1 .. N
    BY DEF FormNodes
  <1>4. \A i \in 1 .. N :
          /\ nodes[i] \in OwnedNodes /\ nodes[i].value = Val(ids[i + 2])
          /\ nodes[i].lo = IndexOf(ids, Lo(ids[i + 2])) /\ nodes[i].hi = IndexOf(ids, Hi(ids[i + 2]))
    <2>1. ASSUME NEW i \in 1 .. N
          PROVE  /\ nodes[i] \in OwnedNodes /\ nodes[i].value = Val(ids[i + 2])
                 /\ nodes[i].lo = IndexOf(ids, Lo(ids[i + 2]))
                 /\ nodes[i].hi = IndexOf(ids, Hi(ids[i + 2]))
      <3> DEFINE z == ids[i + 2]
                 l == IndexOf(ids, Lo(z))
                 h == IndexOf(ids, Hi(z))
      <3>1. nodes[i] = [value |-> Val(z), lo |-> l, hi |-> h]
        BY DEF FormNodes, OwnedZddNode
      <3>2. Val(z) \in Elements /\ l \in Nat /\ h \in Nat
        <4>1. Val(z) \in Elements /\ l \in 0 .. i /\ h \in 0 .. i
          BY <1>2
        <4> HIDE DEF l, h
        <4>2. QED
          BY <4>1
      <3> HIDE DEF z, l, h
      <3>3. nodes[i] \in OwnedNodes /\ nodes[i].value = Val(z) /\ nodes[i].lo = l /\ nodes[i].hi = h
        BY <3>1, <3>2 DEF OwnedNodes
      <3>4. QED
        BY <3>3 DEF z, l, h
    <2>2. QED
      BY <2>1
  <1>5. nodes \in [1 .. N -> OwnedNodes]
    <2>1. nodes = [i \in 1 .. N |-> nodes[i]]
      BY DEF FormNodes
    <2> HIDE DEF nodes
    <2>2. QED
      BY <1>4, <2>1
  <1> HIDE DEF nodes
  <1>6. nodes \in NodeLists /\ Len(nodes) = N
    <2>1. nodes \in Seq(OwnedNodes)
      <3>1. nodes = [i \in 1 .. N |-> nodes[i]] /\ \A i \in 1 .. N : nodes[i] \in OwnedNodes
        BY <1>5
      <3>2. QED
        BY <1>1, <3>1
    <2>2. 1 .. N = 1 .. Len(nodes) /\ Len(nodes) \in Nat
      BY <1>3, <2>1, LenProperties
    <2>3. \A m, n \in Nat : 1 .. m = 1 .. n => m = n
      <3>1. ASSUME NEW m \in Nat, NEW n \in Nat, m < n PROVE n \in 1 .. n /\ n \notin 1 .. m
        BY <3>1
      <3>2. QED
        BY <3>1
    <2>4. Len(nodes) = N
      BY <1>1, <2>2, <2>3
    <2>5. QED
      BY <2>1, <2>4 DEF NodeLists
  <1>7. Last(nodes) = Len(ids) - 1
    BY <1>1, <1>6 DEF Last
  <1>8. ASSUME NEW i \in 1 .. Len(nodes) PROVE NodeAt(nodes, i + 1) = nodes[i]
    <2>1. (i + 1) - 1 = i
      BY <1>1, <1>6
    <2>2. QED
      BY <2>1 DEF NodeAt
  <1>9. ASSUME NEW x \in 2 .. Last(nodes)
        PROVE  LET n == NodeAt(nodes, x)
                   z == ids[x + 1]
               IN  /\ z \in Diagrams /\ ~IsTerminal(z) /\ n.value = Val(z)
                   /\ n.lo \in 0 .. x - 1 /\ ids[n.lo + 1] = Lo(z)
                   /\ n.hi \in 0 .. x - 1 /\ ids[n.hi + 1] = Hi(z)
    <2> DEFINE i == x - 1
    <2>1. i \in 1 .. N /\ i + 2 = x + 1
      BY <1>1, <1>7
    <2>2. NodeAt(nodes, x) = nodes[i]
      BY DEF NodeAt
    <2> HIDE DEF i
    <2>3. ids[x + 1] = ids[i + 2]
      BY <2>1
    <2>4. QED
      BY <1>2, <1>4, <2>1, <2>2, <2>3 DEF i
  <1>10. QED
    BY <1>6, <1>7, <1>8, <1>9 DEF nodes

LEMMA FormSound ==
  ASSUME NEW ids, Closed(ids)
  PROVE  Sound(FormNodes(ids))
  <1> DEFINE nodes == FormNodes(ids)
             N == Last(nodes)
  <1>1. /\ nodes \in NodeLists /\ Len(nodes) \in Nat /\ N = Len(nodes) + 1 /\ N \in Nat
        /\ N = Len(ids) - 1 /\ Len(ids) \in Nat
        /\ \A y \in Nat : y - 1 \in DOMAIN nodes <=> y \in 2 .. Len(nodes) + 1
    BY FormNodeParts, NodeListParts, ClosedParts DEF Last
  <1>2. \A x \in 2 .. N :
          LET n == NodeAt(nodes, x)
              z == ids[x + 1]
          IN  /\ z \in Diagrams /\ ~IsTerminal(z) /\ n.value = Val(z)
              /\ n.lo \in 0 .. x - 1 /\ ids[n.lo + 1] = Lo(z)
              /\ n.hi \in 0 .. x - 1 /\ ids[n.hi + 1] = Hi(z)
    BY FormNodeParts
  <1> HIDE DEF nodes, N
  <1>3. ASSUME NEW x \in 2 .. N PROVE Fault(nodes, x) = "none"
    <2> DEFINE n == NodeAt(nodes, x)
               z == ids[x + 1]
    <2>1. x \in Nat /\ x - 1 \in DOMAIN nodes
      BY <1>1
    <2>2. /\ z \in Diagrams /\ ~IsTerminal(z) /\ n.value = Val(z)
          /\ n.lo \in 0 .. x - 1 /\ ids[n.lo + 1] = Lo(z)
          /\ n.hi \in 0 .. x - 1 /\ ids[n.hi + 1] = Hi(z)
      BY <1>2
    <2>3. Val(z) \in Nat /\ Lo(z) \in Above(Val(z)) /\ Hi(z) \in Above(Val(z))
      BY <2>2, DiagramParts
    <2> HIDE DEF n, z
    <2>4. ASSUME NEW c \in Children(nodes, x)
          PROVE  ~(x < c) /\ ~(NodeAt(nodes, c).value <= NodeAt(nodes, x).value)
      <3>1. c \in {n.lo, n.hi} /\ c >= 2
        BY DEF Children, n
      <3>2. c \in 0 .. x - 1 /\ ids[c + 1] \in Above(Val(z))
        BY <2>2, <2>3, <3>1
      <3>3. c \in 2 .. N /\ ~(x < c)
        <4>1. x \in Nat /\ x <= N /\ N \in Nat
          BY <1>1
        <4>2. c \in Nat /\ c <= x - 1
          BY <3>2, <4>1
        <4>3. QED
          BY <3>1, <4>1, <4>2
      <3>4. ~IsTerminal(ids[c + 1]) /\ NodeAt(nodes, c).value = Val(ids[c + 1])
              /\ ids[c + 1] \in Diagrams
        BY <1>2, <3>3
      <3>5. Val(ids[c + 1]) > Val(z) /\ Val(ids[c + 1]) \in Nat
        BY <3>2, <3>4, DiagramParts DEF Above
      <3>6. ~(NodeAt(nodes, c).value <= n.value)
        BY <2>2, <2>3, <3>4, <3>5
      <3>7. QED
        BY <3>3, <3>6 DEF n
    <2>5. QED
      BY <2>1, <2>4 DEF Fault
  <1>4. QED
    BY <1>1, <1>3 DEF Sound, nodes

\* It loads to the diagrams that were visited.
LEMMA FormLoads ==
  ASSUME NEW ids, Closed(ids), NEW roots, NEW r \in roots, r \in 0 .. Len(ids) - 1
  PROVE  ToSetFamilies(Owned(FormNodes(ids), roots))[r] = ids[r + 1]
  <1> DEFINE nodes == FormNodes(ids)
             form == Owned(nodes, roots)
             N == Last(nodes)
  <1>1. form.nodes = nodes /\ form.roots = roots
    BY DEF Owned
  <1>2. nodes \in NodeLists /\ Sound(nodes) /\ N = Len(ids) - 1 /\ N \in Nat
    BY FormNodeParts, FormSound, ClosedParts
  <1>3. \A x \in 2 .. N :
          LET n == NodeAt(nodes, x)
              z == ids[x + 1]
          IN  /\ z \in Diagrams /\ ~IsTerminal(z) /\ n.value = Val(z)
              /\ n.lo \in 0 .. x - 1 /\ ids[n.lo + 1] = Lo(z)
              /\ n.hi \in 0 .. x - 1 /\ ids[n.hi + 1] = Hi(z)
    BY FormNodeParts
  <1>4. ids[1] = Zero /\ ids[2] = One
    BY DEF Closed
  <1> HIDE DEF nodes, form, N
  <1>5. PICK u : /\ \A x \in 0 .. N : u[x] = Load(u, nodes, x)
                 /\ \A q \in roots : ToSetFamilies(form)[q] = u[q]
    <2>1. form.nodes \in NodeLists /\ Sound(form.nodes)
      BY <1>1, <1>2
    <2>2. QED
      BY <1>1, <2>1, SoundLoads DEF N
  <1> DEFINE S == {x \in 0 .. N : u[x] = ids[x + 1]}
  <1>6. ASSUME NEW x \in 0 .. N, \A y \in 0 .. N : y < x => y \in S
        PROVE  x \in S
    <2>1. CASE x = 0
      <3>1. u[x] = Zero
        BY <1>5, <2>1 DEF Load
      <3>2. QED
        BY <1>4, <2>1, <3>1
    <2>2. CASE x = 1
      <3>1. u[x] = One
        BY <1>5, <2>2 DEF Load
      <3>2. QED
        BY <1>4, <2>2, <3>1
    <2>3. CASE x # 0 /\ x # 1
      <3> DEFINE n == NodeAt(nodes, x)
                 z == ids[x + 1]
      <3>1. x \in 2 .. N
        BY <1>2, <2>3
      <3>2. /\ z \in Diagrams /\ ~IsTerminal(z) /\ n.value = Val(z)
            /\ n.lo \in 0 .. x - 1 /\ ids[n.lo + 1] = Lo(z)
            /\ n.hi \in 0 .. x - 1 /\ ids[n.hi + 1] = Hi(z)
        BY <1>3, <3>1
      <3>3. z = Node(Val(z), Lo(z), Hi(z)) /\ Hi(z) # Zero
        BY <3>2, DiagramParts
      <3> HIDE DEF z
      <3>4. u[n.lo] = Lo(z) /\ u[n.hi] = Hi(z)
        <4>1. \A y \in 0 .. x - 1 : y \in 0 .. N /\ y < x
          BY <1>2, <3>1
        <4>2. QED
          BY <1>6, <3>2, <4>1
      <3>5. u[x] = GetNode(n.value, u[n.lo], u[n.hi])
        BY <1>5, <2>3 DEF Load
      <3>6. u[x] = z
        BY <3>2, <3>3, <3>4, <3>5 DEF GetNode, IsZero
      <3>7. QED
        BY <3>6 DEF z
    <2>4. QED
      BY <2>1, <2>2, <2>3
  <1>7. 0 .. N \subseteq S
    <2> HIDE DEF S
    <2>1. QED
      BY <1>2, <1>6, PositionInduction
  <1>8. u[r] = ids[r + 1]
    BY <1>2, <1>7
  <1>9. QED
    BY <1>5, <1>8 DEF form, nodes

LEMMA FormDistinct ==
  ASSUME NEW ids, Closed(ids), NEW i \in DOMAIN FormNodes(ids), NEW j \in DOMAIN FormNodes(ids),
         i # j
  PROVE  FormNodes(ids)[i] # FormNodes(ids)[j]
  <1> DEFINE nodes == FormNodes(ids)
             N == Last(nodes)
  <1>1. /\ DOMAIN nodes = 1 .. Len(nodes) /\ Len(nodes) \in Nat
        /\ N = Len(nodes) + 1 /\ N = Len(ids) - 1 /\ Len(ids) \in Nat
        /\ \A k \in 1 .. Len(nodes) : NodeAt(nodes, k + 1) = nodes[k]
    BY FormNodeParts, NodeListParts, ClosedParts DEF Last
  <1>2. \A x \in 2 .. N :
          LET n == NodeAt(nodes, x)
              z == ids[x + 1]
          IN  /\ z \in Diagrams /\ ~IsTerminal(z) /\ n.value = Val(z)
              /\ n.lo \in 0 .. x - 1 /\ ids[n.lo + 1] = Lo(z)
              /\ n.hi \in 0 .. x - 1 /\ ids[n.hi + 1] = Hi(z)
    BY FormNodeParts
  <1>a. i \in DOMAIN nodes /\ j \in DOMAIN nodes
    OBVIOUS
  <1> HIDE DEF nodes, N
  <1>3. /\ i \in 1 .. Len(nodes) /\ j \in 1 .. Len(nodes)
        /\ i + 1 \in 2 .. N /\ j + 1 \in 2 .. N
    BY <1>1, <1>a
  <1>4. ASSUME nodes[i] = nodes[j] PROVE FALSE
    <2> DEFINE n == NodeAt(nodes, i + 1)
               y == ids[(i + 1) + 1]
               z == ids[(j + 1) + 1]
    <2>1. NodeAt(nodes, j + 1) = n
      BY <1>1, <1>3, <1>4
    <2>2. /\ y \in Diagrams /\ ~IsTerminal(y) /\ n.value = Val(y)
          /\ ids[n.lo + 1] = Lo(y) /\ ids[n.hi + 1] = Hi(y)
      BY <1>2, <1>3
    <2>3. /\ z \in Diagrams /\ ~IsTerminal(z) /\ n.value = Val(z)
          /\ ids[n.lo + 1] = Lo(z) /\ ids[n.hi + 1] = Hi(z)
      BY <1>2, <1>3, <2>1
    <2>4. y = z
      <3>1. y = Node(Val(y), Lo(y), Hi(y)) /\ z = Node(Val(z), Lo(z), Hi(z))
        BY <2>2, <2>3, DiagramParts
      <3>2. Val(y) = Val(z) /\ Lo(y) = Lo(z) /\ Hi(y) = Hi(z)
        BY <2>2, <2>3
      <3>3. QED
        BY <3>1, <3>2
    <2>5. (i + 1) + 1 \in 1 .. Len(ids) /\ (j + 1) + 1 \in 1 .. Len(ids)
      BY <1>1, <1>3
    <2>6. (i + 1) + 1 = (j + 1) + 1
      BY <2>4, <2>5 DEF Closed
    <2>7. QED
      BY <1>3, <2>6
  <1>5. QED
    BY <1>4 DEF nodes

\* A set of diagrams with the children of its nodes.
Holds(S) == \A x \in S : ~IsTerminal(x) => Lo(x) \in S /\ Hi(x) \in S

\* Every node of the form is reached from its roots.
LEMMA FormAccepted ==
  ASSUME NEW ids, Closed(ids), NEW roots \in SUBSET (0 .. Len(ids) - 1),
         \A S : /\ Zero \in S /\ One \in S /\ Holds(S)
                /\ \A r \in roots : ids[r + 1] \in S
                => \A i \in 1 .. Len(ids) : ids[i] \in S
  PROVE  CheckValidity(Owned(FormNodes(ids), roots)) = {"Ok"}
  <1> DEFINE nodes == FormNodes(ids)
             form == Owned(nodes, roots)
             N == Last(nodes)
             I == 2 .. N
             R == Found(form)
  <1>1. form.nodes = nodes /\ form.roots = roots
    BY DEF Owned
  <1>2. nodes \in NodeLists /\ Sound(nodes) /\ N = Len(ids) - 1 /\ N \in Nat
          /\ Len(nodes) = Len(ids) - 2 /\ Len(ids) \in Nat /\ Len(ids) >= 2
          /\ Len(nodes) \in Nat /\ N = Len(nodes) + 1
    BY FormNodeParts, FormSound, ClosedParts, NodeListParts DEF Last
  <1>3. \A x \in I :
          LET n == NodeAt(nodes, x)
              z == ids[x + 1]
          IN  /\ z \in Diagrams /\ ~IsTerminal(z) /\ n.value = Val(z)
              /\ n.lo \in 0 .. x - 1 /\ ids[n.lo + 1] = Lo(z)
              /\ n.hi \in 0 .. x - 1 /\ ids[n.hi + 1] = Hi(z)
    BY FormNodeParts
  <1>4. ids[1] = Zero /\ ids[2] = One
    BY DEF Closed
  <1>5. form \in FormSets
    <2>1. roots \subseteq Nat
      BY <1>2
    <2> HIDE DEF nodes
    <2>2. QED
      BY <1>2, <2>1 DEF FormSets, Indices, Owned
  <1>6. \A x \in I : Fault(nodes, x) = "none"
    BY <1>2 DEF Sound
  <1> HIDE DEF nodes, form
  <1>7. R \subseteq I
    <2>1. I \in Indices /\ NodeRoots(form) \subseteq I
      <3>1. I \subseteq Nat
        BY <1>2
      <3>2. ASSUME NEW r \in roots, r >= 2 PROVE r \in I
        BY <1>2, <3>2
      <3>3. QED
        BY <1>1, <3>1, <3>2 DEF NodeRoots, Indices
    <2>2. ASSUME NEW x \in I PROVE Children(nodes, x) \subseteq I
      <3>1. ASSUME NEW c \in Children(nodes, x) PROVE c \in I
        <4>1. c \in 0 .. x - 1 /\ c >= 2
          BY <1>3, <3>1 DEF Children
        <4>2. x \in Nat /\ x <= N
          BY <1>2
        <4>3. QED
          BY <1>2, <4>1, <4>2
      <3>2. QED
        BY <3>1
    <2>3. Opens(nodes, I)
      BY <2>2 DEF Opens
    <2>4. QED
      BY <1>1, <1>5, <2>1, <2>3, FoundParts
  <1>8. NodeRoots(form) \subseteq R /\ Opens(nodes, R)
    BY <1>1, <1>5, FoundParts
  <1> HIDE DEF R
  <1> DEFINE S == {Zero, One} \cup {ids[x + 1] : x \in R}
  <1>9. ASSUME NEW c \in 0 .. N, c >= 2 => c \in R PROVE ids[c + 1] \in S
    <2>1. CASE c >= 2
      BY <1>9, <2>1
    <2>2. CASE ~(c >= 2)
      <3>1. c = 0 \/ c = 1
        BY <1>2, <2>2
      <3>2. QED
        BY <1>4, <3>1
    <2>3. QED
      BY <2>1, <2>2
  <1>10. ASSUME NEW y \in S, ~IsTerminal(y) PROVE Lo(y) \in S /\ Hi(y) \in S
    <2>1. PICK x \in R : y = ids[x + 1]
      BY <1>10 DEF IsTerminal, IsZero, IsOne
    <2>2. x \in I /\ Children(nodes, x) \subseteq R
      BY <1>6, <1>7, <1>8, <2>1 DEF Opens
    <2> DEFINE n == NodeAt(nodes, x)
               l == n.lo
               h == n.hi
    <2>3. /\ l \in 0 .. x - 1 /\ ids[l + 1] = Lo(y)
          /\ h \in 0 .. x - 1 /\ ids[h + 1] = Hi(y)
      BY <1>3, <2>1, <2>2
    <2>4. (l >= 2 => l \in R) /\ (h >= 2 => h \in R)
      BY <2>2 DEF Children
    <2> HIDE DEF l, h
    <2>5. l \in 0 .. N /\ h \in 0 .. N
      <3>1. x \in Nat /\ x <= N
        BY <1>2, <2>2
      <3>2. QED
        BY <1>2, <2>3, <3>1
    <2> HIDE DEF S
    <2>6. ids[l + 1] \in S /\ ids[h + 1] \in S
      BY <1>9, <2>4, <2>5
    <2>7. QED
      BY <2>3, <2>6
  <1>11. \A r \in roots : ids[r + 1] \in S
    <2>1. ASSUME NEW r \in roots PROVE ids[r + 1] \in S
      <3>1. r \in 0 .. N /\ (r >= 2 => r \in R)
        BY <1>1, <1>2, <1>8 DEF NodeRoots
      <3> HIDE DEF S
      <3>2. QED
        BY <1>9, <3>1
    <2>2. QED
      BY <2>1
  <1>12. \A i \in 1 .. Len(ids) : ids[i] \in S
    <2>1. Zero \in S /\ One \in S
      OBVIOUS
    <2>2. Holds(S)
      BY <1>10 DEF Holds
    <2> HIDE DEF S
    <2>3. QED
      BY <1>11, <2>1, <2>2
  <1>13. ASSUME NEW x \in I PROVE x \in R
    <2>1. x + 1 \in 1 .. Len(ids) /\ x \in Nat /\ x >= 2
      BY <1>2
    <2>2. ids[x + 1] \in S /\ ~IsTerminal(ids[x + 1])
      BY <1>3, <1>12, <2>1
    <2>3. PICK y \in R : ids[x + 1] = ids[y + 1]
      BY <2>2 DEF IsTerminal, IsZero, IsOne
    <2>4. y + 1 \in 1 .. Len(ids) /\ y \in Nat
      BY <1>2, <1>7
    <2>5. x + 1 = y + 1
      BY <2>1, <2>3, <2>4 DEF Closed
    <2>6. QED
      BY <2>1, <2>3, <2>4, <2>5
  <1>14. R = I
    BY <1>7, <1>13
  <1>15. Cardinality(I) = Len(nodes)
    <2>0. N \in Int /\ 2 \in Int
      BY <1>2
    <2>1. Cardinality(I) = IF 2 > N THEN 0 ELSE N - 2 + 1
      <3> HIDE DEF N
      <3>1. QED
        BY <2>0, FS_Interval
    <2>2. QED
      BY <2>1, <1>2
  <1>16. {Fault(nodes, x) : x \in R} \ {"none"} = {}
    BY <1>6, <1>14
  <1>17. QED
    BY <1>1, <1>14, <1>15, <1>16 DEF CheckValidity, Found, NodeRoots, R, form, nodes

LEMMA OwnedRoundTrips ==
  ASSUME NEW zdds \in Seq(Diagrams), NEW ids, Closed(ids),
         ids = Dfs[<<[i \in 1 .. Len(zdds) |-> Search(zdds[Len(zdds) + 1 - i])], <<Zero, One>>>>],
         \A i \in 1 .. Len(zdds) : Visited(ids, zdds[i]),
         \A S : /\ Zero \in S /\ One \in S /\ Holds(S)
                /\ \A i \in 1 .. Len(zdds) : zdds[i] \in S
                => Within(ids, S)
  PROVE  RoundTrips(ToOwnedZdds(zdds), zdds)
  <1> DEFINE n == Len(zdds)
             indices == [i \in 1 .. n |-> IndexOf(ids, zdds[i])]
             roots == {indices[i] : i \in 1 .. n}
             form == Owned(FormNodes(ids), roots)
  <1>1. ToOwnedZdds(zdds) = [form |-> form, indices |-> indices]
    BY DEF ToOwnedZdds, FormNodes
  <1>2. \A i \in 1 .. n : indices[i] \in 0 .. Len(ids) - 1 /\ ids[indices[i] + 1] = zdds[i]
    BY ClosedParts
  <1>3. DOMAIN zdds = 1 .. n
    BY LenProperties
  <1> HIDE DEF indices
  <1>4. roots \in SUBSET (0 .. Len(ids) - 1)
    BY <1>2
  <1>5. CheckValidity(form) = {"Ok"}
    <2>1. ASSUME NEW S, Zero \in S, One \in S, Holds(S), \A r \in roots : ids[r + 1] \in S
          PROVE  \A i \in 1 .. Len(ids) : ids[i] \in S
      <3>1. \A i \in 1 .. n : zdds[i] \in S
        BY <1>2, <2>1
      <3>2. Within(ids, S)
        BY <2>1, <3>1
      <3>3. \A i \in 1 .. Len(ids) : Visited(ids, ids[i])
        BY ClosedParts DEF Visited
      <3>4. QED
        BY <3>2, <3>3 DEF Within
    <2> HIDE DEF roots
    <2>2. QED
      BY <1>4, <2>1, FormAccepted DEF form
  <1>6. ASSUME NEW i \in DOMAIN zdds PROVE ToSetFamilies(form)[indices[i]] = zdds[i]
    <2> DEFINE r == indices[i]
    <2>1. r \in roots /\ r \in 0 .. Len(ids) - 1 /\ ids[r + 1] = zdds[i]
      BY <1>2, <1>3
    <2> HIDE DEF r, roots
    <2>2. ToSetFamilies(form)[r] = zdds[i]
      BY <2>1, FormLoads DEF form
    <2>3. QED
      BY <2>2 DEF r
  <1>7. \A i, j \in DOMAIN form.nodes : i # j => form.nodes[i] # form.nodes[j]
    BY FormDistinct DEF Owned
  <1> HIDE DEF form
  <1>8. QED
    BY <1>1, <1>5, <1>6, <1>7 DEF RoundTrips

\* One family, and two.
LEMMA OwnedExact ==
  ASSUME NEW y \in Diagrams, NEW z \in Diagrams
  PROVE  RoundTrips(ToOwnedZdds(<<y>>), <<y>>) /\ RoundTrips(ToOwnedZdds(<<y, z>>), <<y, z>>)
  <1> DEFINE T == <<Zero, One>>
             a == Visit[<<T, y>>]
             b == Visit[<<T, z>>]
             d == Visit[<<b, y>>]
  <1>1. T \in VisitedIds /\ Closed(T) /\ \A c : Visited(T, c) <=> c \in {Zero, One}
    BY ClosedTerminals
  <1> HIDE DEF T
  <1>2. Closed(a) /\ Closed(b)
    BY <1>1, VisitCloses
  <1>3. a \in VisitedIds /\ b \in VisitedIds
    BY <1>2 DEF Closed
  <1>4. Closed(d)
    BY <1>2, VisitCloses
  <1>5. d \in VisitedIds
    BY <1>4 DEF Closed
  <1>6. Visited(a, y) /\ Visited(b, z) /\ Visited(d, y) /\ Visited(d, z)
    BY <1>1, <1>3, VisitKeeps
  <1>7. ASSUME NEW S, Zero \in S, One \in S, Holds(S), y \in S PROVE Within(a, S)
    <2>1. Within(T, S)
      BY <1>1, <1>7 DEF Within
    <2>2. QED
      BY <1>1, <1>7, <2>1, VisitStays DEF Holds
  <1>8. ASSUME NEW S, Zero \in S, One \in S, Holds(S), y \in S, z \in S PROVE Within(d, S)
    <2>1. Within(T, S)
      BY <1>1, <1>8 DEF Within
    <2>2. Within(b, S)
      BY <1>1, <1>8, <2>1, VisitStays DEF Holds
    <2>3. QED
      BY <1>3, <1>8, <2>2, VisitStays DEF Holds
  <1>9. /\ \A ids \in VisitedIds : Dfs[<<<<>>, ids>>] = ids
        /\ \A c \in Diagrams : Searches1(Dfs, c)
    BY DfsIs
  <1>10. /\ <<>> \in PortionStacks /\ <<Search(y)>> \o <<>> = <<Search(y)>>
         /\ <<Search(y)>> \in PortionStacks
         /\ <<Search(z)>> \o <<Search(y)>> = <<Search(z), Search(y)>>
    <2>1. Search(y) \in Portions /\ Search(z) \in Portions
      BY PortionParts
    <2> DEFINE p == Search(y)
               q == Search(z)
    <2> HIDE DEF p, q
    <2>2. <<>> \in Seq(Portions) /\ <<p>> \in Seq(Portions)
      BY <2>1 DEF p
    <2>3. <<p>> \o <<>> = <<p>>
      BY <2>2, ConcatEmptySeq
    <2>4. <<q>> \o <<p>> = <<q, p>>
      <3> DEFINE l == <<q>>
                 r == <<p>>
                 both == <<q, p>>
      <3>1. l \in Seq(Portions) /\ Len(l) = 1 /\ l[1] = q
        BY <2>1 DEF q
      <3>2. r \in Seq(Portions) /\ Len(r) = 1 /\ r[1] = p
        BY <2>2
      <3>3. both \in Seq(Portions) /\ Len(both) = 2 /\ both[1] = q /\ both[2] = p
        BY <2>1 DEF p, q
      <3> HIDE DEF l, r, both
      <3> DEFINE joined == l \o r
      <3>4. /\ joined \in Seq(Portions) /\ Len(joined) = Len(l) + Len(r)
            /\ \A i \in 1 .. Len(l) + Len(r) :
                 joined[i] = IF i <= Len(l) THEN l[i] ELSE r[i - Len(l)]
        BY <3>1, <3>2, ConcatProperties
      <3> HIDE DEF joined
      <3>5. Len(joined) = 2 /\ joined[1] = q /\ joined[2] = p
        BY <3>1, <3>2, <3>4
      <3>6. \A i \in 1 .. 2 : joined[i] = both[i]
        <4>1. \A i \in 1 .. 2 : i = 1 \/ i = 2
          OBVIOUS
        <4>2. QED
          BY <3>3, <3>5, <4>1
      <3>7. joined = both
        BY <3>3, <3>4, <3>5, <3>6, SeqEqual
      <3>8. QED
        BY <3>7 DEF joined, l, r, both
    <2>5. QED
      BY <2>2, <2>3, <2>4 DEF PortionStacks, p, q
  <1> HIDE DEF a, b, d
  <1>11. Dfs[<<<<Search(y)>>, T>>] = a
    <2>1. Dfs[<<<<Search(y)>> \o <<>>, T>>] = Dfs[<<<<>>, a>>]
      BY <1>1, <1>9, <1>10 DEF Searches1, a
    <2>2. QED
      BY <1>3, <1>9, <1>10, <2>1
  <1>12. Dfs[<<<<Search(y)>>, b>>] = d
    <2>1. Dfs[<<<<Search(y)>> \o <<>>, b>>] = Dfs[<<<<>>, d>>]
      BY <1>3, <1>9, <1>10 DEF Searches1, d
    <2>2. QED
      BY <1>5, <1>9, <1>10, <2>1
  <1>13. Dfs[<<<<Search(z), Search(y)>>, T>>] = d
    <2>1. Dfs[<<<<Search(z)>> \o <<Search(y)>>, T>>] = Dfs[<<<<Search(y)>>, b>>]
      BY <1>1, <1>9, <1>10 DEF Searches1, b
    <2>2. QED
      BY <1>10, <1>12, <2>1
  <1>14. RoundTrips(ToOwnedZdds(<<y>>), <<y>>)
    <2> DEFINE s == <<y>>
    <2>1. s \in Seq(Diagrams) /\ Len(s) = 1 /\ s[1] = y
      OBVIOUS
    <2>2. [i \in 1 .. 1 |-> Search(s[1 + 1 - i])] = <<Search(y)>>
      OBVIOUS
    <2> HIDE DEF s
    <2>3. a = Dfs[<<[i \in 1 .. Len(s) |-> Search(s[Len(s) + 1 - i])], <<Zero, One>>>>]
      BY <1>11, <2>1, <2>2 DEF T
    <2>4. \A i \in 1 .. Len(s) : i = 1
      BY <2>1
    <2>5. \A i \in 1 .. Len(s) : Visited(a, s[i])
      BY <1>6, <2>1, <2>4
    <2>6. ASSUME NEW S, Zero \in S, One \in S, Holds(S), \A i \in 1 .. Len(s) : s[i] \in S
          PROVE  Within(a, S)
      BY <1>7, <2>1, <2>6
    <2>7. RoundTrips(ToOwnedZdds(s), s)
      BY <1>2, <2>1, <2>3, <2>5, <2>6, OwnedRoundTrips
    <2>8. QED
      BY <2>7 DEF s
  <1>15. RoundTrips(ToOwnedZdds(<<y, z>>), <<y, z>>)
    <2> DEFINE s == <<y, z>>
    <2>1. s \in Seq(Diagrams) /\ Len(s) = 2 /\ s[1] = y /\ s[2] = z
      OBVIOUS
    <2>2. [i \in 1 .. 2 |-> Search(s[2 + 1 - i])] = <<Search(z), Search(y)>>
      OBVIOUS
    <2> HIDE DEF s
    <2>3. d = Dfs[<<[i \in 1 .. Len(s) |-> Search(s[Len(s) + 1 - i])], <<Zero, One>>>>]
      BY <1>13, <2>1, <2>2 DEF T
    <2>4. \A i \in 1 .. Len(s) : i = 1 \/ i = 2
      BY <2>1
    <2>5. \A i \in 1 .. Len(s) : Visited(d, s[i])
      BY <1>6, <2>1, <2>4
    <2>6. ASSUME NEW S, Zero \in S, One \in S, Holds(S), \A i \in 1 .. Len(s) : s[i] \in S
          PROVE  Within(d, S)
      BY <1>8, <2>1, <2>6
    <2>7. RoundTrips(ToOwnedZdds(s), s)
      BY <1>4, <2>1, <2>3, <2>5, <2>6, OwnedRoundTrips
    <2>8. QED
      BY <2>7 DEF s
  <1>16. QED
    BY <1>14, <1>15

-----------------------------------------------------------------------------
(***************************************************************************)
(* The program of AlgebraCalls                                             *)
(***************************************************************************)
LEMMA OwnedStepExact == ASSUME AlgebraInv, CallToOwned PROVE FormsExact'
  <1>0. f \in Diagrams /\ g \in Diagrams
    BY DEF AlgebraInv, Built, Is
  <1>1. CASE Unary("to_owned_zdd", {}, ToOwnedZdds(<<f>>))
    <2> DEFINE z == ToOwnedZdds(<<f>>)
    <2>1. RoundTrips(z, <<f>>)
      BY <1>0, OwnedExact
    <2>2. Answer("to_owned_zdd", {}, z)
      BY <1>1 DEF Unary
    <2> HIDE DEF z
    <2>3. f' = f /\ answer'.op = "to_owned_zdd" /\ answer'.zdd = z
      BY <2>2, AfterAnswer DEF Answer
    <2>4. RoundTrips(answer'.zdd, <<f'>>)
      BY <2>1, <2>3
    <2>5. QED
      BY <2>3, <2>4 DEF FormsExact
  <1>2. CASE Binary("to_owned_zdds", ToOwnedZdds(<<f, g>>))
    <2> DEFINE z == ToOwnedZdds(<<f, g>>)
    <2>1. RoundTrips(z, <<f, g>>)
      BY <1>0, OwnedExact
    <2>2. Answer("to_owned_zdds", {}, z)
      BY <1>2 DEF Binary
    <2> HIDE DEF z
    <2>3. f' = f /\ g' = g /\ answer'.op = "to_owned_zdds" /\ answer'.zdd = z
      BY <2>2, AfterAnswer DEF Answer
    <2>4. RoundTrips(answer'.zdd, <<f', g'>>)
      BY <2>1, <2>3
    <2>5. QED
      BY <2>3, <2>4 DEF FormsExact
  <1>3. QED
    BY <1>1, <1>2 DEF CallToOwned

LEMMA TryFromStepExact == ASSUME AlgebraInv, CallTryFrom PROVE FormsExact'
  <1>1. PICK x \in Forms, single_root \in BOOLEAN :
          \E verdict \in TryFrom(x, single_root) :
            Answer("try_from", {x},
                   [verdict |-> verdict,
                    loaded  |-> IF verdict = "Ok" THEN ToSetFamilies(x) ELSE <<>>])
    BY DEF CallTryFrom
  <1>2. PICK verdict \in TryFrom(x, single_root) :
          Answer("try_from", {x},
                 [verdict |-> verdict,
                  loaded  |-> IF verdict = "Ok" THEN ToSetFamilies(x) ELSE <<>>])
    BY <1>1
  <1> DEFINE z == [verdict |-> verdict,
                   loaded  |-> IF verdict = "Ok" THEN ToSetFamilies(x) ELSE <<>>]
  <1>3. z.verdict = verdict /\ (verdict = "Ok" => z.loaded = ToSetFamilies(x))
    OBVIOUS
  <1>4. Answer("try_from", {x}, z)
    BY <1>2
  <1> HIDE DEF z
  <1>5. answer'.op = "try_from" /\ answer'.arg = {x} /\ answer'.zdd = z
    BY <1>4, AfterAnswer
  <1>6. x \in FormSets
    BY CallsAssumption DEF FormSets, NodeLists, Indices
  <1>7. verdict \in {"Ok", "panic"} => verdict \in CheckValidity(x)
    BY <1>2 DEF TryFrom
  <1>8. (CHOOSE y \in {x} : TRUE) = x
    OBVIOUS
  <1>9. verdict = "Ok" => \A i \in x.roots : Is(z.loaded[i], Spelt(x.nodes)[i])
    BY <1>3, <1>6, <1>7, VerdictExact
  <1>10. verdict = "panic" => \E i \in x.roots : i >= Len(x.nodes) + 2
    BY <1>6, <1>7, VerdictExact
  <1> DEFINE form == CHOOSE y \in answer.arg : TRUE
  <1>11. form' = x
    BY <1>5, <1>8
  <1> HIDE DEF form
  <1>12. /\ answer'.zdd.verdict = "Ok" =>
              \A i \in (form').roots : Is(answer'.zdd.loaded[i], Spelt((form').nodes)[i])
         /\ answer'.zdd.verdict = "panic" =>
              \E i \in (form').roots : i >= Len((form').nodes) + 2
    BY <1>3, <1>5, <1>9, <1>10, <1>11
  <1>13. QED
    BY <1>5, <1>12 DEF FormsExact, form

FormCalls == {"to_owned_zdd", "to_owned_zdds", "try_from"}

LEMMA FormsQuiet ==
  ASSUME NEW op, answer'.op = op, op \notin FormCalls PROVE FormsExact'
  BY DEF FormsExact, FormCalls

LEMMA FormsKept == AlgebraInv /\ FormsExact /\ [Next]_vars => FormsExact'
  <1> SUFFICES ASSUME AlgebraInv, FormsExact, [Next]_vars PROVE FormsExact'
    OBVIOUS
  <1>1. CASE CallToOwned
    BY <1>1, OwnedStepExact
  <1>2. CASE CallTryFrom
    BY <1>2, TryFromStepExact
  <1>3. CASE UseSingleSet \/ UNCHANGED vars
    <2>1. answer' = answer /\ f' = f /\ g' = g
      BY <1>3 DEF UseSingleSet, vars
    <2>2. QED
      BY <2>1 DEF FormsExact
  <1>4. ASSUME Next, ~CallToOwned, ~CallTryFrom, ~UseSingleSet
        PROVE  \E op : answer'.op = op /\ op \notin FormCalls
    <2>1. CASE Forget
      BY <2>1 DEF Forget, NoAnswer, FormCalls
    <2>2. CASE CallMembers
      <3> DEFINE z == Members[<<<<f, <<>>>>>>]
                 y(func) == MapInto[<<f, func>>]
      <3>1. \/ Unary("members", {}, z)
            \/ \E func \in Funcs : Unary("map", {func}, y(func))
        BY <2>2 DEF CallMembers
      <3> HIDE DEF z, y
      <3>2. answer'.op = "members" \/ answer'.op = "map"
        BY <3>1 DEF Unary, Answer
      <3>3. QED
        BY <3>2 DEF FormCalls
    <2>3. CASE CallSizes \/ CallSets \/ CallUnate
      BY <2>3 DEF CallSizes, CallSets, CallUnate, Unary, Binary, Answer, FormCalls
    <2>4. CASE CallFilter \/ CallMinimal \/ CallSuperset
      BY <2>4 DEF CallFilter, CallMinimal, CallSuperset, Unary, Binary, Answer, FormCalls
    <2>5. ASSUME NEW v \in Elements, CallElement(v)
          PROVE  \E op : answer'.op = op /\ op \notin FormCalls
      BY <2>5 DEF CallElement, Unary, Answer, FormCalls
    <2>6. ASSUME NEW T \in SUBSET Elements, CallExtend(T)
          PROVE  \E op : answer'.op = op /\ op \notin FormCalls
      BY <2>6 DEF CallExtend, Unary, Answer, FormCalls
    <2>7. QED
      BY <1>4, <2>1, <2>2, <2>3, <2>4, <2>5, <2>6 DEF Next
  <1>5. QED
    BY <1>1, <1>2, <1>3, <1>4, FormsQuiet

\* For every finite set of values.  A form made from one or two families is
\* accepted by try_from's test, holds every node once and loads back to those
\* families.  A form from elsewhere that is accepted loads to the one diagram of
\* what it spells, and only a root that is no node makes the test panic.
THEOREM FormsAreExact == Spec => []FormsExact
  <1>1. Init => FormsExact
    BY DEF Init, NoAnswer, FormsExact
  <1>2. QED
    BY <1>1, FormsKept, AlgebraInvariant, PTL DEF Spec
=============================================================================
