-------------------------- MODULE UnionCacheProofs --------------------------
(***************************************************************************)
(* The memoised union, for every number of values, every table and every   *)
(* set of places for handles: what a handle names is never collected, and  *)
(* until a suspect entry of the cache is used every handle spells its      *)
(* family, every entry is true and every answer is right.                  *)
(*                                                                         *)
(* The invariant has two parts.  The first holds always, also after a      *)
(* wrong answer: the table stays ordered.  A wrong answer has a wrong      *)
(* family, but no value that is too low, because an entry keeps an index   *)
(* of its key with the lowest value (the argument that was not moved).     *)
(* So the values grow along the stack, which bounds its depth, and no node *)
(* gets a zero hi child.  The second part holds as long as no suspect      *)
(* entry was used: what each frame still has to do makes, with what it     *)
(* has, the family it owes; and a key that is not in doubt names nodes     *)
(* whose union is that family.                                             *)
(***************************************************************************)
EXTENDS UnionCache, SequenceTheorems, WellFoundedInduction, TLAPS

-----------------------------------------------------------------------------
(***************************************************************************)
(* The invariant: types                                                    *)
(***************************************************************************)
Families  == SUBSET SUBSET Vals
HandleSet == [id : Ids, fam : Families]
Nodes     == [Indices -> [v : 0 .. NVars, lo : Ids, hi : Ids]]

\* What a frame has left to do; the first three wait for the next frame.
Waiting == {"lo", "lo_then_hi", "hi"}
Kinds   == Waiting \cup {"call", "node"}

Frames ==
  [todo : Kinds, v : 0 .. NVars,
   parts : HandleSet \X HandleSet, key : {NoKey} \cup (Ids \X Ids),
   kept : SUBSET HandleSet, expected : Families]

Types ==
  /\ data \in Nodes
  /\ published \subseteq Indices
  /\ DOMAIN cache \subseteq Ids \X Ids
  /\ \A k \in DOMAIN cache : cache[k] \in Ids
  /\ regs \in [Regs -> HandleSet]
  /\ stack \in Seq(Frames)
  /\ result \in HandleSet \cup {NoResult}
  /\ result # NoResult => stack = <<>>
  /\ older \in Nat
  /\ trusted \in BOOLEAN

(***************************************************************************)
(* The invariant: the order of values                                      *)
(***************************************************************************)
\* Terminals come after every value.
ValueOf(nodes, i) == IF IsTerminal(i) THEN NVars + 1 ELSE nodes[i].v

\* The nodes of P are closed, ordered, and have a hi child.
Ordered(nodes, P) ==
  \A i \in P :
    /\ nodes[i].v \in Vals
    /\ nodes[i].hi # 0
    /\ \A c \in {nodes[i].lo, nodes[i].hi} :
         IsTerminal(c) \/ (c \in P /\ nodes[i].v < nodes[c].v)

HeldLive == \A h \in Handles \ {NoResult} : Live(h.id)

\* An entry's node comes no earlier than one of the nodes of its key.
CacheOrdered ==
  \A k \in DOMAIN cache :
    /\ cache[k] \in published
    /\ \E j \in {k[1], k[2]} \cap published : data[j].v <= data[cache[k]].v

\* What f answers with comes after v; it is not zero.
Over(nodes, v, f) ==
  IF f.todo = "call" THEN \A p \in {1, 2} : v < ValueOf(nodes, f.parts[p].id)
  ELSE v < f.v
NonZero(f) == f.todo = "call" => \E p \in {1, 2} : f.parts[p].id # 0

\* The parts of frame k come after its value, which grows with k, and one of
\* the indices of its key is held and has that value.
FrameOrdered(nodes, f, k) ==
  /\ f.todo # "call" =>
       /\ k <= f.v
       /\ \A p \in {1, 2} : f.v < ValueOf(nodes, f.parts[p].id)
       /\ f.todo # "hi" => f.parts[2].id # 0
       /\ f.todo = "lo_then_hi" => f.parts[1].id # 0
  /\ f.key # NoKey =>
       \E h \in f.kept : /\ h.id \in {f.key[1], f.key[2]} \cap Indices
                         /\ nodes[h.id].v = f.v

\* Frame k waits for the next one, the last is a call or a node to build.
FrameWaits(nodes, s, k) ==
  IF k = Len(s) THEN s[k].todo \in {"call", "node"}
  ELSE /\ s[k].todo \in Waiting
       /\ Over(nodes, s[k].v, s[k + 1])
       /\ s[k].todo = "hi" => NonZero(s[k + 1])

StackOrdered(nodes, s) ==
  \A k \in 1 .. Len(s) : FrameOrdered(nodes, s[k], k) /\ FrameWaits(nodes, s, k)

SInv ==
  /\ Types
  /\ Ordered(data, published)
  /\ HeldLive
  /\ CacheOrdered
  /\ StackOrdered(data, stack)

(***************************************************************************)
(* The invariant: the families                                             *)
(***************************************************************************)
HandlesSpell(held, nodes) ==
  \A h \in held \ {NoResult} : FamilyIn(nodes, h.id) = h.fam

CacheTrue ==
  \A k \in DOMAIN cache \ suspect :
    /\ Live(k[1]) /\ Live(k[2])
    /\ Family(cache[k]) = Family(k[1]) \cup Family(k[2])

\* With ans for the call it waits for, f makes the family it owes.
Means(f, ans) ==
  /\ f.todo = "call" => f.expected = f.parts[1].fam \cup f.parts[2].fam
  /\ f.todo = "lo"   => f.expected = ans \cup Above(f.v, f.parts[2].fam)
  /\ f.todo = "hi"   => f.expected = f.parts[1].fam \cup Above(f.v, ans)
  /\ f.todo = "node" => f.expected = f.parts[1].fam \cup Above(f.v, f.parts[2].fam)
  /\ f.todo = "lo_then_hi" =>
       f.expected = ans \cup Above(f.v, f.parts[1].fam \cup f.parts[2].fam)

StackMeans(s) ==
  \A k \in 1 .. Len(s) : Means(s[k], IF k < Len(s) THEN s[k + 1].expected ELSE {})

KeyHeld(f) == {f.key[1], f.key[2]} \subseteq {h.id : h \in f.kept}

KeyTrue(nodes, pub, f) ==
  /\ {f.key[1], f.key[2]} \subseteq {0, 1} \cup pub
  /\ FamilyIn(nodes, f.key[1]) \cup FamilyIn(nodes, f.key[2]) = f.expected

KeysTrue(nodes, pub, s, old) ==
  \A k \in 1 .. Len(s) :
    s[k].key # NoKey /\ (old < k \/ KeyHeld(s[k])) => KeyTrue(nodes, pub, s[k])

MInv ==
  /\ HandlesSpell(Handles, data)
  /\ CacheTrue
  /\ StackMeans(stack)
  /\ KeysTrue(data, published, stack, older)

UInv == SInv /\ (trusted => MInv)

-----------------------------------------------------------------------------
(***************************************************************************)
(* Induction without an operator: the least counterexample.                *)
(***************************************************************************)
LEMMA LeastOf ==
  ASSUME NEW S \in SUBSET Nat, S # {}
  PROVE  \E x \in S : \A y \in S : x <= y
  <1>1. PICK x \in S : \A y \in SetLessThan(x, OpToRel(<, Nat), Nat) : y \notin S
    <2>1. PICK x \in S : \A y \in S : ~(<<y, x>> \in OpToRel(<, Nat))
      BY NatLessThanWellFounded, WFMin
    <2>2. QED
      BY <2>1 DEF SetLessThan
  <1>2. ASSUME NEW y \in S PROVE x <= y
    <2>1. x \in Nat /\ y \in Nat
      OBVIOUS
    <2>2. CASE y < x
      <3>1. <<y, x>> \in OpToRel(<, Nat)
        BY <2>1, <2>2 DEF OpToRel
      <3>2. QED
        BY <3>1, <1>1, <2>1 DEF SetLessThan
    <2>3. QED
      BY <2>1, <2>2
  <1>3. QED
    BY <1>2

-----------------------------------------------------------------------------
(***************************************************************************)
(* Families                                                                *)
(***************************************************************************)
\* The levels 0 .. n of the recursion.
IsLevels(nodes, n, F) ==
  F = [d \in 0 .. n |-> IF d = 0 THEN Ground ELSE Level(nodes, F[d - 1])]

LEMMA LevelsExist ==
  ASSUME NEW nodes, NEW m \in Nat
  PROVE  \E F : IsLevels(nodes, m, F)
  <1> DEFINE Bad == {n \in Nat : ~ \E F : IsLevels(nodes, n, F)}
  <1>1. ASSUME Bad # {} PROVE FALSE
    <2>1. PICK n \in Bad : \A y \in Bad : n <= y
      BY <1>1, LeastOf
    <2>2. n # 0
      <3>1. IsLevels(nodes, 0, [d \in 0 .. 0 |-> Ground])
        BY DEF IsLevels
      <3>2. QED
        BY <3>1
    <2>3. n - 1 \in Nat /\ n - 1 \notin Bad
      BY <2>1, <2>2
    <2>4. PICK F : IsLevels(nodes, n - 1, F)
      BY <2>3
    <2> DEFINE G == [d \in 0 .. n |-> IF d = 0 THEN Ground
                                      ELSE Level(nodes, F[d - 1])]
    <2>5. \A d \in 0 .. n - 1 : G[d] = F[d]
      BY <2>3, <2>4 DEF IsLevels
    <2>6. \A d \in 0 .. n : d # 0 => d - 1 \in 0 .. n - 1
      BY <2>3
    <2>7. G = [d \in 0 .. n |-> IF d = 0 THEN Ground ELSE Level(nodes, G[d - 1])]
      BY <2>5, <2>6
    <2>8. IsLevels(nodes, n, G)
      BY <2>7 DEF IsLevels
    <2>9. QED
      BY <2>1, <2>8
  <1>2. QED
    BY <1>1

LEMMA FamilyLevels ==
  ASSUME NEW nodes
  PROVE  \E F : /\ IsLevels(nodes, NVars, F)
                /\ \A i : FamilyIn(nodes, i) = F[NVars][i]
  <1> DEFINE F == CHOOSE f : IsLevels(nodes, NVars, f)
  <1>1. IsLevels(nodes, NVars, F)
    <2>1. NVars \in Nat
      BY UnionAssumption
    <2>2. QED
      BY <2>1, LevelsExist
  <1>2. \A i : FamilyIn(nodes, i) = F[NVars][i]
    BY DEF FamilyIn, IsLevels
  <1>3. QED
    BY <1>1, <1>2

LEMMA Numbers ==
  /\ NVars \in Nat /\ Capacity \in Nat /\ 2 < Capacity
  /\ 0 \in Ids /\ 1 \in Ids /\ Indices \subseteq Ids /\ Ids \subseteq Nat
  /\ \A i \in Indices : i # 0 /\ i # 1 /\ ~IsTerminal(i)
  /\ \A i \in Ids : IsTerminal(i) \/ i \in Indices
  BY UnionAssumption DEF Ids, Indices, IsTerminal

\* The levels of the recursion, at terminals and at nodes.
LEMMA LevelsAt ==
  ASSUME NEW nodes, NEW F, IsLevels(nodes, NVars, F)
  PROVE  /\ \A d \in 0 .. NVars : F[d][0] = {} /\ F[d][1] = {{}}
         /\ \A d \in 1 .. NVars, i \in Indices :
              F[d][i] = F[d - 1][nodes[i].lo]
                          \cup Above(nodes[i].v, F[d - 1][nodes[i].hi])
  <1>1. /\ F[0] = Ground
        /\ \A d \in 1 .. NVars : F[d] = Level(nodes, F[d - 1])
    BY Numbers DEF IsLevels
  <1>2. Ground[0] = {} /\ Ground[1] = {{}}
    BY Numbers DEF Ground
  <1>3. ASSUME NEW d \in 0 .. NVars PROVE F[d][0] = {} /\ F[d][1] = {{}}
    <2>1. CASE d = 0
      BY <1>1, <1>2, <2>1
    <2>2. CASE d \in 1 .. NVars
      <3>1. F[d] = Level(nodes, F[d - 1])
        BY <1>1, <2>2
      <3>2. QED
        BY <1>2, <3>1, Numbers DEF Level, IsTerminal
    <2>3. QED
      BY <2>1, <2>2, Numbers
  <1>4. ASSUME NEW d \in 1 .. NVars, NEW i \in Indices
        PROVE  F[d][i] = F[d - 1][nodes[i].lo]
                           \cup Above(nodes[i].v, F[d - 1][nodes[i].hi])
    <2>1. F[d] = Level(nodes, F[d - 1])
      BY <1>1
    <2>2. i \in Ids /\ ~IsTerminal(i)
      BY Numbers
    <2>3. QED
      BY <2>1, <2>2 DEF Level
  <1>5. QED
    BY <1>3, <1>4

\* Over ordered nodes the level above the last of a node's values is final.
LEMMA LevelsSettle ==
  ASSUME NEW nodes, NEW P \in SUBSET Indices, Ordered(nodes, P),
         NEW F, IsLevels(nodes, NVars, F)
  PROVE  \A d \in 1 .. NVars, i \in P :
            NVars < d - 1 + nodes[i].v => F[d][i] = F[d - 1][i]
  <1> DEFINE Bad == {d \in 1 .. NVars : \E i \in P : /\ NVars < d - 1 + nodes[i].v
                                                    /\ F[d][i] # F[d - 1][i]}
  <1>1. ASSUME Bad # {} PROVE FALSE
    <2>1. PICK d \in Bad : \A e \in Bad : d <= e
      <3>1. Bad \in SUBSET Nat
        BY Numbers
      <3> HIDE DEF Bad
      <3>2. QED
        BY <1>1, <3>1, LeastOf
    <2>2. PICK i \in P : NVars < d - 1 + nodes[i].v /\ F[d][i] # F[d - 1][i]
      BY <2>1
    <2>3. nodes[i].v \in 1 .. NVars /\ d \in 1 .. NVars
      BY <2>1 DEF Ordered, Vals
    <2>4. d - 1 \in 1 .. NVars /\ d - 1 \notin Bad
      BY <2>1, <2>2, <2>3, Numbers
    <2>5. ASSUME NEW c \in {nodes[i].lo, nodes[i].hi}
          PROVE  F[d - 1][c] = F[(d - 1) - 1][c]
      <3>1. CASE IsTerminal(c)
        <4>1. d - 1 \in 0 .. NVars /\ (d - 1) - 1 \in 0 .. NVars
          BY <2>4, Numbers
        <4>2. \A j \in {0, 1} : F[d - 1][j] = F[(d - 1) - 1][j]
          <5>1. F[d - 1][0] = {} /\ F[d - 1][1] = {{}}
            BY <4>1, LevelsAt
          <5>2. F[(d - 1) - 1][0] = {} /\ F[(d - 1) - 1][1] = {{}}
            BY <4>1, LevelsAt
          <5>3. QED
            BY <5>1, <5>2
        <4>3. QED
          BY <3>1, <4>2 DEF IsTerminal
      <3>2. CASE c \in P /\ nodes[i].v < nodes[c].v
        <4>1. nodes[c].v \in 1 .. NVars
          BY <3>2 DEF Ordered, Vals
        <4>2. NVars < (d - 1) - 1 + nodes[c].v
          BY <2>2, <2>3, <3>2, <4>1, Numbers
        <4>3. QED
          BY <2>4, <3>2, <4>2
      <3>3. QED
        BY <3>1, <3>2 DEF Ordered
    <2>6. F[d][i] = F[d - 1][nodes[i].lo] \cup Above(nodes[i].v, F[d - 1][nodes[i].hi])
      BY <2>3, LevelsAt
    <2>7. F[d - 1][i] = F[(d - 1) - 1][nodes[i].lo]
                          \cup Above(nodes[i].v, F[(d - 1) - 1][nodes[i].hi])
      BY <2>4, LevelsAt
    <2>8. QED
      BY <2>2, <2>5, <2>6, <2>7
  <1>2. QED
    BY <1>1

\* Over ordered nodes a family is made of the families of the children.
LEMMA FamilySpelt ==
  ASSUME NEW nodes, NEW P \in SUBSET Indices, Ordered(nodes, P), NEW i \in P
  PROVE  FamilyIn(nodes, i) = FamilyIn(nodes, nodes[i].lo)
                                \cup Above(nodes[i].v, FamilyIn(nodes, nodes[i].hi))
  <1>1. PICK F : /\ IsLevels(nodes, NVars, F)
                 /\ \A j : FamilyIn(nodes, j) = F[NVars][j]
    BY FamilyLevels
  <1>2. nodes[i].v \in 1 .. NVars /\ NVars \in 1 .. NVars
    BY Numbers DEF Ordered, Vals
  <1>3. ASSUME NEW c \in {nodes[i].lo, nodes[i].hi}
        PROVE  F[NVars - 1][c] = F[NVars][c]
    <2>1. CASE IsTerminal(c)
      <3>1. NVars - 1 \in 0 .. NVars /\ NVars \in 0 .. NVars
        BY <1>2, Numbers
      <3>2. \A j \in {0, 1} : F[NVars - 1][j] = F[NVars][j]
        <4>1. F[NVars - 1][0] = {} /\ F[NVars - 1][1] = {{}}
          BY <1>1, <3>1, LevelsAt
        <4>2. F[NVars][0] = {} /\ F[NVars][1] = {{}}
          BY <1>1, <3>1, LevelsAt
        <4>3. QED
          BY <4>1, <4>2
      <3>3. QED
        BY <2>1, <3>2 DEF IsTerminal
    <2>2. CASE c \in P /\ nodes[i].v < nodes[c].v
      <3>1. nodes[c].v \in 1 .. NVars
        BY <2>2 DEF Ordered, Vals
      <3>2. NVars < NVars - 1 + nodes[c].v
        BY <1>2, <2>2, <3>1, Numbers
      <3>3. QED
        BY <1>1, <1>2, <2>2, <3>2, LevelsSettle
    <2>3. QED
      BY <2>1, <2>2 DEF Ordered
  <1>4. F[NVars][i] = F[NVars - 1][nodes[i].lo]
                        \cup Above(nodes[i].v, F[NVars - 1][nodes[i].hi])
    BY <1>1, <1>2, LevelsAt
  <1>5. QED
    BY <1>1, <1>3, <1>4

LEMMA FamilyTerminals ==
  ASSUME NEW nodes
  PROVE  FamilyIn(nodes, 0) = {} /\ FamilyIn(nodes, 1) = {{}}
  <1>1. PICK F : /\ IsLevels(nodes, NVars, F)
                 /\ \A j : FamilyIn(nodes, j) = F[NVars][j]
    BY FamilyLevels
  <1>2. QED
    BY <1>1, LevelsAt, Numbers

\* Nodes that two tables share spell the same in both.
LEMMA FamilySame ==
  ASSUME NEW nodes, NEW nodes2, NEW P \in SUBSET Indices, Ordered(nodes, P),
         \A i \in P : nodes2[i] = nodes[i]
  PROVE  \A i \in P \cup {0, 1} : FamilyIn(nodes2, i) = FamilyIn(nodes, i)
  <1> DEFINE Bad == {e \in 0 .. NVars :
                       \E i \in P : /\ e = NVars - nodes[i].v
                                    /\ FamilyIn(nodes2, i) # FamilyIn(nodes, i)}
  <1>1. Ordered(nodes2, P)
    BY DEF Ordered
  <1>2. ASSUME NEW c, IsTerminal(c) PROVE FamilyIn(nodes2, c) = FamilyIn(nodes, c)
    BY <1>2, FamilyTerminals DEF IsTerminal
  <1>3. ASSUME Bad # {} PROVE FALSE
    <2>1. PICK e \in Bad : \A f \in Bad : e <= f
      <3>1. Bad \in SUBSET Nat
        BY Numbers
      <3> HIDE DEF Bad
      <3>2. QED
        BY <1>3, <3>1, LeastOf
    <2>2. PICK i \in P : e = NVars - nodes[i].v /\ FamilyIn(nodes2, i) # FamilyIn(nodes, i)
      BY <2>1
    <2>3. ASSUME NEW c \in {nodes[i].lo, nodes[i].hi}
          PROVE  FamilyIn(nodes2, c) = FamilyIn(nodes, c)
      <3>1. CASE c \in P /\ nodes[i].v < nodes[c].v
        <4>1. nodes[c].v \in 1 .. NVars /\ nodes[i].v \in 1 .. NVars
          BY <3>1 DEF Ordered, Vals
        <4>2. NVars - nodes[c].v \in 0 .. NVars /\ NVars - nodes[c].v < e
          BY <2>2, <3>1, <4>1, Numbers
        <4>3. NVars - nodes[c].v \notin Bad
          BY <2>1, <4>2, Numbers
        <4>4. QED
          BY <3>1, <4>2, <4>3
      <3>2. QED
        BY <1>2, <3>1 DEF Ordered
    <2>4. FamilyIn(nodes, i) = FamilyIn(nodes, nodes[i].lo)
                                 \cup Above(nodes[i].v, FamilyIn(nodes, nodes[i].hi))
      BY FamilySpelt
    <2>5. FamilyIn(nodes2, i) = FamilyIn(nodes2, nodes2[i].lo)
                                  \cup Above(nodes2[i].v, FamilyIn(nodes2, nodes2[i].hi))
      BY <1>1, FamilySpelt
    <2>6. QED
      BY <2>2, <2>3, <2>4, <2>5
  <1>4. ASSUME NEW i \in P PROVE FamilyIn(nodes2, i) = FamilyIn(nodes, i)
    <2>1. NVars - nodes[i].v \in 0 .. NVars
      BY Numbers DEF Ordered, Vals
    <2>2. QED
      BY <1>3, <2>1
  <1>5. QED
    BY <1>2, <1>4 DEF IsTerminal

\* Every element of a node's sets is at or after its value.
LEMMA FamilyAfter ==
  ASSUME NEW nodes, NEW P \in SUBSET Indices, Ordered(nodes, P)
  PROVE  \A i \in P : \A s \in FamilyIn(nodes, i) : \A x \in s :
            x \in Vals /\ nodes[i].v <= x
  <1> DEFINE Bad == {e \in 0 .. NVars :
                       \E i \in P : /\ e = NVars - nodes[i].v
                                    /\ \E s \in FamilyIn(nodes, i) : \E x \in s :
                                          ~(x \in Vals /\ nodes[i].v <= x)}
  <1>1. ASSUME Bad # {} PROVE FALSE
    <2>1. PICK e \in Bad : \A f \in Bad : e <= f
      <3>1. Bad \in SUBSET Nat
        BY Numbers
      <3> HIDE DEF Bad
      <3>2. QED
        BY <1>1, <3>1, LeastOf
    <2>2. PICK i \in P : /\ e = NVars - nodes[i].v
                         /\ \E s \in FamilyIn(nodes, i) : \E x \in s :
                              ~(x \in Vals /\ nodes[i].v <= x)
      BY <2>1
    <2>3. PICK s \in FamilyIn(nodes, i) : \E x \in s : ~(x \in Vals /\ nodes[i].v <= x)
      BY <2>2
    <2>9. PICK x \in s : ~(x \in Vals /\ nodes[i].v <= x)
      BY <2>3
    <2>4. nodes[i].v \in 1 .. NVars
      BY DEF Ordered, Vals
    <2>5. ASSUME NEW c \in {nodes[i].lo, nodes[i].hi}, NEW r \in FamilyIn(nodes, c),
                 NEW y \in r
          PROVE  y \in Vals /\ nodes[i].v <= y
      <3>1. CASE c \in P /\ nodes[i].v < nodes[c].v
        <4>1. nodes[c].v \in 1 .. NVars
          BY <3>1 DEF Ordered, Vals
        <4>2. NVars - nodes[c].v \in 0 .. NVars /\ NVars - nodes[c].v < e
          BY <2>2, <2>4, <3>1, <4>1, Numbers
        <4>3. NVars - nodes[c].v \notin Bad
          BY <2>1, <4>2, Numbers
        <4>4. y \in Vals /\ nodes[c].v <= y
          BY <3>1, <4>2, <4>3
        <4>5. QED
          BY <2>4, <3>1, <4>1, <4>4, Numbers DEF Vals
      <3>2. CASE IsTerminal(c)
        BY <2>5, <3>2, FamilyTerminals DEF IsTerminal
      <3>3. QED
        BY <3>1, <3>2 DEF Ordered
    <2>6. CASE s \in FamilyIn(nodes, nodes[i].lo)
      BY <2>9, <2>5, <2>6
    <2>7. CASE s \in Above(nodes[i].v, FamilyIn(nodes, nodes[i].hi))
      <3>1. PICK r \in FamilyIn(nodes, nodes[i].hi) : s = r \cup {nodes[i].v}
        BY <2>7 DEF Above
      <3>2. CASE x \in r
        BY <2>9, <2>5, <3>2
      <3>3. CASE x = nodes[i].v
        BY <2>9, <2>4, <3>3 DEF Vals
      <3>4. QED
        BY <2>9, <3>1, <3>2, <3>3
    <2>8. QED
      BY <2>3, <2>6, <2>7, FamilySpelt
  <1>2. QED
    <2>1. \A i \in P : NVars - nodes[i].v \in 0 .. NVars
      BY Numbers DEF Ordered, Vals
    <2>2. QED
      BY <1>1, <2>1

\* A node's children are its two cofactors.
LEMMA NodeSplits ==
  ASSUME NEW nodes, NEW P \in SUBSET Indices, Ordered(nodes, P), NEW i \in P
  PROVE  LET v == nodes[i].v
             f == FamilyIn(nodes, i)
         IN /\ {s \in f : v \notin s} = FamilyIn(nodes, nodes[i].lo)
            /\ {s \ {v} : s \in {x \in f : v \in x}} = FamilyIn(nodes, nodes[i].hi)
  <1> DEFINE v == nodes[i].v
             L == FamilyIn(nodes, nodes[i].lo)
             H == FamilyIn(nodes, nodes[i].hi)
             f == FamilyIn(nodes, i)
  <1>1. f = L \cup Above(v, H)
    BY FamilySpelt
  <1>2. ASSUME NEW c \in {nodes[i].lo, nodes[i].hi}, NEW s \in FamilyIn(nodes, c)
        PROVE  v \notin s
    <2>1. CASE IsTerminal(c)
      BY <1>2, <2>1, FamilyTerminals DEF IsTerminal
    <2>2. CASE c \in P /\ v < nodes[c].v
      <3>1. v \in 1 .. NVars /\ nodes[c].v \in 1 .. NVars
        BY <2>2 DEF Ordered, Vals
      <3>2. v \in s => nodes[c].v <= v
        BY <1>2, <2>2, FamilyAfter
      <3>3. QED
        BY <2>2, <3>1, <3>2, Numbers
    <2>3. QED
      BY <2>1, <2>2 DEF Ordered
  <1>3. \A s \in L \cup H : v \notin s
    BY <1>2
  <1> HIDE DEF v, L, H, f
  <1>4. {s \in f : v \notin s} = L
    BY <1>1, <1>3 DEF Above
  <1>5. {s \ {v} : s \in {x \in f : v \in x}} = H
    <2>1. {x \in f : v \in x} = Above(v, H)
      BY <1>1, <1>3 DEF Above
    <2>2. \A s \in H : (s \cup {v}) \ {v} = s
      BY <1>3
    <2>3. {s \ {v} : s \in Above(v, H)} = H
      <3>1. ASSUME NEW s \in Above(v, H) PROVE s \ {v} \in H
        <4>1. PICK r \in H : s = r \cup {v}
          BY DEF Above
        <4>2. QED
          BY <2>2, <4>1
      <3>2. ASSUME NEW r \in H PROVE \E s \in Above(v, H) : r = s \ {v}
        <4>1. r \cup {v} \in Above(v, H) /\ r = (r \cup {v}) \ {v}
          BY <2>2 DEF Above
        <4>2. QED
          BY <4>1
      <3>3. QED
        BY <3>1, <3>2
    <2>4. QED
      BY <2>1, <2>3
  <1>6. QED
    BY <1>4, <1>5 DEF v, L, H, f

LEMMA AboveUnion ==
  ASSUME NEW v, NEW f, NEW g
  PROVE  Above(v, f \cup g) = Above(v, f) \cup Above(v, g)
  BY DEF Above

-----------------------------------------------------------------------------
(***************************************************************************)
(* What a collection marks                                                 *)
(***************************************************************************)
LEMMA ReachHasRoots ==
  ASSUME NEW nodes, NEW roots \in SUBSET Indices
  PROVE  roots \subseteq Reach(nodes, roots) /\ Reach(nodes, roots) \subseteq Indices
  BY DEF Reach

LEMMA ReachIsClosed ==
  ASSUME NEW nodes, NEW roots \in SUBSET Indices, NEW i \in Reach(nodes, roots),
         NEW c \in {nodes[i].lo, nodes[i].hi}, c \in Indices
  PROVE  c \in Reach(nodes, roots)
  <1>1. c # 0 /\ c # 1
    BY Numbers
  <1>2. ASSUME NEW S \in SUBSET Indices, roots \subseteq S,
               \A j \in S : {nodes[j].lo, nodes[j].hi} \subseteq S \cup {0, 1}
        PROVE  c \in S
    BY <1>1, <1>2 DEF Reach
  <1>3. QED
    BY <1>1, <1>2 DEF Reach

LEMMA ReachWithin ==
  ASSUME NEW nodes, NEW roots \in SUBSET Indices, NEW S \in SUBSET Indices,
         roots \subseteq S,
         \A j \in S : {nodes[j].lo, nodes[j].hi} \subseteq S \cup {0, 1}
  PROVE  Reach(nodes, roots) \subseteq S
  BY DEF Reach

\* Of ordered nodes a collection leaves ordered nodes, which spell the same.
LEMMA Collected ==
  ASSUME NEW nodes, NEW P \in SUBSET Indices, Ordered(nodes, P),
         NEW roots \in SUBSET P
  PROVE  LET kept == Reach(nodes, roots)
             d    == Emptied(nodes, kept)
         IN /\ roots \subseteq kept /\ kept \subseteq P
            /\ \A i \in kept : d[i] = nodes[i]
            /\ Ordered(d, kept)
            /\ \A i \in kept \cup {0, 1} : FamilyIn(d, i) = FamilyIn(nodes, i)
  <1> DEFINE kept == Reach(nodes, roots)
             d    == Emptied(nodes, kept)
  <1>1. roots \in SUBSET Indices
    OBVIOUS
  <1>2. roots \subseteq kept /\ kept \subseteq Indices
    BY <1>1, ReachHasRoots
  <1>3. kept \subseteq P
    <2>1. \A j \in P : {nodes[j].lo, nodes[j].hi} \subseteq P \cup {0, 1}
      BY DEF Ordered, IsTerminal
    <2>2. QED
      BY <1>1, <2>1, ReachWithin
  <1>4. ASSUME NEW i \in kept, NEW c \in {nodes[i].lo, nodes[i].hi}, ~IsTerminal(c)
        PROVE  c \in kept
    <2>1. c \in Indices
      BY <1>3, <1>4 DEF Ordered
    <2>2. QED
      BY <1>1, <2>1, ReachIsClosed
  <1>5. \A i \in kept : d[i] = nodes[i]
    BY <1>2 DEF Emptied
  <1> HIDE DEF kept
  <1>6. Ordered(nodes, kept)
    BY <1>3, <1>4 DEF Ordered
  <1>7. Ordered(d, kept)
    <2> HIDE DEF d
    <2>1. QED
      BY <1>5, <1>6 DEF Ordered
  <1>8. \A i \in kept \cup {0, 1} : FamilyIn(d, i) = FamilyIn(nodes, i)
    <2> HIDE DEF d
    <2>1. QED
      BY <1>2, <1>5, <1>6, FamilySame
  <1>9. QED
    BY <1>2, <1>3, <1>5, <1>7, <1>8 DEF kept

\* A new node over ordered children.
LEMMA Inserted ==
  ASSUME NEW nodes, NEW P \in SUBSET Indices, Ordered(nodes, P),
         NEW i \in Indices \ P, NEW d, NEW v \in Vals, NEW lo, NEW hi, hi # 0,
         \A c \in {lo, hi} : IsTerminal(c) \/ (c \in P /\ v < nodes[c].v),
         d[i] = Node(v, lo, hi), \A j \in P : d[j] = nodes[j]
  PROVE  /\ Ordered(d, P \cup {i})
         /\ \A j \in P \cup {0, 1} : FamilyIn(d, j) = FamilyIn(nodes, j)
         /\ FamilyIn(d, i) = FamilyIn(nodes, lo) \cup Above(v, FamilyIn(nodes, hi))
  <1>1. d[i].v = v /\ d[i].lo = lo /\ d[i].hi = hi
    BY DEF Node
  <1>2. Ordered(d, P \cup {i})
    BY <1>1 DEF Ordered
  <1>3. \A j \in P \cup {0, 1} : FamilyIn(d, j) = FamilyIn(nodes, j)
    BY FamilySame
  <1>4. FamilyIn(d, i) = FamilyIn(d, lo) \cup Above(v, FamilyIn(d, hi))
    <2>1. P \cup {i} \in SUBSET Indices /\ i \in P \cup {i}
      OBVIOUS
    <2>2. QED
      BY <1>1, <1>2, <2>1, FamilySpelt
  <1>5. lo \in P \cup {0, 1} /\ hi \in P \cup {0, 1}
    BY DEF IsTerminal
  <1>6. QED
    BY <1>2, <1>3, <1>4, <1>5

-----------------------------------------------------------------------------
(***************************************************************************)
(* Handles, frames and the stack                                           *)
(***************************************************************************)
LEMMA HandleTyped ==
  /\ Zero \in HandleSet /\ One \in HandleSet /\ NoResult \notin HandleSet
  /\ Zero.id = 0 /\ Zero.fam = {} /\ One.id = 1 /\ One.fam = {{}}
  /\ NoResult.id = Capacity /\ Capacity \notin Ids
  /\ \A i \in Ids, f \in Families : Handle(i, f) \in HandleSet
  BY UnionAssumption DEF Zero, One, NoResult, Handle, HandleSet, Ids, Families

LEMMA HandleIs ==
  ASSUME NEW i, NEW f
  PROVE  Handle(i, f).id = i /\ Handle(i, f).fam = f
  BY DEF Handle

LEMMA FrameTyped ==
  ASSUME NEW f \in Frames
  PROVE  /\ f.parts[1] \in HandleSet /\ f.parts[2] \in HandleSet
         /\ f.kept \subseteq HandleSet
         /\ FrameHandles(f) = {f.parts[1], f.parts[2]} \cup f.kept
         /\ FrameHandles(f) \subseteq HandleSet
  <1>1. f.parts \in HandleSet \X HandleSet /\ f.kept \subseteq HandleSet
    BY DEF Frames
  <1>2. PICK a \in HandleSet, b \in HandleSet : f.parts = <<a, b>>
    BY <1>1
  <1>3. DOMAIN f.parts = {1, 2} /\ f.parts[1] = a /\ f.parts[2] = b
    BY <1>2
  <1>4. FrameHandles(f) = {f.parts[1], f.parts[2]} \cup f.kept
    BY <1>3 DEF FrameHandles
  <1>5. QED
    BY <1>1, <1>3, <1>4

LEMMA HandlesAre ==
  ASSUME Types
  PROVE  /\ \A r \in Regs : regs[r] \in Handles /\ regs[r] \in HandleSet
         /\ result \in Handles
         /\ \A k \in 1 .. Len(stack) : /\ stack[k] \in Frames
                                       /\ FrameHandles(stack[k]) \subseteq Handles
         /\ \A g \in Handles :
              \/ \E r \in Regs : g = regs[r]
              \/ g = result
              \/ \E k \in 1 .. Len(stack) : g \in FrameHandles(stack[k])
         /\ Handles \ {NoResult} \subseteq HandleSet
  <1>1. DOMAIN stack = 1 .. Len(stack) /\ \A k \in 1 .. Len(stack) : stack[k] \in Frames
    BY DEF Types
  <1>2. \A r \in Regs : regs[r] \in HandleSet
    BY DEF Types
  <1>3. result \in HandleSet \cup {NoResult}
    BY DEF Types
  <1> DEFINE A == {regs[r] : r \in Regs}
             B == UNION {FrameHandles(stack[k]) : k \in DOMAIN stack}
  <1>8. \A g : g \in A <=> \E r \in Regs : g = regs[r]
    OBVIOUS
  <1>9. \A g : g \in B <=> \E k \in DOMAIN stack : g \in FrameHandles(stack[k])
    OBVIOUS
  <1>10. Handles = A \cup {result} \cup B
    BY DEF Handles
  <1> HIDE DEF A, B
  <1>4. /\ \A r \in Regs : regs[r] \in Handles
        /\ result \in Handles
        /\ \A k \in 1 .. Len(stack) : FrameHandles(stack[k]) \subseteq Handles
    BY <1>1, <1>8, <1>9, <1>10
  <1>5. \A g \in Handles :
          \/ \E r \in Regs : g = regs[r]
          \/ g = result
          \/ \E k \in 1 .. Len(stack) : g \in FrameHandles(stack[k])
    BY <1>1, <1>8, <1>9, <1>10
  <1>6. \A k \in 1 .. Len(stack) : FrameHandles(stack[k]) \subseteq HandleSet
    BY <1>1, FrameTyped
  <1>7. QED
    BY <1>1, <1>2, <1>3, <1>4, <1>5, <1>6

\* The indices of the handles that are in use.
HeldIds == {h.id : h \in Handles \ {NoResult}} \cap Indices

LEMMA HeldAre ==
  ASSUME SInv
  PROVE  /\ HeldIds \subseteq published
         /\ \A h \in Handles \ {NoResult} : /\ h \in HandleSet
                                            /\ h.id \in Indices <=> h.id \in published
                                            /\ h.id \in HeldIds \/ IsTerminal(h.id)
         /\ Ids2Live(Handles) = HeldIds
         /\ published \subseteq Indices
  <1>1. Types /\ HeldLive /\ published \subseteq Indices
    BY DEF SInv, Types
  <1>2. \A h \in Handles \ {NoResult} : h \in HandleSet /\ h.id \in Ids
    BY <1>1, HandlesAre DEF HandleSet
  <1>3. \A h \in Handles \ {NoResult} :
          h.id \in Indices => h.id \in published
    BY <1>1, Numbers DEF HeldLive, Live
  <1>4. Ids2Live(Handles) = HeldIds
    <2>1. \A h \in Handles : h = NoResult => h.id = Capacity
      BY HandleTyped
    <2>2. \A h \in Handles \ {NoResult} :
            h.id # Capacity /\ (h.id \in Indices <=> h.id \notin {0, 1})
      BY <1>2, HandleTyped, Numbers DEF IsTerminal
    <2>3. QED
      BY <2>1, <2>2, HandleTyped, Numbers DEF Ids2Live, HeldIds
  <1>5. \A h \in Handles \ {NoResult} : h.id \in HeldIds \/ IsTerminal(h.id)
    BY <1>2, Numbers DEF HeldIds
  <1>6. QED
    BY <1>1, <1>2, <1>3, <1>4, <1>5 DEF HeldIds

LEMMA StackTop ==
  ASSUME Types, stack # <<>>
  PROVE  /\ Len(stack) \in Nat /\ Len(stack) >= 1
         /\ Top = stack[Len(stack)] /\ Top \in Frames
         /\ Below \in Seq(Frames) /\ Len(Below) = Len(stack) - 1
         /\ \A k \in 1 .. Len(stack) - 1 : Below[k] = stack[k]
         /\ Below = <<>> <=> Len(stack) = 1
         /\ FrameHandles(Top) \subseteq Handles \ {NoResult}
  <1>1. stack \in Seq(Frames)
    BY DEF Types
  <1>2. Len(stack) \in Nat /\ Len(stack) >= 1
    BY <1>1
  <1>3. Top = stack[Len(stack)] /\ Top \in Frames
    BY <1>1, <1>2 DEF Top
  <1>4. /\ Below \in Seq(Frames) /\ Len(Below) = Len(stack) - 1
        /\ \A k \in 1 .. Len(stack) - 1 : Below[k] = stack[k]
    <2> DEFINE n == Len(stack) - 1
    <2>1. n \in Int /\ 1 \in Int /\ \A i \in 1 .. n : stack[i] \in Frames
      BY <1>1, <1>2
    <2>2. /\ SubSeq(stack, 1, n) \in Seq(Frames)
          /\ Len(SubSeq(stack, 1, n)) = IF 1 <= n THEN n - 1 + 1 ELSE 0
          /\ \A i \in 1 .. n - 1 + 1 : SubSeq(stack, 1, n)[i] = stack[1 + i - 1]
      <3> HIDE DEF n
      <3>1. QED
        BY <2>1, SubSeqProperties
    <2>3. Below = SubSeq(stack, 1, n)
      BY DEF Below
    <2>4. n - 1 + 1 = n /\ n \in Nat /\ \A i \in 1 .. n : 1 + i - 1 = i
      BY <1>2
    <2>5. Len(Below) = n
      <3> HIDE DEF n
      <3>1. QED
        BY <2>2, <2>3, <2>4
    <2>6. \A i \in 1 .. n : Below[i] = stack[i]
      <3> HIDE DEF n
      <3>1. QED
        BY <2>2, <2>3, <2>4
    <2>7. QED
      BY <2>2, <2>3, <2>5, <2>6
  <1>5. Below = <<>> <=> Len(stack) = 1
    BY <1>2, <1>4, EmptySeq
  <1>6. FrameHandles(Top) \subseteq Handles \ {NoResult}
    BY <1>2, <1>3, HandlesAre, FrameTyped, HandleTyped
  <1>7. QED
    BY <1>2, <1>3, <1>4, <1>5, <1>6

\* Where the nodes of its handles stay, a frame keeps its order.
LEMMA FrameStays ==
  ASSUME NEW nodes, NEW d, NEW f \in Frames,
         \A h \in FrameHandles(f) : h.id \in Indices => d[h.id] = nodes[h.id]
  PROVE  /\ \A v : Over(nodes, v, f) => Over(d, v, f)
         /\ \A k : FrameOrdered(nodes, f, k) => FrameOrdered(d, f, k)
         /\ \A p \in {1, 2} : ValueOf(d, f.parts[p].id) = ValueOf(nodes, f.parts[p].id)
  <1>1. \A p \in {1, 2} : f.parts[p] \in FrameHandles(f) /\ f.parts[p].id \in Ids
    BY FrameTyped DEF HandleSet
  <1>2. \A p \in {1, 2} : ValueOf(d, f.parts[p].id) = ValueOf(nodes, f.parts[p].id)
    BY <1>1, Numbers DEF ValueOf
  <1>3. \A h \in f.kept : h.id \in Indices => d[h.id] = nodes[h.id]
    BY FrameTyped
  <1>4. \A v : Over(nodes, v, f) => Over(d, v, f)
    BY <1>2 DEF Over
  <1>5. \A k : FrameOrdered(nodes, f, k) => FrameOrdered(d, f, k)
    BY <1>2, <1>3 DEF FrameOrdered
  <1>6. QED
    BY <1>2, <1>4, <1>5

LEMMA StackStays ==
  ASSUME NEW nodes, NEW d, NEW s \in Seq(Frames), StackOrdered(nodes, s),
         \A k \in 1 .. Len(s) : \A h \in FrameHandles(s[k]) :
            h.id \in Indices => d[h.id] = nodes[h.id]
  PROVE  StackOrdered(d, s)
  <1>1. ASSUME NEW k \in 1 .. Len(s)
        PROVE  FrameOrdered(d, s[k], k) /\ FrameWaits(d, s, k)
    <2>1. s[k] \in Frames /\ (k # Len(s) => k + 1 \in 1 .. Len(s) /\ s[k + 1] \in Frames)
      OBVIOUS
    <2>2. FrameOrdered(d, s[k], k)
      BY <2>1, FrameStays DEF StackOrdered
    <2>3. FrameWaits(nodes, s, k)
      BY DEF StackOrdered
    <2>4. k # Len(s) => (Over(nodes, s[k].v, s[k + 1]) => Over(d, s[k].v, s[k + 1]))
      BY <2>1, FrameStays
    <2>5. FrameWaits(d, s, k)
      BY <2>3, <2>4 DEF FrameWaits
    <2>6. QED
      BY <2>2, <2>5
  <1>2. QED
    BY <1>1 DEF StackOrdered

LEMMA CallTyped ==
  ASSUME NEW self \in HandleSet, NEW other \in HandleSet
  PROVE  /\ Call(self, other) \in Frames
         /\ Call(self, other).todo = "call"
         /\ Call(self, other).parts[1] = self /\ Call(self, other).parts[2] = other
         /\ Call(self, other).key = NoKey
         /\ Call(self, other).expected = self.fam \cup other.fam
         /\ FrameHandles(Call(self, other)) = {self, other}
  <1>1. self.fam \cup other.fam \in Families /\ 0 \in 0 .. NVars
    BY Numbers DEF HandleSet, Families
  <1>2. Call(self, other) \in Frames
    BY <1>1 DEF Call, Frame, Frames, Kinds
  <1>3. Call(self, other).kept = {}
    BY DEF Call, Frame
  <1>4. QED
    BY <1>2, <1>3, FrameTyped DEF Call, Frame

\* r is f, but for what is left to do and the parts.
Changed(f, t, a, b) == [f EXCEPT !.todo = t, !.parts = <<a, b>>]

IsChanged(r, f, t, a, b) ==
  /\ r \in Frames /\ r.v = f.v /\ r.key = f.key /\ r.kept = f.kept
  /\ r.expected = f.expected /\ r.todo = t /\ r.parts = <<a, b>>
  /\ FrameHandles(r) = {a, b} \cup f.kept

LEMMA FrameChanged ==
  ASSUME NEW f \in Frames, NEW t \in Kinds, NEW a \in HandleSet, NEW b \in HandleSet
  PROVE  IsChanged(Changed(f, t, a, b), f, t, a, b)
  <1> DEFINE r == Changed(f, t, a, b)
  <1>1. <<a, b>> \in HandleSet \X HandleSet
    OBVIOUS
  <1>2. r.todo = t /\ r.parts = <<a, b>>
    BY DEF Frames, Changed
  <1>3. r.v = f.v /\ r.key = f.key /\ r.kept = f.kept /\ r.expected = f.expected
    BY DEF Frames, Changed
  <1>4. r \in Frames
    <2> DEFINE P == HandleSet \X HandleSet
    <2>1. <<a, b>> \in P
      BY <1>1
    <2> HIDE DEF P
    <2>2. ASSUME NEW p \in P
          PROVE  [f EXCEPT !.todo = t, !.parts = p]
                   \in [todo : Kinds, v : 0 .. NVars,
                        parts : P, key : {NoKey} \cup (Ids \X Ids),
                        kept : SUBSET HandleSet, expected : Families]
      BY DEF Frames, P
    <2>3. QED
      BY <2>1, <2>2 DEF Frames, P, Changed
  <1>5. r.parts[1] = a /\ r.parts[2] = b
    BY <1>2
  <1> HIDE DEF r
  <1>6. IsChanged(r, f, t, a, b)
    BY <1>2, <1>3, <1>4, <1>5, FrameTyped DEF IsChanged
  <1>7. QED
    BY <1>6 DEF r

\* The frame f that waits, given the answer h.
Resumed(f, h) == Resume(f, h)[1]

LEMMA ResumeIs ==
  ASSUME NEW f \in Frames, f.todo \in Waiting, NEW h \in HandleSet
  PROVE  /\ Resumed(f, h) \in Frames
         /\ Resumed(f, h).v = f.v /\ Resumed(f, h).key = f.key
         /\ Resumed(f, h).kept = f.kept /\ Resumed(f, h).expected = f.expected
         /\ f.todo = "lo" => /\ Resume(f, h) = <<Resumed(f, h)>>
                             /\ Resumed(f, h).todo = "node"
                             /\ Resumed(f, h).parts = <<h, f.parts[2]>>
         /\ f.todo = "hi" => /\ Resume(f, h) = <<Resumed(f, h)>>
                             /\ Resumed(f, h).todo = "node"
                             /\ Resumed(f, h).parts = <<f.parts[1], h>>
         /\ f.todo = "lo_then_hi" =>
              /\ Resume(f, h) = <<Resumed(f, h), Call(f.parts[1], f.parts[2])>>
              /\ Resumed(f, h).todo = "hi"
              /\ Resumed(f, h).parts = <<h, Zero>>
         /\ FrameHandles(Resumed(f, h)) \subseteq FrameHandles(f) \cup {h, Zero}
  <1> DEFINE r == Resumed(f, h)
  <1>1. f.parts[1] \in HandleSet /\ f.parts[2] \in HandleSet /\ Zero \in HandleSet
    BY FrameTyped, HandleTyped
  <1>2. "node" \in Kinds /\ "hi" \in Kinds
    BY DEF Waiting, Kinds
  <1>3. CASE f.todo = "lo"
    <2>1. Resume(f, h) = <<Changed(f, "node", h, f.parts[2])>>
      BY <1>3 DEF Resume, Changed
    <2>2. r = Changed(f, "node", h, f.parts[2])
      BY <2>1 DEF Resumed
    <2>6. IsChanged(r, f, "node", h, f.parts[2])
      BY <1>1, <1>2, <2>2, FrameChanged
    <2> HIDE DEF r
    <2>3. /\ r \in Frames /\ r.v = f.v /\ r.key = f.key /\ r.kept = f.kept
          /\ r.expected = f.expected /\ r.todo = "node" /\ r.parts = <<h, f.parts[2]>>
          /\ FrameHandles(r) = {h, f.parts[2]} \cup f.kept
      BY <2>6 DEF IsChanged
    <2>4. Resume(f, h) = <<r>> /\ FrameHandles(r) \subseteq FrameHandles(f) \cup {h, Zero}
      BY <2>1, <2>2, <2>3, FrameTyped
    <2>5. QED
      BY <1>3, <2>3, <2>4 DEF r
  <1>4. CASE f.todo = "hi"
    <2>1. Resume(f, h) = <<Changed(f, "node", f.parts[1], h)>>
      BY <1>4 DEF Resume, Changed
    <2>2. r = Changed(f, "node", f.parts[1], h)
      BY <2>1 DEF Resumed
    <2>6. IsChanged(r, f, "node", f.parts[1], h)
      BY <1>1, <1>2, <2>2, FrameChanged
    <2> HIDE DEF r
    <2>3. /\ r \in Frames /\ r.v = f.v /\ r.key = f.key /\ r.kept = f.kept
          /\ r.expected = f.expected /\ r.todo = "node" /\ r.parts = <<f.parts[1], h>>
          /\ FrameHandles(r) = {f.parts[1], h} \cup f.kept
      BY <2>6 DEF IsChanged
    <2>4. Resume(f, h) = <<r>> /\ FrameHandles(r) \subseteq FrameHandles(f) \cup {h, Zero}
      BY <2>1, <2>2, <2>3, FrameTyped
    <2>5. QED
      BY <1>4, <2>3, <2>4 DEF r
  <1>5. CASE f.todo = "lo_then_hi"
    <2>1. Resume(f, h) = <<Changed(f, "hi", h, Zero), Call(f.parts[1], f.parts[2])>>
      BY <1>5 DEF Resume, Changed
    <2>2. r = Changed(f, "hi", h, Zero)
      BY <2>1 DEF Resumed
    <2>6. IsChanged(r, f, "hi", h, Zero)
      BY <1>1, <1>2, <2>2, FrameChanged
    <2> HIDE DEF r
    <2>3. /\ r \in Frames /\ r.v = f.v /\ r.key = f.key /\ r.kept = f.kept
          /\ r.expected = f.expected /\ r.todo = "hi" /\ r.parts = <<h, Zero>>
          /\ FrameHandles(r) = {h, Zero} \cup f.kept
      BY <2>6 DEF IsChanged
    <2>4. /\ Resume(f, h) = <<r, Call(f.parts[1], f.parts[2])>>
          /\ FrameHandles(r) \subseteq FrameHandles(f) \cup {h, Zero}
      BY <2>1, <2>2, <2>3, FrameTyped
    <2>5. QED
      BY <1>5, <2>3, <2>4 DEF r
  <1>6. QED
    BY <1>3, <1>4, <1>5 DEF Waiting

LEMMA SeqAppended ==
  ASSUME NEW s \in Seq(Frames), NEW t \in Seq(Frames)
  PROVE  /\ s \o t \in Seq(Frames)
         /\ Len(s \o t) = Len(s) + Len(t) /\ Len(s) \in Nat /\ Len(t) \in Nat
         /\ \A k \in 1 .. Len(s) : (s \o t)[k] = s[k]
         /\ \A k \in 1 .. Len(t) : (s \o t)[Len(s) + k] = t[k]
  <1>1. /\ s \o t \in Seq(Frames) /\ Len(s \o t) = Len(s) + Len(t)
        /\ \A i \in 1 .. Len(s) + Len(t) :
             (s \o t)[i] = IF i <= Len(s) THEN s[i] ELSE t[i - Len(s)]
    BY ConcatProperties
  <1>2. Len(s) \in Nat /\ Len(t) \in Nat
    OBVIOUS
  <1>3. \A k \in 1 .. Len(s) : (s \o t)[k] = s[k]
    BY <1>1, <1>2
  <1>4. ASSUME NEW k \in 1 .. Len(t) PROVE (s \o t)[Len(s) + k] = t[k]
    <2>1. /\ Len(s) + k \in 1 .. Len(s) + Len(t) /\ ~(Len(s) + k <= Len(s))
          /\ Len(s) + k - Len(s) = k
      BY <1>2
    <2>2. QED
      BY <1>1, <2>1
  <1>5. QED
    BY <1>1, <1>2, <1>3, <1>4

\* A call that goes on with another call.
IsRecursed(s, f, g) ==
  /\ s \in Seq(Frames) /\ Len(s) = Len(stack) + 1
  /\ \A k \in 1 .. Len(stack) - 1 : s[k] = stack[k]
  /\ s[Len(stack)] = f /\ s[Len(stack) + 1] = g

LEMMA Recursed ==
  ASSUME Types, stack # <<>>, NEW f \in Frames, NEW g \in Frames
  PROVE  IsRecursed(Below \o <<f, g>>, f, g)
  <1> DEFINE s == Below \o <<f, g>>
  <1>1. <<f, g>> \in Seq(Frames) /\ Len(<<f, g>>) = 2 /\ <<f, g>>[1] = f /\ <<f, g>>[2] = g
    OBVIOUS
  <1> DEFINE t == <<f, g>>
  <1> HIDE DEF t
  <1>2. t \in Seq(Frames) /\ Len(t) = 2 /\ t[1] = f /\ t[2] = g /\ s = Below \o t
    BY <1>1 DEF t
  <1> HIDE DEF s
  <1>3. /\ Below \in Seq(Frames) /\ Len(Below) = Len(stack) - 1 /\ Len(stack) \in Nat
        /\ \A k \in 1 .. Len(stack) - 1 : Below[k] = stack[k]
    BY StackTop
  <1>4. /\ s \in Seq(Frames) /\ Len(s) = Len(Below) + 2
        /\ \A k \in 1 .. Len(Below) : s[k] = Below[k]
        /\ s[Len(Below) + 1] = t[1] /\ s[Len(Below) + 2] = t[2]
    <2>1. Below \in Seq(Frames) /\ t \in Seq(Frames)
      BY <1>2, <1>3
    <2>2. /\ Below \o t \in Seq(Frames)
          /\ Len(Below \o t) = Len(Below) + Len(t)
          /\ \A k \in 1 .. Len(Below) : (Below \o t)[k] = Below[k]
          /\ \A k \in 1 .. Len(t) : (Below \o t)[Len(Below) + k] = t[k]
      BY <2>1, SeqAppended
    <2>3. 1 \in 1 .. Len(t) /\ 2 \in 1 .. Len(t)
      BY <1>2
    <2>4. QED
      BY <1>2, <2>2, <2>3
  <1>5. Len(Below) + 1 = Len(stack) /\ Len(Below) + 2 = Len(stack) + 1
    BY <1>3
  <1>6. IsRecursed(s, f, g)
    BY <1>2, <1>3, <1>4, <1>5 DEF IsRecursed
  <1>7. QED
    BY <1>6 DEF s

\* The frame that waits, when its call answers.
LEMMA Answered ==
  ASSUME Types, StackOrdered(data, stack), stack # <<>>, NEW h \in HandleSet, Answer(h)
  PROVE  LET n == Len(stack) - 1
             f == stack[n]
         IN \/ n = 0 /\ stack' = <<>> /\ result' = h
            \/ /\ n \in Nat \ {0} /\ result' = result /\ result = NoResult
               /\ f \in Frames /\ f.todo \in Waiting
               /\ stack' \in Seq(Frames)
               /\ \A k \in 1 .. n - 1 : stack'[k] = stack[k]
               /\ stack'[n] = Resumed(f, h)
               /\ f.todo \in {"lo", "hi"} => Len(stack') = n
               /\ f.todo = "lo_then_hi" =>
                    Len(stack') = n + 1 /\ stack'[n + 1] = Call(f.parts[1], f.parts[2])
  <1> DEFINE n == Len(stack) - 1
             f == stack[n]
             b == SubSeq(Below, 1, n - 1)
             t == Resume(f, h)
  <1>1. /\ Below \in Seq(Frames) /\ Len(Below) = n /\ n \in Nat
        /\ \A k \in 1 .. n : Below[k] = stack[k]
        /\ Below = <<>> <=> n = 0
    BY StackTop
  <1>2. CASE n = 0
    BY <1>1, <1>2 DEF Answer
  <1>3. CASE n # 0
    <2>1. n \in 1 .. Len(stack) /\ n # Len(stack) /\ Below[Len(Below)] = f
      BY <1>1, <1>3
    <2>2. f \in Frames /\ f.todo \in Waiting
      <3>1. stack \in Seq(Frames)
        BY DEF Types
      <3>2. FrameWaits(data, stack, n)
        BY <2>1 DEF StackOrdered
      <3>3. QED
        BY <2>1, <3>1, <3>2 DEF FrameWaits
    <2>3. stack' = b \o t /\ result' = result
      BY <1>1, <1>3, <2>1 DEF Answer
    <2>4. result = NoResult
      BY DEF Types
    <2>5. b \in Seq(Frames) /\ Len(b) = n - 1 /\ \A k \in 1 .. n - 1 : b[k] = stack[k]
      <3> DEFINE m == n - 1
      <3>1. m \in Nat /\ m \in Int /\ 1 \in Int /\ \A i \in 1 .. m : Below[i] \in Frames
        BY <1>1, <1>3
      <3>2. \A i \in 1 .. m : Below[i] = stack[i]
        BY <1>1
      <3> HIDE DEF m
      <3>3. /\ SubSeq(Below, 1, m) \in Seq(Frames)
            /\ Len(SubSeq(Below, 1, m)) = IF 1 <= m THEN m - 1 + 1 ELSE 0
            /\ \A i \in 1 .. m - 1 + 1 : SubSeq(Below, 1, m)[i] = Below[1 + i - 1]
        BY <3>1, SubSeqProperties
      <3>4. m - 1 + 1 = m /\ \A i \in 1 .. m : 1 + i - 1 = i
        BY <3>1
      <3>5. Len(SubSeq(Below, 1, m)) = m /\ \A i \in 1 .. m : SubSeq(Below, 1, m)[i] = stack[i]
        BY <3>1, <3>2, <3>3, <3>4
      <3>6. QED
        BY <3>3, <3>5 DEF m
    <2> HIDE DEF n, f, b, t
    <2>6. CASE f.todo \in {"lo", "hi"}
      <3>1. t = <<Resumed(f, h)>> /\ Resumed(f, h) \in Frames
        BY <2>2, <2>6, ResumeIs DEF t
      <3>2. t \in Seq(Frames) /\ Len(t) = 1 /\ t[1] = Resumed(f, h)
        BY <3>1
      <3>3. /\ stack' \in Seq(Frames) /\ Len(stack') = n
            /\ \A k \in 1 .. n - 1 : stack'[k] = stack[k]
            /\ stack'[n] = Resumed(f, h)
        <4>1. /\ b \o t \in Seq(Frames) /\ Len(b \o t) = Len(b) + 1
              /\ \A k \in 1 .. Len(b) : (b \o t)[k] = b[k]
              /\ (b \o t)[Len(b) + 1] = t[1]
          <5>1. 1 \in 1 .. Len(t)
            BY <3>2
          <5>2. b \in Seq(Frames) /\ t \in Seq(Frames)
            BY <2>5, <3>2
          <5>3. /\ b \o t \in Seq(Frames)
                /\ Len(b \o t) = Len(b) + Len(t)
                /\ \A k \in 1 .. Len(b) : (b \o t)[k] = b[k]
                /\ \A k \in 1 .. Len(t) : (b \o t)[Len(b) + k] = t[k]
            BY <5>2, SeqAppended
          <5>4. QED
            BY <3>2, <5>1, <5>3
        <4>2. Len(b) + 1 = n
          BY <1>1, <2>5 DEF n
        <4>3. QED
          BY <2>3, <2>5, <3>2, <4>1, <4>2
      <3>4. QED
        BY <1>1, <1>3, <2>2, <2>3, <2>4, <2>6, <3>3 DEF n, f
    <2>7. CASE f.todo = "lo_then_hi"
      <3> DEFINE c == Call(f.parts[1], f.parts[2])
      <3>1. /\ t = <<Resumed(f, h), c>>
            /\ Resumed(f, h) \in Frames /\ c \in Frames
        BY <2>2, <2>7, ResumeIs, FrameTyped, CallTyped DEF t
      <3> HIDE DEF c
      <3>2. t \in Seq(Frames) /\ Len(t) = 2 /\ t[1] = Resumed(f, h) /\ t[2] = c
        BY <3>1
      <3>3. /\ stack' \in Seq(Frames) /\ Len(stack') = n + 1
            /\ \A k \in 1 .. n - 1 : stack'[k] = stack[k]
            /\ stack'[n] = Resumed(f, h) /\ stack'[n + 1] = c
        <4>1. /\ b \o t \in Seq(Frames) /\ Len(b \o t) = Len(b) + 2
              /\ \A k \in 1 .. Len(b) : (b \o t)[k] = b[k]
              /\ (b \o t)[Len(b) + 1] = t[1] /\ (b \o t)[Len(b) + 2] = t[2]
          <5>1. 1 \in 1 .. Len(t) /\ 2 \in 1 .. Len(t)
            BY <3>2
          <5>2. b \in Seq(Frames) /\ t \in Seq(Frames)
            BY <2>5, <3>2
          <5>3. /\ b \o t \in Seq(Frames)
                /\ Len(b \o t) = Len(b) + Len(t)
                /\ \A k \in 1 .. Len(b) : (b \o t)[k] = b[k]
                /\ \A k \in 1 .. Len(t) : (b \o t)[Len(b) + k] = t[k]
            BY <5>2, SeqAppended
          <5>4. QED
            BY <3>2, <5>1, <5>3
        <4>2. Len(b) + 1 = n /\ Len(b) + 2 = n + 1
          BY <1>1, <2>5 DEF n
        <4>3. QED
          BY <2>3, <2>5, <3>2, <4>1, <4>2
      <3>4. QED
        BY <1>1, <1>3, <2>2, <2>3, <2>4, <2>7, <3>3 DEF n, f, c
    <2>8. QED
      BY <2>2, <2>6, <2>7 DEF Waiting
  <1>4. QED
    BY <1>2, <1>3

LEMMA HeldFrames ==
  ASSUME Types
  PROVE  \A k \in 1 .. Len(stack) : \A h \in FrameHandles(stack[k]) :
            h.id \in Indices => h.id \in HeldIds
  <1>1. ASSUME NEW k \in 1 .. Len(stack), NEW h \in FrameHandles(stack[k])
        PROVE  h \in Handles \ {NoResult}
    BY HandlesAre, FrameTyped, HandleTyped
  <1>2. QED
    BY <1>1 DEF HeldIds

\* The answer h keeps the stack in order: it comes after what the frame below
\* asks for, and is not zero where that matters.
LEMMA AnswerOrdered ==
  ASSUME SInv, stack # <<>>, NEW h \in HandleSet, Answer(h), NEW d,
         \A i \in HeldIds : d[i] = data[i],
         \A v \in 0 .. NVars : Over(data, v, Top) => v < ValueOf(d, h.id),
         NonZero(Top) => h.id # 0
  PROVE  /\ stack' \in Seq(Frames) /\ StackOrdered(d, stack')
         /\ result' \in HandleSet \cup {NoResult}
         /\ result' # NoResult => stack' = <<>>
  <1> DEFINE n == Len(stack) - 1
             f == stack[n]
             r == Resumed(f, h)
  <1>1. Types /\ StackOrdered(data, stack)
    BY DEF SInv
  <1>2. CASE n = 0 /\ stack' = <<>> /\ result' = h
    <2>1. stack' \in Seq(Frames) /\ Len(stack') = 0
      BY <1>2
    <2>2. QED
      BY <1>2, <2>1 DEF StackOrdered
  <1>3. CASE ~(n = 0 /\ stack' = <<>> /\ result' = h)
    <2>1. /\ n \in Nat \ {0} /\ result' = result /\ result = NoResult
          /\ f \in Frames /\ f.todo \in Waiting
          /\ stack' \in Seq(Frames)
          /\ \A k \in 1 .. n - 1 : stack'[k] = stack[k]
          /\ stack'[n] = r
          /\ f.todo \in {"lo", "hi"} => Len(stack') = n
          /\ f.todo = "lo_then_hi" =>
               Len(stack') = n + 1 /\ stack'[n + 1] = Call(f.parts[1], f.parts[2])
      BY <1>1, <1>3, Answered
    <2>14. n \in Nat /\ n >= 1
      <3>1. n \in Nat \ {0}
        BY <2>1
      <3> HIDE DEF n
      <3>2. QED
        BY <3>1
    <2>2. /\ Len(stack) \in Nat /\ n \in 1 .. Len(stack) /\ Top = stack[n + 1]
          /\ \A k \in 1 .. n : k \in 1 .. Len(stack) /\ stack[k] \in Frames
      <3>1. Len(stack) \in Nat /\ Top = stack[Len(stack)]
        BY <1>1, StackTop
      <3>2. n + 1 = Len(stack)
        BY <3>1
      <3>3. n \in Nat /\ n >= 1
        BY <2>14
      <3>4. \A k \in 1 .. Len(stack) : stack[k] \in Frames
        BY <1>1, HandlesAre
      <3> HIDE DEF n
      <3>5. n \in 1 .. Len(stack) /\ \A k \in 1 .. n : k \in 1 .. Len(stack)
        BY <3>1, <3>2, <3>3
      <3>6. QED
        BY <3>1, <3>2, <3>4, <3>5
    <2>3. ASSUME NEW k \in 1 .. n
          PROVE  /\ FrameOrdered(d, stack[k], k) /\ stack[k].todo \in Waiting
                 /\ \A v : Over(data, v, stack[k]) => Over(d, v, stack[k])
                 /\ \A p \in {1, 2} : ValueOf(d, stack[k].parts[p].id)
                                        = ValueOf(data, stack[k].parts[p].id)
                 /\ Over(data, stack[k].v, stack[k + 1])
                 /\ stack[k].todo = "hi" => NonZero(stack[k + 1])
      <3>1. \A g \in FrameHandles(stack[k]) : g.id \in Indices => d[g.id] = data[g.id]
        BY <1>1, <2>2, HeldFrames
      <3>2. FrameOrdered(data, stack[k], k) /\ FrameWaits(data, stack, k)
        BY <1>1, <2>2 DEF StackOrdered
      <3>3. k # Len(stack)
        BY <2>1, <2>2
      <3>4. QED
        BY <2>2, <3>1, <3>2, <3>3, FrameStays DEF FrameWaits
    <2>4. /\ r \in Frames /\ r.v = f.v /\ r.key = f.key /\ r.kept = f.kept
          /\ f.todo = "lo" => r.todo = "node" /\ r.parts = <<h, f.parts[2]>>
          /\ f.todo = "hi" => r.todo = "node" /\ r.parts = <<f.parts[1], h>>
          /\ f.todo = "lo_then_hi" => r.todo = "hi" /\ r.parts = <<h, Zero>>
      BY <2>1, ResumeIs
    <2> HIDE DEF r
    <2>5. /\ FrameOrdered(d, f, n)
          /\ Over(data, f.v, Top) /\ f.v \in 0 .. NVars
          /\ f.todo = "hi" => NonZero(Top)
      <3>1. n \in 1 .. n
        <4>1. n \in Nat /\ n >= 1
          BY <2>14
        <4> HIDE DEF n
        <4>2. QED
          BY <4>1
      <3>2. f.v \in 0 .. NVars
        BY <2>1 DEF Frames
      <3>3. QED
        BY <2>2, <2>3, <3>1, <3>2
    <2> HIDE DEF n, f
    <2>6. /\ f.v < ValueOf(d, h.id)
          /\ f.todo = "hi" => h.id # 0
          /\ f.v < ValueOf(d, Zero.id)
      BY <2>5, HandleTyped, Numbers DEF ValueOf, IsTerminal
    <2>7. f.todo # "call"
      BY <2>1 DEF Waiting
    <2>8. FrameOrdered(d, r, n)
      <3>1. /\ n <= f.v
            /\ \A p \in {1, 2} : f.v < ValueOf(d, f.parts[p].id)
            /\ f.todo = "lo" => f.parts[2].id # 0
            /\ f.key # NoKey =>
                 \E g \in f.kept : /\ g.id \in {f.key[1], f.key[2]} \cap Indices
                                   /\ d[g.id].v = f.v
        BY <2>5, <2>7 DEF FrameOrdered
      <3>2. /\ \A p \in {1, 2} : f.v < ValueOf(d, r.parts[p].id)
            /\ r.todo # "hi" => r.parts[2].id # 0
            /\ r.todo # "call" /\ r.todo # "lo_then_hi"
        <4>1. CASE f.todo = "lo"
          BY <2>4, <2>6, <3>1, <4>1
        <4>2. CASE f.todo = "hi"
          BY <2>4, <2>6, <3>1, <4>2
        <4>3. CASE f.todo = "lo_then_hi"
          BY <2>4, <2>6, <3>1, <4>3
        <4>4. QED
          BY <2>1, <4>1, <4>2, <4>3 DEF Waiting
      <3>3. QED
        BY <2>4, <3>1, <3>2 DEF FrameOrdered
    <2>9. FrameWaits(d, stack', n)
      <3>1. CASE f.todo \in {"lo", "hi"}
        BY <2>1, <2>4, <3>1 DEF FrameWaits
      <3>2. CASE f.todo = "lo_then_hi"
        <4>1. f.parts[1] \in HandleSet /\ f.parts[2] \in HandleSet
          BY <2>1, FrameTyped
        <4> DEFINE c == Call(f.parts[1], f.parts[2])
        <4>2. c.todo = "call" /\ c.parts[1] = f.parts[1] /\ c.parts[2] = f.parts[2]
          BY <4>1, CallTyped
        <4>3. \A p \in {1, 2} : c.parts[p] = f.parts[p]
          BY <4>2
        <4>6. /\ \A p \in {1, 2} : f.v < ValueOf(d, f.parts[p].id)
              /\ f.parts[1].id # 0
          BY <2>5, <3>2 DEF FrameOrdered
        <4>4. Over(d, f.v, c) /\ NonZero(c)
          BY <4>2, <4>3, <4>6 DEF Over, NonZero
        <4> HIDE DEF c
        <4>5. Len(stack') = n + 1 /\ stack'[n + 1] = c /\ n # n + 1
          BY <2>1, <3>2 DEF c
        <4>7. r.todo = "hi" /\ r.v = f.v /\ stack'[n] = r
          BY <2>1, <2>4, <3>2
        <4>8. QED
          BY <4>4, <4>5, <4>7 DEF FrameWaits, Waiting
      <3>3. QED
        BY <2>1, <3>1, <3>2 DEF Waiting
    <2>10. ASSUME NEW k \in 1 .. n - 1
           PROVE  FrameOrdered(d, stack'[k], k) /\ FrameWaits(d, stack', k)
      <3>1. /\ stack'[k] = stack[k] /\ k \in 1 .. n /\ k + 1 \in 1 .. n
            /\ k # Len(stack') /\ k # n
        BY <2>1 DEF Waiting
      <3>2. /\ FrameOrdered(d, stack[k], k) /\ stack[k].todo \in Waiting
            /\ Over(data, stack[k].v, stack[k + 1])
            /\ stack[k].todo = "hi" => NonZero(stack[k + 1])
        BY <2>3, <3>1
      <3>3. Over(d, stack[k].v, stack'[k + 1]) /\ (stack[k].todo = "hi" => NonZero(stack'[k + 1]))
        <4>1. CASE k + 1 = n
          <5>1. stack'[k + 1] = r /\ stack[k + 1] = f
            BY <2>1, <4>1 DEF f
          <5>2. r.todo # "call"
            BY <2>1, <2>4 DEF Waiting
          <5>3. stack[k].v < f.v
            BY <2>7, <3>2, <5>1 DEF Over
          <5>4. QED
            BY <2>4, <5>1, <5>2, <5>3 DEF Over, NonZero
        <4>2. CASE k + 1 # n
          <5>1. k + 1 \in 1 .. n - 1
            BY <2>1, <3>1, <4>2
          <5>2. stack'[k + 1] = stack[k + 1]
            BY <2>1, <5>1
          <5>3. QED
            BY <2>3, <3>1, <3>2, <5>2
        <4>3. QED
          BY <4>1, <4>2
      <3>4. QED
        BY <3>1, <3>2, <3>3 DEF FrameWaits
    <2>11. ASSUME f.todo = "lo_then_hi"
           PROVE  FrameOrdered(d, stack'[n + 1], n + 1) /\ FrameWaits(d, stack', n + 1)
      <3>1. f.parts[1] \in HandleSet /\ f.parts[2] \in HandleSet
        BY <2>1, FrameTyped
      <3>2. stack'[n + 1].todo = "call" /\ stack'[n + 1].key = NoKey /\ Len(stack') = n + 1
        BY <2>1, <2>11, <3>1, CallTyped
      <3>3. QED
        BY <3>2 DEF FrameOrdered, FrameWaits
    <2>12. StackOrdered(d, stack')
      <3>1. ASSUME NEW k \in 1 .. Len(stack')
            PROVE  FrameOrdered(d, stack'[k], k) /\ FrameWaits(d, stack', k)
        <4>1. CASE k \in 1 .. n - 1
          BY <2>10, <4>1
        <4>2. CASE k = n
          BY <2>1, <2>8, <2>9, <4>2
        <4>3. CASE k \notin 1 .. n - 1 /\ k # n
          <5>1. f.todo = "lo_then_hi" /\ k = n + 1
            BY <2>1, <4>3 DEF Waiting
          <5>2. QED
            BY <2>11, <5>1
        <4>4. QED
          BY <4>1, <4>2, <4>3
      <3>2. QED
        BY <3>1 DEF StackOrdered
    <2>13. QED
      BY <2>1, <2>12
  <1>4. QED
    BY <1>2, <1>3

\* Where the handles of the next state come from.
LEMMA NextHandles ==
  ASSUME stack' \in Seq(Frames), NEW S,
         \A r \in Regs : regs'[r] \in S, result' \in S,
         \A k \in 1 .. Len(stack') : FrameHandles(stack'[k]) \subseteq S
  PROVE  Handles' \subseteq S
  <1> DEFINE A == {regs'[r] : r \in Regs}
             B == UNION {FrameHandles(stack'[k]) : k \in DOMAIN stack'}
  <1>1. DOMAIN stack' = 1 .. Len(stack')
    OBVIOUS
  <1>2. A \subseteq S
    OBVIOUS
  <1>3. B \subseteq S
    BY <1>1
  <1>4. Handles' = A \cup {result'} \cup B
    BY DEF Handles
  <1> HIDE DEF A, B
  <1>5. QED
    BY <1>2, <1>3, <1>4

LEMMA AnswerHandles ==
  ASSUME SInv, stack # <<>>, NEW h \in HandleSet, Answer(h), regs' = regs
  PROVE  Handles' \subseteq Handles \cup {h, Zero}
  <1> DEFINE S == Handles \cup {h, Zero}
             n == Len(stack) - 1
             f == stack[n]
             r == Resumed(f, h)
  <1>1. Types /\ StackOrdered(data, stack)
    BY DEF SInv
  <1>2. /\ \A q \in Regs : regs'[q] \in S
        /\ result \in S
        /\ \A k \in 1 .. Len(stack) : FrameHandles(stack[k]) \subseteq S
    BY <1>1, HandlesAre
  <1>3. CASE n = 0 /\ stack' = <<>> /\ result' = h
    <2>1. stack' \in Seq(Frames) /\ Len(stack') = 0
      BY <1>3
    <2> HIDE DEF n, f, r
    <2>2. result' \in S /\ \A k \in 1 .. Len(stack') : FrameHandles(stack'[k]) \subseteq S
      BY <1>3, <2>1
    <2> HIDE DEF S
    <2>3. Handles' \subseteq S
      BY <1>2, <2>1, <2>2, NextHandles
    <2>4. QED
      BY <2>3 DEF S
  <1>4. CASE ~(n = 0 /\ stack' = <<>> /\ result' = h)
    <2>1. /\ n \in Nat \ {0} /\ result' = result /\ result = NoResult
          /\ f \in Frames /\ f.todo \in Waiting
          /\ stack' \in Seq(Frames)
          /\ \A k \in 1 .. n - 1 : stack'[k] = stack[k]
          /\ stack'[n] = r
          /\ f.todo \in {"lo", "hi"} => Len(stack') = n
          /\ f.todo = "lo_then_hi" =>
               Len(stack') = n + 1 /\ stack'[n + 1] = Call(f.parts[1], f.parts[2])
      BY <1>1, <1>4, Answered
    <2>2. n \in Nat /\ n >= 1 /\ n \in 1 .. Len(stack)
          /\ \A k \in 1 .. n - 1 : k \in 1 .. Len(stack)
      <3>1. Len(stack) \in Nat /\ n \in Nat \ {0} /\ n + 1 = Len(stack)
        BY <1>1, <2>1, StackTop
      <3> HIDE DEF n
      <3>2. QED
        BY <3>1
    <2>3. FrameHandles(f) \subseteq S
      BY <1>2, <2>2
    <2>4. FrameHandles(r) \subseteq S
      BY <2>1, <2>3, ResumeIs
    <2>5. f.todo = "lo_then_hi" => FrameHandles(Call(f.parts[1], f.parts[2])) \subseteq S
      BY <2>1, <2>3, FrameTyped, CallTyped
    <2> HIDE DEF n, f, r, S
    <2>6. ASSUME NEW k \in 1 .. Len(stack') PROVE FrameHandles(stack'[k]) \subseteq S
      <3>1. CASE k \in 1 .. n - 1
        BY <1>2, <2>1, <2>2, <3>1
      <3>2. CASE k = n
        BY <2>1, <2>4, <3>2
      <3>3. CASE k \notin 1 .. n - 1 /\ k # n
        <4>1. f.todo = "lo_then_hi" /\ k = n + 1
          BY <2>1, <2>2, <3>3 DEF Waiting
        <4>2. QED
          BY <2>1, <2>5, <4>1
      <3>4. QED
        BY <3>1, <3>2, <3>3
    <2>7. Handles' \subseteq S
      BY <1>2, <2>1, <2>6, NextHandles
    <2>8. QED
      BY <2>7 DEF S
  <1>5. QED
    BY <1>3, <1>4

\* An answer that is the family its call owes leaves frames that make theirs.
LEMMA AnswerMeans ==
  ASSUME SInv, stack # <<>>, NEW h \in HandleSet, Answer(h),
         StackMeans(stack), h.fam = Top.expected
  PROVE  StackMeans(stack')
  <1> DEFINE n == Len(stack) - 1
             f == stack[n]
             r == Resumed(f, h)
             Ans(s, k) == IF k < Len(s) THEN s[k + 1].expected ELSE {}
  <1>1. Types /\ StackOrdered(data, stack)
    BY DEF SInv
  <1>2. CASE n = 0 /\ stack' = <<>> /\ result' = h
    BY <1>2 DEF StackMeans
  <1>3. CASE ~(n = 0 /\ stack' = <<>> /\ result' = h)
    <2>1. /\ n \in Nat \ {0}
          /\ f \in Frames /\ f.todo \in Waiting
          /\ stack' \in Seq(Frames)
          /\ \A k \in 1 .. n - 1 : stack'[k] = stack[k]
          /\ stack'[n] = r
          /\ f.todo \in {"lo", "hi"} => Len(stack') = n
          /\ f.todo = "lo_then_hi" =>
               Len(stack') = n + 1 /\ stack'[n + 1] = Call(f.parts[1], f.parts[2])
      BY <1>1, <1>3, Answered
    <2>2. n \in Nat /\ n >= 1 /\ Len(stack) \in Nat /\ n + 1 = Len(stack) /\ Top = stack[n + 1]
      <3>1. Len(stack) \in Nat /\ n \in Nat \ {0} /\ n + 1 = Len(stack) /\ Top = stack[Len(stack)]
        BY <1>1, <2>1, StackTop
      <3> HIDE DEF n
      <3>2. QED
        BY <3>1
    <2>3. /\ r.v = f.v /\ r.expected = f.expected
          /\ f.todo = "lo" => r.todo = "node" /\ r.parts = <<h, f.parts[2]>>
          /\ f.todo = "hi" => r.todo = "node" /\ r.parts = <<f.parts[1], h>>
          /\ f.todo = "lo_then_hi" => r.todo = "hi" /\ r.parts = <<h, Zero>>
      BY <2>1, ResumeIs
    <2> HIDE DEF n, f, r
    <2>4. Means(f, h.fam)
      <3>1. n \in 1 .. Len(stack) /\ n < Len(stack) /\ Ans(stack, n) = h.fam
        BY <2>2
      <3>2. Means(stack[n], Ans(stack, n))
        BY <3>1 DEF StackMeans
      <3>3. QED
        BY <3>1, <3>2 DEF f
    <2>5. f.todo \in {"lo", "hi"} => \A a : Means(r, a)
      <3>1. CASE f.todo = "lo"
        BY <2>3, <2>4, <3>1 DEF Means
      <3>2. CASE f.todo = "hi"
        BY <2>3, <2>4, <3>2 DEF Means
      <3>3. QED
        BY <3>1, <3>2
    <2>6. f.todo = "lo_then_hi" =>
            /\ Means(r, f.parts[1].fam \cup f.parts[2].fam)
            /\ \A a : Means(Call(f.parts[1], f.parts[2]), a)
            /\ Call(f.parts[1], f.parts[2]).expected = f.parts[1].fam \cup f.parts[2].fam
      <3> SUFFICES ASSUME f.todo = "lo_then_hi"
                   PROVE  /\ Means(r, f.parts[1].fam \cup f.parts[2].fam)
                          /\ \A a : Means(Call(f.parts[1], f.parts[2]), a)
                          /\ Call(f.parts[1], f.parts[2]).expected
                               = f.parts[1].fam \cup f.parts[2].fam
        OBVIOUS
      <3>1. Means(r, f.parts[1].fam \cup f.parts[2].fam)
        <4>1. f.expected = h.fam \cup Above(f.v, f.parts[1].fam \cup f.parts[2].fam)
          BY <2>4 DEF Means
        <4>2. r.todo = "hi" /\ r.parts[1] = h /\ r.v = f.v /\ r.expected = f.expected
          BY <2>3
        <4>3. QED
          BY <4>1, <4>2 DEF Means
      <3>2. f.parts[1] \in HandleSet /\ f.parts[2] \in HandleSet
        BY <2>1, FrameTyped
      <3> DEFINE c == Call(f.parts[1], f.parts[2])
      <3>3. /\ c.todo = "call" /\ c.parts[1] = f.parts[1] /\ c.parts[2] = f.parts[2]
            /\ c.expected = f.parts[1].fam \cup f.parts[2].fam
        BY <3>2, CallTyped
      <3> HIDE DEF c
      <3>4. \A a : Means(c, a)
        BY <3>3 DEF Means
      <3>5. QED
        BY <3>1, <3>3, <3>4 DEF c
    <2>7. ASSUME NEW k \in 1 .. Len(stack') PROVE Means(stack'[k], Ans(stack', k))
      <3>1. CASE k \in 1 .. n - 1
        <4>1. stack'[k] = stack[k] /\ k \in 1 .. Len(stack) /\ k < Len(stack) /\ k < Len(stack')
          BY <2>1, <2>2, <3>1 DEF Waiting
        <4>2. stack'[k + 1].expected = stack[k + 1].expected
          <5>1. CASE k + 1 = n
            BY <2>1, <2>3, <5>1 DEF f
          <5>2. CASE k + 1 # n
            <6>1. k + 1 \in 1 .. n - 1
              BY <2>2, <3>1, <5>2
            <6>2. QED
              BY <2>1, <6>1
          <5>3. QED
            BY <5>1, <5>2
        <4>3. Means(stack[k], Ans(stack, k))
          BY <4>1 DEF StackMeans
        <4>4. QED
          BY <4>1, <4>2, <4>3
      <3>2. CASE k = n /\ f.todo \in {"lo", "hi"}
        BY <2>1, <2>5, <3>2
      <3>3. CASE k = n /\ f.todo = "lo_then_hi"
        <4>1. Ans(stack', k) = f.parts[1].fam \cup f.parts[2].fam
          BY <2>1, <2>2, <2>6, <3>3
        <4>2. QED
          BY <2>1, <2>6, <3>3, <4>1
      <3>4. CASE k \notin 1 .. n - 1 /\ k # n
        <4>1. f.todo = "lo_then_hi" /\ k = n + 1
          BY <2>1, <2>2, <3>4 DEF Waiting
        <4>2. QED
          BY <2>1, <2>6, <4>1
      <3>5. QED
        BY <2>1, <3>1, <3>2, <3>3, <3>4 DEF Waiting
    <2>8. QED
      BY <2>7 DEF StackMeans
  <1>4. QED
    BY <1>2, <1>3

LEMMA AnswerKeys ==
  ASSUME SInv, stack # <<>>, NEW h \in HandleSet, Answer(h), NEW d, NEW P, NEW old,
         \A k \in 1 .. Len(stack) - 1 :
            stack[k].key # NoKey /\ (old < k \/ KeyHeld(stack[k])) => KeyTrue(d, P, stack[k])
  PROVE  KeysTrue(d, P, stack', old)
  <1> DEFINE n == Len(stack) - 1
             f == stack[n]
             r == Resumed(f, h)
  <1>1. Types /\ StackOrdered(data, stack)
    BY DEF SInv
  <1>2. CASE n = 0 /\ stack' = <<>> /\ result' = h
    BY <1>2 DEF KeysTrue
  <1>3. CASE ~(n = 0 /\ stack' = <<>> /\ result' = h)
    <2>1. /\ n \in Nat \ {0}
          /\ f \in Frames /\ f.todo \in Waiting
          /\ \A k \in 1 .. n - 1 : stack'[k] = stack[k]
          /\ stack'[n] = r
          /\ f.todo \in {"lo", "hi"} => Len(stack') = n
          /\ f.todo = "lo_then_hi" =>
               Len(stack') = n + 1 /\ stack'[n + 1] = Call(f.parts[1], f.parts[2])
      BY <1>1, <1>3, Answered
    <2>2. n \in Nat /\ n >= 1
      <3>1. n \in Nat \ {0}
        BY <2>1
      <3> HIDE DEF n
      <3>2. QED
        BY <3>1
    <2>3. r.key = f.key /\ r.kept = f.kept /\ r.expected = f.expected
      BY <2>1, ResumeIs
    <2>4. \A k \in 1 .. n :
            stack[k].key # NoKey /\ (old < k \/ KeyHeld(stack[k])) => KeyTrue(d, P, stack[k])
      OBVIOUS
    <2>5. f.todo = "lo_then_hi" => Call(f.parts[1], f.parts[2]).key = NoKey
      BY <2>1, FrameTyped, CallTyped
    <2>6. f = stack[n]
      OBVIOUS
    <2> HIDE DEF n, f, r
    <2>7. ASSUME NEW k \in 1 .. Len(stack'),
                 stack'[k].key # NoKey, old < k \/ KeyHeld(stack'[k])
          PROVE  KeyTrue(d, P, stack'[k])
      <3>1. CASE k \in 1 .. n - 1
        <4>1. stack'[k] = stack[k] /\ k \in 1 .. n
          BY <2>1, <2>2, <3>1
        <4>2. QED
          BY <2>4, <2>7, <4>1
      <3>2. CASE k = n
        <4>1. stack'[k] = r /\ k \in 1 .. n
          BY <2>1, <2>2, <3>2
        <4>2. KeyHeld(r) <=> KeyHeld(f)
          BY <2>3 DEF KeyHeld
        <4>3. KeyTrue(d, P, f)
          BY <2>3, <2>4, <2>6, <2>7, <3>2, <4>1, <4>2
        <4>4. QED
          BY <2>3, <4>1, <4>3 DEF KeyTrue
      <3>3. CASE k \notin 1 .. n - 1 /\ k # n
        <4>1. f.todo = "lo_then_hi" /\ k = n + 1
          BY <2>1, <2>2, <3>3 DEF Waiting
        <4>2. QED
          BY <2>1, <2>5, <2>7, <4>1
      <3>4. QED
        BY <3>1, <3>2, <3>3
    <2>8. QED
      BY <2>7 DEF KeysTrue
  <1>4. QED
    BY <1>2, <1>3

\* What has to hold of a step that answers with h.
LEMMA AnswerInv ==
  ASSUME UInv, stack # <<>>, NEW h \in HandleSet, Answer(h), regs' = regs,
         data' \in Nodes, published' \subseteq Indices, Ordered(data', published'),
         \A i \in HeldIds : /\ i \in published' /\ data'[i] = data[i]
                            /\ FamilyIn(data', i) = FamilyIn(data, i),
         IsTerminal(h.id) \/ h.id \in published',
         \A v \in 0 .. NVars : Over(data, v, Top) => v < ValueOf(data', h.id),
         NonZero(Top) => h.id # 0,
         DOMAIN cache' \subseteq Ids \X Ids, \A k \in DOMAIN cache' : cache'[k] \in Ids,
         CacheOrdered', older' \in Nat, trusted' \in BOOLEAN,
         trusted' => /\ trusted
                     /\ h.fam = Top.expected /\ FamilyIn(data', h.id) = h.fam
                     /\ CacheTrue'
                     /\ \A k \in 1 .. Len(stack) - 1 :
                          stack[k].key # NoKey /\ (older' < k \/ KeyHeld(stack[k]))
                            => KeyTrue(data', published', stack[k])
  PROVE  UInv'
  <1>1. SInv
    BY DEF UInv
  <1>2. /\ stack' \in Seq(Frames) /\ StackOrdered(data', stack')
        /\ result' \in HandleSet \cup {NoResult}
        /\ result' # NoResult => stack' = <<>>
    BY <1>1, AnswerOrdered
  <1>3. Handles' \subseteq Handles \cup {h, Zero}
    BY <1>1, AnswerHandles
  <1>4. regs' \in [Regs -> HandleSet]
    BY <1>1 DEF SInv, Types
  <1>5. Types'
    BY <1>2, <1>4 DEF Types
  <1>6. ASSUME NEW g \in Handles', g # NoResult
        PROVE  /\ IsTerminal(g.id) \/ g.id \in published'
               /\ trusted' => FamilyIn(data', g.id) = g.fam
    <2>1. CASE g \in Handles
      <3>1. g.id \in HeldIds \/ IsTerminal(g.id)
        BY <1>1, <1>6, <2>1, HeldAre
      <3>2. trusted' => FamilyIn(data, g.id) = g.fam
        BY <1>6, <2>1 DEF UInv, MInv, HandlesSpell
      <3>3. IsTerminal(g.id) => FamilyIn(data', g.id) = FamilyIn(data, g.id)
        BY FamilyTerminals DEF IsTerminal
      <3>4. QED
        BY <3>1, <3>2, <3>3
    <2>2. CASE g = h
      BY <2>2
    <2>3. CASE g = Zero
      BY <2>3, HandleTyped, FamilyTerminals DEF IsTerminal
    <2>4. QED
      BY <1>3, <1>6, <2>1, <2>2, <2>3
  <1>7. HeldLive'
    BY <1>6 DEF HeldLive, Live, IsTerminal, NoResult
  <1>8. SInv'
    BY <1>2, <1>5, <1>7 DEF SInv
  <1>9. ASSUME trusted' PROVE MInv'
    <2>1. MInv
      BY <1>9 DEF UInv
    <2>2. StackMeans(stack')
      BY <1>1, <1>9, <2>1, AnswerMeans DEF MInv
    <2>3. KeysTrue(data', published', stack', older')
      BY <1>1, <1>9, AnswerKeys
    <2>4. HandlesSpell(Handles', data')
      BY <1>6, <1>9 DEF HandlesSpell
    <2>5. QED
      BY <1>9, <2>2, <2>3, <2>4 DEF MInv
  <1>10. QED
    BY <1>8, <1>9 DEF UInv

\* What has to hold of the frame f of a call that goes on with a call on a
\* and b.
LEMMA RecurseInv ==
  ASSUME UInv, Calling, NEW f \in Frames, NEW a \in HandleSet, NEW b \in HandleSet,
         Recurse(f, a, b), f.todo \in {"lo", "lo_then_hi"}, f.v \in Vals,
         \A v \in 0 .. NVars : Over(data, v, Top) => v < f.v,
         f.v < ValueOf(data, a.id), f.v < ValueOf(data, b.id),
         \A p \in {1, 2} : f.v < ValueOf(data, f.parts[p].id),
         f.parts[2].id # 0, f.todo = "lo_then_hi" => f.parts[1].id # 0,
         f.key # NoKey =>
           \E h \in f.kept : /\ h.id \in {f.key[1], f.key[2]} \cap Indices
                             /\ data[h.id].v = f.v,
         \A h \in FrameHandles(f) \cup {a, b} :
           Live(h.id) /\ (trusted => FamilyIn(data, h.id) = h.fam),
         trusted => /\ Means(f, a.fam \cup b.fam)
                    /\ f.expected = Top.expected
                    /\ f.key # NoKey => KeyTrue(data, published, f)
  PROVE  UInv'
  <1> DEFINE n == Len(stack)
             c == Call(a, b)
  <1>1. SInv /\ Types /\ StackOrdered(data, stack) /\ stack # <<>>
    BY DEF UInv, SInv, Calling
  <1>2. /\ data' = data /\ published' = published /\ cache' = cache /\ regs' = regs
        /\ result' = result /\ older' = older /\ suspect' = suspect /\ trusted' = trusted
        /\ stack' = Below \o <<f, c>>
    BY DEF Recurse, doubts
  <1>3. /\ c \in Frames /\ c.todo = "call" /\ c.parts[1] = a /\ c.parts[2] = b
        /\ c.key = NoKey /\ c.expected = a.fam \cup b.fam /\ FrameHandles(c) = {a, b}
    BY CallTyped
  <1>4. n \in Nat /\ n >= 1 /\ Top = stack[n] /\ Top.todo = "call" /\ result = NoResult
    BY <1>1, StackTop DEF Calling, Types
  <1> HIDE DEF c
  <1>5. /\ stack' \in Seq(Frames) /\ Len(stack') = n + 1
        /\ \A k \in 1 .. n - 1 : stack'[k] = stack[k]
        /\ stack'[n] = f /\ stack'[n + 1] = c
    <2>1. Types /\ stack # <<>> /\ c \in Frames /\ stack' = Below \o <<f, c>>
      BY <1>1, <1>2, <1>3
    <2>2. IsRecursed(stack', f, c)
      BY <2>1, Recursed
    <2>3. QED
      BY <2>2 DEF IsRecursed
  <1> HIDE DEF n
  <1>6. \A k \in 1 .. n : k \in 1 .. Len(stack) /\ n = Len(stack)
    BY DEF n
  <1>7. f.todo # "call" /\ f.todo \in Waiting /\ f.todo # "hi"
    BY DEF Waiting
  <1>8. n <= f.v
    <2>1. CASE n = 1
      BY <2>1 DEF Vals
    <2>2. CASE n # 1
      <3>1. n - 1 \in 1 .. Len(stack) /\ n - 1 # Len(stack) /\ (n - 1) + 1 = n
        BY <1>4, <1>6, <2>2
      <3> DEFINE g == stack[n - 1]
      <3>2. FrameOrdered(data, g, n - 1) /\ FrameWaits(data, stack, n - 1)
        BY <1>1, <3>1 DEF StackOrdered
      <3>3. Over(data, g.v, Top) /\ g.todo \in Waiting
        BY <1>4, <3>1, <3>2 DEF FrameWaits
      <3>4. n - 1 <= g.v
        BY <3>2, <3>3 DEF FrameOrdered, Waiting
      <3>5. g.v \in 0 .. NVars
        <4>1. g \in Frames
          BY <1>1, <3>1 DEF Types
        <4>2. QED
          BY <4>1 DEF Frames
      <3>6. g.v < f.v
        BY <3>3, <3>5
      <3> HIDE DEF g
      <3>7. QED
        BY <1>4, <3>4, <3>5, <3>6 DEF Vals
    <2>3. QED
      BY <2>1, <2>2
  <1>9. StackOrdered(data, stack')
    <2>1. ASSUME NEW k \in 1 .. n + 1
          PROVE  FrameOrdered(data, stack'[k], k) /\ FrameWaits(data, stack', k)
      <3>1. CASE k \in 1 .. n - 1
        <4>1. /\ stack'[k] = stack[k] /\ k \in 1 .. Len(stack) /\ k # Len(stack)
              /\ k # Len(stack')
          BY <1>4, <1>5, <1>6, <3>1
        <4>2. /\ FrameOrdered(data, stack[k], k) /\ stack[k].todo \in Waiting
              /\ Over(data, stack[k].v, stack[k + 1])
              /\ stack[k].todo = "hi" => NonZero(stack[k + 1])
          BY <1>1, <4>1 DEF StackOrdered, FrameWaits
        <4>3. Over(data, stack[k].v, stack'[k + 1]) /\ (stack[k].todo = "hi" => NonZero(stack'[k + 1]))
          <5>1. CASE k + 1 = n
            <6>1. stack[k].v \in 0 .. NVars
              <7>1. stack[k] \in Frames
                BY <1>1, <4>1 DEF Types
              <7>2. QED
                BY <7>1 DEF Frames
            <6>2. stack[k].v < f.v
              BY <1>4, <4>2, <5>1, <6>1
            <6>3. QED
              BY <1>5, <1>7, <5>1, <6>2 DEF Over, NonZero
          <5>2. CASE k + 1 # n
            <6>1. k + 1 \in 1 .. n - 1
              BY <1>4, <3>1, <5>2
            <6>2. QED
              BY <1>5, <4>2, <6>1
          <5>3. QED
            BY <5>1, <5>2
        <4>4. QED
          BY <4>1, <4>2, <4>3 DEF FrameWaits
      <3>2. CASE k = n
        <4>1. FrameOrdered(data, f, n)
          BY <1>7, <1>8 DEF FrameOrdered
        <4>2. \A p \in {1, 2} : f.v < ValueOf(data, c.parts[p].id)
          BY <1>3
        <4>3. Over(data, f.v, c)
          BY <1>3, <4>2 DEF Over
        <4>4. n # Len(stack')
          BY <1>4, <1>5
        <4>5. FrameWaits(data, stack', n)
          BY <1>5, <1>7, <4>3, <4>4 DEF FrameWaits
        <4>6. QED
          BY <1>5, <3>2, <4>1, <4>5
      <3>3. CASE k = n + 1
        BY <1>3, <1>5, <3>3 DEF FrameOrdered, FrameWaits
      <3>4. QED
        BY <1>4, <3>1, <3>2, <3>3
    <2>2. QED
      BY <1>5, <2>1 DEF StackOrdered
  <1>10. Handles' \subseteq Handles \cup FrameHandles(f) \cup {a, b}
    <2> DEFINE S == Handles \cup FrameHandles(f) \cup {a, b}
    <2>1. /\ \A r \in Regs : regs'[r] \in S
          /\ result' \in S
      BY <1>1, <1>2, HandlesAre
    <2>2. \A k \in 1 .. n - 1 : FrameHandles(stack[k]) \subseteq S
      BY <1>1, <1>4, <1>6, HandlesAre
    <2>3. \A k \in 1 .. Len(stack') : FrameHandles(stack'[k]) \subseteq S
      <3>1. ASSUME NEW k \in 1 .. Len(stack') PROVE FrameHandles(stack'[k]) \subseteq S
        <4>1. k \in 1 .. n - 1 \/ k = n \/ k = n + 1
          BY <1>4, <1>5
        <4>2. CASE k \in 1 .. n - 1
          BY <1>5, <2>2, <4>2
        <4>3. CASE k = n
          BY <1>5, <4>3
        <4>4. CASE k = n + 1
          BY <1>3, <1>5, <4>4
        <4>5. QED
          BY <4>1, <4>2, <4>3, <4>4
      <3>2. QED
        BY <3>1
    <2> HIDE DEF S
    <2>4. Handles' \subseteq S
      BY <1>5, <2>1, <2>3, NextHandles
    <2>5. QED
      BY <2>4 DEF S
  <1>11. Types'
    BY <1>1, <1>2, <1>4, <1>5 DEF Types
  <1>12. HeldLive'
    <2>1. \A h \in Handles \ {NoResult} : Live(h.id)
      BY <1>1 DEF SInv, HeldLive
    <2>2. \A i : Live(i)' <=> Live(i)
      BY <1>2 DEF Live
    <2>3. QED
      BY <1>10, <2>1, <2>2 DEF HeldLive, NoResult
  <1>13. SInv'
    BY <1>1, <1>2, <1>9, <1>11, <1>12 DEF SInv, CacheOrdered
  <1>14. ASSUME trusted' PROVE MInv'
    <2>1. trusted /\ MInv
      BY <1>2, <1>14 DEF UInv
    <2>2. HandlesSpell(Handles', data')
      BY <1>2, <1>10, <2>1 DEF MInv, HandlesSpell
    <2>3. CacheTrue'
      BY <1>2, <2>1 DEF MInv, CacheTrue, Live, Family
    <2>4. StackMeans(stack')
      <3> DEFINE Ans(s, k) == IF k < Len(s) THEN s[k + 1].expected ELSE {}
      <3>1. ASSUME NEW k \in 1 .. Len(stack') PROVE Means(stack'[k], Ans(stack', k))
        <4>1. k \in 1 .. n - 1 \/ k = n \/ k = n + 1
          BY <1>4, <1>5
        <4>2. CASE k \in 1 .. n - 1
          <5>1. stack'[k] = stack[k] /\ k \in 1 .. Len(stack) /\ k < Len(stack) /\ k < Len(stack')
            BY <1>4, <1>5, <1>6, <4>2
          <5>2. stack'[k + 1].expected = stack[k + 1].expected
            <6>1. CASE k + 1 = n
              BY <1>4, <1>5, <2>1, <6>1
            <6>2. CASE k + 1 # n
              <7>1. k + 1 \in 1 .. n - 1
                BY <1>4, <4>2, <6>2
              <7>2. QED
                BY <1>5, <7>1
            <6>3. QED
              BY <6>1, <6>2
          <5>3. Means(stack[k], Ans(stack, k))
            BY <2>1, <5>1 DEF MInv, StackMeans
          <5>4. QED
            BY <5>1, <5>2, <5>3
        <4>3. CASE k = n
          <5>1. Ans(stack', k) = a.fam \cup b.fam
            BY <1>3, <1>4, <1>5, <4>3
          <5>2. QED
            BY <1>5, <2>1, <4>3, <5>1
        <4>4. CASE k = n + 1
          <5>1. \A x : Means(c, x)
            BY <1>3 DEF Means
          <5>2. QED
            BY <1>5, <4>4, <5>1
        <4>5. QED
          BY <4>1, <4>2, <4>3, <4>4
      <3>2. QED
        BY <3>1 DEF StackMeans
    <2>5. KeysTrue(data', published', stack', older')
      <3>1. ASSUME NEW k \in 1 .. Len(stack'), stack'[k].key # NoKey,
                   older < k \/ KeyHeld(stack'[k])
            PROVE  KeyTrue(data, published, stack'[k])
        <4>1. k \in 1 .. n - 1 \/ k = n \/ k = n + 1
          BY <1>4, <1>5
        <4>2. CASE k \in 1 .. n - 1
          <5>1. stack'[k] = stack[k] /\ k \in 1 .. Len(stack)
            BY <1>4, <1>5, <1>6, <4>2
          <5>2. QED
            BY <2>1, <3>1, <5>1 DEF MInv, KeysTrue
        <4>3. CASE k = n
          BY <1>5, <2>1, <3>1, <4>3
        <4>4. CASE k = n + 1
          BY <1>3, <1>5, <3>1, <4>4
        <4>5. QED
          BY <4>1, <4>2, <4>3, <4>4
      <3>2. QED
        BY <1>2, <3>1 DEF KeysTrue
    <2>6. QED
      BY <2>2, <2>3, <2>4, <2>5 DEF MInv
  <1>15. QED
    BY <1>13, <1>14 DEF UInv

-----------------------------------------------------------------------------
(***************************************************************************)
(* The steps of union                                                      *)
(***************************************************************************)
\* What a call has.
LEMMA CallArgs ==
  ASSUME UInv, Calling
  PROVE  /\ Types /\ SInv /\ stack # <<>> /\ Top \in Frames /\ Top.expected \in Families
         /\ {Self, Other} = {Top.parts[1], Top.parts[2]} /\ Self.id <= Other.id
         /\ \A h \in {Self, Other} :
              /\ h \in HandleSet /\ h.id \in Ids /\ Live(h.id)
              /\ IsTerminal(h.id) \/ h.id \in published
              /\ trusted => FamilyIn(data, h.id) = h.fam
         /\ trusted => Top.expected = Self.fam \cup Other.fam
         /\ \A v : Over(data, v, Top) => /\ v < ValueOf(data, Self.id)
                                         /\ v < ValueOf(data, Other.id)
         /\ \A v : Over(data, v, Top) => /\ v < ValueOf(data, Top.parts[1].id)
                                         /\ v < ValueOf(data, Top.parts[2].id)
  <1>1. /\ Types /\ SInv /\ stack # <<>> /\ Top \in Frames /\ Top.todo = "call"
        /\ FrameHandles(Top) \subseteq Handles \ {NoResult}
        /\ Len(stack) \in Nat /\ Len(stack) >= 1 /\ Top = stack[Len(stack)]
    BY StackTop DEF UInv, SInv, Calling
  <1>2. /\ Top.parts[1] \in HandleSet /\ Top.parts[2] \in HandleSet
        /\ {Top.parts[1], Top.parts[2]} \subseteq FrameHandles(Top)
        /\ Top.expected \in Families
    BY <1>1, FrameTyped DEF Frames
  <1>3. /\ {Self, Other} = {Top.parts[1], Top.parts[2]}
        /\ ~(Self.id > Other.id)
        /\ \/ Self = Top.parts[1] /\ Other = Top.parts[2]
           \/ Self = Top.parts[2] /\ Other = Top.parts[1]
    <2>1. Top.parts[1].id \in Nat /\ Top.parts[2].id \in Nat
      BY <1>2, Numbers DEF HandleSet
    <2>2. CASE Top.parts[1].id > Top.parts[2].id
      BY <2>1, <2>2 DEF Self, Other
    <2>3. CASE ~(Top.parts[1].id > Top.parts[2].id)
      BY <2>1, <2>3 DEF Self, Other
    <2>4. QED
      BY <2>2, <2>3
  <1>4. ASSUME NEW h \in {Self, Other}
        PROVE  /\ h \in HandleSet /\ h.id \in Ids /\ Live(h.id)
               /\ IsTerminal(h.id) \/ h.id \in published
               /\ trusted => FamilyIn(data, h.id) = h.fam
    <2>1. h \in HandleSet /\ h \in Handles \ {NoResult}
      BY <1>1, <1>2, <1>3
    <2>2. Live(h.id)
      BY <1>1, <2>1 DEF SInv, HeldLive
    <2>3. trusted => FamilyIn(data, h.id) = h.fam
      BY <2>1 DEF UInv, MInv, HandlesSpell
    <2>4. QED
      BY <2>1, <2>2, <2>3 DEF HandleSet, Live, IsTerminal
  <1>5. trusted => Top.expected = Top.parts[1].fam \cup Top.parts[2].fam
    <2>1. Len(stack) \in 1 .. Len(stack)
      BY <1>1
    <2>2. trusted => \E a : Means(Top, a)
      BY <1>1, <2>1 DEF UInv, MInv, StackMeans
    <2>3. QED
      BY <1>1, <2>2 DEF Means
  <1>6. trusted => Top.expected = Self.fam \cup Other.fam
    BY <1>3, <1>5
  <1>7. \A v : Over(data, v, Top) => /\ v < ValueOf(data, Top.parts[1].id)
                                     /\ v < ValueOf(data, Top.parts[2].id)
    BY <1>1 DEF Over
  <1>8. \A v : Over(data, v, Top) => /\ v < ValueOf(data, Self.id)
                                     /\ v < ValueOf(data, Other.id)
    BY <1>3, <1>7
  <1>9. Self.id <= Other.id
    <2>1. Self.id \in Nat /\ Other.id \in Nat
      BY <1>4, Numbers
    <2>2. QED
      BY <1>3, <2>1
  <1>10. QED
    BY <1>1, <1>2, <1>3, <1>4, <1>6, <1>7, <1>8, <1>9

\* What get() gives.
LEMMA HandleParts ==
  ASSUME SInv, NEW h \in HandleSet, h.id \in published
  PROVE  /\ Val(h) \in Vals /\ Val(h) = ValueOf(data, h.id) /\ h.id \in Indices
         /\ data[h.id].v = Val(h)
         /\ Lo(h) \in HandleSet /\ Hi(h) \in HandleSet
         /\ Live(Lo(h).id) /\ Live(Hi(h).id) /\ Hi(h).id # 0
         /\ Val(h) < ValueOf(data, Lo(h).id) /\ Val(h) < ValueOf(data, Hi(h).id)
         /\ FamilyIn(data, h.id) = h.fam =>
              /\ FamilyIn(data, Lo(h).id) = Lo(h).fam /\ FamilyIn(data, Hi(h).id) = Hi(h).fam
              /\ h.fam = Lo(h).fam \cup Above(Val(h), Hi(h).fam)
  <1> DEFINE i == h.id
  <1>1. /\ Types /\ Ordered(data, published) /\ published \in SUBSET Indices
        /\ data[i] \in [v : 0 .. NVars, lo : Ids, hi : Ids]
    BY DEF SInv, Types, Nodes
  <1>2. /\ Val(h) \in Vals /\ Val(h) = data[i].v /\ i \in Indices /\ ~IsTerminal(i)
        /\ data[i].hi # 0 /\ data[i].lo \in Ids /\ data[i].hi \in Ids
        /\ \A c \in {data[i].lo, data[i].hi} :
             IsTerminal(c) \/ (c \in published /\ Val(h) < data[c].v)
    BY <1>1, Numbers DEF Val, Ordered
  <1>3. Lo(h).id = data[i].lo /\ Hi(h).id = data[i].hi
    BY HandleIs DEF Lo, Hi
  <1>4. ASSUME NEW c \in {data[i].lo, data[i].hi}
        PROVE  Live(c) /\ Val(h) < ValueOf(data, c)
    <2>1. CASE IsTerminal(c)
      BY <1>2, <2>1, Numbers DEF IsTerminal, Live, ValueOf, Vals
    <2>2. CASE c \in published /\ Val(h) < data[c].v
      BY <1>1, <2>2, Numbers DEF Live, ValueOf
    <2>3. QED
      BY <1>2, <2>1, <2>2
  <1>5. Lo(h) \in HandleSet /\ Hi(h) \in HandleSet
    <2>1. h.fam \in Families
      BY DEF HandleSet
    <2>2. {s \in h.fam : Val(h) \notin s} \in Families
      BY <2>1 DEF Families
    <2>3. {s \ {Val(h)} : s \in {x \in h.fam : Val(h) \in x}} \in Families
      <3>1. \A s \in h.fam : s \ {Val(h)} \in SUBSET Vals
        BY <2>1 DEF Families
      <3>2. QED
        BY <3>1 DEF Families
    <2>4. QED
      BY <1>2, <2>2, <2>3, HandleTyped DEF Lo, Hi
  <1>6. ASSUME FamilyIn(data, i) = h.fam
        PROVE  /\ FamilyIn(data, Lo(h).id) = Lo(h).fam /\ FamilyIn(data, Hi(h).id) = Hi(h).fam
               /\ h.fam = Lo(h).fam \cup Above(Val(h), Hi(h).fam)
    <2>1. /\ FamilyIn(data, data[i].lo) = Lo(h).fam
          /\ FamilyIn(data, data[i].hi) = Hi(h).fam
      <3> DEFINE v == data[i].v
                 f == FamilyIn(data, i)
      <3>1. /\ {s \in f : v \notin s} = FamilyIn(data, data[i].lo)
            /\ {s \ {v} : s \in {x \in f : v \in x}} = FamilyIn(data, data[i].hi)
        BY <1>1, NodeSplits
      <3>2. /\ Lo(h).fam = {s \in h.fam : Val(h) \notin s}
            /\ Hi(h).fam = {s \ {Val(h)} : s \in {x \in h.fam : Val(h) \in x}}
        BY HandleIs DEF Lo, Hi
      <3>3. v = Val(h) /\ f = h.fam
        BY <1>2, <1>6
      <3> HIDE DEF v, f
      <3>4. QED
        BY <3>1, <3>2, <3>3
    <2>2. FamilyIn(data, i) = FamilyIn(data, data[i].lo)
                                \cup Above(data[i].v, FamilyIn(data, data[i].hi))
      BY <1>1, FamilySpelt
    <2>3. QED
      BY <1>2, <1>3, <1>6, <2>1, <2>2
  <1>7. Val(h) = ValueOf(data, i)
    BY <1>2 DEF ValueOf
  <1>8. QED
    BY <1>2, <1>3, <1>4, <1>5, <1>6, <1>7

\* An answer without a change of the table or of the cache.
LEMMA AnswerSame ==
  ASSUME UInv, stack # <<>>, NEW h \in HandleSet, Answer(h),
         regs' = regs, data' = data, published' = published, cache' = cache,
         Live(h.id),
         \A v \in 0 .. NVars : Over(data, v, Top) => v < ValueOf(data, h.id),
         NonZero(Top) => h.id # 0,
         older' \in Nat, trusted' \in BOOLEAN,
         trusted' => /\ trusted /\ suspect' = suspect
                     /\ h.fam = Top.expected /\ FamilyIn(data, h.id) = h.fam
                     /\ older' = older \/ older' = Len(stack) - 1
  PROVE  UInv'
  <1>1. SInv /\ Types /\ CacheOrdered
    BY DEF UInv, SInv
  <1>2. /\ data' \in Nodes /\ published' \subseteq Indices /\ Ordered(data', published')
        /\ \A i \in HeldIds : i \in published'
    BY <1>1, HeldAre DEF SInv, Types
  <1>3. /\ DOMAIN cache' \subseteq Ids \X Ids /\ \A k \in DOMAIN cache' : cache'[k] \in Ids
        /\ CacheOrdered'
    BY <1>1 DEF Types, CacheOrdered
  <1>4. ASSUME trusted'
        PROVE  /\ CacheTrue'
               /\ \A k \in 1 .. Len(stack) - 1 :
                    stack[k].key # NoKey /\ (older' < k \/ KeyHeld(stack[k]))
                      => KeyTrue(data', published', stack[k])
    <2>1. MInv /\ suspect' = suspect
      BY <1>4 DEF UInv
    <2>2. CacheTrue'
      BY <2>1 DEF MInv, CacheTrue, Live, Family
    <2>3. ASSUME NEW k \in 1 .. Len(stack) - 1, stack[k].key # NoKey,
                 older' < k \/ KeyHeld(stack[k])
          PROVE  KeyTrue(data, published, stack[k])
      <3>1. Len(stack) \in Nat /\ older \in Nat
        BY <1>1, StackTop DEF Types
      <3>2. k \in 1 .. Len(stack) /\ (older' < k => older < k)
        BY <1>4, <3>1
      <3>3. QED
        BY <2>1, <2>3, <3>2 DEF MInv, KeysTrue
    <2>4. QED
      BY <2>2, <2>3
  <1>5. IsTerminal(h.id) \/ h.id \in published'
    BY DEF Live, IsTerminal
  <1>6. QED
    BY <1>2, <1>3, <1>4, <1>5, AnswerInv

LEMMA AgeIs ==
  ASSUME Types, stack # <<>>, AgeKept
  PROVE  older' \in Nat /\ (older' = older \/ older' = Len(stack) - 1)
  <1>1. Len(Below) = Len(stack) - 1 /\ Len(stack) \in Nat /\ Len(stack) >= 1 /\ older \in Nat
    BY StackTop DEF Types
  <1>2. older' = older \/ older' = Len(Below)
    BY DEF AgeKept
  <1>3. QED
    BY <1>1, <1>2

LEMMA UnionTrivialInv ==
  ASSUME UInv, UnionTrivial
  PROVE  UInv'
  <1> DEFINE a == Top.parts[1]
             b == Top.parts[2]
             h == IF IsZero(a) THEN b ELSE a
  <1>1. /\ Calling /\ ReturnsAtOnce(a, b) /\ Answer(h) /\ AgeKept
        /\ data' = data /\ published' = published /\ cache' = cache /\ regs' = regs
        /\ suspect' = suspect /\ trusted' = trusted
    BY DEF UnionTrivial
  <1>2. /\ Types /\ SInv /\ stack # <<>> /\ Top \in Frames
        /\ {Self, Other} = {a, b} /\ Top.todo = "call"
    BY <1>1, CallArgs DEF Calling
  <1>3. \A g \in {a, b} : /\ g \in HandleSet /\ Live(g.id)
                          /\ trusted => FamilyIn(data, g.id) = g.fam
    BY <1>1, <1>2, CallArgs
  <1>4. \A v : Over(data, v, Top) => v < ValueOf(data, a.id) /\ v < ValueOf(data, b.id)
    BY <1>1, CallArgs
  <1>5. trusted => Top.expected = a.fam \cup b.fam
    BY <1>1, <1>2, CallArgs
  <1>6. NonZero(Top) => a.id # 0 \/ b.id # 0
    BY <1>2 DEF NonZero
  <1>7. older' \in Nat /\ (older' = older \/ older' = Len(stack) - 1) /\ trusted' \in BOOLEAN
    BY <1>1, <1>2, AgeIs DEF Types
  <1> HIDE DEF a, b
  <1>8. /\ h \in {a, b}
        /\ NonZero(Top) => h.id # 0
    BY <1>6 DEF IsZero
  <1>9. trusted => h.fam = Top.expected
    <2>1. CASE IsZero(a)
      <3>1. trusted => a.fam = {}
        BY <1>3, <2>1, FamilyTerminals DEF IsZero
      <3>2. QED
        BY <1>5, <2>1, <3>1
    <2>2. CASE ~IsZero(a) /\ IsZero(b)
      <3>1. trusted => b.fam = {}
        BY <1>3, <2>2, FamilyTerminals DEF IsZero
      <3>2. QED
        BY <1>5, <2>2, <3>1
    <2>3. CASE ~IsZero(a) /\ ~IsZero(b)
      <3>1. a.id = b.id
        BY <1>1, <2>3 DEF ReturnsAtOnce, Same
      <3>2. QED
        BY <1>3, <1>5, <2>3, <3>1
    <2>4. QED
      BY <2>1, <2>2, <2>3
  <1> HIDE DEF h
  <1>10. QED
    BY <1>1, <1>2, <1>3, <1>4, <1>7, <1>8, <1>9, AnswerSame

LEMMA UnionHitInv ==
  ASSUME UInv, UnionHit
  PROVE  UInv'
  <1> DEFINE h == Handle(cache[Key], Top.expected)
  <1>1. /\ Calling /\ Key \in DOMAIN cache /\ Answer(h)
        /\ ~ReturnsAtOnce(Self, Other)
        /\ data' = data /\ published' = published /\ cache' = cache /\ regs' = regs
    BY DEF UnionHit
  <1>2. /\ Types /\ SInv /\ stack # <<>> /\ Top.expected \in Families
        /\ CacheOrdered
    BY <1>1, CallArgs DEF SInv
  <1>3. cache[Key] \in Ids /\ cache[Key] \in published /\ published \subseteq Indices
    BY <1>1, <1>2 DEF Types, CacheOrdered
  <1>4. h.id = cache[Key] /\ h.fam = Top.expected /\ h \in HandleSet
    BY <1>2, <1>3, HandleIs, HandleTyped
  <1>5. Key[1] = Self.id /\ Key[2] = Other.id
    BY DEF Key
  <1>6. PICK j \in {Key[1], Key[2]} \cap published : data[j].v <= data[cache[Key]].v
    BY <1>1, <1>2 DEF CacheOrdered
  <1>7. ASSUME NEW v \in 0 .. NVars, Over(data, v, Top)
        PROVE  v < ValueOf(data, h.id)
    <2>1. v < ValueOf(data, Self.id) /\ v < ValueOf(data, Other.id)
      BY <1>1, <1>7, CallArgs
    <2>2. j \in Indices /\ v < ValueOf(data, j)
      BY <1>3, <1>5, <1>6, <2>1
    <2>3. v < data[j].v
      BY <2>2, Numbers DEF ValueOf
    <2>4. data[j].v \in 0 .. NVars /\ data[cache[Key]].v \in 0 .. NVars
      BY <1>2, <1>3, <2>2 DEF Types, Nodes
    <2>5. v < data[cache[Key]].v
      BY <1>6, <2>3, <2>4
    <2>6. ValueOf(data, h.id) = data[cache[Key]].v
      BY <1>3, <1>4, Numbers DEF ValueOf
    <2>7. QED
      BY <2>5, <2>6
  <1>8. Live(h.id) /\ h.id # 0
    BY <1>3, <1>4, Numbers DEF Live
  <1>9. CASE Key \in suspect
    <2>1. older' = 0 /\ trusted' = FALSE
      BY <1>9 DEF UnionHit
    <2> HIDE DEF h
    <2>2. QED
      BY <1>1, <1>2, <1>4, <1>7, <1>8, <2>1, AnswerSame
  <1>10. CASE Key \notin suspect
    <2>1. AgeKept /\ suspect' = suspect /\ trusted' = trusted
      BY <1>10 DEF UnionHit
    <2>2. older' \in Nat /\ (older' = older \/ older' = Len(stack) - 1) /\ trusted' \in BOOLEAN
      BY <1>2, <2>1, AgeIs DEF Types
    <2>3. ASSUME trusted PROVE FamilyIn(data, h.id) = h.fam
      <3>1. Family(cache[Key]) = Family(Key[1]) \cup Family(Key[2])
        BY <1>1, <1>10, <2>3 DEF UInv, MInv, CacheTrue
      <3>2. Family(Key[1]) = Self.fam /\ Family(Key[2]) = Other.fam
        BY <1>1, <1>5, <2>3, CallArgs DEF Family
      <3>3. Top.expected = Self.fam \cup Other.fam
        BY <1>1, <2>3, CallArgs
      <3>4. QED
        BY <1>4, <3>1, <3>2, <3>3 DEF Family
    <2> HIDE DEF h
    <2>4. QED
      BY <1>1, <1>2, <1>4, <1>7, <1>8, <2>1, <2>2, <2>3, AnswerSame
  <1>11. QED
    BY <1>9, <1>10

IsFrame(f, todo, v, a, b, key, kept, e) ==
  /\ f \in Frames /\ f.todo = todo /\ f.v = v /\ f.parts = <<a, b>>
  /\ f.key = key /\ f.kept = kept /\ f.expected = e
  /\ FrameHandles(f) = {a, b} \cup kept

LEMMA NewFrame ==
  ASSUME NEW todo \in Kinds, NEW v \in 0 .. NVars, NEW a \in HandleSet, NEW b \in HandleSet,
         NEW key \in {NoKey} \cup (Ids \X Ids), NEW kept \in SUBSET HandleSet,
         NEW e \in Families
  PROVE  IsFrame(Frame(todo, v, <<a, b>>, key, kept, e), todo, v, a, b, key, kept, e)
  <1> DEFINE f == Frame(todo, v, <<a, b>>, key, kept, e)
  <1>1. <<a, b>> \in HandleSet \X HandleSet
    OBVIOUS
  <1>2. f \in Frames
    BY <1>1 DEF Frame, Frames
  <1>3. /\ f.todo = todo /\ f.v = v /\ f.parts = <<a, b>>
        /\ f.key = key /\ f.kept = kept /\ f.expected = e
    BY DEF Frame
  <1>4. f.parts[1] = a /\ f.parts[2] = b
    BY <1>3
  <1> HIDE DEF f
  <1>5. IsFrame(f, todo, v, a, b, key, kept, e)
    BY <1>2, <1>3, <1>4, FrameTyped DEF IsFrame
  <1>6. QED
    BY <1>5 DEF f

LEMMA KeyIs ==
  ASSUME UInv, Calling
  PROVE  /\ Key \in Ids \X Ids /\ Key[1] = Self.id /\ Key[2] = Other.id
  BY CallArgs DEF Key

\* The call splits s and goes on with its lo child and with o, the hi child
\* untouched.
Splits(s, o, key, kept, a, b) ==
  /\ s \in HandleSet /\ o \in HandleSet /\ a \in HandleSet /\ b \in HandleSet
  /\ <<s, o>> \in {<<Self, Other>>, <<Other, Self>>}
  /\ <<a, b>> \in {<<Lo(s), o>>, <<o, Lo(s)>>}
  /\ s.id \in published /\ Val(s) < ValueOf(data, o.id)
  /\ key \in {NoKey, Key}
  /\ kept \in SUBSET HandleSet /\ s \in kept
  /\ \A h \in kept : Live(h.id) /\ (trusted => FamilyIn(data, h.id) = h.fam)
  /\ Recurse(Frame("lo", Val(s), <<Zero, Hi(s)>>, key, kept, Top.expected), a, b)

LEMMA SplitInv ==
  ASSUME UInv, Calling, NEW s, NEW o, NEW key, NEW kept, NEW a, NEW b,
         Splits(s, o, key, kept, a, b)
  PROVE  UInv'
  <1> DEFINE f == Frame("lo", Val(s), <<Zero, Hi(s)>>, key, kept, Top.expected)
  <1>0. /\ s \in HandleSet /\ o \in HandleSet /\ a \in HandleSet /\ b \in HandleSet
        /\ <<s, o>> \in {<<Self, Other>>, <<Other, Self>>}
        /\ <<a, b>> \in {<<Lo(s), o>>, <<o, Lo(s)>>}
        /\ s.id \in published /\ Val(s) < ValueOf(data, o.id)
        /\ key \in {NoKey, Key}
        /\ kept \in SUBSET HandleSet /\ s \in kept
        /\ \A h \in kept : Live(h.id) /\ (trusted => FamilyIn(data, h.id) = h.fam)
        /\ Recurse(f, a, b)
    BY DEF Splits
  <1>1. /\ SInv /\ Top.expected \in Families
        /\ Live(o.id) /\ (trusted => FamilyIn(data, o.id) = o.fam)
        /\ trusted => FamilyIn(data, s.id) = s.fam
        /\ trusted => Top.expected = s.fam \cup o.fam
        /\ \A v : Over(data, v, Top) => v < ValueOf(data, s.id)
    BY <1>0, CallArgs
  <1>2. /\ Val(s) \in Vals /\ Val(s) = ValueOf(data, s.id) /\ s.id \in Indices
        /\ data[s.id].v = Val(s)
        /\ Lo(s) \in HandleSet /\ Hi(s) \in HandleSet
        /\ Live(Lo(s).id) /\ Live(Hi(s).id) /\ Hi(s).id # 0
        /\ Val(s) < ValueOf(data, Lo(s).id) /\ Val(s) < ValueOf(data, Hi(s).id)
        /\ trusted => /\ FamilyIn(data, Lo(s).id) = Lo(s).fam
                      /\ FamilyIn(data, Hi(s).id) = Hi(s).fam
                      /\ s.fam = Lo(s).fam \cup Above(Val(s), Hi(s).fam)
    BY <1>0, <1>1, HandleParts
  <1>3. key \in {NoKey} \cup (Ids \X Ids) /\ "lo" \in Kinds /\ Zero \in HandleSet
        /\ Val(s) \in 0 .. NVars
    BY <1>0, <1>2, KeyIs, HandleTyped, Numbers DEF Kinds, Waiting, Vals
  <1>4. IsFrame(f, "lo", Val(s), Zero, Hi(s), key, kept, Top.expected)
    BY <1>0, <1>1, <1>2, <1>3, NewFrame
  <1>5. Recurse(f, a, b)
    BY <1>0
  <1> HIDE DEF f
  <1>6. /\ f \in Frames /\ f.todo = "lo" /\ f.v = Val(s)
        /\ f.parts[1] = Zero /\ f.parts[2] = Hi(s)
        /\ f.key = key /\ f.kept = kept /\ f.expected = Top.expected
        /\ FrameHandles(f) = {Zero, Hi(s)} \cup kept
    BY <1>4 DEF IsFrame
  <1>7. Val(s) < ValueOf(data, a.id) /\ Val(s) < ValueOf(data, b.id)
    BY <1>0, <1>2
  <1>8. Val(s) < ValueOf(data, Zero.id)
    BY <1>3, HandleTyped, Numbers DEF ValueOf, IsTerminal
  <1>9. \A p \in {1, 2} : f.v < ValueOf(data, f.parts[p].id)
    BY <1>2, <1>6, <1>8
  <1>10. f.key # NoKey =>
           \E h \in f.kept : /\ h.id \in {f.key[1], f.key[2]} \cap Indices
                             /\ data[h.id].v = f.v
    BY <1>0, <1>2, <1>6, KeyIs
  <1>11. \A h \in FrameHandles(f) \cup {a, b} :
           Live(h.id) /\ (trusted => FamilyIn(data, h.id) = h.fam)
    <2>1. Live(Zero.id) /\ FamilyIn(data, Zero.id) = Zero.fam
      BY HandleTyped, FamilyTerminals DEF Live
    <2>2. QED
      BY <1>0, <1>1, <1>2, <1>6, <2>1
  <1>12. ASSUME trusted
         PROVE  /\ Means(f, a.fam \cup b.fam)
                /\ f.key # NoKey => KeyTrue(data, published, f)
    <2>1. f.expected = (a.fam \cup b.fam) \cup Above(f.v, Hi(s).fam)
      BY <1>0, <1>1, <1>2, <1>6, <1>12
    <2>2. Means(f, a.fam \cup b.fam)
      BY <1>6, <2>1 DEF Means
    <2>3. ASSUME f.key # NoKey PROVE KeyTrue(data, published, f)
      <3>1. f.key[1] = Self.id /\ f.key[2] = Other.id
        BY <1>0, <1>6, <2>3, KeyIs
      <3>2. /\ Live(Self.id) /\ Live(Other.id)
            /\ FamilyIn(data, Self.id) = Self.fam /\ FamilyIn(data, Other.id) = Other.fam
            /\ Top.expected = Self.fam \cup Other.fam
        BY <1>12, CallArgs
      <3>3. QED
        BY <1>6, <3>1, <3>2 DEF KeyTrue, Live
    <2>4. QED
      BY <2>2, <2>3
  <1>13. QED
    <2>1. \A v \in 0 .. NVars : Over(data, v, Top) => v < f.v
      BY <1>1, <1>2, <1>6
    <2>2. f.v \in Vals /\ f.parts[2].id # 0 /\ f.todo \in {"lo", "lo_then_hi"}
          /\ f.todo # "lo_then_hi"
          /\ f.v < ValueOf(data, a.id) /\ f.v < ValueOf(data, b.id)
      BY <1>2, <1>6, <1>7
    <2>3. QED
      BY <1>0, <1>5, <1>6, <1>9, <1>10, <1>11, <1>12, <2>1, <2>2, RecurseInv

\* The arguments of a call that misses.
LEMMA MissArgs ==
  ASSUME UInv, Misses
  PROVE  /\ Calling /\ SInv /\ Self \in HandleSet /\ Other \in HandleSet
         /\ Other.id \in published
         /\ ~IsOne(Self) => Self.id \in published
         /\ IsOne(Self) => ValueOf(data, Self.id) = NVars + 1
  <1>1. Calling /\ ~ReturnsAtOnce(Self, Other)
    BY DEF Misses
  <1>2. Self.id # 0 /\ Other.id # 0 /\ Self.id # Other.id
    BY <1>1 DEF ReturnsAtOnce, IsZero, Same
  <1>3. /\ SInv /\ Self \in HandleSet /\ Other \in HandleSet /\ Self.id <= Other.id
        /\ Self.id \in Nat /\ Other.id \in Nat
        /\ IsTerminal(Self.id) \/ Self.id \in published
        /\ IsTerminal(Other.id) \/ Other.id \in published
    BY <1>1, CallArgs, Numbers
  <1>4. Other.id \in published
    BY <1>2, <1>3 DEF IsTerminal
  <1>5. ~IsOne(Self) => Self.id \in published
    BY <1>2, <1>3 DEF IsTerminal, IsOne
  <1>6. IsOne(Self) => ValueOf(data, Self.id) = NVars + 1
    BY DEF IsOne, ValueOf, IsTerminal
  <1>7. QED
    BY <1>1, <1>3, <1>4, <1>5, <1>6

\* The handles of get() of a handle that is live and spelled are as well.
PartsHeld(h) ==
  \A g \in {h, Lo(h), Hi(h)} :
    g \in HandleSet /\ Live(g.id) /\ (trusted => FamilyIn(data, g.id) = g.fam)

LEMMA PartsAreHeld ==
  ASSUME UInv, Calling, NEW h \in {Self, Other}, h.id \in published
  PROVE  PartsHeld(h)
  BY CallArgs, HandleParts DEF PartsHeld

LEMMA UnionOneInv ==
  ASSUME UInv, UnionOne
  PROVE  UInv'
  <1>1. /\ Calling /\ SInv /\ Self \in HandleSet /\ Other \in HandleSet
        /\ Other.id \in published /\ ValueOf(data, Self.id) = NVars + 1
    BY MissArgs DEF UnionOne
  <1>2. /\ Val(Other) \in Vals /\ Lo(Other) \in HandleSet
    BY <1>1, HandleParts
  <1>3. Val(Other) < ValueOf(data, Self.id)
    BY <1>1, <1>2, Numbers DEF Vals
  <1>4. \A h \in {Other} : Live(h.id) /\ (trusted => FamilyIn(data, h.id) = h.fam)
    BY <1>1, CallArgs
  <1>5. Recurse(Frame("lo", Val(Other), <<Zero, Hi(Other)>>, NoKey, {Other}, Top.expected),
                Self, Lo(Other))
    BY DEF UnionOne
  <1>6. Splits(Other, Self, NoKey, {Other}, Self, Lo(Other))
    BY <1>1, <1>2, <1>3, <1>4, <1>5 DEF Splits
  <1>7. QED
    BY <1>1, <1>6, SplitInv

LEMMA UnionLessInv ==
  ASSUME UInv, UnionLess
  PROVE  UInv'
  <1>1. /\ Calling /\ SInv /\ Self \in HandleSet /\ Other \in HandleSet
        /\ Other.id \in published /\ Self.id \in published
    BY MissArgs DEF UnionLess
  <1> DEFINE kept == {Self, Lo(Other), Hi(Other)}
  <1>2. /\ kept \in SUBSET HandleSet /\ Self \in kept /\ Lo(Self) \in HandleSet
        /\ \A h \in kept : Live(h.id) /\ (trusted => FamilyIn(data, h.id) = h.fam)
    BY <1>1, PartsAreHeld DEF PartsHeld
  <1>3. Val(Self) < ValueOf(data, Other.id)
    BY <1>1, HandleParts DEF UnionLess
  <1>4. Recurse(Frame("lo", Val(Self), <<Zero, Hi(Self)>>, Key, kept, Top.expected),
                Lo(Self), Other)
    BY DEF UnionLess
  <1> HIDE DEF kept
  <1>5. Splits(Self, Other, Key, kept, Lo(Self), Other)
    BY <1>1, <1>2, <1>3, <1>4 DEF Splits
  <1>6. QED
    BY <1>1, <1>5, SplitInv

LEMMA UnionGreaterInv ==
  ASSUME UInv, UnionGreater
  PROVE  UInv'
  <1>1. /\ Calling /\ SInv /\ Self \in HandleSet /\ Other \in HandleSet
        /\ Other.id \in published /\ Self.id \in published
    BY MissArgs DEF UnionGreater
  <1> DEFINE kept == {Other, Lo(Self), Hi(Self)}
  <1>2. /\ kept \in SUBSET HandleSet /\ Other \in kept /\ Lo(Other) \in HandleSet
        /\ \A h \in kept : Live(h.id) /\ (trusted => FamilyIn(data, h.id) = h.fam)
    BY <1>1, PartsAreHeld DEF PartsHeld
  <1>3. Val(Other) < ValueOf(data, Self.id)
    <2>1. Val(Self) \in Vals /\ Val(Other) \in Vals /\ Val(Self) = ValueOf(data, Self.id)
      BY <1>1, HandleParts
    <2>2. QED
      BY <2>1 DEF UnionGreater, Vals
  <1>4. Recurse(Frame("lo", Val(Other), <<Zero, Hi(Other)>>, Key, kept, Top.expected),
                Self, Lo(Other))
    BY DEF UnionGreater
  <1> HIDE DEF kept
  <1>5. Splits(Other, Self, Key, kept, Self, Lo(Other))
    BY <1>1, <1>2, <1>3, <1>4 DEF Splits
  <1>6. QED
    BY <1>1, <1>5, SplitInv

LEMMA UnionEqualInv ==
  ASSUME UInv, UnionEqual
  PROVE  UInv'
  <1> DEFINE v == Val(Self)
             f == Frame("lo_then_hi", v, <<Hi(Self), Hi(Other)>>, Key, {Self, Other},
                        Top.expected)
             a == Lo(Self)
             b == Lo(Other)
  <1>1. /\ Calling /\ SInv /\ Self \in HandleSet /\ Other \in HandleSet
        /\ Other.id \in published /\ Self.id \in published
        /\ Val(Other) = v /\ Recurse(f, a, b)
    BY MissArgs DEF UnionEqual
  <1>2. PartsHeld(Self) /\ PartsHeld(Other)
    BY <1>1, PartsAreHeld
  <1>3. ASSUME NEW h \in {Self, Other}
        PROVE  /\ v \in Vals /\ v = ValueOf(data, h.id) /\ h.id \in Indices /\ data[h.id].v = v
               /\ Hi(h).id # 0
               /\ v < ValueOf(data, Lo(h).id) /\ v < ValueOf(data, Hi(h).id)
               /\ trusted => h.fam = Lo(h).fam \cup Above(v, Hi(h).fam)
    <2>1. h \in HandleSet /\ h.id \in published /\ Val(h) = v
      BY <1>1
    <2>2. trusted => FamilyIn(data, h.id) = h.fam
      BY <1>2 DEF PartsHeld
    <2>3. QED
      BY <1>1, <2>1, <2>2, HandleParts
  <1>4. /\ Top.expected \in Families /\ Key \in Ids \X Ids
        /\ Key[1] = Self.id /\ Key[2] = Other.id
        /\ trusted => Top.expected = Self.fam \cup Other.fam
        /\ \A x : Over(data, x, Top) => x < ValueOf(data, Self.id)
    BY <1>1, CallArgs, KeyIs
  <1>5. /\ a \in HandleSet /\ b \in HandleSet /\ Hi(Self) \in HandleSet /\ Hi(Other) \in HandleSet
        /\ {Self, Other} \in SUBSET HandleSet
        /\ \A h \in {Self, Other, a, b, Hi(Self), Hi(Other)} :
             Live(h.id) /\ (trusted => FamilyIn(data, h.id) = h.fam)
    BY <1>2 DEF PartsHeld
  <1>6. IsFrame(f, "lo_then_hi", v, Hi(Self), Hi(Other), Key, {Self, Other}, Top.expected)
    <2>1. "lo_then_hi" \in Kinds /\ Key \in {NoKey} \cup (Ids \X Ids) /\ v \in 0 .. NVars
      BY <1>3, <1>4, Numbers DEF Kinds, Waiting, Vals
    <2> DEFINE kept == {Self, Other}
    <2>2. kept \in SUBSET HandleSet
      BY <1>5
    <2> HIDE DEF v, kept
    <2>3. IsFrame(Frame("lo_then_hi", v, <<Hi(Self), Hi(Other)>>, Key, kept, Top.expected),
                  "lo_then_hi", v, Hi(Self), Hi(Other), Key, kept, Top.expected)
      BY <1>4, <1>5, <2>1, <2>2, NewFrame
    <2>4. QED
      BY <2>3 DEF kept
  <1> HIDE DEF f, a, b, v
  <1>7. /\ f \in Frames /\ f.todo = "lo_then_hi" /\ f.v = v
        /\ f.parts[1] = Hi(Self) /\ f.parts[2] = Hi(Other)
        /\ f.key = Key /\ f.kept = {Self, Other} /\ f.expected = Top.expected
        /\ FrameHandles(f) = {Hi(Self), Hi(Other), Self, Other}
    BY <1>6 DEF IsFrame
  <1>8. /\ f.v \in Vals
        /\ \A x \in 0 .. NVars : Over(data, x, Top) => x < f.v
        /\ f.v < ValueOf(data, a.id) /\ f.v < ValueOf(data, b.id)
        /\ f.parts[2].id # 0 /\ f.parts[1].id # 0
    BY <1>3, <1>4, <1>7 DEF a, b
  <1>9. \A p \in {1, 2} : f.v < ValueOf(data, f.parts[p].id)
    BY <1>3, <1>7
  <1>10. \E h \in f.kept : /\ h.id \in {f.key[1], f.key[2]} \cap Indices
                           /\ data[h.id].v = f.v
    BY <1>3, <1>4, <1>7
  <1>11. \A h \in FrameHandles(f) \cup {a, b} :
           Live(h.id) /\ (trusted => FamilyIn(data, h.id) = h.fam)
    BY <1>5, <1>7
  <1>12. ASSUME trusted
         PROVE  Means(f, a.fam \cup b.fam) /\ KeyTrue(data, published, f)
    <2>1. /\ Self.fam = a.fam \cup Above(v, Hi(Self).fam)
          /\ Other.fam = b.fam \cup Above(v, Hi(Other).fam)
      BY <1>3, <1>12 DEF a, b
    <2>2. Above(v, Hi(Self).fam \cup Hi(Other).fam)
            = Above(v, Hi(Self).fam) \cup Above(v, Hi(Other).fam)
      BY AboveUnion
    <2>3. f.expected = (a.fam \cup b.fam) \cup Above(v, Hi(Self).fam \cup Hi(Other).fam)
      BY <1>4, <1>7, <1>12, <2>1, <2>2
    <2>4. f.expected = (a.fam \cup b.fam)
                         \cup Above(f.v, f.parts[1].fam \cup f.parts[2].fam)
      BY <1>7, <2>3
    <2>5. Means(f, a.fam \cup b.fam)
      BY <1>7, <2>4 DEF Means
    <2>6. KeyTrue(data, published, f)
      BY <1>4, <1>5, <1>7, <1>12 DEF KeyTrue, Live
    <2>7. QED
      BY <2>5, <2>6
  <1>13. QED
    <2>1. f.todo \in {"lo", "lo_then_hi"}
      BY <1>7
    <2>2. QED
      BY <1>1, <1>5, <1>7, <1>8, <1>9, <1>10, <1>11, <1>12, <2>1, RecurseInv

-----------------------------------------------------------------------------
(***************************************************************************)
(* The steps that build a node                                             *)
(***************************************************************************)
\* What a frame has that builds its node.
LEMMA BuildArgs ==
  ASSUME UInv, Building
  PROVE  /\ SInv /\ Types /\ stack # <<>> /\ Top \in Frames /\ Top.expected \in Families
         /\ Top.v \in Vals
         /\ Top.parts[1].id \in Ids /\ Top.parts[2].id \in Ids /\ Top.parts[2].id # 0
         /\ TopNode = Node(Top.v, Top.parts[1].id, Top.parts[2].id)
         /\ TopNode \in [v : 0 .. NVars, lo : Ids, hi : Ids]
         /\ \A c \in {Top.parts[1].id, Top.parts[2].id} :
              IsTerminal(c) \/ (c \in published /\ Top.v < data[c].v)
         /\ Top.key # NoKey =>
              /\ Top.key \in Ids \X Ids
              /\ \E j \in {Top.key[1], Top.key[2]} \cap HeldIds : data[j].v = Top.v
         /\ \A v : Over(data, v, Top) => v < Top.v
         /\ trusted =>
              /\ Top.expected = FamilyIn(data, Top.parts[1].id)
                                  \cup Above(Top.v, FamilyIn(data, Top.parts[2].id))
              /\ Top.key # NoKey /\ (older < Len(stack) \/ KeyHeld(Top))
                   => KeyTrue(data, published, Top)
  <1> DEFINE n == Len(stack)
             lo == Top.parts[1]
             hi == Top.parts[2]
  <1>1. /\ SInv /\ Types /\ stack # <<>> /\ Top.todo = "node"
        /\ StackOrdered(data, stack)
    BY DEF UInv, SInv, Building
  <1>2. /\ n \in Nat /\ n >= 1 /\ Top = stack[n] /\ Top \in Frames
        /\ FrameHandles(Top) \subseteq Handles \ {NoResult}
    BY <1>1, StackTop
  <1>3. n \in 1 .. n
    <2> HIDE DEF n
    <2>1. QED
      BY <1>2
  <1>4. FrameOrdered(data, Top, n)
    BY <1>1, <1>2, <1>3 DEF StackOrdered
  <1>5. Top.v \in 0 .. NVars /\ Top.expected \in Families /\ Top.key \in {NoKey} \cup (Ids \X Ids)
    BY <1>2 DEF Frames
  <1>6. /\ n <= Top.v /\ \A p \in {1, 2} : Top.v < ValueOf(data, Top.parts[p].id)
        /\ Top.parts[2].id # 0
    BY <1>1, <1>4 DEF FrameOrdered
  <1>7. Top.v \in Vals
    <2> HIDE DEF n
    <2>1. QED
      BY <1>2, <1>5, <1>6, Numbers DEF Vals
  <1>8. /\ lo \in HandleSet /\ hi \in HandleSet /\ lo \in Handles \ {NoResult}
        /\ hi \in Handles \ {NoResult} /\ Top.kept \subseteq Handles \ {NoResult}
    BY <1>2, FrameTyped
  <1>9. lo.id \in Ids /\ hi.id \in Ids
    BY <1>8 DEF HandleSet
  <1>10. TopNode = Node(Top.v, lo.id, hi.id) /\ TopNode \in [v : 0 .. NVars, lo : Ids, hi : Ids]
    BY <1>5, <1>9 DEF TopNode, Wanted, Node
  <1>11. ASSUME NEW h \in {lo, hi}
         PROVE  IsTerminal(h.id) \/ (h.id \in published /\ Top.v < data[h.id].v)
    <2>1. h.id \in HeldIds \/ IsTerminal(h.id)
      BY <1>1, <1>8, HeldAre
    <2>2. Top.v < ValueOf(data, h.id)
      BY <1>6
    <2>3. QED
      BY <1>1, <2>1, <2>2, HeldAre DEF ValueOf
  <1>12. ASSUME Top.key # NoKey
         PROVE  /\ Top.key \in Ids \X Ids
                /\ \E j \in {Top.key[1], Top.key[2]} \cap HeldIds : data[j].v = Top.v
    <2>1. PICK h \in Top.kept : /\ h.id \in {Top.key[1], Top.key[2]} \cap Indices
                                /\ data[h.id].v = Top.v
      BY <1>4, <1>12 DEF FrameOrdered
    <2>2. h.id \in HeldIds
      BY <1>8, <2>1 DEF HeldIds
    <2>3. QED
      BY <1>5, <1>12, <2>1, <2>2
  <1>13. \A v : Over(data, v, Top) => v < Top.v
    BY <1>1 DEF Over
  <1>14. ASSUME trusted
         PROVE  /\ Top.expected = FamilyIn(data, lo.id) \cup Above(Top.v, FamilyIn(data, hi.id))
                /\ Top.key # NoKey /\ (older < n \/ KeyHeld(Top))
                     => KeyTrue(data, published, Top)
    <2>1. MInv
      BY <1>14 DEF UInv
    <2>2. FamilyIn(data, lo.id) = lo.fam /\ FamilyIn(data, hi.id) = hi.fam
      BY <1>8, <2>1 DEF MInv, HandlesSpell
    <2>3. Means(Top, IF n < Len(stack) THEN stack[n + 1].expected ELSE {})
      BY <1>2, <1>3, <2>1 DEF MInv, StackMeans
    <2>4. Top.expected = lo.fam \cup Above(Top.v, hi.fam)
      BY <1>1, <2>3 DEF Means
    <2>5. Top.key # NoKey /\ (older < n \/ KeyHeld(Top)) => KeyTrue(data, published, Top)
      BY <1>2, <1>3, <2>1 DEF MInv, KeysTrue
    <2>6. QED
      BY <2>2, <2>4, <2>5
  <1>15. QED
    BY <1>1, <1>2, <1>5, <1>6, <1>7, <1>9, <1>10, <1>11, <1>12, <1>13, <1>14

\* The entries of the cache c that a step leaves before it stores its own.
EntriesFit(c, nodes, P) ==
  /\ DOMAIN c \subseteq Ids \X Ids
  /\ \A k \in DOMAIN c :
       /\ c[k] \in Ids /\ c[k] \in P
       /\ \E j \in {k[1], k[2]} \cap P : nodes[j].v <= nodes[c[k]].v

EntriesTrue(c, nodes, P, S) ==
  \A k \in DOMAIN c \ S :
    /\ k[1] \in {0, 1} \cup P /\ k[2] \in {0, 1} \cup P
    /\ FamilyIn(nodes, c[k]) = FamilyIn(nodes, k[1]) \cup FamilyIn(nodes, k[2])

\* put_into_cache of node i under the key of the innermost call.
LEMMA StoreFits ==
  ASSUME NEW c, NEW nodes \in Nodes, NEW P \in SUBSET Indices, EntriesFit(c, nodes, P),
         NEW i \in P, NEW key,
         key # NoKey => /\ key \in Ids \X Ids
                        /\ \E j \in {key[1], key[2]} \cap P : nodes[j].v <= nodes[i].v
  PROVE  EntriesFit(Memoise(c, key, i), nodes, P)
  <1>1. CASE key = NoKey
    BY <1>1 DEF Memoise
  <1>2. CASE key # NoKey
    <2> DEFINE m == [k \in DOMAIN c \cup {key} |-> IF k = key THEN i ELSE c[k]]
    <2>1. Memoise(c, key, i) = m
      BY <1>2 DEF Memoise
    <2>2. /\ DOMAIN m = DOMAIN c \cup {key} /\ m[key] = i
          /\ \A k \in DOMAIN c : k # key => m[k] = c[k]
      OBVIOUS
    <2> HIDE DEF m
    <2>3. DOMAIN m \subseteq Ids \X Ids
      BY <1>2, <2>2 DEF EntriesFit
    <2>4. ASSUME NEW k \in DOMAIN m
          PROVE  /\ m[k] \in Ids /\ m[k] \in P
                 /\ \E j \in {k[1], k[2]} \cap P : nodes[j].v <= nodes[m[k]].v
      <3>1. CASE k = key
        BY <1>2, <2>2, <3>1, Numbers
      <3>2. CASE k # key
        <4>1. k \in DOMAIN c /\ m[k] = c[k]
          BY <2>2, <3>2
        <4>2. QED
          BY <4>1 DEF EntriesFit
      <3>3. QED
        BY <3>1, <3>2
    <2>5. QED
      BY <2>1, <2>3, <2>4 DEF EntriesFit
  <1>3. QED
    BY <1>1, <1>2

LEMMA StoreTrue ==
  ASSUME NEW c, NEW nodes, NEW P, NEW S, NEW i, NEW f,
         EntriesTrue(c, nodes, P, S \cup {f.key}),
         f.key # NoKey /\ f.key \notin S =>
           KeyTrue(nodes, P, f) /\ FamilyIn(nodes, i) = f.expected,
         f.key = NoKey => NoKey \notin DOMAIN c
  PROVE  EntriesTrue(Memoise(c, f.key, i), nodes, P, S)
  <1>1. CASE f.key = NoKey
    BY <1>1 DEF Memoise, EntriesTrue
  <1>2. CASE f.key # NoKey
    <2> DEFINE key == f.key
               m == [k \in DOMAIN c \cup {key} |-> IF k = key THEN i ELSE c[k]]
    <2>1. Memoise(c, key, i) = m
      BY <1>2 DEF Memoise
    <2>2. /\ DOMAIN m = DOMAIN c \cup {key} /\ m[key] = i
          /\ \A k \in DOMAIN c : k # key => m[k] = c[k]
      OBVIOUS
    <2> HIDE DEF m
    <2>3. ASSUME NEW k \in DOMAIN m \ S
          PROVE  /\ k[1] \in {0, 1} \cup P /\ k[2] \in {0, 1} \cup P
                 /\ FamilyIn(nodes, m[k]) = FamilyIn(nodes, k[1]) \cup FamilyIn(nodes, k[2])
      <3>1. CASE k = key
        BY <1>2, <2>2, <2>3, <3>1 DEF KeyTrue
      <3>2. CASE k # key
        <4>1. k \in DOMAIN c \ (S \cup {f.key}) /\ m[k] = c[k]
          BY <2>2, <2>3, <3>2
        <4>2. QED
          BY <4>1 DEF EntriesTrue
      <3>3. QED
        BY <3>1, <3>2
    <2>4. QED
      BY <2>1, <2>3 DEF EntriesTrue
  <1>3. QED
    BY <1>1, <1>2

LEMMA NoKeyIsNone ==
  NoKey \notin Ids \X Ids
  <1>1. ASSUME NEW a, NEW b PROVE <<a, b>> # <<>>
    <2>1. Len(<<a, b>>) = 2 /\ Len(<<>>) = 0
      OBVIOUS
    <2>2. QED
      BY <2>1
  <1>2. QED
    BY <1>1 DEF NoKey

\* What has to hold of a step that answers with the node i it built and
\* stores it in what it leaves of the cache.
LEMMA BuildInv ==
  ASSUME UInv, Building, NEW i, NEW c, Answer(Handle(i, Top.expected)), regs' = regs,
         data' \in Nodes, published' \subseteq Indices, Ordered(data', published'),
         \A j \in HeldIds : /\ j \in published' /\ data'[j] = data[j]
                            /\ FamilyIn(data', j) = FamilyIn(data, j),
         i \in published', data'[i].v = Top.v,
         trusted => FamilyIn(data', i) = Top.expected,
         cache' = Memoise(c, Top.key, i), EntriesFit(c, data', published'),
         older' \in Nat, trusted' = trusted,
         trusted => /\ EntriesTrue(c, data', published', suspect' \cup {Top.key})
                    /\ Top.key # NoKey /\ Top.key \notin suspect'
                         => KeyTrue(data', published', Top)
                    /\ \A k \in 1 .. Len(stack) - 1 :
                         stack[k].key # NoKey /\ (older' < k \/ KeyHeld(stack[k]))
                           => KeyTrue(data', published', stack[k])
  PROVE  UInv'
  <1> DEFINE h == Handle(i, Top.expected)
  <1>1. /\ SInv /\ Types /\ stack # <<>> /\ Top.expected \in Families /\ Top.v \in Vals
        /\ Top.key # NoKey =>
             /\ Top.key \in Ids \X Ids
             /\ \E j \in {Top.key[1], Top.key[2]} \cap HeldIds : data[j].v = Top.v
        /\ \A v : Over(data, v, Top) => v < Top.v
    BY BuildArgs
  <1>2. i \in Indices /\ i \in Ids /\ i # 0 /\ ~IsTerminal(i)
    BY Numbers
  <1>3. h \in HandleSet /\ h.id = i /\ h.fam = Top.expected
    BY <1>1, <1>2, HandleIs, HandleTyped
  <1>4. ValueOf(data', i) = Top.v
    BY <1>2 DEF ValueOf
  <1>5. Top.key # NoKey =>
          /\ Top.key \in Ids \X Ids
          /\ \E j \in {Top.key[1], Top.key[2]} \cap published' : data'[j].v <= data'[i].v
    <2> SUFFICES ASSUME Top.key # NoKey
                 PROVE  /\ Top.key \in Ids \X Ids
                        /\ \E j \in {Top.key[1], Top.key[2]} \cap published' :
                              data'[j].v <= data'[i].v
      OBVIOUS
    <2>1. PICK j \in {Top.key[1], Top.key[2]} \cap HeldIds : data[j].v = Top.v
      BY <1>1
    <2>2. j \in published' /\ data'[j].v = Top.v
      BY <2>1
    <2>3. data'[j].v <= data'[i].v
      BY <1>1, <2>2 DEF Vals
    <2>4. QED
      BY <1>1, <2>2, <2>3
  <1>6. EntriesFit(cache', data', published')
    <2> DEFINE d == data'
               P == published'
               key == Top.key
    <2>1. d \in Nodes /\ P \in SUBSET Indices /\ EntriesFit(c, d, P) /\ i \in P
      OBVIOUS
    <2>2. key # NoKey => /\ key \in Ids \X Ids
                         /\ \E j \in {key[1], key[2]} \cap P : d[j].v <= d[i].v
      BY <1>5
    <2> HIDE DEF d, P, key
    <2>3. EntriesFit(Memoise(c, key, i), d, P)
      BY <2>1, <2>2, StoreFits
    <2>4. QED
      BY <2>3 DEF d, P, key
  <1>7. /\ DOMAIN cache' \subseteq Ids \X Ids /\ \A k \in DOMAIN cache' : cache'[k] \in Ids
        /\ CacheOrdered'
    BY <1>6 DEF EntriesFit, CacheOrdered
  <1>8. ASSUME trusted PROVE CacheTrue'
    <2> DEFINE d == data'
               P == published'
               S == suspect'
               f == Top
    <2>1. /\ EntriesTrue(c, d, P, S \cup {f.key})
          /\ f.key # NoKey /\ f.key \notin S =>
               KeyTrue(d, P, f) /\ FamilyIn(d, i) = f.expected
          /\ f.key = NoKey => NoKey \notin DOMAIN c
      BY <1>8, NoKeyIsNone DEF EntriesFit
    <2> HIDE DEF d, P, S, f
    <2>2. EntriesTrue(Memoise(c, f.key, i), d, P, S)
      BY <2>1, StoreTrue
    <2>3. EntriesTrue(cache', data', published', suspect')
      BY <2>2 DEF d, P, S, f
    <2>4. QED
      BY <2>3 DEF EntriesTrue, CacheTrue, Live, Family
  <1>9. /\ IsTerminal(h.id) \/ h.id \in published'
        /\ \A v \in 0 .. NVars : Over(data, v, Top) => v < ValueOf(data', h.id)
        /\ NonZero(Top) => h.id # 0
    BY <1>1, <1>2, <1>3, <1>4
  <1>10. trusted' \in BOOLEAN
    BY <1>1 DEF Types
  <1>11. FamilyIn(data', h.id) = FamilyIn(data', i)
    BY <1>3
  <1>12. trusted' => /\ trusted
                     /\ h.fam = Top.expected /\ FamilyIn(data', h.id) = h.fam
                     /\ CacheTrue'
                     /\ \A k \in 1 .. Len(stack) - 1 :
                          stack[k].key # NoKey /\ (older' < k \/ KeyHeld(stack[k]))
                            => KeyTrue(data', published', stack[k])
    BY <1>3, <1>8, <1>11
  <1>13. Answer(h)
    OBVIOUS
  <1> HIDE DEF h
  <1>14. QED
    BY <1>1, <1>3, <1>7, <1>9, <1>10, <1>12, <1>13, AnswerInv

\* The cache as it is, in a table that keeps its nodes.
LEMMA EntriesStay ==
  ASSUME UInv, NEW d, NEW P, published \subseteq P,
         \A j \in published : d[j] = data[j],
         \A j \in published \cup {0, 1} : FamilyIn(d, j) = FamilyIn(data, j)
  PROVE  /\ EntriesFit(cache, d, P)
         /\ trusted => EntriesTrue(cache, d, P, suspect)
         /\ \A f : KeyTrue(data, published, f) => KeyTrue(d, P, f)
  <1>1. Types /\ CacheOrdered
    BY DEF UInv, SInv
  <1>2. ASSUME NEW k \in DOMAIN cache
        PROVE  /\ cache[k] \in Ids /\ cache[k] \in P
               /\ \E j \in {k[1], k[2]} \cap P : d[j].v <= d[cache[k]].v
    <2>1. cache[k] \in Ids /\ cache[k] \in published
      BY <1>1 DEF Types, CacheOrdered
    <2>2. PICK j \in {k[1], k[2]} \cap published : data[j].v <= data[cache[k]].v
      BY <1>1 DEF CacheOrdered
    <2>3. d[j].v <= d[cache[k]].v
      BY <2>1, <2>2
    <2>4. QED
      BY <2>1, <2>2, <2>3
  <1>3. EntriesFit(cache, d, P)
    BY <1>1, <1>2 DEF EntriesFit, Types
  <1>4. ASSUME trusted, NEW k \in DOMAIN cache \ suspect
        PROVE  /\ k[1] \in {0, 1} \cup P /\ k[2] \in {0, 1} \cup P
               /\ FamilyIn(d, cache[k]) = FamilyIn(d, k[1]) \cup FamilyIn(d, k[2])
    <2>1. /\ k[1] \in {0, 1} \cup published /\ k[2] \in {0, 1} \cup published
          /\ FamilyIn(data, cache[k]) = FamilyIn(data, k[1]) \cup FamilyIn(data, k[2])
      BY <1>4 DEF UInv, MInv, CacheTrue, Live, Family
    <2>2. cache[k] \in published
      BY <1>1 DEF CacheOrdered
    <2>3. QED
      BY <2>1, <2>2
  <1>5. \A f : KeyTrue(data, published, f) => KeyTrue(d, P, f)
    BY DEF KeyTrue
  <1>6. QED
    BY <1>3, <1>4, <1>5 DEF EntriesTrue

\* put_into_cache in a table that keeps its nodes.
LEMMA StoreInv ==
  ASSUME UInv, Building, NEW i, Answer(Handle(i, Top.expected)), Store(cache, i),
         regs' = regs, data' \in Nodes, published' \subseteq Indices,
         Ordered(data', published'), published \subseteq published',
         \A j \in published : data'[j] = data[j],
         \A j \in published \cup {0, 1} : FamilyIn(data', j) = FamilyIn(data, j),
         i \in published', data'[i].v = Top.v,
         trusted => FamilyIn(data', i) = Top.expected
  PROVE  UInv'
  <1>1. /\ SInv /\ Types /\ stack # <<>>
        /\ trusted => (Top.key # NoKey /\ (older < Len(stack) \/ KeyHeld(Top))
                         => KeyTrue(data, published, Top))
    BY BuildArgs
  <1>2. \A j \in HeldIds : /\ j \in published' /\ data'[j] = data[j]
                           /\ FamilyIn(data', j) = FamilyIn(data, j)
    BY <1>1, HeldAre
  <1>3. /\ EntriesFit(cache, data', published')
        /\ trusted => EntriesTrue(cache, data', published', suspect)
        /\ \A f : KeyTrue(data, published, f) => KeyTrue(data', published', f)
    BY EntriesStay
  <1>4. /\ cache' = Memoise(cache, Top.key, i) /\ trusted' = trusted /\ AgeKept
        /\ suspect' = IF Len(stack) <= older /\ KeyUnheld
                      THEN suspect \cup {Top.key} ELSE suspect \ {Top.key}
    BY DEF Store
  <1>5. older' \in Nat /\ (older' = older \/ older' = Len(stack) - 1)
    BY <1>1, <1>4, AgeIs
  <1>6. Len(stack) \in Nat /\ older \in Nat
    BY <1>1, StackTop DEF Types
  <1>7. ASSUME trusted
        PROVE  /\ EntriesTrue(cache, data', published', suspect' \cup {Top.key})
               /\ Top.key # NoKey /\ Top.key \notin suspect' => KeyTrue(data', published', Top)
               /\ \A k \in 1 .. Len(stack) - 1 :
                    stack[k].key # NoKey /\ (older' < k \/ KeyHeld(stack[k]))
                      => KeyTrue(data', published', stack[k])
    <2>1. EntriesTrue(cache, data', published', suspect' \cup {Top.key})
      BY <1>3, <1>4, <1>7 DEF EntriesTrue
    <2>2. ASSUME Top.key # NoKey, Top.key \notin suspect'
          PROVE  KeyTrue(data', published', Top)
      <3>1. ~(Len(stack) <= older) \/ ~KeyUnheld
        BY <1>4, <2>2
      <3>2. older < Len(stack) \/ KeyHeld(Top)
        BY <1>6, <2>2, <3>1 DEF KeyUnheld, KeyHeld
      <3>3. QED
        BY <1>1, <1>3, <1>7, <2>2, <3>2
    <2>3. ASSUME NEW k \in 1 .. Len(stack) - 1, stack[k].key # NoKey,
                 older' < k \/ KeyHeld(stack[k])
          PROVE  KeyTrue(data', published', stack[k])
      <3>1. k \in 1 .. Len(stack) /\ (older' < k => older < k)
        BY <1>5, <1>6
      <3>2. KeyTrue(data, published, stack[k])
        BY <1>7, <2>3, <3>1 DEF UInv, MInv, KeysTrue
      <3>3. QED
        BY <1>3, <3>2
    <2>4. QED
      BY <2>1, <2>2, <2>3
  <1>8. QED
    BY <1>2, <1>3, <1>4, <1>5, <1>7, BuildInv

LEMMA BuildKnownInv ==
  ASSUME UInv, BuildKnown
  PROVE  UInv'
  <1>1. Building /\ data' = data /\ published' = published /\ regs' = regs
    BY DEF BuildKnown
  <1>2. PICK i \in Known(TopNode) : Answer(Handle(i, Top.expected)) /\ Store(cache, i)
    BY DEF BuildKnown
  <1>3. i \in published /\ data[i] = TopNode
    BY <1>2 DEF Known
  <1>4. /\ SInv /\ Types
        /\ TopNode = Node(Top.v, Top.parts[1].id, Top.parts[2].id)
        /\ trusted => Top.expected = FamilyIn(data, Top.parts[1].id)
                                       \cup Above(Top.v, FamilyIn(data, Top.parts[2].id))
    BY <1>1, BuildArgs
  <1>5. data \in Nodes /\ published \in SUBSET Indices /\ Ordered(data, published)
    BY <1>4 DEF SInv, Types
  <1>6. data[i].v = Top.v /\ data[i].lo = Top.parts[1].id /\ data[i].hi = Top.parts[2].id
    BY <1>3, <1>4 DEF Node
  <1>7. trusted => FamilyIn(data, i) = Top.expected
    BY <1>3, <1>4, <1>5, <1>6, FamilySpelt
  <1>8. QED
    BY <1>1, <1>2, <1>3, <1>5, <1>6, <1>7, StoreInv

\* The table with the node of the innermost call in the free bucket i.
Built(i) == [data EXCEPT ![i] = TopNode]

LEMMA BuiltIs ==
  ASSUME UInv, Building, NEW i \in Free
  PROVE  /\ i \in Indices \ published /\ Built(i) \in Nodes
         /\ published \cup {i} \in SUBSET Indices
         /\ Ordered(Built(i), published \cup {i})
         /\ \A j \in published : Built(i)[j] = data[j]
         /\ \A j \in published \cup {0, 1} : FamilyIn(Built(i), j) = FamilyIn(data, j)
         /\ Built(i)[i].v = Top.v
         /\ trusted => FamilyIn(Built(i), i) = Top.expected
  <1> DEFINE d  == Built(i)
             lo == Top.parts[1].id
             hi == Top.parts[2].id
  <1>1. i \in Indices \ published
    BY DEF Free
  <1>2. /\ SInv /\ Types /\ Top.v \in Vals /\ hi # 0
        /\ TopNode = Node(Top.v, lo, hi) /\ TopNode \in [v : 0 .. NVars, lo : Ids, hi : Ids]
        /\ \A c \in {lo, hi} : IsTerminal(c) \/ (c \in published /\ Top.v < data[c].v)
        /\ trusted => Top.expected = FamilyIn(data, lo) \cup Above(Top.v, FamilyIn(data, hi))
    BY BuildArgs
  <1>3. data \in Nodes /\ published \in SUBSET Indices /\ Ordered(data, published)
    BY <1>2 DEF SInv, Types
  <1>4. d \in Nodes /\ d[i] = TopNode /\ \A j \in published : d[j] = data[j]
    <2>1. \A t \in [v : 0 .. NVars, lo : Ids, hi : Ids] :
            /\ [data EXCEPT ![i] = t] \in Nodes /\ [data EXCEPT ![i] = t][i] = t
            /\ \A j \in published : [data EXCEPT ![i] = t][j] = data[j]
      BY <1>1, <1>3 DEF Nodes
    <2>2. QED
      BY <1>2, <2>1 DEF Built
  <1>5. d[i] = Node(Top.v, lo, hi)
    BY <1>2, <1>4
  <1> HIDE DEF d, lo, hi
  <1>6. /\ Ordered(d, published \cup {i})
        /\ \A j \in published \cup {0, 1} : FamilyIn(d, j) = FamilyIn(data, j)
        /\ FamilyIn(d, i) = FamilyIn(data, lo) \cup Above(Top.v, FamilyIn(data, hi))
    <2> DEFINE v == Top.v
    <2>1. v \in Vals /\ d[i] = Node(v, lo, hi)
          /\ \A c \in {lo, hi} : IsTerminal(c) \/ (c \in published /\ v < data[c].v)
      BY <1>2, <1>5
    <2> HIDE DEF v
    <2>2. /\ Ordered(d, published \cup {i})
          /\ \A j \in published \cup {0, 1} : FamilyIn(d, j) = FamilyIn(data, j)
          /\ FamilyIn(d, i) = FamilyIn(data, lo) \cup Above(v, FamilyIn(data, hi))
      BY <1>1, <1>2, <1>3, <1>4, <2>1, Inserted
    <2>3. QED
      BY <2>2 DEF v
  <1>7. d[i].v = Top.v
    BY <1>5 DEF Node
  <1>8. published \cup {i} \in SUBSET Indices
    BY <1>1, <1>3
  <1>9. trusted => FamilyIn(d, i) = Top.expected
    BY <1>2, <1>6
  <1>10. QED
    BY <1>1, <1>4, <1>6, <1>7, <1>8, <1>9 DEF d

LEMMA BuildNewInv ==
  ASSUME UInv, BuildNew
  PROVE  UInv'
  <1>1. Building /\ regs' = regs
    BY DEF BuildNew
  <1>2. PICK i \in Free : /\ data' = Built(i) /\ published' = published \cup {i}
                          /\ Answer(Handle(i, Top.expected)) /\ Store(cache, i)
    BY DEF BuildNew, Built
  <1>3. /\ i \in Indices \ published /\ data' \in Nodes
        /\ published' \in SUBSET Indices
        /\ Ordered(data', published')
        /\ \A j \in published : data'[j] = data[j]
        /\ \A j \in published \cup {0, 1} : FamilyIn(data', j) = FamilyIn(data, j)
        /\ data'[i].v = Top.v
        /\ trusted => FamilyIn(data', i) = Top.expected
    BY <1>1, <1>2, BuiltIs
  <1>4. published' \subseteq Indices /\ published \subseteq published' /\ i \in published'
    BY <1>2, <1>3
  <1>5. QED
    BY <1>1, <1>2, <1>3, <1>4, StoreInv

\* The nodes of a key that its frame holds survive a collection.
LEMMA HeldKeys ==
  ASSUME UInv, NEW k \in 1 .. Len(stack), stack[k].key # NoKey, KeyHeld(stack[k])
  PROVE  {stack[k].key[1], stack[k].key[2]} \subseteq HeldIds \cup {0, 1}
  <1>1. SInv /\ Types /\ stack[k] \in Frames
    BY HandlesAre DEF UInv, SInv
  <1>2. stack[k].kept \subseteq Handles \ {NoResult}
    BY <1>1, HandlesAre, FrameTyped, HandleTyped
  <1>3. \A h \in stack[k].kept : h.id \in HeldIds \cup {0, 1}
    BY <1>1, <1>2, HeldAre DEF IsTerminal
  <1>4. QED
    BY <1>3 DEF KeyHeld

LEMMA BuildNewAndCollectInv ==
  ASSUME UInv, BuildNewAndCollect
  PROVE  UInv'
  <1>1. Building /\ regs' = regs
    BY DEF BuildNewAndCollect
  <1>2. PICK i \in Free :
          /\ published' = Reach(Built(i), Ids2Live(Handles \cup {Handle(i, Top.expected)}))
          /\ data' = Emptied(Built(i), published')
          /\ Answer(Handle(i, Top.expected)) /\ StoreAfterGc(NoCache, i)
    BY DEF BuildNewAndCollect, Built
  <1> DEFINE d     == Built(i)
             P     == published \cup {i}
             roots == HeldIds \cup {i}
             kept  == Reach(d, roots)
  <1>3. /\ i \in Indices \ published /\ d \in Nodes /\ P \in SUBSET Indices
        /\ Ordered(d, P)
        /\ \A j \in published : d[j] = data[j]
        /\ \A j \in published \cup {0, 1} : FamilyIn(d, j) = FamilyIn(data, j)
        /\ d[i].v = Top.v
        /\ trusted => FamilyIn(d, i) = Top.expected
    BY <1>1, <1>2, BuiltIs
  <1>4. /\ SInv /\ Types /\ stack # <<>>
        /\ trusted => (Top.key # NoKey /\ (older < Len(stack) \/ KeyHeld(Top))
                         => KeyTrue(data, published, Top))
    BY <1>1, BuildArgs
  <1>5. HeldIds \subseteq published /\ Ids2Live(Handles) = HeldIds
    BY <1>4, HeldAre
  <1>6. Ids2Live(Handles \cup {Handle(i, Top.expected)}) = roots
    <2>1. Handle(i, Top.expected).id = i
      BY HandleIs
    <2>2. i \notin {0, 1, Capacity}
      BY <1>3, Numbers DEF Indices
    <2>3. Ids2Live(Handles \cup {Handle(i, Top.expected)})
            = Ids2Live(Handles) \cup {i}
      BY <2>1, <2>2 DEF Ids2Live
    <2>4. QED
      BY <1>5, <2>3
  <1>7. roots \in SUBSET P
    BY <1>5
  <1>8. published' = kept /\ data' = Emptied(d, kept)
    BY <1>2, <1>6
  <1> HIDE DEF d, P, roots
  <1>9. /\ roots \subseteq kept /\ kept \subseteq P
        /\ \A j \in kept : data'[j] = d[j]
        /\ Ordered(data', kept)
        /\ \A j \in kept \cup {0, 1} : FamilyIn(data', j) = FamilyIn(d, j)
    BY <1>3, <1>7, <1>8, Collected
  <1> HIDE DEF kept
  <1>10. data' \in Nodes
    <2>1. NoNode \in [v : 0 .. NVars, lo : Ids, hi : Ids]
      BY Numbers DEF NoNode, Node
    <2>2. QED
      BY <1>3, <1>8, <2>1 DEF Nodes, Emptied
  <1>11. published' \subseteq Indices
    BY <1>3, <1>8, <1>9
  <1>12. \A j \in HeldIds : /\ j \in published' /\ data'[j] = data[j]
                            /\ FamilyIn(data', j) = FamilyIn(data, j)
    BY <1>3, <1>5, <1>8, <1>9 DEF roots
  <1>13. /\ i \in published' /\ data'[i].v = Top.v
         /\ trusted => FamilyIn(data', i) = Top.expected
    BY <1>3, <1>8, <1>9 DEF roots
  <1>14. /\ cache' = Memoise(NoCache, Top.key, i) /\ trusted' = trusted
         /\ older' = IF trusted THEN Len(Below) ELSE 0
         /\ suspect' = IF trusted /\ KeyUnheld THEN {Top.key} ELSE {}
    BY <1>2 DEF StoreAfterGc
  <1>15. /\ EntriesFit(NoCache, data', published')
         /\ \A S : EntriesTrue(NoCache, data', published', S)
    BY DEF NoCache, EntriesFit, EntriesTrue
  <1>16. /\ Len(stack) \in Nat /\ Len(stack) >= 1 /\ Len(Below) = Len(stack) - 1
         /\ Top = stack[Len(stack)]
    BY <1>4, StackTop
  <1>17. older' \in Nat
    BY <1>14, <1>16
  <1>18. ASSUME NEW k \in 1 .. Len(stack), stack[k].key # NoKey, KeyHeld(stack[k]),
                KeyTrue(data, published, stack[k])
         PROVE  KeyTrue(data', published', stack[k])
    <2>1. {stack[k].key[1], stack[k].key[2]} \subseteq HeldIds \cup {0, 1}
      BY <1>18, HeldKeys
    <2>2. \A j \in HeldIds \cup {0, 1} : FamilyIn(data', j) = FamilyIn(data, j)
      BY <1>3, <1>9, <1>12
    <2>3. QED
      BY <1>12, <1>18, <2>1, <2>2 DEF KeyTrue
  <1>19. ASSUME trusted
         PROVE  /\ EntriesTrue(NoCache, data', published', suspect' \cup {Top.key})
                /\ Top.key # NoKey /\ Top.key \notin suspect' => KeyTrue(data', published', Top)
                /\ \A k \in 1 .. Len(stack) - 1 :
                     stack[k].key # NoKey /\ (older' < k \/ KeyHeld(stack[k]))
                       => KeyTrue(data', published', stack[k])
    <2>1. EntriesTrue(NoCache, data', published', suspect' \cup {Top.key})
      BY <1>15
    <2>2. ASSUME Top.key # NoKey, Top.key \notin suspect'
          PROVE  KeyTrue(data', published', Top)
      <3>1. KeyHeld(Top)
        BY <1>14, <1>19, <2>2 DEF KeyUnheld, KeyHeld
      <3>2. KeyTrue(data, published, Top)
        BY <1>4, <1>19, <2>2, <3>1
      <3>3. Len(stack) \in 1 .. Len(stack)
        BY <1>16
      <3>4. QED
        BY <1>16, <1>18, <2>2, <3>1, <3>2, <3>3
    <2>3. ASSUME NEW k \in 1 .. Len(stack) - 1, stack[k].key # NoKey,
                 older' < k \/ KeyHeld(stack[k])
          PROVE  KeyTrue(data', published', stack[k])
      <3>1. k \in 1 .. Len(stack) /\ ~(older' < k)
        BY <1>14, <1>16, <1>19
      <3>2. KeyHeld(stack[k])
        BY <2>3, <3>1
      <3>3. KeyTrue(data, published, stack[k])
        BY <1>19, <2>3, <3>1, <3>2 DEF UInv, MInv, KeysTrue
      <3>4. QED
        BY <1>18, <2>3, <3>1, <3>2, <3>3
    <2>4. QED
      BY <2>1, <2>2, <2>3
  <1>20. Ordered(data', published') /\ EntriesFit(NoCache, data', published')
    BY <1>8, <1>9, <1>15
  <1>21. QED
    BY <1>1, <1>2, <1>10, <1>11, <1>12, <1>13, <1>14, <1>17, <1>19, <1>20, BuildInv

-----------------------------------------------------------------------------
(***************************************************************************)
(* The steps of the program                                                *)
(***************************************************************************)
\* h is live and, if that is so far, spelled.
Good(h, nodes, P, t) ==
  h # NoResult => /\ IsTerminal(h.id) \/ h.id \in P
                  /\ t => FamilyIn(nodes, h.id) = h.fam

LEMMA GoodStays ==
  ASSUME UInv, NEW d, NEW P,
         \A j \in HeldIds : j \in P /\ FamilyIn(d, j) = FamilyIn(data, j)
  PROVE  \A h \in Handles : Good(h, d, P, trusted)
  <1>1. ASSUME NEW h \in Handles, h # NoResult
        PROVE  /\ IsTerminal(h.id) \/ h.id \in P
               /\ trusted => FamilyIn(d, h.id) = h.fam
    <2>1. IsTerminal(h.id) \/ h.id \in HeldIds
      BY <1>1, HeldAre DEF UInv
    <2>2. trusted => FamilyIn(data, h.id) = h.fam
      BY <1>1 DEF UInv, MInv, HandlesSpell
    <2>3. IsTerminal(h.id) => FamilyIn(d, h.id) = FamilyIn(data, h.id)
      BY FamilyTerminals DEF IsTerminal
    <2>4. QED
      BY <2>1, <2>2, <2>3
  <1>2. QED
    BY <1>1 DEF Good

LEMMA GoodZero ==
  \A d, P, t : Good(Zero, d, P, t) /\ Good(One, d, P, t) /\ Good(NoResult, d, P, t)
  BY HandleTyped, FamilyTerminals DEF Good, IsTerminal

\* What has to hold of a step that leaves no call in progress.
LEMMA ProgramInv ==
  ASSUME UInv, stack' = <<>>, data' \in Nodes, published' \subseteq Indices,
         Ordered(data', published'), regs' \in [Regs -> HandleSet],
         result' \in HandleSet \cup {NoResult},
         \A r \in Regs : Good(regs'[r], data', published', trusted),
         Good(result', data', published', trusted),
         EntriesFit(cache', data', published'), older' \in Nat, trusted' = trusted,
         trusted => EntriesTrue(cache', data', published', suspect')
  PROVE  UInv'
  <1>1. stack' \in Seq(Frames) /\ Len(stack') = 0
    OBVIOUS
  <1>2. /\ DOMAIN cache' \subseteq Ids \X Ids /\ \A k \in DOMAIN cache' : cache'[k] \in Ids
        /\ CacheOrdered'
    BY DEF EntriesFit, CacheOrdered
  <1>3. trusted' \in BOOLEAN
    BY DEF UInv, SInv, Types
  <1>4. Types'
    BY <1>1, <1>2, <1>3 DEF Types
  <1> DEFINE S == {regs'[r] : r \in Regs} \cup {result'}
  <1>5. Handles' \subseteq S
    <2>1. /\ \A r \in Regs : regs'[r] \in S
          /\ result' \in S
          /\ \A k \in 1 .. Len(stack') : FrameHandles(stack'[k]) \subseteq S
      BY <1>1
    <2> HIDE DEF S
    <2>2. QED
      BY <1>1, <2>1, NextHandles
  <1>6. \A g \in Handles' : Good(g, data', published', trusted)
    BY <1>5
  <1>7. HeldLive'
    BY <1>6 DEF HeldLive, Live, Good, IsTerminal, NoResult
  <1>8. StackOrdered(data', stack')
    BY <1>1 DEF StackOrdered
  <1>9. SInv'
    BY <1>2, <1>4, <1>7, <1>8 DEF SInv
  <1>10. ASSUME trusted' PROVE MInv'
    <2>1. HandlesSpell(Handles', data')
      BY <1>6, <1>10 DEF HandlesSpell, Good
    <2>2. CacheTrue'
      BY <1>10 DEF EntriesTrue, CacheTrue, Live, Family
    <2>3. StackMeans(stack') /\ KeysTrue(data', published', stack', older')
      BY <1>1 DEF StackMeans, KeysTrue
    <2>4. QED
      BY <2>1, <2>2, <2>3 DEF MInv
  <1>11. QED
    BY <1>9, <1>10 DEF UInv

\* A step that only moves handles.
LEMMA MovesInv ==
  ASSUME UInv, stack' = <<>>, data' = data, published' = published, cache' = cache,
         regs' \in [Regs -> HandleSet], result' \in HandleSet \cup {NoResult},
         \A r \in Regs : regs'[r] \in Handles \cup {Zero},
         result' \in Handles \cup {NoResult},
         older' \in Nat, suspect' = suspect, trusted' = trusted
  PROVE  UInv'
  <1>1. SInv /\ Types
    BY DEF UInv, SInv
  <1>2. \A h \in Handles \cup {Zero, NoResult} : Good(h, data, published, trusted)
    BY <1>1, HeldAre, GoodStays, GoodZero
  <1>3. EntriesFit(cache, data, published) /\ (trusted => EntriesTrue(cache, data, published, suspect))
    BY EntriesStay
  <1>4. data \in Nodes /\ published \subseteq Indices /\ Ordered(data, published)
    BY <1>1 DEF SInv, Types
  <1>5. QED
    BY <1>2, <1>3, <1>4, ProgramInv

LEMMA BuildPanicsInv ==
  ASSUME UInv, BuildPanics
  PROVE  UInv'
  <1>1. /\ stack' = <<>> /\ older' = 0 /\ data' = data /\ published' = published
        /\ cache' = cache /\ regs' = regs /\ result' = result
        /\ suspect' = suspect /\ trusted' = trusted
    BY DEF BuildPanics
  <1>2. Types
    BY DEF UInv, SInv
  <1>3. /\ regs \in [Regs -> HandleSet] /\ result \in HandleSet \cup {NoResult}
        /\ \A r \in Regs : regs[r] \in Handles
        /\ result \in Handles
    BY <1>2, HandlesAre DEF Types
  <1>4. QED
    BY <1>1, <1>3, MovesInv

LEMMA CloneHandleInv ==
  ASSUME UInv, NEW r \in Regs, NEW q \in Regs, CloneHandle(r, q)
  PROVE  UInv'
  <1>1. /\ stack' = <<>> /\ older' = older /\ data' = data /\ published' = published
        /\ cache' = cache /\ regs' = [regs EXCEPT ![q] = regs[r]] /\ result' = result
        /\ suspect' = suspect /\ trusted' = trusted
    BY DEF CloneHandle, Idle, doubts
  <1>2. Types
    BY DEF UInv, SInv
  <1>3. /\ regs' \in [Regs -> HandleSet] /\ result \in HandleSet \cup {NoResult}
        /\ \A p \in Regs : regs'[p] \in Handles
        /\ result \in Handles /\ older \in Nat
    BY <1>1, <1>2, HandlesAre DEF Types
  <1>4. QED
    BY <1>1, <1>3, MovesInv

LEMMA DropHandleInv ==
  ASSUME UInv, NEW r \in Regs, DropHandle(r)
  PROVE  UInv'
  <1>1. /\ stack' = <<>> /\ older' = older /\ data' = data /\ published' = published
        /\ cache' = cache /\ regs' = [regs EXCEPT ![r] = Zero] /\ result' = result
        /\ suspect' = suspect /\ trusted' = trusted
    BY DEF DropHandle, Idle, doubts
  <1>2. Types
    BY DEF UInv, SInv
  <1>3. /\ regs' \in [Regs -> HandleSet] /\ result \in HandleSet \cup {NoResult}
        /\ \A p \in Regs : regs'[p] \in Handles \cup {Zero}
        /\ result \in Handles /\ older \in Nat
    BY <1>1, <1>2, HandlesAre, HandleTyped DEF Types
  <1>4. QED
    BY <1>1, <1>3, MovesInv

LEMMA KeepResultInv ==
  ASSUME UInv, NEW r \in Regs, KeepResult(r)
  PROVE  UInv'
  <1>1. /\ stack' = <<>> /\ older' = older /\ data' = data /\ published' = published
        /\ cache' = cache /\ regs' = [regs EXCEPT ![r] = result] /\ result' = NoResult
        /\ suspect' = suspect /\ trusted' = trusted /\ result # NoResult
    BY DEF KeepResult, doubts
  <1>2. Types
    BY DEF UInv, SInv
  <1>3. /\ regs' \in [Regs -> HandleSet]
        /\ \A p \in Regs : regs'[p] \in Handles
        /\ older \in Nat
    BY <1>1, <1>2, HandlesAre DEF Types
  <1>4. QED
    BY <1>1, <1>3, MovesInv

LEMMA CallUnionInv ==
  ASSUME UInv, NEW r \in Regs, NEW q \in Regs, CallUnion(r, q)
  PROVE  UInv'
  <1> DEFINE a == regs[r]
             b == regs[q]
             c == Call(a, b)
             S == Handles \cup {Zero}
  <1>1. /\ stack' = <<c>> /\ older' = older /\ data' = data /\ published' = published
        /\ cache' = cache /\ regs' = [regs EXCEPT ![r] = Zero, ![q] = Zero]
        /\ result' = result /\ result = NoResult
        /\ suspect' = suspect /\ trusted' = trusted
    BY DEF CallUnion, Idle, doubts
  <1>2. SInv /\ Types
    BY DEF UInv, SInv
  <1>3. /\ a \in HandleSet /\ b \in HandleSet /\ a \in Handles /\ b \in Handles
        /\ result \in Handles /\ \A p \in Regs : regs[p] \in Handles
    BY <1>2, HandlesAre
  <1>4. /\ c \in Frames /\ c.todo = "call" /\ c.parts[1] = a /\ c.parts[2] = b
        /\ c.key = NoKey /\ c.expected = a.fam \cup b.fam /\ FrameHandles(c) = {a, b}
    BY <1>3, CallTyped
  <1> HIDE DEF c
  <1>5. stack' \in Seq(Frames) /\ Len(stack') = 1 /\ stack'[1] = c
    BY <1>1, <1>4
  <1>6. /\ regs' \in [Regs -> HandleSet]
        /\ \A p \in Regs : regs'[p] \in S
    BY <1>1, <1>2, <1>3, HandleTyped DEF Types
  <1>7. Types'
    BY <1>1, <1>2, <1>5, <1>6 DEF Types
  <1>8. Handles' \subseteq S
    <2>1. result' \in S /\ \A k \in 1 .. Len(stack') : FrameHandles(stack'[k]) \subseteq S
      BY <1>1, <1>3, <1>4, <1>5
    <2> HIDE DEF S
    <2>2. QED
      BY <1>5, <1>6, <2>1, NextHandles
  <1>9. \A h \in S : Good(h, data, published, trusted)
    BY <1>2, HeldAre, GoodStays, GoodZero
  <1> HIDE DEF S
  <1>10. \A h \in Handles' : Good(h, data, published, trusted)
    BY <1>8, <1>9
  <1>11. HeldLive'
    BY <1>1, <1>10 DEF HeldLive, Live, Good, IsTerminal, NoResult
  <1>12. StackOrdered(data, stack')
    <2>1. FrameOrdered(data, c, 1) /\ FrameWaits(data, stack', 1)
      BY <1>4, <1>5 DEF FrameOrdered, FrameWaits
    <2>2. QED
      BY <1>5, <2>1 DEF StackOrdered
  <1>13. SInv'
    BY <1>1, <1>2, <1>7, <1>11, <1>12 DEF SInv, CacheOrdered
  <1>14. ASSUME trusted' PROVE MInv'
    <2>1. trusted /\ MInv
      BY <1>1, <1>14 DEF UInv
    <2>2. HandlesSpell(Handles', data')
      BY <1>1, <1>10, <2>1 DEF HandlesSpell, Good
    <2>3. CacheTrue'
      BY <1>1, <2>1 DEF MInv, CacheTrue, Live, Family
    <2>4. StackMeans(stack')
      <3>1. \A x : Means(c, x)
        BY <1>4 DEF Means
      <3>2. QED
        BY <1>5, <3>1 DEF StackMeans
    <2>5. KeysTrue(data', published', stack', older')
      BY <1>4, <1>5 DEF KeysTrue
    <2>6. QED
      BY <2>2, <2>3, <2>4, <2>5 DEF MInv
  <1>15. QED
    BY <1>13, <1>14 DEF UInv

LEMMA CallGcInv ==
  ASSUME UInv, CallGc
  PROVE  UInv'
  <1>1. /\ stack' = <<>> /\ result' = NoResult /\ regs' = regs /\ trusted' = trusted
        /\ older' = older /\ cache' = NoCache
        /\ published' = Reach(data, Ids2Live(Handles))
        /\ data' = Emptied(data, published')
    BY DEF CallGc, Collect, Idle
  <1>2. SInv /\ Types /\ data \in Nodes /\ published \in SUBSET Indices
        /\ Ordered(data, published)
    BY DEF UInv, SInv, Types
  <1>3. Ids2Live(Handles) = HeldIds /\ HeldIds \in SUBSET published
    BY <1>2, HeldAre
  <1> DEFINE kept == Reach(data, HeldIds)
  <1>4. published' = kept /\ data' = Emptied(data, kept)
    BY <1>1, <1>3
  <1>5. /\ HeldIds \subseteq kept /\ kept \subseteq published
        /\ Ordered(data', kept)
        /\ \A j \in kept \cup {0, 1} : FamilyIn(data', j) = FamilyIn(data, j)
    BY <1>2, <1>3, <1>4, Collected
  <1> HIDE DEF kept
  <1>6. data' \in Nodes
    <2>1. NoNode \in [v : 0 .. NVars, lo : Ids, hi : Ids]
      BY Numbers DEF NoNode, Node
    <2>2. QED
      BY <1>2, <1>4, <2>1 DEF Nodes, Emptied
  <1>7. \A h \in Handles : Good(h, data', published', trusted)
    <2>1. \A j \in HeldIds : j \in published' /\ FamilyIn(data', j) = FamilyIn(data, j)
      BY <1>4, <1>5
    <2> DEFINE d == data'
               P == published'
    <2>2. \A j \in HeldIds : j \in P /\ FamilyIn(d, j) = FamilyIn(data, j)
      BY <2>1
    <2> HIDE DEF d, P
    <2>3. \A h \in Handles : Good(h, d, P, trusted)
      BY <2>2, GoodStays
    <2>4. QED
      BY <2>3 DEF d, P
  <1>8. /\ EntriesFit(cache', data', published')
        /\ EntriesTrue(cache', data', published', suspect')
    BY <1>1 DEF NoCache, EntriesFit, EntriesTrue
  <1>9. /\ regs' \in [Regs -> HandleSet] /\ result' \in HandleSet \cup {NoResult}
        /\ \A r \in Regs : Good(regs'[r], data', published', trusted)
        /\ Good(result', data', published', trusted)
        /\ older' \in Nat
    BY <1>1, <1>2, <1>7, HandlesAre, GoodZero DEF Types
  <1>10. published' \subseteq Indices /\ Ordered(data', published')
    BY <1>2, <1>4, <1>5
  <1>11. QED
    BY <1>1, <1>6, <1>8, <1>9, <1>10, ProgramInv

LEMMA MakeNodeInv ==
  ASSUME UInv, NEW r \in Regs, NEW v \in Vals, NEW lo \in Operands, NEW hi \in Operands,
         MakeNode(v, lo, hi, r)
  PROVE  UInv'
  <1> DEFINE n == Node(v, lo.id, hi.id)
             h(i) == Handle(i, lo.fam \cup Above(v, hi.fam))
  <1>1. /\ stack' = <<>> /\ result' = NoResult /\ cache' = cache /\ older' = older
        /\ suspect' = suspect /\ trusted' = trusted
        /\ hi.id # 0 /\ \A c \in {lo.id, hi.id} \cap Indices : v < data[c].v
    BY DEF MakeNode, Idle, IsZero, doubts
  <1>2. PICK i \in IF Known(n) # {} THEN Known(n) ELSE Free :
          /\ data' = [data EXCEPT ![i] = n] /\ published' = published \cup {i}
          /\ regs' = [regs EXCEPT ![r] = h(i)]
    BY DEF MakeNode, Wanted
  <1>3. /\ SInv /\ Types /\ data \in Nodes /\ published \in SUBSET Indices
        /\ Ordered(data, published)
    BY DEF UInv, SInv, Types
  <1>4. ASSUME NEW g \in {lo, hi}
        PROVE  /\ g \in HandleSet /\ g.id \in Ids /\ g.fam \in Families
               /\ IsTerminal(g.id) \/ (g.id \in published /\ v < data[g.id].v)
               /\ trusted => FamilyIn(data, g.id) = g.fam
    <2>1. g \in HandleSet /\ Good(g, data, published, trusted)
      <3>1. g \in Operands
        OBVIOUS
      <3>2. g \in {Zero, One} \/ (g \in Handles /\ g \in HandleSet)
        BY <1>3, <3>1, HandlesAre DEF Operands
      <3>3. QED
        BY <1>3, <3>2, HeldAre, GoodStays, GoodZero, HandleTyped
    <2>2. g.id \in Ids /\ g.fam \in Families
      BY <2>1 DEF HandleSet
    <2>3. /\ IsTerminal(g.id) \/ g.id \in published
          /\ trusted => FamilyIn(data, g.id) = g.fam
      BY <2>1, HandleTyped DEF Good
    <2>4. g.id \in published => v < data[g.id].v
      BY <1>1, <1>3
    <2>5. QED
      BY <2>1, <2>2, <2>3, <2>4
  <1>5. n = Node(v, lo.id, hi.id) /\ n \in [v : 0 .. NVars, lo : Ids, hi : Ids]
    BY <1>4, Numbers DEF Node, Vals
  <1>6. \A c \in {lo.id, hi.id} : IsTerminal(c) \/ (c \in published /\ v < data[c].v)
    BY <1>4
  <1> HIDE DEF n
  <1>7. i \in Indices /\ (i \in published => data[i] = n)
    <2>1. i \in Known(n) \/ i \in Free
      BY <1>2
    <2>2. QED
      BY <1>3, <2>1 DEF Known, Free
  <1>8. data' \in Nodes /\ data'[i] = n /\ \A j \in published : data'[j] = data[j]
    BY <1>2, <1>3, <1>5, <1>7 DEF Nodes
  <1>9. /\ published' \in SUBSET Indices /\ Ordered(data', published')
        /\ \A j \in published \cup {0, 1} : FamilyIn(data', j) = FamilyIn(data, j)
        /\ FamilyIn(data', i) = FamilyIn(data, lo.id) \cup Above(v, FamilyIn(data, hi.id))
    <2>1. CASE i \in published
      <3>1. published' = published /\ data' = data
        BY <1>2, <1>3, <1>7, <2>1 DEF Nodes
      <3>2. data[i].v = v /\ data[i].lo = lo.id /\ data[i].hi = hi.id
        BY <1>5, <1>7, <2>1 DEF Node
      <3>3. FamilyIn(data, i) = FamilyIn(data, lo.id) \cup Above(v, FamilyIn(data, hi.id))
        BY <1>3, <2>1, <3>2, FamilySpelt
      <3>4. QED
        BY <1>3, <3>1, <3>3
    <2>2. CASE i \notin published
      <3> DEFINE d == data'
                 a == lo.id
                 b == hi.id
      <3>1. i \in Indices \ published /\ d[i] = Node(v, a, b) /\ b # 0
            /\ \A j \in published : d[j] = data[j]
        BY <1>1, <1>5, <1>7, <1>8, <2>2
      <3>4. \A c \in {a, b} : IsTerminal(c) \/ (c \in published /\ v < data[c].v)
        BY <1>6
      <3> HIDE DEF a, b, d
      <3>2. /\ Ordered(d, published \cup {i})
            /\ \A j \in published \cup {0, 1} : FamilyIn(d, j) = FamilyIn(data, j)
            /\ FamilyIn(d, i) = FamilyIn(data, a) \cup Above(v, FamilyIn(data, b))
        BY <1>3, <3>1, <3>4, Inserted
      <3>3. QED
        BY <1>2, <1>3, <1>7, <3>2 DEF a, b, d
    <2>3. QED
      BY <2>1, <2>2
  <1>10. /\ h(i) \in HandleSet /\ Good(h(i), data', published', trusted)
    <2>1. lo.fam \cup Above(v, hi.fam) \in Families
      BY <1>4 DEF Families, Above
    <2>2. i \in Ids /\ i \in published'
      BY <1>2, <1>7, Numbers
    <2>3. h(i) \in HandleSet /\ h(i).id = i /\ h(i).fam = lo.fam \cup Above(v, hi.fam)
      BY <2>1, <2>2, HandleTyped, HandleIs
    <2>4. trusted => FamilyIn(data', i) = lo.fam \cup Above(v, hi.fam)
      BY <1>4, <1>9
    <2> HIDE DEF h
    <2>5. QED
      BY <2>2, <2>3, <2>4 DEF Good
  <1>11. published \subseteq published'
    BY <1>2
  <1>12. \A g \in Handles : Good(g, data', published', trusted)
    <2> DEFINE d == data'
               P == published'
    <2>1. \A j \in HeldIds : j \in P /\ FamilyIn(d, j) = FamilyIn(data, j)
      BY <1>3, <1>9, <1>11, HeldAre
    <2> HIDE DEF d, P
    <2>2. \A g \in Handles : Good(g, d, P, trusted)
      BY <2>1, GoodStays
    <2>3. QED
      BY <2>2 DEF d, P
  <1> HIDE DEF h
  <1>13. /\ regs' \in [Regs -> HandleSet] /\ result' \in HandleSet \cup {NoResult}
         /\ \A q \in Regs : Good(regs'[q], data', published', trusted)
         /\ Good(result', data', published', trusted)
         /\ older' \in Nat
    <2>1. regs \in [Regs -> HandleSet] /\ older \in Nat /\ \A q \in Regs : regs[q] \in Handles
      BY <1>3, HandlesAre DEF Types
    <2>2. QED
      BY <1>1, <1>2, <1>10, <1>12, <2>1, GoodZero
  <1>14. /\ EntriesFit(cache', data', published')
         /\ trusted => EntriesTrue(cache', data', published', suspect')
    <2> DEFINE d == data'
               P == published'
    <2>1. /\ published \subseteq P /\ \A j \in published : d[j] = data[j]
          /\ \A j \in published \cup {0, 1} : FamilyIn(d, j) = FamilyIn(data, j)
      BY <1>8, <1>9, <1>11
    <2> HIDE DEF d, P
    <2>2. EntriesFit(cache, d, P) /\ (trusted => EntriesTrue(cache, d, P, suspect))
      BY <2>1, EntriesStay
    <2>3. QED
      BY <1>1, <2>2 DEF d, P
  <1>15. QED
    BY <1>1, <1>8, <1>9, <1>13, <1>14, ProgramInv

-----------------------------------------------------------------------------
(***************************************************************************)
(* The invariant holds                                                     *)
(***************************************************************************)
LEMMA InitInv ==
  Init => UInv
  <1> SUFFICES ASSUME Init PROVE UInv
    OBVIOUS
  <1>1. stack = <<>> /\ Len(stack) = 0 /\ stack \in Seq(Frames)
    BY DEF Init
  <1>2. /\ data \in Nodes /\ published = {} /\ DOMAIN cache = {}
        /\ regs \in [Regs -> HandleSet] /\ result = NoResult /\ older \in Nat
        /\ trusted \in BOOLEAN
    <2>1. NoNode \in [v : 0 .. NVars, lo : Ids, hi : Ids]
      BY Numbers DEF NoNode, Node
    <2>2. QED
      BY <2>1, HandleTyped DEF Init, Nodes
  <1>3. Types
    BY <1>1, <1>2 DEF Types
  <1>4. \A h \in Handles \ {NoResult} : h = Zero
    <2>1. \A h \in Handles \ {NoResult} : \E r \in Regs : h = regs[r]
      BY <1>1, <1>2, <1>3, HandlesAre
    <2>2. QED
      BY <2>1 DEF Init
  <1>5. SInv
    BY <1>1, <1>2, <1>3, <1>4, HandleTyped
    DEF SInv, Ordered, HeldLive, Live, CacheOrdered, StackOrdered
  <1>6. MInv
    <2>1. HandlesSpell(Handles, data)
      BY <1>4, HandleTyped, FamilyTerminals DEF HandlesSpell
    <2>2. CacheTrue
      BY <1>2 DEF CacheTrue
    <2>3. StackMeans(stack) /\ KeysTrue(data, published, stack, older)
      BY <1>1 DEF StackMeans, KeysTrue
    <2>4. QED
      BY <2>1, <2>2, <2>3 DEF MInv
  <1>7. QED
    BY <1>5, <1>6 DEF UInv

LEMMA StutterInv ==
  ASSUME UInv, UNCHANGED vars
  PROVE  UInv'
  BY DEF vars, doubts, UInv, SInv, MInv, Types, Ordered, HeldLive, Live, Handles, CacheOrdered,
         StackOrdered, HandlesSpell, CacheTrue, Family, StackMeans, KeysTrue

LEMMA NextInv ==
  UInv /\ [Next]_vars => UInv'
  <1> SUFFICES ASSUME UInv, [Next]_vars PROVE UInv'
    OBVIOUS
  <1>1. CASE Union
    <2>1. CASE UnionTrivial
      BY <2>1, UnionTrivialInv
    <2>2. CASE UnionHit
      BY <2>2, UnionHitInv
    <2>3. CASE UnionOne
      BY <2>3, UnionOneInv
    <2>4. CASE UnionLess
      BY <2>4, UnionLessInv
    <2>5. CASE UnionGreater
      BY <2>5, UnionGreaterInv
    <2>6. CASE UnionEqual
      BY <2>6, UnionEqualInv
    <2>7. CASE BuildKnown
      BY <2>7, BuildKnownInv
    <2>8. CASE BuildNew
      BY <2>8, BuildNewInv
    <2>9. CASE BuildNewAndCollect
      BY <2>9, BuildNewAndCollectInv
    <2>10. CASE BuildPanics
      BY <2>10, BuildPanicsInv
    <2>11. QED
      BY <1>1, <2>1, <2>2, <2>3, <2>4, <2>5, <2>6, <2>7, <2>8, <2>9, <2>10 DEF Union
  <1>2. CASE CallGc
    BY <1>2, CallGcInv
  <1>3. ASSUME NEW r \in Regs, DropHandle(r) PROVE UInv'
    BY <1>3, DropHandleInv
  <1>4. ASSUME NEW r \in Regs, KeepResult(r) PROVE UInv'
    BY <1>4, KeepResultInv
  <1>5. ASSUME NEW r \in Regs, NEW q \in Regs, CloneHandle(r, q) PROVE UInv'
    BY <1>5, CloneHandleInv
  <1>6. ASSUME NEW r \in Regs, NEW q \in Regs, CallUnion(r, q) PROVE UInv'
    BY <1>6, CallUnionInv
  <1>7. ASSUME NEW r \in Regs, NEW v \in Vals, NEW lo \in Operands, NEW hi \in Operands,
               MakeNode(v, lo, hi, r)
        PROVE  UInv'
    BY <1>7, MakeNodeInv
  <1>8. CASE UNCHANGED vars
    BY <1>8, StutterInv
  <1>9. QED
    BY <1>1, <1>2, <1>3, <1>4, <1>5, <1>6, <1>7, <1>8 DEF Next

\* The invariant of the proofs holds of every behaviour.
THEOREM InvHolds == Spec => []UInv
  BY InitInv, NextInv, PTL DEF Spec

LEMMA InvTypes ==
  UInv => TypeOK
  <1> SUFFICES ASSUME UInv PROVE TypeOK
    OBVIOUS
  <1>1. SInv /\ Types /\ StackOrdered(data, stack)
    BY DEF UInv, SInv
  <1>2. \A i \in Indices : data[i].v \in 0 .. NVars
    BY <1>1 DEF Types, Nodes
  <1>3. \A h \in Handles \ {NoResult} : h.id \in Ids /\ h.fam \subseteq SUBSET Vals
    BY <1>1, HandlesAre DEF HandleSet, Families
  <1>4. Len(stack) <= NVars + 1
    <2>1. Len(stack) \in Nat
      BY <1>1 DEF Types
    <2>2. CASE Len(stack) >= 2
      <3> DEFINE n == Len(stack) - 1
      <3>1. n \in 1 .. Len(stack) /\ n # Len(stack)
        BY <2>1, <2>2
      <3>2. FrameOrdered(data, stack[n], n) /\ FrameWaits(data, stack, n)
        BY <1>1, <3>1 DEF StackOrdered
      <3>3. n <= stack[n].v
        BY <3>1, <3>2 DEF FrameOrdered, FrameWaits, Waiting
      <3>4. stack[n].v \in 0 .. NVars
        <4>1. stack[n] \in Frames
          BY <1>1, <3>1 DEF Types
        <4>2. QED
          BY <4>1 DEF Frames
      <3>5. QED
        BY <2>1, <3>3, <3>4, Numbers
    <2>3. QED
      BY <2>1, <2>2, Numbers
  <1>5. Building => ~IsZero(Top.parts[2])
    BY BuildArgs DEF IsZero
  <1>6. QED
    BY <1>1, <1>2, <1>3, <1>4, <1>5 DEF TypeOK, Types

LEMMA InvSound ==
  UInv => HandlesSound /\ CacheSound /\ OnlyStaleKeysMislead
  <1> SUFFICES ASSUME UInv PROVE HandlesSound /\ CacheSound /\ OnlyStaleKeysMislead
    OBVIOUS
  <1>1. SInv /\ Types
    BY DEF UInv, SInv
  <1>2. \A h \in Handles \ {NoResult} : /\ Live(h.id)
                                        /\ trusted => Family(h.id) = h.fam
    BY <1>1 DEF SInv, HeldLive, UInv, MInv, HandlesSpell, Family
  <1>3. HandlesSound
    BY <1>1, <1>2, InvTypes DEF SInv, CacheOrdered, Live, HandlesSound
  <1>4. CacheSound
    <2>1. ASSUME trusted, NEW k \in DOMAIN cache \ suspect
          PROVE  /\ Live(k[1]) /\ Live(k[2]) /\ Live(cache[k])
                 /\ Family(cache[k]) = Family(k[1]) \cup Family(k[2])
      <3>1. Live(cache[k])
        BY <1>1 DEF SInv, CacheOrdered, Live
      <3>2. QED
        BY <2>1, <3>1 DEF UInv, MInv, CacheTrue
    <2>2. QED
      BY <2>1 DEF CacheSound
  <1>5. OnlyStaleKeysMislead
    <2>1. result \in Handles
      BY <1>1, HandlesAre
    <2>2. QED
      BY <1>2, <2>1 DEF OnlyStaleKeysMislead, UnionCorrect
  <1>6. QED
    BY <1>3, <1>4, <1>5

\* No handle of the program, of a frame that waits or of an answer, and no
\* entry of the cache, ever names a bucket that a collection freed, and until
\* an answer came from a suspect entry every handle spells the family it was
\* made for; the stack is never deeper than the number of values and one
\* (algebra.rs: union and its frames; parallelism.rs: get_node).
THEOREM HandlesStaySound == Spec => []HandlesSound
  BY InvHolds, InvSound, PTL

\* What the cache says of two nodes is true of them, but for the keys a
\* collection inside a call has outdated (put_into_cache after get_node).
THEOREM CacheStaysSound == Spec => []CacheSound
  BY InvHolds, InvSound, PTL

\* A memoised union answers with the union of its arguments' families, until
\* it uses an entry stored after a collection under a key that its frame no
\* longer held (get_from_cache).
THEOREM StaleKeysAlone == Spec => []OnlyStaleKeysMislead
  BY InvHolds, InvSound, PTL
=============================================================================
