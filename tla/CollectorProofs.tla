-------------------------- MODULE CollectorProofs --------------------------
(***************************************************************************)
(* Handles and collections, for every number of threads and of places for  *)
(* handles, every number of values and every table: the table is canonical *)
(* whatever has raced, and as long as no count that was due is missed, a   *)
(* handle keeps its node, its family and its identity.                     *)
(*                                                                         *)
(* What makes these inductive: a count is no less than the handles to its  *)
(* node (so what is held is a root, and a root is in the table); the table *)
(* is closed and ordered, with the family of a node made of those of its   *)
(* children (so a new node changes the family of no other, and a sweep     *)
(* loses nothing below a root); an index taken and not yet counted is in   *)
(* the table and no collection has begun; and what the scan has passed and *)
(* is counted is among its roots.  Without a race the first of these is    *)
(* kept by every step, also by the copy of the counts.                     *)
(*                                                                         *)
(* The second part is about a holder that one thread uses: there no count  *)
(* is ever missed, and the counts and the collections are exact.           *)
(***************************************************************************)
EXTENDS Collector, FiniteSetTheorems, WellFoundedInduction, TLAPS

-----------------------------------------------------------------------------
(***************************************************************************)
(* Induction without an operator: the least counterexample.                *)
(***************************************************************************)
LEMMA LeastOf ==
  ASSUME NEW S \in SUBSET Nat, S # {}
  PROVE  \E x \in S : \A y \in S : x <= y
  <1>1. PICK x \in S : \A y \in SetLessThan(x, OpToRel(<, Nat), Nat) : y \notin S
    <2>1. PICK x \in S : \A y \in S : ~(<<y, x>> \in OpToRel(<, Nat))
      BY NatLessThanWellFounded, WFMin
    <2>2. QED
      BY <2>1 DEF SetLessThan
  <1>2. ASSUME NEW y \in S PROVE x <= y
    <2>1. x \in Nat /\ y \in Nat
      OBVIOUS
    <2>2. CASE y < x
      <3>1. <<y, x>> \in OpToRel(<, Nat)
        BY <2>1, <2>2 DEF OpToRel
      <3>2. QED
        BY <3>1, <1>1, <2>1 DEF SetLessThan
    <2>3. QED
      BY <2>1, <2>2
  <1>3. QED
    BY <1>2

-----------------------------------------------------------------------------
(***************************************************************************)
(* Families                                                                *)
(***************************************************************************)
\* The levels 0 .. n of the recursion.
IsLevels(nodes, n, F) ==
  F = [d \in 0 .. n |-> IF d = 0 THEN Ground ELSE Level(nodes, F[d - 1])]

LEMMA LevelsExist ==
  ASSUME NEW nodes, NEW m \in Nat
  PROVE  \E F : IsLevels(nodes, m, F)
  <1> DEFINE Bad == {n \in Nat : ~ \E F : IsLevels(nodes, n, F)}
  <1>1. ASSUME Bad # {} PROVE FALSE
    <2>1. PICK n \in Bad : \A y \in Bad : n <= y
      BY <1>1, LeastOf
    <2>2. n # 0
      <3>1. IsLevels(nodes, 0, [d \in 0 .. 0 |-> Ground])
        BY DEF IsLevels
      <3>2. QED
        BY <3>1
    <2>3. n - 1 \in Nat /\ n - 1 \notin Bad
      BY <2>1, <2>2
    <2>4. PICK F : IsLevels(nodes, n - 1, F)
      BY <2>3
    <2> DEFINE G == [d \in 0 .. n |-> IF d = 0 THEN Ground
                                      ELSE Level(nodes, F[d - 1])]
    <2>5. \A d \in 0 .. n - 1 : G[d] = F[d]
      BY <2>3, <2>4 DEF IsLevels
    <2>6. \A d \in 0 .. n : d # 0 => d - 1 \in 0 .. n - 1
      BY <2>3
    <2>7. G = [d \in 0 .. n |-> IF d = 0 THEN Ground ELSE Level(nodes, G[d - 1])]
      BY <2>5, <2>6
    <2>8. IsLevels(nodes, n, G)
      BY <2>7 DEF IsLevels
    <2>9. QED
      BY <2>1, <2>8
  <1>2. QED
    BY <1>1

LEMMA FamilyLevels ==
  ASSUME NEW nodes
  PROVE  \E F : /\ IsLevels(nodes, NVars, F)
                /\ \A i : FamilyIn(nodes, i) = F[NVars][i]
  <1> DEFINE F == CHOOSE f : IsLevels(nodes, NVars, f)
  <1>1. IsLevels(nodes, NVars, F)
    <2>1. NVars \in Nat
      BY CollectorAssumption
    <2>2. QED
      BY <2>1, LevelsExist
  <1>2. \A i : FamilyIn(nodes, i) = F[NVars][i]
    BY DEF FamilyIn, IsLevels
  <1>3. QED
    BY <1>1, <1>2

\* The nodes of P: closed, ordered and nowhere deeper than there are values.
Ordered(nodes, P) ==
  \A i \in P :
    /\ nodes[i].v \in Vals
    /\ \A c \in {nodes[i].lo, nodes[i].hi} :
         IsTerminal(c) \/ (c \in P /\ nodes[i].v < nodes[c].v)

\* What G says of each node of P is what its children say.
Spelt(nodes, P, G) ==
  /\ G[0] = {} /\ G[1] = {{}}
  /\ \A i \in P : G[i] = G[nodes[i].lo] \cup Above(nodes[i].v, G[nodes[i].hi])

\* Over ordered nodes there is one way to spell the families: Family's.
LEMMA FamilyUnique ==
  ASSUME NEW nodes, NEW P \in SUBSET Indices, NEW G,
         \A i \in P : {nodes[i].lo, nodes[i].hi} \subseteq Ids,
         Ordered(nodes, P), Spelt(nodes, P, G)
  PROVE  \A i \in P \cup {0, 1} : FamilyIn(nodes, i) = G[i]
  <1>1. /\ NVars \in Nat /\ MaxTable \in Nat /\ 2 < MaxTable
    BY CollectorAssumption
  <1>2. PICK F : /\ IsLevels(nodes, NVars, F)
                 /\ \A i : FamilyIn(nodes, i) = F[NVars][i]
    BY FamilyLevels
  <1>3. /\ F[0] = Ground
        /\ \A d \in 1 .. NVars : F[d] = Level(nodes, F[d - 1])
    BY <1>1, <1>2 DEF IsLevels
  <1>4. 0 \in Ids /\ 1 \in Ids /\ P \subseteq Ids /\ \A i \in P : ~IsTerminal(i)
    BY <1>1 DEF Ids, Indices, IsTerminal
  <1>5. ASSUME NEW d \in 0 .. NVars PROVE F[d][0] = {} /\ F[d][1] = {{}}
    <2>1. Ground[0] = {} /\ Ground[1] = {{}}
      BY <1>4 DEF Ground
    <2>2. CASE d = 0
      BY <1>3, <2>1, <2>2
    <2>3. CASE d \in 1 .. NVars
      <3>1. F[d] = Level(nodes, F[d - 1])
        BY <1>3, <2>3
      <3>2. QED
        BY <1>4, <2>1, <3>1 DEF Level, IsTerminal
    <2>4. QED
      BY <1>1, <2>2, <2>3
  <1> DEFINE Bad == {d \in 0 .. NVars :
                       \E i \in P : NVars < d + nodes[i].v /\ F[d][i] # G[i]}
  <1>6. ASSUME Bad # {} PROVE FALSE
    <2>1. PICK d \in Bad : \A e \in Bad : d <= e
      <3>1. Bad \in SUBSET Nat
        OBVIOUS
      <3> HIDE DEF Bad
      <3>2. QED
        BY <1>6, <3>1, LeastOf
    <2>2. PICK i \in P : NVars < d + nodes[i].v /\ F[d][i] # G[i]
      BY <2>1
    <2>3. d \in 1 .. NVars
      BY <1>1, <2>1, <2>2 DEF Ordered, Vals
    <2>4. F[d][i] = F[d - 1][nodes[i].lo] \cup Above(nodes[i].v, F[d - 1][nodes[i].hi])
      BY <1>3, <1>4, <2>3, ZenonT(60) DEF Level
    <2>5. ASSUME NEW c \in {nodes[i].lo, nodes[i].hi}
          PROVE  F[d - 1][c] = G[c]
      <3>1. d - 1 \in 0 .. NVars /\ d - 1 \notin Bad
        BY <1>1, <2>1, <2>3
      <3>2. CASE IsTerminal(c)
        <4>1. c = 0 \/ c = 1
          BY <3>2 DEF IsTerminal, Ids
        <4>2. QED
          BY <1>5, <3>1, <4>1 DEF Spelt
      <3>3. CASE c \in P /\ nodes[i].v < nodes[c].v
        <4>1. NVars < (d - 1) + nodes[c].v
          BY <1>1, <2>2, <2>3, <3>3 DEF Ordered, Vals
        <4>2. QED
          BY <3>1, <3>3, <4>1
      <3>4. QED
        BY <3>2, <3>3 DEF Ordered
    <2>6. QED
      BY <2>2, <2>4, <2>5 DEF Spelt
  <1>7. ASSUME NEW i \in P PROVE F[NVars][i] = G[i]
    <2>1. NVars < NVars + nodes[i].v
      BY <1>1 DEF Ordered, Vals
    <2>2. QED
      BY <1>1, <1>6, <2>1
  <1>8. F[NVars][0] = G[0] /\ F[NVars][1] = G[1]
    BY <1>1, <1>5 DEF Spelt
  <1>9. QED
    BY <1>2, <1>7, <1>8

LEMMA FamilyTerminals ==
  ASSUME NEW nodes
  PROVE  FamilyIn(nodes, 0) = {} /\ FamilyIn(nodes, 1) = {{}}
  <1> DEFINE G == [j \in {0, 1} |-> IF j = 0 THEN {} ELSE {{}}]
  <1>1. Spelt(nodes, {}, G) /\ Ordered(nodes, {})
    BY DEF Spelt, Ordered
  <1>2. QED
    BY <1>1, FamilyUnique

-----------------------------------------------------------------------------
(***************************************************************************)
(* What a collection marks                                                 *)
(***************************************************************************)
LEMMA ReachHasRoots ==
  ASSUME NEW roots \in SUBSET Indices
  PROVE  roots \subseteq Reach(roots) /\ Reach(roots) \subseteq Indices
  BY DEF Reach

LEMMA ReachIsClosed ==
  ASSUME NEW roots \in SUBSET Indices, NEW i \in Reach(roots),
         NEW c \in {data[i].lo, data[i].hi}, c \in Ids, ~IsTerminal(c)
  PROVE  c \in Reach(roots)
  <1>1. c \in Indices /\ c # 0 /\ c # 1
    BY CollectorAssumption DEF Ids, Indices, IsTerminal
  <1>2. ASSUME NEW S \in SUBSET Indices, roots \subseteq S,
               \A j \in S : {data[j].lo, data[j].hi} \subseteq S \cup {0, 1}
        PROVE  c \in S
    BY <1>1, <1>2 DEF Reach
  <1>3. QED
    BY <1>1, <1>2 DEF Reach

LEMMA ReachWithin ==
  ASSUME NEW roots \in SUBSET Indices, NEW S \in SUBSET Indices, roots \subseteq S,
         \A j \in S : {data[j].lo, data[j].hi} \subseteq S \cup {0, 1}
  PROVE  Reach(roots) \subseteq S
  BY DEF Reach

-----------------------------------------------------------------------------
(***************************************************************************)
(* Counting handles                                                        *)
(***************************************************************************)
\* The places of handles, those that threads keep and those of calls.
ArgNames == {"lo", "hi", "res"}
Kept(t, r)  == <<"kept", <<t, r>>>>
Owned(t, a) == <<"owned", <<t, a>>>>
Spots == ({"kept"} \X (Threads \X Regs)) \cup ({"owned"} \X (Threads \X ArgNames))

\* The index at each place.
Hold ==
  [p \in Spots |-> IF p[1] = "kept" THEN regs[p[2][1]][p[2][2]].id
                                    ELSE args[p[2][1]][p[2][2]].id]

Where(f, i) == {p \in Spots : f[p] = i}
Number(f, i) == Cardinality(Where(f, i))

LEMMA SpotsFinite == IsFiniteSet(Spots)
  <1>1. IsFiniteSet(Threads) /\ IsFiniteSet(Regs)
    BY CollectorAssumption
  <1>2. IsFiniteSet(ArgNames)
    <2>1. IsFiniteSet({"lo"} \cup {"hi"})
      BY FS_Singleton, FS_AddElement
    <2>2. ArgNames = ({"lo"} \cup {"hi"}) \cup {"res"}
      BY DEF ArgNames
    <2>3. QED
      BY <2>1, <2>2, FS_AddElement
  <1>3. IsFiniteSet(Threads \X Regs) /\ IsFiniteSet(Threads \X ArgNames)
    BY <1>1, <1>2, FS_Product
  <1>4. IsFiniteSet({"kept"}) /\ IsFiniteSet({"owned"})
    BY FS_Singleton
  <1>5. IsFiniteSet({"kept"} \X (Threads \X Regs))
    BY <1>3, <1>4, FS_Product
  <1>6. IsFiniteSet({"owned"} \X (Threads \X ArgNames))
    BY <1>3, <1>4, FS_Product
  <1>7. QED
    BY <1>5, <1>6, FS_Union DEF Spots

LEMMA WhereFinite ==
  ASSUME NEW f, NEW i
  PROVE  IsFiniteSet(Where(f, i)) /\ Number(f, i) \in Nat
  <1>1. Where(f, i) \in SUBSET Spots
    BY DEF Where
  <1>2. IsFiniteSet(Where(f, i))
    BY <1>1, SpotsFinite, FS_Subset
  <1>3. QED
    BY <1>2, FS_CardinalityType DEF Number

LEMMA NoMore ==
  ASSUME NEW f, NEW g, NEW i, \A q \in Spots : g[q] = i => f[q] = i
  PROVE  Number(g, i) <= Number(f, i)
  <1>1. Where(g, i) \in SUBSET Where(f, i)
    BY DEF Where
  <1>2. QED
    BY <1>1, WhereFinite, FS_Subset DEF Number

LEMMA OneMore ==
  ASSUME NEW f, NEW g, NEW i, NEW p,
         \A q \in Spots \ {p} : g[q] = i => f[q] = i
  PROVE  Number(g, i) <= Number(f, i) + 1
  <1>1. Where(g, i) \in SUBSET (Where(f, i) \cup {p})
    BY DEF Where
  <1>2. /\ IsFiniteSet(Where(f, i) \cup {p})
        /\ Cardinality(Where(f, i) \cup {p}) <= Number(f, i) + 1
    BY WhereFinite, FS_AddElement, SMTT(30) DEF Number
  <1>3. Cardinality(Where(g, i)) <= Cardinality(Where(f, i) \cup {p})
    BY <1>1, <1>2, FS_Subset
  <1>4. /\ Cardinality(Where(f, i) \cup {p}) \in Nat
        /\ Number(g, i) \in Nat /\ Number(f, i) \in Nat
    BY <1>2, WhereFinite, FS_CardinalityType
  <1>5. QED
    BY <1>2, <1>3, <1>4 DEF Number

LEMMA OneLess ==
  ASSUME NEW f, NEW g, NEW i, NEW p \in Spots, f[p] = i, g[p] # i,
         \A q \in Spots \ {p} : g[q] = i => f[q] = i
  PROVE  Number(g, i) <= Number(f, i) - 1
  <1>1. Where(g, i) \in SUBSET (Where(f, i) \ {p}) /\ p \in Where(f, i)
    BY DEF Where
  <1>2. /\ IsFiniteSet(Where(f, i) \ {p})
        /\ Cardinality(Where(f, i) \ {p}) = Number(f, i) - 1
    BY <1>1, WhereFinite, FS_RemoveElement DEF Number
  <1>3. QED
    BY <1>1, <1>2, FS_Subset DEF Number

LEMMA OneMoved ==
  ASSUME NEW f, NEW g, NEW i, NEW p \in Spots, NEW r, f[p] = i, g[p] # i, p # r,
         \A q \in Spots \ {p, r} : g[q] = i => f[q] = i
  PROVE  Number(g, i) <= Number(f, i)
  <1> DEFINE h == [q \in Spots |-> IF q = p THEN g[p] ELSE f[q]]
  <1>1. Number(h, i) <= Number(f, i) - 1
    BY OneLess
  <1>2. Number(g, i) <= Number(h, i) + 1
    BY OneMore
  <1>3. QED
    BY <1>1, <1>2, WhereFinite

\* An index that some place holds has a number.
LEMMA SomeHeld ==
  ASSUME NEW f, NEW p \in Spots
  PROVE  Number(f, f[p]) >= 1
  <1>1. p \in Where(f, f[p])
    BY DEF Where
  <1>2. QED
    BY <1>1, WhereFinite, FS_EmptySet DEF Number
-----------------------------------------------------------------------------
(***************************************************************************)
(* The inductive invariant                                                 *)
(***************************************************************************)
HIds    == 0 .. capacity - 1
Fams    == SUBSET (SUBSET Nat)
Handles == [id : HIds, fam : Fams]
Locs    == [v : 0 .. NVars, raw : HIds, raw2 : HIds,
            dst : Regs \cup {NoReg}, dst2 : Regs \cup {NoReg},
            fam : Fams, fam2 : Fams, new : BOOLEAN, force : BOOLEAN,
            ret : {"idle", "find", "drop_hi"}]

\* TypeOK, but for the counts, which a lost race can take below 0.
Types ==
  /\ capacity \in Nat /\ 2 < capacity /\ capacity <= MaxTable
  /\ data \in [Indices -> [v : 0 .. NVars, lo : HIds, hi : HIds]]
  /\ published \subseteq used /\ published \subseteq Indices
  /\ used \subseteq HIds
  /\ count \in [Indices -> Int]
  /\ regs \in [Threads -> [Regs -> Handles]]
  /\ args \in [Threads -> [ArgNames -> Handles]]
  /\ pc \in [Threads -> Pcs]
  /\ loc \in [Threads -> Locs]
  /\ paused \in Threads \cup {NoThread}
  /\ gc \in [pos : Nat, roots : SUBSET (HIds \cap Indices), newcap : Nat,
             copy : [Indices -> Int]]
  /\ raced \in BOOLEAN

\* The table never holds one node twice.
TableCanonical ==
  \A i, j \in published : data[i] = data[j] => i = j

GcPcs == {"scan", "copy", "install", "end"}

\* The thread that paused the table is the one that collects.
GateHeld ==
  /\ \A t \in Threads : pc[t] \in GcPcs <=> paused = t
  /\ \A t \in Threads : pc[t] = "scan" =>
       /\ capacity <= gc.newcap /\ gc.newcap <= MaxTable
       /\ 2 <= gc.pos

\* The node that get_node is to find: its value comes before its children's.
Building(t) ==
  \/ pc[t] \in {"find", "full"}
  \/ loc[t].ret = "find" /\ pc[t] \in GcPcs \cup {"gc", "wait"}

NodeArgs ==
  \A t \in Threads : Building(t) =>
    /\ loc[t].v \in Vals
    /\ args[t].hi # Zero
    /\ \A s \in args[t].lo.fam \cup args[t].hi.fam : \A x \in s : loc[t].v < x

\* The table is closed and ordered, and each of its nodes spells the family
\* that its children make.
TableSpells ==
  \A i \in published :
    LET n == data[i] IN
    /\ n.v \in Vals /\ n.hi # 0
    /\ Live(n.lo) /\ Live(n.hi)
    /\ Family(i) = Family(n.lo) \cup Above(n.v, Family(n.hi))
    /\ Family(i) # {}
    /\ \A s \in Family(n.lo) \cup Family(n.hi) : \A x \in s : n.v < x

\* A count is no less than the handles, and what is counted is in the table.
CountsCover ==
  \A i \in Indices :
    /\ Number(Hold, i) <= count[i]
    /\ count[i] > 0 => i \in published

HandlesSpell ==
  /\ \A t \in Threads, r \in Regs : Family(regs[t][r].id) = regs[t][r].fam
  /\ \A t \in Threads, a \in ArgNames : Family(args[t][a].id) = args[t][a].fam

\* An index that is still to be counted: no collection has begun.
TakenLive ==
  \A t \in Threads :
    /\ pc[t] \in UncountedPcs => paused = NoThread
    /\ pc[t] \in {"inc", "child", "get_lo"} => Live(loc[t].raw)
    /\ pc[t] = "inc" =>
         Family(loc[t].raw) = args[t].lo.fam \cup Above(loc[t].v, args[t].hi.fam)
    /\ pc[t] \in {"child", "get_lo"} => Family(loc[t].raw) = loc[t].fam
    /\ pc[t] \in {"get_lo", "get_hi"} =>
         Live(loc[t].raw2) /\ Family(loc[t].raw2) = loc[t].fam2

\* The scan: the roots so far are in the table, and hold all that counts.
ScanComplete ==
  \A t \in Threads : pc[t] = "scan" =>
    /\ gc.roots \subseteq published
    /\ \A i \in Indices : i < gc.pos /\ count[i] > 0 => i \in gc.roots

CopyCovered ==
  \A t \in Threads : pc[t] = "install" =>
    \A i \in Indices : gc.copy[i] > 0 => i \in published

Sound == /\ TableSpells
         /\ CountsCover
         /\ HandlesSpell
         /\ TakenLive
         /\ ScanComplete
         /\ CopyCovered

\* What holds whatever has raced, and the inductive invariant.
Frame == /\ Types
         /\ GateHeld
         /\ TableCanonical
         /\ NodeArgs

GInv == Frame /\ (~raced => Sound)

-----------------------------------------------------------------------------
(***************************************************************************)
(* Types, the gate and the arguments of get_node                           *)
(***************************************************************************)
LEMMA Bounds ==
  ASSUME Types
  PROVE  /\ NVars \in Nat /\ MaxTable \in Nat /\ capacity \in Nat /\ 2 < capacity
         /\ 0 \in HIds /\ 1 \in HIds /\ HIds \subseteq Ids
         /\ Indices \subseteq Nat /\ \A i \in Indices : ~IsTerminal(i) /\ 2 <= i
         /\ \A i \in HIds : IsTerminal(i) \/ i \in Indices
         /\ NoThread \notin Threads /\ NoReg \notin Regs
  BY CollectorAssumption, SMTT(30) DEF Types, HIds, Ids, Indices, IsTerminal

LEMMA FamsClosed ==
  ASSUME NEW f \in Fams, NEW g \in Fams, NEW v \in Nat
  PROVE  /\ f \cup Above(v, g) \in Fams /\ Without(v, f) \in Fams
         /\ Cofactor(v, f) \in Fams
  <1>1. \A s \in f : s \in SUBSET Nat
    BY DEF Fams
  <1>2. \A s \in g : s \cup {v} \in SUBSET Nat
    BY DEF Fams
  <1>3. Above(v, g) \subseteq SUBSET Nat
    BY <1>2 DEF Above
  <1>4. Cofactor(v, f) \subseteq SUBSET Nat
    <2>1. \A s \in {x \in f : v \in x} : s \ {v} \in SUBSET Nat
      BY <1>1
    <2>2. QED
      BY <2>1 DEF Cofactor
  <1>5. Without(v, f) \subseteq SUBSET Nat
    BY <1>1 DEF Without
  <1>6. QED
    BY <1>3, <1>4, <1>5 DEF Fams

LEMMA Constants ==
  ASSUME Types
  PROVE  /\ Zero \in Handles /\ One \in Handles /\ NoLoc \in Locs
         /\ NoArgs \in [ArgNames -> Handles]
  <1>1. 0 \in HIds /\ 1 \in HIds /\ NVars \in Nat
    BY Bounds
  <1>2. {} \in Fams /\ {{}} \in Fams
    BY DEF Fams
  <1>3. Zero \in Handles /\ One \in Handles
    BY <1>1, <1>2 DEF Zero, One, Handle, Handles
  <1>4. NoLoc \in Locs
    BY <1>1, <1>2 DEF NoLoc, Locs
  <1>5. NoArgs \in [ArgNames -> Handles]
    BY <1>3 DEF NoArgs, ArgNames
  <1>6. QED
    BY <1>3, <1>4, <1>5

LEMMA InitInv == Init => GInv
  <1> SUFFICES ASSUME Init PROVE GInv
    OBVIOUS
  <1>1. /\ capacity \in Nat /\ 2 < capacity /\ capacity <= MaxTable
        /\ NVars \in Nat /\ Indices \subseteq Nat /\ NoThread \notin Threads
        /\ \A i \in Indices : ~IsTerminal(i)
    BY CollectorAssumption DEF Init, Indices, IsTerminal
  <1>2. 0 \in HIds /\ 1 \in HIds
    BY <1>1 DEF HIds
  <1>3. {} \in Fams /\ {{}} \in Fams
    BY DEF Fams
  <1>4. Zero \in Handles /\ NoLoc \in Locs
    BY <1>1, <1>2, <1>3 DEF Zero, Handle, Handles, NoLoc, Locs
  <1>5. Types
    <2>1. NoNode \in [v : 0 .. NVars, lo : HIds, hi : HIds]
      BY <1>1, <1>2 DEF NoNode, Node
    <2>2. NoGc \in [pos : Nat, roots : SUBSET (HIds \cap Indices), newcap : Nat,
                    copy : [Indices -> Int]]
      BY DEF NoGc
    <2>3. NoArgs \in [ArgNames -> Handles]
      BY <1>4 DEF NoArgs, ArgNames
    <2>4. /\ data \in [Indices -> [v : 0 .. NVars, lo : HIds, hi : HIds]]
          /\ count \in [Indices -> Int]
      BY <2>1 DEF Init
    <2>5. /\ regs \in [Threads -> [Regs -> Handles]]
          /\ args \in [Threads -> [ArgNames -> Handles]]
          /\ loc \in [Threads -> Locs] /\ pc \in [Threads -> Pcs]
      BY <1>4, <2>3 DEF Init, Pcs
    <2>6. QED
      BY <1>1, <1>2, <2>2, <2>4, <2>5 DEF Init, Types
  <1>6. GateHeld /\ TableCanonical /\ NodeArgs
    BY <1>1 DEF Init, GateHeld, TableCanonical, NodeArgs, Building, GcPcs, NoLoc
  <1>7. Sound
    <2>1. TableSpells
      BY DEF Init, TableSpells
    <2>2. CountsCover
      <3>1. ASSUME NEW p \in Spots PROVE Hold[p] = 0
        BY <3>1 DEF Init, Hold, Spots, NoArgs, ArgNames, Zero, Handle
      <3>2. ASSUME NEW i \in Indices PROVE Number(Hold, i) = 0
        <4>1. Where(Hold, i) = {}
          BY <1>1, <3>1 DEF Where, IsTerminal
        <4>2. QED
          BY <4>1, FS_EmptySet DEF Number
      <3>3. QED
        BY <3>2 DEF Init, CountsCover
    <2>3. HandlesSpell
      <3>1. FamilyIn(data, 0) = {}
        BY FamilyTerminals
      <3>2. QED
        BY <3>1 DEF Init, HandlesSpell, Family, Zero, Handle, NoArgs, ArgNames
    <2>4. TakenLive /\ ScanComplete /\ CopyCovered
      BY DEF Init, TakenLive, ScanComplete, CopyCovered, UncountedPcs
    <2>5. QED
      BY <2>1, <2>2, <2>3, <2>4 DEF Sound
  <1>8. QED
    BY <1>5, <1>6, <1>7 DEF GInv, Frame

-----------------------------------------------------------------------------
(***************************************************************************)
(* What each step keeps, whatever has raced: <Step>Frame                   *)
(***************************************************************************)
LEMMA CountTyped ==
  ASSUME Types, NEW i
  PROVE  Inc(count, i) \in [Indices -> Int] /\ Dec(count, i) \in [Indices -> Int]
  <1>1. CASE IsTerminal(i)
    BY <1>1 DEF Types, Inc, Dec
  <1>2. CASE ~IsTerminal(i)
    <2>1. CASE i \in Indices
      <3>1. count[i] \in Int /\ count[i] + 1 \in Int /\ count[i] - 1 \in Int
        BY <2>1 DEF Types
      <3>2. QED
        BY <1>2, <3>1 DEF Types, Inc, Dec
    <2>2. CASE i \notin Indices
      BY <1>2, <2>2 DEF Types, Inc, Dec
    <2>3. QED
      BY <2>1, <2>2
  <1>3. QED
    BY <1>1, <1>2

LEMMA NoGcTyped ==
  NoGc \in [pos : Nat, roots : SUBSET (HIds \cap Indices), newcap : Nat,
            copy : [Indices -> Int]]
  BY DEF NoGc

LEMMA TakeOneFrame ==
  ASSUME Frame, NEW t \in Threads, NEW r \in Regs, TakeOne(t, r)
  PROVE  Frame'
  <1>1. UNCHANGED <<capacity, data, published, used, count, args, pc, loc, paused,
                    gc, raced>>
    BY DEF TakeOne, UnchangedTable, UnchangedGc
  <1>2. HIds' = HIds /\ Handles' = Handles /\ Locs' = Locs
    BY <1>1 DEF HIds, Handles, Locs
  <1>3. Types'
    <2>1. regs' \in [Threads -> [Regs -> Handles]]
      BY Constants DEF TakeOne, Frame, Types
    <2>2. QED
      BY <1>1, <1>2, <2>1 DEF Frame, Types
  <1>4. GateHeld'
    BY <1>1 DEF Frame, GateHeld
  <1>5. TableCanonical'
    BY <1>1 DEF Frame, TableCanonical
  <1>6. NodeArgs'
    BY <1>1 DEF Frame, NodeArgs, Building
  <1>7. QED
    BY <1>3, <1>4, <1>5, <1>6 DEF Frame

LEMMA NodeCallFrame ==
  ASSUME Frame, NEW t \in Threads, NEW v \in Vals, NEW a \in Regs, NEW b \in Regs,
         NodeCall(t, v, a, b)
  PROVE  Frame'
  <1>1. UNCHANGED <<capacity, data, published, used, count, paused, gc, raced>>
    BY DEF NodeCall, UnchangedTable, UnchangedGc
  <1>2. HIds' = HIds /\ Handles' = Handles /\ Locs' = Locs
    BY <1>1 DEF HIds, Handles, Locs
  <1>3. Types'
    <2>1. regs[t][a] \in Handles /\ regs[t][b] \in Handles
      BY DEF Frame, Types
    <2>2. NoLoc \in Locs /\ v \in 0 .. NVars
      BY Constants, Bounds DEF Frame, Vals
    <2>3. [NoLoc EXCEPT !.v = v, !.dst = a] \in Locs
      BY <2>2 DEF Locs
    <2>4. regs' \in [Threads -> [Regs -> Handles]]
      BY <2>1, <2>2, <2>3, Constants DEF NodeCall, Frame, Types
    <2>5. args' \in [Threads -> [ArgNames -> Handles]]
      BY <2>1, <2>2, <2>3, Constants DEF NodeCall, Frame, Types, ArgNames
    <2>6. loc' \in [Threads -> Locs]
      BY <2>1, <2>2, <2>3, Constants DEF NodeCall, Frame, Types
    <2>7. pc' \in [Threads -> Pcs]
      BY DEF NodeCall, Goto, Pcs, Frame, Types
    <2>8. QED
      BY <1>1, <1>2, <2>4, <2>5, <2>6, <2>7 DEF Frame, Types
  <1>4. GateHeld'
    BY <1>1 DEF NodeCall, Goto, Frame, Types, GateHeld, GcPcs
  <1>5. TableCanonical'
    BY <1>1 DEF Frame, TableCanonical
  <1>6. NodeArgs'
    BY <1>1 DEF NodeCall, Goto, Frame, Types, NodeArgs, Building, GcPcs
  <1>7. QED
    BY <1>3, <1>4, <1>5, <1>6 DEF Frame

LEMMA FindNodeFrame ==
  ASSUME Frame, NEW t \in Threads, FindNode(t)
  PROVE  Frame'
  <1>1. UNCHANGED <<capacity, data, published, used, count, regs, args, paused, gc,
                    raced>>
    BY DEF FindNode, UnchangedTable, UnchangedGc
  <1>2. HIds' = HIds /\ Handles' = Handles /\ Locs' = Locs
    BY <1>1 DEF HIds, Handles, Locs
  <1>3. Types'
    <2>1. PICK i \in published : loc' = [loc EXCEPT ![t].raw = i, ![t].new = FALSE]
      BY DEF FindNode
    <2>2. i \in HIds /\ loc[t] \in Locs
      BY DEF Frame, Types
    <2>3. loc' \in [Threads -> Locs]
      BY <2>1, <2>2, Constants DEF FindNode, Frame, Types, Locs
    <2>4. pc' \in [Threads -> Pcs]
      BY DEF FindNode, Goto, Pcs, Frame, Types
    <2>5. QED
      BY <1>1, <1>2, <2>3, <2>4 DEF Frame, Types
  <1>4. GateHeld'
    BY <1>1 DEF FindNode, Goto, Frame, Types, GateHeld, GcPcs
  <1>5. TableCanonical'
    BY <1>1 DEF Frame, TableCanonical
  <1>6. NodeArgs'
    BY <1>1 DEF FindNode, Goto, Frame, Types, NodeArgs, Building, GcPcs
  <1>7. QED
    BY <1>3, <1>4, <1>5, <1>6 DEF Frame

LEMMA CreateNodeFrame ==
  ASSUME Frame, NEW t \in Threads, CreateNode(t)
  PROVE  Frame'
  <1>1. UNCHANGED <<capacity, count, regs, args, paused, gc, raced>>
    BY DEF CreateNode, UnchangedGc
  <1>2. HIds' = HIds /\ Handles' = Handles /\ Locs' = Locs
    BY <1>1 DEF HIds, Handles, Locs
  <1>3. PICK i \in Free :
          /\ \A j \in published : data[j] # WantedNode(t)
          /\ data' = [data EXCEPT ![i] = WantedNode(t)]
          /\ published' = published \cup {i}
          /\ used' = used \cup {i}
          /\ loc' = [loc EXCEPT ![t].raw = i, ![t].new = TRUE]
    BY DEF CreateNode
  <1>4. i \in HIds /\ i \in Indices /\ i \notin used /\ i \notin published
    BY <1>3, Bounds DEF Free, Frame, Types, HIds, Indices
  <1>5. loc[t] \in Locs /\ args[t].lo \in Handles /\ args[t].hi \in Handles
    BY DEF Frame, Types, ArgNames
  <1>6. WantedNode(t) \in [v : 0 .. NVars, lo : HIds, hi : HIds]
    BY <1>5 DEF WantedNode, Node, Locs, Handles
  <1>7. Types'
    <2>1. pc' \in [Threads -> Pcs]
      BY DEF CreateNode, Goto, Pcs, Frame, Types
    <2>2. loc' \in [Threads -> Locs]
      BY <1>3, <1>4, <1>5 DEF Frame, Types, Locs
    <2>3. data' \in [Indices -> [v : 0 .. NVars, lo : HIds, hi : HIds]]
      BY <1>3, <1>6 DEF Frame, Types
    <2>4. /\ published' \subseteq used' /\ published' \subseteq Indices
          /\ used' \subseteq HIds
      BY <1>3, <1>4 DEF Frame, Types
    <2>5. QED
      BY <1>1, <1>2, <2>1, <2>2, <2>3, <2>4 DEF Frame, Types
  <1>8. GateHeld'
    BY <1>1 DEF Frame, Types, CreateNode, Goto, GateHeld, GcPcs, Pcs
  <1>9. TableCanonical'
    <2>1. data'[i] = WantedNode(t) /\ \A j \in published : data'[j] = data[j]
      BY <1>3, <1>4 DEF Frame, Types
    <2>2. QED
      BY <1>3, <2>1 DEF Frame, TableCanonical
  <1>10. NodeArgs'
    BY <1>1, <1>3 DEF Frame, Types, CreateNode, Goto, NodeArgs, Building, GcPcs,
       Locs
  <1>11. QED
    BY <1>7, <1>8, <1>9, <1>10 DEF Frame

LEMMA FindFullFrame ==
  ASSUME Frame, NEW t \in Threads, FindFull(t)
  PROVE  Frame'
  <1>1. UNCHANGED <<capacity, data, published, used, count, regs, args, loc,
                    paused, gc, raced>>
    BY DEF FindFull, UnchangedTable, UnchangedGc
  <1>2. HIds' = HIds /\ Handles' = Handles /\ Locs' = Locs
    BY <1>1 DEF HIds, Handles, Locs
  <1>3. Types'
    <2>1. pc' \in [Threads -> Pcs]
      BY DEF FindFull, Goto, Pcs, Frame, Types
    <2>2. QED
      BY <1>1, <1>2, <2>1 DEF Frame, Types
  <1>4. GateHeld'
    BY <1>1 DEF FindFull, Goto, Frame, Types, GateHeld, GcPcs
  <1>5. TableCanonical'
    BY <1>1 DEF Frame, TableCanonical
  <1>6. NodeArgs'
    BY <1>1 DEF FindFull, Goto, Frame, Types, NodeArgs, Building, GcPcs,
       Locs
  <1>7. QED
    BY <1>3, <1>4, <1>5, <1>6 DEF Frame

LEMMA CountNodeFrame ==
  ASSUME Frame, NEW t \in Threads, CountNode(t)
  PROVE  Frame'
  <1>1. UNCHANGED <<capacity, data, published, used, regs, paused, gc, raced>>
    BY DEF CountNode, UnchangedTable, UnchangedGc
  <1>2. HIds' = HIds /\ Handles' = Handles /\ Locs' = Locs
    BY <1>1 DEF HIds, Handles, Locs
  <1>3. Types'
    <2>1. /\ loc[t] \in Locs /\ loc[t].v \in Nat /\ args[t].lo \in Handles
          /\ args[t].hi \in Handles
      BY Bounds DEF Frame, Types, Locs, ArgNames
    <2>2. args[t].lo.fam \cup Above(loc[t].v, args[t].hi.fam) \in Fams
      BY <2>1, FamsClosed DEF Handles
    <2>3. Handle(loc[t].raw, args[t].lo.fam \cup Above(loc[t].v, args[t].hi.fam)) \in Handles
      BY <2>1, <2>2 DEF Handle, Handles, Locs
    <2>4. [NoLoc EXCEPT !.dst = loc[t].dst, !.ret = "drop_hi"] \in Locs
      BY <2>1, Constants DEF Frame, Locs
    <2>5. count' \in [Indices -> Int]
      BY CountTyped DEF CountNode, Frame
    <2>6. args' \in [Threads -> [ArgNames -> Handles]]
      BY <2>1, <2>2, <2>3, <2>4, Constants DEF CountNode, Frame, Types, ArgNames
    <2>7. loc' \in [Threads -> Locs]
      BY <2>1, <2>2, <2>3, <2>4, Constants DEF CountNode, Frame, Types
    <2>8. pc' \in [Threads -> Pcs]
      BY DEF CountNode, Goto, Pcs, Frame, Types
    <2>9. QED
      BY <1>1, <1>2, <2>5, <2>6, <2>7, <2>8 DEF Frame, Types
  <1>4. GateHeld'
    BY <1>1 DEF CountNode, Goto, Frame, Types, GateHeld, GcPcs
  <1>5. TableCanonical'
    BY <1>1 DEF Frame, TableCanonical
  <1>6. NodeArgs'
    BY <1>1 DEF CountNode, Goto, Frame, Types, NodeArgs, Building, GcPcs
  <1>7. QED
    BY <1>3, <1>4, <1>5, <1>6 DEF Frame

LEMMA DropHiFrame ==
  ASSUME Frame, NEW t \in Threads, DropHi(t)
  PROVE  Frame'
  <1>1. UNCHANGED <<capacity, data, published, used, regs, loc, paused, gc, raced>>
    BY DEF DropHi, UnchangedTable, UnchangedGc
  <1>2. HIds' = HIds /\ Handles' = Handles /\ Locs' = Locs
    BY <1>1 DEF HIds, Handles, Locs
  <1>3. Types'
    <2>1. count' \in [Indices -> Int]
      BY CountTyped DEF DropHi, Frame
    <2>2. args' \in [Threads -> [ArgNames -> Handles]]
      BY Constants DEF DropHi, Frame, Types, ArgNames
    <2>3. pc' \in [Threads -> Pcs]
      BY DEF DropHi, Goto, Pcs, Frame, Types
    <2>4. QED
      BY <1>1, <1>2, <2>1, <2>2, <2>3 DEF Frame, Types
  <1>4. GateHeld'
    BY <1>1 DEF DropHi, Goto, Frame, Types, GateHeld, GcPcs
  <1>5. TableCanonical'
    BY <1>1 DEF Frame, TableCanonical
  <1>6. NodeArgs'
    BY <1>1 DEF DropHi, Goto, Frame, Types, NodeArgs, Building, GcPcs
  <1>7. QED
    BY <1>3, <1>4, <1>5, <1>6 DEF Frame

LEMMA DropLoFrame ==
  ASSUME Frame, NEW t \in Threads, DropLo(t)
  PROVE  Frame'
  <1>1. UNCHANGED <<capacity, data, published, used, paused, gc, raced>>
    BY DEF DropLo, UnchangedTable, UnchangedGc
  <1>2. HIds' = HIds /\ Handles' = Handles /\ Locs' = Locs
    BY <1>1 DEF HIds, Handles, Locs
  <1>3. Types'
    <2>1. args[t].res \in Handles
      BY DEF Frame, Types, ArgNames
    <2>2. count' \in [Indices -> Int]
      BY CountTyped DEF DropLo, Frame
    <2>3. regs' \in [Threads -> [Regs -> Handles]]
      BY <2>1, Constants DEF DropLo, Frame, Types
    <2>4. args' \in [Threads -> [ArgNames -> Handles]]
      BY <2>1, Constants DEF DropLo, Frame, Types, ArgNames
    <2>5. loc' \in [Threads -> Locs]
      BY <2>1, Constants DEF DropLo, Frame, Types
    <2>6. pc' \in [Threads -> Pcs]
      BY DEF DropLo, Goto, Pcs, Frame, Types
    <2>7. QED
      BY <1>1, <1>2, <2>2, <2>3, <2>4, <2>5, <2>6 DEF Frame, Types
  <1>4. GateHeld'
    BY <1>1 DEF DropLo, Goto, Frame, Types, GateHeld, GcPcs
  <1>5. TableCanonical'
    BY <1>1 DEF Frame, TableCanonical
  <1>6. NodeArgs'
    BY <1>1 DEF DropLo, Goto, Frame, Types, NodeArgs, Building, GcPcs
  <1>7. QED
    BY <1>3, <1>4, <1>5, <1>6 DEF Frame

LEMMA FullCollectsFrame ==
  ASSUME Frame, NEW t \in Threads, FullCollects(t)
  PROVE  Frame'
  <1>1. UNCHANGED <<capacity, data, published, used, count, regs, args, paused, gc,
                    raced>>
    BY DEF FullCollects, UnchangedTable, UnchangedGc
  <1>2. HIds' = HIds /\ Handles' = Handles /\ Locs' = Locs
    BY <1>1 DEF HIds, Handles, Locs
  <1>3. Types'
    <2>1. loc[t] \in Locs
      BY DEF Frame, Types
    <2>2. pc' \in [Threads -> Pcs]
      BY DEF FullCollects, Goto, Pcs, Frame, Types
    <2>3. loc' \in [Threads -> Locs]
      BY <2>1, Constants DEF FullCollects, Frame, Types, Locs
    <2>4. QED
      BY <1>1, <1>2, <2>2, <2>3 DEF Frame, Types
  <1>4. GateHeld'
    BY <1>1 DEF FullCollects, Goto, Frame, Types, GateHeld, GcPcs
  <1>5. TableCanonical'
    BY <1>1 DEF Frame, TableCanonical
  <1>6. NodeArgs'
    BY <1>1 DEF FullCollects, Goto, Frame, Types, NodeArgs, Building, GcPcs
  <1>7. QED
    BY <1>3, <1>4, <1>5, <1>6 DEF Frame

LEMMA FullPanicsFrame ==
  ASSUME Frame, NEW t \in Threads, FullPanics(t)
  PROVE  Frame'
  <1>1. UNCHANGED <<capacity, data, published, used, count, regs, args, paused,
                    gc, raced>>
    BY DEF FullPanics, UnchangedTable, UnchangedGc
  <1>2. HIds' = HIds /\ Handles' = Handles /\ Locs' = Locs
    BY <1>1 DEF HIds, Handles, Locs
  <1>3. Types'
    <2>1. pc' \in [Threads -> Pcs]
      BY DEF FullPanics, Goto, Pcs, Frame, Types
    <2>2. [NoLoc EXCEPT !.dst = loc[t].dst, !.ret = "drop_hi"] \in Locs
      BY Constants DEF Frame, Types, Locs
    <2>3. loc' \in [Threads -> Locs]
      BY <2>2 DEF FullPanics, Frame, Types
    <2>4. QED
      BY <1>1, <1>2, <2>1, <2>3 DEF Frame, Types
  <1>4. GateHeld'
    BY <1>1 DEF FullPanics, Goto, Frame, Types, GateHeld, GcPcs
  <1>5. TableCanonical'
    BY <1>1 DEF Frame, TableCanonical
  <1>6. NodeArgs'
    BY <1>1 DEF FullPanics, Goto, Frame, Types, NodeArgs, Building, GcPcs
  <1>7. QED
    BY <1>3, <1>4, <1>5, <1>6 DEF Frame

LEMMA ChildReadFrame ==
  ASSUME Frame, NEW t \in Threads, NEW r \in Regs, NEW side \in {"lo", "hi"},
         ChildRead(t, r, side)
  PROVE  Frame'
  <1>1. UNCHANGED <<capacity, data, published, used, count, paused, gc, raced>>
    BY DEF ChildRead, UnchangedTable, UnchangedGc
  <1>2. HIds' = HIds /\ Handles' = Handles /\ Locs' = Locs
    BY <1>1 DEF HIds, Handles, Locs
  <1>3. Types'
    <2>1. /\ regs[t][r] \in Handles /\ regs[t][r].id \in Indices
          /\ regs[t][r].fam \in Fams
      BY Bounds DEF Frame, Types, ChildRead, Handles
    <2>2. data[regs[t][r].id] \in [v : 0 .. NVars, lo : HIds, hi : HIds]
      BY <2>1 DEF Frame, Types
    <2>3. data[regs[t][r].id].v \in Nat
      BY <2>2, Bounds DEF Frame
    <2>4. /\ Without(data[regs[t][r].id].v, regs[t][r].fam) \in Fams
          /\ Cofactor(data[regs[t][r].id].v, regs[t][r].fam) \in Fams
      BY <2>1, <2>2, <2>3, FamsClosed
    <2>5. regs' \in [Threads -> [Regs -> Handles]]
      BY <2>1, <2>2, <2>3, <2>4, Constants DEF ChildRead, Frame, Types
    <2>6. args' \in [Threads -> [ArgNames -> Handles]]
      BY <2>1, <2>2, <2>3, <2>4, Constants DEF ChildRead, Frame, Types, ArgNames
    <2>7. loc' \in [Threads -> Locs]
      BY <2>1, <2>2, <2>3, <2>4, Constants DEF ChildRead, Frame, Types, Locs
    <2>8. pc' \in [Threads -> Pcs]
      BY DEF ChildRead, Goto, Pcs, Frame, Types
    <2>9. QED
      BY <1>1, <1>2, <2>5, <2>6, <2>7, <2>8 DEF Frame, Types
  <1>4. GateHeld'
    BY <1>1 DEF ChildRead, Goto, Frame, Types, GateHeld, GcPcs
  <1>5. TableCanonical'
    BY <1>1 DEF Frame, TableCanonical
  <1>6. NodeArgs'
    BY <1>1 DEF ChildRead, Goto, Frame, Types, NodeArgs, Building, GcPcs
  <1>7. QED
    BY <1>3, <1>4, <1>5, <1>6 DEF Frame

LEMMA ChildCountFrame ==
  ASSUME Frame, NEW t \in Threads, ChildCount(t)
  PROVE  Frame'
  <1>1. UNCHANGED <<capacity, data, published, used, regs, loc, paused, gc, raced>>
    BY DEF ChildCount, UnchangedTable, UnchangedGc
  <1>2. HIds' = HIds /\ Handles' = Handles /\ Locs' = Locs
    BY <1>1 DEF HIds, Handles, Locs
  <1>3. Types'
    <2>1. loc[t] \in Locs
      BY DEF Frame, Types
    <2>2. Handle(loc[t].raw, loc[t].fam) \in Handles
      BY <2>1 DEF Handle, Handles, Locs
    <2>3. count' \in [Indices -> Int]
      BY CountTyped DEF ChildCount, Frame
    <2>4. args' \in [Threads -> [ArgNames -> Handles]]
      BY <2>1, <2>2, Constants DEF ChildCount, Frame, Types, ArgNames
    <2>5. pc' \in [Threads -> Pcs]
      BY DEF ChildCount, Goto, Pcs, Frame, Types
    <2>6. QED
      BY <1>1, <1>2, <2>3, <2>4, <2>5 DEF Frame, Types
  <1>4. GateHeld'
    BY <1>1 DEF ChildCount, Goto, Frame, Types, GateHeld, GcPcs
  <1>5. TableCanonical'
    BY <1>1 DEF Frame, TableCanonical
  <1>6. NodeArgs'
    BY <1>1 DEF ChildCount, Goto, Frame, Types, NodeArgs, Building, GcPcs
  <1>7. QED
    BY <1>3, <1>4, <1>5, <1>6 DEF Frame

LEMMA ChildDropFrame ==
  ASSUME Frame, NEW t \in Threads, ChildDrop(t)
  PROVE  Frame'
  <1>1. UNCHANGED <<capacity, data, published, used, paused, gc, raced>>
    BY DEF ChildDrop, UnchangedTable, UnchangedGc
  <1>2. HIds' = HIds /\ Handles' = Handles /\ Locs' = Locs
    BY <1>1 DEF HIds, Handles, Locs
  <1>3. Types'
    <2>1. args[t].res \in Handles
      BY DEF Frame, Types, ArgNames
    <2>2. count' \in [Indices -> Int]
      BY CountTyped DEF ChildDrop, Frame
    <2>3. regs' \in [Threads -> [Regs -> Handles]]
      BY <2>1, Constants DEF ChildDrop, Frame, Types
    <2>4. args' \in [Threads -> [ArgNames -> Handles]]
      BY <2>1, Constants DEF ChildDrop, Frame, Types, ArgNames
    <2>5. loc' \in [Threads -> Locs]
      BY <2>1, Constants DEF ChildDrop, Frame, Types
    <2>6. pc' \in [Threads -> Pcs]
      BY DEF ChildDrop, Goto, Pcs, Frame, Types
    <2>7. QED
      BY <1>1, <1>2, <2>2, <2>3, <2>4, <2>5, <2>6 DEF Frame, Types
  <1>4. GateHeld'
    BY <1>1 DEF ChildDrop, Goto, Frame, Types, GateHeld, GcPcs
  <1>5. TableCanonical'
    BY <1>1 DEF Frame, TableCanonical
  <1>6. NodeArgs'
    BY <1>1 DEF ChildDrop, Goto, Frame, Types, NodeArgs, Building, GcPcs
  <1>7. QED
    BY <1>3, <1>4, <1>5, <1>6 DEF Frame

LEMMA GetReadFrame ==
  ASSUME Frame, NEW t \in Threads, NEW r \in Regs, NEW a \in Regs, NEW b \in Regs,
         GetRead(t, r, a, b)
  PROVE  Frame'
  <1>1. UNCHANGED <<capacity, data, published, used, count, regs, args, paused, gc,
                    raced>>
    BY DEF GetRead, UnchangedTable, UnchangedGc
  <1>2. HIds' = HIds /\ Handles' = Handles /\ Locs' = Locs
    BY <1>1 DEF HIds, Handles, Locs
  <1>3. Types'
    <2>1. /\ regs[t][r] \in Handles /\ regs[t][r].id \in Indices
          /\ regs[t][r].fam \in Fams
      BY Bounds DEF Frame, Types, GetRead, Handles
    <2>2. data[regs[t][r].id] \in [v : 0 .. NVars, lo : HIds, hi : HIds]
      BY <2>1 DEF Frame, Types
    <2>3. data[regs[t][r].id].v \in Nat
      BY <2>2, Bounds DEF Frame
    <2>4. /\ Without(data[regs[t][r].id].v, regs[t][r].fam) \in Fams
          /\ Cofactor(data[regs[t][r].id].v, regs[t][r].fam) \in Fams
      BY <2>1, <2>2, <2>3, FamsClosed
    <2>5. loc' \in [Threads -> Locs]
      BY <2>1, <2>2, <2>3, <2>4, Constants DEF GetRead, Frame, Types, Locs
    <2>6. pc' \in [Threads -> Pcs]
      BY DEF GetRead, Goto, Pcs, Frame, Types
    <2>7. QED
      BY <1>1, <1>2, <2>5, <2>6 DEF Frame, Types
  <1>4. GateHeld'
    BY <1>1 DEF GetRead, Goto, Frame, Types, GateHeld, GcPcs
  <1>5. TableCanonical'
    BY <1>1 DEF Frame, TableCanonical
  <1>6. NodeArgs'
    BY <1>1 DEF GetRead, Goto, Frame, Types, NodeArgs, Building, GcPcs
  <1>7. QED
    BY <1>3, <1>4, <1>5, <1>6 DEF Frame

LEMMA GetLoFrame ==
  ASSUME Frame, NEW t \in Threads, GetLo(t)
  PROVE  Frame'
  <1>1. UNCHANGED <<capacity, data, published, used, args, loc, paused, gc, raced>>
    BY DEF GetLo, UnchangedTable, UnchangedGc
  <1>2. HIds' = HIds /\ Handles' = Handles /\ Locs' = Locs
    BY <1>1 DEF HIds, Handles, Locs
  <1>3. Types'
    <2>1. loc[t] \in Locs
      BY DEF Frame, Types
    <2>2. Handle(loc[t].raw, loc[t].fam) \in Handles
      BY <2>1 DEF Handle, Handles, Locs
    <2>3. count' \in [Indices -> Int]
      BY CountTyped DEF GetLo, Frame
    <2>4. regs' \in [Threads -> [Regs -> Handles]]
      BY <2>1, <2>2, Constants DEF GetLo, Frame, Types
    <2>5. pc' \in [Threads -> Pcs]
      BY DEF GetLo, Goto, Pcs, Frame, Types
    <2>6. QED
      BY <1>1, <1>2, <2>3, <2>4, <2>5 DEF Frame, Types
  <1>4. GateHeld'
    BY <1>1 DEF GetLo, Goto, Frame, Types, GateHeld, GcPcs
  <1>5. TableCanonical'
    BY <1>1 DEF Frame, TableCanonical
  <1>6. NodeArgs'
    BY <1>1 DEF GetLo, Goto, Frame, Types, NodeArgs, Building, GcPcs
  <1>7. QED
    BY <1>3, <1>4, <1>5, <1>6 DEF Frame

LEMMA GetHiFrame ==
  ASSUME Frame, NEW t \in Threads, GetHi(t)
  PROVE  Frame'
  <1>1. UNCHANGED <<capacity, data, published, used, args, paused, gc, raced>>
    BY DEF GetHi, UnchangedTable, UnchangedGc
  <1>2. HIds' = HIds /\ Handles' = Handles /\ Locs' = Locs
    BY <1>1 DEF HIds, Handles, Locs
  <1>3. Types'
    <2>1. loc[t] \in Locs
      BY DEF Frame, Types
    <2>2. Handle(loc[t].raw2, loc[t].fam2) \in Handles
      BY <2>1 DEF Handle, Handles, Locs
    <2>3. count' \in [Indices -> Int]
      BY CountTyped DEF GetHi, Frame
    <2>4. regs' \in [Threads -> [Regs -> Handles]]
      BY <2>1, <2>2, Constants DEF GetHi, Frame, Types
    <2>5. loc' \in [Threads -> Locs]
      BY <2>1, <2>2, Constants DEF GetHi, Frame, Types
    <2>6. pc' \in [Threads -> Pcs]
      BY DEF GetHi, Goto, Pcs, Frame, Types
    <2>7. QED
      BY <1>1, <1>2, <2>3, <2>4, <2>5, <2>6 DEF Frame, Types
  <1>4. GateHeld'
    BY <1>1 DEF GetHi, Goto, Frame, Types, GateHeld, GcPcs
  <1>5. TableCanonical'
    BY <1>1 DEF Frame, TableCanonical
  <1>6. NodeArgs'
    BY <1>1 DEF GetHi, Goto, Frame, Types, NodeArgs, Building, GcPcs
  <1>7. QED
    BY <1>3, <1>4, <1>5, <1>6 DEF Frame

LEMMA CloneHandleFrame ==
  ASSUME Frame, NEW t \in Threads, NEW r \in Regs, NEW q \in Regs, CloneHandle(t,
         r, q)
  PROVE  Frame'
  <1>1. UNCHANGED <<capacity, data, published, used, args, pc, loc, paused, gc,
                    raced>>
    BY DEF CloneHandle, UnchangedTable, UnchangedGc
  <1>2. HIds' = HIds /\ Handles' = Handles /\ Locs' = Locs
    BY <1>1 DEF HIds, Handles, Locs
  <1>3. Types'
    <2>1. regs[t][r] \in Handles
      BY DEF Frame, Types
    <2>2. count' \in [Indices -> Int]
      BY CountTyped DEF CloneHandle, Frame
    <2>3. regs' \in [Threads -> [Regs -> Handles]]
      BY <2>1, Constants DEF CloneHandle, Frame, Types
    <2>4. QED
      BY <1>1, <1>2, <2>2, <2>3 DEF Frame, Types
  <1>4. GateHeld'
    BY <1>1 DEF Frame, GateHeld
  <1>5. TableCanonical'
    BY <1>1 DEF Frame, TableCanonical
  <1>6. NodeArgs'
    BY <1>1 DEF Frame, NodeArgs, Building
  <1>7. QED
    BY <1>3, <1>4, <1>5, <1>6 DEF Frame

LEMMA DropHandleFrame ==
  ASSUME Frame, NEW t \in Threads, NEW r \in Regs, DropHandle(t, r)
  PROVE  Frame'
  <1>1. UNCHANGED <<capacity, data, published, used, args, pc, loc, paused, gc,
                    raced>>
    BY DEF DropHandle, UnchangedTable, UnchangedGc
  <1>2. HIds' = HIds /\ Handles' = Handles /\ Locs' = Locs
    BY <1>1 DEF HIds, Handles, Locs
  <1>3. Types'
    <2>1. count' \in [Indices -> Int]
      BY CountTyped DEF DropHandle, Frame
    <2>2. regs' \in [Threads -> [Regs -> Handles]]
      BY Constants DEF DropHandle, Frame, Types
    <2>3. QED
      BY <1>1, <1>2, <2>1, <2>2 DEF Frame, Types
  <1>4. GateHeld'
    BY <1>1 DEF Frame, GateHeld
  <1>5. TableCanonical'
    BY <1>1 DEF Frame, TableCanonical
  <1>6. NodeArgs'
    BY <1>1 DEF Frame, NodeArgs, Building
  <1>7. QED
    BY <1>3, <1>4, <1>5, <1>6 DEF Frame

LEMMA SendHandleFrame ==
  ASSUME Frame, NEW t \in Threads, NEW r \in Regs, NEW u \in Threads,
         NEW q \in Regs, SendHandle(t, r, u, q)
  PROVE  Frame'
  <1>1. UNCHANGED <<capacity, data, published, used, count, args, pc, loc, paused,
                    gc, raced>>
    BY DEF SendHandle, UnchangedTable, UnchangedGc
  <1>2. HIds' = HIds /\ Handles' = Handles /\ Locs' = Locs
    BY <1>1 DEF HIds, Handles, Locs
  <1>3. Types'
    <2>1. regs[t][r] \in Handles
      BY DEF Frame, Types
    <2>2. regs' \in [Threads -> [Regs -> Handles]]
      BY <2>1, Constants DEF SendHandle, Frame, Types
    <2>3. QED
      BY <1>1, <1>2, <2>2 DEF Frame, Types
  <1>4. GateHeld'
    BY <1>1 DEF Frame, GateHeld
  <1>5. TableCanonical'
    BY <1>1 DEF Frame, TableCanonical
  <1>6. NodeArgs'
    BY <1>1 DEF Frame, NodeArgs, Building
  <1>7. QED
    BY <1>3, <1>4, <1>5, <1>6 DEF Frame

LEMMA GcCallFrame ==
  ASSUME Frame, NEW t \in Threads, GcCall(t)
  PROVE  Frame'
  <1>1. UNCHANGED <<capacity, data, published, used, count, regs, args, paused, gc,
                    raced>>
    BY DEF GcCall, UnchangedTable, UnchangedGc
  <1>2. HIds' = HIds /\ Handles' = Handles /\ Locs' = Locs
    BY <1>1 DEF HIds, Handles, Locs
  <1>3. Types'
    <2>1. loc' \in [Threads -> Locs]
      BY Constants DEF GcCall, Frame, Types
    <2>2. pc' \in [Threads -> Pcs]
      BY DEF GcCall, Goto, Pcs, Frame, Types
    <2>3. QED
      BY <1>1, <1>2, <2>1, <2>2 DEF Frame, Types
  <1>4. GateHeld'
    BY <1>1 DEF GcCall, Goto, Frame, Types, GateHeld, GcPcs
  <1>5. TableCanonical'
    BY <1>1 DEF Frame, TableCanonical
  <1>6. NodeArgs'
    BY <1>1 DEF GcCall, Goto, Frame, Types, NodeArgs, Building, GcPcs, NoLoc
  <1>7. QED
    BY <1>3, <1>4, <1>5, <1>6 DEF Frame

LEMMA GcStartFrame ==
  ASSUME Frame, NEW t \in Threads, GcStart(t)
  PROVE  Frame'
  <1>1. UNCHANGED <<capacity, data, published, used, count, regs, args, loc>>
    BY DEF GcStart, UnchangedTable, UnchangedGc
  <1>2. HIds' = HIds /\ Handles' = Handles /\ Locs' = Locs
    BY <1>1 DEF HIds, Handles, Locs
  <1>3. Types'
    <2>1. ResizeTo(loc[t].force) \in Nat
      BY Bounds DEF Frame, Types, ResizeTo
    <2>2. pc' \in [Threads -> Pcs]
      BY DEF GcStart, Goto, Pcs, Frame, Types
    <2>3. paused' \in Threads \cup {NoThread}
      BY DEF GcStart, Frame, Types
    <2>4. gc' \in [pos : Nat, roots : SUBSET (HIds \cap Indices), newcap : Nat,
                  copy : [Indices -> Int]]
      BY <2>1, NoGcTyped DEF GcStart, Frame, Types
    <2>5. raced' \in BOOLEAN
      BY DEF GcStart, Frame, Types
    <2>6. QED
      BY <1>1, <1>2, <2>2, <2>3, <2>4, <2>5 DEF Frame, Types
  <1>4. GateHeld'
    <2>1. capacity \in Nat /\ MaxTable \in Nat /\ capacity <= MaxTable
      BY Bounds DEF Frame, Types
    <2>2. \A f : capacity <= ResizeTo(f) /\ ResizeTo(f) <= MaxTable
      BY <2>1 DEF ResizeTo
    <2>3. gc'.newcap = ResizeTo(loc[t].force) /\ gc'.pos = 2
      BY DEF GcStart, NoGc
    <2>4. "scan" \in GcPcs /\ "gc" \notin GcPcs
      BY DEF GcPcs
    <2>5. /\ paused = NoThread /\ paused' = t /\ pc[t] = "gc"
          /\ pc' = [pc EXCEPT ![t] = "scan"]
      BY DEF GcStart, Goto, GateOpen
    <2>6. \A u \in Threads : pc[u] \notin GcPcs
      BY <2>5, Bounds DEF Frame, GateHeld
    <2>7. QED
      BY <1>1, <2>2, <2>3, <2>4, <2>5, <2>6 DEF Frame, Types, GateHeld, GcPcs
  <1>5. TableCanonical'
    BY <1>1 DEF Frame, TableCanonical
  <1>6. NodeArgs'
    BY <1>1 DEF GcStart, Goto, Frame, Types, NodeArgs, Building, GcPcs
  <1>7. QED
    BY <1>3, <1>4, <1>5, <1>6 DEF Frame

LEMMA GcRefusedFrame ==
  ASSUME Frame, NEW t \in Threads, GcRefused(t)
  PROVE  Frame'
  <1>1. UNCHANGED <<capacity, data, published, used, count, regs, args, loc,
                    paused, gc, raced>>
    BY DEF GcRefused, UnchangedTable, UnchangedGc
  <1>2. HIds' = HIds /\ Handles' = Handles /\ Locs' = Locs
    BY <1>1 DEF HIds, Handles, Locs
  <1>3. Types'
    <2>1. pc' \in [Threads -> Pcs]
      BY DEF GcRefused, Goto, Pcs, Frame, Types
    <2>2. QED
      BY <1>1, <1>2, <2>1 DEF Frame, Types
  <1>4. GateHeld'
    BY <1>1 DEF GcRefused, Goto, Frame, Types, GateHeld, GcPcs
  <1>5. TableCanonical'
    BY <1>1 DEF Frame, TableCanonical
  <1>6. NodeArgs'
    BY <1>1 DEF GcRefused, Goto, Frame, Types, NodeArgs, Building, GcPcs
  <1>7. QED
    BY <1>3, <1>4, <1>5, <1>6 DEF Frame

LEMMA GcWaitedFrame ==
  ASSUME Frame, NEW t \in Threads, GcWaited(t)
  PROVE  Frame'
  <1>1. UNCHANGED <<capacity, data, published, used, count, regs, args, loc,
                    paused, gc, raced>>
    BY DEF GcWaited, UnchangedTable, UnchangedGc
  <1>2. HIds' = HIds /\ Handles' = Handles /\ Locs' = Locs
    BY <1>1 DEF HIds, Handles, Locs
  <1>3. Types'
    <2>1. pc' \in [Threads -> Pcs]
      BY DEF GcWaited, Goto, Pcs, Frame, Types, Locs
    <2>2. QED
      BY <1>1, <1>2, <2>1 DEF Frame, Types
  <1>4. GateHeld'
    <2>1. loc[t].ret \in {"idle", "find", "drop_hi"} /\ loc[t].ret \notin GcPcs
      BY DEF Frame, Types, Locs, GcPcs
    <2>2. loc[t].ret # "scan" /\ "end" \in GcPcs /\ "wait" \notin GcPcs
      BY <2>1 DEF GcPcs
    <2>3. QED
      BY <1>1, <2>1, <2>2, Bounds DEF Frame, Types, GcWaited, Goto, GateHeld,
         GateOpen
  <1>5. TableCanonical'
    BY <1>1 DEF Frame, TableCanonical
  <1>6. NodeArgs'
    BY <1>1 DEF GcWaited, Goto, Frame, Types, NodeArgs, Building, GcPcs, Locs
  <1>7. QED
    BY <1>3, <1>4, <1>5, <1>6 DEF Frame

LEMMA GcScanFrame ==
  ASSUME Frame, NEW t \in Threads, GcScan(t)
  PROVE  Frame'
  <1>1. UNCHANGED <<capacity, data, published, used, count, regs, args, loc,
                    paused, raced>>
    BY DEF GcScan, UnchangedTable, UnchangedGc
  <1>2. HIds' = HIds /\ Handles' = Handles /\ Locs' = Locs
    BY <1>1 DEF HIds, Handles, Locs
  <1>3. Types'
    <2>1. /\ gc.pos \in HIds \cap Indices
      BY Bounds DEF Frame, Types, GateHeld, GcScan, Goto, HIds, Indices
    <2>2. /\ gc.pos + 1 \in Nat
          /\ gc.roots \cup {gc.pos} \in SUBSET (HIds \cap Indices)
      BY <2>1, Bounds DEF Frame, Types
    <2>3. pc' \in [Threads -> Pcs]
      BY DEF GcScan, Goto, Pcs, Frame, Types
    <2>4. gc' \in [pos : Nat, roots : SUBSET (HIds \cap Indices), newcap : Nat,
                  copy : [Indices -> Int]]
      BY <2>2 DEF GcScan, Frame, Types
    <2>5. QED
      BY <1>1, <1>2, <2>3, <2>4 DEF Frame, Types
  <1>4. GateHeld'
    BY <1>1 DEF GcScan, Goto, Frame, Types, GateHeld, GcPcs
  <1>5. TableCanonical'
    BY <1>1 DEF Frame, TableCanonical
  <1>6. NodeArgs'
    BY <1>1 DEF GcScan, Goto, Frame, Types, NodeArgs, Building, GcPcs
  <1>7. QED
    BY <1>3, <1>4, <1>5, <1>6 DEF Frame

\* What is marked, and what of it the rehash publishes.
LEMMA Marked ==
  ASSUME Frame, NEW t \in Threads, GcSweep(t)
  PROVE  /\ gc.roots \subseteq Reach(gc.roots)
         /\ Reach(gc.roots) \subseteq HIds \cap Indices
         /\ published' \subseteq Reach(gc.roots)
  <1>1. gc.roots \in SUBSET Indices /\ gc.roots \subseteq HIds
    BY DEF Frame, Types
  <1>2. \A j \in Indices : {data[j].lo, data[j].hi} \subseteq HIds
    BY DEF Frame, Types
  <1>3. HIds \subseteq (HIds \cap Indices) \cup {0, 1}
    BY Bounds DEF Frame, IsTerminal, HIds
  <1>4. Reach(gc.roots) \subseteq HIds \cap Indices
    BY <1>1, <1>2, <1>3, ReachWithin
  <1>5. QED
    BY <1>1, <1>4, ReachHasRoots DEF GcSweep

LEMMA GcSweepFrame ==
  ASSUME Frame, NEW t \in Threads, GcSweep(t)
  PROVE  Frame'
  <1>1. UNCHANGED <<data, count, regs, args, loc, paused, gc, raced>>
    BY DEF GcSweep
  <1>2. /\ capacity' = gc.newcap /\ capacity <= gc.newcap /\ gc.newcap <= MaxTable
        /\ gc.newcap \in Nat /\ capacity \in Nat /\ 2 < capacity /\ MaxTable \in Nat
    BY Bounds DEF GcSweep, Goto, Frame, GateHeld, Types
  <1>3. HIds \subseteq HIds'
    BY <1>2 DEF HIds
  <1>4. Handles \subseteq Handles' /\ Locs \subseteq Locs'
    BY <1>3 DEF Handles, Locs
  <1>5. Types'
    <2>1. data' \in [Indices -> [v : 0 .. NVars, lo : HIds', hi : HIds']]
      <3>1. \A i \in Indices : data[i] \in [v : 0 .. NVars, lo : HIds', hi : HIds']
        BY <1>3 DEF Frame, Types
      <3>2. QED
        BY <1>1, <3>1 DEF Frame, Types
    <2>2. /\ published' \subseteq used' /\ published' \subseteq Indices
          /\ used' \subseteq HIds'
      <3>1. used' = {0, 1} \cup Reach(gc.roots)
        BY DEF GcSweep
      <3>2. QED
        BY <1>3, <3>1, Marked, Bounds DEF Frame
    <2>3. /\ regs' \in [Threads -> [Regs -> Handles']]
          /\ args' \in [Threads -> [ArgNames -> Handles']]
          /\ loc' \in [Threads -> Locs']
      BY <1>1, <1>4 DEF Frame, Types
    <2>4. pc' \in [Threads -> Pcs]
      BY DEF GcSweep, Goto, Pcs, Frame, Types
    <2>5. gc' \in [pos : Nat, roots : SUBSET (HIds' \cap Indices), newcap : Nat,
                   copy : [Indices -> Int]]
      BY <1>1, <1>3 DEF Frame, Types
    <2>6. QED
      BY <1>1, <1>2, <2>1, <2>2, <2>3, <2>4, <2>5 DEF Frame, Types
  <1>6. GateHeld'
    BY <1>1 DEF Frame, Types, GcSweep, Goto, GateHeld, GcPcs, Pcs
  <1>7. TableCanonical'
    <2>1. ASSUME NEW i \in published', NEW j \in published', data[i] = data[j]
          PROVE  i = j
      <3>1. i \in Nat /\ j \in Nat /\ i \in Reach(gc.roots) /\ j \in Reach(gc.roots)
        BY Marked, Bounds DEF Frame
      <3>2. ~(j < i) /\ ~(i < j)
        BY <2>1, <3>1 DEF GcSweep
      <3>3. QED
        BY <3>1, <3>2
    <2>2. QED
      BY <1>1, <2>1 DEF TableCanonical
  <1>8. NodeArgs'
    BY <1>1 DEF Frame, Types, GcSweep, Goto, NodeArgs, Building, GcPcs
  <1>9. QED
    BY <1>5, <1>6, <1>7, <1>8 DEF Frame

LEMMA GcCopyCountsFrame ==
  ASSUME Frame, NEW t \in Threads, GcCopyCounts(t)
  PROVE  Frame'
  <1>1. UNCHANGED <<capacity, data, published, used, count, regs, args, loc,
                    paused, raced>>
    BY DEF GcCopyCounts, UnchangedTable, UnchangedGc
  <1>2. HIds' = HIds /\ Handles' = Handles /\ Locs' = Locs
    BY <1>1 DEF HIds, Handles, Locs
  <1>3. Types'
    <2>1. pc' \in [Threads -> Pcs]
      BY DEF GcCopyCounts, Goto, Pcs, Frame, Types
    <2>2. gc' \in [pos : Nat, roots : SUBSET (HIds \cap Indices), newcap : Nat,
                  copy : [Indices -> Int]]
      BY NoGcTyped DEF GcCopyCounts, Frame, Types
    <2>3. QED
      BY <1>1, <1>2, <2>1, <2>2 DEF Frame, Types
  <1>4. GateHeld'
    BY <1>1, Bounds DEF GcCopyCounts, Goto, Frame, Types, GateHeld, GcPcs
  <1>5. TableCanonical'
    BY <1>1 DEF Frame, TableCanonical
  <1>6. NodeArgs'
    BY <1>1 DEF GcCopyCounts, Goto, Frame, Types, NodeArgs, Building, GcPcs
  <1>7. QED
    BY <1>3, <1>4, <1>5, <1>6 DEF Frame

LEMMA GcInstallCountsFrame ==
  ASSUME Frame, NEW t \in Threads, GcInstallCounts(t)
  PROVE  Frame'
  <1>1. UNCHANGED <<capacity, data, published, used, regs, args, loc, paused, gc>>
    BY DEF GcInstallCounts, UnchangedTable, UnchangedGc
  <1>2. HIds' = HIds /\ Handles' = Handles /\ Locs' = Locs
    BY <1>1 DEF HIds, Handles, Locs
  <1>3. Types'
    <2>1. pc' \in [Threads -> Pcs]
      BY DEF GcInstallCounts, Goto, Pcs, Frame, Types
    <2>2. count' \in [Indices -> Int]
      BY DEF GcInstallCounts, Frame, Types
    <2>3. raced' \in BOOLEAN
      BY DEF GcInstallCounts, Frame, Types
    <2>4. QED
      BY <1>1, <1>2, <2>1, <2>2, <2>3 DEF Frame, Types
  <1>4. GateHeld'
    BY <1>1 DEF GcInstallCounts, Goto, Frame, Types, GateHeld, GcPcs
  <1>5. TableCanonical'
    BY <1>1 DEF Frame, TableCanonical
  <1>6. NodeArgs'
    BY <1>1 DEF GcInstallCounts, Goto, Frame, Types, NodeArgs, Building, GcPcs
  <1>7. QED
    BY <1>3, <1>4, <1>5, <1>6 DEF Frame

LEMMA GcEndFrame ==
  ASSUME Frame, NEW t \in Threads, GcEnd(t)
  PROVE  Frame'
  <1>1. UNCHANGED <<capacity, data, published, used, count, regs, args, loc, raced>>
    BY DEF GcEnd, UnchangedTable, UnchangedGc
  <1>2. HIds' = HIds /\ Handles' = Handles /\ Locs' = Locs
    BY <1>1 DEF HIds, Handles, Locs
  <1>3. Types'
    <2>1. pc' \in [Threads -> Pcs]
      BY DEF GcEnd, Goto, Pcs, Frame, Types, Locs
    <2>2. paused' \in Threads \cup {NoThread}
      BY DEF GcEnd, Frame, Types
    <2>3. gc' \in [pos : Nat, roots : SUBSET (HIds \cap Indices), newcap : Nat,
                  copy : [Indices -> Int]]
      BY NoGcTyped DEF GcEnd, Frame, Types
    <2>4. QED
      BY <1>1, <1>2, <2>1, <2>2, <2>3 DEF Frame, Types
  <1>4. GateHeld'
    <2>1. loc[t].ret \in {"idle", "find", "drop_hi"} /\ loc[t].ret \notin GcPcs
      BY DEF Frame, Types, Locs, GcPcs
    <2>2. loc[t].ret # "scan" /\ "end" \in GcPcs /\ "wait" \notin GcPcs
      BY <2>1 DEF GcPcs
    <2>3. pc[t] = "end" /\ pc' = [pc EXCEPT ![t] = loc[t].ret] /\ paused' = NoThread
      BY DEF GcEnd, Goto
    <2>4. paused = t /\ \A u \in Threads \ {t} : pc[u] \notin GcPcs
      BY <2>2, <2>3 DEF Frame, GateHeld
    <2>5. \A u \in Threads : pc'[u] \notin GcPcs /\ u # NoThread
      BY <2>1, <2>3, <2>4, Bounds DEF Frame, Types
    <2>6. QED
      BY <2>3, <2>5 DEF GateHeld, GcPcs
  <1>5. TableCanonical'
    BY <1>1 DEF Frame, TableCanonical
  <1>6. NodeArgs'
    BY <1>1 DEF GcEnd, Goto, Frame, Types, NodeArgs, Building, GcPcs, Locs
  <1>7. QED
    BY <1>3, <1>4, <1>5, <1>6 DEF Frame

-----------------------------------------------------------------------------
(***************************************************************************)
(* Counts and the places they are for                                      *)
(***************************************************************************)
LEMMA SpotPlaces ==
  /\ \A t \in Threads, r \in Regs : Kept(t, r) \in Spots
  /\ \A t \in Threads, a \in ArgNames : Owned(t, a) \in Spots
  /\ \A t, r, u, q : Kept(t, r) = Kept(u, q) => t = u /\ r = q
  /\ \A t, a, u, b : Owned(t, a) = Owned(u, b) => t = u /\ a = b
  /\ \A t, r, u, a : Kept(t, r) # Owned(u, a)
  BY DEF Spots, Kept, Owned

LEMMA SpotsAre ==
  ASSUME NEW q \in Spots
  PROVE  \/ \E t \in Threads, r \in Regs : q = Kept(t, r)
         \/ \E t \in Threads, a \in ArgNames : q = Owned(t, a)
  BY DEF Spots, Kept, Owned

LEMMA HoldAt ==
  /\ \A t \in Threads, r \in Regs :
       Hold[Kept(t, r)] = regs[t][r].id /\ Hold'[Kept(t, r)] = regs'[t][r].id
  /\ \A t \in Threads, a \in ArgNames :
       Hold[Owned(t, a)] = args[t][a].id /\ Hold'[Owned(t, a)] = args'[t][a].id
  <1>1. ASSUME NEW t \in Threads, NEW r \in Regs
        PROVE  Hold[Kept(t, r)] = regs[t][r].id /\ Hold'[Kept(t, r)] = regs'[t][r].id
    BY SpotPlaces DEF Hold, Kept
  <1>2. ASSUME NEW t \in Threads, NEW a \in ArgNames
        PROVE  Hold[Owned(t, a)] = args[t][a].id /\ Hold'[Owned(t, a)] = args'[t][a].id
    BY SpotPlaces DEF Hold, Owned
  <1>3. QED
    BY <1>1, <1>2

\* Places where nothing changed hold what they held.
LEMMA Elsewhere ==
  ASSUME NEW S,
         \A t \in Threads, r \in Regs :
           Kept(t, r) \in S \/ regs'[t][r] = regs[t][r],
         \A t \in Threads, a \in ArgNames :
           Owned(t, a) \in S \/ args'[t][a] = args[t][a]
  PROVE  \A q \in Spots \ S : Hold'[q] = Hold[q]
  BY SpotsAre, HoldAt

\* The counts c are no less than the handles at the places f.
Fits(f, c) == \A i \in Indices : Number(f, i) <= c[i]

LEMMA FitsSame ==
  ASSUME NEW f, NEW g, NEW c \in [Indices -> Int], Fits(f, c),
         \A q \in Spots : g[q] = f[q] \/ g[q] \notin Indices
  PROVE  Fits(g, c)
  <1>1. ASSUME NEW i \in Indices PROVE Number(g, i) <= Number(f, i)
    BY NoMore
  <1>2. QED
    BY <1>1, WhereFinite DEF Fits

LEMMA FitsInc ==
  ASSUME NEW f, NEW g, NEW c \in [Indices -> Int], Fits(f, c), NEW p,
         \A q \in Spots \ {p} : g[q] = f[q] \/ g[q] \notin Indices,
         NEW k \in Nat, p \in Spots => g[p] = k
  PROVE  Fits(g, Inc(c, k))
  <1>1. ASSUME NEW i \in Indices PROVE Number(g, i) <= Inc(c, k)[i]
    <2>1. ~IsTerminal(i) /\ Number(f, i) <= c[i] /\ c[i] \in Int
          /\ Number(f, i) \in Nat /\ Number(g, i) \in Nat
      BY CollectorAssumption, WhereFinite DEF Indices, IsTerminal, Fits
    <2>2. CASE i = k
      <3>1. Number(g, i) <= Number(f, i) + 1
        BY OneMore, SMTT(30)
      <3>2. Inc(c, k)[i] = c[i] + 1
        BY <2>1, <2>2 DEF Inc
      <3>3. QED
        BY <2>1, <3>1, <3>2
    <2>3. CASE i # k
      <3>1. Number(g, i) <= Number(f, i)
        BY <2>3, NoMore
      <3>2. Inc(c, k)[i] = c[i]
        BY <2>1, <2>3 DEF Inc
      <3>3. QED
        BY <2>1, <3>1, <3>2
    <2>4. QED
      BY <2>2, <2>3
  <1>2. QED
    BY <1>1 DEF Fits

LEMMA FitsDec ==
  ASSUME NEW f, NEW g, NEW c \in [Indices -> Int], Fits(f, c), NEW p \in Spots,
         \A q \in Spots \ {p} : g[q] = f[q] \/ g[q] \notin Indices,
         g[p] \notin Indices
  PROVE  Fits(g, Dec(c, f[p]))
  <1>1. ASSUME NEW i \in Indices PROVE Number(g, i) <= Dec(c, f[p])[i]
    <2>1. ~IsTerminal(i) /\ Number(f, i) <= c[i] /\ c[i] \in Int
          /\ Number(f, i) \in Nat /\ Number(g, i) \in Nat
      BY CollectorAssumption, WhereFinite DEF Indices, IsTerminal, Fits
    <2>2. CASE i = f[p]
      <3>1. Number(g, i) <= Number(f, i) - 1
        BY <2>2, OneLess
      <3>2. Dec(c, f[p])[i] = c[i] - 1
        BY <2>1, <2>2 DEF Dec
      <3>3. QED
        BY <2>1, <3>1, <3>2
    <2>3. CASE i # f[p]
      <3>1. Number(g, i) <= Number(f, i)
        BY NoMore
      <3>2. Dec(c, f[p])[i] = c[i]
        BY <2>1, <2>3 DEF Dec
      <3>3. QED
        BY <2>1, <3>1, <3>2
    <2>4. QED
      BY <2>2, <2>3
  <1>2. QED
    BY <1>1 DEF Fits

LEMMA FitsMove ==
  ASSUME NEW f, NEW g, NEW c \in [Indices -> Int], Fits(f, c),
         NEW p \in Spots, NEW r, p # r,
         \A q \in Spots \ {p, r} : g[q] = f[q] \/ g[q] \notin Indices,
         r \in Spots => g[r] = f[p], g[p] \notin Indices
  PROVE  Fits(g, c)
  <1>1. ASSUME NEW i \in Indices PROVE Number(g, i) <= Number(f, i)
    <2>1. CASE i = f[p]
      BY <2>1, OneMoved
    <2>2. CASE i # f[p]
      BY <2>2, NoMore
    <2>3. QED
      BY <2>1, <2>2
  <1>2. QED
    BY <1>1, WhereFinite DEF Fits

\* What is held is in the table.
LEMMA HeldLive ==
  ASSUME Frame, Sound
  PROVE  /\ \A q \in Spots : Live(Hold[q]) /\ Hold[q] \in HIds
         /\ \A q \in Spots : Hold[q] \in Indices => count[Hold[q]] > 0
         /\ \A t \in Threads, r \in Regs : Live(regs[t][r].id)
         /\ \A t \in Threads, a \in ArgNames : Live(args[t][a].id)
  <1>1. ASSUME NEW q \in Spots PROVE Hold[q] \in HIds
    <2>1. \A t \in Threads, r \in Regs : regs[t][r].id \in HIds
      BY DEF Frame, Types, Handles
    <2>2. \A t \in Threads, a \in ArgNames : args[t][a].id \in HIds
      BY DEF Frame, Types, Handles
    <2>3. QED
      BY <2>1, <2>2, SpotsAre, HoldAt
  <1>2. ASSUME NEW q \in Spots, Hold[q] \in Indices PROVE count[Hold[q]] > 0
    <2>1. Number(Hold, Hold[q]) >= 1 /\ Number(Hold, Hold[q]) \in Nat
      BY SomeHeld, WhereFinite
    <2>2. Number(Hold, Hold[q]) <= count[Hold[q]] /\ count[Hold[q]] \in Int
      BY <1>2 DEF Sound, CountsCover, Frame, Types
    <2>3. QED
      BY <2>1, <2>2
  <1>3. ASSUME NEW q \in Spots PROVE Live(Hold[q])
    BY <1>1, <1>2, Bounds DEF Live, Sound, CountsCover, Frame
  <1>4. QED
    BY <1>1, <1>2, <1>3, SpotPlaces, HoldAt

LEMMA CountsFit ==
  CountsCover <=> /\ Fits(Hold, count)
                  /\ \A i \in Indices : count[i] > 0 => i \in published
  BY DEF CountsCover, Fits

-----------------------------------------------------------------------------
(***************************************************************************)
(* Nodes and their families                                                *)
(***************************************************************************)
LEMMA TableOrdered ==
  ASSUME Frame, Sound
  PROVE  /\ \A c \in HIds : Live(c) /\ c # 0 => Family(c) # {}
         /\ \A c \in published : \E s \in Family(c) : data[c].v \in s
         /\ Ordered(data, published)
  <1>1. ASSUME NEW c \in HIds, Live(c), c # 0 PROVE Family(c) # {}
    <2>1. CASE c \in published
      BY <2>1 DEF Sound, TableSpells
    <2>2. CASE c \notin published
      <3>1. c = 1
        BY <1>1, <2>2 DEF Live, IsTerminal, HIds
      <3>2. QED
        BY <3>1, FamilyTerminals DEF Family
    <2>3. QED
      BY <2>1, <2>2
  <1>2. ASSUME NEW c \in published PROVE \E s \in Family(c) : data[c].v \in s
    <2>1. /\ data[c].hi \in HIds /\ data[c].hi # 0 /\ Live(data[c].hi)
          /\ Family(c) = Family(data[c].lo) \cup Above(data[c].v, Family(data[c].hi))
      BY DEF Frame, Types, Sound, TableSpells
    <2>2. PICK s : s \in Family(data[c].hi)
      BY <1>1, <2>1
    <2>3. s \cup {data[c].v} \in Family(c)
      BY <2>1, <2>2 DEF Above
    <2>4. QED
      BY <2>3
  <1>3. Ordered(data, published)
    <2>1. ASSUME NEW i \in published, NEW c \in {data[i].lo, data[i].hi}, ~IsTerminal(c)
          PROVE  c \in published /\ data[i].v < data[c].v
      <3>1. c \in published
        BY <2>1 DEF Sound, TableSpells, Live
      <3>2. PICK s \in Family(c) : data[c].v \in s
        BY <1>2, <3>1
      <3>3. QED
        BY <3>1, <3>2 DEF Sound, TableSpells
    <2>2. QED
      BY <2>1 DEF Ordered, Sound, TableSpells
  <1>4. QED
    BY <1>1, <1>2, <1>3

\* A node's children are its two cofactors.
LEMMA NodeSplits ==
  ASSUME Frame, Sound, NEW i \in published
  PROVE  /\ Without(data[i].v, Family(i)) = Family(data[i].lo)
         /\ Cofactor(data[i].v, Family(i)) = Family(data[i].hi)
  <1> DEFINE v == data[i].v
             L == Family(data[i].lo)
             H == Family(data[i].hi)
  <1>1. v \in Int /\ Family(i) = L \cup Above(v, H)
    BY CollectorAssumption DEF Sound, TableSpells, Vals
  <1>2. \A s \in L \cup H : v \notin s
    <2>1. \A s \in L \cup H : \A x \in s : v < x
      BY DEF Sound, TableSpells
    <2>2. ~(v < v)
      BY <1>1
    <2>3. QED
      BY <2>1, <2>2
  <1> HIDE DEF v, L, H
  <1>3. Without(v, Family(i)) = L
    BY <1>1, <1>2 DEF Without, Above
  <1>4. Cofactor(v, Family(i)) = H
    <2>1. {x \in Family(i) : v \in x} = Above(v, H)
      BY <1>1, <1>2 DEF Above
    <2>2. \A s \in H : (s \cup {v}) \ {v} = s
      BY <1>2
    <2>3. {s \ {v} : s \in Above(v, H)} = H
      <3>1. ASSUME NEW s \in Above(v, H) PROVE s \ {v} \in H
        <4>1. PICK r \in H : s = r \cup {v}
          BY DEF Above
        <4>2. QED
          BY <2>2, <4>1
      <3>2. ASSUME NEW r \in H PROVE \E s \in Above(v, H) : r = s \ {v}
        <4>1. r \cup {v} \in Above(v, H) /\ r = (r \cup {v}) \ {v}
          BY <2>2 DEF Above
        <4>2. QED
          BY <4>1
      <3>3. QED
        BY <3>1, <3>2
    <2>4. QED
      BY <2>1, <2>3 DEF Cofactor
  <1>5. QED
    BY <1>3, <1>4 DEF v, L, H

-----------------------------------------------------------------------------
(***************************************************************************)
(* A step that misses no count loses nothing that is held: <Step>Sound     *)
(***************************************************************************)
LEMMA TerminalsSpell ==
  /\ Family(Zero.id) = Zero.fam /\ Family(One.id) = One.fam
  /\ Zero.id = 0 /\ One.id = 1 /\ 0 \notin Indices /\ 1 \notin Indices
  BY FamilyTerminals, CollectorAssumption DEF Family, Zero, One, Handle, Indices

LEMMA CountUp ==
  ASSUME Types, CountsCover, NEW k \in HIds, Live(k)
  PROVE  \A i \in Indices : Inc(count, k)[i] > 0 => count[i] > 0 \/ i \in published
  <1>1. CASE IsTerminal(k)
    BY <1>1 DEF Inc
  <1>2. CASE ~IsTerminal(k)
    BY <1>2 DEF Types, Inc, Live
  <1>3. QED
    BY <1>1, <1>2

LEMMA CountDown ==
  ASSUME Types, NEW k
  PROVE  \A i \in Indices : Dec(count, k)[i] > 0 => count[i] > 0
  <1>1. CASE IsTerminal(k)
    BY <1>1 DEF Dec
  <1>2. ASSUME ~IsTerminal(k), NEW i \in Indices, Dec(count, k)[i] > 0
        PROVE  count[i] > 0
    <2>1. count[i] \in Int
      BY DEF Types
    <2>2. CASE i = k
      BY <1>2, <2>1, <2>2 DEF Types, Dec
    <2>3. CASE i # k
      BY <1>2, <2>3 DEF Types, Dec
    <2>4. QED
      BY <2>2, <2>3
  <1>3. QED
    BY <1>1, <1>2

\* A handle that is written or dropped: the counts that cover the handles.
LEMMA CountedCovers ==
  ASSUME Frame, Sound, published \subseteq published', NEW k \in HIds, Live(k),
         count' = Inc(count, k), Fits(Hold', Inc(count, k))
  PROVE  CountsCover'
  BY CountUp DEF CountsCover, Fits, Frame, Sound

LEMMA DroppedCovers ==
  ASSUME Frame, Sound, published \subseteq published', NEW k,
         count' = Dec(count, k), Fits(Hold', Dec(count, k))
  PROVE  CountsCover'
  BY CountDown DEF CountsCover, Fits, Frame, Sound

LEMMA MovedCovers ==
  ASSUME Sound, published \subseteq published', count' = count, Fits(Hold', count)
  PROVE  CountsCover'
  BY DEF CountsCover, Fits, Sound

\* Counting an index that was not counted: no scan is in progress.
LEMMA NoScan ==
  ASSUME Frame, paused = NoThread
  PROVE  \A u \in Threads : pc[u] \notin GcPcs
  BY Bounds DEF Frame, GateHeld

LEMMA TakeOneSound ==
  ASSUME Frame, Sound, ~raced', NEW t \in Threads, NEW r \in Regs, TakeOne(t, r)
  PROVE  Sound'
  <1>1. UNCHANGED <<capacity, data, published, used, count, args, pc, loc, paused,
                    gc, raced>>
    BY DEF TakeOne, UnchangedTable, UnchangedGc
  <1>2. TableSpells'
    BY <1>1 DEF Sound, TableSpells, Family, Live
  <1>3. CountsCover'
    <2>1. \A q \in Spots \ {Kept(t, r)} : Hold'[q] = Hold[q]
      BY <1>1, Elsewhere, SpotPlaces DEF TakeOne, Frame, Types
    <2>2. Hold'[Kept(t, r)] \notin Indices
      BY HoldAt, TerminalsSpell DEF TakeOne, Frame, Types
    <2>3. Fits(Hold', count)
      BY <2>1, <2>2, FitsSame, CountsFit DEF Frame, Types, Sound
    <2>4. QED
      BY <1>1, <2>3, MovedCovers
  <1>4. HandlesSpell'
    <2>1. \A u \in Threads, x \in Regs : Family(regs'[u][x].id) = regs'[u][x].fam
      BY <1>1, TerminalsSpell DEF TakeOne, Frame, Types, Sound, HandlesSpell
    <2>2. \A u \in Threads, x \in ArgNames : Family(args'[u][x].id) = args'[u][x].fam
      BY <1>1, TerminalsSpell DEF TakeOne, Frame, Types, Sound, HandlesSpell,
         ArgNames
    <2>3. QED
      BY <1>1, <2>1, <2>2 DEF HandlesSpell, Family
  <1>5. TakenLive'
    BY <1>1 DEF Sound, TakenLive, Family, Live
  <1>6. ScanComplete'
    BY <1>1 DEF Sound, ScanComplete
  <1>7. CopyCovered'
    BY <1>1 DEF Sound, CopyCovered
  <1>8. QED
    BY <1>2, <1>3, <1>4, <1>5, <1>6, <1>7 DEF Sound

LEMMA NodeCallSound ==
  ASSUME Frame, Sound, ~raced', NEW t \in Threads, NEW v \in Vals, NEW a \in Regs,
         NEW b \in Regs, a # b, NodeCall(t, v, a, b)
  PROVE  Sound'
  <1>1. UNCHANGED <<capacity, data, published, used, count, paused, gc, raced>>
    BY DEF NodeCall, UnchangedTable, UnchangedGc
  <1>2. TableSpells'
    BY <1>1 DEF Sound, TableSpells, Family, Live
  <1>3. CountsCover'
    <2> DEFINE lo == Owned(t, "lo")
               hi == Owned(t, "hi")
               h == [q \in Spots |-> IF q = lo THEN Hold[Kept(t, a)]
                                     ELSE IF q = Kept(t, a) THEN 0 ELSE Hold[q]]
    <2>1. /\ lo \in Spots /\ hi \in Spots /\ lo # hi
          /\ Kept(t, a) \in Spots /\ Kept(t, b) \in Spots /\ Kept(t, a) # Kept(t, b)
          /\ Kept(t, a) # lo /\ Kept(t, a) # hi /\ Kept(t, b) # lo /\ Kept(t, b) # hi
          /\ Hold[Kept(t, a)] = regs[t][a].id /\ Hold[Kept(t, b)] = regs[t][b].id
      BY HoldAt, SpotPlaces DEF ArgNames
    <2>2. /\ Hold'[Kept(t, a)] = 0 /\ Hold'[Kept(t, b)] = 0
          /\ Hold'[lo] = regs[t][a].id /\ Hold'[hi] = regs[t][b].id /\ 0 \notin Indices
      BY HoldAt, TerminalsSpell DEF NodeCall, Frame, Types, ArgNames
    <2>3. \A q \in Spots \ {Kept(t, a), Kept(t, b), lo, hi} : Hold'[q] = Hold[q]
      BY <1>1, Elsewhere, SpotPlaces DEF NodeCall, Frame, Types, ArgNames
    <2>4. /\ h[Kept(t, a)] = 0
          /\ h[lo] = regs[t][a].id
          /\ h[Kept(t, b)] = regs[t][b].id
          /\ \A q \in Spots \ {Kept(t, a), lo} : h[q] = Hold[q]
      BY <2>1
    <2> HIDE DEF h, lo, hi
    <2>5. Fits(h, count)
      <3>1. h[Kept(t, a)] \notin Indices /\ h[lo] = Hold[Kept(t, a)]
        BY <2>1, <2>2, <2>4
      <3>2. QED
        BY <2>1, <2>4, <3>1, FitsMove, CountsFit, SMTT(30) DEF Frame, Types, Sound
    <2>6. \A q \in Spots \ {Kept(t, b), hi} : Hold'[q] = h[q] \/ Hold'[q] \notin Indices
      BY <2>1, <2>2, <2>3, <2>4
    <2>7. Hold'[Kept(t, b)] \notin Indices /\ Hold'[hi] = h[Kept(t, b)]
      BY <2>2, <2>4
    <2>8. Fits(Hold', count)
      BY <2>1, <2>5, <2>6, <2>7, FitsMove DEF Frame, Types
    <2>9. QED
      BY <1>1, <2>8, MovedCovers
  <1>4. HandlesSpell'
    <2>1. \A u \in Threads, x \in Regs : Family(regs'[u][x].id) = regs'[u][x].fam
      BY <1>1, TerminalsSpell DEF NodeCall, Frame, Types, Sound, HandlesSpell
    <2>2. \A u \in Threads, x \in ArgNames : Family(args'[u][x].id) = args'[u][x].fam
      BY <1>1, TerminalsSpell DEF NodeCall, Frame, Types, Sound, HandlesSpell,
         ArgNames
    <2>3. QED
      BY <1>1, <2>1, <2>2 DEF HandlesSpell, Family
  <1>5. TakenLive'
    <2>1. pc'[t] \notin UncountedPcs
      BY DEF NodeCall, Goto, Frame, Types, UncountedPcs
    <2>2. \A u \in Threads \ {t} : pc'[u] = pc[u] /\ loc'[u] = loc[u] /\ args'[u] = args[u]
      BY DEF NodeCall, Goto, Frame, Types
    <2>3. QED
      BY <1>1, <2>1, <2>2 DEF Sound, TakenLive, Family, Live, UncountedPcs
  <1>6. ScanComplete'
    <2>1. \A u \in Threads : pc'[u] = "scan" => pc[u] = "scan"
      BY DEF NodeCall, Goto, Frame, Types
    <2>2. QED
      BY <1>1, <2>1 DEF Sound, ScanComplete
  <1>7. CopyCovered'
    <2>1. \A u \in Threads : pc'[u] = "install" => pc[u] = "install"
      BY DEF NodeCall, Goto, Frame, Types, Locs
    <2>2. QED
      BY <1>1, <2>1 DEF Sound, CopyCovered
  <1>8. QED
    BY <1>2, <1>3, <1>4, <1>5, <1>6, <1>7 DEF Sound

LEMMA FindNodeSound ==
  ASSUME Frame, Sound, ~raced', NEW t \in Threads, FindNode(t)
  PROVE  Sound'
  <1>1. UNCHANGED <<capacity, data, published, used, count, regs, args, paused, gc,
                    raced>>
    BY DEF FindNode, UnchangedTable, UnchangedGc
  <1>2. TableSpells'
    BY <1>1 DEF Sound, TableSpells, Family, Live
  <1>3. CountsCover'
    <2>1. Hold' = Hold
      BY <1>1 DEF Hold
    <2>2. QED
      BY <1>1, <2>1 DEF Sound, CountsCover
  <1>4. HandlesSpell'
    BY <1>1 DEF Sound, HandlesSpell, Family
  <1>5. TakenLive'
    <2>1. PICK i \in published : /\ data[i] = WantedNode(t)
                               /\ loc' = [loc EXCEPT ![t].raw = i, ![t].new = FALSE]
      BY DEF FindNode
    <2>2. /\ Family(i) = Family(args[t].lo.id) \cup Above(loc[t].v, Family(args[t].hi.id))
          /\ Family(args[t].lo.id) = args[t].lo.fam /\ Family(args[t].hi.id) = args[t].hi.fam
      BY <2>1 DEF Sound, TableSpells, HandlesSpell, WantedNode, Node, ArgNames
    <2>3. loc'[t].raw = i /\ loc'[t].v = loc[t].v /\ Live(i)
      BY <2>1 DEF Frame, Types, Locs, Live
    <2>4. pc' = [pc EXCEPT ![t] = "inc"] /\ paused = NoThread
      BY DEF FindNode, Goto, GateOpen
    <2>5. \A u \in Threads \ {t} : pc'[u] = pc[u] /\ loc'[u] = loc[u]
      BY <2>1, <2>4 DEF Frame, Types
    <2>6. pc'[t] = "inc"
      BY <2>4 DEF Frame, Types
    <2>7. QED
      BY <1>1, <2>2, <2>3, <2>4, <2>5, <2>6 DEF Sound, TakenLive, Family, Live
  <1>6. ScanComplete'
    <2>1. \A u \in Threads : pc'[u] = "scan" => pc[u] = "scan"
      BY DEF FindNode, Goto, Frame, Types
    <2>2. QED
      BY <1>1, <2>1 DEF Sound, ScanComplete
  <1>7. CopyCovered'
    <2>1. \A u \in Threads : pc'[u] = "install" => pc[u] = "install"
      BY DEF FindNode, Goto, Frame, Types, Locs
    <2>2. QED
      BY <1>1, <2>1 DEF Sound, CopyCovered
  <1>8. QED
    BY <1>2, <1>3, <1>4, <1>5, <1>6, <1>7 DEF Sound

LEMMA CreateNodeSound ==
  ASSUME Frame, Sound, ~raced', NEW t \in Threads, CreateNode(t)
  PROVE  Sound'
  <1>1. UNCHANGED <<capacity, count, regs, args, paused, gc, raced>>
    BY DEF CreateNode, UnchangedGc
  <1>2. PICK i \in Free :
          /\ data' = [data EXCEPT ![i] = WantedNode(t)]
          /\ published' = published \cup {i}
          /\ loc' = [loc EXCEPT ![t].raw = i, ![t].new = TRUE]
    BY DEF CreateNode
  <1>3. i \in Indices /\ i \notin published /\ i # 0 /\ i # 1
    BY <1>2, Bounds DEF Free, Frame, Types, HIds, Indices
  <1> DEFINE v  == loc[t].v
             lo == args[t].lo
             hi == args[t].hi
  <1>4. data'[i] = Node(v, lo.id, hi.id) /\ \A j \in published : data'[j] = data[j]
    BY <1>2, <1>3 DEF Frame, Types, WantedNode
  <1>5. /\ lo \in Handles /\ hi \in Handles /\ v \in Vals /\ hi # Zero
        /\ \A s \in lo.fam \cup hi.fam : \A x \in s : v < x
        /\ Live(lo.id) /\ Family(lo.id) = lo.fam
        /\ Live(hi.id) /\ Family(hi.id) = hi.fam
    <2>1. pc[t] = "find"
      BY DEF CreateNode, Goto
    <2>2. lo \in Handles /\ hi \in Handles
      BY DEF Frame, Types, ArgNames
    <2>3. /\ v \in Vals
          /\ hi # Zero
          /\ \A s \in lo.fam \cup hi.fam : \A x \in s : v < x
      BY <2>1 DEF Frame, NodeArgs, Building
    <2>4. Live(lo.id) /\ Live(hi.id)
      BY HeldLive DEF ArgNames
    <2>5. Family(lo.id) = lo.fam /\ Family(hi.id) = hi.fam
      BY DEF Sound, HandlesSpell, ArgNames
    <2>6. QED
      BY <2>2, <2>3, <2>4, <2>5
  <1>6. hi.id # 0
    <2>1. ASSUME hi.id = 0 PROVE hi = Zero
      <3>1. hi.fam = {}
        BY <1>5, <2>1, FamilyTerminals DEF Family
      <3>2. QED
        BY <1>5, <2>1, <3>1 DEF Handles, Zero, Handle
    <2>2. QED
      BY <1>5, <2>1
  <1> DEFINE P == published \cup {i}
             f == lo.fam \cup Above(v, hi.fam)
             G == [j \in P \cup {0, 1} |-> IF j = i THEN f ELSE Family(j)]
  <1> HIDE DEF v, lo, hi
  <1>7. ASSUME NEW c \in {lo.id, hi.id}
        PROVE  IsTerminal(c) \/ (c \in published /\ v < data[c].v)
    <2>1. CASE c \in published
      <3>1. PICK s \in Family(c) : data[c].v \in s
        BY <2>1, TableOrdered
      <3>2. QED
        BY <1>5, <2>1, <3>1
    <2>2. CASE c \notin published
      BY <1>5, <2>2 DEF Live
    <2>3. QED
      BY <2>1, <2>2
  <1>8. \A j \in published \cup {0, 1} : FamilyIn(data', j) = Family(j)
    /\ FamilyIn(data', i) = f
    <2>1. P \in SUBSET Indices /\ published \subseteq Indices
      BY <1>3 DEF Frame, Types
    <2>2. \A j \in P : {data'[j].lo, data'[j].hi} \subseteq Ids
      <3>1. \A j \in published : {data[j].lo, data[j].hi} \subseteq Ids
        BY <2>1, Bounds DEF Frame, Types
      <3>2. lo.id \in Ids /\ hi.id \in Ids
        BY <1>5, Bounds DEF Handles, Frame
      <3>3. QED
        BY <1>4, <3>1, <3>2 DEF Node
    <2>3. Ordered(data', P)
      <3>1. Ordered(data, published)
        BY TableOrdered
      <3>2. ASSUME NEW j \in published
            PROVE  /\ data'[j].v \in Vals
                   /\ \A c \in {data'[j].lo, data'[j].hi} :
                        IsTerminal(c) \/ (c \in P /\ data'[j].v < data'[c].v)
        BY <1>4, <3>1 DEF Ordered
      <3>3. /\ data'[i].v \in Vals
            /\ \A c \in {data'[i].lo, data'[i].hi} :
                 IsTerminal(c) \/ (c \in P /\ data'[i].v < data'[c].v)
        BY <1>4, <1>5, <1>7 DEF Node
      <3>4. QED
        BY <3>2, <3>3 DEF Ordered
    <2>4. \A c \in HIds : Live(c) => G[c] = Family(c)
      BY <1>3 DEF Live, IsTerminal, HIds
    <2>5. Spelt(data', P, G)
      <3>1. G[0] = {} /\ G[1] = {{}}
        BY <1>3, FamilyTerminals DEF Family
      <3>2. ASSUME NEW j \in published
            PROVE  G[j] = G[data'[j].lo] \cup Above(data'[j].v, G[data'[j].hi])
        <4>1. G[j] = Family(j)
          BY <1>3
        <4>2. /\ G[data[j].lo] = Family(data[j].lo)
              /\ G[data[j].hi] = Family(data[j].hi)
          BY <2>1, <2>4 DEF Sound, TableSpells, Frame, Types
        <4> HIDE DEF G
        <4>3. QED
          BY <1>4, <4>1, <4>2 DEF Sound, TableSpells
      <3>3. G[i] = G[data'[i].lo] \cup Above(data'[i].v, G[data'[i].hi])
        <4>1. G[i] = f
          OBVIOUS
        <4>2. G[lo.id] = lo.fam /\ G[hi.id] = hi.fam
          BY <1>5, <2>4 DEF Handles
        <4> HIDE DEF G
        <4>3. QED
          BY <1>4, <4>1, <4>2 DEF Node
      <3> HIDE DEF G
      <3>4. QED
        BY <3>1, <3>2, <3>3 DEF Spelt
    <2>6. \A j \in P \cup {0, 1} : FamilyIn(data', j) = G[j]
      <3> HIDE DEF G, P
      <3>1. QED
        BY <2>1, <2>2, <2>3, <2>5, FamilyUnique
    <2>7. G[i] = f /\ \A j \in published \cup {0, 1} : G[j] = Family(j)
      BY <1>3
    <2> HIDE DEF G
    <2>8. QED
      BY <2>6, <2>7
  <1> HIDE DEF G
  <1>9. \A c \in HIds : Live(c) => (IsTerminal(c) \/ c \in published') /\ FamilyIn(data', c) = Family(c)
    <2>1. ASSUME NEW c \in HIds, IsTerminal(c) PROVE FamilyIn(data', c) = Family(c)
      <3>1. c = 0 \/ c = 1
        BY <2>1 DEF IsTerminal, HIds
      <3>2. QED
        BY <1>8, <3>1
    <2>2. ASSUME NEW c \in published
          PROVE  FamilyIn(data', c) = Family(c) /\ c \in published'
      BY <1>2, <1>8
    <2>3. QED
      BY <2>1, <2>2 DEF Live
  <1>10. TableSpells'
    <2>1. ASSUME NEW j \in published'
          PROVE  LET n == data'[j] IN
                 /\ n.v \in Vals /\ n.hi # 0
                 /\ IsTerminal(n.lo) \/ n.lo \in published'
                 /\ IsTerminal(n.hi) \/ n.hi \in published'
                 /\ FamilyIn(data', j) = FamilyIn(data', n.lo)
                                           \cup Above(n.v, FamilyIn(data', n.hi))
                 /\ FamilyIn(data', j) # {}
                 /\ \A s \in FamilyIn(data', n.lo) \cup FamilyIn(data', n.hi) :
                      \A x \in s : n.v < x
      <3>1. CASE j \in published
        <4>1. /\ Live(data[j].lo) /\ Live(data[j].hi)
              /\ data[j].lo \in HIds /\ data[j].hi \in HIds
          BY <3>1 DEF Sound, TableSpells, Frame, Types
        <4>2. QED
          BY <1>4, <1>8, <1>9, <3>1, <4>1 DEF Sound, TableSpells, Family
      <3>2. CASE j = i
        <4>1. lo.id \in HIds /\ hi.id \in HIds
          BY <1>5 DEF Handles
        <4>2. hi.fam # {}
          BY <1>5, <1>6, <4>1, TableOrdered
        <4>3. f # {}
          BY <4>2 DEF Above
        <4> HIDE DEF f
        <4>4. QED
          BY <1>4, <1>5, <1>6, <1>8, <1>9, <3>2, <4>1, <4>3 DEF Node, Family, f
      <3>3. QED
        BY <1>2, <3>1, <3>2
    <2>2. QED
      BY <2>1 DEF TableSpells, Family, Live
  <1>11. CountsCover'
    <2>1. Hold' = Hold
      BY <1>1 DEF Hold
    <2>2. QED
      BY <1>1, <1>2, <2>1 DEF Sound, CountsCover
  <1>12. HandlesSpell'
    <2>1. ASSUME NEW u \in Threads, NEW r \in Regs
          PROVE  FamilyIn(data', regs[u][r].id) = regs[u][r].fam
      <3>1. regs[u][r].id \in HIds /\ Live(regs[u][r].id)
        BY HeldLive DEF Frame, Types, Handles
      <3>2. QED
        BY <1>9, <3>1 DEF Sound, HandlesSpell
    <2>2. ASSUME NEW u \in Threads, NEW a \in ArgNames
          PROVE  FamilyIn(data', args[u][a].id) = args[u][a].fam
      <3>1. args[u][a].id \in HIds /\ Live(args[u][a].id)
        BY HeldLive DEF Frame, Types, Handles
      <3>2. QED
        BY <1>9, <3>1 DEF Sound, HandlesSpell
    <2>3. QED
      BY <1>1, <2>1, <2>2 DEF HandlesSpell, Family
  <1>13. pc'[t] = "inc" /\ \A u \in Threads \ {t} : pc'[u] = pc[u] /\ loc'[u] = loc[u]
    BY <1>2 DEF CreateNode, Goto, Frame, Types
  <1>14. paused = NoThread /\ \A u \in Threads : pc[u] \notin GcPcs
    BY NoScan DEF CreateNode, GateOpen
  <1>15. TakenLive'
    <2>1. /\ loc'[t].raw = i /\ loc'[t].v = v
      BY <1>2 DEF Frame, Types, Locs, v
    <2>2. \A u \in Threads : loc[u].raw \in HIds /\ loc[u].raw2 \in HIds
      BY DEF Frame, Types, Locs
    <2>3. i \in published'
      BY <1>2
    <2>4. ASSUME NEW u \in Threads \ {t}
          PROVE  /\ pc[u] \in {"inc", "child", "get_lo"} =>
                      /\ IsTerminal(loc[u].raw) \/ loc[u].raw \in published'
                      /\ FamilyIn(data', loc[u].raw) = Family(loc[u].raw)
                 /\ pc[u] \in {"get_lo", "get_hi"} =>
                      /\ IsTerminal(loc[u].raw2) \/ loc[u].raw2 \in published'
                      /\ FamilyIn(data', loc[u].raw2) = Family(loc[u].raw2)
      BY <1>9, <2>2 DEF Sound, TakenLive
    <2>5. FamilyIn(data', i) = args[t].lo.fam \cup Above(v, args[t].hi.fam)
      BY <1>8 DEF lo, hi
    <2>6. ASSUME NEW u \in Threads
          PROVE  /\ pc'[u] \in UncountedPcs => paused' = NoThread
                 /\ pc'[u] \in {"inc", "child", "get_lo"} =>
                      (IsTerminal(loc'[u].raw) \/ loc'[u].raw \in published')
                 /\ pc'[u] = "inc" => FamilyIn(data', loc'[u].raw) =
                      args'[u].lo.fam \cup Above(loc'[u].v, args'[u].hi.fam)
                 /\ pc'[u] \in {"child", "get_lo"} => FamilyIn(data', loc'[u].raw) = loc'[u].fam
                 /\ pc'[u] \in {"get_lo", "get_hi"} =>
                      /\ IsTerminal(loc'[u].raw2) \/ loc'[u].raw2 \in published'
                      /\ FamilyIn(data', loc'[u].raw2) = loc'[u].fam2
      <3>1. CASE u = t
        BY <1>1, <1>13, <1>14, <2>1, <2>3, <2>5, <3>1
      <3>2. CASE u # t
        <4>1. /\ pc'[u] = pc[u]
              /\ loc'[u] = loc[u]
              /\ args'[u] = args[u]
              /\ paused' = NoThread
          BY <1>1, <1>13, <1>14, <3>2
        <4>2. QED
          BY <2>4, <3>2, <4>1 DEF Sound, TakenLive
      <3>3. QED
        BY <3>1, <3>2
    <2>7. QED
      BY <2>6 DEF TakenLive, Family, Live
  <1>16. ScanComplete' /\ CopyCovered'
    <2>1. \A u \in Threads : pc'[u] # "scan" /\ pc'[u] # "install"
      BY <1>13, <1>14 DEF GcPcs
    <2>2. QED
      BY <2>1 DEF ScanComplete, CopyCovered
  <1>17. QED
    BY <1>10, <1>11, <1>12, <1>15, <1>16 DEF Sound

LEMMA FindFullSound ==
  ASSUME Frame, Sound, ~raced', NEW t \in Threads, FindFull(t)
  PROVE  Sound'
  <1>1. UNCHANGED <<capacity, data, published, used, count, regs, args, paused,
                    gc, raced>>
    BY DEF FindFull, UnchangedTable, UnchangedGc
  <1>2. TableSpells'
    BY <1>1 DEF Sound, TableSpells, Family, Live
  <1>3. CountsCover'
    <2>1. Hold' = Hold
      BY <1>1 DEF Hold
    <2>2. QED
      BY <1>1, <2>1 DEF Sound, CountsCover
  <1>4. HandlesSpell'
    BY <1>1 DEF Sound, HandlesSpell, Family
  <1>5. TakenLive'
    <2>1. pc'[t] \notin UncountedPcs
      BY DEF FindFull, Goto, Frame, Types, UncountedPcs
    <2>2. \A u \in Threads \ {t} : pc'[u] = pc[u] /\ loc'[u] = loc[u]
      BY DEF FindFull, Goto, Frame, Types
    <2>3. QED
      BY <1>1, <2>1, <2>2 DEF Sound, TakenLive, Family, Live, UncountedPcs
  <1>6. ScanComplete'
    <2>1. \A u \in Threads : pc'[u] = "scan" => pc[u] = "scan"
      BY DEF FindFull, Goto, Frame, Types
    <2>2. QED
      BY <1>1, <2>1 DEF Sound, ScanComplete
  <1>7. CopyCovered'
    <2>1. \A u \in Threads : pc'[u] = "install" => pc[u] = "install"
      BY DEF FindFull, Goto, Frame, Types, Locs
    <2>2. QED
      BY <1>1, <2>1 DEF Sound, CopyCovered
  <1>8. QED
    BY <1>2, <1>3, <1>4, <1>5, <1>6, <1>7 DEF Sound

LEMMA CountNodeSound ==
  ASSUME Frame, Sound, ~raced', NEW t \in Threads, CountNode(t)
  PROVE  Sound'
  <1>1. UNCHANGED <<capacity, data, published, used, regs, paused, gc, raced>>
    BY DEF CountNode, UnchangedTable, UnchangedGc
  <1>2. pc[t] = "inc" /\ paused = NoThread
    BY DEF CountNode, Goto, Sound, TakenLive, UncountedPcs
  <1>3. TableSpells'
    BY <1>1 DEF Sound, TableSpells, Family, Live
  <1>4. CountsCover'
    <2>1. loc[t].raw \in HIds /\ Live(loc[t].raw) /\ loc[t].raw \in Nat
      BY <1>2, Bounds DEF Frame, Types, Locs, HIds, Sound, TakenLive, UncountedPcs
    <2>2. \A x \in Spots \ {Owned(t, "res")} : Hold'[x] = Hold[x]
      BY <1>1, Elsewhere, SpotPlaces DEF CountNode, Frame, Types, ArgNames
    <2>3. Owned(t, "res") \in Spots => Hold'[Owned(t, "res")] = loc[t].raw
      BY HoldAt, SpotPlaces, SpotsAre DEF CountNode, Frame, Types, ArgNames, Handle
    <2>4. Fits(Hold', Inc(count, loc[t].raw))
      BY <2>1, <2>2, <2>3, FitsInc, CountsFit DEF Frame, Types, Sound
    <2>5. QED
      BY <1>1, <2>1, <2>4, CountedCovers DEF CountNode
  <1>5. HandlesSpell'
    <2>1. /\ Family(args'[t].res.id) = args'[t].res.fam
          /\ \A u \in Threads, a \in ArgNames : <<u, a>> # <<t, "res">> => args'[u][a] = args[u][a]
      BY <1>2 DEF CountNode, Frame, Types, Sound, TakenLive, ArgNames, Handle
    <2>2. QED
      BY <1>1, <2>1 DEF Sound, HandlesSpell, Family
  <1>6. TakenLive'
    <2>1. pc'[t] \notin UncountedPcs
      BY DEF CountNode, Goto, Frame, Types, UncountedPcs
    <2>2. \A u \in Threads \ {t} : pc'[u] = pc[u] /\ loc'[u] = loc[u] /\ args'[u] = args[u]
      BY DEF CountNode, Goto, Frame, Types
    <2>3. QED
      BY <1>1, <2>1, <2>2 DEF Sound, TakenLive, Family, Live, UncountedPcs
  <1>7. ScanComplete'
    <2>1. \A u \in Threads : pc[u] # "scan"
      BY <1>2, NoScan DEF GcPcs
    <2>2. QED
      BY <2>1 DEF CountNode, Goto, Frame, Types, ScanComplete
  <1>8. CopyCovered'
    <2>1. \A u \in Threads : pc'[u] = "install" => pc[u] = "install"
      BY DEF CountNode, Goto, Frame, Types, Locs
    <2>2. QED
      BY <1>1, <2>1 DEF Sound, CopyCovered
  <1>9. QED
    BY <1>3, <1>4, <1>5, <1>6, <1>7, <1>8 DEF Sound

LEMMA DropHiSound ==
  ASSUME Frame, Sound, ~raced', NEW t \in Threads, DropHi(t)
  PROVE  Sound'
  <1>1. UNCHANGED <<capacity, data, published, used, regs, loc, paused, gc, raced>>
    BY DEF DropHi, UnchangedTable, UnchangedGc
  <1>2. TableSpells'
    BY <1>1 DEF Sound, TableSpells, Family, Live
  <1>3. CountsCover'
    <2>1. Owned(t, "hi") \in Spots /\ Hold[Owned(t, "hi")] = args[t].hi.id
      BY HoldAt, SpotPlaces DEF ArgNames
    <2>2. \A x \in Spots \ {Owned(t, "hi")} : Hold'[x] = Hold[x]
      BY <1>1, Elsewhere, SpotPlaces DEF DropHi, Frame, Types, ArgNames
    <2>3. Hold'[Owned(t, "hi")] \notin Indices
      BY HoldAt, TerminalsSpell DEF DropHi, Frame, Types, ArgNames
    <2>4. Fits(Hold', Dec(count, Hold[Owned(t, "hi")]))
      BY <2>1, <2>2, <2>3, FitsDec, CountsFit DEF Frame, Types, Sound
    <2>5. QED
      BY <1>1, <2>1, <2>4, DroppedCovers DEF DropHi
  <1>4. HandlesSpell'
    <2>1. \A u \in Threads, x \in Regs : Family(regs'[u][x].id) = regs'[u][x].fam
      BY <1>1, TerminalsSpell DEF DropHi, Frame, Types, Sound, HandlesSpell
    <2>2. \A u \in Threads, x \in ArgNames : Family(args'[u][x].id) = args'[u][x].fam
      BY <1>1, TerminalsSpell DEF DropHi, Frame, Types, Sound, HandlesSpell,
         ArgNames
    <2>3. QED
      BY <1>1, <2>1, <2>2 DEF HandlesSpell, Family
  <1>5. TakenLive'
    <2>1. pc'[t] \notin UncountedPcs
      BY DEF DropHi, Goto, Frame, Types, UncountedPcs
    <2>2. \A u \in Threads \ {t} : pc'[u] = pc[u] /\ args'[u] = args[u]
      BY DEF DropHi, Goto, Frame, Types
    <2>3. QED
      BY <1>1, <2>1, <2>2 DEF Sound, TakenLive, Family, Live, UncountedPcs
  <1>6. ScanComplete'
    <2>1. \A i \in Indices : count'[i] > 0 => count[i] > 0
      BY CountDown DEF DropHi, Frame
    <2>2. \A u \in Threads : pc'[u] = "scan" => pc[u] = "scan"
      BY DEF DropHi, Goto, Frame, Types
    <2>3. QED
      BY <1>1, <2>1, <2>2 DEF Sound, ScanComplete
  <1>7. CopyCovered'
    <2>1. \A u \in Threads : pc'[u] = "install" => pc[u] = "install"
      BY DEF DropHi, Goto, Frame, Types, Locs
    <2>2. QED
      BY <1>1, <2>1 DEF Sound, CopyCovered
  <1>8. QED
    BY <1>2, <1>3, <1>4, <1>5, <1>6, <1>7 DEF Sound

LEMMA DropLoSound ==
  ASSUME Frame, Sound, ~raced', NEW t \in Threads, DropLo(t)
  PROVE  Sound'
  <1>1. UNCHANGED <<capacity, data, published, used, paused, gc, raced>>
    BY DEF DropLo, UnchangedTable, UnchangedGc
  <1>2. TableSpells'
    BY <1>1 DEF Sound, TableSpells, Family, Live
  <1>3. CountsCover'
    <2> DEFINE lo == Owned(t, "lo")
               res == Owned(t, "res")
               dst == Kept(t, loc[t].dst)
               h == [q \in Spots |-> IF q = dst THEN Hold[res]
                                     ELSE IF q = res THEN 0 ELSE Hold[q]]
    <2>1. /\ lo \in Spots /\ res \in Spots /\ lo # res /\ dst # res /\ dst # lo
          /\ Hold[lo] = args[t].lo.id /\ Hold[res] = args[t].res.id
      BY HoldAt, SpotPlaces DEF ArgNames
    <2>2. h[lo] = args[t].lo.id
      BY <2>1
    <2>3. Fits(h, count)
      <3>1. h[res] \notin Indices /\ (dst \in Spots => h[dst] = Hold[res])
        BY <2>1, TerminalsSpell
      <3>2. \A q \in Spots \ {res, dst} : h[q] = Hold[q]
        OBVIOUS
      <3> HIDE DEF h, lo, res, dst
      <3>3. QED
        BY <2>1, <3>1, <3>2, FitsMove, CountsFit DEF Frame, Types, Sound
    <2>4. /\ \A a \in ArgNames : Hold'[Owned(t, a)] = 0
          /\ dst \in Spots => Hold'[dst] = Hold[res]
      <3>1. \A a \in ArgNames : args'[t][a].id = 0
        BY DEF DropLo, NoArgs, ArgNames, Zero, Handle, Frame, Types
      <3>2. ASSUME dst \in Spots PROVE Hold'[dst] = Hold[res]
        <4>1. loc[t].dst \in Regs
          BY <3>2, SpotsAre, SpotPlaces
        <4>2. QED
          BY <2>1, <4>1, HoldAt DEF DropLo, Frame, Types
      <3>3. QED
        BY <3>1, <3>2, HoldAt
    <2>5. \A q \in Spots : h[q] = Hold'[q] \/ Hold'[q] = 0
      <3> DEFINE S == {dst} \cup {Owned(t, a) : a \in ArgNames}
      <3>1. \A q \in Spots \ S : Hold'[q] = Hold[q]
        <4>1. \A u \in Threads, r \in Regs : Kept(u, r) \in S \/ regs'[u][r] = regs[u][r]
          BY DEF DropLo, Frame, Types
        <4>2. \A u \in Threads, a \in ArgNames : Owned(u, a) \in S \/ args'[u][a] = args[u][a]
          BY DEF DropLo, Frame, Types
        <4> HIDE DEF S
        <4>3. QED
          BY <4>1, <4>2, Elsewhere
      <3>2. res \in S
        BY DEF ArgNames
      <3>3. QED
        BY <2>4, <3>1, <3>2
    <2>6. Hold'[lo] \notin Indices /\ 0 \notin Indices
      BY <2>4, TerminalsSpell DEF ArgNames
    <2> HIDE DEF h, lo, res, dst
    <2>7. \A q \in Spots \ {lo} : Hold'[q] = h[q] \/ Hold'[q] \notin Indices
      BY <2>5, <2>6
    <2>8. Fits(Hold', Dec(count, h[lo]))
      BY <2>1, <2>3, <2>6, <2>7, FitsDec DEF Frame, Types
    <2>9. QED
      BY <1>1, <2>2, <2>8, DroppedCovers DEF DropLo
  <1>4. HandlesSpell'
    <2>1. \A u \in Threads, r \in Regs : Family(regs'[u][r].id) = regs'[u][r].fam
      BY DEF DropLo, Frame, Types, Sound, HandlesSpell, ArgNames
    <2>2. \A u \in Threads, a \in ArgNames : Family(args'[u][a].id) = args'[u][a].fam
      BY TerminalsSpell DEF DropLo, Frame, Types, Sound, HandlesSpell, NoArgs,
         ArgNames
    <2>3. QED
      BY <1>1, <2>1, <2>2 DEF HandlesSpell, Family
  <1>5. TakenLive'
    <2>1. pc'[t] \notin UncountedPcs
      BY DEF DropLo, Goto, Frame, Types, UncountedPcs
    <2>2. \A u \in Threads \ {t} : pc'[u] = pc[u] /\ loc'[u] = loc[u] /\ args'[u] = args[u]
      BY DEF DropLo, Goto, Frame, Types
    <2>3. QED
      BY <1>1, <2>1, <2>2 DEF Sound, TakenLive, Family, Live, UncountedPcs
  <1>6. ScanComplete'
    <2>1. \A i \in Indices : count'[i] > 0 => count[i] > 0
      BY CountDown DEF DropLo, Frame
    <2>2. \A u \in Threads : pc'[u] = "scan" => pc[u] = "scan"
      BY DEF DropLo, Goto, Frame, Types
    <2>3. QED
      BY <1>1, <2>1, <2>2 DEF Sound, ScanComplete
  <1>7. CopyCovered'
    <2>1. \A u \in Threads : pc'[u] = "install" => pc[u] = "install"
      BY DEF DropLo, Goto, Frame, Types, Locs
    <2>2. QED
      BY <1>1, <2>1 DEF Sound, CopyCovered
  <1>8. QED
    BY <1>2, <1>3, <1>4, <1>5, <1>6, <1>7 DEF Sound

LEMMA FullCollectsSound ==
  ASSUME Frame, Sound, ~raced', NEW t \in Threads, FullCollects(t)
  PROVE  Sound'
  <1>1. UNCHANGED <<capacity, data, published, used, count, regs, args, paused, gc,
                    raced>>
    BY DEF FullCollects, UnchangedTable, UnchangedGc
  <1>2. TableSpells'
    BY <1>1 DEF Sound, TableSpells, Family, Live
  <1>3. CountsCover'
    <2>1. Hold' = Hold
      BY <1>1 DEF Hold
    <2>2. QED
      BY <1>1, <2>1 DEF Sound, CountsCover
  <1>4. HandlesSpell'
    BY <1>1 DEF Sound, HandlesSpell, Family
  <1>5. TakenLive'
    <2>1. pc'[t] \notin UncountedPcs
      BY DEF FullCollects, Goto, Frame, Types, UncountedPcs
    <2>2. \A u \in Threads \ {t} : pc'[u] = pc[u] /\ loc'[u] = loc[u]
      BY DEF FullCollects, Goto, Frame, Types
    <2>3. QED
      BY <1>1, <2>1, <2>2 DEF Sound, TakenLive, Family, Live, UncountedPcs
  <1>6. ScanComplete'
    <2>1. \A u \in Threads : pc'[u] = "scan" => pc[u] = "scan"
      BY DEF FullCollects, Goto, Frame, Types
    <2>2. QED
      BY <1>1, <2>1 DEF Sound, ScanComplete
  <1>7. CopyCovered'
    <2>1. \A u \in Threads : pc'[u] = "install" => pc[u] = "install"
      BY DEF FullCollects, Goto, Frame, Types, Locs
    <2>2. QED
      BY <1>1, <2>1 DEF Sound, CopyCovered
  <1>8. QED
    BY <1>2, <1>3, <1>4, <1>5, <1>6, <1>7 DEF Sound

LEMMA FullPanicsSound ==
  ASSUME Frame, Sound, ~raced', NEW t \in Threads, FullPanics(t)
  PROVE  Sound'
  <1>1. UNCHANGED <<capacity, data, published, used, count, regs, args, paused,
                    gc, raced>>
    BY DEF FullPanics, UnchangedTable, UnchangedGc
  <1>2. TableSpells'
    BY <1>1 DEF Sound, TableSpells, Family, Live
  <1>3. CountsCover'
    <2>1. Hold' = Hold
      BY <1>1 DEF Hold
    <2>2. QED
      BY <1>1, <2>1 DEF Sound, CountsCover
  <1>4. HandlesSpell'
    BY <1>1 DEF Sound, HandlesSpell, Family
  <1>5. TakenLive'
    <2>1. pc'[t] \notin UncountedPcs
      BY DEF FullPanics, Goto, Frame, Types, UncountedPcs
    <2>2. \A u \in Threads \ {t} : pc'[u] = pc[u] /\ loc'[u] = loc[u]
      BY DEF FullPanics, Goto, Frame, Types
    <2>3. QED
      BY <1>1, <2>1, <2>2 DEF Sound, TakenLive, Family, Live, UncountedPcs
  <1>6. ScanComplete'
    <2>1. \A u \in Threads : pc'[u] = "scan" => pc[u] = "scan"
      BY DEF FullPanics, Goto, Frame, Types
    <2>2. QED
      BY <1>1, <2>1 DEF Sound, ScanComplete
  <1>7. CopyCovered'
    <2>1. \A u \in Threads : pc'[u] = "install" => pc[u] = "install"
      BY DEF FullPanics, Goto, Frame, Types, Locs
    <2>2. QED
      BY <1>1, <2>1 DEF Sound, CopyCovered
  <1>8. QED
    BY <1>2, <1>3, <1>4, <1>5, <1>6, <1>7 DEF Sound

LEMMA ChildReadSound ==
  ASSUME Frame, Sound, ~raced', NEW t \in Threads, NEW r \in Regs,
         NEW side \in {"lo", "hi"}, ChildRead(t, r, side)
  PROVE  Sound'
  <1>1. UNCHANGED <<capacity, data, published, used, count, paused, gc, raced>>
    BY DEF ChildRead, UnchangedTable, UnchangedGc
  <1>2. TableSpells'
    BY <1>1 DEF Sound, TableSpells, Family, Live
  <1>3. CountsCover'
    <2>1. /\ Kept(t, r) \in Spots /\ Owned(t, "lo") \in Spots
          /\ Kept(t, r) # Owned(t, "lo") /\ Hold[Kept(t, r)] = regs[t][r].id
      BY HoldAt, SpotPlaces DEF ArgNames
    <2>2. \A q \in Spots \ {Kept(t, r), Owned(t, "lo")} : Hold'[q] = Hold[q]
      BY <1>1, Elsewhere, SpotPlaces DEF ChildRead, Frame, Types, ArgNames
    <2>3. Hold'[Kept(t, r)] \notin Indices /\ Hold'[Owned(t, "lo")] = regs[t][r].id
      BY HoldAt, TerminalsSpell DEF ChildRead, Frame, Types, ArgNames
    <2>4. Fits(Hold', count)
      BY <2>1, <2>2, <2>3, FitsMove, CountsFit DEF Frame, Types, Sound
    <2>5. QED
      BY <1>1, <2>4, MovedCovers
  <1>4. HandlesSpell'
    <2>1. \A u \in Threads, x \in Regs : Family(regs'[u][x].id) = regs'[u][x].fam
      BY <1>1, TerminalsSpell DEF ChildRead, Frame, Types, Sound, HandlesSpell
    <2>2. \A u \in Threads, x \in ArgNames : Family(args'[u][x].id) = args'[u][x].fam
      BY <1>1, TerminalsSpell DEF ChildRead, Frame, Types, Sound, HandlesSpell,
         ArgNames
    <2>3. QED
      BY <1>1, <2>1, <2>2 DEF HandlesSpell, Family
  <1>5. TakenLive'
    <2>1. Live(regs[t][r].id) /\ Family(regs[t][r].id) = regs[t][r].fam
      BY HeldLive DEF Sound, HandlesSpell
    <2>2. regs[t][r].id \in published /\ Family(regs[t][r].id) = regs[t][r].fam
      BY <2>1 DEF ChildRead, Live
    <2>3. /\ loc'[t].raw \in {data[regs[t][r].id].lo, data[regs[t][r].id].hi}
          /\ Family(loc'[t].raw) = loc'[t].fam
      BY <2>2, NodeSplits DEF ChildRead, Frame, Types, NoLoc
    <2>4. pc'[t] = "child" /\ paused = NoThread
      BY DEF ChildRead, Goto, GateOpen, Frame, Types
    <2>5. Live(data[regs[t][r].id].lo) /\ Live(data[regs[t][r].id].hi)
      BY <2>2 DEF Sound, TableSpells
    <2>6. \A u \in Threads \ {t} : pc'[u] = pc[u] /\ loc'[u] = loc[u] /\ args'[u] = args[u]
      BY DEF ChildRead, Goto, Frame, Types
    <2>7. QED
      BY <1>1, <2>3, <2>4, <2>5, <2>6 DEF Sound, TakenLive, Family, Live
  <1>6. ScanComplete'
    <2>1. \A u \in Threads : pc'[u] = "scan" => pc[u] = "scan"
      BY DEF ChildRead, Goto, Frame, Types
    <2>2. QED
      BY <1>1, <2>1 DEF Sound, ScanComplete
  <1>7. CopyCovered'
    <2>1. \A u \in Threads : pc'[u] = "install" => pc[u] = "install"
      BY DEF ChildRead, Goto, Frame, Types, Locs
    <2>2. QED
      BY <1>1, <2>1 DEF Sound, CopyCovered
  <1>8. QED
    BY <1>2, <1>3, <1>4, <1>5, <1>6, <1>7 DEF Sound

LEMMA ChildCountSound ==
  ASSUME Frame, Sound, ~raced', NEW t \in Threads, ChildCount(t)
  PROVE  Sound'
  <1>1. UNCHANGED <<capacity, data, published, used, regs, loc, paused, gc, raced>>
    BY DEF ChildCount, UnchangedTable, UnchangedGc
  <1>2. pc[t] = "child" /\ paused = NoThread
    BY DEF ChildCount, Goto, Sound, TakenLive, UncountedPcs
  <1>3. TableSpells'
    BY <1>1 DEF Sound, TableSpells, Family, Live
  <1>4. CountsCover'
    <2>1. loc[t].raw \in HIds /\ Live(loc[t].raw) /\ loc[t].raw \in Nat
      BY <1>2, Bounds DEF Frame, Types, Locs, HIds, Sound, TakenLive, UncountedPcs
    <2>2. \A x \in Spots \ {Owned(t, "res")} : Hold'[x] = Hold[x]
      BY <1>1, Elsewhere, SpotPlaces DEF ChildCount, Frame, Types, ArgNames
    <2>3. Owned(t, "res") \in Spots => Hold'[Owned(t, "res")] = loc[t].raw
      BY HoldAt, SpotPlaces, SpotsAre DEF ChildCount, Frame, Types, ArgNames, Handle
    <2>4. Fits(Hold', Inc(count, loc[t].raw))
      BY <2>1, <2>2, <2>3, FitsInc, CountsFit DEF Frame, Types, Sound
    <2>5. QED
      BY <1>1, <2>1, <2>4, CountedCovers DEF ChildCount
  <1>5. HandlesSpell'
    <2>1. /\ Family(args'[t].res.id) = args'[t].res.fam
          /\ \A u \in Threads, a \in ArgNames : <<u, a>> # <<t, "res">> => args'[u][a] = args[u][a]
      BY <1>2 DEF ChildCount, Frame, Types, Sound, TakenLive, ArgNames, Handle
    <2>2. QED
      BY <1>1, <2>1 DEF Sound, HandlesSpell, Family
  <1>6. TakenLive'
    <2>1. pc'[t] \notin UncountedPcs
      BY DEF ChildCount, Goto, Frame, Types, UncountedPcs
    <2>2. \A u \in Threads \ {t} : pc'[u] = pc[u] /\ args'[u] = args[u]
      BY DEF ChildCount, Goto, Frame, Types
    <2>3. QED
      BY <1>1, <2>1, <2>2 DEF Sound, TakenLive, Family, Live, UncountedPcs
  <1>7. ScanComplete'
    <2>1. \A u \in Threads : pc[u] # "scan"
      BY <1>2, NoScan DEF GcPcs
    <2>2. QED
      BY <2>1 DEF ChildCount, Goto, Frame, Types, ScanComplete
  <1>8. CopyCovered'
    <2>1. \A u \in Threads : pc'[u] = "install" => pc[u] = "install"
      BY DEF ChildCount, Goto, Frame, Types, Locs
    <2>2. QED
      BY <1>1, <2>1 DEF Sound, CopyCovered
  <1>9. QED
    BY <1>3, <1>4, <1>5, <1>6, <1>7, <1>8 DEF Sound

LEMMA ChildDropSound ==
  ASSUME Frame, Sound, ~raced', NEW t \in Threads, ChildDrop(t)
  PROVE  Sound'
  <1>1. UNCHANGED <<capacity, data, published, used, paused, gc, raced>>
    BY DEF ChildDrop, UnchangedTable, UnchangedGc
  <1>2. TableSpells'
    BY <1>1 DEF Sound, TableSpells, Family, Live
  <1>3. CountsCover'
    <2> DEFINE lo == Owned(t, "lo")
               res == Owned(t, "res")
               dst == Kept(t, loc[t].dst)
               h == [q \in Spots |-> IF q = dst THEN Hold[res]
                                     ELSE IF q = res THEN 0 ELSE Hold[q]]
    <2>1. /\ lo \in Spots /\ res \in Spots /\ lo # res /\ dst # res /\ dst # lo
          /\ Hold[lo] = args[t].lo.id /\ Hold[res] = args[t].res.id
      BY HoldAt, SpotPlaces DEF ArgNames
    <2>2. h[lo] = args[t].lo.id
      BY <2>1
    <2>3. Fits(h, count)
      <3>1. h[res] \notin Indices /\ (dst \in Spots => h[dst] = Hold[res])
        BY <2>1, TerminalsSpell
      <3>2. \A q \in Spots \ {res, dst} : h[q] = Hold[q]
        OBVIOUS
      <3> HIDE DEF h, lo, res, dst
      <3>3. QED
        BY <2>1, <3>1, <3>2, FitsMove, CountsFit DEF Frame, Types, Sound
    <2>4. /\ \A a \in ArgNames : Hold'[Owned(t, a)] = 0
          /\ dst \in Spots => Hold'[dst] = Hold[res]
      <3>1. \A a \in ArgNames : args'[t][a].id = 0
        BY DEF ChildDrop, NoArgs, ArgNames, Zero, Handle, Frame, Types
      <3>2. ASSUME dst \in Spots PROVE Hold'[dst] = Hold[res]
        <4>1. loc[t].dst \in Regs
          BY <3>2, SpotsAre, SpotPlaces
        <4>2. QED
          BY <2>1, <4>1, HoldAt DEF ChildDrop, Frame, Types
      <3>3. QED
        BY <3>1, <3>2, HoldAt
    <2>5. \A q \in Spots : h[q] = Hold'[q] \/ Hold'[q] = 0
      <3> DEFINE S == {dst} \cup {Owned(t, a) : a \in ArgNames}
      <3>1. \A q \in Spots \ S : Hold'[q] = Hold[q]
        <4>1. \A u \in Threads, r \in Regs : Kept(u, r) \in S \/ regs'[u][r] = regs[u][r]
          BY DEF ChildDrop, Frame, Types
        <4>2. \A u \in Threads, a \in ArgNames : Owned(u, a) \in S \/ args'[u][a] = args[u][a]
          BY DEF ChildDrop, Frame, Types
        <4> HIDE DEF S
        <4>3. QED
          BY <4>1, <4>2, Elsewhere
      <3>2. res \in S
        BY DEF ArgNames
      <3>3. QED
        BY <2>4, <3>1, <3>2
    <2>6. Hold'[lo] \notin Indices /\ 0 \notin Indices
      BY <2>4, TerminalsSpell DEF ArgNames
    <2> HIDE DEF h, lo, res, dst
    <2>7. \A q \in Spots \ {lo} : Hold'[q] = h[q] \/ Hold'[q] \notin Indices
      BY <2>5, <2>6
    <2>8. Fits(Hold', Dec(count, h[lo]))
      BY <2>1, <2>3, <2>6, <2>7, FitsDec DEF Frame, Types
    <2>9. QED
      BY <1>1, <2>2, <2>8, DroppedCovers DEF ChildDrop
  <1>4. HandlesSpell'
    <2>1. \A u \in Threads, r \in Regs : Family(regs'[u][r].id) = regs'[u][r].fam
      BY DEF ChildDrop, Frame, Types, Sound, HandlesSpell, ArgNames
    <2>2. \A u \in Threads, a \in ArgNames : Family(args'[u][a].id) = args'[u][a].fam
      BY TerminalsSpell DEF ChildDrop, Frame, Types, Sound, HandlesSpell, NoArgs,
         ArgNames
    <2>3. QED
      BY <1>1, <2>1, <2>2 DEF HandlesSpell, Family
  <1>5. TakenLive'
    <2>1. pc'[t] \notin UncountedPcs
      BY DEF ChildDrop, Goto, Frame, Types, UncountedPcs
    <2>2. \A u \in Threads \ {t} : pc'[u] = pc[u] /\ loc'[u] = loc[u] /\ args'[u] = args[u]
      BY DEF ChildDrop, Goto, Frame, Types
    <2>3. QED
      BY <1>1, <2>1, <2>2 DEF Sound, TakenLive, Family, Live, UncountedPcs
  <1>6. ScanComplete'
    <2>1. \A i \in Indices : count'[i] > 0 => count[i] > 0
      BY CountDown DEF ChildDrop, Frame
    <2>2. \A u \in Threads : pc'[u] = "scan" => pc[u] = "scan"
      BY DEF ChildDrop, Goto, Frame, Types
    <2>3. QED
      BY <1>1, <2>1, <2>2 DEF Sound, ScanComplete
  <1>7. CopyCovered'
    <2>1. \A u \in Threads : pc'[u] = "install" => pc[u] = "install"
      BY DEF ChildDrop, Goto, Frame, Types, Locs
    <2>2. QED
      BY <1>1, <2>1 DEF Sound, CopyCovered
  <1>8. QED
    BY <1>2, <1>3, <1>4, <1>5, <1>6, <1>7 DEF Sound

LEMMA GetReadSound ==
  ASSUME Frame, Sound, ~raced', NEW t \in Threads, NEW r \in Regs, NEW a \in Regs,
         NEW b \in Regs, GetRead(t, r, a, b)
  PROVE  Sound'
  <1>1. UNCHANGED <<capacity, data, published, used, count, regs, args, paused, gc,
                    raced>>
    BY DEF GetRead, UnchangedTable, UnchangedGc
  <1>2. TableSpells'
    BY <1>1 DEF Sound, TableSpells, Family, Live
  <1>3. CountsCover'
    <2>1. Hold' = Hold
      BY <1>1 DEF Hold
    <2>2. QED
      BY <1>1, <2>1 DEF Sound, CountsCover
  <1>4. HandlesSpell'
    BY <1>1 DEF Sound, HandlesSpell, Family
  <1>5. TakenLive'
    <2>1. Live(regs[t][r].id) /\ Family(regs[t][r].id) = regs[t][r].fam
      BY HeldLive DEF Sound, HandlesSpell
    <2>2. regs[t][r].id \in published /\ Family(regs[t][r].id) = regs[t][r].fam
      BY <2>1 DEF GetRead, Live
    <2>3. /\ loc'[t].raw = data[regs[t][r].id].lo
          /\ loc'[t].raw2 = data[regs[t][r].id].hi
          /\ Family(loc'[t].raw) = loc'[t].fam /\ Family(loc'[t].raw2) = loc'[t].fam2
      BY <2>2, NodeSplits DEF GetRead, Frame, Types, NoLoc
    <2>4. pc'[t] = "get_lo" /\ paused = NoThread
      BY DEF GetRead, Goto, GateOpen, Frame, Types
    <2>5. Live(data[regs[t][r].id].lo) /\ Live(data[regs[t][r].id].hi)
      BY <2>2 DEF Sound, TableSpells
    <2>6. \A u \in Threads \ {t} : pc'[u] = pc[u] /\ loc'[u] = loc[u] /\ args'[u] = args[u]
      BY DEF GetRead, Goto, Frame, Types
    <2>7. QED
      BY <1>1, <2>3, <2>4, <2>5, <2>6 DEF Sound, TakenLive, Family, Live
  <1>6. ScanComplete'
    <2>1. \A u \in Threads : pc'[u] = "scan" => pc[u] = "scan"
      BY DEF GetRead, Goto, Frame, Types
    <2>2. QED
      BY <1>1, <2>1 DEF Sound, ScanComplete
  <1>7. CopyCovered'
    <2>1. \A u \in Threads : pc'[u] = "install" => pc[u] = "install"
      BY DEF GetRead, Goto, Frame, Types, Locs
    <2>2. QED
      BY <1>1, <2>1 DEF Sound, CopyCovered
  <1>8. QED
    BY <1>2, <1>3, <1>4, <1>5, <1>6, <1>7 DEF Sound

LEMMA GetLoSound ==
  ASSUME Frame, Sound, ~raced', NEW t \in Threads, GetLo(t)
  PROVE  Sound'
  <1>1. UNCHANGED <<capacity, data, published, used, args, loc, paused, gc, raced>>
    BY DEF GetLo, UnchangedTable, UnchangedGc
  <1>2. pc[t] = "get_lo" /\ paused = NoThread
    BY DEF GetLo, Goto, Sound, TakenLive, UncountedPcs
  <1>3. TableSpells'
    BY <1>1 DEF Sound, TableSpells, Family, Live
  <1>4. CountsCover'
    <2>1. loc[t].raw \in HIds /\ Live(loc[t].raw) /\ loc[t].raw \in Nat
      BY <1>2, Bounds DEF Frame, Types, Locs, HIds, Sound, TakenLive, UncountedPcs
    <2>2. \A x \in Spots \ {Kept(t, loc[t].dst)} : Hold'[x] = Hold[x]
      BY <1>1, Elsewhere, SpotPlaces DEF GetLo, Frame, Types, ArgNames
    <2>3. Kept(t, loc[t].dst) \in Spots => Hold'[Kept(t, loc[t].dst)] = loc[t].raw
      BY HoldAt, SpotPlaces, SpotsAre DEF GetLo, Frame, Types, ArgNames, Handle
    <2>4. Fits(Hold', Inc(count, loc[t].raw))
      BY <2>1, <2>2, <2>3, FitsInc, CountsFit DEF Frame, Types, Sound
    <2>5. QED
      BY <1>1, <2>1, <2>4, CountedCovers DEF GetLo
  <1>5. HandlesSpell'
    <2>1. Family(loc[t].raw) = loc[t].fam
      BY <1>2 DEF Sound, TakenLive
    <2>2. \A u \in Threads, r \in Regs : Family(regs'[u][r].id) = regs'[u][r].fam
      BY <2>1 DEF GetLo, Frame, Types, Sound, HandlesSpell, Handle
    <2>3. QED
      BY <1>1, <2>2 DEF Sound, HandlesSpell, Family
  <1>6. TakenLive'
    <2>1. pc' = [pc EXCEPT ![t] = "get_hi"]
      BY DEF GetLo, Goto
    <2>2. QED
      BY <1>1, <1>2, <2>1 DEF Frame, Types, Sound, TakenLive, Family, Live,
         UncountedPcs
  <1>7. ScanComplete'
    <2>1. \A u \in Threads : pc[u] # "scan"
      BY <1>2, NoScan DEF GcPcs
    <2>2. QED
      BY <2>1 DEF GetLo, Goto, Frame, Types, ScanComplete
  <1>8. CopyCovered'
    <2>1. \A u \in Threads : pc'[u] = "install" => pc[u] = "install"
      BY DEF GetLo, Goto, Frame, Types, Locs
    <2>2. QED
      BY <1>1, <2>1 DEF Sound, CopyCovered
  <1>9. QED
    BY <1>3, <1>4, <1>5, <1>6, <1>7, <1>8 DEF Sound

LEMMA GetHiSound ==
  ASSUME Frame, Sound, ~raced', NEW t \in Threads, GetHi(t)
  PROVE  Sound'
  <1>1. UNCHANGED <<capacity, data, published, used, args, paused, gc, raced>>
    BY DEF GetHi, UnchangedTable, UnchangedGc
  <1>2. pc[t] = "get_hi" /\ paused = NoThread
    BY DEF GetHi, Goto, Sound, TakenLive, UncountedPcs
  <1>3. TableSpells'
    BY <1>1 DEF Sound, TableSpells, Family, Live
  <1>4. CountsCover'
    <2>1. loc[t].raw2 \in HIds /\ Live(loc[t].raw2) /\ loc[t].raw2 \in Nat
      BY <1>2, Bounds DEF Frame, Types, Locs, HIds, Sound, TakenLive, UncountedPcs
    <2>2. \A x \in Spots \ {Kept(t, loc[t].dst2)} : Hold'[x] = Hold[x]
      BY <1>1, Elsewhere, SpotPlaces DEF GetHi, Frame, Types, ArgNames
    <2>3. Kept(t, loc[t].dst2) \in Spots => Hold'[Kept(t, loc[t].dst2)] = loc[t].raw2
      BY HoldAt, SpotPlaces, SpotsAre DEF GetHi, Frame, Types, ArgNames, Handle
    <2>4. Fits(Hold', Inc(count, loc[t].raw2))
      BY <2>1, <2>2, <2>3, FitsInc, CountsFit DEF Frame, Types, Sound
    <2>5. QED
      BY <1>1, <2>1, <2>4, CountedCovers DEF GetHi
  <1>5. HandlesSpell'
    <2>1. Family(loc[t].raw2) = loc[t].fam2
      BY <1>2 DEF Sound, TakenLive
    <2>2. \A u \in Threads, r \in Regs : Family(regs'[u][r].id) = regs'[u][r].fam
      BY <2>1 DEF GetHi, Frame, Types, Sound, HandlesSpell, Handle
    <2>3. QED
      BY <1>1, <2>2 DEF Sound, HandlesSpell, Family
  <1>6. TakenLive'
    <2>1. pc'[t] \notin UncountedPcs
      BY DEF GetHi, Goto, Frame, Types, UncountedPcs
    <2>2. \A u \in Threads \ {t} : pc'[u] = pc[u] /\ loc'[u] = loc[u]
      BY DEF GetHi, Goto, Frame, Types
    <2>3. QED
      BY <1>1, <2>1, <2>2 DEF Sound, TakenLive, Family, Live, UncountedPcs
  <1>7. ScanComplete'
    <2>1. \A u \in Threads : pc[u] # "scan"
      BY <1>2, NoScan DEF GcPcs
    <2>2. QED
      BY <2>1 DEF GetHi, Goto, Frame, Types, ScanComplete
  <1>8. CopyCovered'
    <2>1. \A u \in Threads : pc'[u] = "install" => pc[u] = "install"
      BY DEF GetHi, Goto, Frame, Types, Locs
    <2>2. QED
      BY <1>1, <2>1 DEF Sound, CopyCovered
  <1>9. QED
    BY <1>3, <1>4, <1>5, <1>6, <1>7, <1>8 DEF Sound

LEMMA CloneHandleSound ==
  ASSUME Frame, Sound, ~raced', NEW t \in Threads, NEW r \in Regs, NEW q \in Regs,
         CloneHandle(t, r, q)
  PROVE  Sound'
  <1>1. UNCHANGED <<capacity, data, published, used, args, pc, loc, paused, gc,
                    raced>>
    BY DEF CloneHandle, UnchangedTable, UnchangedGc
  <1>2. TableSpells'
    BY <1>1 DEF Sound, TableSpells, Family, Live
  <1>3. CountsCover'
    <2>1. regs[t][r].id \in HIds /\ Live(regs[t][r].id) /\ regs[t][r].id \in Nat
      BY HeldLive, Bounds DEF Frame, Types, Handles, HIds
    <2>2. \A x \in Spots \ {Kept(t, q)} : Hold'[x] = Hold[x]
      BY <1>1, Elsewhere, SpotPlaces DEF CloneHandle, Frame, Types, ArgNames
    <2>3. Kept(t, q) \in Spots => Hold'[Kept(t, q)] = regs[t][r].id
      BY HoldAt, SpotPlaces, SpotsAre DEF CloneHandle, Frame, Types, ArgNames,
         Handle
    <2>4. Fits(Hold', Inc(count, regs[t][r].id))
      BY <2>1, <2>2, <2>3, FitsInc, CountsFit DEF Frame, Types, Sound
    <2>5. QED
      BY <1>1, <2>1, <2>4, CountedCovers DEF CloneHandle
  <1>4. HandlesSpell'
    <2>1. \A u \in Threads, x \in Regs : Family(regs'[u][x].id) = regs'[u][x].fam
      BY <1>1, TerminalsSpell DEF CloneHandle, Frame, Types, Sound, HandlesSpell
    <2>2. \A u \in Threads, x \in ArgNames : Family(args'[u][x].id) = args'[u][x].fam
      BY <1>1, TerminalsSpell DEF CloneHandle, Frame, Types, Sound, HandlesSpell,
         ArgNames
    <2>3. QED
      BY <1>1, <2>1, <2>2 DEF HandlesSpell, Family
  <1>5. TakenLive'
    BY <1>1 DEF Sound, TakenLive, Family, Live
  <1>6. ScanComplete'
    <2>1. \A i \in Indices : count'[i] > 0 => count[i] > 0
      <3>1. regs[t][r].id \in Indices => count[regs[t][r].id] > 0
        BY HeldLive, HoldAt, SpotPlaces
      <3>2. QED
        BY <3>1 DEF CloneHandle, Inc, Frame, Types
    <2>2. QED
      BY <1>1, <2>1 DEF Sound, ScanComplete
  <1>7. CopyCovered'
    BY <1>1 DEF Sound, CopyCovered
  <1>8. QED
    BY <1>2, <1>3, <1>4, <1>5, <1>6, <1>7 DEF Sound

LEMMA DropHandleSound ==
  ASSUME Frame, Sound, ~raced', NEW t \in Threads, NEW r \in Regs, DropHandle(t, r)
  PROVE  Sound'
  <1>1. UNCHANGED <<capacity, data, published, used, args, pc, loc, paused, gc,
                    raced>>
    BY DEF DropHandle, UnchangedTable, UnchangedGc
  <1>2. TableSpells'
    BY <1>1 DEF Sound, TableSpells, Family, Live
  <1>3. CountsCover'
    <2>1. Kept(t, r) \in Spots /\ Hold[Kept(t, r)] = regs[t][r].id
      BY HoldAt, SpotPlaces DEF ArgNames
    <2>2. \A x \in Spots \ {Kept(t, r)} : Hold'[x] = Hold[x]
      BY <1>1, Elsewhere, SpotPlaces DEF DropHandle, Frame, Types, ArgNames
    <2>3. Hold'[Kept(t, r)] \notin Indices
      BY HoldAt, TerminalsSpell DEF DropHandle, Frame, Types, ArgNames
    <2>4. Fits(Hold', Dec(count, Hold[Kept(t, r)]))
      BY <2>1, <2>2, <2>3, FitsDec, CountsFit DEF Frame, Types, Sound
    <2>5. QED
      BY <1>1, <2>1, <2>4, DroppedCovers DEF DropHandle
  <1>4. HandlesSpell'
    <2>1. \A u \in Threads, x \in Regs : Family(regs'[u][x].id) = regs'[u][x].fam
      BY <1>1, TerminalsSpell DEF DropHandle, Frame, Types, Sound, HandlesSpell
    <2>2. \A u \in Threads, x \in ArgNames : Family(args'[u][x].id) = args'[u][x].fam
      BY <1>1, TerminalsSpell DEF DropHandle, Frame, Types, Sound, HandlesSpell,
         ArgNames
    <2>3. QED
      BY <1>1, <2>1, <2>2 DEF HandlesSpell, Family
  <1>5. TakenLive'
    BY <1>1 DEF Sound, TakenLive, Family, Live
  <1>6. ScanComplete'
    <2>1. \A i \in Indices : count'[i] > 0 => count[i] > 0
      BY CountDown DEF DropHandle, Frame
    <2>2. \A u \in Threads : pc'[u] = "scan" => pc[u] = "scan"
      BY DEF DropHandle, Goto, Frame, Types
    <2>3. QED
      BY <1>1, <2>1, <2>2 DEF Sound, ScanComplete
  <1>7. CopyCovered'
    BY <1>1 DEF Sound, CopyCovered
  <1>8. QED
    BY <1>2, <1>3, <1>4, <1>5, <1>6, <1>7 DEF Sound

LEMMA SendHandleSound ==
  ASSUME Frame, Sound, ~raced', NEW t \in Threads, NEW r \in Regs,
         NEW u \in Threads, NEW q \in Regs, SendHandle(t, r, u, q)
  PROVE  Sound'
  <1>1. UNCHANGED <<capacity, data, published, used, count, args, pc, loc, paused,
                    gc, raced>>
    BY DEF SendHandle, UnchangedTable, UnchangedGc
  <1>2. TableSpells'
    BY <1>1 DEF Sound, TableSpells, Family, Live
  <1>3. CountsCover'
    <2>1. /\ Kept(t, r) \in Spots /\ Kept(u, q) \in Spots
          /\ Kept(t, r) # Kept(u, q) /\ Hold[Kept(t, r)] = regs[t][r].id
      BY HoldAt, SpotPlaces DEF SendHandle
    <2>2. \A x \in Spots \ {Kept(t, r), Kept(u, q)} : Hold'[x] = Hold[x]
      BY <1>1, Elsewhere, SpotPlaces DEF SendHandle, Frame, Types
    <2>3. Hold'[Kept(t, r)] \notin Indices /\ Hold'[Kept(u, q)] = regs[t][r].id
      BY HoldAt, TerminalsSpell DEF SendHandle, Frame, Types
    <2>4. Fits(Hold', count)
      BY <2>1, <2>2, <2>3, FitsMove, CountsFit DEF Frame, Types, Sound
    <2>5. QED
      BY <1>1, <2>4, MovedCovers
  <1>4. HandlesSpell'
    <2>1. \A w \in Threads, x \in Regs : Family(regs'[w][x].id) = regs'[w][x].fam
      BY <1>1, TerminalsSpell DEF SendHandle, Frame, Types, Sound, HandlesSpell
    <2>2. \A w \in Threads, x \in ArgNames : Family(args'[w][x].id) = args'[w][x].fam
      BY <1>1, TerminalsSpell DEF SendHandle, Frame, Types, Sound, HandlesSpell,
         ArgNames
    <2>3. QED
      BY <1>1, <2>1, <2>2 DEF HandlesSpell, Family
  <1>5. TakenLive'
    BY <1>1 DEF Sound, TakenLive, Family, Live
  <1>6. ScanComplete'
    BY <1>1 DEF Sound, ScanComplete
  <1>7. CopyCovered'
    BY <1>1 DEF Sound, CopyCovered
  <1>8. QED
    BY <1>2, <1>3, <1>4, <1>5, <1>6, <1>7 DEF Sound

LEMMA GcCallSound ==
  ASSUME Frame, Sound, ~raced', NEW t \in Threads, GcCall(t)
  PROVE  Sound'
  <1>1. UNCHANGED <<capacity, data, published, used, count, regs, args, paused, gc,
                    raced>>
    BY DEF GcCall, UnchangedTable, UnchangedGc
  <1>2. TableSpells'
    BY <1>1 DEF Sound, TableSpells, Family, Live
  <1>3. CountsCover'
    <2>1. Hold' = Hold
      BY <1>1 DEF Hold
    <2>2. QED
      BY <1>1, <2>1 DEF Sound, CountsCover
  <1>4. HandlesSpell'
    BY <1>1 DEF Sound, HandlesSpell, Family
  <1>5. TakenLive'
    <2>1. pc'[t] \notin UncountedPcs
      BY DEF GcCall, Goto, Frame, Types, UncountedPcs
    <2>2. \A u \in Threads \ {t} : pc'[u] = pc[u] /\ loc'[u] = loc[u]
      BY DEF GcCall, Goto, Frame, Types
    <2>3. QED
      BY <1>1, <2>1, <2>2 DEF Sound, TakenLive, Family, Live, UncountedPcs
  <1>6. ScanComplete'
    <2>1. \A u \in Threads : pc'[u] = "scan" => pc[u] = "scan"
      BY DEF GcCall, Goto, Frame, Types
    <2>2. QED
      BY <1>1, <2>1 DEF Sound, ScanComplete
  <1>7. CopyCovered'
    <2>1. \A u \in Threads : pc'[u] = "install" => pc[u] = "install"
      BY DEF GcCall, Goto, Frame, Types, Locs
    <2>2. QED
      BY <1>1, <2>1 DEF Sound, CopyCovered
  <1>8. QED
    BY <1>2, <1>3, <1>4, <1>5, <1>6, <1>7 DEF Sound

LEMMA GcStartSound ==
  ASSUME Frame, Sound, ~raced', NEW t \in Threads, GcStart(t)
  PROVE  Sound'
  <1>1. UNCHANGED <<capacity, data, published, used, count, regs, args, loc>>
    BY DEF GcStart, UnchangedTable, UnchangedGc
  <1>2. TableSpells'
    BY <1>1 DEF Sound, TableSpells, Family, Live
  <1>3. CountsCover'
    <2>1. Hold' = Hold
      BY <1>1 DEF Hold
    <2>2. QED
      BY <1>1, <2>1 DEF Sound, CountsCover
  <1>4. HandlesSpell'
    BY <1>1 DEF Sound, HandlesSpell, Family
  <1>5. TakenLive'
    <2>1. \A u \in Threads \ {t} : pc[u] \notin UncountedPcs /\ pc'[u] = pc[u]
      BY DEF GcStart, Goto, Frame, Types
    <2>2. pc'[t] = "scan"
      BY DEF GcStart, Goto, Frame, Types
    <2>3. QED
      BY <2>1, <2>2 DEF TakenLive, UncountedPcs
  <1>6. ScanComplete'
    <2>1. gc'.pos = 2 /\ gc'.roots = {} /\ \A i \in Indices : ~(i < 2)
      BY Bounds DEF GcStart, NoGc, Frame, IsTerminal
    <2>2. \A u \in Threads \ {t} : pc'[u] # "scan"
      BY NoScan DEF GcStart, Goto, GateOpen, GcPcs, Frame, Types
    <2>3. QED
      BY <2>1, <2>2 DEF ScanComplete
  <1>7. CopyCovered'
    <2>1. \A u \in Threads \ {t} : pc[u] \notin GcPcs
      BY NoScan DEF GcStart, GateOpen
    <2>2. \A u \in Threads : pc'[u] # "install"
      BY <2>1 DEF GcStart, Goto, Frame, Types, Locs, GcPcs
    <2>3. QED
      BY <2>2 DEF CopyCovered
  <1>8. QED
    BY <1>2, <1>3, <1>4, <1>5, <1>6, <1>7 DEF Sound

LEMMA GcRefusedSound ==
  ASSUME Frame, Sound, ~raced', NEW t \in Threads, GcRefused(t)
  PROVE  Sound'
  <1>1. UNCHANGED <<capacity, data, published, used, count, regs, args, loc,
                    paused, gc, raced>>
    BY DEF GcRefused, UnchangedTable, UnchangedGc
  <1>2. TableSpells'
    BY <1>1 DEF Sound, TableSpells, Family, Live
  <1>3. CountsCover'
    <2>1. Hold' = Hold
      BY <1>1 DEF Hold
    <2>2. QED
      BY <1>1, <2>1 DEF Sound, CountsCover
  <1>4. HandlesSpell'
    BY <1>1 DEF Sound, HandlesSpell, Family
  <1>5. TakenLive'
    <2>1. pc'[t] \notin UncountedPcs
      BY DEF GcRefused, Goto, Frame, Types, UncountedPcs
    <2>2. \A u \in Threads \ {t} : pc'[u] = pc[u]
      BY DEF GcRefused, Goto, Frame, Types
    <2>3. QED
      BY <1>1, <2>1, <2>2 DEF Sound, TakenLive, Family, Live, UncountedPcs
  <1>6. ScanComplete'
    <2>1. \A u \in Threads : pc'[u] = "scan" => pc[u] = "scan"
      BY DEF GcRefused, Goto, Frame, Types
    <2>2. QED
      BY <1>1, <2>1 DEF Sound, ScanComplete
  <1>7. CopyCovered'
    <2>1. \A u \in Threads : pc'[u] = "install" => pc[u] = "install"
      BY DEF GcRefused, Goto, Frame, Types, Locs
    <2>2. QED
      BY <1>1, <2>1 DEF Sound, CopyCovered
  <1>8. QED
    BY <1>2, <1>3, <1>4, <1>5, <1>6, <1>7 DEF Sound

LEMMA GcWaitedSound ==
  ASSUME Frame, Sound, ~raced', NEW t \in Threads, GcWaited(t)
  PROVE  Sound'
  <1>1. UNCHANGED <<capacity, data, published, used, count, regs, args, loc,
                    paused, gc, raced>>
    BY DEF GcWaited, UnchangedTable, UnchangedGc
  <1>2. TableSpells'
    BY <1>1 DEF Sound, TableSpells, Family, Live
  <1>3. CountsCover'
    <2>1. Hold' = Hold
      BY <1>1 DEF Hold
    <2>2. QED
      BY <1>1, <2>1 DEF Sound, CountsCover
  <1>4. HandlesSpell'
    BY <1>1 DEF Sound, HandlesSpell, Family
  <1>5. TakenLive'
    <2>1. /\ loc[t].ret \in {"idle", "find", "drop_hi"}
          /\ pc' = [pc EXCEPT ![t] = loc[t].ret]
      BY DEF Frame, Types, Locs, GcWaited, Goto
    <2>2. pc'[t] \notin UncountedPcs
      BY <2>1 DEF Frame, Types, UncountedPcs
    <2>3. \A u \in Threads \ {t} : pc'[u] = pc[u]
      BY <2>1 DEF Frame, Types
    <2>4. paused' = NoThread \/ paused' = paused
      BY <1>1 DEF GcWaited
    <2>5. QED
      BY <1>1, <2>2, <2>3, <2>4 DEF Sound, TakenLive, Family, Live, UncountedPcs
  <1>6. ScanComplete'
    <2>1. \A u \in Threads : pc'[u] = "scan" => pc[u] = "scan"
      BY DEF GcWaited, Goto, Frame, Types, Locs
    <2>2. QED
      BY <1>1, <2>1 DEF Sound, ScanComplete
  <1>7. CopyCovered'
    <2>1. \A u \in Threads : pc'[u] = "install" => pc[u] = "install"
      BY DEF GcWaited, Goto, Frame, Types, Locs
    <2>2. QED
      BY <1>1, <2>1 DEF Sound, CopyCovered
  <1>8. QED
    BY <1>2, <1>3, <1>4, <1>5, <1>6, <1>7 DEF Sound

LEMMA GcScanSound ==
  ASSUME Frame, Sound, ~raced', NEW t \in Threads, GcScan(t)
  PROVE  Sound'
  <1>1. UNCHANGED <<capacity, data, published, used, count, regs, args, loc,
                    paused, raced>>
    BY DEF GcScan, UnchangedTable, UnchangedGc
  <1>2. TableSpells'
    BY <1>1 DEF Sound, TableSpells, Family, Live
  <1>3. CountsCover'
    <2>1. Hold' = Hold
      BY <1>1 DEF Hold
    <2>2. QED
      BY <1>1, <2>1 DEF Sound, CountsCover
  <1>4. HandlesSpell'
    BY <1>1 DEF Sound, HandlesSpell, Family
  <1>5. TakenLive'
    <2>1. pc'[t] \notin UncountedPcs
      BY DEF GcScan, Goto, Frame, Types, UncountedPcs
    <2>2. \A u \in Threads \ {t} : pc'[u] = pc[u]
      BY DEF GcScan, Goto, Frame, Types
    <2>3. QED
      BY <1>1, <2>1, <2>2 DEF Sound, TakenLive, Family, Live, UncountedPcs
  <1>6. ScanComplete'
    <2>1. /\ gc.pos \in Indices /\ pc[t] = "scan" /\ gc.pos \in Nat
          /\ gc'.pos = gc.pos + 1
          /\ gc'.roots = IF count[gc.pos] # 0 THEN gc.roots \cup {gc.pos} ELSE gc.roots
      BY Bounds DEF Frame, Types, GateHeld, GcScan, Goto, Indices
    <2>2. count[gc.pos] # 0 => gc.pos \in published
      <3>1. /\ Number(Hold, gc.pos) <= count[gc.pos] /\ Number(Hold, gc.pos) \in Nat
            /\ count[gc.pos] \in Int
        BY <2>1, WhereFinite DEF Sound, CountsCover, Frame, Types
      <3>2. QED
        BY <2>1, <3>1 DEF Sound, CountsCover
    <2>3. \A i \in Indices : i < gc.pos + 1 => i < gc.pos \/ i = gc.pos
      BY <2>1, Bounds DEF Frame
    <2>4. QED
      BY <1>1, <2>1, <2>2, <2>3 DEF Sound, ScanComplete
  <1>7. CopyCovered'
    <2>1. \A u \in Threads \ {t} : pc[u] \notin GcPcs
      BY Bounds DEF GcScan, Goto, Frame, GateHeld, GcPcs
    <2>2. \A u \in Threads : pc'[u] # "install"
      BY <2>1 DEF GcScan, Goto, Frame, Types, Locs, GcPcs
    <2>3. QED
      BY <2>2 DEF CopyCovered
  <1>8. QED
    BY <1>2, <1>3, <1>4, <1>5, <1>6, <1>7 DEF Sound

LEMMA GcSweepSound ==
  ASSUME Frame, Sound, ~raced', NEW t \in Threads, GcSweep(t)
  PROVE  Sound'
  <1>1. UNCHANGED <<data, count, regs, args, loc, paused, gc, raced>>
    BY DEF GcSweep
  <1>2. pc[t] = "scan" /\ paused = t /\ gc.pos = capacity
    BY DEF GcSweep, Goto, Frame, GateHeld, GcPcs
  <1>3. gc.roots \subseteq published /\ published \subseteq HIds \cap Indices
    BY <1>2 DEF Sound, ScanComplete, Frame, Types
  <1>4. Reach(gc.roots) \subseteq published
    <2>1. \A j \in published : {data[j].lo, data[j].hi} \subseteq published \cup {0, 1}
      <3>1. \A j \in published : {data[j].lo, data[j].hi} \subseteq HIds
        BY <1>3 DEF Frame, Types
      <3>2. \A c \in HIds : IsTerminal(c) => c \in {0, 1}
        BY DEF IsTerminal, HIds
      <3>3. QED
        BY <3>1, <3>2 DEF Sound, TableSpells, Live
    <2>2. QED
      BY <1>3, <2>1, ReachWithin
  <1>5. published' = Reach(gc.roots)
    <2>1. \A i, j \in Reach(gc.roots) : j < i => data[j] # data[i]
      <3>1. \A i \in published : ~(i < i)
        BY <1>3, Bounds DEF Frame
      <3>2. QED
        BY <1>4, <3>1 DEF Frame, TableCanonical
    <2>2. QED
      BY <2>1 DEF GcSweep
  <1>6. \A i \in published' : \A c \in {data[i].lo, data[i].hi} :
          IsTerminal(c) \/ c \in published'
    <2>1. \A i \in published : \A c \in {data[i].lo, data[i].hi} : c \in Ids
      BY <1>3, Bounds DEF Frame, Types
    <2>2. gc.roots \in SUBSET Indices
      BY <1>3
    <2>3. QED
      BY <1>4, <1>5, <2>1, <2>2, ReachIsClosed
  <1>7. TableSpells'
    <2>1. \A i \in published' : i \in published
      BY <1>4, <1>5
    <2>2. QED
      BY <1>1, <1>6, <2>1 DEF Sound, TableSpells, Family, Live
  <1>8. CountsCover'
    <2>1. Hold' = Hold
      BY <1>1 DEF Hold
    <2>2. ASSUME NEW i \in Indices, count[i] > 0 PROVE i \in published'
      <3>1. i \in published /\ i < capacity
        BY <2>2, <1>3 DEF Sound, CountsCover, HIds, Frame, Types
      <3>2. i \in gc.roots
        BY <1>2, <2>2, <3>1 DEF Sound, ScanComplete
      <3>3. QED
        BY <1>3, <1>5, <3>2, ReachHasRoots
    <2>3. QED
      BY <1>1, <2>1, <2>2 DEF Sound, CountsCover
  <1>9. HandlesSpell'
    BY <1>1 DEF Sound, HandlesSpell, Family
  <1>10. \A u \in Threads : pc'[u] \notin UncountedPcs /\ pc'[u] # "scan" /\ pc'[u] # "install"
    <2>1. \A u \in Threads \ {t} : pc'[u] = pc[u] /\ pc[u] \notin GcPcs
      BY <1>2, Bounds DEF GcSweep, Goto, Frame, Types, GateHeld
    <2>2. \A u \in Threads : pc[u] \notin UncountedPcs
      BY <1>2, Bounds DEF Sound, TakenLive, Frame
    <2>3. pc'[t] \in {"end", "copy"}
      BY DEF GcSweep, Goto, Frame, Types
    <2>4. QED
      BY <2>1, <2>2, <2>3 DEF GcPcs, UncountedPcs
  <1>11. TakenLive' /\ ScanComplete' /\ CopyCovered'
    BY <1>10 DEF TakenLive, ScanComplete, CopyCovered, UncountedPcs
  <1>12. QED
    BY <1>7, <1>8, <1>9, <1>11 DEF Sound

LEMMA GcCopyCountsSound ==
  ASSUME Frame, Sound, ~raced', NEW t \in Threads, GcCopyCounts(t)
  PROVE  Sound'
  <1>1. UNCHANGED <<capacity, data, published, used, count, regs, args, loc,
                    paused, raced>>
    BY DEF GcCopyCounts, UnchangedTable, UnchangedGc
  <1>2. TableSpells'
    BY <1>1 DEF Sound, TableSpells, Family, Live
  <1>3. CountsCover'
    <2>1. Hold' = Hold
      BY <1>1 DEF Hold
    <2>2. QED
      BY <1>1, <2>1 DEF Sound, CountsCover
  <1>4. HandlesSpell'
    BY <1>1 DEF Sound, HandlesSpell, Family
  <1>5. TakenLive'
    <2>1. pc'[t] \notin UncountedPcs
      BY DEF GcCopyCounts, Goto, Frame, Types, UncountedPcs
    <2>2. \A u \in Threads \ {t} : pc'[u] = pc[u]
      BY DEF GcCopyCounts, Goto, Frame, Types
    <2>3. QED
      BY <1>1, <2>1, <2>2 DEF Sound, TakenLive, Family, Live, UncountedPcs
  <1>6. ScanComplete'
    <2>1. \A u \in Threads \ {t} : pc[u] \notin GcPcs
      BY Bounds DEF GcCopyCounts, Goto, Frame, GateHeld, GcPcs
    <2>2. \A u \in Threads : pc'[u] # "scan"
      BY <2>1 DEF GcCopyCounts, Goto, Frame, Types, Locs, GcPcs
    <2>3. QED
      BY <2>2 DEF ScanComplete
  <1>7. CopyCovered'
    <2>1. \A u \in Threads \ {t} : pc'[u] # "install"
      BY Bounds DEF GcCopyCounts, Goto, Frame, Types, GateHeld, GcPcs
    <2>2. gc'.copy = count
      BY DEF GcCopyCounts, Frame, Types
    <2>3. QED
      BY <1>1, <2>1, <2>2 DEF Sound, CountsCover, CopyCovered
  <1>8. QED
    BY <1>2, <1>3, <1>4, <1>5, <1>6, <1>7 DEF Sound

LEMMA GcInstallCountsSound ==
  ASSUME Frame, Sound, ~raced', NEW t \in Threads, GcInstallCounts(t)
  PROVE  Sound'
  <1>1. UNCHANGED <<capacity, data, published, used, regs, args, loc, paused, gc>>
    BY DEF GcInstallCounts, UnchangedTable, UnchangedGc
  <1>2. TableSpells'
    BY <1>1 DEF Sound, TableSpells, Family, Live
  <1>3. CountsCover'
    <2>1. Hold' = Hold
      BY <1>1 DEF Hold
    <2>2. \A i \in Indices : count[i] <= gc.copy[i] /\ count[i] \in Int /\ gc.copy[i] \in Int
      <3>1. \A i \in Indices : ~(gc.copy[i] < count[i])
        BY DEF GcInstallCounts
      <3>2. \A i \in Indices : count[i] \in Int /\ gc.copy[i] \in Int
        BY DEF Frame, Types
      <3>3. QED
        BY <3>1, <3>2
    <2>3. \A i \in Indices : Number(Hold, i) \in Nat /\ Number(Hold, i) <= count[i]
      BY WhereFinite DEF Sound, CountsCover
    <2>4. \A i \in Indices : gc.copy[i] > 0 => i \in published
      BY DEF Sound, CopyCovered, GcInstallCounts, Goto
    <2>5. QED
      BY <1>1, <2>1, <2>2, <2>3, <2>4 DEF CountsCover, GcInstallCounts
  <1>4. HandlesSpell'
    BY <1>1 DEF Sound, HandlesSpell, Family
  <1>5. TakenLive'
    <2>1. pc'[t] \notin UncountedPcs
      BY DEF GcInstallCounts, Goto, Frame, Types, UncountedPcs
    <2>2. \A u \in Threads \ {t} : pc'[u] = pc[u]
      BY DEF GcInstallCounts, Goto, Frame, Types
    <2>3. QED
      BY <1>1, <2>1, <2>2 DEF Sound, TakenLive, Family, Live, UncountedPcs
  <1>6. ScanComplete'
    <2>1. \A u \in Threads \ {t} : pc[u] \notin GcPcs
      BY Bounds DEF GcInstallCounts, Goto, Frame, GateHeld, GcPcs
    <2>2. \A u \in Threads : pc'[u] # "scan"
      BY <2>1 DEF GcInstallCounts, Goto, Frame, Types, Locs, GcPcs
    <2>3. QED
      BY <2>2 DEF ScanComplete
  <1>7. CopyCovered'
    <2>1. \A u \in Threads \ {t} : pc[u] \notin GcPcs
      BY Bounds DEF GcInstallCounts, Goto, Frame, GateHeld, GcPcs
    <2>2. \A u \in Threads : pc'[u] # "install"
      BY <2>1 DEF GcInstallCounts, Goto, Frame, Types, Locs, GcPcs
    <2>3. QED
      BY <2>2 DEF CopyCovered
  <1>8. QED
    BY <1>2, <1>3, <1>4, <1>5, <1>6, <1>7 DEF Sound

LEMMA GcEndSound ==
  ASSUME Frame, Sound, ~raced', NEW t \in Threads, GcEnd(t)
  PROVE  Sound'
  <1>1. UNCHANGED <<capacity, data, published, used, count, regs, args, loc, raced>>
    BY DEF GcEnd, UnchangedTable, UnchangedGc
  <1>2. TableSpells'
    BY <1>1 DEF Sound, TableSpells, Family, Live
  <1>3. CountsCover'
    <2>1. Hold' = Hold
      BY <1>1 DEF Hold
    <2>2. QED
      BY <1>1, <2>1 DEF Sound, CountsCover
  <1>4. HandlesSpell'
    BY <1>1 DEF Sound, HandlesSpell, Family
  <1>5. TakenLive'
    <2>1. /\ loc[t].ret \in {"idle", "find", "drop_hi"}
          /\ pc' = [pc EXCEPT ![t] = loc[t].ret]
      BY DEF Frame, Types, Locs, GcEnd, Goto
    <2>2. pc'[t] \notin UncountedPcs
      BY <2>1 DEF Frame, Types, UncountedPcs
    <2>3. \A u \in Threads \ {t} : pc'[u] = pc[u]
      BY <2>1 DEF Frame, Types
    <2>4. paused' = NoThread \/ paused' = paused
      BY <1>1 DEF GcEnd
    <2>5. QED
      BY <1>1, <2>2, <2>3, <2>4 DEF Sound, TakenLive, Family, Live, UncountedPcs
  <1>6. ScanComplete'
    <2>1. \A u \in Threads \ {t} : pc[u] \notin GcPcs
      BY Bounds DEF GcEnd, Goto, Frame, GateHeld, GcPcs
    <2>2. \A u \in Threads : pc'[u] # "scan"
      BY <2>1 DEF GcEnd, Goto, Frame, Types, Locs, GcPcs
    <2>3. QED
      BY <2>2 DEF ScanComplete
  <1>7. CopyCovered'
    <2>1. \A u \in Threads \ {t} : pc[u] \notin GcPcs
      BY Bounds DEF GcEnd, Goto, Frame, GateHeld, GcPcs
    <2>2. \A u \in Threads : pc'[u] # "install"
      BY <2>1 DEF GcEnd, Goto, Frame, Types, Locs, GcPcs
    <2>3. QED
      BY <2>2 DEF CopyCovered
  <1>8. QED
    BY <1>2, <1>3, <1>4, <1>5, <1>6, <1>7 DEF Sound

-----------------------------------------------------------------------------
(***************************************************************************)
(* Theorems                                                                *)
(***************************************************************************)
LEMMA StepInv ==
  ASSUME GInv, [Next]_vars
  PROVE  GInv'
  <1>1. Frame /\ (~raced => Sound) /\ raced \in BOOLEAN
    BY DEF GInv, Frame, Types
  <1>2. CASE UNCHANGED vars
    <2>1. /\ HIds' = HIds /\ Handles' = Handles /\ Locs' = Locs /\ Hold' = Hold
      BY <1>2 DEF vars, HIds, Handles, Locs, Hold
    <2>2. Frame'
      BY <1>1, <1>2, <2>1 DEF vars, Frame, Types, GateHeld, TableCanonical,
         NodeArgs, Building
    <2>3. ASSUME Sound PROVE Sound'
      <3>1. TableSpells' /\ HandlesSpell'
        BY <1>2, <2>3 DEF vars, Sound, TableSpells, HandlesSpell, Family, Live
      <3>2. CountsCover' /\ TakenLive'
        BY <1>2, <2>1, <2>3 DEF vars, Sound, CountsCover, TakenLive, Family, Live
      <3>3. ScanComplete' /\ CopyCovered'
        BY <1>2, <2>3 DEF vars, Sound, ScanComplete, CopyCovered
      <3>4. QED
        BY <3>1, <3>2, <3>3 DEF Sound
    <2>4. raced' = raced
      BY <1>2 DEF vars
    <2>5. QED
      BY <1>1, <2>2, <2>3, <2>4 DEF GInv
  <1>3. ASSUME NEW t \in Threads, NodeStep(t) PROVE GInv'
    <2>1. FindNode(t) \/ CreateNode(t) \/ FindFull(t) \/ CountNode(t)
          \/ DropHi(t) \/ DropLo(t) \/ FullCollects(t) \/ FullPanics(t)
      BY <1>3 DEF NodeStep
    <2>2. raced' = raced
      BY <2>1 DEF FindNode, CreateNode, FindFull, CountNode, DropHi, DropLo,
                  FullCollects, FullPanics, UnchangedGc
    <2>3. Frame'
      BY <1>1, <2>1, FindNodeFrame, CreateNodeFrame, FindFullFrame, CountNodeFrame,
         DropHiFrame, DropLoFrame, FullCollectsFrame, FullPanicsFrame
    <2>4. ASSUME ~raced' PROVE Sound'
      BY <1>1, <2>1, <2>2, <2>4, FindNodeSound, CreateNodeSound, FindFullSound,
         CountNodeSound, DropHiSound, DropLoSound, FullCollectsSound, FullPanicsSound
    <2>5. QED
      BY <2>3, <2>4 DEF GInv
  <1>4. ASSUME NEW t \in Threads, ReadStep(t) PROVE GInv'
    <2>1. ChildCount(t) \/ ChildDrop(t) \/ GetLo(t) \/ GetHi(t)
      BY <1>4 DEF ReadStep
    <2>2. raced' = raced
      BY <2>1 DEF ChildCount, ChildDrop, GetLo, GetHi, UnchangedGc
    <2>3. Frame'
      BY <1>1, <2>1, ChildCountFrame, ChildDropFrame, GetLoFrame, GetHiFrame
    <2>4. ASSUME ~raced' PROVE Sound'
      BY <1>1, <2>1, <2>2, <2>4, ChildCountSound, ChildDropSound, GetLoSound,
         GetHiSound
    <2>5. QED
      BY <2>3, <2>4 DEF GInv
  <1>5. ASSUME NEW t \in Threads, GcStep(t) PROVE GInv'
    <2>1. GcStart(t) \/ GcRefused(t) \/ GcWaited(t) \/ GcScan(t) \/ GcSweep(t)
          \/ GcCopyCounts(t) \/ GcInstallCounts(t) \/ GcEnd(t)
      BY <1>5 DEF GcStep
    <2>2. raced => raced'
      BY <1>1, <2>1 DEF GcStart, GcRefused, GcWaited, GcScan, GcSweep, GcCopyCounts,
                        GcInstallCounts, GcEnd, UnchangedGc
    <2>3. Frame'
      BY <1>1, <2>1, GcStartFrame, GcRefusedFrame, GcWaitedFrame, GcScanFrame,
         GcSweepFrame, GcCopyCountsFrame, GcInstallCountsFrame, GcEndFrame
    <2>4. ASSUME ~raced' PROVE Sound'
      BY <1>1, <2>1, <2>2, <2>4, GcStartSound, GcRefusedSound, GcWaitedSound,
         GcScanSound, GcSweepSound, GcCopyCountsSound, GcInstallCountsSound, GcEndSound
    <2>5. QED
      BY <2>3, <2>4 DEF GInv
  <1>6. ASSUME NEW t \in Threads, NewCall(t) PROVE GInv'
    <2>1. Places[t] \subseteq Regs /\ \A u \in Threads : Places[u] \subseteq Regs
      BY CollectorAssumption
    <2>2. CASE GcCall(t)
      <3>1. raced' = raced
        BY <2>2 DEF GcCall, UnchangedGc
      <3>2. QED
        BY <1>1, <2>2, <3>1, GcCallFrame, GcCallSound DEF GInv
    <2>3. ASSUME NEW r \in Regs, TakeOne(t, r) \/ DropHandle(t, r) PROVE GInv'
      <3>1. raced' = raced
        BY <2>3 DEF TakeOne, DropHandle, UnchangedGc
      <3>2. QED
        BY <1>1, <2>3, <3>1, TakeOneFrame, TakeOneSound, DropHandleFrame,
           DropHandleSound DEF GInv
    <2>4. ASSUME NEW r \in Regs, NEW side \in {"lo", "hi"}, ChildRead(t, r, side)
          PROVE  GInv'
      <3>1. raced' = raced
        BY <2>4 DEF ChildRead, UnchangedGc
      <3>2. QED
        BY <1>1, <2>4, <3>1, ChildReadFrame, ChildReadSound DEF GInv
    <2>5. ASSUME NEW r \in Regs, NEW q \in Regs, CloneHandle(t, r, q) PROVE GInv'
      <3>1. raced' = raced
        BY <2>5 DEF CloneHandle, UnchangedGc
      <3>2. QED
        BY <1>1, <2>5, <3>1, CloneHandleFrame, CloneHandleSound DEF GInv
    <2>6. ASSUME NEW r \in Regs, NEW q \in Regs, r # q, NEW v \in Vals,
                 NodeCall(t, v, r, q)
          PROVE  GInv'
      <3>1. raced' = raced
        BY <2>6 DEF NodeCall, UnchangedGc
      <3>2. QED
        BY <1>1, <2>6, <3>1, NodeCallFrame, NodeCallSound DEF GInv
    <2>7. ASSUME NEW r \in Regs, NEW q \in Regs, NEW p \in Regs, GetRead(t, r, q, p)
          PROVE  GInv'
      <3>1. raced' = raced
        BY <2>7 DEF GetRead, UnchangedGc
      <3>2. QED
        BY <1>1, <2>7, <3>1, GetReadFrame, GetReadSound DEF GInv
    <2>8. ASSUME NEW r \in Regs, NEW u \in Threads, NEW q \in Regs,
                 SendHandle(t, r, u, q)
          PROVE  GInv'
      <3>1. raced' = raced
        BY <2>8 DEF SendHandle, UnchangedGc
      <3>2. QED
        BY <1>1, <2>8, <3>1, SendHandleFrame, SendHandleSound DEF GInv
    <2>9. QED
      BY <1>6, <2>1, <2>2, <2>3, <2>4, <2>5, <2>6, <2>7, <2>8 DEF NewCall
  <1>7. QED
    BY <1>2, <1>3, <1>4, <1>5, <1>6 DEF Next, Step

\* The inductive invariant holds.
THEOREM GInvHolds == Spec => []GInv
  <1>1. Init => GInv
    BY InitInv
  <1>2. GInv /\ [Next]_vars => GInv'
    BY StepInv
  <1>3. QED
    BY <1>1, <1>2, PTL DEF Spec

\* The table never holds one node twice, whatever threads and collections do:
\* the comparison of indices that stands for the comparison of families
\* (RawZdd's Eq) is never weakened.
THEOREM Canonical == Spec => []TableCanonical
  <1>1. GInv => TableCanonical
    BY DEF GInv, Frame
  <1>2. QED
    BY <1>1, GInvHolds, PTL

LEMMA SoundSurvives ==
  ASSUME GInv
  PROVE  OnlyMissedCountsLoseNodes
  <1> SUFFICES ASSUME ~raced PROVE HeldSurvive
    BY DEF OnlyMissedCountsLoseNodes
  <1>1. Frame /\ Sound
    BY DEF GInv
  <1>2. DOMAIN NoArgs = ArgNames
    BY DEF NoArgs, ArgNames
  <1>3. ASSUME NEW t \in Threads, NEW r \in Regs
        PROVE  Live(regs[t][r].id) /\ Family(regs[t][r].id) = regs[t][r].fam
    BY <1>1, HeldLive DEF Sound, HandlesSpell
  <1>4. ASSUME NEW t \in Threads, NEW a \in ArgNames
        PROVE  Live(args[t][a].id) /\ Family(args[t][a].id) = args[t][a].fam
    BY <1>1, HeldLive DEF Sound, HandlesSpell
  <1>5. ASSUME NEW h \in Held PROVE Live(h.id) /\ Family(h.id) = h.fam
    <2>1. CASE \E p \in HandlePlaces : h = regs[p[1]][p[2]]
      BY <1>3, <2>1 DEF HandlePlaces
    <2>2. CASE \E p \in ArgPlaces : h = args[p[1]][p[2]]
      BY <1>2, <1>4, <2>2 DEF ArgPlaces
    <2>3. QED
      BY <2>1, <2>2 DEF Held
  <1>6. QED
    BY <1>5 DEF HeldSurvive

\* As long as no count that was due is missed - by a collection that started
\* while an index was taken and not yet counted, or by the copy of the counts
\* - every handle's node is in the table and spells the handle's family: gc
\* and free_bucket, garbage.rs:96-144, lose nothing that is held.
THEOREM Survival == Spec => []OnlyMissedCountsLoseNodes
  <1>1. GInv => OnlyMissedCountsLoseNodes
    BY SoundSurvives
  <1>2. QED
    BY <1>1, GInvHolds, PTL

\* Two indices of the table spell different families.
LEMMA FamilyTells ==
  ASSUME Frame, Sound
  PROVE  \A i, j \in HIds : Live(i) /\ Live(j) /\ Family(i) = Family(j) => i = j
  <1> DEFINE Depth(i) == NVars - data[i].v
             Same(i, j) == /\ i \in published /\ j \in HIds /\ Live(j) /\ i # j
                           /\ Family(i) = Family(j)
             Bad == {n \in Nat : \E i, j : Same(i, j) /\ n = Depth(i)}
  <1>1. NVars \in Nat /\ \A i \in published : Depth(i) \in Nat
    BY Bounds DEF Sound, TableSpells, Vals, Frame
  <1>2. ASSUME Bad # {} PROVE FALSE
    <2>1. PICK n \in Bad : \A m \in Bad : n <= m
      <3>1. Bad \in SUBSET Nat
        OBVIOUS
      <3> HIDE DEF Bad
      <3>2. QED
        BY <1>2, <3>1, LeastOf
    <2>2. PICK i, j : Same(i, j) /\ n = Depth(i)
      BY <2>1
    <2>3. \A k \in published :
            /\ data[k].v \in Vals
            /\ \E s \in Family(k) : data[k].v \in s
            /\ \A s \in Family(k) : \A x \in s : x = data[k].v \/ data[k].v < x
      <3>1. ASSUME NEW k \in published, NEW s \in Family(k), NEW x \in s
            PROVE  x = data[k].v \/ data[k].v < x
        <4>1. s \in Family(data[k].lo) \/ s \in Above(data[k].v, Family(data[k].hi))
          BY DEF Sound, TableSpells
        <4>2. CASE s \in Family(data[k].lo)
          BY <4>2 DEF Sound, TableSpells
        <4>3. CASE s \in Above(data[k].v, Family(data[k].hi))
          <5>1. PICK r \in Family(data[k].hi) : s = r \cup {data[k].v}
            BY <4>3 DEF Above
          <5>2. QED
            BY <5>1 DEF Sound, TableSpells
        <4>4. QED
          BY <4>1, <4>2, <4>3
      <3>2. QED
        BY <3>1, TableOrdered DEF Sound, TableSpells
    <2>4. j \in published
      <3>1. CASE IsTerminal(j)
        <4>1. j = 0 \/ j = 1
          BY <2>2, <3>1 DEF IsTerminal, HIds
        <4>2. Family(j) = {} \/ Family(j) = {{}}
          BY <4>1, FamilyTerminals DEF Family
        <4>3. QED
          BY <2>2, <2>3, <4>2
      <3>2. QED
        BY <2>2, <3>1 DEF Live
    <2>5. data[i].v = data[j].v
      <3>1. PICK s \in Family(i) : data[i].v \in s
        BY <2>2, <2>3
      <3>2. PICK r \in Family(j) : data[j].v \in r
        BY <2>3, <2>4
      <3>3. /\ data[i].v = data[j].v \/ data[j].v < data[i].v
            /\ data[j].v = data[i].v \/ data[i].v < data[j].v
        BY <2>2, <2>3, <2>4, <3>1, <3>2
      <3>4. data[i].v \in Int /\ data[j].v \in Int
        BY <2>2, <2>3, <2>4, <1>1 DEF Vals
      <3>5. QED
        BY <3>3, <3>4
    <2>6. /\ Family(data[i].lo) = Family(data[j].lo)
          /\ Family(data[i].hi) = Family(data[j].hi)
      BY <2>2, <2>4, <2>5, NodeSplits
    <2>7. ASSUME NEW k, NEW l, Same(k, l), data[i].v < data[k].v PROVE FALSE
      <3>1. Depth(k) \in Bad /\ Depth(k) < Depth(i)
        BY <1>1, <2>2, <2>3, <2>7 DEF Vals
      <3>2. QED
        BY <1>1, <2>1, <2>2, <2>7, <3>1
    <2>8. ASSUME NEW c \in HIds, NEW d \in HIds, Live(c), Live(d), Family(c) = Family(d),
                 c \in published => data[i].v < data[c].v,
                 d \in published => data[i].v < data[d].v
          PROVE  c = d
      <3>1. CASE c \in published \/ d \in published
        BY <2>7, <2>8, <3>1
      <3>2. CASE c \notin published /\ d \notin published
        <4>1. (c = 0 \/ c = 1) /\ (d = 0 \/ d = 1)
          BY <2>8, <3>2 DEF Live, IsTerminal, HIds
        <4>2. Family(0) = {} /\ Family(1) = {{}}
          BY FamilyTerminals DEF Family
        <4>3. {} # {{}}
          OBVIOUS
        <4>4. QED
          BY <2>8, <4>1, <4>2, <4>3
      <3>3. QED
        BY <3>1, <3>2
    <2>9. ASSUME NEW k \in {i, j}
          PROVE  /\ data[k] \in [v : 0 .. NVars, lo : HIds, hi : HIds]
                 /\ Live(data[k].lo) /\ Live(data[k].hi)
                 /\ data[k].lo \in published => data[k].v < data[data[k].lo].v
                 /\ data[k].hi \in published => data[k].v < data[data[k].hi].v
      <3>1. k \in published
        BY <2>2, <2>4
      <3>2. \A c \in published : ~IsTerminal(c)
        BY Bounds DEF Frame, Types
      <3>3. QED
        BY <3>1, <3>2, TableOrdered DEF Ordered, Sound, TableSpells, Frame, Types
    <2>10. data[i].lo = data[j].lo /\ data[i].hi = data[j].hi
      BY <2>5, <2>6, <2>8, <2>9
    <2>11. data[i] = data[j]
      BY <2>5, <2>9, <2>10
    <2>12. QED
      BY <2>2, <2>4, <2>11 DEF Frame, TableCanonical
  <1>3. ASSUME NEW i \in published, NEW j \in HIds, Live(j), Family(i) = Family(j)
        PROVE  i = j
    <2>1. CASE i # j
      <3>1. Same(i, j)
        BY <1>3, <2>1
      <3>2. Depth(i) \in Bad
        BY <1>1, <3>1
      <3>3. QED
        BY <1>2, <3>2
    <2>2. QED
      BY <2>1
  <1>4. ASSUME NEW i \in HIds, NEW j \in HIds, IsTerminal(i), IsTerminal(j),
               Family(i) = Family(j)
        PROVE  i = j
    <2>1. (i = 0 \/ i = 1) /\ (j = 0 \/ j = 1)
      BY <1>4 DEF IsTerminal, HIds
    <2>2. Family(0) = {} /\ Family(1) = {{}}
      BY FamilyTerminals DEF Family
    <2>3. {} # {{}}
      OBVIOUS
    <2>4. QED
      BY <1>4, <2>1, <2>2, <2>3
  <1>5. published \subseteq HIds
    BY DEF Frame, Types
  <1> HIDE DEF Bad, Same, Depth
  <1>6. QED
    BY <1>3, <1>4, <1>5 DEF Live

\* As long as no count that was due is missed, handles compare equal exactly
\* when they stand for the same family, whatever has been collected, resized
\* and used again in between: a zero-suppressed diagram is canonical.
THEOREM Identity == Spec => [](~raced => EqualityIsIdentity)
  <1>1. GInv => (~raced => EqualityIsIdentity)
    <2> SUFFICES ASSUME GInv, ~raced, NEW g \in Held, NEW h \in Held
                 PROVE  (g.id = h.id) <=> (g.fam = h.fam)
      BY DEF EqualityIsIdentity
    <2>1. Frame /\ Sound
      BY DEF GInv
    <2>2. HeldSurvive
      BY SoundSurvives DEF OnlyMissedCountsLoseNodes
    <2>3. DOMAIN NoArgs = ArgNames
      BY DEF NoArgs, ArgNames
    <2>4. \A k \in Held : k.id \in HIds
      BY <2>1, <2>3 DEF Held, HandlePlaces, ArgPlaces, Frame, Types, Handles
    <2>5. QED
      BY <2>1, <2>2, <2>4, FamilyTells DEF HeldSurvive
  <1>2. QED
    BY <1>1, GInvHolds, PTL

-----------------------------------------------------------------------------
(***************************************************************************)
(* A holder that one thread uses (the others may keep handles and pass     *)
(* them on), for every table and every number of values and places: the    *)
(* counts are exact, every handle keeps its node and its family, and a     *)
(* collection keeps what the handles reach and nothing else.               *)
(*                                                                         *)
(* The invariant above has one half: a count is no less than the handles   *)
(* to its node.  The other half is inductive with the places that a call   *)
(* fills: they are empty until it does, so that no handle is overwritten   *)
(* without being dropped.  Alone, no count is due when a collection starts *)
(* or while it copies the counts, so that nothing races.                   *)
(***************************************************************************)

\* At most one thread calls more than send.
OneCaller ==
  \A t, u \in Threads :
    t # u => Calls[t] \subseteq {"send"} \/ Calls[u] \subseteq {"send"}

OnlyCallers == \A t \in Threads : Calls[t] \subseteq {"send"} => pc[t] = "idle"

\* What a call goes on with when the collection in it is over.
Phase(t) == IF pc[t] \in GcPcs \cup {"gc", "wait"} THEN loc[t].ret ELSE pc[t]

Empty(t, r) == r \in Regs /\ regs[t][r] = Zero

NodePhases  == {"find", "full", "inc"}
DropPhases  == {"drop_hi", "drop_lo"}
ChildPhases == {"child", "child_drop"}

\* The places that a call has still to fill, and the handles it has no more.
RoomsOf(t) ==
  /\ Phase(t) \in NodePhases \cup DropPhases \cup ChildPhases \cup {"get_lo"}
       => Empty(t, loc[t].dst)
  /\ Phase(t) \in {"get_lo", "get_hi"} => Empty(t, loc[t].dst2)
  /\ Phase(t) = "get_lo" => loc[t].dst # loc[t].dst2
  /\ Phase(t) \in NodePhases \cup {"child"} => args[t].res = Zero
  /\ Phase(t) \in ChildPhases \cup {"drop_lo"} => args[t].hi = Zero
  /\ Phase(t) \in {"idle", "get_lo", "get_hi"} =>
       \A a \in ArgNames : args[t][a] = Zero

Rooms == \A t \in Threads : RoomsOf(t)

\* The counts c are no more than the handles at the places f.
Tight(f, c) == \A i \in Indices : c[i] <= Number(f, i)

\* Nothing is counted during a collection.
Quiet ==
  \A t \in Threads :
    /\ pc[t] = "install" => gc.copy = count
    /\ pc[t] = "scan" => \A i \in gc.roots : count[i] > 0

AInv == /\ GInv
        /\ ~raced
        /\ InitialCapacity <= capacity
        /\ OnlyCallers
        /\ Rooms
        /\ Tight(Hold, count)
        /\ Quiet

-----------------------------------------------------------------------------
(***************************************************************************)
(* No more counts than handles                                             *)
(***************************************************************************)
LEMMA TightSame ==
  ASSUME NEW f, NEW g, NEW c \in [Indices -> Int], Tight(f, c),
         \A q \in Spots : g[q] = f[q] \/ f[q] \notin Indices
  PROVE  Tight(g, c)
  <1>1. ASSUME NEW i \in Indices PROVE Number(f, i) <= Number(g, i)
    BY NoMore
  <1>2. QED
    BY <1>1, WhereFinite DEF Tight

\* A handle is written where there was none.
LEMMA TightInc ==
  ASSUME NEW f, NEW g, NEW c \in [Indices -> Int], Tight(f, c),
         NEW p \in Spots, f[p] \notin Indices,
         \A q \in Spots \ {p} : g[q] = f[q] \/ f[q] \notin Indices,
         NEW k \in Nat, g[p] = k
  PROVE  Tight(g, Inc(c, k))
  <1>1. ASSUME NEW i \in Indices PROVE Inc(c, k)[i] <= Number(g, i)
    <2>1. ~IsTerminal(i) /\ c[i] <= Number(f, i) /\ c[i] \in Int
          /\ Number(f, i) \in Nat /\ Number(g, i) \in Nat
      BY CollectorAssumption, WhereFinite DEF Indices, IsTerminal, Tight
    <2>2. CASE i = k
      <3>1. Number(f, i) <= Number(g, i) - 1
        BY <2>2, OneLess
      <3>2. Inc(c, k)[i] = c[i] + 1
        BY <2>1, <2>2 DEF Inc
      <3>3. QED
        BY <2>1, <3>1, <3>2
    <2>3. CASE i # k
      <3>1. Number(f, i) <= Number(g, i)
        BY NoMore
      <3>2. Inc(c, k)[i] = c[i]
        BY <2>1, <2>3 DEF Inc
      <3>3. QED
        BY <2>1, <3>1, <3>2
    <2>4. QED
      BY <2>2, <2>3
  <1>2. QED
    BY <1>1 DEF Tight

LEMMA TightDec ==
  ASSUME NEW f, NEW g, NEW c \in [Indices -> Int], Tight(f, c), NEW p \in Spots,
         \A q \in Spots \ {p} : g[q] = f[q] \/ f[q] \notin Indices
  PROVE  Tight(g, Dec(c, f[p]))
  <1>1. ASSUME NEW i \in Indices PROVE Dec(c, f[p])[i] <= Number(g, i)
    <2>1. ~IsTerminal(i) /\ c[i] <= Number(f, i) /\ c[i] \in Int
          /\ Number(f, i) \in Nat /\ Number(g, i) \in Nat
      BY CollectorAssumption, WhereFinite DEF Indices, IsTerminal, Tight
    <2>2. CASE i = f[p]
      <3>1. Number(f, i) <= Number(g, i) + 1
        BY OneMore
      <3>2. Dec(c, f[p])[i] = c[i] - 1
        BY <2>1, <2>2 DEF Dec
      <3>3. QED
        BY <2>1, <3>1, <3>2
    <2>3. CASE i # f[p]
      <3>1. Number(f, i) <= Number(g, i)
        BY <2>3, NoMore
      <3>2. Dec(c, f[p])[i] = c[i]
        BY <2>1, <2>3 DEF Dec
      <3>3. QED
        BY <2>1, <3>1, <3>2
    <2>4. QED
      BY <2>2, <2>3
  <1>2. QED
    BY <1>1 DEF Tight

\* A handle moves from p to r, where there was none.
LEMMA TightMove ==
  ASSUME NEW f, NEW g, NEW c \in [Indices -> Int], Tight(f, c),
         NEW p \in Spots, NEW r \in Spots, p # r,
         \A q \in Spots \ {p, r} : g[q] = f[q] \/ f[q] \notin Indices,
         g[r] = f[p], f[r] \notin Indices
  PROVE  Tight(g, c)
  <1>1. ASSUME NEW i \in Indices PROVE Number(f, i) <= Number(g, i)
    <2>1. CASE i = f[p]
      BY <2>1, OneMoved
    <2>2. CASE i # f[p]
      BY <2>2, NoMore
    <2>3. QED
      BY <2>1, <2>2
  <1>2. QED
    BY <1>1, WhereFinite DEF Tight

-----------------------------------------------------------------------------
(***************************************************************************)
(* One thread calls                                                        *)
(***************************************************************************)
LEMMA StepMoves ==
  ASSUME Frame, NEW t \in Threads, Step(t)
  PROVE  /\ pc[t] # "idle"
         /\ \A u \in Threads \ {t} :
              /\ pc'[u] = pc[u] /\ loc'[u] = loc[u]
              /\ args'[u] = args[u] /\ regs'[u] = regs[u]
  <1>1. CASE NodeStep(t)
    BY <1>1 DEF NodeStep, FindNode, CreateNode, FindFull, CountNode, DropHi, DropLo,
       FullCollects, FullPanics, Goto, Frame, Types
  <1>2. CASE ReadStep(t)
    BY <1>2 DEF ReadStep, ChildCount, ChildDrop, GetLo, GetHi, Goto, Frame, Types
  <1>3. CASE GcStep(t)
    BY <1>3 DEF GcStep, GcStart, GcRefused, GcWaited, GcScan, GcSweep, GcCopyCounts,
       GcInstallCounts, GcEnd, Goto, Frame, Types
  <1>4. QED
    BY <1>1, <1>2, <1>3 DEF Step

\* Alone, every other thread is idle.
LEMMA OthersIdle ==
  ASSUME OneCaller, OnlyCallers, NEW t \in Threads, pc[t] # "idle"
  PROVE  \A u \in Threads \ {t} : pc[u] = "idle"
  BY DEF OneCaller, OnlyCallers

\* What a new call does to the places where threads are.
LEMMA CallMoves ==
  ASSUME Frame, NEW t \in Threads, NewCall(t)
  PROVE  /\ pc[t] = "idle"
         /\ pc'[t] # "idle" => ~(Calls[t] \subseteq {"send"})
         /\ \A u \in Threads \ {t} : pc'[u] = pc[u]
         /\ UNCHANGED <<capacity, data, published, used, paused, gc, raced>>
         /\ UNCHANGED count \/ ~(Calls[t] \subseteq {"send"})
         /\ pc'[t] \in {"idle", "gc", "child", "find", "get_lo"}
  <1>1. CASE GcCall(t)
    BY <1>1 DEF GcCall, Goto, May, Frame, Types, UnchangedTable, UnchangedGc
  <1>2. CASE \E r \in Places[t] : TakeOne(t, r)
    BY <1>2 DEF TakeOne, May, Frame, Types, UnchangedTable, UnchangedGc
  <1>3. CASE \E r \in Places[t] : DropHandle(t, r)
    BY <1>3 DEF DropHandle, May, Frame, Types, UnchangedTable, UnchangedGc
  <1>4. CASE \E r \in Places[t] : \E side \in {"lo", "hi"} : ChildRead(t, r, side)
    BY <1>4 DEF ChildRead, Goto, May, Frame, Types, UnchangedTable, UnchangedGc
  <1>5. CASE \E r \in Places[t] : \E q \in Places[t] \ {r} : CloneHandle(t, r, q)
    BY <1>5 DEF CloneHandle, May, Frame, Types, UnchangedTable, UnchangedGc
  <1>6. CASE \E r \in Places[t] : \E q \in Places[t] \ {r} :
               \E v \in Vals : NodeCall(t, v, r, q)
    BY <1>6 DEF NodeCall, Goto, May, Frame, Types, UnchangedTable, UnchangedGc
  <1>7. CASE \E r \in Places[t] : \E q \in Places[t] \ {r} :
               \E p \in Places[t] \ {r} : GetRead(t, r, q, p)
    BY <1>7 DEF GetRead, Goto, May, Frame, Types, UnchangedTable, UnchangedGc
  <1>8. CASE \E r \in Places[t] : \E u \in Threads : \E q \in Places[u] :
               SendHandle(t, r, u, q)
    BY <1>8 DEF SendHandle, Frame, Types, UnchangedTable, UnchangedGc
  <1>9. QED
    BY <1>1, <1>2, <1>3, <1>4, <1>5, <1>6, <1>7, <1>8 DEF NewCall

LEMMA CallersStep ==
  ASSUME Frame, OnlyCallers, Next
  PROVE  OnlyCallers'
  <1>1. ASSUME NEW t \in Threads, Step(t) PROVE OnlyCallers'
    BY <1>1, StepMoves DEF OnlyCallers
  <1>2. ASSUME NEW t \in Threads, NewCall(t) PROVE OnlyCallers'
    BY <1>2, CallMoves DEF OnlyCallers
  <1>3. QED
    BY <1>1, <1>2 DEF Next

-----------------------------------------------------------------------------
(***************************************************************************)
(* The places that a call fills are empty until it does                    *)
(***************************************************************************)
\* A thread that takes no step keeps its rooms.
LEMMA RoomsKept ==
  ASSUME NEW u \in Threads, RoomsOf(u), pc'[u] = pc[u], loc'[u] = loc[u],
         args'[u] = args[u], regs'[u] = regs[u]
  PROVE  RoomsOf(u)'
  BY DEF RoomsOf, Phase, Empty

LEMMA RoomsNode ==
  ASSUME Frame, NEW t \in Threads, NodeStep(t), RoomsOf(t)
  PROVE  RoomsOf(t)'
  <1> USE DEF RoomsOf, Phase, Empty, NodePhases, DropPhases, ChildPhases, GcPcs,
              Frame, Types, Locs, NoLoc, NoArgs, ArgNames, Goto
  <1>1. CASE FindNode(t)
    BY <1>1 DEF FindNode
  <1>2. CASE CreateNode(t)
    BY <1>2 DEF CreateNode
  <1>3. CASE FindFull(t)
    BY <1>3 DEF FindFull
  <1>4. CASE CountNode(t)
    BY <1>4 DEF CountNode
  <1>5. CASE DropHi(t)
    BY <1>5 DEF DropHi
  <1>6. CASE DropLo(t)
    BY <1>6 DEF DropLo
  <1>7. CASE FullCollects(t)
    BY <1>7 DEF FullCollects
  <1>8. CASE FullPanics(t)
    BY <1>8 DEF FullPanics
  <1>9. QED
    BY <1>1, <1>2, <1>3, <1>4, <1>5, <1>6, <1>7, <1>8 DEF NodeStep

LEMMA RoomsRead ==
  ASSUME Frame, NEW t \in Threads, ReadStep(t), RoomsOf(t)
  PROVE  RoomsOf(t)'
  <1> USE DEF RoomsOf, Phase, Empty, NodePhases, DropPhases, ChildPhases, GcPcs,
              Frame, Types, Locs, NoLoc, NoArgs, ArgNames, Goto
  <1>1. CASE ChildCount(t)
    BY <1>1 DEF ChildCount
  <1>2. CASE ChildDrop(t)
    BY <1>2 DEF ChildDrop
  <1>3. CASE GetLo(t)
    BY <1>3 DEF GetLo
  <1>4. CASE GetHi(t)
    BY <1>4 DEF GetHi
  <1>5. QED
    BY <1>1, <1>2, <1>3, <1>4 DEF ReadStep

LEMMA RoomsGc ==
  ASSUME Frame, NEW t \in Threads, GcStep(t), RoomsOf(t)
  PROVE  RoomsOf(t)'
  <1> USE DEF RoomsOf, Phase, Empty, NodePhases, DropPhases, ChildPhases, GcPcs,
              Frame, Types, Locs, Goto
  <1>1. CASE GcStart(t)
    BY <1>1 DEF GcStart
  <1>2. CASE GcRefused(t)
    BY <1>2 DEF GcRefused
  <1>3. CASE GcWaited(t)
    BY <1>3 DEF GcWaited
  <1>4. CASE GcScan(t)
    BY <1>4 DEF GcScan
  <1>5. CASE GcSweep(t)
    BY <1>5 DEF GcSweep
  <1>6. CASE GcCopyCounts(t)
    BY <1>6 DEF GcCopyCounts
  <1>7. CASE GcInstallCounts(t)
    BY <1>7 DEF GcInstallCounts
  <1>8. CASE GcEnd(t)
    BY <1>8 DEF GcEnd
  <1>9. QED
    BY <1>1, <1>2, <1>3, <1>4, <1>5, <1>6, <1>7, <1>8 DEF GcStep

LEMMA RoomsCall ==
  ASSUME Frame, NEW t \in Threads, NewCall(t), Rooms
  PROVE  Rooms'
  <1> USE DEF Rooms, RoomsOf, Phase, Empty, NodePhases, DropPhases, ChildPhases,
              GcPcs, Frame, Types, NoLoc, ArgNames, Goto
  <1>1. Places[t] \subseteq Regs /\ \A u \in Threads : Places[u] \subseteq Regs
    BY CollectorAssumption
  <1>2. CASE GcCall(t)
    BY <1>2 DEF GcCall
  <1>3. CASE \E r \in Places[t] : TakeOne(t, r)
    BY <1>1, <1>3 DEF TakeOne
  <1>4. CASE \E r \in Places[t] : DropHandle(t, r)
    BY <1>1, <1>4 DEF DropHandle
  <1>5. CASE \E r \in Places[t] : \E side \in {"lo", "hi"} : ChildRead(t, r, side)
    BY <1>1, <1>5 DEF ChildRead
  <1>6. CASE \E r \in Places[t] : \E q \in Places[t] \ {r} : CloneHandle(t, r, q)
    BY <1>1, <1>6 DEF CloneHandle
  <1>7. CASE \E r \in Places[t] : \E q \in Places[t] \ {r} :
               \E v \in Vals : NodeCall(t, v, r, q)
    BY <1>1, <1>7 DEF NodeCall
  <1>8. CASE \E r \in Places[t] : \E q \in Places[t] \ {r} :
               \E p \in Places[t] \ {r} : GetRead(t, r, q, p)
    BY <1>1, <1>8 DEF GetRead
  <1>9. CASE \E r \in Places[t] : \E u \in Threads : \E q \in Places[u] :
               SendHandle(t, r, u, q)
    BY <1>1, <1>9, SMTT(30) DEF SendHandle
  <1>10. QED
    BY <1>2, <1>3, <1>4, <1>5, <1>6, <1>7, <1>8, <1>9 DEF NewCall

LEMMA RoomsStep ==
  ASSUME Frame, Rooms, Next
  PROVE  Rooms'
  <1>1. ASSUME NEW t \in Threads, Step(t) PROVE Rooms'
    <2>1. RoomsOf(t)'
      BY <1>1, RoomsNode, RoomsRead, RoomsGc DEF Step, Rooms
    <2>2. \A u \in Threads \ {t} : RoomsOf(u)'
      BY <1>1, StepMoves, RoomsKept DEF Rooms
    <2>3. QED
      BY <2>1, <2>2 DEF Rooms
  <1>2. QED
    BY <1>1, RoomsCall DEF Next

-----------------------------------------------------------------------------
(***************************************************************************)
(* Each step counts what it makes and drops                                *)
(***************************************************************************)
LEMMA NoneHeld ==
  /\ Zero.id = 0 /\ One.id = 1 /\ 0 \notin Indices /\ 1 \notin Indices
  /\ NoArgs = [a \in ArgNames |-> Zero]
  BY CollectorAssumption DEF Zero, One, Handle, Indices, NoArgs, ArgNames

LEMMA TightKept ==
  ASSUME Frame, Tight(Hold, count), UNCHANGED <<regs, args, count>>
  PROVE  Tight(Hold, count)'
  <1>1. Hold' = Hold
    BY DEF Hold
  <1>2. QED
    BY <1>1 DEF Tight

LEMMA TightCountNode ==
  ASSUME Frame, Tight(Hold, count), NEW t \in Threads, RoomsOf(t), CountNode(t)
  PROVE  Tight(Hold, count)'
  <1> DEFINE res == Owned(t, "res")
  <1>1. res \in Spots /\ Hold[res] = args[t].res.id
    BY HoldAt, SpotPlaces DEF ArgNames
  <1>2. Hold[res] \notin Indices
    BY <1>1, NoneHeld DEF CountNode, Goto, RoomsOf, Phase, NodePhases, GcPcs
  <1>3. \A q \in Spots \ {res} : Hold'[q] = Hold[q]
    BY Elsewhere, SpotPlaces DEF CountNode, Frame, Types, ArgNames
  <1>4. Hold'[res] = loc[t].raw /\ loc[t].raw \in Nat
    BY HoldAt, SpotPlaces DEF CountNode, Frame, Types, Locs, HIds, ArgNames, Handle
  <1>5. Tight(Hold', Inc(count, loc[t].raw))
    BY <1>1, <1>2, <1>3, <1>4, TightInc DEF Frame, Types
  <1>6. QED
    BY <1>5 DEF CountNode

LEMMA TightDropHi ==
  ASSUME Frame, Tight(Hold, count), NEW t \in Threads, DropHi(t)
  PROVE  Tight(Hold, count)'
  <1> DEFINE hi == Owned(t, "hi")
  <1>1. hi \in Spots /\ Hold[hi] = args[t].hi.id
    BY HoldAt, SpotPlaces DEF ArgNames
  <1>2. \A q \in Spots \ {hi} : Hold'[q] = Hold[q]
    BY Elsewhere, SpotPlaces DEF DropHi, Frame, Types, ArgNames
  <1>3. Tight(Hold', Dec(count, Hold[hi]))
    BY <1>1, <1>2, TightDec DEF Frame, Types
  <1>4. QED
    BY <1>1, <1>3 DEF DropHi

\* The end of get_node and of lo and hi: the result moves into its place and
\* the argument is dropped.
LEMMA TightReturn ==
  ASSUME Frame, Tight(Hold, count), NEW t \in Threads, Empty(t, loc[t].dst),
         args[t].hi = Zero,
         count' = Dec(count, args[t].lo.id),
         regs' = [regs EXCEPT ![t][loc[t].dst] = args[t].res],
         args' = [args EXCEPT ![t] = NoArgs]
  PROVE  Tight(Hold, count)'
  <1> DEFINE lo  == Owned(t, "lo")
             hi  == Owned(t, "hi")
             res == Owned(t, "res")
             dst == Kept(t, loc[t].dst)
             mid == [q \in Spots |-> IF q = dst THEN Hold[res]
                                     ELSE IF q = res THEN 0 ELSE Hold[q]]
  <1>1. /\ lo \in Spots /\ hi \in Spots /\ res \in Spots /\ dst \in Spots
        /\ lo # res /\ lo # hi /\ hi # res /\ dst # res /\ dst # lo /\ dst # hi
    BY SpotPlaces DEF ArgNames, Empty
  <1>2. /\ Hold[lo] = args[t].lo.id /\ Hold[hi] = 0 /\ Hold[res] = args[t].res.id
        /\ Hold[dst] = 0
    BY HoldAt, NoneHeld DEF ArgNames, Empty
  <1>3. /\ Hold'[lo] = 0 /\ Hold'[hi] = 0 /\ Hold'[res] = 0
        /\ Hold'[dst] = args[t].res.id
    BY HoldAt, NoneHeld DEF Frame, Types, ArgNames, Empty
  <1>4. \A q \in Spots \ {lo, hi, res, dst} : Hold'[q] = Hold[q]
    <2>1. \A u \in Threads, r \in Regs :
            Kept(u, r) \in {lo, hi, res, dst} \/ regs'[u][r] = regs[u][r]
      BY DEF Frame, Types
    <2>2. \A u \in Threads, a \in ArgNames :
            Owned(u, a) \in {lo, hi, res, dst} \/ args'[u][a] = args[u][a]
      BY DEF Frame, Types, ArgNames
    <2> HIDE DEF lo, hi, res, dst
    <2>3. QED
      BY <2>1, <2>2, Elsewhere
  <1>5. mid[lo] = args[t].lo.id
    BY <1>1, <1>2
  <1> HIDE DEF lo, hi, res, dst
  <1>6. Tight(mid, count)
    <2>1. mid[dst] = Hold[res] /\ \A q \in Spots \ {res, dst} : mid[q] = Hold[q]
      BY <1>1
    <2> HIDE DEF mid
    <2>2. QED
      BY <1>1, <1>2, <2>1, NoneHeld, TightMove DEF Frame, Types
  <1>7. \A q \in Spots \ {lo} : Hold'[q] = mid[q] \/ mid[q] \notin Indices
    BY <1>1, <1>2, <1>3, <1>4, NoneHeld
  <1> HIDE DEF mid
  <1>8. Tight(Hold', Dec(count, mid[lo]))
    BY <1>1, <1>6, <1>7, TightDec DEF Frame, Types
  <1>9. QED
    BY <1>5, <1>8

LEMMA TightChildCount ==
  ASSUME Frame, Tight(Hold, count), NEW t \in Threads, RoomsOf(t), ChildCount(t)
  PROVE  Tight(Hold, count)'
  <1> DEFINE res == Owned(t, "res")
  <1>1. res \in Spots /\ Hold[res] = args[t].res.id
    BY HoldAt, SpotPlaces DEF ArgNames
  <1>2. Hold[res] \notin Indices
    BY <1>1, NoneHeld DEF ChildCount, Goto, RoomsOf, Phase, NodePhases, GcPcs
  <1>3. \A q \in Spots \ {res} : Hold'[q] = Hold[q]
    BY Elsewhere, SpotPlaces DEF ChildCount, Frame, Types, ArgNames
  <1>4. Hold'[res] = loc[t].raw /\ loc[t].raw \in Nat
    BY HoldAt, SpotPlaces DEF ChildCount, Frame, Types, Locs, HIds, ArgNames, Handle
  <1>5. Tight(Hold', Inc(count, loc[t].raw))
    BY <1>1, <1>2, <1>3, <1>4, TightInc DEF Frame, Types
  <1>6. QED
    BY <1>5 DEF ChildCount

\* A handle to k is made in an empty place.
LEMMA TightFill ==
  ASSUME Frame, Tight(Hold, count), NEW t \in Threads, NEW r, Empty(t, r),
         NEW k \in Nat, NEW f, UNCHANGED args, count' = Inc(count, k),
         regs' = [regs EXCEPT ![t][r] = Handle(k, f)]
  PROVE  Tight(Hold, count)'
  <1>1. Kept(t, r) \in Spots /\ Hold[Kept(t, r)] \notin Indices
    BY HoldAt, SpotPlaces, NoneHeld DEF Empty
  <1>2. \A q \in Spots \ {Kept(t, r)} : Hold'[q] = Hold[q]
    BY Elsewhere, SpotPlaces DEF Frame, Types
  <1>3. Hold'[Kept(t, r)] = k
    BY HoldAt DEF Frame, Types, Empty, Handle
  <1>4. QED
    BY <1>1, <1>2, <1>3, TightInc DEF Frame, Types

\* A handle moves into a call, or to another thread.
LEMMA TightNodeCall ==
  ASSUME Frame, Tight(Hold, count), NEW t \in Threads, RoomsOf(t), NEW v,
         NEW a \in Regs, NEW b \in Regs, a # b, NodeCall(t, v, a, b)
  PROVE  Tight(Hold, count)'
  <1> DEFINE from == Kept(t, a)
             also == Kept(t, b)
             lo   == Owned(t, "lo")
             hi   == Owned(t, "hi")
             mid  == [q \in Spots |-> IF q = lo THEN Hold[from]
                                      ELSE IF q = from THEN 0 ELSE Hold[q]]
  <1>1. /\ from \in Spots /\ also \in Spots /\ lo \in Spots /\ hi \in Spots
        /\ from # also /\ lo # hi
        /\ from # lo /\ from # hi /\ also # lo /\ also # hi
    BY SpotPlaces DEF ArgNames
  <1>2. Hold[lo] = 0 /\ Hold[hi] = 0
    BY HoldAt, NoneHeld DEF NodeCall, Goto, RoomsOf, Phase, GcPcs, ArgNames
  <1>3. /\ Hold'[lo] = Hold[from] /\ Hold'[hi] = Hold[also]
        /\ Hold'[from] = 0 /\ Hold'[also] = 0
    BY HoldAt, NoneHeld DEF NodeCall, Frame, Types, ArgNames
  <1>4. \A q \in Spots \ {from, also, lo, hi} : Hold'[q] = Hold[q]
    <2>1. \A u \in Threads, r \in Regs :
            Kept(u, r) \in {from, also, lo, hi} \/ regs'[u][r] = regs[u][r]
      BY DEF NodeCall, Frame, Types
    <2>2. \A u \in Threads, x \in ArgNames :
            Owned(u, x) \in {from, also, lo, hi} \/ args'[u][x] = args[u][x]
      BY DEF NodeCall, Frame, Types, ArgNames
    <2> HIDE DEF from, also, lo, hi
    <2>3. QED
      BY <2>1, <2>2, Elsewhere
  <1>5. count' = count
    BY DEF NodeCall
  <1> HIDE DEF from, also, lo, hi
  <1>6. /\ mid[lo] = Hold[from] /\ mid[hi] = 0 /\ mid[also] = Hold[also]
        /\ \A q \in Spots \ {from, lo} : mid[q] = Hold[q]
        /\ \A q \in Spots \ {also, hi} : Hold'[q] = mid[q]
    BY <1>1, <1>2, <1>3, <1>4
  <1> HIDE DEF mid
  <1>7. Tight(mid, count)
    BY <1>1, <1>2, <1>6, NoneHeld, TightMove DEF Frame, Types
  <1>8. Tight(Hold', count)
    BY <1>1, <1>3, <1>6, <1>7, NoneHeld, TightMove DEF Frame, Types
  <1>9. QED
    BY <1>5, <1>8

LEMMA TightChildRead ==
  ASSUME Frame, Tight(Hold, count), NEW t \in Threads, RoomsOf(t),
         NEW r \in Regs, NEW side, ChildRead(t, r, side)
  PROVE  Tight(Hold, count)'
  <1> DEFINE from == Kept(t, r)
             lo   == Owned(t, "lo")
  <1>1. from \in Spots /\ lo \in Spots /\ from # lo
    BY SpotPlaces DEF ArgNames
  <1>2. Hold[lo] = 0
    BY HoldAt, NoneHeld DEF ChildRead, Goto, RoomsOf, Phase, GcPcs, ArgNames
  <1>3. Hold'[lo] = Hold[from]
    BY HoldAt, NoneHeld DEF ChildRead, Frame, Types, ArgNames
  <1>4. \A q \in Spots \ {from, lo} : Hold'[q] = Hold[q]
    <2>1. \A u \in Threads, x \in Regs :
            Kept(u, x) \in {from, lo} \/ regs'[u][x] = regs[u][x]
      BY DEF ChildRead, Frame, Types
    <2>2. \A u \in Threads, x \in ArgNames :
            Owned(u, x) \in {from, lo} \/ args'[u][x] = args[u][x]
      BY DEF ChildRead, Frame, Types, ArgNames
    <2> HIDE DEF from, lo
    <2>3. QED
      BY <2>1, <2>2, Elsewhere
  <1>5. count' = count
    BY DEF ChildRead
  <1> HIDE DEF from, lo
  <1>6. Tight(Hold', count)
    <2>1. count \in [Indices -> Int] /\ Hold[lo] \notin Indices
      BY <1>2, NoneHeld DEF Frame, Types
    <2>2. QED
      BY <1>1, <1>3, <1>4, <2>1, TightMove
  <1>7. QED
    BY <1>5, <1>6

LEMMA TightSend ==
  ASSUME Frame, Tight(Hold, count), NEW t \in Threads, NEW r \in Regs,
         NEW u \in Threads, NEW q \in Regs, SendHandle(t, r, u, q)
  PROVE  Tight(Hold, count)'
  <1>1. /\ Kept(t, r) \in Spots /\ Kept(u, q) \in Spots
        /\ Kept(t, r) # Kept(u, q) /\ Hold[Kept(t, r)] = regs[t][r].id
        /\ Hold[Kept(u, q)] = 0
    BY HoldAt, SpotPlaces, NoneHeld DEF SendHandle
  <1>2. \A x \in Spots \ {Kept(t, r), Kept(u, q)} : Hold'[x] = Hold[x]
    BY Elsewhere, SpotPlaces DEF SendHandle, Frame, Types
  <1>3. Hold'[Kept(u, q)] = regs[t][r].id
    BY HoldAt DEF SendHandle, Frame, Types
  <1>4. Tight(Hold', count)
    BY <1>1, <1>2, <1>3, NoneHeld, TightMove DEF Frame, Types
  <1>5. QED
    BY <1>4 DEF SendHandle

LEMMA TightDrop ==
  ASSUME Frame, Tight(Hold, count), NEW t \in Threads, NEW r \in Regs,
         DropHandle(t, r)
  PROVE  Tight(Hold, count)'
  <1>1. Kept(t, r) \in Spots /\ Hold[Kept(t, r)] = regs[t][r].id
    BY HoldAt, SpotPlaces
  <1>2. \A q \in Spots \ {Kept(t, r)} : Hold'[q] = Hold[q]
    BY Elsewhere, SpotPlaces DEF DropHandle, Frame, Types
  <1>3. Tight(Hold', Dec(count, Hold[Kept(t, r)]))
    BY <1>1, <1>2, TightDec DEF Frame, Types
  <1>4. QED
    BY <1>1, <1>3 DEF DropHandle

LEMMA TightTakeOne ==
  ASSUME Frame, Tight(Hold, count), NEW t \in Threads, NEW r \in Regs, TakeOne(t, r)
  PROVE  Tight(Hold, count)'
  <1>1. Kept(t, r) \in Spots /\ Hold[Kept(t, r)] \notin Indices
    BY HoldAt, SpotPlaces, NoneHeld DEF TakeOne
  <1>2. \A q \in Spots \ {Kept(t, r)} : Hold'[q] = Hold[q]
    BY Elsewhere, SpotPlaces DEF TakeOne, Frame, Types
  <1>3. Tight(Hold', count)
    BY <1>1, <1>2, TightSame DEF Frame, Types
  <1>4. QED
    BY <1>3 DEF TakeOne

LEMMA TightNode ==
  ASSUME Frame, Tight(Hold, count), NEW t \in Threads, RoomsOf(t), NodeStep(t)
  PROVE  Tight(Hold, count)'
  <1>1. CASE FindNode(t) \/ CreateNode(t) \/ FindFull(t) \/ FullCollects(t)
             \/ FullPanics(t)
    BY <1>1, TightKept DEF FindNode, CreateNode, FindFull, FullCollects,
       FullPanics
  <1>2. CASE DropLo(t)
    <2>1. Empty(t, loc[t].dst) /\ args[t].hi = Zero
      BY <1>2 DEF DropLo, Goto, RoomsOf, Phase, GcPcs, DropPhases
    <2>2. QED
      BY <1>2, <2>1, TightReturn DEF DropLo
  <1>3. QED
    BY <1>1, <1>2, TightCountNode, TightDropHi DEF NodeStep

LEMMA TightRead ==
  ASSUME Frame, Tight(Hold, count), NEW t \in Threads, RoomsOf(t), ReadStep(t)
  PROVE  Tight(Hold, count)'
  <1>1. loc[t].raw \in Nat /\ loc[t].raw2 \in Nat
    BY DEF Frame, Types, Locs, HIds
  <1>2. CASE ChildDrop(t)
    <2>1. Empty(t, loc[t].dst) /\ args[t].hi = Zero
      BY <1>2 DEF ChildDrop, Goto, RoomsOf, Phase, GcPcs, ChildPhases
    <2>2. QED
      BY <1>2, <2>1, TightReturn DEF ChildDrop
  <1>3. CASE GetLo(t)
    <2>1. Empty(t, loc[t].dst)
      BY <1>3 DEF GetLo, Goto, RoomsOf, Phase, GcPcs
    <2>2. QED
      BY <1>1, <1>3, <2>1, TightFill DEF GetLo
  <1>4. CASE GetHi(t)
    <2>1. Empty(t, loc[t].dst2)
      BY <1>4 DEF GetHi, Goto, RoomsOf, Phase, GcPcs
    <2>2. QED
      BY <1>1, <1>4, <2>1, TightFill DEF GetHi
  <1>5. QED
    BY <1>2, <1>3, <1>4, TightChildCount DEF ReadStep

LEMMA TightGc ==
  ASSUME Frame, Tight(Hold, count), Quiet, NEW t \in Threads, GcStep(t)
  PROVE  Tight(Hold, count)'
  <1>1. UNCHANGED <<regs, args, count>>
    BY DEF GcStep, GcStart, GcRefused, GcWaited, GcScan, GcSweep, GcCopyCounts,
           GcInstallCounts, GcEnd, Goto, Quiet
  <1>2. QED
    BY <1>1, TightKept

LEMMA TightCall ==
  ASSUME Frame, Tight(Hold, count), NEW t \in Threads, RoomsOf(t), NewCall(t)
  PROVE  Tight(Hold, count)'
  <1>1. Places[t] \subseteq Regs /\ \A u \in Threads : Places[u] \subseteq Regs
    BY CollectorAssumption
  <1>2. CASE GcCall(t)
    BY <1>2, TightKept DEF GcCall
  <1>3. CASE \E r \in Places[t] : TakeOne(t, r)
    BY <1>1, <1>3, TightTakeOne
  <1>4. CASE \E r \in Places[t] : DropHandle(t, r)
    BY <1>1, <1>4, TightDrop
  <1>5. CASE \E r \in Places[t] : \E side \in {"lo", "hi"} : ChildRead(t, r, side)
    BY <1>1, <1>5, TightChildRead
  <1>6. ASSUME NEW r \in Regs, NEW q \in Regs, CloneHandle(t, r, q)
        PROVE  Tight(Hold, count)'
    <2>1. /\ regs[t][r] = Handle(regs[t][r].id, regs[t][r].fam)
          /\ regs[t][r].id \in Nat
      BY DEF Frame, Types, Handles, Handle, HIds
    <2>2. Empty(t, q)
      BY <1>6 DEF CloneHandle, Empty
    <2>3. QED
      BY <1>6, <2>1, <2>2, TightFill DEF CloneHandle
  <1>7. CASE \E r \in Places[t] : \E q \in Places[t] \ {r} :
               \E v \in Vals : NodeCall(t, v, r, q)
    BY <1>1, <1>7, TightNodeCall
  <1>8. CASE \E r \in Places[t] : \E q \in Places[t] \ {r} :
               \E p \in Places[t] \ {r} : GetRead(t, r, q, p)
    BY <1>1, <1>8, TightKept DEF GetRead
  <1>9. CASE \E r \in Places[t] : \E u \in Threads : \E q \in Places[u] :
               SendHandle(t, r, u, q)
    BY <1>1, <1>9, TightSend
  <1>10. QED
    BY <1>1, <1>2, <1>3, <1>4, <1>5, <1>6, <1>7, <1>8, <1>9 DEF NewCall

-----------------------------------------------------------------------------
(***************************************************************************)
(* The inductive invariant                                                 *)
(***************************************************************************)
\* A count is never negative.
LEMMA CountsNat ==
  ASSUME Frame, Sound
  PROVE  count \in [Indices -> Nat]
  <1>1. ASSUME NEW i \in Indices PROVE count[i] \in Nat
    <2>1. Number(Hold, i) \in Nat /\ Number(Hold, i) <= count[i] /\ count[i] \in Int
      BY WhereFinite DEF Sound, CountsCover, Frame, Types
    <2>2. QED
      BY <2>1
  <1>2. QED
    BY <1>1 DEF Frame, Types

LEMMA QuietOf ==
  ASSUME Frame, NEW t \in Threads, OneCaller, OnlyCallers, Step(t),
         /\ pc'[t] = "install" => gc'.copy = count'
         /\ pc'[t] = "scan" => \A i \in gc'.roots : count'[i] > 0
  PROVE  Quiet'
  <1>1. \A u \in Threads \ {t} : pc'[u] = "idle"
    BY StepMoves, OthersIdle
  <1>2. QED
    BY <1>1 DEF Quiet

LEMMA QuietStep ==
  ASSUME Frame, Sound, OneCaller, OnlyCallers, Quiet, Next
  PROVE  Quiet'
  <1>1. ASSUME NEW t \in Threads, NodeStep(t) PROVE Quiet'
    <2>1. pc'[t] \notin {"install", "scan"}
      BY <1>1 DEF NodeStep, FindNode, CreateNode, FindFull, CountNode, DropHi, DropLo,
         FullCollects, FullPanics, Goto, Frame, Types
    <2>2. QED
      BY <1>1, <2>1, QuietOf DEF Step
  <1>2. ASSUME NEW t \in Threads, ReadStep(t) PROVE Quiet'
    <2>1. pc'[t] \notin {"install", "scan"}
      BY <1>2 DEF ReadStep, ChildCount, ChildDrop, GetLo, GetHi, Goto, Frame, Types
    <2>2. QED
      BY <1>2, <2>1, QuietOf DEF Step
  <1>3. ASSUME NEW t \in Threads, GcStep(t) PROVE Quiet'
    <2>1. pc'[t] = "install" => gc'.copy = count'
      BY <1>3 DEF GcStep, GcStart, GcRefused, GcWaited, GcScan, GcSweep, GcCopyCounts,
         GcInstallCounts, GcEnd, Goto, Frame, Types, Locs
    <2>2. ASSUME pc'[t] = "scan", NEW i \in gc'.roots PROVE count'[i] > 0
      <3>1. CASE GcStart(t)
        BY <2>2, <3>1 DEF GcStart, NoGc
      <3>2. CASE GcScan(t)
        <4>1. gc.pos \in Indices
          BY <3>2, Bounds DEF GcScan, Goto, Frame, Types, GateHeld, Indices
        <4>2. count[gc.pos] # 0 => count[gc.pos] > 0
          BY <4>1, CountsNat
        <4>3. \A j \in gc.roots : count[j] > 0
          BY <3>2 DEF GcScan, Goto, Quiet
        <4>4. QED
          BY <2>2, <3>2, <4>2, <4>3 DEF GcScan, Frame, Types
      <3>3. QED
        BY <1>3, <2>2, <3>1, <3>2 DEF GcStep, GcRefused, GcWaited, GcSweep,
           GcCopyCounts, GcInstallCounts, GcEnd, Goto, Frame, Types, Locs
    <2>3. QED
      BY <1>3, <2>1, <2>2, QuietOf DEF Step
  <1>4. ASSUME NEW t \in Threads, NewCall(t) PROVE Quiet'
    <2>1. ASSUME NEW u \in Threads, pc'[u] \in {"install", "scan"}
          PROVE  pc'[u] = pc[u] /\ count' = count
      <3>1. u # t /\ pc[u] = pc'[u]
        BY <1>4, <2>1, CallMoves
      <3>2. ~(Calls[u] \subseteq {"send"})
        BY <2>1, <3>1 DEF OnlyCallers
      <3>3. Calls[t] \subseteq {"send"}
        BY <3>1, <3>2 DEF OneCaller
      <3>4. QED
        BY <1>4, <3>1, <3>3, CallMoves
    <2>2. gc' = gc
      BY <1>4, CallMoves
    <2>3. QED
      BY <2>1, <2>2 DEF Quiet
  <1>5. QED
    BY <1>1, <1>2, <1>3, <1>4 DEF Next, Step

\* No count is due when a collection starts, or while it copies the counts.
LEMMA NoRace ==
  ASSUME Frame, OneCaller, OnlyCallers, Quiet, ~raced, Next
  PROVE  ~raced'
  <1>1. ASSUME NEW t \in Threads, Step(t) PROVE ~raced'
    <2>1. CASE GcStart(t)
      <3>1. \A u \in Threads \ {t} : pc[u] = "idle"
        BY <1>1, StepMoves, OthersIdle
      <3>2. QED
        BY <2>1, <3>1 DEF GcStart, UncountedPcs
    <2>2. CASE GcInstallCounts(t)
      <3>1. gc.copy = count
        BY <2>2 DEF GcInstallCounts, Goto, Quiet
      <3>2. \A i \in Indices : ~(count[i] < count[i])
        BY DEF Frame, Types
      <3>3. QED
        BY <2>2, <3>1, <3>2 DEF GcInstallCounts
    <2>3. CASE ~GcStart(t) /\ ~GcInstallCounts(t)
      BY <1>1, <2>3 DEF Step, NodeStep, FindNode, CreateNode, FindFull, CountNode,
         DropHi, DropLo, FullCollects, FullPanics, ReadStep, ChildCount, ChildDrop,
         GetLo, GetHi, GcStep, GcRefused, GcWaited, GcScan, GcSweep, GcCopyCounts,
         GcEnd, UnchangedGc
    <2>4. QED
      BY <2>1, <2>2, <2>3
  <1>2. QED
    BY <1>1, CallMoves DEF Next

LEMMA CapacityGrows ==
  ASSUME Frame, Next
  PROVE  capacity <= capacity'
  <1>1. capacity \in Nat
    BY DEF Frame, Types
  <1>2. ASSUME NEW t \in Threads, Step(t), ~GcSweep(t) PROVE capacity' = capacity
    BY <1>2 DEF Step, NodeStep, FindNode, CreateNode, FindFull, CountNode,
       DropHi, DropLo, FullCollects, FullPanics, ReadStep, ChildCount, ChildDrop,
       GetLo, GetHi, GcStep, GcStart, GcRefused, GcWaited, GcScan, GcCopyCounts,
       GcInstallCounts, GcEnd, UnchangedTable
  <1>3. ASSUME NEW t \in Threads, GcSweep(t) PROVE capacity <= capacity'
    BY <1>3 DEF GcSweep, Goto, Frame, GateHeld
  <1>4. ASSUME NEW t \in Threads, NewCall(t) PROVE capacity' = capacity
    BY <1>4, CallMoves
  <1>5. QED
    BY <1>1, <1>2, <1>3, <1>4 DEF Next

LEMMA AloneInit == Init => AInv
  <1> SUFFICES ASSUME Init PROVE AInv
    OBVIOUS
  <1>1. GInv
    BY InitInv
  <1>2. ~raced /\ InitialCapacity <= capacity
    BY CollectorAssumption DEF Init
  <1>3. OnlyCallers /\ Quiet
    BY DEF Init, OnlyCallers, Quiet
  <1>4. Rooms
    BY DEF Init, Rooms, RoomsOf, Phase, GcPcs, NodePhases, DropPhases, ChildPhases,
           NoArgs, ArgNames
  <1>5. Tight(Hold, count)
    <2>1. \A i \in Indices : count[i] = 0 /\ Number(Hold, i) \in Nat
      BY WhereFinite DEF Init
    <2>2. QED
      BY <2>1 DEF Tight
  <1>6. QED
    BY <1>1, <1>2, <1>3, <1>4, <1>5 DEF AInv

LEMMA AloneStep ==
  ASSUME OneCaller, AInv, [Next]_vars
  PROVE  AInv'
  <1>1. CASE UNCHANGED vars
    <2>1. GInv' /\ Hold' = Hold
      BY <1>1, StepInv DEF AInv, vars, Hold
    <2>2. OnlyCallers' /\ Rooms'
      BY <1>1 DEF AInv, vars, OnlyCallers, Rooms, RoomsOf, Phase, Empty
    <2>3. Tight(Hold, count)' /\ Quiet'
      BY <1>1, <2>1 DEF AInv, vars, Tight, Quiet
    <2>4. QED
      BY <1>1, <2>1, <2>2, <2>3 DEF AInv, vars
  <1>2. CASE Next
    <2>1. Frame /\ Sound
      BY DEF AInv, GInv
    <2>2. GInv'
      BY <1>2, StepInv DEF AInv
    <2>3. ~raced'
      BY <1>2, <2>1, NoRace DEF AInv
    <2>4. InitialCapacity <= capacity'
      <3>1. capacity \in Nat /\ capacity' \in Nat /\ InitialCapacity \in Nat
        BY <2>1, <2>2, CollectorAssumption DEF GInv, Frame, Types
      <3>2. QED
        BY <1>2, <2>1, <3>1, CapacityGrows DEF AInv
    <2>5. OnlyCallers' /\ Rooms'
      BY <1>2, <2>1, CallersStep, RoomsStep DEF AInv
    <2>6. Tight(Hold, count)'
      BY <1>2, <2>1, TightNode, TightRead, TightGc, TightCall
         DEF AInv, Rooms, Next, Step
    <2>7. Quiet'
      BY <1>2, <2>1, QuietStep DEF AInv
    <2>8. QED
      BY <2>2, <2>3, <2>4, <2>5, <2>6, <2>7 DEF AInv
  <1>3. QED
    BY <1>1, <1>2

\* The inductive invariant holds when one thread calls.
THEOREM AloneHolds == OneCaller => (Spec => []AInv)
  <1> SUFFICES ASSUME OneCaller PROVE Spec => []AInv
    OBVIOUS
  <1>1. Init => AInv
    BY AloneInit
  <1>2. AInv /\ [Next]_vars => AInv'
    BY AloneStep
  <1>3. QED
    BY <1>1, <1>2, PTL DEF Spec

-----------------------------------------------------------------------------
(***************************************************************************)
(* What the invariant says                                                 *)
(***************************************************************************)
\* A family is made of the values of nodes.
LEMMA FamilyOfVals ==
  ASSUME NEW nodes, NEW P \in SUBSET Indices,
         \A i \in P : {nodes[i].lo, nodes[i].hi} \subseteq Ids,
         Ordered(nodes, P)
  PROVE  \A i \in P \cup {0, 1} : FamilyIn(nodes, i) \subseteq SUBSET Vals
  <1>1. /\ NVars \in Nat /\ MaxTable \in Nat /\ 2 < MaxTable
    BY CollectorAssumption
  <1>2. PICK F : /\ IsLevels(nodes, NVars, F)
                 /\ \A i : FamilyIn(nodes, i) = F[NVars][i]
    BY FamilyLevels
  <1>3. /\ F[0] = Ground
        /\ \A d \in 1 .. NVars : F[d] = Level(nodes, F[d - 1])
    BY <1>1, <1>2 DEF IsLevels
  <1>4. /\ P \cup {0, 1} \subseteq Ids
        /\ \A i \in Ids : Ground[i] \subseteq SUBSET Vals
    BY <1>1 DEF Ids, Indices, Ground
  <1> DEFINE Bad == {d \in 0 .. NVars :
                       \E i \in P \cup {0, 1} : ~(F[d][i] \subseteq SUBSET Vals)}
  <1>5. ASSUME Bad # {} PROVE FALSE
    <2>1. PICK d \in Bad : \A e \in Bad : d <= e
      <3>1. Bad \in SUBSET Nat
        OBVIOUS
      <3> HIDE DEF Bad
      <3>2. QED
        BY <1>5, <3>1, LeastOf
    <2>2. PICK i \in P \cup {0, 1} : ~(F[d][i] \subseteq SUBSET Vals)
      BY <2>1
    <2>3. d \in 1 .. NVars /\ d - 1 \in 0 .. NVars /\ d - 1 \notin Bad
      BY <1>1, <1>3, <1>4, <2>1, <2>2
    <2>4. \A j \in P \cup {0, 1} : F[d - 1][j] \subseteq SUBSET Vals
      BY <2>3
    <2>5. i \in P /\ ~IsTerminal(i)
          /\ F[d][i] = F[d - 1][nodes[i].lo] \cup Above(nodes[i].v, F[d - 1][nodes[i].hi])
      <3>1. i \in Ids /\ F[d] = Level(nodes, F[d - 1])
        BY <1>3, <1>4, <2>3
      <3>2. ~IsTerminal(i)
        BY <1>4, <2>2, <3>1 DEF Level
      <3>3. i \in P
        BY <3>2 DEF IsTerminal
      <3>4. QED
        BY <3>1, <3>2, <3>3 DEF Level
    <2>6. /\ nodes[i].v \in Vals
          /\ {nodes[i].lo, nodes[i].hi} \subseteq P \cup {0, 1}
      <3>1. \A c \in Ids : IsTerminal(c) => c = 0 \/ c = 1
        BY DEF Ids, IsTerminal
      <3>2. QED
        BY <2>5, <3>1 DEF Ordered
    <2>7. Above(nodes[i].v, F[d - 1][nodes[i].hi]) \subseteq SUBSET Vals
      BY <2>4, <2>6 DEF Above
    <2>8. QED
      BY <2>2, <2>4, <2>5, <2>6, <2>7
  <1>6. QED
    BY <1>1, <1>2, <1>5

\* The number of places with handles to a node, one kind after the other.
LEMMA NumberSplits ==
  ASSUME NEW i
  PROVE  Number(Hold, i) =
           Cardinality({p \in HandlePlaces : regs[p[1]][p[2]].id = i})
             + Cardinality({p \in ArgPlaces : args[p[1]][p[2]].id = i})
  <1> DEFINE H == {p \in HandlePlaces : regs[p[1]][p[2]].id = i}
             A == {p \in ArgPlaces : args[p[1]][p[2]].id = i}
             K == {q \in Where(Hold, i) : q[1] = "kept"}
             O == {q \in Where(Hold, i) : q[1] = "owned"}
  <1>1. HandlePlaces = Threads \X Regs /\ ArgPlaces = Threads \X ArgNames
    BY DEF HandlePlaces, ArgPlaces, NoArgs, ArgNames
  <1>2. Where(Hold, i) = K \cup O /\ K \cap O = {}
    BY DEF Where, Spots
  <1>3. IsFiniteSet(K) /\ IsFiniteSet(O)
    <2>1. K \in SUBSET Where(Hold, i) /\ O \in SUBSET Where(Hold, i)
      OBVIOUS
    <2>2. QED
      BY <2>1, WhereFinite, FS_Subset
  <1>4. Cardinality(H) = Cardinality(K)
    <2> DEFINE f == [q \in K |-> q[2]]
    <2>1. \A q \in K : q[2] \in H /\ q = <<"kept", q[2]>>
      BY <1>1 DEF Where, Spots, Hold
    <2>2. \A p \in H : <<"kept", p>> \in K
      BY <1>1 DEF Where, Spots, Hold
    <2>3. f \in [K -> H] /\ \A q \in K : f[q] = q[2]
      BY <2>1
    <2>4. f \in Injection(K, H)
      BY <2>1, <2>3 DEF Injection, IsInjective
    <2>5. f \in Surjection(K, H)
      BY <2>2, <2>3 DEF Surjection
    <2>6. ExistsBijection(K, H)
      BY <2>4, <2>5 DEF ExistsBijection, Bijection
    <2> HIDE DEF K, H
    <2>7. QED
      BY <1>3, <2>6, FS_Bijection
  <1>5. Cardinality(A) = Cardinality(O)
    <2> DEFINE f == [q \in O |-> q[2]]
    <2>1. \A q \in O : q[2] \in A /\ q = <<"owned", q[2]>>
      BY <1>1 DEF Where, Spots, Hold
    <2>2. \A p \in A : <<"owned", p>> \in O
      BY <1>1 DEF Where, Spots, Hold
    <2>3. f \in [O -> A] /\ \A q \in O : f[q] = q[2]
      BY <2>1
    <2>4. f \in Injection(O, A)
      BY <2>1, <2>3 DEF Injection, IsInjective
    <2>5. f \in Surjection(O, A)
      BY <2>2, <2>3 DEF Surjection
    <2>6. ExistsBijection(O, A)
      BY <2>4, <2>5 DEF ExistsBijection, Bijection
    <2> HIDE DEF O, A
    <2>7. QED
      BY <1>3, <2>6, FS_Bijection
  <1>6. Cardinality(K \cup O) = Cardinality(K) + Cardinality(O)
    <2>1. Cardinality(K \cap O) = 0
      BY <1>2, FS_EmptySet
    <2>2. Cardinality(K) \in Nat /\ Cardinality(O) \in Nat
      BY <1>3, FS_CardinalityType
    <2> HIDE DEF K, O
    <2>3. Cardinality(K \cup O)
            = Cardinality(K) + Cardinality(O) - Cardinality(K \cap O)
      BY <1>3, FS_Union
    <2>4. QED
      BY <2>1, <2>2, <2>3
  <1>7. QED
    BY <1>2, <1>4, <1>5, <1>6 DEF Number

LEMMA AloneTyped ==
  ASSUME AInv
  PROVE  TypeOK
  <1>1. Frame /\ Sound /\ DOMAIN NoArgs = ArgNames
    BY DEF AInv, GInv, NoArgs, ArgNames
  <1>2. HIds \subseteq Ids /\ capacity \in Nat /\ MaxTable \in Nat /\ InitialCapacity \in Nat
    BY <1>1, Bounds, CollectorAssumption DEF Frame
  <1>3. ASSUME NEW i \in HIds, Live(i) PROVE Family(i) \subseteq SUBSET Vals
    <2>1. published \in SUBSET Indices /\ \A j \in published : {data[j].lo, data[j].hi} \subseteq Ids
      BY <1>1, <1>2 DEF Frame, Types
    <2>2. i \in published \cup {0, 1}
      BY <1>3 DEF Live, IsTerminal, HIds
    <2>3. QED
      BY <1>1, <2>1, <2>2, TableOrdered, FamilyOfVals DEF Family
  <1>4. \A t \in Threads, r \in Regs : IsHandle(regs[t][r])
    <2>1. ASSUME NEW t \in Threads, NEW r \in Regs PROVE IsHandle(regs[t][r])
      <3>1. regs[t][r].id \in HIds /\ Live(regs[t][r].id)
        BY <1>1, HeldLive DEF Frame, Types, Handles
      <3>2. QED
        BY <1>1, <1>2, <1>3, <3>1 DEF IsHandle, Sound, HandlesSpell
    <2>2. QED
      BY <2>1
  <1>5. \A t \in Threads, a \in ArgNames : IsHandle(args[t][a])
    <2>1. ASSUME NEW t \in Threads, NEW a \in ArgNames PROVE IsHandle(args[t][a])
      <3>1. args[t][a].id \in HIds /\ Live(args[t][a].id)
        BY <1>1, HeldLive DEF Frame, Types, Handles
      <3>2. QED
        BY <1>1, <1>2, <1>3, <3>1 DEF IsHandle, Sound, HandlesSpell
    <2>2. QED
      BY <2>1
  <1>6. /\ capacity \in InitialCapacity .. MaxTable
        /\ \A i \in Indices : /\ data[i].v \in 0 .. NVars
                              /\ {data[i].lo, data[i].hi} \subseteq Ids
        /\ published \subseteq used /\ used \subseteq 0 .. capacity - 1
        /\ pc \in [Threads -> Pcs]
        /\ paused \in Threads \cup {NoThread}
        /\ gc.roots \subseteq Indices
        /\ raced \in BOOLEAN
    BY <1>1, <1>2 DEF AInv, Frame, Types, HIds
  <1>7. QED
    BY <1>1, <1>4, <1>5, <1>6, CountsNat DEF TypeOK

\* Every variable keeps its type and every count is the number of handles to
\* its node, when one thread calls: inc_count and dec_count
\* (hashtable.rs:102-119) are called as often as handles are made and dropped,
\* also across the copy of the counts by resize_with.
THEOREM Counts == OneCaller => (Spec => []CountsExact)
  <1> SUFFICES ASSUME OneCaller PROVE Spec => []CountsExact
    OBVIOUS
  <1>1. ASSUME AInv PROVE CountsExact
    <2>1. Frame /\ Sound /\ TypeOK
      BY <1>1, AloneTyped DEF AInv, GInv
    <2>2. ASSUME NEW i \in Indices PROVE count[i] = Number(Hold, i)
      <3>1. /\ count[i] \in Int /\ Number(Hold, i) \in Nat
            /\ Number(Hold, i) <= count[i] /\ count[i] <= Number(Hold, i)
        BY <1>1, <2>1, WhereFinite DEF AInv, Tight, Sound, CountsCover, Frame, Types
      <3>2. QED
        BY <3>1
    <2>3. QED
      BY <2>1, <2>2, NumberSplits DEF CountsExact
  <1>2. AInv => CountsExact
    BY <1>1
  <1>3. QED
    BY <1>2, AloneHolds, PTL

\* What a handle stands for survives every collection of the thread that
\* calls ("Held ZDDs shouldn't get cleared or changed by gc",
\* garbage.rs:147).
THEOREM HeldSurvives == OneCaller => (Spec => []HeldSurvive)
  <1> SUFFICES ASSUME OneCaller PROVE Spec => []HeldSurvive
    OBVIOUS
  <1>1. AInv => HeldSurvive
    BY SoundSurvives DEF AInv, OnlyMissedCountsLoseNodes
  <1>2. QED
    BY <1>1, AloneHolds, PTL

\* The roots that the scan has found are what is held.
LEMMA RootsAreHeld ==
  ASSUME AInv, NEW t \in Threads, pc[t] = "scan", gc.pos = capacity
  PROVE  gc.roots = {h.id : h \in Held} \ {0, 1}
  <1>1. Frame /\ Sound /\ gc.roots \subseteq Indices
    BY DEF AInv, GInv, Frame, Types
  <1>2. \A i \in Indices : i # 0 /\ i # 1
    BY DEF Indices
  <1>3. DOMAIN NoArgs = ArgNames
    BY DEF NoArgs, ArgNames
  <1>4. ASSUME NEW i \in gc.roots PROVE \E h \in Held : h.id = i
    <2>1. i \in Indices /\ count[i] > 0 /\ count[i] \in Int
      BY <1>1 DEF AInv, Quiet, Frame, Types
    <2>2. Number(Hold, i) > 0
      BY <2>1, WhereFinite DEF AInv, Tight
    <2>3. PICK q \in Spots : Hold[q] = i
      <3>1. Where(Hold, i) # {}
        BY <2>2, FS_EmptySet DEF Number
      <3>2. QED
        BY <3>1 DEF Where
    <2>4. CASE \E u \in Threads, r \in Regs : q = Kept(u, r)
      <3>1. PICK u \in Threads, r \in Regs : q = Kept(u, r)
        BY <2>4
      <3>2. regs[u][r].id = i /\ <<u, r>> \in HandlePlaces
        BY <2>3, <3>1, HoldAt DEF HandlePlaces
      <3>3. QED
        BY <3>2 DEF Held
    <2>5. CASE \E u \in Threads, a \in ArgNames : q = Owned(u, a)
      <3>1. PICK u \in Threads, a \in ArgNames : q = Owned(u, a)
        BY <2>5
      <3>2. args[u][a].id = i /\ <<u, a>> \in ArgPlaces
        BY <1>3, <2>3, <3>1, HoldAt DEF ArgPlaces
      <3>3. QED
        BY <3>2 DEF Held
    <2>6. QED
      BY <2>3, <2>4, <2>5, SpotsAre
  <1>5. ASSUME NEW q \in Spots, Hold[q] \notin {0, 1} PROVE Hold[q] \in gc.roots
    <2>1. Hold[q] \in HIds /\ Hold[q] \in Indices
      BY <1>1, <1>5, HeldLive, Bounds DEF Frame, HIds, IsTerminal
    <2>2. count[Hold[q]] > 0 /\ Hold[q] < gc.pos
      BY <1>1, <2>1, HeldLive DEF HIds, Frame, Types
    <2>3. QED
      BY <1>1, <2>1, <2>2 DEF Sound, ScanComplete
  <1>6. ASSUME NEW h \in Held PROVE \E q \in Spots : Hold[q] = h.id
    <2>1. CASE \E p \in HandlePlaces : h = regs[p[1]][p[2]]
      BY <2>1, HoldAt, SpotPlaces DEF HandlePlaces
    <2>2. CASE \E p \in ArgPlaces : h = args[p[1]][p[2]]
      BY <1>3, <2>2, HoldAt, SpotPlaces DEF ArgPlaces
    <2>3. QED
      BY <2>1, <2>2 DEF Held
  <1>7. QED
    BY <1>1, <1>2, <1>4, <1>5, <1>6

\* A collection by the thread that calls keeps exactly what its handles
\* reach: used_variables finds every root, mark goes everywhere below, and
\* clear drops the rest (garbage.rs:49-124).
THEOREM CollectsWhatIsHeld == OneCaller => (Spec => CollectsExactly)
  <1> SUFFICES ASSUME OneCaller PROVE Spec => CollectsExactly
    OBVIOUS
  <1>1. ASSUME AInv, NEW t \in Threads, GcSweep(t)
        PROVE  published' = Reach({h.id : h \in Held} \ {0, 1})
    <2>1. Frame /\ Sound /\ pc[t] = "scan" /\ gc.pos = capacity
      BY <1>1 DEF AInv, GInv, GcSweep, Goto
    <2>2. gc.roots \in SUBSET Indices /\ gc.roots \subseteq published
          /\ published \in SUBSET Indices
      BY <2>1 DEF Frame, Types, Sound, ScanComplete
    <2>3. Reach(gc.roots) \subseteq published
      <3>1. \A j \in published : {data[j].lo, data[j].hi} \subseteq published \cup {0, 1}
        <4>1. \A c \in HIds : Live(c) => c \in published \cup {0, 1}
          BY DEF Live, IsTerminal, HIds
        <4>2. QED
          BY <2>1, <4>1 DEF Sound, TableSpells, Frame, Types
      <3>2. QED
        BY <2>2, <3>1, ReachWithin
    <2>4. published' = {i \in Reach(gc.roots) :
                          \A j \in Reach(gc.roots) : j < i => data[j] # data[i]}
      BY <1>1 DEF GcSweep
    <2>5. \A i, j \in published : j < i => data[j] # data[i]
      <3>1. \A i \in published : i \in Int /\ ~(i < i)
        BY <2>2 DEF Indices
      <3>2. QED
        BY <2>1, <3>1 DEF Frame, TableCanonical
    <2>6. published' = Reach(gc.roots)
      BY <2>3, <2>4, <2>5
    <2>7. QED
      BY <1>1, <2>1, <2>6, RootsAreHeld
  <1>2. AInv /\ [Next]_vars =>
          [(\E t \in Threads : GcSweep(t)) =>
             published' = Reach({h.id : h \in Held} \ {0, 1})]_vars
    BY <1>1
  <1>3. QED
    BY <1>2, AloneHolds, PTL DEF Spec, CollectsExactly
=============================================================================
