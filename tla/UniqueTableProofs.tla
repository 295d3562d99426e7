------------------------- MODULE UniqueTableProofs -------------------------
(***************************************************************************)
(* The unique table, for every number of threads, every assignment of them *)
(* to splits, every geometry of regions and words and every hash function: *)
(* a bucket has one owner, and is not written once it can be read; and     *)
(* the table implements InternMap (the second half of the module).         *)
(*                                                                         *)
(* BucketsOwnedOnce is not inductive.  A bucket taken from the bitmap is   *)
(* new because the bitmap covers all that is published or held; after a    *)
(* collection it does because the rehash publishes marked buckets only,    *)
(* each of them once, and the bitmap is then set to the marked ones.       *)
(***************************************************************************)
EXTENDS UniqueTable, FiniteSetTheorems, WellFoundedInduction, TLAPS

\* The capacities: a whole number of regions, at least one for each split.
Capacities ==
  {cap \in Nat : 2 < cap /\ \E n \in Nat : NSplits <= n /\ cap = RegionSize * n}

Locals ==
  [key : Keys \cup {NoKey}, s : Buckets, left : 0 .. capacity, index : Buckets,
   region : RegionsOf(capacity), cursor : Nat, v : Buckets]

\* TypeOK, with the capacity a whole number of regions.
Types ==
  /\ capacity \in Capacities
  /\ InitialSize <= capacity /\ capacity <= MaxSize
  /\ hashes \in [Buckets -> Buckets]
  /\ data \in [Buckets -> Keys \cup {NoKey}]
  /\ used \subseteq Buckets
  /\ current \in [Splits -> RegionsOf(capacity)]
  /\ claimed \subseteq RegionsOf(capacity)
  /\ pc \in [Threads -> Pcs]
  /\ loc \in [Threads -> Locals]
  /\ sweep \in [phase : {"none", "rehash"}, marked : SUBSET Buckets,
                todo : SUBSET Buckets]
  /\ sweep.todo \subseteq sweep.marked

\* What a thread's place says of its locals.
Places ==
  \A t \in Threads :
    /\ pc[t] \in {"reserve", "word", "claim", "switch"} => loc[t].index = 0
    /\ pc[t] \in {"write", "publish", "free"} => loc[t].index # 0
    /\ pc[t] \in {"claim", "switch"} => loc[t].cursor \in RegionsOf(capacity)
    /\ pc[t] \in Pcs \ {"idle", "probe", "found", "full"} => loc[t].left > 0

\* The bitmap covers 0, which is EMPTY, and all that is published or held.
BitmapCovers ==
  sweep.phase = "none" =>
    /\ {0} \cup Published \subseteq used
    /\ \A t \in Threads : Holds(t) => loc[t].index \in used

\* A collector is alone, and publishes marked buckets, each of them once.
RehashOfMarked ==
  sweep.phase = "rehash" =>
    /\ \A t \in Threads : pc[t] = "idle"
    /\ 0 \notin sweep.marked
    /\ Published \subseteq sweep.marked \ sweep.todo

\* The inductive invariant.
TableInv == /\ Types
            /\ Places
            /\ BitmapCovers
            /\ RehashOfMarked
            /\ BucketsOwnedOnce

-----------------------------------------------------------------------------
(***************************************************************************)
(* Geometry                                                                *)
(***************************************************************************)
\* Least of a set of numbers is one of them, and the least.
LEMMA LeastIsIn ==
  ASSUME NEW S \in SUBSET Nat, S # {}
  PROVE  Least(S) \in S /\ \A y \in S : Least(S) <= y
  <1>1. PICK x \in S : \A y \in SetLessThan(x, OpToRel(<, Nat), Nat) : y \notin S
    <2>1. PICK x \in S : \A y \in S : ~(<<y, x>> \in OpToRel(<, Nat))
      BY NatLessThanWellFounded, WFMin
    <2>2. QED
      BY <2>1 DEF SetLessThan
  <1>2. ASSUME NEW y \in S PROVE x <= y
    <2>1. x \in Nat /\ y \in Nat
      OBVIOUS
    <2>2. CASE y < x
      <3>1. <<y, x>> \in OpToRel(<, Nat)
        BY <2>1, <2>2 DEF OpToRel
      <3>2. QED
        BY <3>1, <1>1, <2>1 DEF SetLessThan
    <2>3. QED
      BY <2>1, <2>2
  <1>3. QED
    BY <1>1, <1>2 DEF Least

LEMMA DivBounds ==
  ASSUME NEW a \in Nat, NEW b \in Nat \ {0}
  PROVE  a \div b \in Nat /\ b * (a \div b) <= a /\ a < b * (a \div b) + b
  OBVIOUS

\* A capacity of n regions has the regions 0 .. n - 1.
LEMMA RegionsAre ==
  ASSUME NEW n \in Nat
  PROVE  /\ RegionsOf(RegionSize * n) = 0 .. n - 1
         /\ Cardinality(RegionsOf(RegionSize * n)) = n
  <1>1. RegionSize \in Nat \ {0}
    BY TableAssumption
  <1>2. (RegionSize * n + RegionSize - 1) \div RegionSize = n
    BY <1>1
  <1>3. RegionsOf(RegionSize * n) = 0 .. n - 1
    BY <1>2, Zenon DEF RegionsOf
  <1>4. Cardinality(0 .. n - 1) = n
    BY FS_Interval, 0 \in Int, n - 1 \in Int
  <1>5. QED
    BY <1>3, <1>4

\* The words of a region lie within the table.
LEMMA WordsWithin ==
  ASSUME NEW cap \in Capacities, NEW r \in RegionsOf(cap),
         NEW w \in Nat, w < WordsPerRegion
  PROVE  WordBits(r, w) \subseteq 0 .. cap - 1
  <1>1. RegionSize \in Nat \ {0} /\ WordSize \in Nat \ {0} /\ RegionSize % WordSize = 0
    BY TableAssumption
  <1>2. PICK n \in Nat : cap = RegionSize * n
    BY DEF Capacities
  <1>3. r \in Nat /\ r + 1 <= n
    BY <1>2, RegionsAre
  <1>4. WordSize * WordsPerRegion <= RegionSize /\ WordsPerRegion \in Nat
    BY <1>1, DivBounds DEF WordsPerRegion
  <1>5. w * WordSize + WordSize <= WordSize * WordsPerRegion
    <2>1. w + 1 <= WordsPerRegion
      BY <1>4
    <2>2. QED
      BY <1>1, <1>4, <2>1
  <1>6. r * RegionSize + RegionSize <= RegionSize * n
    BY <1>1, <1>3
  <1>7. r * RegionSize \in Nat /\ w * WordSize \in Nat
    BY <1>1, <1>3
  <1>8. r * RegionSize + w * WordSize + WordSize <= cap
    BY <1>1, <1>2, <1>4, <1>5, <1>6, <1>7
  <1>9. cap \in Nat
    BY DEF Capacities
  <1> DEFINE base == r * RegionSize + w * WordSize
  <1>10. base \in Nat /\ base + WordSize <= cap
    BY <1>7, <1>8
  <1>11. base .. base + WordSize - 1 \subseteq 0 .. cap - 1
    <2> HIDE DEF base
    <2>1. QED
      BY <1>1, <1>9, <1>10
  <1>12. QED
    BY <1>11 DEF WordBits

\* Of m points a gap apart in a range for m gaps, each is in the range.
LEMMA SpacedWithin ==
  ASSUME NEW n \in Nat, NEW m \in Nat, NEW gap \in Nat, NEW s \in Nat,
         m * gap <= n, (s + 1) * gap <= m * gap, gap >= 1
  PROVE  s * gap \in 0 .. n - 1
  <1>1. (s + 1) * gap = s * gap + gap /\ s * gap \in Nat
    OBVIOUS
  <1>2. QED
    BY <1>1

\* The splits start in regions of the table.
LEMMA StartsWithin ==
  ASSUME NEW cap \in Capacities
  PROVE  StartRegions(cap) \in [Splits -> RegionsOf(cap)]
  <1>1. PICK n \in Nat : NSplits <= n /\ cap = RegionSize * n
    BY DEF Capacities
  <1>2. NSplits \in Nat \ {0}
    BY TableAssumption
  <1> DEFINE gap == IF n \div NSplits = 0 THEN 1 ELSE n \div NSplits
  <1>3. gap \in Nat /\ NSplits * gap <= n
    BY <1>1, <1>2, DivBounds
  <1>4. ASSUME NEW s \in Splits PROVE s * gap \in 0 .. n - 1
    <2>1. s \in Nat /\ s + 1 <= NSplits
      BY <1>2 DEF Splits
    <2>2. (s + 1) * gap <= NSplits * gap
      BY <1>2, <1>3, <2>1
    <2>3. gap >= 1
      BY <1>1, <1>2, DivBounds
    <2> HIDE DEF gap
    <2>4. QED
      BY <1>2, <1>3, <2>1, <2>2, <2>3, SpacedWithin
  <1>5. StartRegions(cap) = [s \in Splits |-> s * gap]
    BY <1>1, RegionsAre DEF StartRegions
  <1>6. QED
    BY <1>1, <1>4, <1>5, RegionsAre

\* Probes start, and stay, between the terminals and the end of the table.
LEMMA StartSlotWithin ==
  ASSUME NEW cap \in Capacities, NEW k \in Keys
  PROVE  BucketStart(k, cap) \in 0 .. cap - 1
  <1>1. HashRange \in Nat \ {0} /\ Hash[k] \in Nat /\ Hash[k] < HashRange
    BY TableAssumption
  <1>2. cap \in Nat /\ 2 < cap
    BY DEF Capacities
  <1>3. (Hash[k] * cap) \div HashRange < cap
    BY <1>1, <1>2
  <1>4. (Hash[k] * cap) \div HashRange \in Int
    BY <1>1, <1>2
  <1>5. QED
    BY <1>2, <1>3, <1>4 DEF BucketStart

LEMMA NextSlotWithin ==
  ASSUME NEW cap \in Capacities, NEW s \in 0 .. cap - 1
  PROVE  NextSlot(s, cap) \in 0 .. cap - 1
  BY DEF NextSlot, Capacities

\* The next region, cyclically.
LEMMA NextRegionWithin ==
  ASSUME NEW cap \in Capacities, NEW r \in RegionsOf(cap)
  PROVE  (r + 1) % Cardinality(RegionsOf(cap)) \in RegionsOf(cap)
  <1>1. PICK n \in Nat : NSplits <= n /\ cap = RegionSize * n
    BY DEF Capacities
  <1>2. NSplits \in Nat \ {0}
    BY TableAssumption
  <1>3. QED
    BY <1>1, <1>2, RegionsAre

\* Capacities grow by doubling, and to the maximum.
LEMMA GrownIsCapacity ==
  ASSUME NEW cap \in Capacities, NEW m \in Nat, cap <= RegionSize * m
  PROVE  /\ RegionSize * m \in Capacities
         /\ RegionsOf(cap) \subseteq RegionsOf(RegionSize * m)
  <1>1. PICK n \in Nat : NSplits <= n /\ cap = RegionSize * n
    BY DEF Capacities
  <1>2. NSplits \in Nat /\ RegionSize \in Nat \ {0} /\ cap \in Nat /\ 2 < cap
    BY TableAssumption DEF Capacities
  <1>3. n <= m
    <2>1. CASE m + 1 <= n
      <3>1. RegionSize * (m + 1) <= RegionSize * n
        BY <1>2, <2>1
      <3>2. QED
        BY <1>1, <1>2, <3>1
    <2>2. QED
      BY <2>1
  <1>4. RegionSize * m \in Nat /\ 2 < RegionSize * m /\ NSplits <= m
    BY <1>1, <1>2, <1>3
  <1>5. RegionSize * m \in Capacities
    BY <1>4 DEF Capacities
  <1>6. RegionsOf(cap) \subseteq RegionsOf(RegionSize * m)
    BY <1>1, <1>3, RegionsAre
  <1>7. QED
    BY <1>5, <1>6

LEMMA ResizedIsCapacity ==
  ASSUME capacity \in Capacities, capacity <= MaxSize
  PROVE  /\ Resized \in Capacities /\ capacity <= Resized /\ Resized <= MaxSize
         /\ RegionsOf(capacity) \subseteq RegionsOf(Resized)
  <1>1. /\ RegionSize \in Nat \ {0} /\ MaxSize \in Nat /\ MaxSize % RegionSize = 0
        /\ capacity \in Nat
    BY TableAssumption DEF Capacities
  <1>2. PICK m \in Nat : Resized = RegionSize * m
    <2>1. CASE 2 * capacity <= MaxSize
      <3>1. PICK n \in Nat : capacity = RegionSize * n
        BY DEF Capacities
      <3>2. 2 * capacity = RegionSize * (2 * n) /\ 2 * n \in Nat
        BY <1>1, <3>1
      <3>3. QED
        BY <2>1, <3>2 DEF Resized
    <2>2. CASE ~(2 * capacity <= MaxSize)
      <3>1. PICK n \in Nat : MaxSize = RegionSize * n
        BY <1>1
      <3>2. QED
        BY <2>2, <3>1 DEF Resized
    <2>3. QED
      BY <2>1, <2>2
  <1>3. capacity <= Resized /\ Resized <= MaxSize
    BY <1>1 DEF Resized
  <1>4. QED
    BY <1>2, <1>3, GrownIsCapacity

LEMMA ClearedIsCapacity ==
  ASSUME TableInv, NEW cap \in {capacity, Resized}
  PROVE  /\ cap \in Capacities /\ cap \in Nat /\ capacity <= cap
         /\ cap <= MaxSize /\ RegionsOf(capacity) \subseteq RegionsOf(cap)
  <1>1. capacity \in Capacities /\ capacity \in Nat /\ capacity <= MaxSize
    BY DEF TableInv, Types, Capacities
  <1>2. CASE cap = capacity
    BY <1>1, <1>2
  <1>3. CASE cap = Resized
    BY <1>1, <1>3, ResizedIsCapacity DEF Capacities
  <1>4. QED
    BY <1>2, <1>3

LEMMA InitialIsCapacity == InitialSize \in Capacities
  <1>1. /\ InitialSize \in Nat /\ 2 < InitialSize
        /\ NSplits \in Nat \ {0} /\ RegionSize \in Nat \ {0}
        /\ InitialSize % (NSplits * RegionSize) = 0
    BY TableAssumption
  <1>2. NSplits * RegionSize \in Nat \ {0}
    BY <1>1
  <1>3. PICK k \in Nat : InitialSize = (NSplits * RegionSize) * k
    BY <1>1, <1>2
  <1>4. k # 0
    BY <1>1, <1>2, <1>3
  <1>5. InitialSize = RegionSize * (NSplits * k)
    BY <1>1, <1>3
  <1>6. NSplits * k \in Nat /\ NSplits <= NSplits * k
    BY <1>1, <1>4
  <1>7. QED
    BY <1>1, <1>5, <1>6 DEF Capacities

-----------------------------------------------------------------------------
(***************************************************************************)
(* Init                                                                    *)
(***************************************************************************)
LEMMA RegionZero == ASSUME NEW cap \in Capacities PROVE 0 \in RegionsOf(cap)
  <1>1. PICK n \in Nat : NSplits <= n /\ cap = RegionSize * n
    BY DEF Capacities
  <1>2. NSplits \in Nat \ {0}
    BY TableAssumption
  <1>3. QED
    BY <1>1, <1>2, RegionsAre

LEMMA InitInv == Init => TableInv
  <1> SUFFICES ASSUME Init PROVE TableInv
    OBVIOUS
  <1> USE DEF Init
  <1>1. capacity \in Capacities /\ capacity \in Nat /\ 2 < capacity
    BY InitialIsCapacity DEF Capacities
  <1>2. Occupied = {} /\ Published = {}
    BY DEF Occupied, Published
  <1>3. Types
    <2>1. NoLoc \in Locals
      BY <1>1, RegionZero DEF NoLoc, Locals, Buckets
    <2>2. capacity <= MaxSize /\ InitialSize <= capacity
      BY TableAssumption, <1>1
    <2>3. StartRegions(InitialSize) \in [Splits -> RegionsOf(capacity)]
      BY <1>1, StartsWithin
    <2>4. QED
      BY <1>1, <2>1, <2>2, <2>3 DEF Types, Buckets, Pcs, NoSweep
  <1>4. Places
    BY DEF Places, Pcs, NoLoc
  <1>5. \A t \in Threads : ~Holds(t)
    BY DEF Holds
  <1>6. BitmapCovers /\ RehashOfMarked /\ BucketsOwnedOnce
    BY <1>2, <1>5 DEF BitmapCovers, RehashOfMarked, BucketsOwnedOnce, NoSweep
  <1>7. QED
    BY <1>3, <1>4, <1>6 DEF TableInv

-----------------------------------------------------------------------------
(***************************************************************************)
(* find_or_insert                                                          *)
(***************************************************************************)
\* A thread inside a call: no collector is at work.
LEMMA NoCollector ==
  ASSUME TableInv, NEW t \in Threads, pc[t] # "idle"
  PROVE  sweep.phase = "none"
  BY DEF TableInv, RehashOfMarked, Types

\* A step that neither publishes, reserves nor frees keeps the rest.
LEMMA Quiet ==
  ASSUME TableInv, sweep.phase = "none", Types', Places',
         UNCHANGED <<hashes, used, sweep>>,
         \A u \in Threads : Holds(u)' => Holds(u) /\ loc'[u].index = loc[u].index
  PROVE  TableInv'
  <1>1. Occupied' = Occupied /\ Published' = Published
    BY DEF Occupied, Published
  <1>2. BitmapCovers' /\ RehashOfMarked'
    BY <1>1 DEF TableInv, BitmapCovers, RehashOfMarked
  <1>3. BucketsOwnedOnce'
    BY <1>1 DEF TableInv, BucketsOwnedOnce
  <1>4. QED
    BY <1>2, <1>3 DEF TableInv

\* A step of t that changes its place and its locals, and not the table.
LEMMA LocalTypes ==
  ASSUME TableInv, NEW t \in Threads, NEW p \in Pcs, NEW l \in Locals,
         pc' = [pc EXCEPT ![t] = p], loc' = [loc EXCEPT ![t] = l],
         UNCHANGED <<capacity, hashes, data, current, claimed, sweep>>,
         used' \subseteq Buckets,
         p \in {"reserve", "word", "claim", "switch"} => l.index = 0,
         p \in {"write", "publish", "free"} => l.index # 0,
         p \in {"claim", "switch"} => l.cursor \in RegionsOf(capacity),
         p \in Pcs \ {"idle", "probe", "found", "full"} => l.left > 0
  PROVE  Types' /\ Places'
  <1>1. Buckets' = Buckets /\ Locals' = Locals
    BY DEF Buckets, Locals
  <1>2. Types'
    BY <1>1 DEF TableInv, Types
  <1>3. ASSUME NEW u \in Threads
        PROVE  /\ pc'[u] = IF u = t THEN p ELSE pc[u]
               /\ loc'[u] = IF u = t THEN l ELSE loc[u]
    BY DEF TableInv, Types
  <1>4. Places'
    BY <1>3 DEF TableInv, Places
  <1>5. QED
    BY <1>2, <1>4

\* What the type invariant says of one thread and of the geometry.
LEMMA ThreadFacts ==
  ASSUME TableInv, NEW t \in Threads
  PROVE  /\ loc[t] \in Locals
         /\ pc[t] \in Pcs
         /\ capacity \in Nat /\ 2 < capacity
         /\ RegionsOf(capacity) \subseteq Nat
         /\ 0 \in RegionsOf(capacity)
         /\ SplitOf[t] \in Splits
         /\ current[SplitOf[t]] \in RegionsOf(capacity)
         /\ loc[t].s \in 0 .. capacity - 1
  <1>1. capacity \in Capacities
    BY DEF TableInv, Types
  <1>2. SplitOf[t] \in Splits
    BY TableAssumption DEF Splits
  <1>3. RegionsOf(capacity) \subseteq Nat
    <2>1. PICK n \in Nat : capacity = RegionSize * n
      BY <1>1 DEF Capacities
    <2>2. QED
      BY <2>1, RegionsAre
  <1>4. loc[t] \in Locals /\ loc[t].s \in 0 .. capacity - 1
    BY DEF TableInv, Types, Locals, Buckets
  <1>5. QED
    BY <1>1, <1>2, <1>3, <1>4, RegionZero DEF TableInv, Types, Capacities

\* A step of t on its place and locals alone, that takes up no bucket.
LEMMA LocalStep ==
  ASSUME TableInv, NEW t \in Threads, NEW p \in Pcs, NEW l \in Locals,
         sweep.phase = "none",
         pc' = [pc EXCEPT ![t] = p], loc' = [loc EXCEPT ![t] = l],
         UNCHANGED <<capacity, hashes, data, used, current, claimed, sweep>>,
         p \in {"reserve", "word", "claim", "switch"} => l.index = 0,
         p \in {"write", "publish", "free"} => l.index # 0,
         p \in {"claim", "switch"} => l.cursor \in RegionsOf(capacity),
         p \in Pcs \ {"idle", "probe", "found", "full"} => l.left > 0,
         (l.index # 0 /\ p \notin {"idle", "found"}) =>
           Holds(t) /\ l.index = loc[t].index
  PROVE  TableInv'
  <1>1. used' \subseteq Buckets
    BY DEF TableInv, Types
  <1>2. Types' /\ Places'
    BY <1>1, LocalTypes
  <1>3. ASSUME NEW u \in Threads, Holds(u)'
        PROVE  Holds(u) /\ loc'[u].index = loc[u].index
    <2>1. /\ pc'[u] = IF u = t THEN p ELSE pc[u]
          /\ loc'[u] = IF u = t THEN l ELSE loc[u]
      BY DEF TableInv, Types
    <2>2. QED
      BY <1>3, <2>1 DEF Holds
  <1>4. QED
    BY <1>2, <1>3, Quiet

LEMMA BeginInv ==
  ASSUME TableInv, NEW t \in Threads, NEW k \in Keys, Begin(t, k)
  PROVE  TableInv'
  <1> DEFINE l == [NoLoc EXCEPT !.key = k, !.s = BucketStart(k, capacity),
                                !.left = capacity]
  <1>1. capacity \in Nat /\ 2 < capacity /\ 0 \in RegionsOf(capacity)
    BY ThreadFacts
  <1>2. BucketStart(k, capacity) \in Buckets
    BY StartSlotWithin DEF TableInv, Types, Buckets
  <1>3. l \in Locals /\ l.index = 0
    <2>1. NoLoc \in Locals /\ NoLoc.index = 0
      BY <1>1 DEF NoLoc, Locals, Buckets
    <2>2. capacity \in 0 .. capacity
      BY <1>1
    <2>3. QED
      BY <1>2, <2>1, <2>2, Zenon DEF Locals
  <1>4. pc' = [pc EXCEPT ![t] = "probe"] /\ loc' = [loc EXCEPT ![t] = l]
    BY DEF Begin, Goto
  <1> HIDE DEF l
  <1>5. QED
    BY <1>3, <1>4, LocalStep DEF Begin, UnchangedTable, UnchangedSlots, Pcs

LEMMA ExhaustedInv ==
  ASSUME TableInv, NEW t \in Threads, Exhausted(t)
  PROVE  TableInv'
  <1> DEFINE p == "full"
  <1> DEFINE l == loc[t]
  <1>1. /\ loc[t] \in Locals /\ capacity \in Nat /\ 2 < capacity
        /\ RegionsOf(capacity) \subseteq Nat /\ 0 \in RegionsOf(capacity)
        /\ current[SplitOf[t]] \in RegionsOf(capacity)
        /\ loc[t].s \in 0 .. capacity - 1
    BY ThreadFacts
  <1>2. l \in Locals
    BY <1>1
  <1>3. pc' = [pc EXCEPT ![t] = p] /\ loc' = [loc EXCEPT ![t] = l]
    BY DEF Exhausted, Goto, TableInv, Types
  <1>4. /\ p \in Pcs
        /\ p \in {"reserve", "word", "claim", "switch"} => l.index = 0
        /\ p \in {"write", "publish", "free"} => l.index # 0
        /\ p \in {"claim", "switch"} => l.cursor \in RegionsOf(capacity)
        /\ p \in Pcs \ {"idle", "probe", "found", "full"} => l.left > 0
        /\ (l.index # 0 /\ p \notin {"idle", "found"}) =>
             Holds(t) /\ l.index = loc[t].index
    BY <1>1 DEF Exhausted, Goto, Pcs, Holds
  <1>5. /\ sweep.phase = "none"
        /\ UNCHANGED <<capacity, hashes, data, used, current, claimed, sweep>>
    BY NoCollector DEF Exhausted, Goto, UnchangedTable, UnchangedSlots
  <1> HIDE DEF p, l
  <1>6. QED
    BY <1>2, <1>3, <1>4, <1>5, LocalStep

LEMMA ProbeInv ==
  ASSUME TableInv, NEW t \in Threads, Probe(t)
  PROVE  TableInv'
  <1> DEFINE p == IF hashes[loc[t].s] # 0 THEN "compare"
                  ELSE IF loc[t].index = 0 THEN "reserve" ELSE "publish"
  <1> DEFINE l == [loc[t] EXCEPT !.v = hashes[loc[t].s]]
  <1>1. /\ loc[t] \in Locals /\ capacity \in Nat /\ 2 < capacity
        /\ RegionsOf(capacity) \subseteq Nat /\ 0 \in RegionsOf(capacity)
        /\ current[SplitOf[t]] \in RegionsOf(capacity)
        /\ loc[t].s \in 0 .. capacity - 1
    BY ThreadFacts
  <1>2. l \in Locals
    BY <1>1 DEF Locals, Buckets, TableInv, Types
  <1>3. pc' = [pc EXCEPT ![t] = p] /\ loc' = [loc EXCEPT ![t] = l]
    BY DEF Probe, Goto, TableInv, Types
  <1>4. /\ p \in Pcs
        /\ p \in {"reserve", "word", "claim", "switch"} => l.index = 0
        /\ p \in {"write", "publish", "free"} => l.index # 0
        /\ p \in {"claim", "switch"} => l.cursor \in RegionsOf(capacity)
        /\ p \in Pcs \ {"idle", "probe", "found", "full"} => l.left > 0
        /\ (l.index # 0 /\ p \notin {"idle", "found"}) =>
             Holds(t) /\ l.index = loc[t].index
    BY <1>1 DEF Probe, Goto, Pcs, Holds, Locals, TableInv, Places
  <1>5. /\ sweep.phase = "none"
        /\ UNCHANGED <<capacity, hashes, data, used, current, claimed, sweep>>
    BY NoCollector DEF Probe, Goto, UnchangedTable, UnchangedSlots
  <1> HIDE DEF p, l
  <1>6. QED
    BY <1>2, <1>3, <1>4, <1>5, LocalStep

LEMMA LoadRegionInv ==
  ASSUME TableInv, NEW t \in Threads, LoadRegion(t)
  PROVE  TableInv'
  <1> DEFINE p == "word"
  <1> DEFINE l == [loc[t] EXCEPT !.region = current[SplitOf[t]], !.cursor = 0]
  <1>1. /\ loc[t] \in Locals /\ capacity \in Nat /\ 2 < capacity
        /\ RegionsOf(capacity) \subseteq Nat /\ 0 \in RegionsOf(capacity)
        /\ current[SplitOf[t]] \in RegionsOf(capacity)
        /\ loc[t].s \in 0 .. capacity - 1
    BY ThreadFacts
  <1>2. l \in Locals
    BY <1>1 DEF Locals
  <1>3. pc' = [pc EXCEPT ![t] = p] /\ loc' = [loc EXCEPT ![t] = l]
    BY DEF LoadRegion, Goto, TableInv, Types
  <1>4. /\ p \in Pcs
        /\ p \in {"reserve", "word", "claim", "switch"} => l.index = 0
        /\ p \in {"write", "publish", "free"} => l.index # 0
        /\ p \in {"claim", "switch"} => l.cursor \in RegionsOf(capacity)
        /\ p \in Pcs \ {"idle", "probe", "found", "full"} => l.left > 0
        /\ (l.index # 0 /\ p \notin {"idle", "found"}) =>
             Holds(t) /\ l.index = loc[t].index
    BY <1>1 DEF LoadRegion, Goto, Pcs, Holds, Locals, TableInv, Places
  <1>5. /\ sweep.phase = "none"
        /\ UNCHANGED <<capacity, hashes, data, used, current, claimed, sweep>>
    BY NoCollector DEF LoadRegion, Goto, UnchangedTable, UnchangedSlots
  <1> HIDE DEF p, l
  <1>6. QED
    BY <1>2, <1>3, <1>4, <1>5, LocalStep

LEMMA WordIsFullInv ==
  ASSUME TableInv, NEW t \in Threads, WordIsFull(t)
  PROVE  TableInv'
  <1> DEFINE p == "word"
  <1> DEFINE l == [loc[t] EXCEPT !.cursor = @ + 1]
  <1>1. /\ loc[t] \in Locals /\ capacity \in Nat /\ 2 < capacity
        /\ RegionsOf(capacity) \subseteq Nat /\ 0 \in RegionsOf(capacity)
        /\ current[SplitOf[t]] \in RegionsOf(capacity)
        /\ loc[t].s \in 0 .. capacity - 1
    BY ThreadFacts
  <1>2. l \in Locals
    BY <1>1 DEF Locals
  <1>3. pc' = [pc EXCEPT ![t] = p] /\ loc' = [loc EXCEPT ![t] = l]
    BY DEF WordIsFull, Goto, TableInv, Types
  <1>4. /\ p \in Pcs
        /\ p \in {"reserve", "word", "claim", "switch"} => l.index = 0
        /\ p \in {"write", "publish", "free"} => l.index # 0
        /\ p \in {"claim", "switch"} => l.cursor \in RegionsOf(capacity)
        /\ p \in Pcs \ {"idle", "probe", "found", "full"} => l.left > 0
        /\ (l.index # 0 /\ p \notin {"idle", "found"}) =>
             Holds(t) /\ l.index = loc[t].index
    BY <1>1 DEF WordIsFull, Goto, Pcs, Holds, Locals, TableInv, Places
  <1>5. /\ sweep.phase = "none"
        /\ UNCHANGED <<capacity, hashes, data, used, current, claimed, sweep>>
    BY NoCollector DEF WordIsFull, Goto, UnchangedTable, UnchangedSlots
  <1> HIDE DEF p, l
  <1>6. QED
    BY <1>2, <1>3, <1>4, <1>5, LocalStep

LEMMA LoadForClaimInv ==
  ASSUME TableInv, NEW t \in Threads, LoadForClaim(t)
  PROVE  TableInv'
  <1> DEFINE p == "claim"
  <1> DEFINE l == [loc[t] EXCEPT !.region = current[SplitOf[t]],
                           !.cursor = (current[SplitOf[t]] + 1)
                                        % Cardinality(RegionsOf(capacity))]
  <1>1. /\ loc[t] \in Locals /\ capacity \in Nat /\ 2 < capacity
        /\ RegionsOf(capacity) \subseteq Nat /\ 0 \in RegionsOf(capacity)
        /\ current[SplitOf[t]] \in RegionsOf(capacity)
        /\ loc[t].s \in 0 .. capacity - 1
    BY ThreadFacts
  <1>2. (current[SplitOf[t]] + 1) % Cardinality(RegionsOf(capacity)) \in RegionsOf(capacity)
    BY <1>1, NextRegionWithin DEF LoadForClaim, Goto, TableInv, Types, Places
  <1>3. l \in Locals
    BY <1>1, <1>2 DEF Locals
  <1>4. pc' = [pc EXCEPT ![t] = p] /\ loc' = [loc EXCEPT ![t] = l]
    BY DEF LoadForClaim, Goto, TableInv, Types
  <1>5. /\ p \in Pcs
        /\ p \in {"reserve", "word", "claim", "switch"} => l.index = 0
        /\ p \in {"write", "publish", "free"} => l.index # 0
        /\ p \in {"claim", "switch"} => l.cursor \in RegionsOf(capacity)
        /\ p \in Pcs \ {"idle", "probe", "found", "full"} => l.left > 0
        /\ (l.index # 0 /\ p \notin {"idle", "found"}) =>
             Holds(t) /\ l.index = loc[t].index
    BY <1>1, <1>2 DEF LoadForClaim, Goto, Pcs, Holds, Locals, TableInv, Places
  <1>6. /\ sweep.phase = "none"
        /\ UNCHANGED <<capacity, hashes, data, used, current, claimed, sweep>>
    BY NoCollector DEF LoadForClaim, Goto, UnchangedTable, UnchangedSlots
  <1> HIDE DEF p, l
  <1>7. QED
    BY <1>3, <1>4, <1>5, <1>6, LocalStep

LEMMA AlreadyClaimedInv ==
  ASSUME TableInv, NEW t \in Threads, AlreadyClaimed(t)
  PROVE  TableInv'
  <1> DEFINE p == "claim"
  <1> DEFINE l == [loc[t] EXCEPT !.cursor = (@ + 1) % Cardinality(RegionsOf(capacity))]
  <1>1. /\ loc[t] \in Locals /\ capacity \in Nat /\ 2 < capacity
        /\ RegionsOf(capacity) \subseteq Nat /\ 0 \in RegionsOf(capacity)
        /\ current[SplitOf[t]] \in RegionsOf(capacity)
        /\ loc[t].s \in 0 .. capacity - 1
    BY ThreadFacts
  <1>2. (loc[t].cursor + 1) % Cardinality(RegionsOf(capacity)) \in RegionsOf(capacity)
    BY <1>1, NextRegionWithin DEF AlreadyClaimed, Goto, TableInv, Types, Places
  <1>3. l \in Locals
    BY <1>1, <1>2 DEF Locals
  <1>4. pc' = [pc EXCEPT ![t] = p] /\ loc' = [loc EXCEPT ![t] = l]
    BY DEF AlreadyClaimed, Goto, TableInv, Types
  <1>5. /\ p \in Pcs
        /\ p \in {"reserve", "word", "claim", "switch"} => l.index = 0
        /\ p \in {"write", "publish", "free"} => l.index # 0
        /\ p \in {"claim", "switch"} => l.cursor \in RegionsOf(capacity)
        /\ p \in Pcs \ {"idle", "probe", "found", "full"} => l.left > 0
        /\ (l.index # 0 /\ p \notin {"idle", "found"}) =>
             Holds(t) /\ l.index = loc[t].index
    BY <1>1, <1>2 DEF AlreadyClaimed, Goto, Pcs, Holds, Locals, TableInv, Places
  <1>6. /\ sweep.phase = "none"
        /\ UNCHANGED <<capacity, hashes, data, used, current, claimed, sweep>>
    BY NoCollector DEF AlreadyClaimed, Goto, UnchangedTable, UnchangedSlots
  <1> HIDE DEF p, l
  <1>7. QED
    BY <1>3, <1>4, <1>5, <1>6, LocalStep

LEMMA NoRegionLeftInv ==
  ASSUME TableInv, NEW t \in Threads, NoRegionLeft(t)
  PROVE  TableInv'
  <1> DEFINE p == "full"
  <1> DEFINE l == loc[t]
  <1>1. /\ loc[t] \in Locals /\ capacity \in Nat /\ 2 < capacity
        /\ RegionsOf(capacity) \subseteq Nat /\ 0 \in RegionsOf(capacity)
        /\ current[SplitOf[t]] \in RegionsOf(capacity)
        /\ loc[t].s \in 0 .. capacity - 1
    BY ThreadFacts
  <1>2. l \in Locals
    BY <1>1
  <1>3. pc' = [pc EXCEPT ![t] = p] /\ loc' = [loc EXCEPT ![t] = l]
    BY DEF NoRegionLeft, Goto, TableInv, Types
  <1>4. /\ p \in Pcs
        /\ p \in {"reserve", "word", "claim", "switch"} => l.index = 0
        /\ p \in {"write", "publish", "free"} => l.index # 0
        /\ p \in {"claim", "switch"} => l.cursor \in RegionsOf(capacity)
        /\ p \in Pcs \ {"idle", "probe", "found", "full"} => l.left > 0
        /\ (l.index # 0 /\ p \notin {"idle", "found"}) =>
             Holds(t) /\ l.index = loc[t].index
    BY <1>1 DEF NoRegionLeft, Goto, Pcs, Holds, TableInv, Places
  <1>5. /\ sweep.phase = "none"
        /\ UNCHANGED <<capacity, hashes, data, used, current, claimed, sweep>>
    BY NoCollector DEF NoRegionLeft, Goto, UnchangedTable, UnchangedSlots
  <1> HIDE DEF p, l
  <1>6. QED
    BY <1>2, <1>3, <1>4, <1>5, LocalStep

LEMMA PublishLosesInv ==
  ASSUME TableInv, NEW t \in Threads, PublishLoses(t)
  PROVE  TableInv'
  <1> DEFINE p == "compare"
  <1> DEFINE l == [loc[t] EXCEPT !.v = hashes[loc[t].s]]
  <1>1. /\ loc[t] \in Locals /\ capacity \in Nat /\ 2 < capacity
        /\ RegionsOf(capacity) \subseteq Nat /\ 0 \in RegionsOf(capacity)
        /\ current[SplitOf[t]] \in RegionsOf(capacity)
        /\ loc[t].s \in 0 .. capacity - 1
    BY ThreadFacts
  <1>2. l \in Locals
    BY <1>1 DEF Locals, Buckets, TableInv, Types
  <1>3. pc' = [pc EXCEPT ![t] = p] /\ loc' = [loc EXCEPT ![t] = l]
    BY DEF PublishLoses, Goto, TableInv, Types
  <1>4. /\ p \in Pcs
        /\ p \in {"reserve", "word", "claim", "switch"} => l.index = 0
        /\ p \in {"write", "publish", "free"} => l.index # 0
        /\ p \in {"claim", "switch"} => l.cursor \in RegionsOf(capacity)
        /\ p \in Pcs \ {"idle", "probe", "found", "full"} => l.left > 0
        /\ (l.index # 0 /\ p \notin {"idle", "found"}) =>
             Holds(t) /\ l.index = loc[t].index
    BY <1>1 DEF PublishLoses, Goto, Pcs, Holds, Locals, TableInv, Places
  <1>5. /\ sweep.phase = "none"
        /\ UNCHANGED <<capacity, hashes, data, used, current, claimed, sweep>>
    BY NoCollector DEF PublishLoses, Goto, UnchangedTable, UnchangedSlots
  <1> HIDE DEF p, l
  <1>6. QED
    BY <1>2, <1>3, <1>4, <1>5, LocalStep

LEMMA CompareEqualInv ==
  ASSUME TableInv, NEW t \in Threads, CompareEqual(t)
  PROVE  TableInv'
  <1> DEFINE p == IF loc[t].index # 0 THEN "free" ELSE "found"
  <1> DEFINE l == loc[t]
  <1>1. /\ loc[t] \in Locals /\ capacity \in Nat /\ 2 < capacity
        /\ RegionsOf(capacity) \subseteq Nat /\ 0 \in RegionsOf(capacity)
        /\ current[SplitOf[t]] \in RegionsOf(capacity)
        /\ loc[t].s \in 0 .. capacity - 1
    BY ThreadFacts
  <1>2. l \in Locals
    BY <1>1
  <1>3. pc' = [pc EXCEPT ![t] = p] /\ loc' = [loc EXCEPT ![t] = l]
    BY DEF CompareEqual, Goto, TableInv, Types
  <1>4. /\ p \in Pcs
        /\ p \in {"reserve", "word", "claim", "switch"} => l.index = 0
        /\ p \in {"write", "publish", "free"} => l.index # 0
        /\ p \in {"claim", "switch"} => l.cursor \in RegionsOf(capacity)
        /\ p \in Pcs \ {"idle", "probe", "found", "full"} => l.left > 0
        /\ (l.index # 0 /\ p \notin {"idle", "found"}) =>
             Holds(t) /\ l.index = loc[t].index
    BY <1>1 DEF CompareEqual, Goto, Pcs, Holds, Locals, TableInv, Places
  <1>5. /\ sweep.phase = "none"
        /\ UNCHANGED <<capacity, hashes, data, used, current, claimed, sweep>>
    BY NoCollector DEF CompareEqual, Goto, UnchangedTable, UnchangedSlots
  <1> HIDE DEF p, l
  <1>6. QED
    BY <1>2, <1>3, <1>4, <1>5, LocalStep

LEMMA CompareOtherInv ==
  ASSUME TableInv, NEW t \in Threads, CompareOther(t)
  PROVE  TableInv'
  <1> DEFINE p == "probe"
  <1> DEFINE l == [loc[t] EXCEPT !.s = NextSlot(@, capacity), !.left = @ - 1, !.v = 0]
  <1>1. /\ loc[t] \in Locals /\ capacity \in Nat /\ 2 < capacity
        /\ RegionsOf(capacity) \subseteq Nat /\ 0 \in RegionsOf(capacity)
        /\ current[SplitOf[t]] \in RegionsOf(capacity)
        /\ loc[t].s \in 0 .. capacity - 1
    BY ThreadFacts
  <1>2. NextSlot(loc[t].s, capacity) \in Buckets /\ 0 \in Buckets
        /\ loc[t].left - 1 \in 0 .. capacity
    <2>1. NextSlot(loc[t].s, capacity) \in Buckets
      BY <1>1, NextSlotWithin DEF TableInv, Types, Buckets
    <2>2. loc[t].left > 0 /\ loc[t].left \in 0 .. capacity
      BY <1>1 DEF CompareOther, Goto, Pcs, Locals, TableInv, Places
    <2>3. QED
      BY <1>1, <2>1, <2>2 DEF Buckets
  <1>3. l \in Locals
    BY <1>1, <1>2 DEF Locals
  <1>4. pc' = [pc EXCEPT ![t] = p] /\ loc' = [loc EXCEPT ![t] = l]
    BY DEF CompareOther, Goto, TableInv, Types
  <1>5. /\ p \in Pcs
        /\ p \in {"reserve", "word", "claim", "switch"} => l.index = 0
        /\ p \in {"write", "publish", "free"} => l.index # 0
        /\ p \in {"claim", "switch"} => l.cursor \in RegionsOf(capacity)
        /\ p \in Pcs \ {"idle", "probe", "found", "full"} => l.left > 0
        /\ (l.index # 0 /\ p \notin {"idle", "found"}) =>
             Holds(t) /\ l.index = loc[t].index
    BY <1>1, <1>2 DEF CompareOther, Goto, Pcs, Holds, Locals, TableInv, Places
  <1>6. /\ sweep.phase = "none"
        /\ UNCHANGED <<capacity, hashes, data, used, current, claimed, sweep>>
    BY NoCollector DEF CompareOther, Goto, UnchangedTable, UnchangedSlots
  <1> HIDE DEF p, l
  <1>7. QED
    BY <1>3, <1>4, <1>5, <1>6, LocalStep

LEMMA ReturnInv ==
  ASSUME TableInv, NEW t \in Threads, Return(t)
  PROVE  TableInv'
  <1> DEFINE p == "idle"
  <1> DEFINE l == NoLoc
  <1>1. /\ loc[t] \in Locals /\ capacity \in Nat /\ 2 < capacity
        /\ RegionsOf(capacity) \subseteq Nat /\ 0 \in RegionsOf(capacity)
        /\ current[SplitOf[t]] \in RegionsOf(capacity)
        /\ loc[t].s \in 0 .. capacity - 1
    BY ThreadFacts
  <1>2. l \in Locals
    BY <1>1 DEF NoLoc, Locals, Buckets
  <1>3. pc' = [pc EXCEPT ![t] = p] /\ loc' = [loc EXCEPT ![t] = l]
    BY DEF Return, TableInv, Types
  <1>4. /\ p \in Pcs
        /\ p \in {"reserve", "word", "claim", "switch"} => l.index = 0
        /\ p \in {"write", "publish", "free"} => l.index # 0
        /\ p \in {"claim", "switch"} => l.cursor \in RegionsOf(capacity)
        /\ p \in Pcs \ {"idle", "probe", "found", "full"} => l.left > 0
        /\ (l.index # 0 /\ p \notin {"idle", "found"}) =>
             Holds(t) /\ l.index = loc[t].index
    BY <1>1 DEF Return, NoLoc, Pcs
  <1>5. /\ sweep.phase = "none"
        /\ UNCHANGED <<capacity, hashes, data, used, current, claimed, sweep>>
    BY NoCollector DEF Return, UnchangedTable, UnchangedSlots
  <1> HIDE DEF p, l
  <1>6. QED
    BY <1>2, <1>3, <1>4, <1>5, LocalStep

LEMMA ClaimRegionInv ==
  ASSUME TableInv, NEW t \in Threads, ClaimRegion(t)
  PROVE  TableInv'
  <1>1. UNCHANGED <<capacity, hashes, data, used, current, loc, sweep>>
    BY DEF ClaimRegion, UnchangedTable
  <1>2. Buckets' = Buckets /\ Locals' = Locals
    BY <1>1 DEF Buckets, Locals
  <1>3. claimed' \subseteq RegionsOf(capacity) /\ pc' \in [Threads -> Pcs]
    BY DEF ClaimRegion, Goto, Pcs, TableInv, Types, Places
  <1>4. Types'
    BY <1>1, <1>2, <1>3 DEF TableInv, Types
  <1>5. Places'
    BY <1>1 DEF ClaimRegion, Goto, Pcs, TableInv, Types, Places
  <1>6. \A u \in Threads : Holds(u)' => Holds(u) /\ loc'[u].index = loc[u].index
    BY <1>1 DEF ClaimRegion, Goto, Holds, TableInv, Types
  <1>7. sweep.phase = "none"
    BY NoCollector DEF ClaimRegion, Goto
  <1>8. QED
    BY <1>1, <1>4, <1>5, <1>6, <1>7, Quiet

LEMMA SwitchRegionInv ==
  ASSUME TableInv, NEW t \in Threads, SwitchRegion(t)
  PROVE  TableInv'
  <1>1. UNCHANGED <<capacity, hashes, data, used, claimed, loc, sweep>>
    BY DEF SwitchRegion, UnchangedTable
  <1>2. Buckets' = Buckets /\ Locals' = Locals
    BY <1>1 DEF Buckets, Locals
  <1>3. current' \in [Splits -> RegionsOf(capacity)] /\ pc' \in [Threads -> Pcs]
    BY DEF SwitchRegion, Goto, Pcs, TableInv, Types, Places
  <1>4. Types'
    BY <1>1, <1>2, <1>3 DEF TableInv, Types
  <1>5. Places'
    BY <1>1 DEF SwitchRegion, Goto, Pcs, TableInv, Types, Places
  <1>6. \A u \in Threads : Holds(u)' => Holds(u) /\ loc'[u].index = loc[u].index
    BY <1>1 DEF SwitchRegion, Goto, Holds, TableInv, Types
  <1>7. sweep.phase = "none"
    BY NoCollector DEF SwitchRegion, Goto
  <1>8. QED
    BY <1>1, <1>4, <1>5, <1>6, <1>7, Quiet

LEMMA WriteDataInv ==
  ASSUME TableInv, NEW t \in Threads, WriteData(t)
  PROVE  TableInv'
  <1>1. UNCHANGED <<capacity, hashes, used, current, claimed, loc, sweep>>
    BY DEF WriteData, UnchangedSlots
  <1>2. Buckets' = Buckets /\ Locals' = Locals
    BY <1>1 DEF Buckets, Locals
  <1>3. data' \in [Buckets -> Keys \cup {NoKey}] /\ pc' \in [Threads -> Pcs]
    <2>1. loc[t].key \in Keys \cup {NoKey}
      BY DEF TableInv, Types, Locals
    <2>2. QED
      BY <2>1 DEF WriteData, Goto, Pcs, TableInv, Types
  <1>4. Types'
    BY <1>1, <1>2, <1>3 DEF TableInv, Types
  <1>5. Places'
    BY <1>1 DEF WriteData, Goto, Pcs, TableInv, Types, Places
  <1>6. \A u \in Threads : Holds(u)' => Holds(u) /\ loc'[u].index = loc[u].index
    BY <1>1 DEF WriteData, Goto, Holds, TableInv, Types
  <1>7. sweep.phase = "none"
    BY NoCollector DEF WriteData, Goto
  <1>8. QED
    BY <1>1, <1>4, <1>5, <1>6, <1>7, Quiet

\* The bit was clear, so nothing published or held has the new index.
LEMMA ReserveBitInv ==
  ASSUME TableInv, NEW t \in Threads, ReserveBit(t)
  PROVE  TableInv'
  <1> DEFINE free == WordBits(loc[t].region, loc[t].cursor) \ used
  <1> DEFINE i == Least(free)
  <1> DEFINE l == [loc[t] EXCEPT !.index = i, !.region = 0, !.cursor = 0]
  <1>1. /\ pc[t] = "word" /\ free # {}
        /\ pc' = [pc EXCEPT ![t] = "write"] /\ loc' = [loc EXCEPT ![t] = l]
        /\ used' = used \cup {i}
        /\ UNCHANGED <<capacity, hashes, data, current, claimed, sweep>>
    BY DEF ReserveBit, Goto, UnchangedTable
  <1>2. /\ loc[t] \in Locals /\ capacity \in Nat /\ 0 \in RegionsOf(capacity)
        /\ loc[t].left > 0
    BY <1>1, ThreadFacts DEF TableInv, Places, Pcs
  <1>3. sweep.phase = "none"
    BY <1>1, NoCollector
  <1>4. i \in Buckets /\ i \notin used
    <2>1. WordBits(loc[t].region, loc[t].cursor) \subseteq Buckets
      BY <1>2, WordsWithin DEF ReserveBit, Buckets, Locals, TableInv, Types
    <2>2. free \in SUBSET Nat
      BY <1>2, <2>1 DEF Buckets
    <2>3. i \in free
      BY <1>1, <2>2, LeastIsIn
    <2>4. QED
      BY <2>1, <2>3
  <1>5. i # 0 /\ i \notin Published
    BY <1>3, <1>4 DEF TableInv, BitmapCovers
  <1>6. \A u \in Threads : Holds(u) => loc[u].index # i
    BY <1>3, <1>4 DEF TableInv, BitmapCovers
  <1> HIDE DEF free, i
  <1>7. l \in Locals /\ l.index = i /\ l.left > 0
    BY <1>2, <1>4 DEF Locals
  <1> HIDE DEF l
  <1>8. Types' /\ Places'
    <2>1. used' \subseteq Buckets
      BY <1>1, <1>4 DEF TableInv, Types
    <2>2. QED
      BY <1>1, <1>5, <1>7, <2>1, LocalTypes DEF Pcs
  <1>9. Occupied' = Occupied /\ Published' = Published
    BY <1>1 DEF Occupied, Published
  <1>10. ASSUME NEW u \in Threads, Holds(u)'
         PROVE  \/ u = t /\ loc'[u].index = i
                \/ u # t /\ Holds(u) /\ loc'[u].index = loc[u].index
    BY <1>1, <1>7, <1>10 DEF Holds, TableInv, Types
  <1>11. BitmapCovers' /\ RehashOfMarked'
    BY <1>1, <1>3, <1>9, <1>10 DEF TableInv, BitmapCovers, RehashOfMarked
  <1>12. BucketsOwnedOnce'
    BY <1>1, <1>5, <1>6, <1>9, <1>10 DEF TableInv, BucketsOwnedOnce
  <1>13. QED
    BY <1>8, <1>11, <1>12 DEF TableInv

\* The bucket passes from the thread to the position, which was empty.
LEMMA PublishWinsInv ==
  ASSUME TableInv, NEW t \in Threads, PublishWins(t)
  PROVE  TableInv'
  <1> DEFINE i == loc[t].index
  <1> DEFINE s == loc[t].s
  <1> DEFINE l == [loc[t] EXCEPT !.v = i]
  <1>1. /\ pc[t] = "publish" /\ hashes[s] = 0
        /\ pc' = [pc EXCEPT ![t] = "found"] /\ loc' = [loc EXCEPT ![t] = l]
        /\ hashes' = [hashes EXCEPT ![s] = i]
        /\ UNCHANGED <<capacity, data, used, current, claimed, sweep>>
    BY DEF PublishWins, Goto, UnchangedSlots
  <1>2. loc[t] \in Locals /\ s \in Buckets /\ i \in Buckets /\ i # 0
    BY <1>1, ThreadFacts DEF Locals, TableInv, Places
  <1>3. sweep.phase = "none"
    BY <1>1, NoCollector
  <1>4. Holds(t) /\ i \in used /\ i \notin Published
    BY <1>1, <1>2, <1>3 DEF Holds, TableInv, BitmapCovers, BucketsOwnedOnce
  <1>5. l \in Locals /\ l.index = i
    BY <1>2 DEF Locals
  <1> HIDE DEF l, i, s
  <1>6. Types' /\ Places'
    <2>1. Buckets' = Buckets /\ Locals' = Locals
      BY <1>1 DEF Buckets, Locals
    <2>2. hashes' \in [Buckets -> Buckets]
      BY <1>1, <1>2 DEF TableInv, Types
    <2>3. Types'
      BY <1>1, <1>5, <2>1, <2>2 DEF TableInv, Types, Pcs
    <2>4. ASSUME NEW u \in Threads
          PROVE  /\ pc'[u] = IF u = t THEN "found" ELSE pc[u]
                 /\ loc'[u] = IF u = t THEN l ELSE loc[u]
      BY <1>1 DEF TableInv, Types
    <2>5. Places'
      BY <1>1, <2>4 DEF TableInv, Places, Pcs
    <2>6. QED
      BY <2>3, <2>5
  <1>7. \A r \in Buckets : hashes'[r] = IF r = s THEN i ELSE hashes[r]
    BY <1>1 DEF TableInv, Types
  <1>8. Occupied' = Occupied \cup {s} /\ Occupied \subseteq Buckets
    BY <1>1, <1>2, <1>7 DEF Occupied, TableInv, Types
  <1>9. Published' = Published \cup {i}
    BY <1>1, <1>2, <1>7, <1>8 DEF Occupied, Published
  <1>10. ASSUME NEW u \in Threads, Holds(u)'
         PROVE  u # t /\ Holds(u) /\ loc'[u].index = loc[u].index
    BY <1>1, <1>10 DEF Holds, TableInv, Types
  <1>11. BitmapCovers' /\ RehashOfMarked'
    BY <1>1, <1>3, <1>4, <1>9, <1>10 DEF TableInv, BitmapCovers, RehashOfMarked
  <1>12. BucketsOwnedOnce'
    <2>1. ASSUME NEW a \in Occupied', NEW b \in Occupied', hashes'[a] = hashes'[b]
          PROVE  a = b
      <3>1. \A c \in Occupied : hashes[c] # i
        BY <1>4 DEF Published
      <3>2. \A c \in Occupied' : c # s => c \in Occupied /\ hashes'[c] = hashes[c]
        BY <1>7, <1>8
      <3>3. hashes'[s] = i
        BY <1>2, <1>7
      <3>4. QED
        BY <2>1, <3>1, <3>2, <3>3 DEF TableInv, BucketsOwnedOnce
    <2>2. ASSUME NEW u \in Threads, Holds(u)'
          PROVE  /\ loc'[u].index \notin Published'
                 /\ \A w \in Threads \ {u} :
                      Holds(w)' => loc'[w].index # loc'[u].index
      BY <1>4, <1>9, <1>10, <2>2 DEF TableInv, BucketsOwnedOnce, i
    <2>3. QED
      BY <2>1, <2>2 DEF BucketsOwnedOnce
  <1>13. QED
    BY <1>6, <1>11, <1>12 DEF TableInv

\* The bucket given back was held: nobody else has it.
LEMMA FreeBucketInv ==
  ASSUME TableInv, NEW t \in Threads, FreeBucket(t)
  PROVE  TableInv'
  <1>1. /\ pc[t] = "free" /\ pc' = [pc EXCEPT ![t] = "found"]
        /\ loc' = [loc EXCEPT ![t] = loc[t]]
        /\ used' = used \ {loc[t].index}
        /\ UNCHANGED <<capacity, hashes, data, current, claimed, loc, sweep>>
    BY DEF FreeBucket, Goto, UnchangedTable, TableInv, Types
  <1>2. loc[t] \in Locals /\ loc[t].index # 0 /\ Holds(t)
    BY <1>1, ThreadFacts DEF Holds, TableInv, Places
  <1>3. sweep.phase = "none"
    BY <1>1, NoCollector
  <1>4. loc[t].index \notin Published
    BY <1>2 DEF TableInv, BucketsOwnedOnce
  <1>5. Types' /\ Places'
    <2>1. used' \subseteq Buckets
      BY <1>1 DEF TableInv, Types
    <2>2. QED
      BY <1>1, <1>2, <2>1, LocalTypes DEF Pcs
  <1>6. Occupied' = Occupied /\ Published' = Published
    BY <1>1 DEF Occupied, Published
  <1>7. ASSUME NEW u \in Threads, Holds(u)'
        PROVE  u # t /\ Holds(u) /\ loc'[u].index = loc[u].index
    BY <1>1, <1>7 DEF Holds, TableInv, Types
  <1>8. BitmapCovers' /\ RehashOfMarked'
    BY <1>1, <1>2, <1>3, <1>4, <1>6, <1>7
       DEF TableInv, BitmapCovers, RehashOfMarked, BucketsOwnedOnce
  <1>9. BucketsOwnedOnce'
    BY <1>1, <1>6, <1>7 DEF TableInv, BucketsOwnedOnce
  <1>10. QED
    BY <1>5, <1>8, <1>9 DEF TableInv

\* A step of a call: one case per action.
LEMMA InsertStepInv ==
  ASSUME TableInv, NEW t \in Threads, InsertStep(t)
  PROVE  TableInv'
  BY ExhaustedInv, ProbeInv, LoadRegionInv, ReserveBitInv, WordIsFullInv,
     LoadForClaimInv, ClaimRegionInv, AlreadyClaimedInv, NoRegionLeftInv,
     SwitchRegionInv, WriteDataInv, PublishWinsInv, PublishLosesInv,
     CompareEqualInv, CompareOtherInv, FreeBucketInv, ReturnInv
     DEF InsertStep

-----------------------------------------------------------------------------
(***************************************************************************)
(* clear                                                                   *)
(***************************************************************************)
\* The table is emptied; what it keeps was published.
LEMMA ClearStartInv ==
  ASSUME TableInv, Clear
  PROVE  TableInv'
  <1>1. PICK except \in SUBSET Published, cap \in {capacity, Resized} :
          ClearStart(except, cap)
    BY DEF Clear
  <1>2. /\ \A t \in Threads : pc[t] = "idle"
        /\ capacity' = cap
        /\ hashes' = [s \in 0 .. cap - 1 |-> 0]
        /\ data' = [i \in 0 .. cap - 1 |-> IF i < capacity THEN data[i] ELSE NoKey]
        /\ sweep' = [phase |-> "rehash", marked |-> except, todo |-> except]
        /\ UNCHANGED <<used, current, claimed, pc, loc>>
    BY <1>1 DEF ClearStart, UnchangedSlots
  <1>3. capacity \in Capacities /\ capacity \in Nat /\ 2 < capacity
    BY DEF TableInv, Types, Capacities
  <1>4. /\ cap \in Capacities /\ cap \in Nat /\ capacity <= cap
        /\ cap <= MaxSize /\ RegionsOf(capacity) \subseteq RegionsOf(cap)
    BY <1>1, ClearedIsCapacity
  <1>5. Buckets' = 0 .. cap - 1 /\ Buckets \subseteq Buckets' /\ 0 \in Buckets'
    BY <1>2, <1>3, <1>4 DEF Buckets
  <1>6. Locals \subseteq Locals'
    <2>1. 0 .. capacity \subseteq 0 .. cap
      BY <1>3, <1>4
    <2>2. QED
      BY <1>2, <1>4, <1>5, <2>1 DEF Locals
  <1>7. Published \subseteq Buckets /\ 0 \notin Published
    BY DEF Published, Occupied, TableInv, Types
  <1>8. Types'
    <2>1. capacity' \in Capacities /\ InitialSize <= capacity' /\ capacity' <= MaxSize
      <3>1. InitialSize \in Nat /\ InitialSize <= capacity
        BY TableAssumption DEF TableInv, Types
      <3>2. QED
        BY <1>1, <1>2, <1>3, <1>4, <3>1
    <2>2. hashes' \in [Buckets' -> Buckets']
      BY <1>2, <1>5
    <2>3. data' \in [Buckets' -> Keys \cup {NoKey}]
      BY <1>2, <1>3, <1>4, <1>5 DEF TableInv, Types, Buckets
    <2>4. /\ used' \subseteq Buckets'
          /\ current' \in [Splits -> RegionsOf(capacity')]
          /\ claimed' \subseteq RegionsOf(capacity')
      BY <1>2, <1>4, <1>5 DEF TableInv, Types
    <2>5. pc' \in [Threads -> Pcs] /\ loc' \in [Threads -> Locals']
      BY <1>2, <1>6 DEF TableInv, Types
    <2>6. sweep' \in [phase : {"none", "rehash"}, marked : SUBSET Buckets',
                      todo : SUBSET Buckets']
         /\ sweep'.todo \subseteq sweep'.marked
      BY <1>2, <1>5, <1>7
    <2>7. QED
      BY <2>1, <2>2, <2>3, <2>4, <2>5, <2>6 DEF Types
  <1>9. Places'
    BY <1>2 DEF Places, TableInv, Pcs
  <1>10. Occupied' = {} /\ Published' = {}
    BY <1>2 DEF Occupied, Published
  <1>11. BitmapCovers' /\ RehashOfMarked' /\ BucketsOwnedOnce'
    BY <1>2, <1>7, <1>10
       DEF BitmapCovers, RehashOfMarked, BucketsOwnedOnce, Holds
  <1>12. QED
    BY <1>8, <1>9, <1>11 DEF TableInv

\* A marked bucket takes an empty position, or none: wherever it lands, it was
\* not published before.
LEMMA ReinsertInv ==
  ASSUME TableInv, Reinsert
  PROVE  TableInv'
  <1> DEFINE i == Least(sweep.todo)
  <1>1. PICK at :
          /\ sweep.phase = "rehash" /\ sweep.todo # {}
          /\ hashes' = [hashes EXCEPT ![at] = IF @ = 0 THEN i ELSE @]
          /\ sweep' = [sweep EXCEPT !.todo = @ \ {i}]
          /\ UNCHANGED <<capacity, data, used, current, claimed, pc, loc>>
    BY DEF Reinsert, UnchangedSlots
  <1>2. /\ \A t \in Threads : pc[t] = "idle"
        /\ sweep.todo \subseteq sweep.marked /\ 0 \notin sweep.marked
        /\ Published \subseteq sweep.marked \ sweep.todo
    BY <1>1 DEF TableInv, RehashOfMarked, Types
  <1>3. i \in sweep.todo
    <2>1. sweep.todo \in SUBSET Nat
      BY DEF TableInv, Types, Buckets, Capacities
    <2>2. QED
      BY <1>1, <2>1, LeastIsIn
  <1>4. i \in Buckets /\ i # 0 /\ i \notin Published
    BY <1>2, <1>3 DEF TableInv, Types
  <1> HIDE DEF i
  <1>5. \A r \in Buckets : \/ hashes'[r] = hashes[r]
                           \/ r = at /\ hashes[r] = 0 /\ hashes'[r] = i
    BY <1>1 DEF TableInv, Types
  <1>6. Buckets' = Buckets /\ Locals' = Locals
    BY <1>1 DEF Buckets, Locals
  <1>7. Types'
    <2>1. hashes' \in [Buckets -> Buckets]
      BY <1>1, <1>4 DEF TableInv, Types
    <2>2. sweep' \in [phase : {"none", "rehash"}, marked : SUBSET Buckets,
                      todo : SUBSET Buckets]
         /\ sweep'.todo \subseteq sweep'.marked
      BY <1>1 DEF TableInv, Types
    <2>3. QED
      BY <1>1, <1>6, <2>1, <2>2 DEF TableInv, Types
  <1>8. Places'
    BY <1>1 DEF TableInv, Places
  <1>9. Occupied' \subseteq Occupied \cup {at} /\ Occupied \subseteq Buckets
        /\ Occupied' \subseteq Buckets
    BY <1>5, <1>6, <1>7 DEF Occupied, TableInv, Types
  <1>10. Published' \subseteq Published \cup {i}
    <2>1. ASSUME NEW c \in Occupied'
          PROVE  hashes'[c] \in Published \cup {i}
      <3>1. c \in Buckets /\ hashes'[c] # 0
        BY <1>9 DEF Occupied
      <3>2. CASE hashes'[c] = hashes[c]
        BY <3>1, <3>2 DEF Occupied, Published, TableInv, Types
      <3>3. QED
        BY <1>5, <3>1, <3>2
    <2>2. QED
      BY <2>1 DEF Published
  <1>11. RehashOfMarked'
    <2>1. /\ sweep'.phase = "rehash" /\ sweep'.marked = sweep.marked
          /\ sweep'.todo = sweep.todo \ {i}
      BY <1>1 DEF TableInv, Types
    <2>2. QED
      BY <1>1, <1>2, <1>3, <1>10, <2>1 DEF RehashOfMarked
  <1>12. BitmapCovers'
    BY <1>1 DEF BitmapCovers, TableInv, Types
  <1>13. BucketsOwnedOnce'
    <2>1. ASSUME NEW a \in Occupied', NEW b \in Occupied', hashes'[a] = hashes'[b]
          PROVE  a = b
      <3>1. \A c \in Occupied : hashes[c] # i
        BY <1>4 DEF Published
      <3>2. \A c \in Occupied' : \/ c \in Occupied /\ hashes'[c] = hashes[c]
                                 \/ c = at /\ hashes'[c] = i
        BY <1>5, <1>9 DEF Occupied, TableInv, Types
      <3>3. QED
        BY <2>1, <3>1, <3>2 DEF TableInv, BucketsOwnedOnce
    <2>2. \A t \in Threads : ~Holds(t)'
      BY <1>1, <1>2 DEF Holds
    <2>3. QED
      BY <2>1, <2>2 DEF BucketsOwnedOnce
  <1>14. QED
    BY <1>7, <1>8, <1>11, <1>12, <1>13 DEF TableInv

\* The bitmap is set to the marked buckets, which cover the published ones.
LEMMA ClearSlotsInv ==
  ASSUME TableInv, ClearSlots
  PROVE  TableInv'
  <1>1. /\ sweep.phase = "rehash"
        /\ used' = {0, 1} \cup sweep.marked
        /\ current' = StartRegions(capacity)
        /\ claimed' = {StartRegions(capacity)[s] : s \in Splits}
        /\ sweep' = NoSweep
        /\ UNCHANGED <<capacity, hashes, data, pc, loc>>
    BY DEF ClearSlots, UnchangedTable
  <1>2. /\ \A t \in Threads : pc[t] = "idle"
        /\ Published \subseteq sweep.marked
    BY <1>1 DEF TableInv, RehashOfMarked
  <1>3. Buckets' = Buckets /\ Locals' = Locals
    BY <1>1 DEF Buckets, Locals
  <1>4. Types'
    <2>1. used' \subseteq Buckets
      BY <1>1 DEF TableInv, Types, Buckets, Capacities
    <2>2. StartRegions(capacity) \in [Splits -> RegionsOf(capacity)]
      BY StartsWithin DEF TableInv, Types
    <2>3. claimed' \subseteq RegionsOf(capacity)
      BY <1>1, <2>2
    <2>4. sweep' \in [phase : {"none", "rehash"}, marked : SUBSET Buckets,
                      todo : SUBSET Buckets]
         /\ sweep'.todo \subseteq sweep'.marked
      BY <1>1 DEF NoSweep
    <2>5. QED
      BY <1>1, <1>3, <2>1, <2>2, <2>3, <2>4 DEF TableInv, Types
  <1>5. Places'
    BY <1>1 DEF TableInv, Places
  <1>6. Occupied' = Occupied /\ Published' = Published
    BY <1>1 DEF Occupied, Published
  <1>7. \A t \in Threads : ~Holds(t)'
    BY <1>1, <1>2 DEF Holds
  <1>8. BitmapCovers' /\ RehashOfMarked'
    BY <1>1, <1>2, <1>6, <1>7 DEF BitmapCovers, RehashOfMarked, NoSweep
  <1>9. BucketsOwnedOnce'
    BY <1>1, <1>6, <1>7 DEF TableInv, BucketsOwnedOnce
  <1>10. QED
    BY <1>4, <1>5, <1>8, <1>9 DEF TableInv

-----------------------------------------------------------------------------
(***************************************************************************)
(* The theorems                                                            *)
(***************************************************************************)
LEMMA StutterInv ==
  ASSUME TableInv, UNCHANGED vars
  PROVE  TableInv'
  <1>1. Occupied' = Occupied /\ Published' = Published
    BY DEF vars, Occupied, Published
  <1>2. Buckets' = Buckets /\ Locals' = Locals
    BY DEF vars, Buckets, Locals
  <1>3. Types' /\ Places'
    BY <1>2 DEF vars, TableInv, Types, Places
  <1>4. BitmapCovers' /\ RehashOfMarked' /\ BucketsOwnedOnce'
    BY <1>1 DEF vars, TableInv, BitmapCovers, RehashOfMarked, BucketsOwnedOnce,
                Holds
  <1>5. QED
    BY <1>3, <1>4 DEF TableInv

\* Every reachable state satisfies the inductive invariant.
THEOREM TableInvHolds == Spec => []TableInv
  <1>1. ASSUME TableInv, [Next]_vars PROVE TableInv'
    <2>1. ASSUME NEW t \in Threads, NEW k \in Keys, Begin(t, k) PROVE TableInv'
      BY <1>1, <2>1, BeginInv
    <2>2. ASSUME NEW t \in Threads, InsertStep(t) PROVE TableInv'
      BY <1>1, <2>2, InsertStepInv
    <2>3. CASE Clear
      BY <1>1, <2>3, ClearStartInv
    <2>4. CASE Reinsert
      BY <1>1, <2>4, ReinsertInv
    <2>5. CASE ClearSlots
      BY <1>1, <2>5, ClearSlotsInv
    <2>6. CASE UNCHANGED vars
      BY <1>1, <2>6, StutterInv
    <2>7. QED
      BY <1>1, <2>1, <2>2, <2>3, <2>4, <2>5, <2>6 DEF Next
  <1>2. QED
    BY <1>1, InitInv, PTL DEF Spec

\* No index, position, region or cursor leaves its range, in calls and in
\* collections that change the capacity.
THEOREM TypesHold == Spec => []TypeOK
  <1>1. TableInv => TypeOK
    <2> SUFFICES ASSUME TableInv PROVE TypeOK
      OBVIOUS
    <2>1. capacity \in InitialSize .. MaxSize
      BY TableAssumption DEF TableInv, Types, Capacities
    <2>2. QED
      BY <2>1 DEF TypeOK, TableInv, Types, Locals
  <1>2. QED
    BY <1>1, TableInvHolds, PTL

\* A bucket belongs to one position, or to one thread that still has to publish
\* it: the write through the UnsafeCell of find_or_insert never has a rival.
THEOREM OwnedOnce == Spec => []BucketsOwnedOnce
  <1>1. TableInv => BucketsOwnedOnce
    BY DEF TableInv
  <1>2. QED
    BY <1>1, TableInvHolds, PTL

\* Once a node can be read through the table, its bucket is not written until
\* a collection has taken it out: readers clone it without a lock.
THEOREM DataFrozen == Spec => PublishedDataFrozen
  <1>1. ASSUME TableInv, [Next]_vars
        PROVE  \A i \in Published : data'[i] = data[i]
    <2>1. ASSUME NEW t \in Threads, WriteData(t), NEW i \in Published
          PROVE  data'[i] = data[i]
      <3>1. Holds(t)
        BY <1>1, <2>1 DEF WriteData, Goto, Holds, TableInv, Places
      <3>2. loc[t].index # i
        BY <1>1, <3>1 DEF TableInv, BucketsOwnedOnce
      <3>3. QED
        BY <1>1, <2>1, <3>2 DEF WriteData, TableInv, Types
    <2>2. ASSUME Clear, NEW i \in Published PROVE data'[i] = data[i]
      <3>1. i \in Buckets /\ capacity \in Nat
        BY <1>1 DEF Published, Occupied, TableInv, Types, Capacities
      <3>2. PICK cap \in {capacity, Resized} :
              data' = [j \in 0 .. cap - 1 |-> IF j < capacity THEN data[j] ELSE NoKey]
        BY <2>2 DEF Clear, ClearStart
      <3>3. cap \in Nat /\ capacity <= cap
        BY <1>1, ClearedIsCapacity
      <3>4. QED
        BY <3>1, <3>2, <3>3 DEF Buckets
    <2>3. ASSUME NEW t \in Threads, InsertStep(t), ~WriteData(t) PROVE data' = data
      BY <2>3 DEF InsertStep, Exhausted, Probe, LoadRegion, ReserveBit, WordIsFull,
           LoadForClaim, ClaimRegion, AlreadyClaimed, NoRegionLeft, SwitchRegion,
           PublishWins, PublishLoses, CompareEqual, CompareOther, FreeBucket,
           Return, UnchangedTable
    <2>4. CASE UNCHANGED data
      BY <2>4
    <2>5. QED
      BY <1>1, <2>1, <2>2, <2>3, <2>4
         DEF Next, Begin, Reinsert, ClearSlots, UnchangedTable, vars
  <1>2. QED
    BY <1>1, TableInvHolds, PTL DEF Spec, PublishedDataFrozen

-----------------------------------------------------------------------------
(***************************************************************************)
(* The unique table implements InternMap, for every number of threads,     *)
(* every geometry and every hash function: every node has one index, at    *)
(* which its probes arrive, and no bucket leaks.                           *)
(*                                                                         *)
(* A thread that finds an empty position has passed no entry of its node;  *)
(* an entry of the node that is there would be reached before the first    *)
(* empty position, so it would have been passed.  A thread that holds a    *)
(* bucket always finds an end to its probes: the bucket is one that no     *)
(* position has, so that some position is empty.                           *)
(***************************************************************************)

\* The n probes of node k before position n met other nodes.
Passed(k, n) ==
  \A m \in 0 .. n - 1 :
    LET e == hashes[ProbeSlot(k, m, capacity)] IN e # 0 /\ data[e] # k

Searching ==
  {"probe", "reserve", "word", "claim", "switch", "write", "publish", "compare"}

\* The number of positions that a thread has passed.
Probes(l) == capacity - l.left

\* What a thread at place p with the locals l knows of the table.
CallOk(p, l) ==
  /\ p # "idle" => l.key \in Keys
  /\ p \in Searching =>
       l.s = ProbeSlot(l.key, Probes(l), capacity) /\ Passed(l.key, Probes(l))
  /\ p = "compare" => l.v # 0 /\ l.v = hashes[l.s]
  /\ p \in {"free", "found"} => l.v \in Published /\ data[l.v] = l.key
  /\ (l.index # 0 /\ p \in {"probe", "publish", "compare", "free"}) =>
       data[l.index] = l.key
  /\ p = "full" => l.index = 0

Calls == \A t \in Threads : CallOk(pc[t], loc[t])

\* Published, or to be published again by the collector.
Known == Published \cup sweep.todo

\* Two indices of the table have different nodes.
OneIndexEach ==
  /\ \A i \in Known : data[i] \in Keys
  /\ \A i, j \in Known : data[i] = data[j] => i = j

\* The second conjunct of Findable.
Reached ==
  \A s \in Occupied :
    \E n \in 0 .. capacity - 3 :
      /\ ProbeSlot(data[hashes[s]], n, capacity) = s
      /\ \A m \in 0 .. n - 1 : hashes[ProbeSlot(data[hashes[s]], m, capacity)] # 0

Held == {loc[t].index : t \in {u \in Threads : Holds(u)}}

\* Every bucket in use is a terminal, published or held.
BitmapExact ==
  /\ 1 \notin Published \cup sweep.marked \cup Held
  /\ sweep.phase = "none" => used = {0, 1} \cup Published \cup Held
                             /\ sweep.todo = {}
  /\ sweep.phase = "rehash" => Published = sweep.marked \ sweep.todo

\* The inductive invariant.
MapInv == /\ TableInv
          /\ Calls
          /\ OneIndexEach
          /\ Reached
          /\ BitmapExact

-----------------------------------------------------------------------------
(***************************************************************************)
(* Probing                                                                 *)
(***************************************************************************)
LEMMA ModSmall ==
  ASSUME NEW m \in Nat \ {0}, NEW a \in 0 .. m - 1
  PROVE  a % m = a /\ (a + m) % m = a
  OBVIOUS

LEMMA ModParts ==
  ASSUME NEW m \in Nat \ {0}, NEW a \in Nat
  PROVE  /\ a \div m \in Int
         /\ a % m \in 0 .. m - 1
         /\ a = m * (a \div m) + (a % m)
  <1>1. a \div m \in Int
    OBVIOUS
  <1>2. a % m \in 0 .. m - 1
    OBVIOUS
  <1>3. a = m * (a \div m) + (a % m)
    OBVIOUS
  <1>4. QED
    BY <1>1, <1>2, <1>3

LEMMA ModOf ==
  ASSUME NEW m \in Nat \ {0}, NEW q \in Int, NEW r \in 0 .. m - 1
  PROVE  (m * q + r) % m = r
  OBVIOUS

LEMMA ModNext ==
  ASSUME NEW m \in Nat \ {0}, NEW a \in Nat
  PROVE  /\ a % m \in 0 .. m - 1
         /\ (a + 1) % m = IF (a % m) + 1 = m THEN 0 ELSE (a % m) + 1
  <1>1. a = m * (a \div m) + (a % m) /\ a \div m \in Int
    BY ModParts
  <1>2. a % m \in 0 .. m - 1
    BY ModParts
  <1> DEFINE q == a \div m
             r == a % m
  <1>3. CASE r + 1 = m
    <2>1. a + 1 = m * (q + 1) + 0 /\ q + 1 \in Int /\ 0 \in 0 .. m - 1
      BY <1>1, <1>3
    <2>2. QED
      BY <1>2, <1>3, <2>1, ModOf
  <1>4. CASE r + 1 # m
    <2>1. a + 1 = m * q + (r + 1) /\ r + 1 \in 0 .. m - 1
      BY <1>1, <1>2, <1>4
    <2>2. QED
      BY <1>1, <1>2, <1>4, <2>1, ModOf
  <1>5. QED
    BY <1>3, <1>4

LEMMA ModWrap ==
  ASSUME NEW m \in Nat \ {0}, NEW a \in Nat
  PROVE  (a + m) % m = a % m
  <1>1. a = m * (a \div m) + (a % m) /\ a \div m \in Int /\ a % m \in 0 .. m - 1
    BY ModParts
  <1> DEFINE q == a \div m
             r == a % m
  <1>2. a + m = m * (q + 1) + r /\ q + 1 \in Int
    BY <1>1
  <1>3. QED
    BY <1>1, <1>2, ModOf

LEMMA StartAfterTerminals ==
  ASSUME NEW cap \in Capacities, NEW k \in Keys
  PROVE  /\ cap - 2 \in Nat \ {0}
         /\ BucketStart(k, cap) - 2 \in 0 .. cap - 3
  <1>1. cap \in Nat /\ 2 < cap
    BY DEF Capacities
  <1>2. BucketStart(k, cap) \in 0 .. cap - 1
    BY StartSlotWithin
  <1>3. BucketStart(k, cap) \in Int /\ 2 <= BucketStart(k, cap)
    <2>1. (Hash[k] * cap) \div HashRange \in Int
      BY <1>1, TableAssumption
    <2> DEFINE q == (Hash[k] * cap) \div HashRange
    <2> HIDE DEF q
    <2>2. BucketStart(k, cap) = IF q < 2 THEN 2 ELSE q
      BY Zenon DEF BucketStart, q
    <2>3. QED
      BY <2>1, <2>2 DEF q
  <1>4. QED
    BY <1>1, <1>2, <1>3

\* The probes for a node start at its hash, and go on to the next position.
LEMMA ProbeSlots ==
  ASSUME NEW cap \in Capacities, NEW k \in Keys, NEW n \in Nat
  PROVE  /\ ProbeSlot(k, n, cap) \in 2 .. cap - 1
         /\ ProbeSlot(k, 0, cap) = BucketStart(k, cap)
         /\ ProbeSlot(k, n + 1, cap) = NextSlot(ProbeSlot(k, n, cap), cap)
         /\ n >= cap - 2 => ProbeSlot(k, n, cap) = ProbeSlot(k, n - (cap - 2), cap)
  <1> DEFINE m == cap - 2
             b == BucketStart(k, cap) - 2
  <1>1. m \in Nat \ {0} /\ b \in 0 .. m - 1 /\ cap = m + 2 /\ cap \in Nat
    BY StartAfterTerminals DEF Capacities
  <1>2. \A i : ProbeSlot(k, i, cap) = 2 + ((b + i) % m)
    BY DEF ProbeSlot
  <1>3. BucketStart(k, cap) = b + 2
    BY StartSlotWithin DEF Capacities
  <1> HIDE DEF m, b
  <1>4. (b + n) % m \in 0 .. m - 1
    <2>1. b + n \in Nat
      BY <1>1
    <2>2. QED
      BY <1>1, <2>1, ModParts
  <1>5. ProbeSlot(k, n, cap) \in 2 .. cap - 1
    BY <1>1, <1>2, <1>4
  <1>6. ProbeSlot(k, 0, cap) = BucketStart(k, cap)
    <2>1. (b + 0) % m = b
      BY <1>1, ModSmall
    <2>2. QED
      BY <1>1, <1>2, <1>3, <2>1
  <1>7. ProbeSlot(k, n + 1, cap) = NextSlot(ProbeSlot(k, n, cap), cap)
    <2>1. (b + (n + 1)) % m = IF ((b + n) % m) + 1 = m THEN 0 ELSE ((b + n) % m) + 1
      <3>1. b + n \in Nat /\ b + (n + 1) = (b + n) + 1
        BY <1>1
      <3>2. QED
        BY <1>1, <3>1, ModNext
    <2> DEFINE r == (b + n) % m
    <2>2. r \in 0 .. m - 1
      BY <1>4
    <2>3. ProbeSlot(k, n, cap) = 2 + r
      BY <1>2
    <2>4. ProbeSlot(k, n + 1, cap) = 2 + (IF r + 1 = m THEN 0 ELSE r + 1)
      BY <1>2, <2>1
    <2> HIDE DEF r
    <2>5. QED
      BY <1>1, <2>2, <2>3, <2>4 DEF NextSlot
  <1>8. ASSUME n >= cap - 2
        PROVE  ProbeSlot(k, n, cap) = ProbeSlot(k, n - (cap - 2), cap)
    <2>1. b + (n - m) \in Nat /\ n - (cap - 2) = n - m /\ b + n = (b + (n - m)) + m
      BY <1>1, <1>8
    <2>2. (b + n) % m = (b + (n - m)) % m
      BY <1>1, <2>1, ModWrap
    <2>3. QED
      BY <1>2, <2>1, <2>2
  <1>9. QED
    BY <1>5, <1>6, <1>7, <1>8

\* They visit every position that is not a terminal's.
LEMMA ProbesCover ==
  ASSUME NEW cap \in Capacities, NEW k \in Keys, NEW s \in 2 .. cap - 1
  PROVE  \E n \in 0 .. cap - 3 : ProbeSlot(k, n, cap) = s
  <1> DEFINE m == cap - 2
             b == BucketStart(k, cap) - 2
  <1>1. m \in Nat \ {0} /\ b \in 0 .. m - 1 /\ cap = m + 2 /\ cap \in Nat
    BY StartAfterTerminals DEF Capacities
  <1>2. \A i : ProbeSlot(k, i, cap) = 2 + ((b + i) % m)
    BY DEF ProbeSlot
  <1> HIDE DEF m, b
  <1>3. s - 2 \in 0 .. m - 1 /\ 2 + (s - 2) = s
    BY <1>1
  <1>4. CASE b <= s - 2
    <2>1. (s - 2) - b \in 0 .. cap - 3 /\ b + ((s - 2) - b) = s - 2
      BY <1>1, <1>3, <1>4
    <2>2. (s - 2) % m = s - 2
      BY <1>1, <1>3, ModSmall
    <2>3. QED
      BY <1>2, <1>3, <2>1, <2>2
  <1>5. CASE b > s - 2
    <2>1. (s - 2) - b + m \in 0 .. cap - 3 /\ b + ((s - 2) - b + m) = (s - 2) + m
      BY <1>1, <1>3, <1>5
    <2>2. ((s - 2) + m) % m = s - 2
      BY <1>1, <1>3, ModSmall
    <2>3. QED
      BY <1>2, <1>3, <2>1, <2>2
  <1>6. QED
    BY <1>1, <1>3, <1>4, <1>5

-----------------------------------------------------------------------------
(***************************************************************************)
(* What the invariant says of positions and buckets                        *)
(***************************************************************************)
\* Bucket l.index belongs to a thread at place p.
Has(p, l) ==
  /\ l.index # 0
  /\ p \in {"write", "publish", "probe", "compare", "free", "full"}

LEMMA MapFacts ==
  ASSUME MapInv
  PROVE  /\ capacity \in Capacities /\ capacity \in Nat /\ 2 < capacity
         /\ Buckets = 0 .. capacity - 1
         /\ hashes \in [Buckets -> Buckets]
         /\ data \in [Buckets -> Keys \cup {NoKey}]
         /\ pc \in [Threads -> Pcs] /\ loc \in [Threads -> Locals]
         /\ Occupied \subseteq 2 .. capacity - 1
         /\ Published \subseteq 2 .. capacity - 1
         /\ \A s \in Occupied : hashes[s] \in Published /\ data[hashes[s]] \in Keys
         /\ \A s \in Buckets : hashes[s] # 0 => s \in Occupied
         /\ \A s \in Buckets \ Occupied : hashes[s] = 0
         /\ \A t \in Threads : Holds(t) <=> Has(pc[t], loc[t])
         /\ \A t \in Threads : Holds(t) =>
              loc[t].index \in 2 .. capacity - 1 /\ loc[t].index \notin Published
  <1>1. /\ capacity \in Capacities /\ capacity \in Nat /\ 2 < capacity
        /\ Buckets = 0 .. capacity - 1
        /\ hashes \in [Buckets -> Buckets]
        /\ data \in [Buckets -> Keys \cup {NoKey}]
        /\ pc \in [Threads -> Pcs] /\ loc \in [Threads -> Locals]
    BY DEF MapInv, TableInv, Types, Capacities, Buckets
  <1>2. /\ \A s \in Occupied : s \in Buckets /\ hashes[s] \in Published
        /\ \A s \in Buckets : hashes[s] # 0 => s \in Occupied
        /\ \A s \in Buckets \ Occupied : hashes[s] = 0
    BY <1>1 DEF Occupied, Published
  <1>3. \A s \in Occupied : data[hashes[s]] \in Keys
    BY <1>2 DEF MapInv, OneIndexEach, Known
  <1>4. Occupied \subseteq 2 .. capacity - 1
    <2>1. ASSUME NEW s \in Occupied PROVE s \in 2 .. capacity - 1
      <3>1. PICK n \in 0 .. capacity - 3 : ProbeSlot(data[hashes[s]], n, capacity) = s
        BY DEF MapInv, Reached
      <3>2. QED
        BY <1>1, <1>3, <3>1, ProbeSlots
    <2>2. QED
      BY <2>1
  <1>5. Published \subseteq 2 .. capacity - 1
    <2>1. Published \subseteq Buckets /\ 0 \notin Published
      BY <1>1, <1>2 DEF Published, Occupied
    <2>2. 1 \notin Published
      BY DEF MapInv, BitmapExact
    <2>3. QED
      BY <1>1, <2>1, <2>2
  <1>6. \A t \in Threads : Holds(t) <=> Has(pc[t], loc[t])
    BY DEF Holds, Has
  <1>7. ASSUME NEW t \in Threads, Holds(t)
        PROVE  loc[t].index \in 2 .. capacity - 1 /\ loc[t].index \notin Published
    <2>1. loc[t].index \in Buckets /\ loc[t].index # 0
      BY <1>1, <1>7 DEF Holds, Locals
    <2>2. loc[t].index # 1
      BY <1>7 DEF Held, MapInv, BitmapExact
    <2>3. loc[t].index \notin Published
      BY <1>7 DEF MapInv, TableInv, BucketsOwnedOnce
    <2>4. QED
      BY <1>1, <2>1, <2>2, <2>3, SMTT(30)
  <1>8. QED
    BY <1>1, <1>2, <1>3, <1>4, <1>5, <1>6, <1>7

\* While a bucket is not published, some position is empty.
LEMMA EmptyPosition ==
  ASSUME MapInv, NEW i \in 2 .. capacity - 1, i \notin Published
  PROVE  \E s \in 2 .. capacity - 1 : hashes[s] = 0
  <1> DEFINE S == 2 .. capacity - 1
  <1>1. /\ capacity \in Nat /\ 2 < capacity
        /\ S \subseteq Buckets
        /\ Published \subseteq S
        /\ \A s \in Buckets : hashes[s] # 0 => s \in Occupied /\ hashes[s] \in Published
    BY MapFacts
  <1> SUFFICES ASSUME \A s \in S : hashes[s] # 0 PROVE FALSE
    OBVIOUS
  <1> DEFINE f == [s \in S |-> hashes[s]]
  <1>2. f \in [S -> S \ {i}]
    BY <1>1
  <1>3. \A x, y \in S : f[x] = f[y] => x = y
    BY <1>1 DEF MapInv, TableInv, BucketsOwnedOnce
  <1>4. IsFiniteSet(S)
    BY <1>1, FS_Interval, 2 \in Int, capacity - 1 \in Int
  <1>5. /\ IsFiniteSet(S \ {i}) /\ Cardinality(S \ {i}) = Cardinality(S) - 1
        /\ Cardinality(S) \in Nat
    BY <1>4, FS_RemoveElement, FS_CardinalityType
  <1> HIDE DEF S, f
  <1>6. Cardinality(S \ {i}) < Cardinality(S)
    BY <1>5
  <1>7. \E x, y \in S : x # y /\ f[x] = f[y]
    BY <1>2, <1>4, <1>5, <1>6, FS_PigeonHole
  <1>8. QED
    BY <1>3, <1>7

\* A thread with a bucket of its own has not been all around the table.
LEMMA HolderFindsEnd ==
  ASSUME MapInv, NEW t \in Threads, pc[t] \in Searching, Holds(t)
  PROVE  Probes(loc[t]) \in 0 .. capacity - 3
  <1>1. /\ capacity \in Capacities /\ capacity \in Nat
        /\ loc[t].index \in 2 .. capacity - 1 /\ loc[t].index \notin Published
        /\ loc[t] \in Locals
    BY MapFacts
  <1>2. PICK s \in 2 .. capacity - 1 : hashes[s] = 0
    BY <1>1, EmptyPosition
  <1>3. loc[t].key \in Keys /\ Passed(loc[t].key, Probes(loc[t]))
    BY DEF MapInv, Calls, CallOk, Searching
  <1>4. PICK n \in 0 .. capacity - 3 : ProbeSlot(loc[t].key, n, capacity) = s
    BY <1>1, <1>3, ProbesCover
  <1>5. Probes(loc[t]) \in Nat
    BY <1>1 DEF Probes, Locals
  <1>6. ~(n \in 0 .. Probes(loc[t]) - 1)
    BY <1>2, <1>3, <1>4 DEF Passed
  <1>7. QED
    BY <1>1, <1>4, <1>5, <1>6

\* Where a search meets an empty position, its node is not in the table.
LEMMA NotKnown ==
  ASSUME MapInv, NEW t \in Threads, pc[t] \in Searching, hashes[loc[t].s] = 0,
         NEW s \in Occupied
  PROVE  data[hashes[s]] # loc[t].key
  <1> SUFFICES ASSUME data[hashes[s]] = loc[t].key PROVE FALSE
    OBVIOUS
  <1> DEFINE k == loc[t].key
             n == Probes(loc[t])
  <1>1. /\ loc[t].s = ProbeSlot(k, n, capacity) /\ Passed(k, n)
    BY DEF MapInv, Calls, CallOk, Searching
  <1>2. PICK j \in 0 .. capacity - 3 :
          /\ ProbeSlot(k, j, capacity) = s
          /\ \A m \in 0 .. j - 1 : hashes[ProbeSlot(k, m, capacity)] # 0
    BY DEF MapInv, Reached
  <1>3. n \in Nat
    BY MapFacts DEF Probes, Locals
  <1>4. ~(n \in 0 .. j - 1)
    BY <1>1, <1>2
  <1>5. n # j
    BY <1>1, <1>2 DEF Occupied
  <1>6. ~(j \in 0 .. n - 1)
    BY <1>1, <1>2 DEF Passed
  <1> HIDE DEF n
  <1>7. QED
    BY <1>3, <1>4, <1>5, <1>6

-----------------------------------------------------------------------------
(***************************************************************************)
(* find_or_insert                                                          *)
(***************************************************************************)
LEMMA InitMap == Init => MapInv
  <1> SUFFICES ASSUME Init PROVE MapInv
    OBVIOUS
  <1>1. TableInv
    BY InitInv
  <1>2. Occupied = {} /\ Published = {} /\ sweep.todo = {} /\ sweep.marked = {}
    BY DEF Init, Occupied, Published, NoSweep
  <1>3. Calls
    BY DEF Init, Calls, CallOk, Searching, NoLoc
  <1>4. OneIndexEach /\ Reached
    BY <1>2 DEF OneIndexEach, Known, Reached
  <1>5. Held = {}
    BY DEF Init, Held, Holds
  <1>6. BitmapExact
    BY <1>2, <1>5 DEF Init, BitmapExact, NoSweep
  <1>7. QED
    BY <1>1, <1>3, <1>4, <1>6 DEF MapInv

\* A step of t on its place and locals that knows what it must know there.
LEMMA LocalMap ==
  ASSUME MapInv, TableInv', NEW t \in Threads, NEW p, NEW l,
         pc' = [pc EXCEPT ![t] = p], loc' = [loc EXCEPT ![t] = l],
         UNCHANGED <<capacity, hashes, data, used, sweep>>,
         CallOk(p, l),
         Has(p, l) <=> Holds(t),
         Has(p, l) => l.index = loc[t].index
  PROVE  MapInv'
  <1>1. Occupied' = Occupied /\ Published' = Published /\ Known' = Known
    BY DEF Occupied, Published, Known
  <1>2. ASSUME NEW u \in Threads
        PROVE  /\ pc'[u] = IF u = t THEN p ELSE pc[u]
               /\ loc'[u] = IF u = t THEN l ELSE loc[u]
    BY DEF MapInv, TableInv, Types
  <1>3. Calls'
    <2>1. \A u \in Threads : CallOk(pc'[u], loc'[u])
      BY <1>2 DEF MapInv, Calls
    <2>2. QED
      BY <1>1, <2>1 DEF Calls, CallOk, Passed, Probes
  <1>4. OneIndexEach' /\ Reached'
    BY <1>1 DEF MapInv, OneIndexEach, Reached
  <1>5. Held' = Held
    <2>1. \A u \in Threads : /\ Holds(u)' <=> Holds(u)
                             /\ Holds(u) => loc'[u].index = loc[u].index
      BY <1>2 DEF Has, Holds
    <2>2. QED
      BY <2>1 DEF Held
  <1>6. BitmapExact'
    BY <1>1, <1>5 DEF MapInv, BitmapExact
  <1>7. QED
    BY <1>3, <1>4, <1>6 DEF MapInv

\* What a thread in a call knows.
LEMMA Knows ==
  ASSUME MapInv, NEW t \in Threads, pc[t] # "idle"
  PROVE  /\ CallOk(pc[t], loc[t]) /\ loc[t] \in Locals /\ loc[t].key \in Keys
         /\ Probes(loc[t]) \in Nat /\ capacity \in Capacities /\ capacity \in Nat
         /\ sweep.phase = "none"
         /\ pc' = [pc EXCEPT ![t] = pc[t]] => pc' = pc
         /\ loc = [loc EXCEPT ![t] = loc[t]]
         /\ Holds(t) <=> Has(pc[t], loc[t])
  <1>1. CallOk(pc[t], loc[t]) /\ loc[t].key \in Keys
    BY DEF MapInv, Calls, CallOk
  <1>2. Probes(loc[t]) \in Nat
    BY MapFacts DEF Probes, Locals
  <1>3. QED
    BY <1>1, <1>2, MapFacts, NoCollector DEF MapInv

LEMMA BeginMap ==
  ASSUME MapInv, NEW t \in Threads, NEW k \in Keys, Begin(t, k)
  PROVE  MapInv'
  <1> DEFINE l == [NoLoc EXCEPT !.key = k, !.s = BucketStart(k, capacity),
                                !.left = capacity]
  <1>1. l.key = k /\ l.s = BucketStart(k, capacity) /\ l.left = capacity /\ l.index = 0
    BY DEF NoLoc
  <1>2. pc[t] = "idle" /\ pc' = [pc EXCEPT ![t] = "probe"] /\ loc' = [loc EXCEPT ![t] = l]
        /\ UNCHANGED <<capacity, hashes, data, used, sweep>>
    BY DEF Begin, Goto, UnchangedTable, UnchangedSlots
  <1>3. TableInv'
    BY BeginInv DEF MapInv
  <1> HIDE DEF l
  <1>4. CallOk("probe", l)
    <2>1. Probes(l) = 0 /\ capacity \in Capacities
      BY <1>1, MapFacts DEF Probes
    <2>2. l.s = ProbeSlot(k, 0, capacity)
      BY <1>1, <2>1, ProbeSlots
    <2>3. Passed(k, 0)
      BY DEF Passed
    <2>4. QED
      BY <1>1, <2>1, <2>2, <2>3 DEF CallOk
  <1>5. ~Has("probe", l) /\ ~Holds(t)
    BY <1>1, <1>2 DEF Has, Holds
  <1>6. QED
    BY <1>2, <1>3, <1>4, <1>5, LocalMap

\* All positions were probed without a bucket reserved: the table is full.
LEMMA ExhaustedMap ==
  ASSUME MapInv, NEW t \in Threads, Exhausted(t)
  PROVE  MapInv'
  <1>1. pc[t] = "probe" /\ pc' = [pc EXCEPT ![t] = "full"] /\ loc[t].left = 0
        /\ UNCHANGED <<capacity, hashes, data, used, loc, sweep>>
    BY DEF Exhausted, Goto, UnchangedTable, UnchangedSlots
  <1>2. TableInv'
    BY ExhaustedInv DEF MapInv
  <1>3. loc' = [loc EXCEPT ![t] = loc[t]] /\ loc[t].key \in Keys
    BY <1>1, Knows
  <1>4. loc[t].index = 0
    <2>1. ~Holds(t)
      <3>1. capacity \in Nat
        BY MapFacts
      <3>2. ~(Probes(loc[t]) \in 0 .. capacity - 3)
        BY <1>1, <3>1 DEF Probes
      <3>3. QED
        BY <1>1, <3>2, HolderFindsEnd DEF Searching
    <2>2. QED
      BY <1>1, <2>1 DEF Holds
  <1>5. CallOk("full", loc[t]) /\ ~Has("full", loc[t]) /\ ~Holds(t)
    BY <1>3, <1>4 DEF CallOk, Searching, Has, Holds
  <1>6. QED
    BY <1>1, <1>2, <1>3, <1>5, LocalMap

LEMMA ProbeMap ==
  ASSUME MapInv, NEW t \in Threads, Probe(t)
  PROVE  MapInv'
  <1> DEFINE p == IF hashes[loc[t].s] # 0 THEN "compare"
                  ELSE IF loc[t].index = 0 THEN "reserve" ELSE "publish"
             l == [loc[t] EXCEPT !.v = hashes[loc[t].s]]
  <1>1. pc[t] = "probe" /\ pc' = [pc EXCEPT ![t] = p] /\ loc' = [loc EXCEPT ![t] = l]
        /\ UNCHANGED <<capacity, hashes, data, used, sweep>>
    BY DEF Probe, Goto, UnchangedTable, UnchangedSlots
  <1>2. TableInv'
    BY ProbeInv DEF MapInv
  <1>3. /\ l.key = loc[t].key /\ l.s = loc[t].s /\ l.left = loc[t].left
        /\ l.index = loc[t].index /\ l.v = hashes[loc[t].s]
    BY <1>1, Knows DEF Locals
  <1>4. CallOk(p, l)
    BY <1>1, <1>3, Knows DEF CallOk, Searching, Probes
  <1>5. Has(p, l) <=> Holds(t)
    BY <1>1, <1>3 DEF Has, Holds
  <1> HIDE DEF p, l
  <1>6. QED
    BY <1>1, <1>2, <1>3, <1>4, <1>5, LocalMap

\* The search for a bucket leaves alone what the probes have found.
LEMMA SeekingMap ==
  ASSUME MapInv, TableInv', NEW t \in Threads,
         NEW p \in {"reserve", "word", "claim", "switch", "full"}, NEW l \in Locals,
         pc[t] \in {"reserve", "word", "claim", "switch"},
         pc' = [pc EXCEPT ![t] = p], loc' = [loc EXCEPT ![t] = l],
         UNCHANGED <<capacity, hashes, data, used, sweep>>,
         l.key = loc[t].key, l.s = loc[t].s, l.left = loc[t].left,
         l.index = loc[t].index
  PROVE  MapInv'
  <1>1. l.index = 0
    BY DEF MapInv, TableInv, Places
  <1>2. CallOk(p, l)
    BY <1>1, Knows DEF CallOk, Searching, Probes
  <1>3. ~Has(p, l) /\ ~Holds(t)
    BY <1>1 DEF Has, Holds
  <1>4. QED
    BY <1>2, <1>3, LocalMap

\* The steps of the search for a bucket.
SeekStep(t) ==
  \/ LoadRegion(t) \/ WordIsFull(t) \/ LoadForClaim(t) \/ ClaimRegion(t)
  \/ AlreadyClaimed(t) \/ NoRegionLeft(t) \/ SwitchRegion(t)

LEMMA SeekLocals ==
  ASSUME MapInv, NEW t \in Threads, SeekStep(t)
  PROVE  /\ TableInv'
         /\ UNCHANGED <<capacity, hashes, data, used, sweep>>
         /\ pc[t] \in {"reserve", "word", "claim", "switch"}
         /\ \E p \in {"reserve", "word", "claim", "switch", "full"} :
              pc' = [pc EXCEPT ![t] = p]
         /\ \E l \in Locals :
              /\ loc' = [loc EXCEPT ![t] = l]
              /\ l.key = loc[t].key /\ l.s = loc[t].s /\ l.left = loc[t].left
              /\ l.index = loc[t].index
  <1> USE DEF SeekStep
  <1>1. TableInv'
    BY LoadRegionInv, WordIsFullInv, LoadForClaimInv, ClaimRegionInv,
       AlreadyClaimedInv, NoRegionLeftInv, SwitchRegionInv DEF MapInv
  <1>2. UNCHANGED <<capacity, hashes, data, used, sweep>>
    BY DEF LoadRegion, WordIsFull, LoadForClaim, ClaimRegion, AlreadyClaimed,
           NoRegionLeft, SwitchRegion, UnchangedTable, UnchangedSlots
  <1>3. /\ pc[t] \in {"reserve", "word", "claim", "switch"}
        /\ \E p \in {"reserve", "word", "claim", "switch", "full"} :
             pc' = [pc EXCEPT ![t] = p]
    BY DEF LoadRegion, WordIsFull, LoadForClaim, ClaimRegion, AlreadyClaimed,
           NoRegionLeft, SwitchRegion, Goto
  <1>4. \E l \in Locals :
               /\ loc' = [loc EXCEPT ![t] = l]
               /\ l.key = loc[t].key /\ l.s = loc[t].s /\ l.left = loc[t].left
               /\ l.index = loc[t].index
    <2>1. loc[t] \in Locals /\ loc = [loc EXCEPT ![t] = loc[t]]
      BY <1>3, Knows
    <2> DEFINE Stays(l) == /\ l.key = loc[t].key /\ l.s = loc[t].s
                           /\ l.left = loc[t].left /\ l.index = loc[t].index
    <2>0. ASSUME NEW l, loc' = [loc EXCEPT ![t] = l] PROVE l \in Locals
      <3>1. loc' \in [Threads -> Locals]
        BY <1>1, <1>2 DEF TableInv, Types, Locals, Buckets
      <3>2. loc'[t] = l
        BY <2>0, MapFacts
      <3>3. QED
        BY <3>1, <3>2
    <2>2. CASE LoadRegion(t)
      <3> DEFINE l == [loc[t] EXCEPT !.region = current[SplitOf[t]], !.cursor = 0]
      <3>1. loc' = [loc EXCEPT ![t] = l]
        BY <2>2 DEF LoadRegion
      <3>2. Stays(l)
        BY <2>1 DEF Locals
      <3> HIDE DEF l
      <3>3. QED
        BY <2>0, <3>1, <3>2
    <2>3. CASE WordIsFull(t)
      <3> DEFINE l == [loc[t] EXCEPT !.cursor = @ + 1]
      <3>1. loc' = [loc EXCEPT ![t] = l]
        BY <2>3 DEF WordIsFull
      <3>2. Stays(l)
        BY <2>1 DEF Locals
      <3> HIDE DEF l
      <3>3. QED
        BY <2>0, <3>1, <3>2
    <2>4. CASE LoadForClaim(t)
      <3> DEFINE r == current[SplitOf[t]]
                 l == [loc[t] EXCEPT !.region = r,
                         !.cursor = (r + 1) % Cardinality(RegionsOf(capacity))]
      <3>1. loc' = [loc EXCEPT ![t] = l]
        BY <2>4 DEF LoadForClaim
      <3>2. Stays(l)
        BY <2>1 DEF Locals
      <3> HIDE DEF l
      <3>3. QED
        BY <2>0, <3>1, <3>2
    <2>5. CASE AlreadyClaimed(t)
      <3> DEFINE l == [loc[t] EXCEPT
                         !.cursor = (@ + 1) % Cardinality(RegionsOf(capacity))]
      <3>1. loc' = [loc EXCEPT ![t] = l]
        BY <2>5 DEF AlreadyClaimed
      <3>2. Stays(l)
        BY <2>1 DEF Locals
      <3> HIDE DEF l
      <3>3. QED
        BY <2>0, <3>1, <3>2
    <2>6. CASE ClaimRegion(t) \/ NoRegionLeft(t) \/ SwitchRegion(t)
      BY <2>1, <2>6 DEF ClaimRegion, NoRegionLeft, SwitchRegion
    <2>7. QED
      BY <2>2, <2>3, <2>4, <2>5, <2>6
  <1>5. QED
    BY <1>1, <1>2, <1>3, <1>4

LEMMA SeekMap ==
  ASSUME MapInv, NEW t \in Threads, SeekStep(t)
  PROVE  MapInv'
  <1>1. TableInv' /\ UNCHANGED <<capacity, hashes, data, used, sweep>>
    BY SeekLocals
  <1>2. pc[t] \in {"reserve", "word", "claim", "switch"}
    BY SeekLocals
  <1>3. PICK p \in {"reserve", "word", "claim", "switch", "full"} :
          pc' = [pc EXCEPT ![t] = p]
    BY SeekLocals
  <1>4. PICK l \in Locals :
          /\ loc' = [loc EXCEPT ![t] = l]
          /\ l.key = loc[t].key /\ l.s = loc[t].s /\ l.left = loc[t].left
          /\ l.index = loc[t].index
    BY SeekLocals
  <1>5. QED
    BY <1>1, <1>2, <1>3, <1>4, SeekingMap

LEMMA PublishLosesMap ==
  ASSUME MapInv, NEW t \in Threads, PublishLoses(t)
  PROVE  MapInv'
  <1> DEFINE l == [loc[t] EXCEPT !.v = hashes[loc[t].s]]
  <1>1. pc[t] = "publish" /\ pc' = [pc EXCEPT ![t] = "compare"]
        /\ loc' = [loc EXCEPT ![t] = l] /\ hashes[loc[t].s] # 0
        /\ UNCHANGED <<capacity, hashes, data, used, sweep>>
    BY DEF PublishLoses, Goto, UnchangedTable, UnchangedSlots
  <1>2. TableInv'
    BY PublishLosesInv DEF MapInv
  <1>3. /\ l.key = loc[t].key /\ l.s = loc[t].s /\ l.left = loc[t].left
        /\ l.index = loc[t].index /\ l.v = hashes[loc[t].s]
    BY <1>1, Knows DEF Locals
  <1>4. CallOk("compare", l)
    BY <1>1, <1>3, Knows DEF CallOk, Searching, Probes
  <1>5. Has("compare", l) <=> Holds(t)
    BY <1>1, <1>3 DEF Has, Holds
  <1> HIDE DEF l
  <1>6. QED
    BY <1>1, <1>2, <1>3, <1>4, <1>5, LocalMap

\* The entry that a search has met is published.
LEMMA MetIsPublished ==
  ASSUME MapInv, NEW t \in Threads, pc[t] = "compare"
  PROVE  loc[t].s \in Occupied /\ loc[t].v = hashes[loc[t].s] /\ loc[t].v \in Published
  <1>1. loc[t].v # 0 /\ loc[t].v = hashes[loc[t].s] /\ loc[t].s \in Buckets
    BY Knows DEF CallOk, Locals
  <1>2. QED
    BY <1>1, MapFacts

LEMMA CompareEqualMap ==
  ASSUME MapInv, NEW t \in Threads, CompareEqual(t)
  PROVE  MapInv'
  <1> DEFINE p == IF loc[t].index # 0 THEN "free" ELSE "found"
  <1>1. pc[t] = "compare" /\ pc' = [pc EXCEPT ![t] = p] /\ data[loc[t].v] = loc[t].key
        /\ UNCHANGED <<capacity, hashes, data, used, loc, sweep>>
    BY DEF CompareEqual, Goto, UnchangedTable, UnchangedSlots
  <1>2. TableInv'
    BY CompareEqualInv DEF MapInv
  <1>3. loc' = [loc EXCEPT ![t] = loc[t]] /\ loc[t].v \in Published
    BY <1>1, Knows, MetIsPublished
  <1>4. CallOk(p, loc[t])
    BY <1>1, <1>3, Knows DEF CallOk, Searching
  <1>5. Has(p, loc[t]) <=> Holds(t)
    BY <1>1 DEF Has, Holds
  <1> HIDE DEF p
  <1>6. QED
    BY <1>1, <1>2, <1>3, <1>4, <1>5, LocalMap

\* One more position is passed.
LEMMA CompareOtherMap ==
  ASSUME MapInv, NEW t \in Threads, CompareOther(t)
  PROVE  MapInv'
  <1> DEFINE l == [loc[t] EXCEPT !.s = NextSlot(@, capacity), !.left = @ - 1, !.v = 0]
             k == loc[t].key
             n == Probes(loc[t])
  <1>1. pc[t] = "compare" /\ pc' = [pc EXCEPT ![t] = "probe"]
        /\ loc' = [loc EXCEPT ![t] = l] /\ data[loc[t].v] # loc[t].key
        /\ UNCHANGED <<capacity, hashes, data, used, sweep>>
    BY DEF CompareOther, Goto, UnchangedTable, UnchangedSlots
  <1>2. TableInv'
    BY CompareOtherInv DEF MapInv
  <1>3. /\ l.key = k /\ l.s = NextSlot(loc[t].s, capacity) /\ l.left = loc[t].left - 1
        /\ l.index = loc[t].index
    BY <1>1, Knows DEF Locals
  <1>4. /\ n \in Nat /\ k \in Keys /\ capacity \in Capacities
        /\ loc[t].s = ProbeSlot(k, n, capacity) /\ Passed(k, n)
    BY <1>1, Knows DEF CallOk, Searching
  <1>5. Probes(l) = n + 1
    <2>1. capacity \in Nat /\ loc[t].left \in Nat
      BY MapFacts DEF Locals
    <2>2. QED
      BY <1>3, <2>1 DEF Probes
  <1>6. l.s = ProbeSlot(k, n + 1, capacity)
    BY <1>3, <1>4, ProbeSlots
  <1>7. hashes[loc[t].s] # 0 /\ data[hashes[loc[t].s]] # k
    BY <1>1, MetIsPublished DEF Occupied
  <1>8. Passed(k, n + 1)
    <2> HIDE DEF n, k
    <2>1. ASSUME NEW m \in 0 .. n PROVE m = n \/ m \in 0 .. n - 1
      BY <1>4
    <2>2. QED
      BY <1>4, <1>7, <2>1 DEF Passed
  <1>9. CallOk("probe", l)
    BY <1>1, <1>3, <1>4, <1>5, <1>6, <1>8, Knows DEF CallOk, Searching
  <1>10. Has("probe", l) <=> Holds(t)
    BY <1>1, <1>3 DEF Has, Holds
  <1> HIDE DEF l
  <1>11. QED
    BY <1>1, <1>2, <1>3, <1>9, <1>10, LocalMap

LEMMA ReturnMap ==
  ASSUME MapInv, NEW t \in Threads, Return(t)
  PROVE  MapInv'
  <1>1. pc[t] \in {"found", "full"} /\ pc' = [pc EXCEPT ![t] = "idle"]
        /\ loc' = [loc EXCEPT ![t] = NoLoc]
        /\ UNCHANGED <<capacity, hashes, data, used, sweep>>
    BY DEF Return, UnchangedTable, UnchangedSlots
  <1>2. TableInv'
    BY ReturnInv DEF MapInv
  <1>3. CallOk("idle", NoLoc) /\ ~Has("idle", NoLoc)
    BY DEF CallOk, Searching, Has
  <1>4. ~Holds(t)
    BY <1>1, Knows DEF CallOk, Holds
  <1>5. QED
    BY <1>1, <1>2, <1>3, <1>4, LocalMap

\* Probes stay within the table.
LEMMA ProbesWithin ==
  ASSUME MapInv, NEW k \in Keys, NEW n \in Nat
  PROVE  ProbeSlot(k, n, capacity) \in Buckets
  <1> DEFINE s == ProbeSlot(k, n, capacity)
  <1>1. s \in 2 .. capacity - 1 /\ capacity \in Nat
    BY ProbeSlots, MapFacts
  <1> HIDE DEF s
  <1>2. s \in Buckets
    BY <1>1 DEF Buckets
  <1>3. QED
    BY <1>2 DEF s

\* A thread that searches has met published entries only.
LEMMA PassedArePublished ==
  ASSUME MapInv, NEW k \in Keys, NEW n \in Nat, Passed(k, n), NEW m \in 0 .. n - 1
  PROVE  LET s == ProbeSlot(k, m, capacity)
         IN  s \in Occupied /\ hashes[s] \in Published /\ data[hashes[s]] # k
  <1> DEFINE s == ProbeSlot(k, m, capacity)
  <1>1. s \in Buckets
    <2>1. m \in Nat
      OBVIOUS
    <2>2. QED
      BY <2>1, ProbesWithin
  <1>2. hashes[s] # 0 /\ data[hashes[s]] # k
    BY DEF Passed
  <1> HIDE DEF s
  <1>3. s \in Occupied /\ hashes[s] \in Published
    BY <1>1, <1>2, MapFacts
  <1>4. QED
    BY <1>2, <1>3 DEF s

\* The new bucket was neither published nor held.
LEMMA ReserveBitMap ==
  ASSUME MapInv, NEW t \in Threads, ReserveBit(t)
  PROVE  MapInv'
  <1> DEFINE free == WordBits(loc[t].region, loc[t].cursor) \ used
             i == Least(free)
             l == [loc[t] EXCEPT !.index = i, !.region = 0, !.cursor = 0]
  <1>1. /\ pc[t] = "word" /\ free # {} /\ loc[t].cursor < WordsPerRegion
        /\ pc' = [pc EXCEPT ![t] = "write"] /\ loc' = [loc EXCEPT ![t] = l]
        /\ used' = used \cup {i}
        /\ UNCHANGED <<capacity, hashes, data, sweep>>
    BY DEF ReserveBit, Goto, UnchangedTable
  <1>2. TableInv'
    BY ReserveBitInv DEF MapInv
  <1>3. /\ loc[t] \in Locals /\ sweep.phase = "none" /\ CallOk(pc[t], loc[t])
        /\ capacity \in Capacities /\ capacity \in Nat
    BY <1>1, Knows
  <1>4. i \notin used
    <2>1. WordBits(loc[t].region, loc[t].cursor) \subseteq 0 .. capacity - 1
      BY <1>1, <1>3, WordsWithin DEF Locals
    <2>2. free \in SUBSET Nat
      BY <1>3, <2>1
    <2>3. QED
      BY <1>1, <2>2, LeastIsIn
  <1> HIDE DEF free, i
  <1>5. /\ l.key = loc[t].key /\ l.s = loc[t].s /\ l.left = loc[t].left
        /\ l.index = i /\ l.v = loc[t].v
    BY <1>3 DEF Locals
  <1> HIDE DEF l
  <1>6. ASSUME NEW u \in Threads
        PROVE  /\ pc'[u] = IF u = t THEN "write" ELSE pc[u]
               /\ loc'[u] = IF u = t THEN l ELSE loc[u]
    BY <1>1, MapFacts
  <1>7. Occupied' = Occupied /\ Published' = Published /\ Known' = Known
    BY <1>1 DEF Occupied, Published, Known
  <1>8. Calls'
    <2>1. CallOk("write", l)
      BY <1>1, <1>3, <1>5 DEF CallOk, Searching, Probes
    <2>2. \A u \in Threads : CallOk(pc'[u], loc'[u])
      BY <1>6, <2>1 DEF MapInv, Calls
    <2>3. QED
      BY <1>1, <1>7, <2>2 DEF Calls, CallOk, Passed, Probes
  <1>9. OneIndexEach' /\ Reached'
    BY <1>1, <1>7 DEF MapInv, OneIndexEach, Reached
  <1>10. i # 0 /\ i # 1
    BY <1>3, <1>4 DEF MapInv, BitmapExact
  <1>11. Held' = Held \cup {i}
    <2>1. ~Holds(t) /\ Holds(t)' /\ loc'[t].index = i
      BY <1>1, <1>5, <1>6, <1>10 DEF Holds
    <2>2. \A u \in Threads \ {t} : /\ Holds(u)' <=> Holds(u)
                                   /\ loc'[u].index = loc[u].index
      BY <1>6 DEF Holds
    <2>3. QED
      BY <2>1, <2>2 DEF Held
  <1>12. BitmapExact'
    BY <1>1, <1>3, <1>7, <1>10, <1>11 DEF MapInv, BitmapExact
  <1>13. QED
    BY <1>2, <1>8, <1>9, <1>12 DEF MapInv

\* The bucket written is one that nobody else reads.
LEMMA WriteDataMap ==
  ASSUME MapInv, NEW t \in Threads, WriteData(t)
  PROVE  MapInv'
  <1> DEFINE i == loc[t].index
  <1>1. /\ pc[t] = "write" /\ pc' = [pc EXCEPT ![t] = "publish"]
        /\ data' = [data EXCEPT ![i] = loc[t].key]
        /\ UNCHANGED <<capacity, hashes, used, loc, sweep>>
    BY DEF WriteData, Goto, UnchangedSlots
  <1>2. TableInv'
    BY WriteDataInv DEF MapInv
  <1>3. /\ sweep.phase = "none" /\ CallOk(pc[t], loc[t]) /\ Holds(t)
        /\ i \in 2 .. capacity - 1 /\ i \notin Published /\ sweep.todo = {}
    <2>1. sweep.phase = "none" /\ CallOk(pc[t], loc[t])
      BY <1>1, Knows
    <2>2. Holds(t)
      BY <1>1 DEF Holds, MapInv, TableInv, Places
    <2>3. QED
      BY <2>1, <2>2, MapFacts DEF MapInv, BitmapExact
  <1>4. data'[i] = loc[t].key /\ \A j \in Published : data'[j] = data[j]
    BY <1>1, <1>3, MapFacts
  <1>5. ASSUME NEW u \in Threads, u # t, Holds(u)
        PROVE  data'[loc[u].index] = data[loc[u].index]
    <2>1. loc[u].index # i /\ loc[u].index \in Buckets
      BY <1>3, <1>5, MapFacts DEF MapInv, TableInv, BucketsOwnedOnce
    <2>2. QED
      BY <1>1, <2>1, MapFacts
  <1>6. \A u \in Threads : pc'[u] = IF u = t THEN "publish" ELSE pc[u]
    BY <1>1, MapFacts
  <1>7. Occupied' = Occupied /\ Published' = Published /\ Known' = Known
        /\ Known = Published
    BY <1>1, <1>3 DEF Occupied, Published, Known
  <1>8. Calls'
    <2>1. ASSUME NEW u \in Threads PROVE CallOk(pc[u], loc[u])'
      <3>1. CallOk(pc[u], loc[u]) /\ Probes(loc[u]) \in Nat
        BY MapFacts DEF MapInv, Calls, Probes, Locals
      <3>2. Probes(loc[u])' = Probes(loc[u])
        BY <1>1 DEF Probes
      <3>3. pc[u] \in Searching =>
              /\ loc[u].key \in Keys
              /\ loc[u].s = ProbeSlot(loc[u].key, Probes(loc[u]), capacity)
              /\ Passed(loc[u].key, Probes(loc[u]))
              /\ Passed(loc[u].key, Probes(loc[u]))'
        <4> SUFFICES ASSUME pc[u] \in Searching
                     PROVE  /\ loc[u].key \in Keys
                            /\ loc[u].s = ProbeSlot(loc[u].key, Probes(loc[u]), capacity)
                            /\ Passed(loc[u].key, Probes(loc[u]))
                            /\ Passed(loc[u].key, Probes(loc[u]))'
          OBVIOUS
        <4> DEFINE k == loc[u].key
                   n == Probes(loc[u])
        <4>1. /\ k \in Keys /\ n \in Nat /\ Passed(k, n)
              /\ loc[u].s = ProbeSlot(k, n, capacity)
          BY <3>1 DEF CallOk, Searching
        <4>2. \A m \in 0 .. n - 1 : LET e == hashes[ProbeSlot(k, m, capacity)]
                                    IN  e # 0 /\ data'[e] # k
          BY <1>4, <4>1, PassedArePublished DEF Passed
        <4>3. Passed(loc[u].key, Probes(loc[u]))'
          BY <1>1, <3>2, <4>2 DEF Passed
        <4>4. QED
          BY <4>1, <4>3
      <3>4. CASE u = t
        BY <1>1, <1>3, <1>4, <1>6, <3>1, <3>2, <3>3, <3>4 DEF CallOk, Searching
      <3>5. CASE u # t
        <4>1. pc'[u] = pc[u] /\ loc' = loc /\ Published' = Published
              /\ hashes' = hashes /\ capacity' = capacity
          BY <1>1, <1>6, <1>7, <3>5
        <4>2. pc[u] \in {"free", "found"} => data'[loc[u].v] = loc[u].key
          BY <1>4, <3>1 DEF CallOk
        <4>3. (loc[u].index # 0 /\ pc[u] \in {"probe", "publish", "compare", "free"}) =>
                data'[loc[u].index] = loc[u].key
          BY <1>5, <3>1, <3>5 DEF CallOk, Holds
        <4>4. QED
          BY <3>1, <3>2, <3>3, <4>1, <4>2, <4>3 DEF CallOk
      <3>6. QED
        BY <3>4, <3>5
    <2>2. QED
      BY <2>1 DEF Calls
  <1>9. OneIndexEach' /\ Reached'
    <2>1. OneIndexEach'
      BY <1>4, <1>7 DEF MapInv, OneIndexEach
    <2>2. \A s \in Occupied : data'[hashes[s]] = data[hashes[s]]
      BY <1>4, MapFacts
    <2>3. Reached'
      BY <1>1, <1>7, <2>2 DEF MapInv, Reached
    <2>4. QED
      BY <2>1, <2>3
  <1>10. Held' = Held
    <2>1. \A u \in Threads : (Holds(u)' <=> Holds(u)) /\ loc'[u].index = loc[u].index
      BY <1>1, <1>6 DEF Holds
    <2>2. QED
      BY <2>1 DEF Held
  <1>11. BitmapExact'
    BY <1>1, <1>7, <1>10 DEF MapInv, BitmapExact
  <1>12. QED
    BY <1>2, <1>8, <1>9, <1>11 DEF MapInv

\* The entry is one that no other thread has made, and its probes arrive at it.
LEMMA PublishWinsMap ==
  ASSUME MapInv, NEW t \in Threads, PublishWins(t)
  PROVE  MapInv'
  <1> DEFINE i == loc[t].index
             s == loc[t].s
             k == loc[t].key
             n == Probes(loc[t])
             l == [loc[t] EXCEPT !.v = i]
  <1>1. /\ pc[t] = "publish" /\ hashes[s] = 0
        /\ pc' = [pc EXCEPT ![t] = "found"] /\ loc' = [loc EXCEPT ![t] = l]
        /\ hashes' = [hashes EXCEPT ![s] = i]
        /\ UNCHANGED <<capacity, data, used, sweep>>
    BY DEF PublishWins, Goto, UnchangedSlots
  <1>2. TableInv'
    BY PublishWinsInv DEF MapInv
  <1>3. Holds(t) /\ i # 0
    BY <1>1 DEF Holds, MapInv, TableInv, Places
  <1>4. /\ loc[t] \in Locals /\ s \in Buckets
        /\ i \in 2 .. capacity - 1 /\ i \notin Published
        /\ sweep.phase = "none" /\ sweep.todo = {}
    BY <1>1, <1>3, Knows, MapFacts DEF Locals, MapInv, BitmapExact
  <1>5. /\ k \in Keys /\ n \in 0 .. capacity - 3 /\ data[i] = k
        /\ s = ProbeSlot(k, n, capacity) /\ Passed(k, n)
    BY <1>1, <1>3, Knows, HolderFindsEnd DEF CallOk, Searching
  <1>6. \A j \in Published : data[j] # k
    <2>1. \A r \in Occupied : data[hashes[r]] # k
      BY <1>1, NotKnown DEF Searching
    <2>2. QED
      BY <2>1 DEF Published
  <1>7. /\ l.key = k /\ l.s = s /\ l.left = loc[t].left /\ l.index = i /\ l.v = i
    BY <1>4 DEF Locals
  <1> HIDE DEF l, i, s
  <1>8. \A r \in Buckets : hashes'[r] = IF r = s THEN i ELSE hashes[r]
    BY <1>1, MapFacts
  <1>9. Occupied' = Occupied \cup {s} /\ s \notin Occupied /\ Buckets' = Buckets
        /\ DOMAIN hashes' = Buckets
    BY <1>1, <1>3, <1>4, <1>8, MapFacts DEF Occupied, Buckets
  <1>10. /\ Published' = Published \cup {i} /\ Known' = Published \cup {i}
         /\ Known = Published
    <2>1. Published' = Published \cup {i}
      BY <1>4, <1>8, <1>9, MapFacts DEF Published
    <2>2. QED
      BY <1>1, <1>4, <2>1 DEF Known
  <1>11. \A r \in Buckets : hashes[r] # 0 => hashes'[r] = hashes[r]
    BY <1>1, <1>8
  <1>12. ASSUME NEW u \in Threads
         PROVE  /\ pc'[u] = IF u = t THEN "found" ELSE pc[u]
                /\ loc'[u] = IF u = t THEN l ELSE loc[u]
    BY <1>1, MapFacts
  <1>13. Calls'
    <2>1. ASSUME NEW u \in Threads PROVE CallOk(pc[u], loc[u])'
      <3>1. CASE u = t
        <4>1. pc'[u] = "found" /\ loc'[u] = l
          BY <1>12, <3>1
        <4>2. QED
          BY <1>1, <1>5, <1>7, <1>10, <4>1 DEF CallOk, Searching, i
      <3>2. CASE u # t
        <4>1. pc'[u] = pc[u] /\ loc'[u] = loc[u] /\ CallOk(pc[u], loc[u])
              /\ Probes(loc[u])' = Probes(loc[u]) /\ Probes(loc[u]) \in Nat
              /\ loc[u].s \in Buckets
          BY <1>1, <1>12, <3>2, MapFacts DEF MapInv, Calls, Probes, Locals
        <4>2. pc[u] \in Searching =>
                /\ loc[u].s = ProbeSlot(loc[u].key, Probes(loc[u]), capacity)
                /\ Passed(loc[u].key, Probes(loc[u]))'
          <5> SUFFICES ASSUME pc[u] \in Searching
                       PROVE  /\ loc[u].s = ProbeSlot(loc[u].key, Probes(loc[u]), capacity)
                              /\ Passed(loc[u].key, Probes(loc[u]))'
            OBVIOUS
          <5>1. loc[u].key \in Keys /\ Passed(loc[u].key, Probes(loc[u]))
                /\ loc[u].s = ProbeSlot(loc[u].key, Probes(loc[u]), capacity)
            BY <4>1 DEF CallOk, Searching
          <5>2. \A j \in 0 .. Probes(loc[u]) - 1 :
                  LET e == hashes'[ProbeSlot(loc[u].key, j, capacity)]
                  IN  e # 0 /\ data[e] # loc[u].key
            BY <1>11, <4>1, <5>1, PassedArePublished, MapFacts DEF Occupied
          <5>3. Passed(loc[u].key, Probes(loc[u]))'
            BY <1>1, <4>1, <5>2 DEF Passed
          <5>4. QED
            BY <5>1, <5>3
        <4>3. pc[u] = "compare" => loc[u].v # 0 /\ loc[u].v = hashes'[loc[u].s]
          BY <1>11, <4>1 DEF CallOk
        <4>4. QED
          BY <1>1, <1>10, <4>1, <4>2, <4>3 DEF CallOk
      <3>3. QED
        BY <3>1, <3>2
    <2>2. QED
      BY <2>1 DEF Calls
  <1>14. OneIndexEach'
    BY <1>1, <1>5, <1>6, <1>10 DEF MapInv, OneIndexEach, i
  <1>15. Reached'
    <2>1. ASSUME NEW r \in Occupied'
          PROVE  \E j \in 0 .. capacity - 3 :
                   /\ ProbeSlot(data[hashes'[r]], j, capacity) = r
                   /\ \A m \in 0 .. j - 1 :
                        hashes'[ProbeSlot(data[hashes'[r]], m, capacity)] # 0
      <3>1. \A q \in Keys, m \in Nat : ProbeSlot(q, m, capacity) \in Buckets
        BY ProbesWithin
      <3>2. CASE r = s
        <4>1. hashes'[r] = i /\ data[hashes'[r]] = k
          BY <1>4, <1>5, <1>8, <3>2 DEF i, s
        <4>2. \A m \in 0 .. n - 1 : hashes'[ProbeSlot(k, m, capacity)] # 0
          BY <1>5, <1>11, <3>1 DEF Passed
        <4>3. QED
          BY <1>5, <3>2, <4>1, <4>2
      <3>3. CASE r # s
        <4>1. r \in Occupied /\ hashes'[r] = hashes[r] /\ data[hashes[r]] \in Keys
          BY <1>8, <1>9, <3>3, MapFacts
        <4>2. PICK j \in 0 .. capacity - 3 :
                /\ ProbeSlot(data[hashes[r]], j, capacity) = r
                /\ \A m \in 0 .. j - 1 :
                     hashes[ProbeSlot(data[hashes[r]], m, capacity)] # 0
          BY <4>1 DEF MapInv, Reached
        <4>3. \A m \in 0 .. j - 1 :
                hashes'[ProbeSlot(data[hashes[r]], m, capacity)] # 0
          BY <1>11, <3>1, <4>1, <4>2
        <4>4. QED
          BY <4>1, <4>2, <4>3
      <3>4. QED
        BY <3>2, <3>3
    <2>2. QED
      BY <1>1, <2>1 DEF Reached
  <1>16. Held = Held' \cup {i}
    <2>1. ~Holds(t)' /\ Holds(t) /\ loc[t].index = i
      BY <1>3, <1>12 DEF Holds, i
    <2>2. \A u \in Threads \ {t} : /\ Holds(u)' <=> Holds(u)
                                   /\ loc'[u].index = loc[u].index
      BY <1>12 DEF Holds
    <2>3. QED
      BY <2>1, <2>2 DEF Held
  <1>17. BitmapExact'
    BY <1>1, <1>4, <1>10, <1>16 DEF MapInv, BitmapExact
  <1>18. QED
    BY <1>2, <1>13, <1>14, <1>15, <1>17 DEF MapInv

\* The bucket given back was held by this thread alone.
LEMMA FreeBucketMap ==
  ASSUME MapInv, NEW t \in Threads, FreeBucket(t)
  PROVE  MapInv'
  <1> DEFINE i == loc[t].index
  <1>1. /\ pc[t] = "free" /\ pc' = [pc EXCEPT ![t] = "found"]
        /\ used' = used \ {i}
        /\ UNCHANGED <<capacity, hashes, data, loc, sweep>>
    BY DEF FreeBucket, Goto, UnchangedTable
  <1>2. TableInv'
    BY FreeBucketInv DEF MapInv
  <1>3. Holds(t)
    BY <1>1 DEF Holds, MapInv, TableInv, Places
  <1>4. i \in 2 .. capacity - 1 /\ i \notin Published /\ sweep.phase = "none"
        /\ CallOk(pc[t], loc[t])
    BY <1>1, <1>3, Knows, MapFacts
  <1>5. \A u \in Threads \ {t} : Holds(u) => loc[u].index # i
    BY <1>3 DEF MapInv, TableInv, BucketsOwnedOnce
  <1>6. \A u \in Threads : pc'[u] = IF u = t THEN "found" ELSE pc[u]
    BY <1>1, MapFacts
  <1>7. Occupied' = Occupied /\ Published' = Published /\ Known' = Known
    BY <1>1 DEF Occupied, Published, Known
  <1>8. Calls'
    <2>1. CallOk("found", loc[t])
      BY <1>1, <1>4, Knows DEF CallOk, Searching
    <2>2. \A u \in Threads : CallOk(pc'[u], loc[u])
      BY <1>6, <2>1 DEF MapInv, Calls
    <2>3. QED
      BY <1>1, <1>7, <2>2 DEF Calls, CallOk, Passed, Probes
  <1>9. OneIndexEach' /\ Reached'
    BY <1>1, <1>7 DEF MapInv, OneIndexEach, Reached
  <1>10. Held' = Held \ {i}
    <2>1. Holds(t) /\ ~Holds(t)'
      BY <1>3, <1>6 DEF Holds
    <2>2. \A u \in Threads \ {t} : /\ Holds(u)' <=> Holds(u)
                                   /\ loc'[u].index = loc[u].index
      BY <1>1, <1>6 DEF Holds
    <2> HIDE DEF i
    <2>3. QED
      BY <1>5, <2>1, <2>2 DEF Held, i
  <1>11. i # 0 /\ i # 1
    BY <1>4
  <1> HIDE DEF i
  <1>12. BitmapExact'
    BY <1>1, <1>4, <1>7, <1>10, <1>11 DEF MapInv, BitmapExact
  <1>13. QED
    BY <1>2, <1>8, <1>9, <1>12 DEF MapInv

LEMMA InsertStepMap ==
  ASSUME MapInv, NEW t \in Threads, InsertStep(t)
  PROVE  MapInv'
  BY ExhaustedMap, ProbeMap, SeekMap, ReserveBitMap, WriteDataMap, PublishWinsMap,
     PublishLosesMap, CompareEqualMap, CompareOtherMap, FreeBucketMap, ReturnMap
     DEF InsertStep, SeekStep

-----------------------------------------------------------------------------
(***************************************************************************)
(* clear                                                                   *)
(***************************************************************************)
\* While a collector is at work no thread is in a call.
LEMMA IdleMap ==
  ASSUME \A t \in Threads : pc'[t] = "idle"
  PROVE  Calls' /\ Held' = {}
  <1>1. Calls'
    BY DEF Calls, CallOk, Searching
  <1>2. Held' = {}
    BY DEF Held, Holds
  <1>3. QED
    BY <1>1, <1>2

\* The nodes that are kept keep their indices.
LEMMA ClearStartMap ==
  ASSUME MapInv, Clear
  PROVE  MapInv'
  <1>1. PICK except \in SUBSET Published, cap \in {capacity, Resized} :
          ClearStart(except, cap)
    BY DEF Clear
  <1>2. /\ \A t \in Threads : pc[t] = "idle"
        /\ hashes' = [s \in 0 .. cap - 1 |-> 0]
        /\ data' = [i \in 0 .. cap - 1 |-> IF i < capacity THEN data[i] ELSE NoKey]
        /\ sweep' = [phase |-> "rehash", marked |-> except, todo |-> except]
        /\ UNCHANGED <<used, pc, loc>>
    BY <1>1 DEF ClearStart, UnchangedSlots
  <1>3. TableInv'
    BY ClearStartInv DEF MapInv
  <1>4. Calls' /\ Held' = {}
    BY <1>2, IdleMap
  <1>5. Occupied' = {} /\ Published' = {} /\ Known' = except
    BY <1>2 DEF Occupied, Published, Known
  <1>6. \A i \in Published : data'[i] = data[i]
    <2>1. Published \subseteq 0 .. capacity - 1 /\ capacity \in Nat
      BY MapFacts
    <2>2. cap \in Nat /\ capacity <= cap
      BY <1>1, ClearedIsCapacity DEF MapInv
    <2>3. QED
      BY <1>2, <2>1, <2>2
  <1>7. OneIndexEach' /\ Reached'
    BY <1>5, <1>6 DEF MapInv, OneIndexEach, Known, Reached
  <1>8. BitmapExact'
    BY <1>2, <1>4, <1>5 DEF MapInv, BitmapExact
  <1>9. QED
    BY <1>3, <1>4, <1>7, <1>8 DEF MapInv

\* A marked bucket is put where its probes first meet an empty position: there
\* is one, and no equal node before it.
LEMMA ReinsertPlaces ==
  ASSUME MapInv, Reinsert
  PROVE  LET i == Least(sweep.todo) IN
         \E n \in 0 .. capacity - 3 :
           LET at == ProbeSlot(data[i], n, capacity) IN
           /\ hashes[at] = 0
           /\ \A m \in 0 .. n - 1 : hashes[ProbeSlot(data[i], m, capacity)] # 0
           /\ hashes' = [hashes EXCEPT ![at] = i]
  <1> DEFINE i == Least(sweep.todo)
             k == data[i]
             stop == {n \in 0 .. capacity - 3 :
                        LET e == hashes[ProbeSlot(k, n, capacity)]
                        IN  e = 0 \/ data[e] = k}
             at == ProbeSlot(k, Least(stop), capacity)
  <1>1. /\ sweep.phase = "rehash" /\ sweep.todo # {}
        /\ hashes' = [hashes EXCEPT ![at] = IF @ = 0 THEN i ELSE @]
    BY DEF Reinsert
  <1>2. /\ sweep.todo \subseteq sweep.marked /\ 0 \notin sweep.marked
        /\ 1 \notin sweep.marked /\ Published = sweep.marked \ sweep.todo
        /\ sweep.todo \subseteq Buckets /\ capacity \in Nat
        /\ Buckets = 0 .. capacity - 1 /\ capacity \in Capacities
    BY <1>1, MapFacts
       DEF MapInv, TableInv, RehashOfMarked, Types, BitmapExact
  <1>3. i \in sweep.todo
    <2>1. sweep.todo \in SUBSET Nat
      BY <1>2
    <2>2. QED
      BY <1>1, <2>1, LeastIsIn
  <1> HIDE DEF i
  <1>4. i \in 2 .. capacity - 1 /\ i \notin Published /\ i \in Known
    BY <1>2, <1>3 DEF Known
  <1>5. k \in Keys
    BY <1>4 DEF MapInv, OneIndexEach
  <1>6. \A j \in Published : data[j] # k
    BY <1>4 DEF MapInv, OneIndexEach, Known
  <1>7. \A n \in 0 .. capacity - 3 :
          LET e == hashes[ProbeSlot(k, n, capacity)] IN e # 0 => data[e] # k
    <2>1. \A n \in 0 .. capacity - 3 : ProbeSlot(k, n, capacity) \in Buckets
      BY <1>5, ProbesWithin
    <2>2. QED
      BY <1>6, <2>1, MapFacts
  <1> HIDE DEF k
  <1>8. stop # {}
    <2>1. PICK s \in 2 .. capacity - 1 : hashes[s] = 0
      BY <1>4, EmptyPosition
    <2>2. PICK n \in 0 .. capacity - 3 : ProbeSlot(k, n, capacity) = s
      BY <1>2, <1>5, ProbesCover
    <2>3. QED
      BY <2>1, <2>2
  <1> DEFINE n == Least(stop)
  <1>9. n \in stop /\ \A m \in stop : n <= m
    <2>1. stop \in SUBSET Nat
      BY <1>2
    <2> HIDE DEF stop
    <2>2. QED
      BY <1>8, <2>1, LeastIsIn
  <1>10. n \in 0 .. capacity - 3 /\ hashes[at] = 0
    BY <1>7, <1>9
  <1>11. \A m \in 0 .. n - 1 : hashes[ProbeSlot(k, m, capacity)] # 0
    <2>1. \A m \in 0 .. n - 1 : m \in 0 .. capacity - 3 /\ ~(n <= m)
      <3> HIDE DEF n
      <3>1. QED
        BY <1>2, <1>10
    <2>2. QED
      BY <1>9, <2>1
  <1>12. hashes' = [hashes EXCEPT ![at] = i]
    BY <1>1, <1>10
  <1>13. QED
    BY <1>10, <1>11, <1>12 DEF i, k

\* A bucket goes from those to be reinserted to those published.
LEMMA ReinsertKnown ==
  ASSUME MapInv, Reinsert
  PROVE  LET i == Least(sweep.todo)
         IN  Published' = Published \cup {i} /\ Known' = Known
  <1> DEFINE i == Least(sweep.todo)
             k == data[i]
  <1>1. PICK n \in 0 .. capacity - 3 :
          LET at == ProbeSlot(k, n, capacity) IN
          /\ hashes[at] = 0
          /\ hashes' = [hashes EXCEPT ![at] = i]
    BY ReinsertPlaces
  <1>2. /\ sweep.phase = "rehash" /\ sweep.todo # {}
        /\ sweep' = [sweep EXCEPT !.todo = @ \ {i}]
        /\ UNCHANGED <<capacity, data, used, pc, loc>>
    BY DEF Reinsert, UnchangedSlots
  <1>3. /\ sweep.todo \subseteq sweep.marked /\ 0 \notin sweep.marked
        /\ Published = sweep.marked \ sweep.todo
        /\ sweep.todo \subseteq Buckets
        /\ Buckets = 0 .. capacity - 1 /\ capacity \in Capacities /\ capacity \in Nat
        /\ \A t \in Threads : pc[t] = "idle"
    BY <1>2, MapFacts
       DEF MapInv, TableInv, RehashOfMarked, Types, BitmapExact
  <1>4. i \in sweep.todo
    <2>1. sweep.todo \in SUBSET Nat
      BY <1>3
    <2>2. QED
      BY <1>2, <2>1, LeastIsIn
  <1>5. sweep'.phase = "rehash" /\ sweep'.marked = sweep.marked
        /\ sweep'.todo = sweep.todo \ {i}
    BY <1>2 DEF MapInv, TableInv, Types
  <1> DEFINE at == ProbeSlot(k, n, capacity)
  <1> HIDE DEF i
  <1>6. k \in Keys /\ i # 0 /\ i \notin Published
    BY <1>3, <1>4 DEF Known, MapInv, OneIndexEach
  <1>7. \A q \in Keys, m \in Nat : ProbeSlot(q, m, capacity) \in Buckets
    BY ProbesWithin
  <1> HIDE DEF k
  <1>8. at \in Buckets /\ hashes[at] = 0 /\ hashes' = [hashes EXCEPT ![at] = i]
    BY <1>1, <1>6, <1>7
  <1> HIDE DEF at
  <1>9. \A r \in Buckets : hashes'[r] = IF r = at THEN i ELSE hashes[r]
    BY <1>8, MapFacts
  <1>10. Occupied' = Occupied \cup {at} /\ at \notin Occupied
         /\ DOMAIN hashes' = Buckets
    BY <1>6, <1>8, <1>9, MapFacts DEF Occupied
  <1>11. Published' = Published \cup {i} /\ Known' = Known
    <2>1. Published' = Published \cup {i}
      BY <1>8, <1>9, <1>10, MapFacts DEF Published
    <2>2. QED
      BY <1>4, <1>5, <2>1 DEF Known
  <1>12. QED
    BY <1>11 DEF i

LEMMA ReinsertMap ==
  ASSUME MapInv, Reinsert
  PROVE  MapInv'
  <1> DEFINE i == Least(sweep.todo)
             k == data[i]
  <1>1. PICK n \in 0 .. capacity - 3 :
          LET at == ProbeSlot(k, n, capacity) IN
          /\ hashes[at] = 0
          /\ \A m \in 0 .. n - 1 : hashes[ProbeSlot(k, m, capacity)] # 0
          /\ hashes' = [hashes EXCEPT ![at] = i]
    BY ReinsertPlaces
  <1>2. /\ sweep.phase = "rehash" /\ sweep.todo # {}
        /\ sweep' = [sweep EXCEPT !.todo = @ \ {i}]
        /\ UNCHANGED <<capacity, data, used, pc, loc>>
    BY DEF Reinsert, UnchangedSlots
  <1>3. TableInv'
    BY ReinsertInv DEF MapInv
  <1>4. /\ sweep.todo \subseteq sweep.marked /\ 0 \notin sweep.marked
        /\ Published = sweep.marked \ sweep.todo
        /\ sweep.todo \subseteq Buckets
        /\ Buckets = 0 .. capacity - 1 /\ capacity \in Capacities /\ capacity \in Nat
        /\ \A t \in Threads : pc[t] = "idle"
    BY <1>2, MapFacts
       DEF MapInv, TableInv, RehashOfMarked, Types, BitmapExact
  <1>5. i \in sweep.todo
    <2>1. sweep.todo \in SUBSET Nat
      BY <1>4
    <2>2. QED
      BY <1>2, <2>1, LeastIsIn
  <1>6. sweep'.phase = "rehash" /\ sweep'.marked = sweep.marked
        /\ sweep'.todo = sweep.todo \ {i}
    BY <1>2 DEF MapInv, TableInv, Types
  <1> DEFINE at == ProbeSlot(k, n, capacity)
  <1> HIDE DEF i
  <1>7. k \in Keys /\ i # 0 /\ i \notin Published
    BY <1>4, <1>5 DEF Known, MapInv, OneIndexEach
  <1>8. \A q \in Keys, m \in Nat : ProbeSlot(q, m, capacity) \in Buckets
    BY ProbesWithin
  <1> HIDE DEF k
  <1>9. at \in Buckets /\ hashes[at] = 0 /\ hashes' = [hashes EXCEPT ![at] = i]
    BY <1>1, <1>7, <1>8
  <1>10. \A m \in 0 .. n - 1 : hashes[ProbeSlot(k, m, capacity)] # 0
    BY <1>1
  <1> HIDE DEF at
  <1>11. /\ \A r \in Buckets : hashes'[r] = IF r = at THEN i ELSE hashes[r]
         /\ \A r \in Buckets : hashes[r] # 0 => hashes'[r] # 0
    BY <1>7, <1>9, MapFacts
  <1>12. Occupied' = Occupied \cup {at} /\ at \notin Occupied
         /\ DOMAIN hashes' = Buckets
    BY <1>7, <1>9, <1>11, MapFacts DEF Occupied
  <1>13. Published' = Published \cup {i} /\ Known' = Known
    BY ReinsertKnown DEF i
  <1>14. Calls' /\ Held' = {}
    BY <1>2, <1>4, IdleMap
  <1>15. OneIndexEach'
    BY <1>2, <1>13 DEF MapInv, OneIndexEach
  <1>16. Reached'
    <2>1. ASSUME NEW r \in Occupied'
          PROVE  \E j \in 0 .. capacity - 3 :
                   /\ ProbeSlot(data[hashes'[r]], j, capacity) = r
                   /\ \A m \in 0 .. j - 1 :
                        hashes'[ProbeSlot(data[hashes'[r]], m, capacity)] # 0
      <3>1. CASE r = at
        <4>1. hashes'[r] = i /\ data[hashes'[r]] = k
          BY <1>9, <1>11, <3>1 DEF k
        <4>2. \A m \in 0 .. n - 1 : hashes'[ProbeSlot(k, m, capacity)] # 0
          BY <1>7, <1>8, <1>10, <1>11
        <4>3. QED
          BY <3>1, <4>1, <4>2 DEF at
      <3>2. CASE r # at
        <4>1. r \in Occupied /\ hashes'[r] = hashes[r] /\ data[hashes[r]] \in Keys
          BY <1>11, <1>12, <3>2, MapFacts
        <4>2. PICK j \in 0 .. capacity - 3 :
                /\ ProbeSlot(data[hashes[r]], j, capacity) = r
                /\ \A m \in 0 .. j - 1 :
                     hashes[ProbeSlot(data[hashes[r]], m, capacity)] # 0
          BY <4>1 DEF MapInv, Reached
        <4>3. \A m \in 0 .. j - 1 :
                hashes'[ProbeSlot(data[hashes[r]], m, capacity)] # 0
          BY <1>8, <1>11, <4>1, <4>2
        <4>4. QED
          BY <4>1, <4>2, <4>3
      <3>3. QED
        BY <3>1, <3>2
    <2>2. QED
      BY <1>2, <2>1 DEF Reached
  <1>17. BitmapExact'
    <2>1. 1 \notin Published' \cup sweep'.marked \cup Held'
      BY <1>4, <1>5, <1>6, <1>13, <1>14 DEF MapInv, BitmapExact
    <2>2. Published' = sweep'.marked \ sweep'.todo
      BY <1>4, <1>5, <1>6, <1>13
    <2>3. QED
      BY <1>6, <2>1, <2>2 DEF BitmapExact
  <1>18. QED
    BY <1>3, <1>14, <1>15, <1>16, <1>17 DEF MapInv

LEMMA ClearSlotsMap ==
  ASSUME MapInv, ClearSlots
  PROVE  MapInv'
  <1>1. /\ sweep.phase = "rehash" /\ sweep.todo = {}
        /\ used' = {0, 1} \cup sweep.marked
        /\ sweep' = NoSweep
        /\ UNCHANGED <<capacity, hashes, data, pc, loc>>
    BY DEF ClearSlots, UnchangedTable
  <1>2. TableInv'
    BY ClearSlotsInv DEF MapInv
  <1>3. \A t \in Threads : pc[t] = "idle"
    BY <1>1 DEF MapInv, TableInv, RehashOfMarked
  <1>4. Published = sweep.marked /\ 1 \notin sweep.marked
    BY <1>1 DEF MapInv, BitmapExact
  <1>5. Calls' /\ Held' = {}
    BY <1>1, <1>3, IdleMap
  <1>6. Occupied' = Occupied /\ Published' = Published /\ Known' = Known
    BY <1>1 DEF Occupied, Published, Known, NoSweep
  <1>7. OneIndexEach' /\ Reached'
    BY <1>1, <1>6 DEF MapInv, OneIndexEach, Reached
  <1>8. BitmapExact'
    BY <1>1, <1>4, <1>5, <1>6 DEF BitmapExact, NoSweep
  <1>9. QED
    BY <1>2, <1>5, <1>7, <1>8 DEF MapInv

LEMMA StutterMap ==
  ASSUME MapInv, UNCHANGED vars
  PROVE  MapInv'
  <1>1. TableInv'
    BY StutterInv DEF MapInv
  <1>2. Occupied' = Occupied /\ Published' = Published /\ Known' = Known
        /\ Held' = Held
    BY DEF vars, Occupied, Published, Known, Held, Holds
  <1>3. Calls' /\ OneIndexEach' /\ Reached' /\ BitmapExact'
    BY <1>2 DEF vars, MapInv, Calls, CallOk, Passed, Probes, OneIndexEach, Reached,
                BitmapExact
  <1>4. QED
    BY <1>1, <1>3 DEF MapInv

LEMMA StepMap ==
  ASSUME MapInv, [Next]_vars
  PROVE  MapInv'
  <1>1. ASSUME NEW t \in Threads, NEW k \in Keys, Begin(t, k) PROVE MapInv'
    BY <1>1, BeginMap
  <1>2. ASSUME NEW t \in Threads, InsertStep(t) PROVE MapInv'
    BY <1>2, InsertStepMap
  <1>3. CASE Clear
    BY <1>3, ClearStartMap
  <1>4. CASE Reinsert
    BY <1>4, ReinsertMap
  <1>5. CASE ClearSlots
    BY <1>5, ClearSlotsMap
  <1>6. CASE UNCHANGED vars
    BY <1>6, StutterMap
  <1>7. QED
    BY <1>1, <1>2, <1>3, <1>4, <1>5, <1>6 DEF Next

\* Every reachable state satisfies the inductive invariant.
THEOREM MapInvHolds == Spec => []MapInv
  BY InitMap, StepMap, PTL DEF Spec

\* Every published node is met by its probes before an empty position, also
\* after collections that rehash a part of the table and change the capacity.
THEOREM NodesFindable == Spec => []Findable
  <1>1. MapInv => Reached
    BY DEF MapInv
  <1>2. Reached /\ TypeOK => Findable
    BY DEF Reached, Findable
  <1>3. QED
    BY <1>1, <1>2, MapInvHolds, TypesHold, PTL

\* Between calls the bitmap is exactly the published buckets and the terminals:
\* neither a lost race nor a failed insertion leaks a bucket.
THEOREM NoLeaks == Spec => []NoBucketLeaks
  <1>1. MapInv => NoBucketLeaks
    <2> SUFFICES ASSUME MapInv, sweep.phase = "none", \A t \in Threads : pc[t] = "idle"
                 PROVE  used = {0, 1} \cup Published
      BY DEF NoBucketLeaks
    <2>1. Held = {}
      BY DEF Held, Holds
    <2>2. QED
      BY <2>1 DEF MapInv, BitmapExact
  <1>2. QED
    BY <1>1, MapInvHolds, PTL

-----------------------------------------------------------------------------
(***************************************************************************)
(* The refinement                                                          *)
(***************************************************************************)
Interned == [k \in Keys |-> IndexOf(k)]
Called   == [t \in Threads |-> CallOf(t)]

\* The indices of node k: none or one.
At(k) == {i \in Known : data[i] = k}

\* CallOf, of a place and locals.
CallAt(p, l) ==
  CASE p = "idle"  -> [state |-> "none"]
    [] p = "found" -> [state |-> "answered", key |-> l.key, index |-> l.v]
    [] p = "full"  -> [state |-> "failed", key |-> l.key]
    [] OTHER       -> [state |-> "pending", key |-> l.key]

LEMMA LeastOfOne ==
  ASSUME NEW i \in Nat
  PROVE  Least({i}) = i
  BY LeastIsIn

LEMMA IndexOfAt ==
  ASSUME NEW k
  PROVE  /\ IndexOf(k) = IF At(k) = {} THEN 0 ELSE Least(At(k))
         /\ IndexOf(k)' = IF At(k)' = {} THEN 0 ELSE Least(At(k)')
  BY DEF IndexOf, At, Known

\* The table holds an index of each of its nodes, and 0 for others.
LEMMA IndexIs ==
  ASSUME MapInv, NEW k \in Keys
  PROVE  /\ \A i \in Known : data[i] = k => IndexOf(k) = i /\ At(k) = {i}
         /\ (\A i \in Known : data[i] # k) => IndexOf(k) = 0 /\ At(k) = {}
         /\ IndexOf(k) # 0 => IndexOf(k) \in Known /\ data[IndexOf(k)] = k
  <1>1. Known \subseteq Nat
    BY MapFacts DEF Known, MapInv, TableInv, Types, Buckets
  <1>2. ASSUME NEW i \in Known, data[i] = k PROVE IndexOf(k) = i /\ At(k) = {i}
    <2>1. At(k) = {i}
      BY <1>2 DEF At, MapInv, OneIndexEach
    <2>2. QED
      BY <1>1, <2>1, IndexOfAt, LeastOfOne
  <1>3. ASSUME \A i \in Known : data[i] # k PROVE IndexOf(k) = 0 /\ At(k) = {}
    BY <1>3, IndexOfAt DEF At
  <1>4. QED
    BY <1>2, <1>3

LEMMA SameInterned ==
  ASSUME \A k \in Keys : At(k)' = At(k)
  PROVE  Interned' = Interned
  <1>1. \A k \in Keys : IndexOf(k)' = IndexOf(k)
    BY IndexOfAt
  <1>2. QED
    BY <1>1 DEF Interned

\* A step of t changes its own call only.
LEMMA CallStep ==
  ASSUME MapInv, NEW t \in Threads, NEW p, NEW l,
         pc' = [pc EXCEPT ![t] = p], loc' = [loc EXCEPT ![t] = l]
  PROVE  /\ Called' = [Called EXCEPT ![t] = CallAt(p, l)]
         /\ Called[t] = CallAt(pc[t], loc[t])
  <1>1. ASSUME NEW u \in Threads
        PROVE  /\ pc'[u] = IF u = t THEN p ELSE pc[u]
               /\ loc'[u] = IF u = t THEN l ELSE loc[u]
    BY MapFacts
  <1>2. \A u \in Threads : /\ CallOf(u)' = IF u = t THEN CallAt(p, l) ELSE CallOf(u)
                           /\ CallOf(u) = CallAt(pc[u], loc[u])
    BY <1>1 DEF CallOf, CallAt
  <1>3. QED
    BY <1>2 DEF Called

Waiting == Pcs \ {"idle", "found", "full"}

\* What a call is, place by place.
LEMMA CallsAre ==
  ASSUME NEW p, NEW l
  PROVE  /\ p = "idle" => CallAt(p, l) = Map!None
         /\ p = "found" => CallAt(p, l) = Map!Answer(l.key, l.v)
         /\ p = "full" => CallAt(p, l) = Map!Failed(l.key)
         /\ p \in Waiting => CallAt(p, l) = Map!Pending(l.key)
  BY DEF CallAt, Waiting, Pcs, Map!None, Map!Answer, Map!Failed, Map!Pending

\* A step from waiting to waiting for the same node.
LEMMA WaitingStep ==
  ASSUME MapInv, NEW t \in Threads, NEW p \in Waiting, NEW l,
         pc[t] \in Waiting, l.key = loc[t].key,
         pc' = [pc EXCEPT ![t] = p], loc' = [loc EXCEPT ![t] = l],
         \A k \in Keys : At(k)' = At(k)
  PROVE  UNCHANGED Map!vars
  <1>1. Interned' = Interned
    BY SameInterned
  <1>2. /\ Called' = [Called EXCEPT ![t] = CallAt(p, l)]
        /\ Called[t] = CallAt(pc[t], loc[t])
    BY CallStep
  <1>3. CallAt(p, l) = Map!Pending(l.key)
        /\ CallAt(pc[t], loc[t]) = Map!Pending(loc[t].key)
    BY CallsAre
  <1>4. Called' = Called
    BY <1>2, <1>3 DEF Called
  <1>5. QED
    BY <1>1, <1>4 DEF Map!vars, Interned, Called

\* The table is the same.
LEMMA SameTable ==
  ASSUME UNCHANGED <<hashes, data, sweep>>
  PROVE  \A k : At(k)' = At(k)
  BY DEF At, Known, Published, Occupied

LEMMA WaitingSteps ==
  ASSUME MapInv, NEW t \in Threads,
         \/ Probe(t) \/ (SeekStep(t) /\ ~NoRegionLeft(t)) \/ ReserveBit(t)
         \/ WriteData(t) \/ PublishLoses(t) \/ CompareOther(t)
         \/ (CompareEqual(t) /\ loc[t].index # 0)
  PROVE  UNCHANGED Map!vars
  <1> USE DEF Waiting, Pcs
  <1>0. loc[t] \in Locals /\ loc = [loc EXCEPT ![t] = loc[t]]
    BY MapFacts
  <1>1. CASE Probe(t)
    <2> DEFINE l == [loc[t] EXCEPT !.v = hashes[loc[t].s]]
    <2>1. /\ \E p \in Waiting : pc' = [pc EXCEPT ![t] = p]
          /\ pc[t] \in Waiting /\ loc' = [loc EXCEPT ![t] = l]
          /\ UNCHANGED <<hashes, data, sweep>>
      BY <1>1 DEF Probe, Goto, UnchangedTable
    <2>2. l.key = loc[t].key
      BY <1>0 DEF Locals
    <2> HIDE DEF l
    <2>3. QED
      BY <2>1, <2>2, SameTable, WaitingStep
  <1>2. CASE SeekStep(t) /\ ~NoRegionLeft(t)
    <2>1. UNCHANGED <<hashes, data, sweep>> /\ pc[t] \in Waiting
      BY <1>2, SeekLocals
    <2>2. PICK l \in Locals : loc' = [loc EXCEPT ![t] = l] /\ l.key = loc[t].key
      BY <1>2, SeekLocals
    <2>3. PICK p \in Waiting : pc' = [pc EXCEPT ![t] = p]
      BY <1>2 DEF SeekStep, LoadRegion, WordIsFull, LoadForClaim, ClaimRegion,
                  AlreadyClaimed, SwitchRegion, Goto
    <2>4. QED
      BY <2>1, <2>2, <2>3, SameTable, WaitingStep
  <1>3. CASE ReserveBit(t)
    <2> DEFINE i == Least(WordBits(loc[t].region, loc[t].cursor) \ used)
               l == [loc[t] EXCEPT !.index = i, !.region = 0, !.cursor = 0]
    <2>1. /\ pc' = [pc EXCEPT ![t] = "write"]
          /\ pc[t] \in Waiting /\ loc' = [loc EXCEPT ![t] = l]
          /\ UNCHANGED <<hashes, data, sweep>>
      BY <1>3 DEF ReserveBit, Goto, UnchangedTable
    <2> HIDE DEF i
    <2>2. l.key = loc[t].key
      BY <1>0 DEF Locals
    <2> HIDE DEF l
    <2>3. QED
      BY <2>1, <2>2, SameTable, WaitingStep
  <1>4. CASE WriteData(t)
    <2>1. /\ pc[t] = "write" /\ pc' = [pc EXCEPT ![t] = "publish"]
          /\ data' = [data EXCEPT ![loc[t].index] = loc[t].key]
          /\ UNCHANGED <<hashes, loc, sweep>>
      BY <1>4 DEF WriteData, Goto, UnchangedSlots
    <2>2. loc[t].index \notin Published /\ Known = Published
      <3>1. Holds(t) /\ sweep.phase = "none"
        BY <2>1, Knows DEF Holds, MapInv, TableInv, Places
      <3>2. QED
        BY <3>1, MapFacts DEF MapInv, BitmapExact, Known
    <2>3. Known' = Known /\ \A i \in Known : data'[i] = data[i]
      BY <2>1, <2>2, MapFacts DEF Known, Published, Occupied
    <2>4. \A k : At(k)' = At(k)
      BY <2>3 DEF At
    <2>5. QED
      BY <1>0, <2>1, <2>4, WaitingStep
  <1>5. CASE PublishLoses(t)
    <2> DEFINE l == [loc[t] EXCEPT !.v = hashes[loc[t].s]]
    <2>1. /\ pc' = [pc EXCEPT ![t] = "compare"]
          /\ pc[t] \in Waiting /\ loc' = [loc EXCEPT ![t] = l]
          /\ UNCHANGED <<hashes, data, sweep>>
      BY <1>5 DEF PublishLoses, Goto, UnchangedTable
    <2>2. l.key = loc[t].key
      BY <1>0 DEF Locals
    <2> HIDE DEF l
    <2>3. QED
      BY <2>1, <2>2, SameTable, WaitingStep
  <1>6. CASE CompareOther(t)
    <2> DEFINE l == [loc[t] EXCEPT !.s = NextSlot(@, capacity), !.left = @ - 1,
                                   !.v = 0]
    <2>1. /\ pc' = [pc EXCEPT ![t] = "probe"]
          /\ pc[t] \in Waiting /\ loc' = [loc EXCEPT ![t] = l]
          /\ UNCHANGED <<hashes, data, sweep>>
      BY <1>6 DEF CompareOther, Goto, UnchangedTable
    <2>2. l.key = loc[t].key
      BY <1>0 DEF Locals
    <2> HIDE DEF l
    <2>3. QED
      BY <2>1, <2>2, SameTable, WaitingStep
  <1>7. CASE CompareEqual(t) /\ loc[t].index # 0
    <2>1. /\ pc' = [pc EXCEPT ![t] = "free"]
          /\ pc[t] \in Waiting /\ UNCHANGED <<hashes, data, sweep, loc>>
      BY <1>7 DEF CompareEqual, Goto, UnchangedTable
    <2>2. QED
      BY <1>0, <2>1, SameTable, WaitingStep
  <1>8. QED
    BY <1>1, <1>2, <1>3, <1>4, <1>5, <1>6, <1>7

\* A call begins: its node is asked for.
LEMMA BeginAsks ==
  ASSUME MapInv, NEW t \in Threads, NEW k \in Keys, Begin(t, k)
  PROVE  Map!Ask(t, k)
  <1> DEFINE l == [NoLoc EXCEPT !.key = k, !.s = BucketStart(k, capacity),
                                !.left = capacity]
  <1>1. /\ pc[t] = "idle" /\ pc' = [pc EXCEPT ![t] = "probe"]
        /\ loc' = [loc EXCEPT ![t] = l] /\ UNCHANGED <<hashes, data, sweep>>
    BY DEF Begin, Goto, UnchangedTable
  <1>2. l.key = k
    BY DEF NoLoc
  <1> HIDE DEF l
  <1>3. /\ Called' = [Called EXCEPT ![t] = CallAt("probe", l)]
        /\ Called[t] = CallAt(pc[t], loc[t])
    BY <1>1, CallStep
  <1>4. CallAt("probe", l) = Map!Pending(k) /\ CallAt(pc[t], loc[t]) = Map!None
    BY <1>1, <1>2, CallsAre DEF Waiting, Pcs
  <1>5. Interned' = Interned
    BY <1>1, SameTable, SameInterned
  <1>6. QED
    BY <1>3, <1>4, <1>5 DEF Map!Ask, Interned, Called

\* No position or no bucket is left: the call fails.
LEMMA FullFails ==
  ASSUME MapInv, NEW t \in Threads, Exhausted(t) \/ NoRegionLeft(t)
  PROVE  Map!Fail(t, loc[t].key) /\ loc[t].key \in Keys
  <1>1. /\ pc[t] \in {"probe", "claim"} /\ pc' = [pc EXCEPT ![t] = "full"]
        /\ UNCHANGED <<hashes, data, sweep, loc>>
    BY DEF Exhausted, NoRegionLeft, Goto, UnchangedTable
  <1>2. loc' = [loc EXCEPT ![t] = loc[t]] /\ loc[t].key \in Keys
    BY <1>1, Knows
  <1>3. /\ Called' = [Called EXCEPT ![t] = CallAt("full", loc[t])]
        /\ Called[t] = CallAt(pc[t], loc[t])
    BY <1>1, <1>2, CallStep
  <1>4. /\ CallAt("full", loc[t]) = Map!Failed(loc[t].key)
        /\ CallAt(pc[t], loc[t]) = Map!Pending(loc[t].key)
    BY <1>1, CallsAre DEF Waiting, Pcs
  <1>5. Interned' = Interned
    BY <1>1, SameTable, SameInterned
  <1>6. QED
    BY <1>2, <1>3, <1>4, <1>5 DEF Map!Fail, Interned, Called

\* The node was there: the call is answered with its index, as soon as the
\* bucket reserved in vain is given back.
LEMMA EqualFinds ==
  ASSUME MapInv, NEW t \in Threads,
         FreeBucket(t) \/ (CompareEqual(t) /\ loc[t].index = 0)
  PROVE  Map!Find(t, loc[t].key) /\ loc[t].key \in Keys
  <1>1. /\ pc[t] \in {"free", "compare"} /\ pc' = [pc EXCEPT ![t] = "found"]
        /\ UNCHANGED <<hashes, data, sweep, loc>>
    BY DEF FreeBucket, CompareEqual, Goto, UnchangedTable
  <1>2. loc' = [loc EXCEPT ![t] = loc[t]] /\ loc[t].key \in Keys
    BY <1>1, Knows
  <1>3. loc[t].v \in Published /\ data[loc[t].v] = loc[t].key
    <2>1. CASE FreeBucket(t)
      BY <2>1, Knows DEF FreeBucket, Goto, CallOk
    <2>2. CASE CompareEqual(t)
      BY <2>2, MetIsPublished DEF CompareEqual, Goto
    <2>3. QED
      BY <2>1, <2>2
  <1>4. IndexOf(loc[t].key) = loc[t].v /\ loc[t].v # 0
    <2>1. loc[t].v \in Known
      BY <1>3 DEF Known
    <2>2. 0 \notin Published
      BY DEF Published, Occupied
    <2>3. QED
      BY <1>2, <1>3, <2>1, <2>2, IndexIs
  <1>5. /\ Called' = [Called EXCEPT ![t] = CallAt("found", loc[t])]
        /\ Called[t] = CallAt(pc[t], loc[t])
    BY <1>1, <1>2, CallStep
  <1>6. /\ CallAt("found", loc[t]) = Map!Answer(loc[t].key, loc[t].v)
        /\ CallAt(pc[t], loc[t]) = Map!Pending(loc[t].key)
    BY <1>1, CallsAre DEF Waiting, Pcs
  <1>7. Interned' = Interned /\ Interned[loc[t].key] = loc[t].v
    BY <1>1, <1>2, <1>4, SameTable, SameInterned DEF Interned
  <1>8. QED
    BY <1>2, <1>4, <1>5, <1>6, <1>7 DEF Map!Find, Interned, Called

\* The node was not there, and the index is no other node's.
LEMMA PublishCreates ==
  ASSUME MapInv, NEW t \in Threads, PublishWins(t)
  PROVE  /\ Map!Create(t, loc[t].key, loc[t].index)
         /\ loc[t].key \in Keys /\ loc[t].index \in 2 .. MaxSize - 1
  <1> DEFINE i == loc[t].index
             k == loc[t].key
             l == [loc[t] EXCEPT !.v = i]
  <1>1. /\ pc[t] = "publish" /\ hashes[loc[t].s] = 0
        /\ pc' = [pc EXCEPT ![t] = "found"] /\ loc' = [loc EXCEPT ![t] = l]
        /\ hashes' = [hashes EXCEPT ![loc[t].s] = i]
        /\ UNCHANGED <<data, sweep>>
    BY DEF PublishWins, Goto, UnchangedSlots
  <1>2. /\ Holds(t) /\ loc[t] \in Locals /\ k \in Keys
        /\ i \in 2 .. capacity - 1 /\ i \notin Published
        /\ data[i] = k /\ Known = Published /\ loc[t].s \in Buckets
    <2>1. Holds(t) /\ i # 0
      BY <1>1 DEF Holds, MapInv, TableInv, Places
    <2>2. sweep.phase = "none" /\ data[i] = k /\ k \in Keys
      BY <1>1, <2>1, Knows DEF CallOk
    <2>3. QED
      BY <2>1, <2>2, MapFacts DEF MapInv, BitmapExact, Known, Locals
  <1>3. i \in 2 .. MaxSize - 1
    <2>1. capacity \in Nat /\ capacity <= MaxSize /\ MaxSize \in Nat
      BY MapFacts, TableAssumption DEF MapInv, TableInv, Types
    <2>2. QED
      BY <1>2, <2>1
  <1>4. l.key = k /\ l.v = i
    BY <1>2 DEF Locals
  <1>5. \A j \in Known : data[j] # k
    <2>1. \A s \in Occupied : data[hashes[s]] # k
      BY <1>1, NotKnown DEF Searching
    <2>2. QED
      BY <1>2, <2>1 DEF Published
  <1> HIDE DEF l, i
  <1>6. Published' = Published \cup {i}
    <2>1. hashes' \in [Buckets -> Buckets] /\ i # 0
      BY <1>1, <1>2, MapFacts
    <2>2. \A r \in Buckets : hashes'[r] = IF r = loc[t].s THEN i ELSE hashes[r]
      BY <1>1, MapFacts
    <2>3. Occupied' = Occupied \cup {loc[t].s} /\ loc[t].s \notin Occupied
          /\ Occupied \subseteq Buckets
      BY <1>1, <1>2, <2>1, <2>2, MapFacts DEF Occupied
    <2>4. QED
      BY <1>2, <2>2, <2>3 DEF Published
  <1>7. Known' = Known \cup {i}
    BY <1>1, <1>2, <1>6 DEF Known
  <1>8. ASSUME NEW q \in Keys
        PROVE  IndexOf(q)' = IF q = k THEN i ELSE IndexOf(q)
    <2>1. CASE q = k
      <3>1. At(q)' = {i}
        BY <1>1, <1>2, <1>5, <1>7, <2>1 DEF At
      <3>2. i \in Nat
        BY <1>2
      <3>3. QED
        BY <2>1, <3>1, <3>2, IndexOfAt, LeastOfOne
    <2>2. CASE q # k
      <3>1. At(q)' = At(q)
        BY <1>1, <1>2, <1>7, <2>2 DEF At
      <3>2. QED
        BY <2>2, <3>1, IndexOfAt
    <2>3. QED
      BY <2>1, <2>2
  <1>9. Interned' = [Interned EXCEPT ![k] = i] /\ Interned[k] = 0
    BY <1>2, <1>5, <1>8, IndexIs DEF Interned
  <1>10. \A q \in Keys : Interned[q] # i
    <2>1. i # 0 /\ i \notin Known
      BY <1>2
    <2>2. QED
      BY <2>1, IndexIs DEF Interned
  <1>11. /\ Called' = [Called EXCEPT ![t] = CallAt("found", l)]
         /\ Called[t] = CallAt(pc[t], loc[t])
    BY <1>1, CallStep
  <1>12. /\ CallAt("found", l) = Map!Answer(k, i)
         /\ CallAt(pc[t], loc[t]) = Map!Pending(k)
    BY <1>1, <1>4, CallsAre DEF Waiting, Pcs
  <1>13. Map!Create(t, k, i)
    BY <1>9, <1>10, <1>11, <1>12 DEF Map!Create, Interned, Called
  <1>14. QED
    BY <1>2, <1>3, <1>13 DEF i

LEMMA ReturnReturns ==
  ASSUME MapInv, NEW t \in Threads, Return(t)
  PROVE  Map!Return(t)
  <1>1. /\ pc[t] \in {"found", "full"} /\ pc' = [pc EXCEPT ![t] = "idle"]
        /\ loc' = [loc EXCEPT ![t] = NoLoc] /\ UNCHANGED <<hashes, data, sweep>>
    BY DEF Return, UnchangedTable
  <1>2. /\ Called' = [Called EXCEPT ![t] = CallAt("idle", NoLoc)]
        /\ Called[t] = CallAt(pc[t], loc[t])
    BY <1>1, CallStep
  <1>3. CallAt("idle", NoLoc) = Map!None
        /\ CallAt(pc[t], loc[t]).state \in {"answered", "failed"}
    BY <1>1 DEF CallAt, Map!None
  <1>4. Interned' = Interned
    BY <1>1, SameTable, SameInterned
  <1>5. QED
    BY <1>2, <1>3, <1>4 DEF Map!Return, Interned, Called

\* What is kept keeps its index; the rest is forgotten.
LEMMA ClearForgets ==
  ASSUME MapInv, Clear
  PROVE  \E keep \in SUBSET Keys : Map!Forget(keep)
  <1>1. PICK except \in SUBSET Published, cap \in {capacity, Resized} :
          ClearStart(except, cap)
    BY DEF Clear
  <1>2. /\ sweep.phase = "none" /\ \A t \in Threads : pc[t] = "idle"
        /\ hashes' = [s \in 0 .. cap - 1 |-> 0]
        /\ data' = [i \in 0 .. cap - 1 |-> IF i < capacity THEN data[i] ELSE NoKey]
        /\ sweep' = [phase |-> "rehash", marked |-> except, todo |-> except]
        /\ UNCHANGED <<pc, loc>>
    BY <1>1 DEF ClearStart
  <1>3. Known' = except /\ Known = Published
    BY <1>2 DEF Known, Occupied, Published, MapInv, BitmapExact
  <1>4. \A i \in except : data'[i] = data[i]
    <2>1. Published \subseteq 0 .. capacity - 1 /\ capacity \in Nat
      BY MapFacts
    <2>2. cap \in Nat /\ capacity <= cap
      BY <1>1, ClearedIsCapacity DEF MapInv
    <2>3. QED
      BY <1>2, <2>1, <2>2
  <1> DEFINE keep == {k \in Keys : IndexOf(k) \in except}
  <1>5. ASSUME NEW k \in Keys
        PROVE  IndexOf(k)' = IF k \in keep THEN IndexOf(k) ELSE 0
    <2>1. CASE k \in keep
      <3>1. IndexOf(k) \in Known /\ IndexOf(k) # 0
        BY <1>3, <2>1 DEF Published, Occupied
      <3>2. At(k) = {IndexOf(k)}
        BY <3>1, IndexIs
      <3>3. At(k)' = At(k)
        BY <1>3, <1>4, <2>1, <3>2 DEF At
      <3>4. QED
        BY <2>1, <3>3, IndexOfAt
    <2>2. CASE k \notin keep
      <3>1. \A i \in except : data[i] # k
        BY <1>3, <2>2, IndexIs
      <3>2. At(k)' = {}
        BY <1>3, <1>4, <3>1 DEF At
      <3>3. QED
        BY <2>2, <3>2, IndexOfAt
    <2>3. QED
      BY <2>1, <2>2
  <1> HIDE DEF keep
  <1>6. Interned' = [k \in Keys |-> IF k \in keep THEN Interned[k] ELSE 0]
    BY <1>5 DEF Interned
  <1>7. Called' = Called /\ \A t \in Threads : Called[t] = Map!None
    BY <1>2 DEF Called, CallOf, Map!None
  <1>8. Map!Forget(keep)
    BY <1>6, <1>7 DEF Map!Forget, Interned, Called
  <1>9. keep \in SUBSET Keys
    BY DEF keep
  <1>10. QED
    BY <1>8, <1>9

\* A rehash moves no node.
LEMMA RehashUnseen ==
  ASSUME MapInv, Reinsert \/ ClearSlots
  PROVE  UNCHANGED Map!vars
  <1>1. UNCHANGED <<data, pc, loc>>
    BY DEF Reinsert, ClearSlots, UnchangedTable
  <1>2. Known' = Known
    <2>1. CASE ClearSlots
      BY <2>1 DEF ClearSlots, UnchangedTable, Known, Published, Occupied, NoSweep
    <2>2. CASE Reinsert
      BY <2>2, ReinsertKnown
    <2>3. QED
      BY <2>1, <2>2
  <1>3. Interned' = Interned
    BY <1>1, <1>2, SameInterned DEF At
  <1>4. Called' = Called
    BY <1>1 DEF Called, CallOf
  <1>5. QED
    BY <1>3, <1>4 DEF Map!vars, Interned, Called

\* Every step is a step of InternMap or leaves it as it is.
LEMMA StepRefines ==
  ASSUME MapInv, [Next]_vars
  PROVE  [Map!Next]_(Map!vars)
  <1>1. ASSUME NEW t \in Threads, NEW k \in Keys, Begin(t, k) PROVE Map!Next
    BY <1>1, BeginAsks DEF Map!Next
  <1>2. ASSUME NEW t \in Threads, InsertStep(t) PROVE [Map!Next]_(Map!vars)
    <2>1. CASE Exhausted(t) \/ NoRegionLeft(t)
      BY <2>1, FullFails DEF Map!Next
    <2>2. CASE FreeBucket(t) \/ (CompareEqual(t) /\ loc[t].index = 0)
      BY <2>2, EqualFinds DEF Map!Next
    <2>3. CASE PublishWins(t)
      BY <2>3, PublishCreates DEF Map!Next
    <2>4. CASE Return(t)
      BY <2>4, ReturnReturns DEF Map!Next
    <2>5. CASE \/ Probe(t) \/ (SeekStep(t) /\ ~NoRegionLeft(t)) \/ ReserveBit(t)
               \/ WriteData(t) \/ PublishLoses(t) \/ CompareOther(t)
               \/ (CompareEqual(t) /\ loc[t].index # 0)
      BY <2>5, WaitingSteps
    <2>6. QED
      BY <1>2, <2>1, <2>2, <2>3, <2>4, <2>5 DEF InsertStep, SeekStep
  <1>3. CASE Clear
    BY <1>3, ClearForgets DEF Map!Next
  <1>4. CASE Reinsert \/ ClearSlots
    BY <1>4, RehashUnseen
  <1>5. CASE UNCHANGED vars
    <2>1. Interned' = Interned
      BY <1>5, SameTable, SameInterned DEF vars
    <2>2. Called' = Called
      BY <1>5 DEF vars, Called, CallOf
    <2>3. QED
      BY <2>1, <2>2 DEF Map!vars, Interned, Called
  <1>6. QED
    BY <1>1, <1>2, <1>3, <1>4, <1>5 DEF Next

\* find_or_insert is linearizable and keeps one index for each node: the table
\* implements InternMap, also across collections.
THEOREM TableImplementsMap == Spec => ImplementsInternMap
  <1>1. Init => Map!Init
    <2> SUFFICES ASSUME Init PROVE Map!Init
      OBVIOUS
    <2>1. MapInv
      BY InitMap
    <2>2. Known = {}
      BY DEF Init, Known, Published, Occupied, NoSweep
    <2>3. \A k \in Keys : IndexOf(k) = 0
      BY <2>1, <2>2, IndexIs
    <2>4. \A t \in Threads : CallOf(t) = Map!None
      BY DEF Init, CallOf, Map!None
    <2>5. QED
      BY <2>3, <2>4 DEF Map!Init
  <1>2. QED
    BY <1>1, StepRefines, MapInvHolds, PTL DEF Spec, ImplementsInternMap, Map!Spec

-----------------------------------------------------------------------------
(***************************************************************************)
(* Where the free buckets are when a table is "full", with one thread to   *)
(* each split.  A region that is claimed is being filled by its split, or  *)
(* moved to, or full for good: only the thread of a split takes and gives  *)
(* back buckets of the region the split is filling.  And a search for a    *)
(* region has passed claimed ones only.                                    *)
(***************************************************************************)
RegionOf(b) == b \div RegionSize

FullRegion(r) == \A b \in Buckets : RegionOf(b) = r => b \in used

Mine(t) == current[SplitOf[t]]

Filling(r) == \E s \in Splits : current[s] = r

MovingTo(u, r) == pc[u] = "switch" /\ loc[u].cursor = r

ClaimsKept ==
  sweep.phase = "none" =>
    /\ \A s \in Splits : current[s] \in claimed
    /\ \A s, q \in Splits : current[s] = current[q] => s = q
    /\ \A u \in Threads : pc[u] = "switch" =>
         /\ loc[u].cursor \in claimed
         /\ ~Filling(loc[u].cursor)
         /\ \A v \in Threads : MovingTo(v, loc[u].cursor) => u = v
    /\ \A r \in claimed :
         FullRegion(r) \/ Filling(r) \/ \E u \in Threads : MovingTo(u, r)

\* The regions that the search of t has passed.
PassedBy(t, r) ==
  IF loc[t].region < loc[t].cursor
    THEN loc[t].region < r /\ r < loc[t].cursor
    ELSE loc[t].region < r \/ r < loc[t].cursor

FreeElsewhere(t) ==
  \A b \in Buckets \ used :
    \/ \E s \in Splits : s # SplitOf[t] /\ current[s] = RegionOf(b)
    \/ \E u \in Threads : u # t /\ MovingTo(u, RegionOf(b))

SearchOk(t) ==
  /\ pc[t] = "word" =>
       /\ loc[t].region = Mine(t) /\ loc[t].cursor <= WordsPerRegion
       /\ \A w \in 0 .. loc[t].cursor - 1 : WordBits(loc[t].region, w) \subseteq used
  /\ pc[t] \in {"claim", "switch"} =>
       loc[t].region = Mine(t) /\ FullRegion(loc[t].region)
  /\ pc[t] = "claim" =>
       \A r \in RegionsOf(capacity) : PassedBy(t, r) => r \in claimed
  /\ (pc[t] # "idle" /\ loc[t].index # 0) => RegionOf(loc[t].index) = Mine(t)
  /\ pc[t] = "full" => FreeElsewhere(t)

\* The inductive invariant, beside MapInv.
RoomInv == ClaimsKept /\ \A t \in Threads : SearchOk(t)

\* The buckets of a region are the bits of its words.
LEMMA BitsOfRegion ==
  ASSUME NEW r \in Nat, NEW b \in Nat
  PROVE  /\ \A w \in 0 .. WordsPerRegion - 1 : b \in WordBits(r, w) => RegionOf(b) = r
         /\ RegionOf(b) = r => \E w \in 0 .. WordsPerRegion - 1 : b \in WordBits(r, w)
  <1>1. /\ RegionSize \in Nat \ {0} /\ WordSize \in Nat \ {0}
        /\ RegionSize % WordSize = 0
    BY TableAssumption
  <1> DEFINE n == WordsPerRegion
  <1>2. n \in Nat /\ RegionSize = WordSize * n
    BY <1>1 DEF WordsPerRegion
  <1>3. r * RegionSize \in Nat
    BY <1>1
  <1>4. \A w : WordBits(r, w) =
          (r * RegionSize + w * WordSize) .. (r * RegionSize + w * WordSize + WordSize - 1)
    BY DEF WordBits
  <1> HIDE DEF n
  <1>5. ASSUME NEW w \in 0 .. n - 1, b \in WordBits(r, w) PROVE RegionOf(b) = r
    <2>1. w * WordSize \in Nat /\ w * WordSize + WordSize <= RegionSize
      <3>1. w \in Nat /\ w + 1 <= n
        BY <1>2
      <3>2. (w + 1) * WordSize <= n * WordSize
        BY <1>1, <1>2, <3>1
      <3>3. QED
        BY <1>1, <1>2, <3>1, <3>2
    <2>2. r * RegionSize <= b /\ b < r * RegionSize + RegionSize
      BY <1>1, <1>3, <1>4, <1>5, <2>1
    <2> DEFINE d == b \div RegionSize
    <2>3. d \in Nat /\ RegionSize * d <= b /\ b < RegionSize * d + RegionSize
      BY <1>1, DivBounds
    <2> HIDE DEF d
    <2>4. d = r
      <3>1. CASE d + 1 <= r
        <4>1. RegionSize * (d + 1) <= RegionSize * r
          BY <1>1, <2>3, <3>1
        <4>2. QED
          BY <1>1, <2>2, <2>3, <4>1
      <3>2. CASE r + 1 <= d
        <4>1. RegionSize * (r + 1) <= RegionSize * d
          BY <1>1, <2>3, <3>2
        <4>2. QED
          BY <1>1, <2>2, <2>3, <4>1
      <3>3. QED
        BY <2>3, <3>1, <3>2
    <2>5. QED
      BY <2>4 DEF RegionOf, d
  <1>6. ASSUME RegionOf(b) = r PROVE \E w \in 0 .. n - 1 : b \in WordBits(r, w)
    <2> DEFINE a == b - r * RegionSize
    <2>1. RegionSize * r <= b /\ b < RegionSize * r + RegionSize
      BY <1>1, <1>6, DivBounds DEF RegionOf
    <2>2. a \in Nat /\ a < RegionSize /\ b = r * RegionSize + a
      BY <1>1, <1>3, <2>1
    <2> HIDE DEF a
    <2> DEFINE w == a \div WordSize
    <2>3. w \in Nat /\ WordSize * w <= a /\ a < WordSize * w + WordSize
      BY <1>1, <2>2, DivBounds
    <2> HIDE DEF w
    <2>4. w < n
      <3>1. CASE n <= w
        <4>1. WordSize * n <= WordSize * w
          BY <1>1, <1>2, <2>3, <3>1
        <4>2. QED
          BY <1>1, <1>2, <2>2, <2>3, <4>1
      <3>2. QED
        BY <1>2, <2>3, <3>1
    <2>5. w * WordSize \in Nat /\ w * WordSize = WordSize * w
      BY <1>1, <2>3
    <2>6. b \in WordBits(r, w)
      BY <1>1, <1>3, <1>4, <2>2, <2>3, <2>5
    <2>7. QED
      BY <1>2, <2>3, <2>4, <2>6
  <1>7. QED
    BY <1>5, <1>6 DEF n

\* Splits start in different regions.
LEMMA StartsApart ==
  ASSUME NEW cap \in Capacities, NEW s \in Splits, NEW q \in Splits,
         StartRegions(cap)[s] = StartRegions(cap)[q]
  PROVE  s = q
  <1>1. PICK n \in Nat : NSplits <= n /\ cap = RegionSize * n
    BY DEF Capacities
  <1>2. NSplits \in Nat \ {0} /\ s \in Nat /\ q \in Nat
    BY TableAssumption DEF Splits
  <1> DEFINE gap == IF n \div NSplits = 0 THEN 1 ELSE n \div NSplits
  <1>3. gap \in Nat \ {0}
    BY <1>1, <1>2, DivBounds
  <1>4. StartRegions(cap) = [x \in Splits |-> x * gap]
    BY <1>1, RegionsAre DEF StartRegions
  <1>5. s * gap = q * gap
    BY <1>4
  <1> HIDE DEF gap
  <1>6. CASE s + 1 <= q
    <2>1. (s + 1) * gap <= q * gap
      BY <1>2, <1>3, <1>6
    <2>2. QED
      BY <1>2, <1>3, <1>5, <2>1
  <1>7. CASE q + 1 <= s
    <2>1. (q + 1) * gap <= s * gap
      BY <1>2, <1>3, <1>7
    <2>2. QED
      BY <1>2, <1>3, <1>5, <2>1
  <1>8. QED
    BY <1>2, <1>6, <1>7

\* A step of t that is no step between regions leaves the others as they are.
LEMMA RoomLocal ==
  ASSUME TableInv, RoomInv, NEW t \in Threads, NEW p \in Pcs, NEW l \in Locals,
         sweep.phase = "none", pc[t] # "switch", p # "switch",
         pc' = [pc EXCEPT ![t] = p], loc' = [loc EXCEPT ![t] = l],
         UNCHANGED <<capacity, used, current, claimed, sweep>>,
         SearchOk(t)'
  PROVE  RoomInv'
  <1>1. \A u \in Threads : /\ pc'[u] = IF u = t THEN p ELSE pc[u]
                           /\ loc'[u] = IF u = t THEN l ELSE loc[u]
    BY DEF TableInv, Types
  <1>2. \A u \in Threads : \A r : MovingTo(u, r)' <=> MovingTo(u, r)
    BY <1>1 DEF MovingTo
  <1>3. \A r : (FullRegion(r)' <=> FullRegion(r)) /\ (Filling(r)' <=> Filling(r))
    BY DEF FullRegion, Filling, Buckets
  <1>4. ClaimsKept'
    BY <1>1, <1>2, <1>3 DEF RoomInv, ClaimsKept
  <1>5. ASSUME NEW u \in Threads, u # t PROVE SearchOk(u)'
    <2>1. pc'[u] = pc[u] /\ loc'[u] = loc[u] /\ SearchOk(u)
      BY <1>1, <1>5 DEF RoomInv
    <2>2. FreeElsewhere(u) => FreeElsewhere(u)'
      BY <1>2 DEF FreeElsewhere, Buckets
    <2>3. QED
      BY <1>3, <2>1, <2>2 DEF SearchOk, Mine, PassedBy
  <1>6. QED
    BY <1>4, <1>5 DEF RoomInv

\* A step of t that keeps its bucket and is not about regions.
LEMMA RoomPlain ==
  ASSUME TableInv, RoomInv, NEW t \in Threads, NEW p \in Pcs, NEW l \in Locals,
         sweep.phase = "none", pc[t] # "switch",
         p \notin {"word", "claim", "switch", "full"},
         pc' = [pc EXCEPT ![t] = p], loc' = [loc EXCEPT ![t] = l],
         UNCHANGED <<capacity, used, current, claimed, sweep>>,
         l.index = 0 \/ (pc[t] # "idle" /\ l.index = loc[t].index)
  PROVE  RoomInv'
  <1>1. pc'[t] = p /\ loc'[t] = l
    BY DEF TableInv, Types
  <1>2. SearchOk(t)'
    BY <1>1 DEF RoomInv, SearchOk, Mine
  <1>3. QED
    BY <1>2, RoomLocal

LEMMA PlainRoom ==
  ASSUME TableInv, RoomInv, NEW t \in Threads,
         \/ \E k \in Keys : Begin(t, k)
         \/ Probe(t) \/ WriteData(t) \/ PublishWins(t) \/ PublishLoses(t)
         \/ CompareEqual(t) \/ CompareOther(t) \/ Return(t)
  PROVE  RoomInv'
  <1>0. /\ loc[t] \in Locals /\ capacity \in Nat /\ 2 < capacity
        /\ capacity \in Capacities /\ loc[t].s \in 0 .. capacity - 1
        /\ 0 \in RegionsOf(capacity) /\ loc = [loc EXCEPT ![t] = loc[t]]
        /\ Buckets = 0 .. capacity - 1
    BY ThreadFacts DEF TableInv, Types, Buckets
  <1>1. hashes[loc[t].s] \in Buckets /\ NextSlot(loc[t].s, capacity) \in Buckets
    BY <1>0, NextSlotWithin DEF TableInv, Types
  <1> USE DEF Pcs, UnchangedSlots, UnchangedTable, Goto
  <1>2. ASSUME NEW k \in Keys, Begin(t, k) PROVE RoomInv'
    <2> DEFINE l == [NoLoc EXCEPT !.key = k, !.s = BucketStart(k, capacity),
                                  !.left = capacity]
    <2>1. BucketStart(k, capacity) \in Buckets
      BY <1>0, StartSlotWithin
    <2>2. l \in Locals /\ l.index = 0
      <3>1. NoLoc \in Locals /\ NoLoc.index = 0 /\ capacity \in 0 .. capacity
        BY <1>0 DEF NoLoc, Locals
      <3>2. QED
        BY <2>1, <3>1, Zenon DEF Locals
    <2>3. loc' = [loc EXCEPT ![t] = l]
      BY <1>2 DEF Begin
    <2> HIDE DEF l
    <2>4. QED
      BY <1>2, <2>2, <2>3, RoomPlain DEF Begin
  <1>3. CASE Probe(t)
    <2> DEFINE l == [loc[t] EXCEPT !.v = hashes[loc[t].s]]
    <2>1. l \in Locals /\ l.index = loc[t].index /\ loc' = [loc EXCEPT ![t] = l]
      BY <1>0, <1>1, <1>3 DEF Probe, Locals
    <2> HIDE DEF l
    <2>2. PICK p \in {"compare", "reserve", "publish"} : pc' = [pc EXCEPT ![t] = p]
      BY <1>3 DEF Probe
    <2>3. pc[t] = "probe" /\ UNCHANGED <<capacity, used, current, claimed, sweep>>
      BY <1>3 DEF Probe
    <2>4. sweep.phase = "none"
      BY <2>3, NoCollector
    <2>5. QED
      BY <2>1, <2>2, <2>3, <2>4, RoomPlain
  <1>4. CASE WriteData(t)
    <2>1. pc[t] = "write" /\ pc' = [pc EXCEPT ![t] = "publish"] /\ loc' = loc
          /\ UNCHANGED <<capacity, used, current, claimed, sweep>>
      BY <1>4 DEF WriteData
    <2>2. sweep.phase = "none"
      BY <2>1, NoCollector
    <2>3. QED
      BY <1>0, <2>1, <2>2, RoomPlain
  <1>5. CASE PublishWins(t)
    <2> DEFINE l == [loc[t] EXCEPT !.v = loc[t].index]
    <2>1. l \in Locals /\ l.index = loc[t].index /\ loc' = [loc EXCEPT ![t] = l]
      BY <1>0, <1>5 DEF PublishWins, Locals
    <2> HIDE DEF l
    <2>2. pc[t] = "publish" /\ pc' = [pc EXCEPT ![t] = "found"]
          /\ UNCHANGED <<capacity, used, current, claimed, sweep>>
      BY <1>5 DEF PublishWins
    <2>3. sweep.phase = "none"
      BY <2>2, NoCollector
    <2>4. QED
      BY <2>1, <2>2, <2>3, RoomPlain
  <1>6. CASE PublishLoses(t)
    <2> DEFINE l == [loc[t] EXCEPT !.v = hashes[loc[t].s]]
    <2>1. l \in Locals /\ l.index = loc[t].index /\ loc' = [loc EXCEPT ![t] = l]
      BY <1>0, <1>1, <1>6 DEF PublishLoses, Locals
    <2> HIDE DEF l
    <2>2. pc[t] = "publish" /\ pc' = [pc EXCEPT ![t] = "compare"]
          /\ UNCHANGED <<capacity, used, current, claimed, sweep>>
      BY <1>6 DEF PublishLoses
    <2>3. sweep.phase = "none"
      BY <2>2, NoCollector
    <2>4. QED
      BY <2>1, <2>2, <2>3, RoomPlain
  <1>7. CASE CompareEqual(t)
    <2>1. pc[t] = "compare" /\ loc' = loc
          /\ UNCHANGED <<capacity, used, current, claimed, sweep>>
      BY <1>7 DEF CompareEqual
    <2>2. PICK p \in {"free", "found"} : pc' = [pc EXCEPT ![t] = p]
      BY <1>7 DEF CompareEqual
    <2>3. sweep.phase = "none"
      BY <2>1, NoCollector
    <2>4. QED
      BY <1>0, <2>1, <2>2, <2>3, RoomPlain
  <1>8. CASE CompareOther(t)
    <2> DEFINE l == [loc[t] EXCEPT !.s = NextSlot(loc[t].s, capacity),
                                   !.left = loc[t].left - 1, !.v = 0]
    <2>1. loc[t].left > 0
      BY <1>8 DEF CompareOther, TableInv, Places
    <2>2. l \in Locals /\ l.index = loc[t].index
      <3>1. loc[t].left - 1 \in 0 .. capacity /\ 0 \in Buckets
        BY <1>0, <2>1 DEF Locals
      <3>2. QED
        BY <1>0, <1>1, <3>1 DEF Locals
    <2>3. loc' = [loc EXCEPT ![t] = l]
      BY <1>8 DEF CompareOther
    <2> HIDE DEF l
    <2>4. pc[t] = "compare" /\ pc' = [pc EXCEPT ![t] = "probe"]
          /\ UNCHANGED <<capacity, used, current, claimed, sweep>>
      BY <1>8 DEF CompareOther
    <2>5. sweep.phase = "none"
      BY <2>4, NoCollector
    <2>6. QED
      BY <2>2, <2>3, <2>4, <2>5, RoomPlain
  <1>9. CASE Return(t)
    <2>1. NoLoc \in Locals /\ NoLoc.index = 0
      BY <1>0 DEF NoLoc, Locals
    <2>2. pc[t] \in {"found", "full"} /\ pc' = [pc EXCEPT ![t] = "idle"]
          /\ loc' = [loc EXCEPT ![t] = NoLoc]
          /\ UNCHANGED <<capacity, used, current, claimed, sweep>>
      BY <1>9 DEF Return
    <2>3. sweep.phase = "none"
      BY <2>2, NoCollector
    <2>4. QED
      BY <2>1, <2>2, <2>3, RoomPlain
  <1>10. QED
    BY <1>2, <1>3, <1>4, <1>5, <1>6, <1>7, <1>8, <1>9

\* The search for a bucket in a region, and for another region.
LEMMA LoadRegionRoom ==
  ASSUME TableInv, RoomInv, NEW t \in Threads, LoadRegion(t)
  PROVE  RoomInv'
  <1> DEFINE l == [loc[t] EXCEPT !.region = Mine(t), !.cursor = 0]
  <1>1. /\ pc[t] = "reserve" /\ pc' = [pc EXCEPT ![t] = "word"]
        /\ loc' = [loc EXCEPT ![t] = l]
        /\ UNCHANGED <<capacity, used, current, claimed, sweep>>
    BY DEF LoadRegion, Goto, UnchangedTable, UnchangedSlots, Mine
  <1>2. l \in Locals /\ l.region = Mine(t) /\ l.cursor = 0 /\ l.index = 0
    BY <1>1, ThreadFacts DEF Locals, Mine, TableInv, Places
  <1> HIDE DEF l
  <1>3. sweep.phase = "none" /\ "word" \in Pcs
    BY <1>1, NoCollector DEF Pcs
  <1>4. pc'[t] = "word" /\ loc'[t] = l /\ Mine(t)' = Mine(t) /\ 0 <= WordsPerRegion
    BY <1>1, TableAssumption, DivBounds DEF TableInv, Types, Mine, WordsPerRegion
  <1>5. SearchOk(t)'
    BY <1>2, <1>4 DEF SearchOk
  <1>6. QED
    BY <1>1, <1>2, <1>3, <1>5, RoomLocal

LEMMA WordIsFullRoom ==
  ASSUME TableInv, RoomInv, NEW t \in Threads, WordIsFull(t)
  PROVE  RoomInv'
  <1> DEFINE l == [loc[t] EXCEPT !.cursor = loc[t].cursor + 1]
  <1>1. /\ pc[t] = "word" /\ pc' = [pc EXCEPT ![t] = "word"]
        /\ loc' = [loc EXCEPT ![t] = l]
        /\ UNCHANGED <<capacity, used, current, claimed, sweep>>
        /\ loc[t].cursor < WordsPerRegion
        /\ WordBits(loc[t].region, loc[t].cursor) \subseteq used
    BY DEF WordIsFull, Goto, UnchangedTable, UnchangedSlots
  <1>2. /\ l \in Locals /\ l.region = loc[t].region /\ l.index = 0
        /\ l.cursor = loc[t].cursor + 1 /\ loc[t].cursor \in Nat
    BY <1>1, ThreadFacts DEF Locals, TableInv, Places
  <1> HIDE DEF l
  <1>3. sweep.phase = "none" /\ "word" \in Pcs
    BY <1>1, NoCollector DEF Pcs
  <1>4. pc'[t] = "word" /\ loc'[t] = l /\ Mine(t)' = Mine(t)
    BY <1>1 DEF TableInv, Types, Mine
  <1>5. /\ l.region = Mine(t)
        /\ \A w \in 0 .. l.cursor - 1 : WordBits(l.region, w) \subseteq used
    BY <1>1, <1>2 DEF RoomInv, SearchOk
  <1>6. WordsPerRegion \in Nat
    BY TableAssumption, DivBounds DEF WordsPerRegion
  <1>7. SearchOk(t)'
    BY <1>1, <1>2, <1>4, <1>5, <1>6 DEF SearchOk
  <1>8. QED
    BY <1>1, <1>2, <1>3, <1>7, RoomLocal

LEMMA LoadForClaimRoom ==
  ASSUME TableInv, RoomInv, NEW t \in Threads, LoadForClaim(t)
  PROVE  RoomInv'
  <1> DEFINE n == Cardinality(RegionsOf(capacity))
             l == [loc[t] EXCEPT !.region = Mine(t), !.cursor = (Mine(t) + 1) % n]
  <1>1. /\ pc[t] = "word" /\ pc' = [pc EXCEPT ![t] = "claim"]
        /\ loc' = [loc EXCEPT ![t] = l]
        /\ UNCHANGED <<capacity, used, current, claimed, sweep>>
        /\ loc[t].cursor = WordsPerRegion
    BY DEF LoadForClaim, Goto, UnchangedTable, UnchangedSlots, Mine
  <1>2. /\ Mine(t) \in RegionsOf(capacity) /\ (Mine(t) + 1) % n \in RegionsOf(capacity)
        /\ RegionsOf(capacity) \subseteq Nat
    BY ThreadFacts, NextRegionWithin DEF Mine, TableInv, Types
  <1>3. PICK m \in Nat \ {0} : RegionsOf(capacity) = 0 .. m - 1 /\ n = m
    <2>1. PICK m \in Nat : capacity = RegionSize * m
      BY DEF TableInv, Types, Capacities
    <2>2. RegionsOf(capacity) = 0 .. m - 1 /\ n = m
      BY <2>1, RegionsAre
    <2>3. QED
      BY <1>2, <2>2
  <1>4. /\ l \in Locals /\ l.index = 0 /\ l.region = Mine(t)
        /\ l.cursor = (Mine(t) + 1) % m
    BY <1>1, <1>2, <1>3, ThreadFacts DEF Locals, TableInv, Places
  <1> HIDE DEF l, n
  <1>5. sweep.phase = "none" /\ "claim" \in Pcs
    BY <1>1, NoCollector DEF Pcs
  <1>6. pc'[t] = "claim" /\ loc'[t] = l /\ Mine(t)' = Mine(t)
    BY <1>1 DEF TableInv, Types, Mine
  <1>7. FullRegion(Mine(t))
    <2>1. \A w \in 0 .. WordsPerRegion - 1 : WordBits(Mine(t), w) \subseteq used
      BY <1>1 DEF RoomInv, SearchOk
    <2>2. Buckets \subseteq Nat
      BY ThreadFacts DEF Buckets
    <2>3. QED
      BY <1>2, <2>1, <2>2, BitsOfRegion DEF FullRegion
  <1>8. FullRegion(Mine(t))'
    BY <1>1, <1>6, <1>7 DEF FullRegion, Buckets
  <1>9. \A r \in RegionsOf(capacity) : ~PassedBy(t, r)'
    <2>1. CASE Mine(t) + 1 < m
      <3>1. l.cursor = Mine(t) + 1
        BY <1>2, <1>3, <1>4, <2>1
      <3>2. QED
        BY <1>2, <1>3, <1>4, <1>6, <3>1 DEF PassedBy
    <2>2. CASE Mine(t) + 1 = m
      <3>1. l.cursor = 0
        BY <1>2, <1>3, <1>4, <2>2
      <3>2. QED
        BY <1>2, <1>3, <1>4, <1>6, <2>2, <3>1 DEF PassedBy
    <2>3. QED
      BY <1>2, <1>3, <2>1, <2>2
  <1>10. SearchOk(t)'
    BY <1>1, <1>4, <1>6, <1>8, <1>9 DEF SearchOk
  <1>11. QED
    BY <1>1, <1>4, <1>5, <1>10, RoomLocal

LEMMA AlreadyClaimedRoom ==
  ASSUME TableInv, RoomInv, NEW t \in Threads, AlreadyClaimed(t)
  PROVE  RoomInv'
  <1> DEFINE n == Cardinality(RegionsOf(capacity))
             l == [loc[t] EXCEPT !.cursor = (loc[t].cursor + 1) % n]
  <1>1. /\ pc[t] = "claim" /\ pc' = [pc EXCEPT ![t] = "claim"]
        /\ loc' = [loc EXCEPT ![t] = l]
        /\ UNCHANGED <<capacity, used, current, claimed, sweep>>
        /\ loc[t].cursor # loc[t].region /\ loc[t].cursor \in claimed
    BY DEF AlreadyClaimed, Goto, UnchangedTable, UnchangedSlots
  <1>2. /\ loc[t].region \in RegionsOf(capacity) /\ loc[t].cursor \in RegionsOf(capacity)
        /\ loc[t] \in Locals /\ loc[t].index = 0
    BY <1>1, ThreadFacts DEF TableInv, Places, Locals
  <1>3. PICK m \in Nat \ {0} : RegionsOf(capacity) = 0 .. m - 1 /\ n = m
    <2>1. PICK m \in Nat : capacity = RegionSize * m
      BY DEF TableInv, Types, Capacities
    <2>2. RegionsOf(capacity) = 0 .. m - 1 /\ n = m
      BY <2>1, RegionsAre
    <2>3. QED
      BY <1>2, <2>2
  <1>4. /\ l \in Locals /\ l.index = 0 /\ l.region = loc[t].region
        /\ l.cursor = (loc[t].cursor + 1) % m
    BY <1>2, <1>3 DEF Locals
  <1> HIDE DEF l, n
  <1>5. sweep.phase = "none" /\ "claim" \in Pcs
    BY <1>1, NoCollector DEF Pcs
  <1>6. pc'[t] = "claim" /\ loc'[t] = l /\ Mine(t)' = Mine(t)
    BY <1>1 DEF TableInv, Types, Mine
  <1>7. loc[t].region = Mine(t) /\ FullRegion(loc[t].region)
    BY <1>1 DEF RoomInv, SearchOk
  <1>8. FullRegion(Mine(t))'
    BY <1>1, <1>6, <1>7 DEF FullRegion, Buckets
  <1>9. ASSUME NEW r \in RegionsOf(capacity), PassedBy(t, r)' PROVE r \in claimed
    <2>1. PassedBy(t, r) => r \in claimed
      BY <1>1 DEF RoomInv, SearchOk
    <2>2. CASE loc[t].cursor + 1 < m
      <3>1. l.cursor = loc[t].cursor + 1
        BY <1>2, <1>3, <1>4, <2>2
      <3>2. PassedBy(t, r) \/ r = loc[t].cursor
        BY <1>1, <1>2, <1>3, <1>4, <1>6, <1>9, <3>1 DEF PassedBy
      <3>3. QED
        BY <1>1, <2>1, <3>2
    <2>3. CASE loc[t].cursor + 1 = m
      <3>1. l.cursor = 0
        BY <1>2, <1>3, <1>4, <2>3
      <3>2. PassedBy(t, r) \/ r = loc[t].cursor
        BY <1>1, <1>2, <1>3, <1>4, <1>6, <1>9, <2>3, <3>1 DEF PassedBy
      <3>3. QED
        BY <1>1, <2>1, <3>2
    <2>4. QED
      BY <1>2, <1>3, <2>2, <2>3
  <1>10. SearchOk(t)'
    BY <1>1, <1>4, <1>6, <1>7, <1>8, <1>9 DEF SearchOk
  <1>11. QED
    BY <1>1, <1>4, <1>5, <1>10, RoomLocal

LEMMA RegionWithin ==
  ASSUME NEW cap \in Capacities, NEW b \in 0 .. cap - 1
  PROVE  RegionOf(b) \in RegionsOf(cap)
  <1>1. PICK n \in Nat : cap = RegionSize * n
    BY DEF Capacities
  <1>2. RegionsOf(cap) = 0 .. n - 1 /\ RegionSize \in Nat \ {0} /\ b \in Nat
    BY <1>1, RegionsAre, TableAssumption
  <1> DEFINE d == b \div RegionSize
  <1>3. d \in Nat /\ RegionSize * d <= b
    BY <1>2, DivBounds
  <1> HIDE DEF d
  <1>4. d < n
    <2>1. CASE n <= d
      <3>1. RegionSize * n <= RegionSize * d
        BY <1>1, <1>2, <1>3, <2>1
      <3>2. QED
        BY <1>1, <1>2, <1>3, <3>1
    <2>2. QED
      BY <1>1, <1>3, <2>1
  <1>5. QED
    BY <1>1, <1>2, <1>3, <1>4 DEF RegionOf, d

\* Other splits have claimed all other regions: what they have not filled, they
\* are filling, or moving to.
LEMMA NoRegionLeftRoom ==
  ASSUME TableInv, RoomInv, NEW t \in Threads, NoRegionLeft(t)
  PROVE  RoomInv'
  <1>1. /\ pc[t] = "claim" /\ pc' = [pc EXCEPT ![t] = "full"]
        /\ loc[t].cursor = loc[t].region
        /\ UNCHANGED <<capacity, used, current, claimed, sweep, loc>>
    BY DEF NoRegionLeft, Goto, UnchangedTable, UnchangedSlots
  <1>2. /\ loc[t] \in Locals /\ loc[t].index = 0 /\ sweep.phase = "none"
        /\ Mine(t) \in RegionsOf(capacity) /\ RegionsOf(capacity) \subseteq Nat
        /\ loc' = [loc EXCEPT ![t] = loc[t]]
    BY <1>1, ThreadFacts, NoCollector DEF TableInv, Places, Types, Mine
  <1>3. loc[t].region = Mine(t) /\ FullRegion(Mine(t))
    BY <1>1 DEF RoomInv, SearchOk
  <1>4. \A r \in RegionsOf(capacity) : r # Mine(t) => r \in claimed
    BY <1>1, <1>2, <1>3 DEF RoomInv, SearchOk, PassedBy
  <1>5. FreeElsewhere(t)
    <2> SUFFICES ASSUME NEW b \in Buckets \ used
                 PROVE  \/ \E s \in Splits : s # SplitOf[t] /\ current[s] = RegionOf(b)
                        \/ \E u \in Threads : u # t /\ MovingTo(u, RegionOf(b))
      BY DEF FreeElsewhere
    <2>1. RegionOf(b) \in RegionsOf(capacity)
      BY RegionWithin DEF Buckets, TableInv, Types
    <2>2. RegionOf(b) # Mine(t) /\ ~FullRegion(RegionOf(b))
      BY <1>3 DEF FullRegion
    <2>3. RegionOf(b) \in claimed
      BY <1>4, <2>1, <2>2
    <2>4. Filling(RegionOf(b)) \/ \E u \in Threads : MovingTo(u, RegionOf(b))
      BY <1>2, <2>2, <2>3 DEF RoomInv, ClaimsKept
    <2>5. CASE Filling(RegionOf(b))
      BY <2>2, <2>5 DEF Filling, Mine
    <2>6. CASE \E u \in Threads : MovingTo(u, RegionOf(b))
      BY <1>1, <2>6 DEF MovingTo
    <2>7. QED
      BY <2>4, <2>5, <2>6
  <1>6. pc'[t] = "full" /\ loc'[t] = loc[t] /\ "full" \in Pcs
    BY <1>1 DEF TableInv, Types, Pcs
  <1>7. \A u \in Threads : \A r : u # t => (MovingTo(u, r)' <=> MovingTo(u, r))
    BY <1>1 DEF MovingTo, TableInv, Types
  <1>8. FreeElsewhere(t)'
    BY <1>1, <1>5, <1>7 DEF FreeElsewhere, Buckets
  <1>9. SearchOk(t)'
    BY <1>2, <1>6, <1>8 DEF SearchOk
  <1>10. QED
    BY <1>1, <1>2, <1>6, <1>9, RoomLocal

\* A search that has been all around the table has met no empty position.
LEMMA ExhaustedRoom ==
  ASSUME MapInv, RoomInv, NEW t \in Threads, Exhausted(t)
  PROVE  RoomInv'
  <1>1. /\ pc[t] = "probe" /\ pc' = [pc EXCEPT ![t] = "full"]
        /\ loc[t].left = 0
        /\ UNCHANGED <<capacity, used, current, claimed, sweep, loc>>
    BY DEF Exhausted, Goto, UnchangedTable, UnchangedSlots
  <1>2. TableInv /\ capacity \in Capacities /\ capacity \in Nat /\ Buckets = 0 .. capacity - 1
    BY MapFacts DEF MapInv
  <1>3. loc[t] \in Locals /\ sweep.phase = "none" /\ loc' = [loc EXCEPT ![t] = loc[t]]
    BY <1>1, <1>2, ThreadFacts, NoCollector DEF TableInv, Types
  <1>4. ASSUME NEW b \in Buckets \ used PROVE FALSE
    <2>1. b # 0 /\ b # 1 /\ b \notin Published
      BY <1>3 DEF MapInv, BitmapExact
    <2>2. b \in 2 .. capacity - 1
      BY <1>2, <2>1
    <2>3. PICK s \in 2 .. capacity - 1 : hashes[s] = 0
      BY <2>1, <2>2, EmptyPosition
    <2>4. loc[t].key \in Keys /\ Passed(loc[t].key, capacity)
      BY <1>1, <1>2 DEF MapInv, Calls, CallOk, Searching, Probes
    <2>5. PICK n \in 0 .. capacity - 3 : ProbeSlot(loc[t].key, n, capacity) = s
      BY <1>2, <2>4, ProbesCover
    <2>6. n \in 0 .. capacity - 1
      BY <1>2
    <2>7. QED
      BY <2>3, <2>4, <2>5, <2>6 DEF Passed
  <1>5. pc'[t] = "full" /\ loc'[t] = loc[t] /\ "full" \in Pcs /\ Mine(t)' = Mine(t)
    BY <1>1, <1>2 DEF TableInv, Types, Pcs, Mine
  <1>6. FreeElsewhere(t)'
    BY <1>1, <1>4 DEF FreeElsewhere, Buckets
  <1>7. SearchOk(t)'
    BY <1>1, <1>5, <1>6 DEF SearchOk, RoomInv
  <1>8. QED
    BY <1>1, <1>2, <1>3, <1>5, <1>7, RoomLocal

\* Buckets taken by t are of its own region.
LEMMA ReserveBitRoom ==
  ASSUME TableInv, RoomInv, NEW t \in Threads, ReserveBit(t)
  PROVE  RoomInv'
  <1> DEFINE free == WordBits(loc[t].region, loc[t].cursor) \ used
             i == Least(free)
             l == [loc[t] EXCEPT !.index = i, !.region = 0, !.cursor = 0]
  <1>1. /\ pc[t] = "word" /\ free # {} /\ loc[t].cursor < WordsPerRegion
        /\ pc' = [pc EXCEPT ![t] = "write"] /\ loc' = [loc EXCEPT ![t] = l]
        /\ used' = used \cup {i}
        /\ UNCHANGED <<capacity, current, claimed, sweep>>
    BY DEF ReserveBit, Goto, UnchangedTable
  <1>2. loc[t] \in Locals /\ sweep.phase = "none" /\ capacity \in Nat
        /\ RegionsOf(capacity) \subseteq Nat
    BY <1>1, ThreadFacts, NoCollector
  <1>3. i \in WordBits(loc[t].region, loc[t].cursor) /\ i \in Nat
    <2>1. WordBits(loc[t].region, loc[t].cursor) \subseteq Buckets
      BY <1>1, <1>2, WordsWithin DEF Buckets, Locals, TableInv, Types
    <2>2. free \in SUBSET Nat
      BY <1>2, <2>1 DEF Buckets
    <2>3. i \in free
      BY <1>1, <2>2, LeastIsIn
    <2>4. QED
      BY <2>2, <2>3
  <1> HIDE DEF free, i
  <1>4. l.index = i
    BY <1>2 DEF Locals
  <1> HIDE DEF l
  <1>5. RegionOf(i) = Mine(t)
    <2>1. loc[t].region = Mine(t) /\ loc[t].region \in Nat /\ loc[t].cursor \in Nat
      BY <1>1, <1>2 DEF RoomInv, SearchOk, Locals
    <2>2. WordsPerRegion \in Nat
      BY TableAssumption, DivBounds DEF WordsPerRegion
    <2>3. loc[t].cursor \in 0 .. WordsPerRegion - 1
      BY <1>1, <2>1, <2>2
    <2>4. QED
      BY <1>3, <2>1, <2>3, BitsOfRegion
  <1>6. \A u \in Threads : /\ pc'[u] = IF u = t THEN "write" ELSE pc[u]
                           /\ loc'[u] = IF u = t THEN l ELSE loc[u]
    BY <1>1 DEF TableInv, Types
  <1>7. \A u \in Threads : \A r : MovingTo(u, r)' <=> MovingTo(u, r)
    BY <1>1, <1>6 DEF MovingTo
  <1>8. \A r : (FullRegion(r) => FullRegion(r)') /\ (Filling(r)' <=> Filling(r))
    BY <1>1 DEF FullRegion, Filling, Buckets
  <1>9. ClaimsKept'
    BY <1>1, <1>6, <1>7, <1>8 DEF RoomInv, ClaimsKept
  <1>10. SearchOk(t)'
    BY <1>1, <1>4, <1>5, <1>6 DEF SearchOk, Mine
  <1>11. ASSUME NEW u \in Threads, u # t PROVE SearchOk(u)'
    <2>1. pc'[u] = pc[u] /\ loc'[u] = loc[u] /\ SearchOk(u)
      BY <1>6, <1>11 DEF RoomInv
    <2>2. FreeElsewhere(u) => FreeElsewhere(u)'
      BY <1>1, <1>7 DEF FreeElsewhere, Buckets
    <2>3. QED
      BY <1>1, <1>8, <2>1, <2>2 DEF SearchOk, Mine, PassedBy
  <1>12. QED
    BY <1>9, <1>10, <1>11 DEF RoomInv

\* Buckets given back by t are of its own region, which no other split fills.
LEMMA FreeBucketRoom ==
  ASSUME OneThreadPerSplit, TableInv, RoomInv, NEW t \in Threads, FreeBucket(t)
  PROVE  RoomInv'
  <1> DEFINE i == loc[t].index
  <1>1. /\ pc[t] = "free" /\ pc' = [pc EXCEPT ![t] = "found"]
        /\ used' = used \ {i}
        /\ UNCHANGED <<capacity, current, claimed, sweep, loc>>
    BY DEF FreeBucket, Goto, UnchangedTable
  <1>2. /\ i # 0 /\ i \in Nat /\ sweep.phase = "none" /\ SplitOf[t] \in Splits
        /\ RegionsOf(capacity) \subseteq Nat
    BY <1>1, ThreadFacts, NoCollector DEF TableInv, Places, Locals, Buckets
  <1>3. RegionOf(i) = Mine(t)
    BY <1>1, <1>2 DEF RoomInv, SearchOk
  <1>4. \A u \in Threads \ {t} : Mine(u) # Mine(t)
    <2>1. ASSUME NEW u \in Threads \ {t} PROVE Mine(u) # Mine(t)
      <3>1. SplitOf[u] # SplitOf[t] /\ SplitOf[u] \in Splits
        BY ThreadFacts DEF OneThreadPerSplit
      <3>2. QED
        BY <1>2, <3>1 DEF RoomInv, ClaimsKept, Mine
    <2>2. QED
      BY <2>1
  <1> HIDE DEF i
  <1>5. \A u \in Threads : pc'[u] = IF u = t THEN "found" ELSE pc[u]
    BY <1>1 DEF TableInv, Types
  <1>6. \A u \in Threads : \A r : MovingTo(u, r)' <=> MovingTo(u, r)
    BY <1>1, <1>5 DEF MovingTo
  <1>7. \A r : Filling(r)' <=> Filling(r)
    BY <1>1 DEF Filling
  <1>8. \A r : r # Mine(t) => (FullRegion(r) => FullRegion(r)')
    BY <1>1, <1>3 DEF FullRegion, Buckets
  <1>9. ClaimsKept'
    <2>1. Filling(Mine(t))
      BY <1>2 DEF Filling, Mine
    <2>2. \A r \in claimed : FullRegion(r)' \/ Filling(r)' \/ \E u \in Threads : MovingTo(u, r)'
      BY <1>2, <1>6, <1>7, <1>8, <2>1 DEF RoomInv, ClaimsKept
    <2>3. \A u \in Threads : pc'[u] = "switch" <=> pc[u] = "switch"
      BY <1>1, <1>5
    <2>4. QED
      BY <1>1, <1>2, <1>6, <1>7, <2>2, <2>3 DEF RoomInv, ClaimsKept
  <1>10. SearchOk(t)'
    BY <1>1, <1>3, <1>5 DEF SearchOk, Mine, i
  <1>11. ASSUME NEW u \in Threads, u # t PROVE SearchOk(u)'
    <2>1. /\ pc'[u] = pc[u] /\ loc'[u] = loc[u] /\ SearchOk(u)
          /\ Mine(u)' = Mine(u) /\ Mine(u) # Mine(t) /\ Mine(u) \in Nat
      BY <1>1, <1>2, <1>4, <1>5, <1>11, ThreadFacts DEF RoomInv, Mine
    <2>2. FreeElsewhere(u) => FreeElsewhere(u)'
      <3>1. SplitOf[t] \in Splits /\ SplitOf[t] # SplitOf[u] /\ current[SplitOf[t]] = RegionOf(i)
        BY <1>2, <1>3, <1>11 DEF OneThreadPerSplit, Mine
      <3>2. \A b \in Buckets' \ used' : b \in Buckets \ used \/ b = i
        BY <1>1 DEF Buckets
      <3>3. QED
        BY <1>1, <1>6, <3>1, <3>2 DEF FreeElsewhere
    <2>3. ASSUME NEW w \in 0 .. WordsPerRegion - 1 PROVE i \notin WordBits(Mine(u), w)
      BY <1>2, <1>3, <2>1, BitsOfRegion
    <2>4. pc[u] = "word" =>
            \A w \in 0 .. loc[u].cursor - 1 : WordBits(loc[u].region, w) \subseteq used'
      <3> SUFFICES ASSUME pc[u] = "word", NEW w \in 0 .. loc[u].cursor - 1
                   PROVE  WordBits(loc[u].region, w) \subseteq used'
        OBVIOUS
      <3>1. /\ loc[u].region = Mine(u) /\ WordBits(loc[u].region, w) \subseteq used
            /\ loc[u].cursor <= WordsPerRegion
        BY <2>1 DEF SearchOk
      <3>2. loc[u].cursor \in Nat /\ WordsPerRegion \in Nat
        BY ThreadFacts, TableAssumption, DivBounds DEF Locals, WordsPerRegion
      <3>3. w \in 0 .. WordsPerRegion - 1
        BY <3>1, <3>2
      <3>4. QED
        BY <1>1, <2>3, <3>1, <3>3
    <2>5. QED
      BY <1>1, <1>8, <2>1, <2>2, <2>4 DEF SearchOk, PassedBy
  <1>12. QED
    BY <1>9, <1>10, <1>11 DEF RoomInv

LEMMA ClaimRegionRoom ==
  ASSUME TableInv, RoomInv, NEW t \in Threads, ClaimRegion(t)
  PROVE  RoomInv'
  <1> DEFINE c == loc[t].cursor
  <1>1. /\ pc[t] = "claim" /\ pc' = [pc EXCEPT ![t] = "switch"]
        /\ c \notin claimed /\ claimed' = claimed \cup {c}
        /\ UNCHANGED <<capacity, used, current, sweep, loc>>
    BY DEF ClaimRegion, Goto, UnchangedTable
  <1>2. sweep.phase = "none" /\ ClaimsKept /\ loc[t].index = 0
    BY <1>1, NoCollector DEF RoomInv, TableInv, Places
  <1>3. ~Filling(c) /\ \A u \in Threads : ~MovingTo(u, c)
    BY <1>1, <1>2 DEF ClaimsKept, Filling, MovingTo
  <1>4. \A u \in Threads : pc'[u] = IF u = t THEN "switch" ELSE pc[u]
    BY <1>1 DEF TableInv, Types
  <1>5. /\ \A u \in Threads : \A r : u # t => (MovingTo(u, r)' <=> MovingTo(u, r))
        /\ \A r : MovingTo(t, r)' <=> r = c
        /\ \A r : ~MovingTo(t, r)
    BY <1>1, <1>4 DEF MovingTo
  <1>6. \A r : (FullRegion(r)' <=> FullRegion(r)) /\ (Filling(r)' <=> Filling(r))
    BY <1>1 DEF FullRegion, Filling, Buckets
  <1>7. ASSUME NEW u \in Threads, pc'[u] = "switch"
        PROVE  /\ loc[u].cursor \in claimed'
               /\ ~Filling(loc[u].cursor)
               /\ \A v \in Threads : MovingTo(v, loc[u].cursor)' => u = v
    <2>1. CASE u = t
      BY <1>1, <1>3, <1>5, <2>1
    <2>2. CASE u # t
      <3>1. pc[u] = "switch" /\ MovingTo(u, loc[u].cursor)
        BY <1>4, <1>7, <2>2 DEF MovingTo
      <3>2. loc[u].cursor # c
        BY <1>3, <3>1
      <3>3. QED
        BY <1>1, <1>2, <1>5, <3>1, <3>2 DEF ClaimsKept
    <2>3. QED
      BY <2>1, <2>2
  <1>8. ClaimsKept'
    <2>1. \A r \in claimed' : FullRegion(r)' \/ Filling(r)' \/ \E u \in Threads : MovingTo(u, r)'
      BY <1>1, <1>2, <1>5, <1>6 DEF ClaimsKept
    <2>2. loc' = loc /\ current' = current
      BY <1>1
    <2>3. QED
      BY <1>1, <1>2, <1>6, <1>7, <2>1, <2>2 DEF ClaimsKept
  <1>9. SearchOk(t)'
    BY <1>1, <1>2, <1>4, <1>6 DEF RoomInv, SearchOk, Mine
  <1>10. ASSUME NEW u \in Threads, u # t PROVE SearchOk(u)'
    <2>1. pc'[u] = pc[u] /\ loc'[u] = loc[u] /\ SearchOk(u)
      BY <1>1, <1>4, <1>10 DEF RoomInv
    <2>2. FreeElsewhere(u) => FreeElsewhere(u)'
      BY <1>1, <1>5 DEF FreeElsewhere, Buckets
    <2>3. QED
      BY <1>1, <1>6, <2>1, <2>2 DEF SearchOk, Mine, PassedBy
  <1>11. QED
    BY <1>8, <1>9, <1>10 DEF RoomInv

\* The region that is left is full.
LEMMA SwitchRegionRoom ==
  ASSUME OneThreadPerSplit, TableInv, RoomInv, NEW t \in Threads, SwitchRegion(t)
  PROVE  RoomInv'
  <1> DEFINE c == loc[t].cursor
             a == SplitOf[t]
  <1>1. /\ pc[t] = "switch" /\ pc' = [pc EXCEPT ![t] = "reserve"]
        /\ current' = [current EXCEPT ![a] = c]
        /\ UNCHANGED <<capacity, used, claimed, sweep, loc>>
    BY DEF SwitchRegion, Goto, UnchangedTable
  <1>2. sweep.phase = "none" /\ ClaimsKept /\ loc[t].index = 0 /\ a \in Splits
    BY <1>1, NoCollector, ThreadFacts DEF RoomInv, TableInv, Places
  <1>3. /\ c \in claimed /\ ~Filling(c) /\ FullRegion(current[a])
        /\ \A v \in Threads : MovingTo(v, c) => v = t
    BY <1>1, <1>2 DEF RoomInv, ClaimsKept, SearchOk, Mine
  <1>4. \A u \in Threads : pc'[u] = IF u = t THEN "reserve" ELSE pc[u]
    BY <1>1 DEF TableInv, Types
  <1>5. \A s \in Splits : current'[s] = IF s = a THEN c ELSE current[s]
    BY <1>1 DEF TableInv, Types
  <1>6. /\ \A u \in Threads : \A r : u # t => (MovingTo(u, r)' <=> MovingTo(u, r))
        /\ \A r : ~MovingTo(t, r)'
        /\ \A r : MovingTo(t, r) => r = c
    BY <1>1, <1>4 DEF MovingTo
  <1>7. \A r : FullRegion(r)' <=> FullRegion(r)
    BY <1>1 DEF FullRegion, Buckets
  <1>8. \A r : Filling(r)' => Filling(r) \/ r = c
    BY <1>5 DEF Filling
  <1>9. \A r : Filling(r) => Filling(r)' \/ r = current[a]
    BY <1>5 DEF Filling
  <1>10. \A r : r = c => Filling(r)'
    BY <1>2, <1>5 DEF Filling
  <1>11. ClaimsKept'
    <2>1. \A r \in claimed : FullRegion(r)' \/ Filling(r)' \/ \E u \in Threads : MovingTo(u, r)'
      BY <1>2, <1>3, <1>6, <1>7, <1>9, <1>10 DEF ClaimsKept
    <2>2. /\ \A s \in Splits : current'[s] \in claimed
          /\ \A s, q \in Splits : current'[s] = current'[q] => s = q
      BY <1>2, <1>3, <1>5 DEF ClaimsKept, Filling
    <2>3. ASSUME NEW u \in Threads, pc'[u] = "switch"
          PROVE  /\ loc[u].cursor \in claimed
                 /\ ~Filling(loc[u].cursor)'
                 /\ \A v \in Threads : MovingTo(v, loc[u].cursor)' => u = v
      <3>1. u # t /\ pc[u] = "switch" /\ MovingTo(u, loc[u].cursor)
        BY <1>4, <2>3 DEF MovingTo
      <3>2. loc[u].cursor # c
        BY <1>3, <3>1
      <3>3. loc'[u].cursor = loc[u].cursor
        BY <1>1
      <3>4. QED
        BY <1>2, <1>6, <1>8, <3>1, <3>2, <3>3 DEF ClaimsKept
    <2>4. loc' = loc /\ claimed' = claimed
      BY <1>1
    <2>5. QED
      BY <2>1, <2>2, <2>3, <2>4 DEF ClaimsKept
  <1>12. SearchOk(t)'
    BY <1>1, <1>2, <1>4 DEF SearchOk
  <1>13. ASSUME NEW u \in Threads, u # t PROVE SearchOk(u)'
    <2>1. SplitOf[u] \in Splits /\ SplitOf[u] # a
      BY <1>13, ThreadFacts DEF OneThreadPerSplit
    <2>2. pc'[u] = pc[u] /\ loc'[u] = loc[u] /\ SearchOk(u) /\ Mine(u)' = Mine(u)
      BY <1>1, <1>4, <1>5, <1>13, <2>1 DEF RoomInv, Mine
    <2>3. FreeElsewhere(u) => FreeElsewhere(u)'
      <3> SUFFICES ASSUME FreeElsewhere(u), NEW b \in Buckets \ used
                   PROVE  \/ \E s \in Splits : s # SplitOf[u] /\ current'[s] = RegionOf(b)
                          \/ \E v \in Threads : v # u /\ MovingTo(v, RegionOf(b))'
        BY <1>1 DEF FreeElsewhere, Buckets
      <3>1. RegionOf(b) # current[a]
        BY <1>3 DEF FullRegion
      <3>2. CASE \E s \in Splits : s # SplitOf[u] /\ current[s] = RegionOf(b)
        BY <1>5, <3>1, <3>2
      <3>3. CASE \E v \in Threads : v # u /\ MovingTo(v, RegionOf(b))
        BY <1>2, <1>5, <1>6, <2>1, <3>3
      <3>4. QED
        BY <3>2, <3>3 DEF FreeElsewhere
    <2>4. QED
      BY <1>1, <1>7, <2>2, <2>3 DEF SearchOk, PassedBy
  <1>14. QED
    BY <1>11, <1>12, <1>13 DEF RoomInv

\* A collection gives each split a region of its own.
LEMMA SweepRoom ==
  ASSUME TableInv, RoomInv, Clear \/ Reinsert \/ ClearSlots
  PROVE  RoomInv'
  <1>1. (\A t \in Threads : pc[t] = "idle") /\ pc' = pc
    BY DEF Clear, ClearStart, Reinsert, ClearSlots, TableInv, RehashOfMarked
  <1>2. \A t \in Threads : SearchOk(t)'
    BY <1>1 DEF SearchOk
  <1>3. CASE Clear \/ Reinsert
    <2>1. sweep'.phase # "none"
      BY <1>3 DEF Clear, ClearStart, Reinsert, TableInv, Types
    <2>2. QED
      BY <1>2, <2>1 DEF RoomInv, ClaimsKept
  <1>4. CASE ClearSlots
    <2> DEFINE start == StartRegions(capacity)
    <2>1. current' = start /\ claimed' = {start[s] : s \in Splits}
      BY <1>4 DEF ClearSlots
    <2>2. \A s, q \in Splits : start[s] = start[q] => s = q
      BY StartsApart DEF TableInv, Types
    <2> HIDE DEF start
    <2>3. ClaimsKept'
      BY <1>1, <2>1, <2>2 DEF ClaimsKept, Filling
    <2>4. QED
      BY <1>2, <2>3 DEF RoomInv
  <1>5. QED
    BY <1>3, <1>4

LEMMA StutterRoom ==
  ASSUME RoomInv, UNCHANGED vars
  PROVE  RoomInv'
  BY DEF vars, RoomInv, ClaimsKept, SearchOk, FullRegion, Filling, MovingTo, Mine,
         PassedBy, FreeElsewhere, Buckets

LEMMA InitRoom ==
  ASSUME Init
  PROVE  RoomInv
  <1> DEFINE start == StartRegions(InitialSize)
  <1>1. /\ current = start /\ claimed = {start[s] : s \in Splits}
        /\ \A t \in Threads : pc[t] = "idle"
    BY DEF Init
  <1>2. \A s, q \in Splits : start[s] = start[q] => s = q
    BY InitialIsCapacity, StartsApart
  <1> HIDE DEF start
  <1>3. ClaimsKept
    BY <1>1, <1>2 DEF ClaimsKept, Filling
  <1>4. QED
    BY <1>1, <1>3 DEF RoomInv, SearchOk

LEMMA StepRoom ==
  ASSUME OneThreadPerSplit, MapInv, RoomInv, [Next]_vars
  PROVE  RoomInv'
  <1>1. TableInv
    BY DEF MapInv
  <1>2. ASSUME NEW t \in Threads, NEW k \in Keys, Begin(t, k) PROVE RoomInv'
    BY <1>1, <1>2, PlainRoom
  <1>3. ASSUME NEW t \in Threads, InsertStep(t) PROVE RoomInv'
    BY <1>1, <1>3, PlainRoom, ExhaustedRoom, LoadRegionRoom, ReserveBitRoom,
       WordIsFullRoom, LoadForClaimRoom, ClaimRegionRoom, AlreadyClaimedRoom,
       NoRegionLeftRoom, SwitchRegionRoom, FreeBucketRoom DEF InsertStep
  <1>4. CASE Clear \/ Reinsert \/ ClearSlots
    BY <1>1, <1>4, SweepRoom
  <1>5. CASE UNCHANGED vars
    BY <1>5, StutterRoom
  <1>6. QED
    BY <1>2, <1>3, <1>4, <1>5 DEF Next

\* With one thread to each split, what is free when find_or_insert says that
\* the table is full lies in regions that other splits are filling or moving to.
THEOREM FullOnlyByOthers == Spec => []RoomOnlyElsewhere
  <1>1. CASE OneThreadPerSplit
    <2>1. Init => MapInv /\ RoomInv
      BY InitMap, InitRoom
    <2>2. MapInv /\ RoomInv /\ [Next]_vars => (MapInv /\ RoomInv)'
      BY <1>1, StepMap, StepRoom
    <2>3. RoomInv => RoomOnlyElsewhere
      <3> SUFFICES ASSUME RoomInv, NEW t \in Threads, pc[t] = "full",
                          NEW b \in Buckets \ used
                   PROVE  b \div RegionSize \in RegionsOfOthers(t)
        BY DEF RoomOnlyElsewhere
      <3>1. FreeElsewhere(t)
        BY DEF RoomInv, SearchOk
      <3>2. QED
        BY <3>1 DEF FreeElsewhere, MovingTo, RegionOf, RegionsOfOthers
    <2>4. QED
      BY <2>1, <2>2, <2>3, PTL DEF Spec
  <1>2. CASE ~OneThreadPerSplit
    <2>1. RoomOnlyElsewhere
      BY <1>2 DEF RoomOnlyElsewhere
    <2>2. QED
      BY <2>1, PTL
  <1>3. QED
    BY <1>1, <1>2
=============================================================================
