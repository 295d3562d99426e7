---------------------------- MODULE UniqueTable ----------------------------
(***************************************************************************)
(* The unique table of a ZddHolder: find_or_insert as concurrent threads   *)
(* run it and clear as a collector runs it (src/src/manager/hashtable.rs), *)
(* over the bucket allocator of src/src/manager/hashtable/slots.rs.        *)
(*                                                                         *)
(* A node (a RawZddData) is a member of Keys.  `hashes` is open            *)
(* addressing with linear probing; an entry is the index of a bucket of    *)
(* `data`, 0 being EMPTY.  The 24 hash bits of an entry are those of the   *)
(* node in its bucket, so that `v.hash() == h && equal_at_index(..)` is    *)
(* equality of nodes.  Buckets are handed out region by region, and words  *)
(* of a bitmap inside a region.                                            *)
(*                                                                         *)
(* Atomicity: one step for each load, store or compare_exchange on memory  *)
(* that other threads write.  The load and compare_exchange loop on a word *)
(* of the bitmap is one step, as it succeeds only if the word has not      *)
(* changed in between.  Memory is sequentially consistent.  A collector    *)
(* works alone: PauseGate is the reason.                                   *)
(***************************************************************************)
EXTENDS Naturals, FiniteSets

CONSTANTS
  Threads,      \* the threads that share the table
  NSplits,      \* n_splits_of_regions
  SplitOf,      \* assign_thread_id: the split of each thread
  Keys,         \* the nodes
  NoKey,        \* None: a bucket never written
  Hash,         \* the hash of each node
  HashRange,    \* 2^N_BITS_FOR_HASH
  RegionSize,   \* REGION_SIZE
  WordSize,     \* bits in a word of the bitmap (64)
  InitialSize,  \* the capacity of HashTable::new, after rounding
  MaxSize       \* max_table_size, which also bounds the model

ASSUME TableAssumption ==
  /\ IsFiniteSet(Threads) /\ IsFiniteSet(Keys) /\ NoKey \notin Keys
  /\ {NSplits, HashRange, RegionSize, WordSize, InitialSize, MaxSize}
       \subseteq Nat \ {0}
  /\ SplitOf \in [Threads -> 0 .. NSplits - 1]
  /\ Hash \in [Keys -> 0 .. HashRange - 1]
  /\ RegionSize % WordSize = 0
  /\ InitialSize % (NSplits * RegionSize) = 0
  /\ 2 < InitialSize /\ InitialSize <= MaxSize /\ MaxSize % RegionSize = 0

Splits == 0 .. NSplits - 1

VARIABLES
  capacity,  \* data.len(), which is also counts.len()
  hashes,    \* position -> index of a bucket, 0 when empty
  data,      \* bucket -> the node written there last
  used,      \* the bits set in used_data
  current,   \* current_region, per split
  claimed,   \* the regions marked in claimed_regions
  pc,        \* where each thread is
  loc,       \* the locals of find_or_insert, per thread
  sweep      \* the progress of clear(), or of no collector

vars == <<capacity, hashes, data, used, current, claimed, pc, loc, sweep>>

-----------------------------------------------------------------------------
(***************************************************************************)
(* Geometry                                                                *)
(***************************************************************************)
RegionsOf(cap) == 0 .. ((cap + RegionSize - 1) \div RegionSize) - 1

\* generate_current_position: splits start a gap apart.
StartRegions(cap) ==
  LET n   == Cardinality(RegionsOf(cap))
      gap == IF n \div NSplits = 0 THEN 1 ELSE n \div NSplits
  IN  [s \in Splits |-> s * gap]

WordsPerRegion == RegionSize \div WordSize

\* The bits of word w of region r.
WordBits(r, w) ==
  LET base == r * RegionSize + w * WordSize IN base .. base + WordSize - 1

\* bucket_start: the hash scaled to the capacity, past the terminals.
BucketStart(k, cap) ==
  LET s == (Hash[k] * cap) \div HashRange IN IF s < 2 THEN 2 ELSE s

\* ProbeSlots: the next position, wrapping past the terminals.
NextSlot(s, cap) == IF s + 1 >= cap THEN 2 ELSE s + 1

\* The i-th position that the probes for node k visit.
ProbeSlot(k, i, cap) == 2 + ((BucketStart(k, cap) - 2 + i) % (cap - 2))

Least(S) == CHOOSE x \in S : \A y \in S : x <= y

Occupied == {s \in DOMAIN hashes : hashes[s] # 0}

Published == {hashes[s] : s \in Occupied}

-----------------------------------------------------------------------------

NoLoc ==
  [key |-> NoKey, s |-> 0, left |-> 0, index |-> 0, region |-> 0,
   cursor |-> 0, v |-> 0]

NoSweep == [phase |-> "none", marked |-> {}, todo |-> {}]

Init ==
  /\ capacity = InitialSize
  /\ hashes = [s \in 0 .. InitialSize - 1 |-> 0]
  /\ data = [i \in 0 .. InitialSize - 1 |-> NoKey]
  /\ used = {0, 1}
  /\ current = StartRegions(InitialSize)
  /\ claimed = {StartRegions(InitialSize)[s] : s \in Splits}
  /\ pc = [t \in Threads |-> "idle"]
  /\ loc = [t \in Threads |-> NoLoc]
  /\ sweep = NoSweep

Goto(t, from, to) == pc[t] = from /\ pc' = [pc EXCEPT ![t] = to]

UnchangedTable == UNCHANGED <<capacity, hashes, data>>
UnchangedSlots == UNCHANGED <<used, current, claimed>>

(***************************************************************************)
(* find_or_insert                                                          *)
(***************************************************************************)
\* read_table, and the first position to probe.
Begin(t, k) ==
  /\ sweep.phase = "none"
  /\ Goto(t, "idle", "probe")
  /\ loc' = [loc EXCEPT ![t] =
       [NoLoc EXCEPT !.key = k, !.s = BucketStart(k, capacity),
                     !.left = capacity]]
  /\ UnchangedTable /\ UnchangedSlots /\ UNCHANGED sweep

\* All positions were probed: FullTable, even when a bucket was reserved.
Exhausted(t) ==
  /\ loc[t].left = 0
  /\ Goto(t, "probe", "full")
  /\ UnchangedTable /\ UnchangedSlots /\ UNCHANGED <<loc, sweep>>

\* The load of a position.
Probe(t) ==
  LET v == hashes[loc[t].s] IN
  /\ loc[t].left > 0
  /\ Goto(t, "probe", IF v # 0 THEN "compare"
                      ELSE IF loc[t].index = 0 THEN "reserve" ELSE "publish")
  /\ loc' = [loc EXCEPT ![t].v = v]
  /\ UnchangedTable /\ UnchangedSlots /\ UNCHANGED sweep

\* reserve_bucket: the region this split is filling.
LoadRegion(t) ==
  /\ Goto(t, "reserve", "word")
  /\ loc' = [loc EXCEPT ![t].region = current[SplitOf[t]], ![t].cursor = 0]
  /\ UnchangedTable /\ UnchangedSlots /\ UNCHANGED sweep

\* Mutant: the bit is read but not set.
ReserveBitUnset(t) ==
  LET free == WordBits(loc[t].region, loc[t].cursor) \ used IN
  /\ loc[t].cursor < WordsPerRegion
  /\ free # {}
  /\ Goto(t, "word", "write")
  /\ loc' = [loc EXCEPT ![t].index = Least(free), ![t].region = 0,
                        ![t].cursor = 0]
  /\ UnchangedTable /\ UnchangedSlots /\ UNCHANGED sweep

\* reserve_slot, on one word: its lowest clear bit, or the next word.
ReserveBit(t) ==
  LET free == WordBits(loc[t].region, loc[t].cursor) \ used IN
  /\ loc[t].cursor < WordsPerRegion
  /\ free # {}
  /\ Goto(t, "word", "write")
  /\ used' = used \cup {Least(free)}
  /\ loc' = [loc EXCEPT ![t].index = Least(free), ![t].region = 0,
                        ![t].cursor = 0]
  /\ UnchangedTable /\ UNCHANGED <<current, claimed, sweep>>

WordIsFull(t) ==
  /\ loc[t].cursor < WordsPerRegion
  /\ WordBits(loc[t].region, loc[t].cursor) \subseteq used
  /\ Goto(t, "word", "word")
  /\ loc' = [loc EXCEPT ![t].cursor = @ + 1]
  /\ UnchangedTable /\ UnchangedSlots /\ UNCHANGED sweep

\* Mutant: the search for a region begins one too far.
LoadForClaimSkips(t) ==
  LET r == current[SplitOf[t]] IN
  /\ loc[t].cursor = WordsPerRegion
  /\ Goto(t, "word", "claim")
  /\ loc' = [loc EXCEPT ![t].region = r,
               ![t].cursor = (r + 2) % Cardinality(RegionsOf(capacity))]
  /\ UnchangedTable /\ UnchangedSlots /\ UNCHANGED sweep

\* claim_region loads the current region again: another thread of the split
\* may have moved it since reserve_slot gave up.
LoadForClaim(t) ==
  LET r == current[SplitOf[t]] IN
  /\ loc[t].cursor = WordsPerRegion
  /\ Goto(t, "word", "claim")
  /\ loc' = [loc EXCEPT ![t].region = r,
               ![t].cursor = (r + 1) % Cardinality(RegionsOf(capacity))]
  /\ UnchangedTable /\ UnchangedSlots /\ UNCHANGED sweep

ClaimRegion(t) ==
  /\ loc[t].cursor # loc[t].region
  /\ loc[t].cursor \notin claimed
  /\ Goto(t, "claim", "switch")
  /\ claimed' = claimed \cup {loc[t].cursor}
  /\ UnchangedTable /\ UNCHANGED <<used, current, loc, sweep>>

\* Mutant: the search for a region does not move on.
AlreadyClaimedStays(t) ==
  /\ loc[t].cursor # loc[t].region
  /\ loc[t].cursor \in claimed
  /\ Goto(t, "claim", "claim")
  /\ UnchangedTable /\ UnchangedSlots /\ UNCHANGED <<loc, sweep>>

AlreadyClaimed(t) ==
  /\ loc[t].cursor # loc[t].region
  /\ loc[t].cursor \in claimed
  /\ Goto(t, "claim", "claim")
  /\ loc' = [loc EXCEPT ![t].cursor = (@ + 1) % Cardinality(RegionsOf(capacity))]
  /\ UnchangedTable /\ UnchangedSlots /\ UNCHANGED sweep

\* Every other region is claimed: reserve_bucket is None, the table "full".
NoRegionLeft(t) ==
  /\ loc[t].cursor = loc[t].region
  /\ Goto(t, "claim", "full")
  /\ UnchangedTable /\ UnchangedSlots /\ UNCHANGED <<loc, sweep>>

SwitchRegion(t) ==
  /\ Goto(t, "switch", "reserve")
  /\ current' = [current EXCEPT ![SplitOf[t]] = loc[t].cursor]
  /\ UnchangedTable /\ UNCHANGED <<used, claimed, loc, sweep>>

\* The node is written to the reserved bucket, through an UnsafeCell.
WriteData(t) ==
  /\ Goto(t, "write", "publish")
  /\ data' = [data EXCEPT ![loc[t].index] = loc[t].key]
  /\ UnchangedSlots /\ UNCHANGED <<capacity, hashes, loc, sweep>>

\* compare_exchange of the empty position.
PublishWins(t) ==
  /\ hashes[loc[t].s] = 0
  /\ Goto(t, "publish", "found")
  /\ hashes' = [hashes EXCEPT ![loc[t].s] = loc[t].index]
  /\ loc' = [loc EXCEPT ![t].v = loc[t].index]
  /\ UnchangedSlots /\ UNCHANGED <<capacity, data, sweep>>

\* Mutant: the winner of the race is passed over without a comparison.
PublishLosesMovesOn(t) ==
  /\ hashes[loc[t].s] # 0
  /\ Goto(t, "publish", "probe")
  /\ loc' = [loc EXCEPT ![t].s = NextSlot(@, capacity), ![t].left = @ - 1,
                        ![t].v = 0]
  /\ UnchangedTable /\ UnchangedSlots /\ UNCHANGED sweep

PublishLoses(t) ==
  /\ hashes[loc[t].s] # 0
  /\ Goto(t, "publish", "compare")
  /\ loc' = [loc EXCEPT ![t].v = hashes[loc[t].s]]
  /\ UnchangedTable /\ UnchangedSlots /\ UNCHANGED sweep

\* The node is already there; a bucket reserved for it must be given back.
CompareEqual(t) ==
  /\ data[loc[t].v] = loc[t].key
  /\ Goto(t, "compare", IF loc[t].index # 0 THEN "free" ELSE "found")
  /\ UnchangedTable /\ UnchangedSlots /\ UNCHANGED <<loc, sweep>>

CompareOther(t) ==
  /\ data[loc[t].v] # loc[t].key
  /\ Goto(t, "compare", "probe")
  /\ loc' = [loc EXCEPT ![t].s = NextSlot(@, capacity), ![t].left = @ - 1,
                        ![t].v = 0]
  /\ UnchangedTable /\ UnchangedSlots /\ UNCHANGED sweep

\* Mutant: the reserved bucket is not given back.
FreeBucketKept(t) ==
  /\ Goto(t, "free", "found")
  /\ UnchangedTable /\ UnchangedSlots /\ UNCHANGED <<loc, sweep>>

FreeBucket(t) ==
  /\ Goto(t, "free", "found")
  /\ used' = used \ {loc[t].index}
  /\ UnchangedTable /\ UNCHANGED <<current, claimed, loc, sweep>>

\* Ok(v) or Err(FullTable); the read section ends.
Return(t) ==
  /\ pc[t] \in {"found", "full"}
  /\ pc' = [pc EXCEPT ![t] = "idle"]
  /\ loc' = [loc EXCEPT ![t] = NoLoc]
  /\ UnchangedTable /\ UnchangedSlots /\ UNCHANGED sweep

(***************************************************************************)
(* clear(except, resize_to), run by a collector between start_gc and       *)
(* end_gc.  Buckets outside `except` keep their stale data.                *)
(***************************************************************************)

\* Mutant: the hashes are kept when the vectors grow.
ClearStartKeepsHashes(except, cap) ==
  /\ sweep.phase = "none"
  /\ \A t \in Threads : pc[t] = "idle"
  /\ capacity' = cap
  /\ hashes' = [s \in 0 .. cap - 1 |-> IF s < capacity THEN hashes[s] ELSE 0]
  /\ data' = [i \in 0 .. cap - 1 |-> IF i < capacity THEN data[i] ELSE NoKey]
  /\ sweep' = [phase |-> "rehash", marked |-> except, todo |-> except]
  /\ UnchangedSlots /\ UNCHANGED <<pc, loc>>

\* The hashes are zeroed, the vectors grown.
ClearStart(except, cap) ==
  /\ sweep.phase = "none"
  /\ \A t \in Threads : pc[t] = "idle"
  /\ capacity' = cap
  /\ hashes' = [s \in 0 .. cap - 1 |-> 0]
  /\ data' = [i \in 0 .. cap - 1 |-> IF i < capacity THEN data[i] ELSE NoKey]
  /\ sweep' = [phase |-> "rehash", marked |-> except, todo |-> except]
  /\ UnchangedSlots /\ UNCHANGED <<pc, loc>>

\* insert_known_data, for the least index left: the first position that is
\* empty takes it, unless an equal node comes first.
Reinsert ==
  LET i    == Least(sweep.todo)
      k    == data[i]
      stop == {n \in 0 .. capacity - 3 :
                 LET e == hashes[ProbeSlot(k, n, capacity)]
                 IN  e = 0 \/ data[e] = k}
      at   == ProbeSlot(k, Least(stop), capacity)
  IN
  /\ sweep.phase = "rehash"
  /\ sweep.todo # {}
  /\ hashes' = [hashes EXCEPT ![at] = IF @ = 0 THEN i ELSE @]
  /\ sweep' = [sweep EXCEPT !.todo = @ \ {i}]
  /\ UnchangedSlots /\ UNCHANGED <<capacity, data, pc, loc>>

\* Mutant: the bitmap is cleared and the marked buckets are not set again.
ClearSlotsUnmarked ==
  /\ sweep.phase = "rehash"
  /\ sweep.todo = {}
  /\ used' = {0, 1}
  /\ current' = StartRegions(capacity)
  /\ claimed' = {StartRegions(capacity)[s] : s \in Splits}
  /\ sweep' = NoSweep
  /\ UnchangedTable /\ UNCHANGED <<pc, loc>>

\* slots.clear: the bitmap holds the marked buckets, the regions are claimed
\* afresh.
ClearSlots ==
  /\ sweep.phase = "rehash"
  /\ sweep.todo = {}
  /\ used' = {0, 1} \cup sweep.marked
  /\ current' = StartRegions(capacity)
  /\ claimed' = {StartRegions(capacity)[s] : s \in Splits}
  /\ sweep' = NoSweep
  /\ UnchangedTable /\ UNCHANGED <<pc, loc>>

-----------------------------------------------------------------------------

InsertStep(t) ==
  \/ Exhausted(t) \/ Probe(t)
  \/ LoadRegion(t) \/ ReserveBit(t) \/ WordIsFull(t) \/ LoadForClaim(t)
  \/ ClaimRegion(t) \/ AlreadyClaimed(t) \/ NoRegionLeft(t) \/ SwitchRegion(t)
  \/ WriteData(t) \/ PublishWins(t) \/ PublishLoses(t)
  \/ CompareEqual(t) \/ CompareOther(t) \/ FreeBucket(t) \/ Return(t)

\* What gc resizes to: twice the capacity, or the maximum when that is less.
Resized == IF 2 * capacity <= MaxSize THEN 2 * capacity ELSE MaxSize

\* A collection keeps any set of the published nodes, and resizes or not.
Clear ==
  \E except \in SUBSET Published, cap \in {capacity, Resized} :
    ClearStart(except, cap)

Next ==
  \/ \E t \in Threads : (\E k \in Keys : Begin(t, k)) \/ InsertStep(t)
  \/ Clear
  \/ Reinsert
  \/ ClearSlots

Spec == Init /\ [][Next]_vars

\* A thread inside find_or_insert is scheduled again and again.
FairSpec == Spec /\ \A t \in Threads : WF_vars(InsertStep(t))

-----------------------------------------------------------------------------

Buckets == 0 .. capacity - 1

Pcs == {"idle", "probe", "reserve", "word", "claim", "switch", "write",
        "publish", "compare", "free", "found", "full"}

\* Between reserving a bucket and either publishing or freeing it.
Holds(t) ==
  /\ loc[t].index # 0
  /\ pc[t] \in {"write", "publish", "probe", "compare", "free", "full"}

TypeOK ==
  /\ capacity \in InitialSize .. MaxSize
  /\ hashes \in [Buckets -> Buckets]
  /\ data \in [Buckets -> Keys \cup {NoKey}]
  /\ used \subseteq Buckets
  /\ current \in [Splits -> RegionsOf(capacity)]
  /\ claimed \subseteq RegionsOf(capacity)
  /\ pc \in [Threads -> Pcs]
  /\ \A t \in Threads :
       /\ loc[t].key \in Keys \cup {NoKey}
       /\ {loc[t].s, loc[t].index, loc[t].v} \subseteq Buckets
       /\ loc[t].left \in 0 .. capacity
       /\ loc[t].region \in RegionsOf(capacity)
  /\ sweep.phase \in {"none", "rehash"}
  /\ sweep.todo \subseteq sweep.marked /\ sweep.marked \subseteq Buckets

\* A bucket belongs to one position of the table or to one thread that still
\* has to publish it, never to two: the write through the UnsafeCell in
\* find_or_insert has no rival, and no handle names two nodes.
BucketsOwnedOnce ==
  /\ \A s, r \in Occupied : hashes[s] = hashes[r] => s = r
  /\ \A t \in Threads : Holds(t) =>
       /\ loc[t].index \notin Published
       /\ \A u \in Threads \ {t} : Holds(u) => loc[u].index # loc[t].index

\* A published bucket is never written: readers clone it without a lock.
PublishedDataFrozen ==
  [][\A i \in Published : data'[i] = data[i]]_vars

\* Nothing leaves its range, and every published node is met by its probes
\* before an empty position, also after collections that rehash part of the
\* table and change the capacity.
Findable ==
  /\ TypeOK
  /\ \A s \in Occupied :
       LET k == data[hashes[s]] IN
         \E n \in 0 .. capacity - 3 :
           /\ ProbeSlot(k, n, capacity) = s
           /\ \A m \in 0 .. n - 1 : hashes[ProbeSlot(k, m, capacity)] # 0

\* Once no call is in progress the bitmap is exactly the published buckets
\* and the terminals: no lost race and no failed insertion leaks a bucket.
NoBucketLeaks ==
  (sweep.phase = "none" /\ \A t \in Threads : pc[t] = "idle") =>
    used = {0, 1} \cup Published

\* What FullTable means: not that the table is full, as its message has it
\* (hashtable.rs:142), but, when each split has one thread, that what is free
\* lies in the regions that other splits are filling or moving to: no region is
\* forgotten, and no bucket of a region left behind comes free again.
OneThreadPerSplit == \A t, u \in Threads : SplitOf[t] = SplitOf[u] => t = u

RegionsOfOthers(t) ==
  {current[s] : s \in Splits \ {SplitOf[t]}}
    \cup {loc[u].cursor : u \in {u \in Threads \ {t} : pc[u] = "switch"}}

RoomOnlyElsewhere ==
  OneThreadPerSplit =>
    \A t \in Threads : pc[t] = "full" =>
      \A b \in Buckets \ used : b \div RegionSize \in RegionsOfOthers(t)

\* Every call of find_or_insert ends, however often it loses a race.
InsertReturns == \A t \in Threads : (pc[t] # "idle") ~> (pc[t] = "idle")

-----------------------------------------------------------------------------

\* The index under which a node can be found; while a collector rehashes,
\* the nodes it has still to reinsert count as kept.
IndexOf(k) ==
  LET at == {i \in Published \cup sweep.todo : data[i] = k}
  IN  IF at = {} THEN 0 ELSE Least(at)

CallOf(t) ==
  LET k == loc[t].key IN
  CASE pc[t] = "idle"  -> [state |-> "none"]
    [] pc[t] = "found" -> [state |-> "answered", key |-> k, index |-> loc[t].v]
    [] pc[t] = "full"  -> [state |-> "failed", key |-> k]
    [] OTHER           -> [state |-> "pending", key |-> k]

Map == INSTANCE InternMap WITH
         Indices  <- 2 .. MaxSize - 1,
         interned <- [k \in Keys |-> IndexOf(k)],
         call     <- [t \in Threads |-> CallOf(t)]

\* find_or_insert is linearizable: it finds or creates the one index of a
\* node at one moment between its call and its return.
ImplementsInternMap == Map!Spec
=============================================================================
