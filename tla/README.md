# A formal model of zuddy

zuddy keeps families of sets as zero-suppressed decision diagrams (ZDDs). The
nodes of all diagrams of one `ZddHolder` live in one lock-free *unique table*
that threads share; handles (`SetFamily`) count references to nodes; a
garbage collector stops the readers of the table, marks what the handles reach
and rebuilds the table; the operations on families are memoised recursions.

These modules state what the parts have to do, check it with TLC on small
instances, and prove with TLAPS, for every size of instance, what the rest of
the library relies on: that the collector works alone, that a bucket has one
owner, that a node has one index, that a handle keeps its node and its identity
across collections, that a memoised recursion may be interrupted by a
collection, what a cache may answer, how much memory it counts and occupies,
that the recursions of both algebras compute their operations on sets of sets,
and that a form written out loads back to the families it was made of.

## 1. The system

| component (source) | state | operations |
|---|---|---|
| pause gate (`manager/hashtable.rs`) | `paused` under a mutex with a condition variable, `is_paused`, `reading[split]` | `read_table` and its guard, `start_gc`, `end_gc`, `wait_until_unpaused` |
| unique table (`manager/hashtable.rs`) | `hashes`, `data`, `counts` | `find_or_insert`, `clear` (rehash and grow), `inc_count`, `dec_count`, `is_held` |
| bucket allocator (`manager/hashtable/slots.rs`) | bitmap of used buckets, `current_region` per split, `claimed_regions` | `reserve_bucket`, `free_bucket`, `clear` |
| handles (`manager/parallelism.rs`, `lib.rs`, `manager/raw.rs`) | the index a handle names | `get_node`, `zdd_node`, `lo`, `hi`, `get`, `children`, `Clone`, `Drop` |
| collector (`manager/garbage.rs`) | roots, marks, the new capacity | `gc(force_resize)` |
| operation cache (`utils/op_cache.rs`, `manager.rs`) | slots under locks, a generation, a byte count | `get`, `insert`, `clear`, `clear_half`, `resize`; the budgets of `manager.rs` |
| temporary caches (`manager/temp_cache.rs`) | an `OpCache` and a generation | borrowed by one operation |
| set algebra (`algebra.rs`) | none of its own | `union`, `intersect`, `difference`, `change`, `insert`, `insert_as_superset`, `extend_as_superset`, ... |
| unate algebra (`algebra/unate.rs`) | none of its own | `join`, division, remainder, `minimal_elements`, `nonsup`, `has_subset_in`, `superset` |
| construction and sizes (`manager.rs`, `utils.rs`) | size caches | `from_sets`, `size`, cardinality bounds, `universe` |
| `SingleSet` (`utils/single_set.rs`) | a one-path diagram and its last value | `pop_first`, `pop_last`, `pivot`, ... |
| weighted algorithms (`algorithms/`) | temporary caches | `max_weight`, `exact_weight_of`, `clip_weight`, `bounded_join`, `subset_cover` |
| owned forms (`serialize.rs`, `serialize/verification.rs`, `iterators.rs`, `utils.rs`) | nodes and roots of a form; the stack of an iterator | `members`, `map`, `to_owned_zdd(s)`, `to_set_family`(`ies`), `check_validity`, `try_from` |
| sampling, output | - | - |

How they interact. Every access to a node goes through a read section of the
gate. An operation of the algebra asks `get_from_cache`, recurses, builds its
answer with `get_node` and stores it with `put_into_cache`. `get_node` calls
`find_or_insert`, turns the index into a handle, and may itself call `gc`
(after more than 32 probes, or because the table is full, when it then calls
itself again). `gc` closes the gate, clears caches, reads every count, marks,
calls `clear`, and opens the gate. Reference counts are touched *outside* the
gate: no guard protects `inc_count` and `dec_count`. The caches live outside the
gate as well: an operation looks up and stores while a collection of another
thread clears them, enlarges them or moves the generation on. The weighted
algorithms borrow temporary caches, which find out about a collection by
comparing generations, each at its own moment.

What is hard:

- three mechanisms without a lock (gate, publication of a node, allocation of
  a bucket) meet on the same memory, part of which is behind `UnsafeCell`;
- a handle is made in two steps, finding an index and counting it, and a
  collection reads the counts one after the other while they change;
- a collection may start inside `get_node`, in the middle of any recursion,
  while frames below hold indices as well as handles;
- the size of two caches is one relaxed counter each, changed by every store
  and by `clear_half` while a collection replaces their tables;
- the answers of `clip_weight` and `bounded_join` are reused for intervals of
  budgets that nobody asked about;
- a bucket that was freed is used again, so that an index that outlives its
  node names another node and not nothing.

What makes each part correct is in section 3, with the module that says it.
The hazards, each at its line, are listed in `PROJECT.json`.

## 2. The modules

| module | models | source |
|---|---|---|
| `TableLock` | what the gate promises: a readers/collector lock | `hashtable.rs` |
| `PauseGate` | the gate, one step for each atomic access, critical section or wake-up | `hashtable.rs`, `garbage.rs` |
| `PauseGateProofs` | theorems about `PauseGate` | |
| `InternMap` | what the table promises: one index for one node | `hashtable.rs` |
| `UniqueTable` | `find_or_insert`, `clear` and the allocator, one step for each atomic access | `hashtable.rs`, `slots.rs` |
| `UniqueTableProofs` | theorems about `UniqueTable`; its refinement of `InternMap` | |
| `Collector` | handles, counts, `get_node` and `gc`, over the table at the grain of `InternMap` and the gate at the grain of `TableLock` | `parallelism.rs`, `garbage.rs`, `hashtable.rs` |
| `CollectorProofs` | theorems about `Collector`, and about a holder that one thread uses | |
| `UnionCache` | `union` with its cache as a stack of frames, collections at each `get_node` | `algebra.rs`, `manager.rs`, `parallelism.rs` |
| `UnionCacheProofs` | theorems about `UnionCache` | |
| `CacheGenerations` | the operation cache, a `TempCache` and an `IntervalCache` against a collection on another thread | `op_cache.rs`, `temp_cache.rs`, `subset_cover.rs`, `garbage.rs` |
| `CacheGenerationsProofs` | theorems about `CacheGenerations` | |
| `OpCache` | slots, tracked sizes and budgets of the operation and size caches under several threads | `op_cache.rs`, `manager.rs`, `garbage.rs` |
| `OpCacheProofs` | theorems about `OpCache` | |
| `Zdd`, `FamilyAlgebra`, `UnateAlgebra` | the pure recursions, over diagrams as terms | `manager.rs`, `utils.rs`, `algebra.rs`, `unate.rs` |
| `OwnedForms` | iteration, `map`, owned forms and their verification | `iterators.rs`, `utils.rs`, `serialize.rs`, `verification.rs` |
| `SingleSets` | `SingleSet` under sequences of calls | `single_set.rs` |
| `AlgebraCalls` | a program that calls the operations of the five modules above | |
| `AlgebraProofs` | theorems about `AlgebraCalls` | |
| `OwnedFormsProofs` | theorems about the owned forms of `AlgebraCalls` | |
| `WeightedFamilies` | the weighted recursions with their interval caches | `max_weight.rs`, `minimum_cutoff.rs`, `subset_cover.rs` |
| `WeightCalls` | a program that calls them, with `subset_cover` step by step | `subset_cover.rs`, `algorithms.rs` |

`MC*` modules give the constants of a module their values for TLC.

The layers are tied by refinement. `PauseGate` implements `TableLock`, proved
for any number of threads and checked by the run `gate`; `UniqueTable`
implements `InternMap` (run `table`). `Collector` uses the two promises, not
the two protocols: a table access is a step guarded by `GateOpen`, finding or
creating a node is one step. `UnionCache` in turn takes a collection of one
thread as one step, which is what `CollectorProofs` proves of it
(`CollectsExactly`, `HeldSurvive`). `CacheGenerations` has the collection and
the caches' generations interleaved but nodes without children. The pure
recursions take handles as canonical terms, which is `EqualityIsIdentity`; that
a canonical term is all there is to a family is `OneDiagramPerFamily`.

### State and actions against the code

`PauseGate`. `paused`, `is_paused`, `reading` and `mutex` are the fields of
`HashTable`; `pc[t]` is the place of thread `t` in `read_table`, `start_gc`,
`end_gc` or `wait_until_unpaused`; `scan[t]` is the index of the draining
loop. `joined` is a history variable. A critical section is one step, because
it has one effect that others can see without the lock. `end_gc` drops the
lock before it notifies, so notifying is a step of its own (`EndGcNotify`).

`UniqueTable`. `hashes[s]` holds the bucket that position `s` leads to, the
24 hash bits of an entry being a function of the node in the bucket. The
compare-and-exchange loop on one word of the bitmap is one step. `loc[t]` are
the locals of `find_or_insert`: the key, the position, the probes left, the
reserved bucket. `clear` takes any subset of the published nodes.

`Collector`. `regs[t]` are the handles a thread keeps, `args[t]` those that
its call owns, `loc[t]` the *indices* it has read and not yet counted. The
windows in which an index is held without a count are states of the model
(`"inc"`, `"child"`, `"get_lo"`, `"get_hi"`: `UncountedPcs`). `used_variables`
is one step per count. `counts.resize_with` is a copy (`GcCopyCounts`) and a
switch (`GcInstallCounts`). `raced` is history: a collection started while
another thread had an index that it had not counted yet, or a count went up
while the counts were copied. A handle carries the family it was made for,
`fam`: a history variable, and the yardstick for what the buckets spell
afterwards (`Family`, by levels of nodes from the terminals up).

`UnionCache`. A frame is a call of `union`: what is left to do, the key it
took on entry, the handles still in scope. `older`, `suspect` and `trusted`
are history: which frames took their key before a collection, which entries
such frames stored, and whether an answer came from one. `Family` reads the
buckets level by level and `Reach` is the least set closed under children:
neither recurses, so that both can be reasoned about.

`CacheGenerations`. A worker has an argument it holds, looks the answer up,
computes it on a miss, stores it, and takes it apart again; the steps of
`OpCache::insert` (generation read, then the slot's lock), of `TempCache` (check
the holder's generation, then use the cache) and of `IntervalCache` (look up,
then compare) are steps of the model. The collection is: new generation, clear,
mark, sweep. `excused` is history: the answer is one of the two kinds that
section 4 describes.

`OpCache`. `slots[c]` are the occupied slots with the tracked size of their
entry, `size[c]` the relaxed counter, `nSlots[c]` the length of the table,
`wipeOdd` the half that `clear_half` takes next. `call[t]` says where a thread
is: between lookup and check, between check and store, in the middle of a
`clear_half` (which takes its turn, then the read lock of the table, empties
slots one by one and subtracts at the end) or of the resizing that a collection
does. Sizes are in bytes
as the code computes them (`TableBytes`).

`Zdd` and the modules on it. A recursion of the code is a function, for
instance `Union[<<f, g>>]`, and one call of it is a definition of its own,
`UnionStep(call, f, g)`, where `call[<<..>>]` is the recursive call: the step is
what the lines in `PROJECT.json` say, and it is what the proofs reason about.
A loop over an explicit stack (`members`, the search of `to_owned_zdds`) is such
a function of the stack. `Diagrams` are the terms that are ordered and have no
zero `hi` child, level by level from the terminals, so that a function of them
has a domain.

`WeightCalls`. A step calls one operation, or is a step of `subset_cover`:
begin a round for `budget`, join two families of the round, answer. The two are
the last one and the one that the heuristic written inline in `subset_cover`
prefers (`subset_cover.rs:128-146`); `Closer` compares its estimates as exact
fractions (section 6).
`answer` records the last call, its arguments and its result; the invariants
compare that with the definition on sets.

## 3. What is checked

Deadlock is checked in every run whose configuration does not say otherwise;
the two that do say why below.

### `gate`: the pause gate

Three threads, two of them sharing one of two counters, read and collect in
every order, with spurious wake-ups.

- `TypeOK`: no counter wraps below 0 or counts more than there are threads.
- `Exclusion`: nobody reads and nobody else has paused while a collector works.
- `NoLostWakeup`: nobody sleeps unless the table is paused or a
  `notify_all` is still to come.
- `GcWaitsForTheEnd`: a `gc()` that met another one does not return before that
  one has ended, whatever wakes it.
- `ImplementsTableLock`: refinement.
- `PauseEnds`, `ReadersResume`: every pause ends, its drain included;
  once collections stop, a reader that was held up gets its section.

Fairness: a thread inside a call is scheduled again and again (weak fairness of
its `Step`), and the condition variable wakes without a notification only
finitely often. Nothing obliges a thread to begin a call, and the mutex is not
fair. `ReadersResume` is conditional for that reason: under collections without
end a waiter may always find the table paused again, since
`wait_until_unpaused` tests the flag anew at every wake-up. Three threads are
enough for a collector, a reader and a refused collector, and two counters for
a reader on a counter that the drain has passed and one on a counter to come.

### `table`, `table_splits`: the unique table

`table`: two threads of one split, three nodes of which two collide at the end of
the table, four buckets that a resize makes eight, a region of four buckets in words
of two: probes wrap, words and regions fill up, both threads claim regions, the
table becomes full, collections keep any subset.

- `BucketsOwnedOnce`, `PublishedDataFrozen`: a bucket has one owner and is
  never written once it can be read, which is what the `UnsafeCell` writes
  need.
- `Findable` (with the types): every node is met by its probes before an empty
  position, also after a rehash that kept a part and enlarged the table.
- `NoBucketLeaks`: lost races and failed insertions give their bucket back.
- `ImplementsInternMap`: `find_or_insert` is linearizable.

`table_splits`: the two threads are on two splits, with regions of two buckets in
words of one, four buckets that become six, which is the maximum and less than
twice four. Three regions are enough for one that both may claim.

- `RoomOnlyElsewhere`: when an insertion says that the table is full, every bucket
  that is still free lies in a region that *another* split is filling or moving
  to. What `FullTable` does not mean is in section 4. The property supposes one
  thread to each split (`OneThreadPerSplit`): two threads of one split leave
  regions behind (section 4). A search that starts one region too far
  (`LoadForClaimSkips`) breaks it.
- `InsertReturns`: every call ends, under weak fairness of the thread, while the
  other thread claims regions, up to a full table. A search that does not step
  over a claimed region (`AlreadyClaimedStays`) breaks it. Two threads of one
  split, whose words and positions they contend for, are in `table`, for safety.

The symmetry of `table` exchanges the two threads (they are on one split) and the
two nodes of one hash; the runs with a liveness property use none.

### `collector`, `collector_pair`: handles and collections

`collector`: one thread, three places for handles, two values, a table of three
buckets that grows to five (one to three nodes), every call of the handle
interface; a second thread keeps one handle that it is sent and may send it
back. `HeldSurvive` (a handle spells its family), `EqualityIsIdentity` (equal
index exactly if equal family), `CountsExact` (with the types) and
`CollectsExactly` (a collection keeps the reachable nodes and no other). A call
that fails at the maximum size panics, drops its arguments as it unwinds, and the
thread goes on with other calls.

The table of this module has no regions. An insertion fails when at most
`OutOfReach` buckets are free: with one thread to a split that is what may be
free in the regions of other splits, `(NSplits - 1) * RegionSize` at most
(`RoomOnlyElsewhere`). The runs take 1, so that an insertion may fail with a
bucket free or without one, or succeed with the last.

`collector_pair`: one thread builds, takes apart (`lo`, `hi`, `get`), drops and
collects when the table makes it, the other calls `gc` at any moment of that.
`HeldSurvive` fails as soon as two threads do this (section 4);
`OnlyMissedCountsLoseNodes` says what is to blame and that nothing else is: a
collection that started while another thread had taken an index from the table
and not counted it yet, or a count that went up while `resize_with` copied it.
Clones, drops, moves and other calls of `gc` in the middle of a scan are
harmless. `NodeReturns` (`get_node` collects and retries, but not for ever) is
checked with it, under weak fairness of both threads. The constraint `RaceFree` ends a behaviour at its
first race, where buckets with unrelated content are used again and the states
multiply without saying more; the invariant is proved without it (section 5),
the liveness property speaks of behaviours without a race.
`NodeReturns` assumes that the program stops calling `gc`: a thread that
collects for ever can starve the others.

### `union_cache`: memoisation across collections

Every program with two handles over two values in a table of four nodes, whose
maximum size it has: `MakeNode`, clone, drop, `union`, `gc`, and a collection
at any new node inside a recursion.

- `OnlyStaleKeysMislead`: an answer is right unless it goes back to an entry
  stored by a call that a collection interrupted and that no longer held both
  nodes of its key. With `UnionCorrect` violated (section 4) this says exactly
  what has to be repaired: nothing else in the recursion is at fault.
- `CacheSound`: all other entries are true of the nodes they name.
- `HandlesSound`: what frames own is not collected under them, also when a
  panic unwinds, and no cached answer names a freed bucket.

### `gc_caches`: caches against another thread's collection

Two workers and a collector, three families of which two have a result among
them, three buckets, two collections (`MaxGcs`; `CHECK_DEADLOCK FALSE` because
the program ends after them). Two collections let an entry survive one and
mislead after the next.

- `OpCacheSound`: a call through the operation cache ends with the right node,
  except for an entry stored between `clear` and the sweep, or a `clear` between
  the lookup and the count.
- `OwnCacheSound`: the same for a `TempCache` and an `IntervalCache`. That the
  exceptions are all there are is the content of both; they are findings
  (section 4).

### `op_cache`: sizes and budgets

Two threads over a table of one node of capacity that a collection may find
with 2 or 9 live nodes; keys with the hashes 0, 1, 3 and 64 (0 and 64 collide in
the 64 slots that the cache starts with, and not after growth), entries of 24
and 40 bytes, and for `cache_max` the values 63 (not two tables of two slots), 64
(exactly those), 208 (less than the tables wanted), 1300 (room for entries) and
no limit. Between them every branch of the budget computation, the assertion of
`set_cache_size`, collisions, both halves and a growth during a halving happen.

- `SizeExact`: the tracked size is the tables, the slots and what a `clear_half`
  in progress has yet to subtract; it never drifts.
- `TablesFitCap`: the tables alone stay under `cache_max`, but for one case
  (section 4), and `set_cache_size` panics only when the least tables do not fit.
- `SizeBounded`: halving is enough, though check and store are not atomic: since
  the last growth has been absorbed, what the caches occupy (`Occupied`: tables
  and slots) exceeds `cache_max` by at most two entries a thread, and two threads
  do get four entries over tables that fill it. The bound is about memory, not
  about the counter that the checks read: a `clear_half` that is slow to end
  keeps what it has dropped in the counter, and others may store, in slots it
  comes to later, one entry after another that it then drops as well. The
  counter can so exceed `cache_max` by half a table of entries; with twelve
  slots in use two threads pass it by more than seven.

`CHECK_DEADLOCK FALSE`: the program stops when `set_cache_size` panics.

### `algebra`: the pure recursions

All 65,536 families over four values, and all pairs of a family over four with
one of the 256 over three, through `from_sets` and every operation; an answer is
compared with the definition on sets and has to be the canonical diagram.
`MaxUsize` is 5, so that sizes overflow.

- `ConstructionExact`: `from_sets`, sizes, cardinality bounds.
- `ElementOperations`, `FamilyOperations`, `FilterOperations`: the set algebra
  and the unate algebra.
- `MembersExact`: `members()` yields every set once, values in order, and `map`
  replaces the values of every set, also by a function that merges or reorders
  them.
- `FormsExact`: a form of a family is accepted and loads to that family;
  `check_validity` accepts what can be loaded, and loading gives the canonical
  diagram also of forms with repeated nodes, skipped levels or empty `hi`
  children. The forms are all those of two nodes over two values and some of
  three, with children anywhere.
- `BehavesAsASet`: a `SingleSet` answers as an ordered set does under every
  sequence of pops and pivots.

### `weights`: weighted families

Every family over three values, alone and with a partner of at most two sets,
and triples over two values; weightings with zero, equal and negative weights,
budgets from -10 to 10.

- `WeightsExact`: maxima, minima, bounds, histograms and the families of exact,
  lesser and minimal weight.
- `IntervalsSound`: what `clip_weight` and `bounded_join` store for an interval
  of budgets is right for every budget in it, not only for the one asked.
- `CoverIsMinimal`: `subset_cover`, joining in the order of its heuristic,
  answers the unions of least weight, or that there is none within `max_budget`,
  and it never passes the least weight.

## 4. Where the code does not do what it says

Each of these has a run that ends in a counterexample:

- `insert_race`: `get_node` counts the node after its read section has ended. A
  collection in between frees the node, and the handle names a free bucket.
- `union_cache_stale`: `union` stores its answer under indices of nodes that it
  may have dropped and that a collection may have replaced.

The same window, in other places; `raced` counts them, so that
`OnlyMissedCountsLoseNodes` is true:

- A thread that takes `lo(self)` or `hi(self)` during the root scan counts the
  child behind the scan and drops the parent in front of it.
- `get(&self)` and `children(&self)` keep the parent, and still: the indices are
  read before the scan starts, the children are counted behind it, and then the
  parent is dropped before the scan comes to it.
- `get_from_cache` (`manager.rs:234`) counts an index of the cache after the
  lookup.

Excused in `CacheGenerations`:

- The caches are cleared at the start of a collection (`garbage.rs:74`), the
  sweep comes later: an entry of the new generation may name a bucket that this
  sweep frees.
- `IntervalCache::get` answers hits without a look at the generation, because
  "hits can't have been invalidated since the last check"
  (`subset_cover.rs:223-224`); a collection of another thread in between does.

Met while modelling, and visible in the properties as stated:

- `FullTable` does not mean that the table is full. With a table of two regions
  and two threads on two splits, one inserts two nodes, its region is full, the
  other region belongs to the other split, and a third node gets `FullTable` with
  half of the table free. The message of the error says "The table is full, with
  {n_used}/{size} filled !" (`hashtable.rs:142`). By default there are as many
  splits as threads (`manager.rs:63`): a program with one thread meets it early,
  collects and grows; at `max_table_size` it is the panic. Where the room is then
  is `RoomOnlyElsewhere`.
- The assertion of `get_node` (`parallelism.rs:162`) reads `capacity()` after the
  insertion has failed and left its section. A collection of another thread in
  between may enlarge the table to its maximum; the call then panics with "The
  unique table is full at its maximum size" though the insertion failed in a
  smaller one, and there is room now. `FindFull` and `FullPanics` are two steps,
  so the model does the same.
- `claim_region` reads the current region of the split again (`slots.rs:160`)
  and moves past it, also when it is not the one that was found full
  (`slots.rs:170-171`): the region another thread has just claimed is left behind
  with its buckets free (`RoomOnlyElsewhere` supposes one thread to each split).
- `counts.resize_with` moves the counts while other threads may change them; a
  change between `GcCopyCounts` and `GcInstallCounts` is lost. (In Rust this is
  undefined behaviour; the model gives it the mildest outcome.) With it,
  `CountsExact` is out of reach for two threads and a growing table.
- `set_cache_size` returns early when the caches fit. A later collection that
  grows one of two unequal tables up to its own budget may leave the two
  together above `cache_max`; from then on every store halves both caches
  (`TablesFitCap` excepts it).
- `max_weight` and the upper bound take 0 for the maximum of an empty branch,
  which is wrong when all weights of the family are negative (`WeightsExact`
  asks for an upper bound only, then).
- `subset_cover` panics when two of its families are `{{}}`, because the
  estimate for the pair is not a number; its "# Panics" section does not say so.
  A single family ignores `max_budget`.
- The formula for `change` (`algebra.rs:376`) keeps the sets without the value
  as well; the code toggles, and `ElementOperations` checks the toggling.
- The comment that `clip_weight` takes "only positive or zero weights" is
  stricter than the code: with a signed type it is right for negative ones.
- `check_validity` indexes the nodes with a root unchecked and panics for a
  root that is no node.
- A pivot above all values gives an empty upper `SingleSet` that still answers
  `last()`.
- `set_weights` adds the numbers of sets of a weight in `usize` with `+=`
  (`max_weight.rs:294`), where `UsizeOrPositiveInfinity` saturates.

## 5. What is proved

Every theorem is about all values of the constants, under the assumption of the
module that declares them.

### `PauseGateProofs`

For every finite set of threads, every number of counters and every assignment
of threads to counters (`GateAssumption`):

| theorem | statement |
|---|---|
| `TypeCorrectness` | `Spec => []TypeOK`; no counter falls below 0 |
| `CollectorExclusion` | `Spec => []Exclusion` |
| `WakeupsArrive` | `Spec => []NoLostWakeup` |
| `RefusedGcWaits` | `Spec => GcWaitsForTheEnd` |
| `GateImplementsLock` | `Spec => ImplementsTableLock` |

`Exclusion` is not inductive. Why nobody reads after the drain depends on what
the drain has seen and on why that stays so, and the invariant `IInv` says it:

- `CountersExact`: a counter is the number of threads of its split between
  raising and lowering it. Without it a counter at 0 says nothing.
- `FlagAgrees`, `PausedByOwner`, `OneOwner`: the flag that readers test is the
  flag under the mutex, up exactly while one thread has paused the table. A
  reader that raised its counter late tests it again and turns back.
- `ScannedSplitsEmpty`: nobody *reads* on a split that the drain has passed,
  although its counter may rise again for a moment.
- `DrainedEmpty`: at the end of the scan, nobody reads at all; this is
  `Exclusion` together with `OneOwner`.
- `JoinedWhilePaused`, `NoLostWakeup`: for `GcWaitsForTheEnd` and the waiters.

The refinement maps the readers to the threads at `"reading"`, the owner to the
thread that has paused and not yet unpaused; `StepRefines` maps each step to a
step of `TableLock` or to a stutter. That no two threads are ever in a rebuilt
table at once is what every other module takes for granted.

### `UniqueTableProofs`

For any threads and splits, any geometry of regions and words, any hash function
(`TableAssumption`):

| theorem | statement |
|---|---|
| `TypesHold` | `Spec => []TypeOK` |
| `OwnedOnce` | `Spec => []BucketsOwnedOnce` |
| `DataFrozen` | `Spec => PublishedDataFrozen` |

A bucket taken from the bitmap is new because the bitmap covers index 0, all
that is published and all that threads hold (`TableInv`). After a collection it
does so because the rehash publishes marked buckets only, each of them once,
before the bitmap is set to the marked ones; and a capacity stays a whole
number of regions, so that every bucket that is handed out exists. A published
bucket is written by nobody because the writer would have to hold it.

The second half of the module is about `InternMap`, from the same assumption:

| theorem | statement |
|---|---|
| `NodesFindable` | `Spec => []Findable` |
| `NoLeaks` | `Spec => []NoBucketLeaks` |
| `TableImplementsMap` | `Spec => ImplementsInternMap` |

The invariant (`MapInv`) adds what each thread has behind it: its first
`Probes` positions hold entries of other nodes (`Passed`), and they stay there
while no collection runs. Where it meets an empty position, an entry of its
node would have been reached before that position, hence passed: so there is
none (`NotKnown`), two indices never have one node (`OneIndexEach`), and the
`compare_exchange` is the moment at which the node is created. A thread that
holds a bucket always finds an end to its probes: the published buckets are
fewer than the positions (`EmptyPosition`, by counting), so a call fails only
with nothing reserved and the bitmap stays exact (`BitmapExact`). The same
counting shows that a rehash finds a place for every marked bucket; a rehash is
a stutter of the map because marked buckets count as kept. The arithmetic of
the probes (`ProbeSlots`, `ProbesCover`) is proved for every capacity.

With this, what `Collector` and all modules above it assume of the table, one
atomic step that finds or creates the one index of a node, is proved of the
code's loop.

The third part is about the allocator:

| theorem | statement |
|---|---|
| `FullOnlyByOthers` | `Spec => []RoomOnlyElsewhere` |

The invariant (`RoomInv`) says what becomes of a claimed region: it is full, or
its split is filling it, or a thread has claimed it and not yet moved to it
(`ClaimsKept`), each for one split or thread only. And it says what a search for
a bucket has seen (`SearchOk`): words that are full, then a region that is full
and of its own split, then regions that are claimed (`PassedBy`, around the end
of the table). Both stay true because only the thread of a split takes and gives
back buckets of its region, which is where `OneThreadPerSplit` is needed: a
bucket that comes free again (`FreeBucketRoom`) lies in the region the split is
filling (`BitsOfRegion`). A search that comes back to its own region has so passed
claimed ones only, and what is free in those is for others. The other way to
`FullTable`, all positions probed, needs `MapInv`: no position was empty, so no
bucket is free (`ExhaustedRoom`).

### `CollectorProofs`

For any finite set of threads and of places, any number of values, any table
size and any assignment of calls to threads (`CollectorAssumption`):

| theorem | statement |
|---|---|
| `Canonical` | `Spec => []TableCanonical`: no node is in the table twice, whatever has raced |
| `Survival` | `Spec => []OnlyMissedCountsLoseNodes` |
| `Identity` | `Spec => [](~raced => EqualityIsIdentity)` |

`HeldSurvive` needs four things that hold together as long as nothing raced
(`Sound`), on top of types and of who holds the gate (`Frame`):

- `CountsCover`: a count is no less than the number of places that hold the
  node, and what is counted is in the table. It is an inequality: a drop
  that the copy of the counts loses leaves a count too high, which is safe.
- `TableSpells`: the table is closed, ordered, and the family of a node is made
  of the families of its children. `FamilyUnique` (a least-counterexample
  argument over levels) shows that over such a table there is one way to spell
  families, so that a new node leaves the family of every other alone.
- `TakenLive`: an index taken and not yet counted is in the table, and no
  collection has begun. This is the part that a race breaks.
- `ScanComplete`: what the scan has passed and is counted is among the roots; a
  clone behind the scan has its original among them, too.

Then a sweep keeps what is reachable (`ReachIsClosed`), which holds every node
that is held with all nodes below it. `Identity` needs the reverse as well:
`FamilyTells`, that two indices of a canonical, ordered and closed table spell
different families, which is the theorem that zero-suppressed diagrams are
canonical. Every step has a lemma `<Step>Frame` and a lemma `<Step>Sound`;
`StepInv` puts them together.

The second part of the module has the further hypothesis `OneCaller`: of any two
threads one makes no call but `send`. That is a holder that one thread uses
while others keep handles for it, as in the run `collector`. With two callers
`HeldSurvive` and `CountsExact` fail (section 4).

| theorem | statement |
|---|---|
| `HeldSurvives` | `OneCaller => (Spec => []HeldSurvive)` |
| `Counts` | `OneCaller => (Spec => []CountsExact)` |
| `CollectsWhatIsHeld` | `OneCaller => (Spec => CollectsExactly)` |

`AInv` is the invariant of the first part with its missing half:

- `~raced`: when the only caller collects, it holds no index it has not
  counted, so that nothing is due at the start of a scan or during the copy.
- `Tight`: a count is no *more* than the places that hold the node. Together
  with `CountsCover` it is an equality.
- `Rooms`: the places a call is going to fill are empty until it does, and those
  it has given away stay empty. Without it a handle could be overwritten and
  never dropped, and `Tight` would not be inductive.
- `Quiet`: the copy of the counts is the counts, and the roots are counted.

`CollectsExactly` then follows from both halves: what is kept is what the roots
reach, and the roots are what is counted, which is what a handle names.

### `CacheGenerationsProofs`

For any number of workers, families, buckets and collections:

| theorem | statement |
|---|---|
| `OperationCache` | `Spec => []OpCacheSound` |
| `OwnCaches` | `Spec => []OwnCacheSound` |

The invariant says of each entry for which generation it was stored and what
that still means at each phase of a collection: an entry of the current
generation is right unless it was stored between the clear and the sweep, and
an older entry is never answered after a check.

### `UnionCacheProofs`

For any number of values, any finite set of places, any capacity
(`UnionAssumption`), with the stack of calls as deep as it gets:

| theorem | statement |
|---|---|
| `HandlesStaySound` | `Spec => []HandlesSound` |
| `CacheStaysSound` | `Spec => []CacheSound` |
| `StaleKeysAlone` | `Spec => []OnlyStaleKeysMislead` |

The invariant (`UInv`) has two parts, because the first has to survive a wrong
answer and the second does not.

- `SInv` holds always. The table is ordered and closed; what a frame owns is in
  it; the values grow along the stack (`StackOrdered`), which bounds the depth
  and keeps a node from getting a zero `hi` child. A suspect entry may answer
  with the wrong family and still may not break the order: every key keeps one
  index whose handle is still held and whose value is the node's
  (`FrameOrdered`), and an answer's value is no lower than that
  (`CacheOrdered`).
- `MInv` holds as long as no suspect entry was used. Every handle spells its
  family; what a frame has left to do makes, with what it has, the family it
  owes (`Means`); and a key is true of the nodes it names as long as its frame
  holds them or took it after the last collection (`KeysTrue`). That is where
  `union_cache_stale` comes from: of the two conditions a frame may fail both,
  and only then its entry is suspect.

A collection keeps the families of what it keeps (`Reach` is closed under
children, and `FamilyIn` looks at nothing else); a new node leaves the others
alone.

### `OpCacheProofs`

For any finite set of threads, any hashes, sizes of entries, limits and live
counts (`OpCacheAssumption`):

| theorem | statement |
|---|---|
| `SizeStaysExact` | `Spec => []SizeExact` |
| `TablesStayUnderCap` | `Spec => []TablesFitCap` |
| `OccupancyBounded` | `Spec => []SizeBounded` |

`SizeExact` relates a counter to two sums, over the slots and over the threads
in the middle of a `clear_half`. The module proves first that a sum changes by
what one place changes (`SumDropped`, `SumFilled`, `SumMoved`, from the fold's
definition by least counterexample). Then each step balances: a slot that is
wiped moves its size from the one sum to the other, the end of `clear_half`
takes it out of the other and out of the counter, a store changes counter and
slot alike, and a table is replaced only when no thread is wiping it.

For `TablesFitCap` the invariant (`Granted`) says that tables which
`set_cache_size` has resized already have every slot a collection may grant,
which needs that rounding to a power of two keeps the order
(`CapacityOrdered`) and less than doubles (`CapacityReaches`): hence the factor
two of headroom in `cache_slot_budget`. Where `set_cache_size` returns early it
is `SizeExact` that says the tables fit.

For `SizeBounded` the invariant (`SInv`) says that ages can be given to the
entries and stamps to the threads (`Traced`). They are nowhere in the code, and
no history variable keeps them: the invariant is that there are such numbers.
At some moment the sizes fitted; the entries that were there then, and still
are, have age 0 and fit with the tables under `cache_max`. A young entry's age
is the number of stores since, its own included, and a thread's stamp the number
of stores since it loaded the size. Then

- no two young entries have the same age, so there are no more of them than the
  greatest age;
- an entry's age is bounded by what the threads are at (`Balanced`): the age and
  the threads that will store without another turn at the entry's half, which
  owe it a store, are together at most the threads, those that hold a turn which
  will drop it, and one if the next turn does. Since turns alternate, two turns
  that spare an entry have one between them that drops it; with
  `HalveSame` for `Halve` this is what fails. So no age is over two for each
  thread, and that is the bound;
- a thread at its check has counted what was there when it loaded the size. If
  its check passes, all this fits, and becomes old: only the stores since its
  load stay young, and it owes those a store (`CheckPasses`).

A store ages the young entries by one, and the thread that stores owes one
less (`InsertAges`); a halving takes a turn and owes a store (`HalveTraces`).
The bound is attained: with one entry less TLC finds a behaviour of two threads
that exceeds it.

### `AlgebraProofs`

For every finite set of positive values, any `MaxUsize` that is no less than
their number, any partners and any functions and forms (`ZddAssumption`,
`CallsAssumption`):

| theorem | statement |
|---|---|
| `ConstructionIsExact` | `Spec => []ConstructionExact` |
| `ElementOperationsAreExact` | `Spec => []ElementOperations` |
| `FamilyOperationsAreExact` | `Spec => []FamilyOperations` |
| `FiltersAreExact` | `Spec => []FilterOperations` |
| `MembersAreExact` | `Spec => []MembersExact` |
| `SingleSetIsASet` | `Spec => []BehavesAsASet` |
| `OneDiagramPerFamily` | a family of sets has exactly one diagram |

The invariant (`AlgebraInv`) is these properties with the fact that the two
families are kept; the weight is on the lemmas about the recursions, of which
the calls of a step cite one each (`UnionExact`, `JoinExact`, `SplitExact`, ...).

A recursive function `f[x \in D] == Step(f, x)` stands for a choice among the
functions that solve its equation: nothing is known of it before some function
does, and nothing of its values before all that do agree. Both come from the
same lemma, `<Op>StepExact`: if the calls that a call makes, all on arguments of
lower rank, answer right, so does it. First, the function that answers with the
one diagram of the right family (`Diagram`) solves the equation, because its
step is right and there is only one right diagram. So the recursive function
solves it too, and then, by induction on the rank (`RankInduction`, from the
least counterexample; the library's induction theorems cannot be used), it
answers right everywhere. The rank of a call is the levels of both its diagrams
(`PairRank`); where the code swaps them (`union`, `join`) twice that, and one more
for the order that is swapped; it is the level of the divisor for `divide`, of
the only diagram for the operations with a value or a set of values, the number
of values left for `superset`, and for `from_sets` the number of values that
occur in the range.

For a step the proofs reason with cofactors. A family is known by the sets
without a value `v` and by the sets with it, `v` taken out; a node at `v` is
right if its children stand for these two (`IsByCofactors`); and for each
operation one lemma says what the cofactors of its result are, from those of the
arguments (`ProductCofactors`, `QuotientCofactors`, `SubsetCofactors`,
`MinimalCofactors`, ...). The lemmas carry what the branches of the code rest
on:

- `join` of two nodes with one value is four joins, three of which have the
  value; a quotient is an intersection of two quotients by smaller families, the
  divisor without sets excluded (the code panics there);
- `minimal_elements` drops those sets with `v` that have a subset without it,
  after it has minimised both parts;
- `has_subset_in` leaves out what cannot fit by size: from the exact cardinality
  bounds, a family whose least set is larger than the greatest set of the other
  has no subset in it (`HasSubsetInStepExact`, `SmallerPairs`);
- sizes saturate and stay there: the size of a node is that of the union of two
  disjoint families, and an infinite part keeps the sum infinite
  (`SizeStepExact`);
- in `from_sets` the flag for the empty set goes to one of the two halves of a
  range and to no other (`SplitStepExact`);
- what a stack of the iterator yields is what its entries yield, one after the
  other: the list of a node (`Listing`: the sets with its value, then those
  without) with the values above it in front of each (`YieldsEntry`,
  `MembersListing`). That there is a function from nodes to their lists, for which
  no closed form was at hand, is `Recursion`: if the calls of a recursion have
  lower rank than their caller, it has a solution;
- the cached `last` of a `SingleSet` is the greatest value of its path after
  every pop and pivot, except that the empty upper half of a
  pivot keeps a stale one (section 4; `SingleStep`).

### `OwnedFormsProofs`

On top of `AlgebraProofs`, from the same assumptions and that the forms a program
may be given are well typed (`CallsAssumption`):

| theorem | statement |
|---|---|
| `FormsAreExact` | `Spec => []FormsExact` |

It has two halves, one for each direction.

*Loading.* `check_validity` searches from the roots; what it reaches is the least
set that has them and the children of its nodes without a fault (`ReachedLeast`,
by induction on the number of children not yet visited, `SearchRanks`). If it
finds no fault and as many nodes as there are, it has found all of
them (`AcceptedParts`), so that every child is at a lower index and has a greater
value. By induction on the index (`PositionInduction`) the loaded diagram of
each index is the one diagram of the sets spelt there (`LoadExact`); the value
order is what lets `get_node` be called with these children. A child that is no
node has an index above its parent's and is a fault before it is opened, so only
a root can make the test panic (`OpensNodes`).

*Making.* The search of `to_owned_zdds_with_mapping` with its stack visits what
the plain recursion would that visits the `hi` child, the `lo` child and then
adds the node (`Visit`; `DfsIs`: the stack `Search(z)` on any rest goes on as that
rest does after the recursion). The recursion keeps the terminals first, every
node once and after its children (`VisitCloses`), keeps what was visited
(`VisitKeeps`) and visits only what the families reach (`VisitStays`). Then the
form has no fault (`FormSound`) and every node of it is reached from its roots, so
that none is counted as unvisited (`FormAccepted`); it loads to the diagrams that
were visited (`FormLoads`); and two equal nodes of it would be one diagram
(`FormDistinct`).

### Only model-checked

- Liveness: fairness and `ENABLED` are outside the prover's reach.
- `WeightsExact`, `IntervalsSound` and `CoverIsMinimal`: the weighted recursions
  carry caches as records through `RECURSIVE` operators, which the prover does
  not take.

## 6. Abstractions and what is left out

- Memory is sequentially consistent. The orderings of the code are weaker in
  places (`hazards` names the lines); the models do not speak about them.
- Hash bits are a function of the node; a false match of 24 bits is repaired by
  `equal_at_index` and has no effect.
- `Collector` has no regions: `OutOfReach` stands for the buckets that are free
  in regions of other splits. A region that two threads of one split leave behind
  (section 4) is not counted in it.
- A `max_table_size` is a whole number of regions (`TableAssumption`); the code
  takes any number (the hazard at `hashtable.rs:151`).
- The cache of `UnionCache` loses nothing before a collection. An entry lost to
  a slot collision or to `clear_half` is a miss, and a miss is always possible.
- The bucket of a collected node is emptied in `UnionCache`, in the code it
  keeps its node; `HandlesSound` says that nothing could tell.
- `CacheGenerations` has nodes without children, and counts a node at once.
- Diagrams in `Zdd` are terms: the table is left out there, not the order of
  the recursion's cases. Values are small integers in their order.
- Weights are integers: overflow of the weight type is left out. The heuristic
  that pairs families in `subset_cover` compares rounded `f64` products; the
  model compares exact fractions. For families as small as those of the run the
  two agree; for large ones rounding may decide a tie otherwise, and
  `CoverIsMinimal` says nothing of the other order.
- A `TempCache` and the interval caches may lose entries; their estimates of
  memory and the halving these lead to are not modelled otherwise.

Not modelled: sampling (its property is a distribution); graphviz and `Display`
(layout); `number_of_recursive_calls` (a statistic); the bytes that serde
writes; the rounding of a requested table size to regions of 512 and the
bitmap words it needs (the constants of `UniqueTable` are assumed to fit, the
hazard at `hashtable.rs:151` is listed); panics of the caller's hash function
or of the allocator; examples and benchmarks.

## 7. What could come next

1. `UnionCache` over the operation cache as it is: a slot for each hash, entries
   of older generations, halving.
2. The arithmetic of capacities (`hashtable.rs:148-169`): rounding, growth, a
   `max_table_size` that is no multiple of a region.
3. Weak memory for the publication of a node: the relaxed failure ordering of
   the `compare_exchange` at `hashtable.rs:268`.

## 8. Running

In this directory:

    tlc -workers 2 -config MCPauseGate.cfg MCPauseGate
    tlapm PauseGateProofs.tla

`PROJECT.json` lists, for each run, its module, configuration and properties;
for each property a mutation of the model that breaks it; and for each
definition the lines of the source it stands for.
