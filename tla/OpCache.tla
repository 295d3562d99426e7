------------------------------- MODULE OpCache -------------------------------
(***************************************************************************)
(* What the operation cache and the size cache of a holder occupy          *)
(* (src/src/utils/op_cache.rs) and how cache_max bounds it                 *)
(* (src/src/manager.rs), with several threads that look up and store       *)
(* results, one of which may collect and grow both tables.                 *)
(*                                                                         *)
(* A key is its hash.  A slot is its tracked size: what an entry answers,  *)
(* and for which generation, is the subject of CacheGenerations, and clear *)
(* changes nothing here, for a stale entry is still counted.  The lookup   *)
(* and the store of an entry happen under the lock of its slot and are one *)
(* step; clear_half takes the slots one after another.  A u64 counter that *)
(* wraps is an integer: the slots' sizes never add up to 2^64.             *)
(***************************************************************************)
EXTENDS Integers, FiniteSets, Functions

CONSTANTS
  Threads,     \* the threads that share the holder
  Hashes,      \* [Caches -> the hashes of the keys used with it]
  EntrySizes,  \* what an entry may occupy, in bytes
  CacheMaxes,  \* the values given to set_cache_size
  LiveCounts,  \* how many nodes a collection may find alive
  Capacity     \* of the holder, given to with_capacity

Caches == {"op", "size"}
BytesPerSlot == 16
Unlimited == -1

ASSUME OpCacheAssumption ==
  /\ IsFiniteSet(Threads)
  /\ Hashes \in [Caches -> SUBSET Nat]
  /\ EntrySizes \subseteq Nat \ {0}
  /\ \E bytes \in EntrySizes : \A x \in EntrySizes : x <= bytes
  /\ CacheMaxes \subseteq Nat \cup {Unlimited}
  /\ LiveCounts \subseteq Nat /\ Capacity \in Nat

VARIABLES
  cacheMax,   \* cache_max
  nSlots,     \* the length of each cache's table
  slots,      \* its occupied slots: slot -> the size of the entry
  size,       \* the tracked size
  wipeOdd,    \* which half clear_half drops next
  call,       \* what each thread is doing
  panicked,   \* set_cache_size has failed its assertion
  grown,      \* history: a collection enlarged a table under this cache_max
  fitted,     \* history: set_cache_size had to resize the tables
  settled     \* history: the size fitted since a table was last enlarged

tables == <<nSlots, slots>>
history == <<grown, fitted, settled>>
vars == <<cacheMax, nSlots, slots, size, wipeOdd, call, panicked, history>>

Step(pc) == [pc |-> pc]
Idle == Step("idle")

\* slot_capacity: the least power of two, at least 2.
SlotCapacity(n) ==
  LET P[p \in Nat] == IF p >= n THEN p ELSE P[2 * p] IN P[2]

InitialSlots == [c \in Caches |->
  SlotCapacity((IF c = "op" THEN 64 ELSE 16) * Capacity)]

TableBytes(n) == BytesPerSlot * n

Init ==
  /\ cacheMax = Unlimited
  /\ nSlots = InitialSlots
  /\ slots = [c \in Caches |-> <<>>]
  /\ size = [c \in Caches |-> TableBytes(nSlots[c])]
  /\ wipeOdd = [c \in Caches |-> FALSE]
  /\ call = [t \in Threads |-> Idle]
  /\ panicked = FALSE
  /\ grown = FALSE /\ fitted = FALSE /\ settled = TRUE

-----------------------------------------------------------------------------

RegularCacheSize(s) == s["op"] + s["size"]
Fits(s) == cacheMax = Unlimited \/ RegularCacheSize(s) <= cacheMax

Least(S) == CHOOSE i \in S : \A j \in S : i <= j
Lesser(a, b) == IF a <= b THEN a ELSE b

SlotsOf(c) == {h % nSlots[c] : h \in Hashes[c]}
Half(c, odd) == {i \in SlotsOf(c) : i % 2 = (IF odd THEN 1 ELSE 0)}

Filled(s, i, bytes) ==
  [j \in DOMAIN s \cup {i} |-> IF j = i THEN bytes ELSE s[j]]

SizeIn(c, i) == IF i \in DOMAIN slots[c] THEN slots[c][i] ELSE 0

Goes(t, step) == call' = [call EXCEPT ![t] = step]

\* size' as a step of this thread leaves it.
Sized(s) == size' = s /\ settled' = (settled \/ Fits(s))

(***************************************************************************)
(* get_from_cache, put_into_cache, size_cache_get, size_cache_insert       *)
(***************************************************************************)
\* All four check the size first.  What a thread then looks up or stores is
\* its own affair until it does: Get and Insert choose it.
Access(t) ==
  /\ call[t] = Idle
  /\ Goes(t, IF cacheMax = Unlimited THEN Step("use")
             ELSE [pc |-> "check", seen |-> size["op"]])
  /\ UNCHANGED <<cacheMax, tables, size, wipeOdd, panicked, history>>

At(t, pc) == call[t].pc = pc
Wiping(t, c) == At(t, "wipe") /\ call[t].half = c

\* clear_caches_if_over: the second of the two loads.
Check(t) ==
  /\ At(t, "check")
  /\ Goes(t, Step(IF call[t].seen + size["size"] > cacheMax
                  THEN "halve_op" ELSE "use"))
  /\ UNCHANGED <<cacheMax, tables, size, wipeOdd, panicked, history>>

HalveOf(c) == IF c = "op" THEN "halve_op" ELSE "halve_size"

\* clear_half has taken its turn, and not yet the read lock of the table.
Turn(c, odd) == [pc |-> "turn", half |-> c, odd |-> odd]

\* The slots to go, and the bytes dropped so far.
Wipe(c, todo, freed) ==
  [pc |-> "wipe", half |-> c, todo |-> todo, freed |-> freed]

\* Mutant: always the same half.
HalveSame(t, c) ==
  /\ At(t, HalveOf(c))
  /\ Goes(t, Turn(c, wipeOdd[c]))
  /\ UNCHANGED <<cacheMax, tables, size, wipeOdd, panicked, history>>

Halve(t, c) ==
  /\ At(t, HalveOf(c))
  /\ wipeOdd' = [wipeOdd EXCEPT ![c] = ~@]
  /\ Goes(t, Turn(c, wipeOdd[c]))
  /\ UNCHANGED <<cacheMax, tables, size, panicked, history>>

ReadTable(t, c) ==
  /\ At(t, "turn") /\ call[t].half = c
  /\ Goes(t, Wipe(c, Half(c, call[t].odd), 0))
  /\ UNCHANGED <<cacheMax, tables, size, wipeOdd, panicked, history>>

WipeSlot(t, c) ==
  /\ Wiping(t, c) /\ call[t].todo # {}
  /\ LET i == Least(call[t].todo) IN
       /\ slots' = [slots EXCEPT ![c] = Restrict(@, DOMAIN @ \ {i})]
       /\ Goes(t, Wipe(c, call[t].todo \ {i}, call[t].freed + SizeIn(c, i)))
  /\ UNCHANGED <<cacheMax, nSlots, size, wipeOdd, panicked, history>>

EndHalve(t, c) ==
  /\ Wiping(t, c) /\ call[t].todo = {}
  /\ Sized([size EXCEPT ![c] = @ - call[t].freed])
  /\ Goes(t, Step(IF c = "op" THEN "halve_size" ELSE "use"))
  /\ UNCHANGED <<cacheMax, tables, wipeOdd, panicked, grown, fitted>>

Get(t) ==
  /\ At(t, "use")
  /\ Goes(t, Idle)
  /\ UNCHANGED <<cacheMax, tables, size, wipeOdd, panicked, history>>

\* Mutant: the entry that is overwritten stays counted.
InsertUncounted(t, c, h, bytes) ==
  /\ At(t, "use")
  /\ slots' = [slots EXCEPT ![c] = Filled(@, h % nSlots[c], bytes)]
  /\ Sized([size EXCEPT ![c] = @ + bytes])
  /\ Goes(t, Idle)
  /\ UNCHANGED <<cacheMax, nSlots, wipeOdd, panicked, grown, fitted>>

\* insert: a hash collision is overwritten.
Insert(t, c, h, bytes) ==
  LET i == h % nSlots[c] IN
  /\ At(t, "use")
  /\ slots' = [slots EXCEPT ![c] = Filled(@, i, bytes)]
  /\ Sized([size EXCEPT ![c] = @ + (bytes - SizeIn(c, i))])
  /\ Goes(t, Idle)
  /\ UNCHANGED <<cacheMax, nSlots, wipeOdd, panicked, grown, fitted>>

(***************************************************************************)
(* gc: the tables grow with the number of live nodes                       *)
(***************************************************************************)
\* Mutant: no headroom for rounding to a power of two.
CacheSlotBudgetTight(max) == (max \div 2) \div BytesPerSlot

CacheSlotBudget(max) == ((max \div 2) \div BytesPerSlot) \div 2

Budgeted(n) ==
  IF cacheMax = Unlimited THEN n ELSE Lesser(n, CacheSlotBudget(cacheMax))

GcSlots(c, live) == SlotCapacity(Budgeted((IF c = "op" THEN 4 ELSE 2) * live))
ResizeOf(c) == IF c = "op" THEN "resize_op" ELSE "resize_size"

Collecting(t) == call[t].pc \in {"resize_op", "resize_size"}

Gc(t, live) ==
  /\ call[t] = Idle
  /\ \A u \in Threads : ~Collecting(u)
  /\ Goes(t, [pc |-> "resize_op", live |-> live])
  /\ UNCHANGED <<cacheMax, tables, size, wipeOdd, panicked, history>>

GcNext(t, c) ==
  Goes(t, IF c = "op" THEN [call[t] EXCEPT !.pc = "resize_size"] ELSE Idle)

ResizeKeeps(t, c) ==
  /\ At(t, ResizeOf(c))
  /\ nSlots[c] >= GcSlots(c, call[t].live)
  /\ GcNext(t, c)
  /\ UNCHANGED <<cacheMax, tables, size, wipeOdd, panicked, history>>

\* The write lock waits for the threads that wipe slots.
ResizeGrows(t, c) ==
  LET n == GcSlots(c, call[t].live) IN
  /\ At(t, ResizeOf(c))
  /\ nSlots[c] < n
  /\ \A u \in Threads : ~Wiping(u, c)
  /\ nSlots' = [nSlots EXCEPT ![c] = n]
  /\ slots' = [slots EXCEPT ![c] = <<>>]
  /\ size' = [size EXCEPT ![c] = TableBytes(n)]
  /\ GcNext(t, c)
  /\ grown' = TRUE
  /\ settled' = Fits(size')
  /\ UNCHANGED <<cacheMax, wipeOdd, panicked, fitted>>

(***************************************************************************)
(* set_cache_size has the holder to itself                                 *)
(***************************************************************************)
EmptyTables == [c \in Caches |-> TableBytes(nSlots[c])]
Total(s, max) == max # Unlimited /\ RegularCacheSize(s) > max

Limit(max) ==
  /\ \A t \in Threads : call[t] = Idle
  /\ cacheMax' = max
  /\ grown' = FALSE /\ settled' = TRUE
  /\ UNCHANGED <<wipeOdd, call>>

LimitKeeps(max) ==
  /\ Limit(max)
  /\ ~Total(size, max)
  /\ fitted' = FALSE
  /\ UNCHANGED <<tables, size, panicked>>

LimitEmpties(max) ==
  /\ Limit(max)
  /\ Total(size, max) /\ ~Total(EmptyTables, max)
  /\ slots' = [c \in Caches |-> <<>>]
  /\ size' = EmptyTables
  /\ fitted' = FALSE
  /\ UNCHANGED <<nSlots, panicked>>

\* force_resize may enlarge the size cache while it shrinks the other.
LimitResizes(max) ==
  LET n == SlotCapacity(CacheSlotBudget(max)) IN
  /\ Limit(max)
  /\ Total(size, max) /\ Total(EmptyTables, max)
  /\ nSlots' = [c \in Caches |-> n]
  /\ slots' = [c \in Caches |-> <<>>]
  /\ size' = [c \in Caches |-> TableBytes(n)]
  /\ panicked' = (2 * TableBytes(n) > max)
  /\ fitted' = TRUE

Next ==
  /\ ~panicked
  /\ \/ \E t \in Threads :
          \/ Access(t)
          \/ Check(t)
          \/ \E c \in Caches : \/ Halve(t, c)
                               \/ ReadTable(t, c)
                               \/ WipeSlot(t, c)
                               \/ EndHalve(t, c)
                               \/ ResizeKeeps(t, c)
                               \/ ResizeGrows(t, c)
          \/ Get(t)
          \/ \E c \in Caches : \E h \in Hashes[c] :
               \E bytes \in EntrySizes : Insert(t, c, h, bytes)
          \/ \E live \in LiveCounts : Gc(t, live)
     \/ \E max \in CacheMaxes : \/ LimitKeeps(max)
                                \/ LimitEmpties(max)
                                \/ LimitResizes(max)

Spec == Init /\ [][Next]_vars

-----------------------------------------------------------------------------

Freed(t, c) == IF Wiping(t, c) THEN call[t].freed ELSE 0
FreedOf(c) == SumFunction([t \in Threads |-> Freed(t, c)])

\* The relaxed counter that every check reads is never off: it is what the
\* slots and their table occupy, and what a clear_half has dropped and not
\* subtracted yet, whatever stores, halvings and resizes overlap.
SizeExact ==
  /\ \A c \in Caches :
       size[c] = TableBytes(nSlots[c]) + SumFunction(slots[c]) + FreedOf(c)
  /\ \A c \in Caches : DOMAIN slots[c] \subseteq SlotsOf(c)
  /\ cacheMax \in CacheMaxes \cup {Unlimited}

TablesSize == TableBytes(nSlots["op"] + nSlots["size"])

\* The tables alone never exceed cache_max, which would make every access
\* drop half of both caches, except when set_cache_size left the tables as
\* they were and a collection enlarged one of them afterwards; and
\* set_cache_size panics only when two tables of two slots do not fit.
TablesFitCap ==
  /\ TablesSize > cacheMax /\ cacheMax # Unlimited /\ ~panicked
       => grown /\ ~fitted
  /\ panicked => cacheMax < 2 * TableBytes(2)

MaxEntry == CHOOSE bytes \in EntrySizes : \A x \in EntrySizes : x <= bytes

Occupied == TablesSize + SumFunction(slots["op"]) + SumFunction(slots["size"])

\* Halving is enough: since the last growth has been absorbed, what the
\* caches occupy exceeds cache_max by at most two entries for each thread,
\* though the check and the store are not atomic and the halves are taken in
\* turn by all threads.
SizeBounded ==
  cacheMax # Unlimited /\ ~panicked /\ settled
    => Occupied <= cacheMax + 2 * Cardinality(Threads) * MaxEntry

=============================================================================
