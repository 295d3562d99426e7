----------------------------- MODULE Collector -----------------------------
(***************************************************************************)
(* Handles, reference counts and the garbage collector: get_node, lo, hi,  *)
(* get, Clone and Drop of a SetFamily (src/src/manager/parallelism.rs) and *)
(* gc (src/src/manager/garbage.rs) as the threads of one ZddHolder run     *)
(* them.                                                                   *)
(*                                                                         *)
(* The unique table is taken at the grain of InternMap, which UniqueTable  *)
(* implements: finding or creating a node is one step, and failing for     *)
(* want of a bucket is another.  Which free bucket is handed out is left   *)
(* open, and so is whether the caller's split can reach the last ones      *)
(* (UniqueTable has the regions and splits).  The pause gate is taken at the grain of       *)
(* TableLock, which PauseGate implements: a step that reads the table      *)
(* needs the gate open, and the steps of a collector after GcStart run     *)
(* with no read section in progress.  Reference counts are outside both:   *)
(* inc_count, dec_count and is_held take no guard.                         *)
(*                                                                         *)
(* A handle carries the family it stood for when it was made (`fam`), a    *)
(* history variable no step reads except to make the `fam` of others.      *)
(* Caches are left to other modules.                                       *)
(***************************************************************************)
EXTENDS Naturals, FiniteSets

CONSTANTS
  Threads,
  NoThread,         \* the gate is open
  NoReg,            \* no place
  NVars,            \* the values of nodes are 1 .. NVars
  Regs,             \* places to keep handles in
  Places,           \* those of each thread
  Calls,            \* what each thread calls
  OutOfReach,       \* how many buckets can be free in the regions of other
                    \* splits when the caller's split has none left
  InitialCapacity,
  MaxTable          \* max_table_size, which also bounds the model

CallNames == {"node", "lo_hi", "get", "clone", "drop", "send", "gc"}

ASSUME CollectorAssumption ==
  /\ IsFiniteSet(Threads) /\ NoThread \notin Threads
  /\ NVars \in Nat /\ IsFiniteSet(Regs) /\ NoReg \notin Regs
  /\ Calls \in [Threads -> SUBSET CallNames]
  /\ Places \in [Threads -> SUBSET Regs]
  /\ OutOfReach \in Nat /\ InitialCapacity \in Nat /\ MaxTable \in Nat
  /\ 2 < InitialCapacity /\ InitialCapacity <= MaxTable

Vals    == 1 .. NVars
Indices == 2 .. MaxTable - 1       \* 0 and 1 are the terminals
Ids     == 0 .. MaxTable - 1

\* A RawZddData, and the content of a bucket never written.
Node(v, lo, hi) == [v |-> v, lo |-> lo, hi |-> hi]
NoNode == Node(0, 0, 0)

Handle(i, f) == [id |-> i, fam |-> f]
Zero == Handle(0, {})
One  == Handle(1, {{}})

VARIABLES
  capacity,   \* of the unique table
  data,       \* bucket -> node; a freed bucket keeps its node
  published,  \* buckets that the hashes lead to
  used,       \* buckets marked in the bitmap
  count,      \* reference counts of the nodes
  regs,       \* the handles each thread keeps
  args,       \* the handles that the call in progress owns
  pc,         \* where each thread is
  loc,        \* the other locals of the call in progress
  paused,     \* the collector, or NoThread
  gc,         \* the locals of the collection in progress
  raced       \* history: a collection missed a count that was due

vars == <<capacity, data, published, used, count, regs, args, pc, loc,
          paused, gc, raced>>

NoLoc == [v |-> 0, raw |-> 0, raw2 |-> 0, dst |-> NoReg, dst2 |-> NoReg,
          fam |-> {}, fam2 |-> {}, new |-> FALSE, force |-> FALSE,
          ret |-> "idle"]
NoArgs == [a \in {"lo", "hi", "res"} |-> Zero]
NoGc   == [pos |-> 2, roots |-> {}, newcap |-> 0,
           copy |-> [i \in Indices |-> 0]]

Init ==
  /\ capacity = InitialCapacity
  /\ data = [i \in Indices |-> NoNode]
  /\ published = {}
  /\ used = {0, 1}
  /\ count = [i \in Indices |-> 0]
  /\ regs = [t \in Threads |-> [r \in Regs |-> Zero]]
  /\ args = [t \in Threads |-> NoArgs]
  /\ pc = [t \in Threads |-> "idle"]
  /\ loc = [t \in Threads |-> NoLoc]
  /\ paused = NoThread
  /\ gc = NoGc
  /\ raced = FALSE

-----------------------------------------------------------------------------

IsTerminal(i) == i < 2

\* fetch_add and fetch_sub on the count of a node.  from_set_family counts
\* terminals, too: at most that makes a collection mark 0 and 1, as it does
\* anyway.
Inc(c, i) == IF IsTerminal(i) THEN c ELSE [c EXCEPT ![i] = @ + 1]
Dec(c, i) == IF IsTerminal(i) THEN c ELSE [c EXCEPT ![i] = @ - 1]

Goto(t, from, to) == pc[t] = from /\ pc' = [pc EXCEPT ![t] = to]

May(t, call) == call \in Calls[t]

GateOpen == paused = NoThread

UnchangedTable == UNCHANGED <<capacity, data, published, used>>
UnchangedGc    == UNCHANGED <<paused, gc, raced>>

\* The families that a node (v, lo, hi) and its children stand for.
Above(v, f)   == {s \cup {v} : s \in f}
Without(v, f) == {s \in f : v \notin s}
Cofactor(v, f) == {s \ {v} : s \in {x \in f : v \in x}}

\* The set family of index i, by the nodes in the buckets: a level of nodes
\* from the families of the level below, which ends at the terminals.
Ground == [j \in Ids |-> IF j = 1 THEN {{}} ELSE {}]

Level(nodes, below) ==
  [j \in Ids |->
     IF IsTerminal(j) THEN Ground[j]
     ELSE below[nodes[j].lo] \cup Above(nodes[j].v, below[nodes[j].hi])]

FamilyIn(nodes, i) ==
  LET F[d \in 0 .. NVars] == IF d = 0 THEN Ground ELSE Level(nodes, F[d - 1])
  IN  F[NVars][i]

Family(i) == FamilyIn(data, i)

\* mark: what can be reached from a set of roots through the buckets is what
\* every set has that has the roots and the children of its nodes.
Reach(roots) ==
  LET Closed(S) == \A i \in S : {data[i].lo, data[i].hi} \subseteq S \cup {0, 1}
  IN  {i \in Indices : \A S \in SUBSET Indices :
                          roots \subseteq S /\ Closed(S) => i \in S}

(***************************************************************************)
(* get_node(value, lo, hi): takes two handles, answers with one.           *)
(***************************************************************************)
\* holder.one(), kept in a free place.
TakeOne(t, r) ==
  /\ May(t, "node") /\ pc[t] = "idle"
  /\ regs[t][r] = Zero
  /\ regs' = [regs EXCEPT ![t][r] = One]
  /\ UnchangedTable /\ UnchangedGc /\ UNCHANGED <<count, args, pc, loc>>

\* The caller guarantees the order of values.  A zero `hi` returns `lo`.
NodeCall(t, v, a, b) ==
  LET lo == regs[t][a]
      hi == regs[t][b]
  IN
  /\ May(t, "node")
  /\ hi # Zero
  /\ \A s \in lo.fam \cup hi.fam : \A x \in s : v < x
  /\ Goto(t, "idle", "find")
  /\ regs' = [regs EXCEPT ![t][a] = Zero, ![t][b] = Zero]
  /\ args' = [args EXCEPT ![t].lo = lo, ![t].hi = hi]
  /\ loc' = [loc EXCEPT ![t] = [NoLoc EXCEPT !.v = v, !.dst = a]]
  /\ UnchangedTable /\ UnchangedGc /\ UNCHANGED count

WantedNode(t) == Node(loc[t].v, args[t].lo.id, args[t].hi.id)

Free == (2 .. capacity - 1) \ used

\* find_or_insert answers with an index, which nothing counts yet.
FindNode(t) ==
  /\ GateOpen
  /\ \E i \in published :
       /\ data[i] = WantedNode(t)
       /\ loc' = [loc EXCEPT ![t].raw = i, ![t].new = FALSE]
  /\ Goto(t, "find", "inc")
  /\ UnchangedTable /\ UnchangedGc /\ UNCHANGED <<count, regs, args>>

\* Mutant: a node is created without looking for it.
CreateNodeBlindly(t) ==
  /\ GateOpen
  /\ \E i \in Free :
       /\ data' = [data EXCEPT ![i] = WantedNode(t)]
       /\ published' = published \cup {i}
       /\ used' = used \cup {i}
       /\ loc' = [loc EXCEPT ![t].raw = i, ![t].new = TRUE]
  /\ Goto(t, "find", "inc")
  /\ UnchangedGc /\ UNCHANGED <<capacity, count, regs, args>>

CreateNode(t) ==
  /\ GateOpen
  /\ \A i \in published : data[i] # WantedNode(t)
  /\ \E i \in Free :
       /\ data' = [data EXCEPT ![i] = WantedNode(t)]
       /\ published' = published \cup {i}
       /\ used' = used \cup {i}
       /\ loc' = [loc EXCEPT ![t].raw = i, ![t].new = TRUE]
  /\ Goto(t, "find", "inc")
  /\ UnchangedGc /\ UNCHANGED <<capacity, count, regs, args>>

\* find_or_insert has no bucket for the node: the region of the caller's split
\* is full, the others are claimed, and what is free in those is out of reach.
FindFull(t) ==
  /\ GateOpen
  /\ \A i \in published : data[i] # WantedNode(t)
  /\ Cardinality(Free) <= OutOfReach
  /\ Goto(t, "find", "full")
  /\ UnchangedTable /\ UnchangedGc /\ UNCHANGED <<count, regs, args, loc>>

\* from_set_family makes the answer a handle.  A new node that took more
\* than 32 probes asks for a collection.
CountNode(t) ==
  LET f == args[t].lo.fam \cup Above(loc[t].v, args[t].hi.fam) IN
  /\ count' = Inc(count, loc[t].raw)
  /\ args' = [args EXCEPT ![t].res = Handle(loc[t].raw, f)]
  /\ \E many \in {FALSE, loc[t].new} :
       /\ Goto(t, "inc", IF many THEN "gc" ELSE "drop_hi")
       /\ loc' = [loc EXCEPT ![t] = [NoLoc EXCEPT !.dst = loc[t].dst,
                                                 !.ret = "drop_hi"]]
  /\ UnchangedTable /\ UnchangedGc /\ UNCHANGED regs

\* Mutant: an argument is forgotten instead of dropped.
DropHiForgets(t) ==
  /\ Goto(t, "drop_hi", "drop_lo")
  /\ args' = [args EXCEPT ![t].hi = Zero]
  /\ UnchangedTable /\ UnchangedGc /\ UNCHANGED <<count, regs, loc>>

\* The arguments are dropped when get_node returns or panics.
DropHi(t) ==
  /\ Goto(t, "drop_hi", "drop_lo")
  /\ count' = Dec(count, args[t].hi.id)
  /\ args' = [args EXCEPT ![t].hi = Zero]
  /\ UnchangedTable /\ UnchangedGc /\ UNCHANGED <<regs, loc>>

DropLo(t) ==
  /\ Goto(t, "drop_lo", "idle")
  /\ count' = Dec(count, args[t].lo.id)
  /\ regs' = [regs EXCEPT ![t][loc[t].dst] = args[t].res]
  /\ args' = [args EXCEPT ![t] = NoArgs]
  /\ loc' = [loc EXCEPT ![t] = NoLoc]
  /\ UnchangedTable /\ UnchangedGc

\* Mutant: a table at its maximum is collected and tried again, too.
FullCollectsAlways(t) ==
  /\ Goto(t, "full", "gc")
  /\ loc' = [loc EXCEPT ![t].force = TRUE, ![t].ret = "find"]
  /\ UnchangedTable /\ UnchangedGc /\ UNCHANGED <<count, regs, args>>

\* The table was full: collect with a forced resize and try again ...
FullCollects(t) ==
  /\ capacity < MaxTable
  /\ Goto(t, "full", "gc")
  /\ loc' = [loc EXCEPT ![t].force = TRUE, ![t].ret = "find"]
  /\ UnchangedTable /\ UnchangedGc /\ UNCHANGED <<count, regs, args>>

\* ... or panic, at the assertion on the capacity of now.  The arguments are
\* dropped as the panic unwinds, and there is no answer.
FullPanics(t) ==
  /\ capacity >= MaxTable
  /\ Goto(t, "full", "drop_hi")
  /\ loc' = [loc EXCEPT ![t] = [NoLoc EXCEPT !.dst = loc[t].dst,
                                            !.ret = "drop_hi"]]
  /\ UnchangedTable /\ UnchangedGc /\ UNCHANGED <<count, regs, args>>

(***************************************************************************)
(* lo(self) and hi(self): the parent is dropped once the child is counted. *)
(***************************************************************************)
ChildRead(t, r, side) ==
  LET h == regs[t][r]
      n == data[h.id]
  IN
  /\ May(t, "lo_hi") /\ GateOpen
  /\ ~IsTerminal(h.id)
  /\ Goto(t, "idle", "child")
  /\ regs' = [regs EXCEPT ![t][r] = Zero]
  /\ args' = [args EXCEPT ![t].lo = h]
  /\ loc' = [loc EXCEPT ![t] =
       [NoLoc EXCEPT !.dst = r,
          !.raw = IF side = "lo" THEN n.lo ELSE n.hi,
          !.fam = IF side = "lo" THEN Without(n.v, h.fam)
                                 ELSE Cofactor(n.v, h.fam)]]
  /\ UnchangedTable /\ UnchangedGc /\ UNCHANGED count

ChildCount(t) ==
  /\ Goto(t, "child", "child_drop")
  /\ count' = Inc(count, loc[t].raw)
  /\ args' = [args EXCEPT ![t].res = Handle(loc[t].raw, loc[t].fam)]
  /\ UnchangedTable /\ UnchangedGc /\ UNCHANGED <<regs, loc>>

\* Mutant: the parent is forgotten instead of dropped.
ChildDropForgets(t) ==
  /\ Goto(t, "child_drop", "idle")
  /\ regs' = [regs EXCEPT ![t][loc[t].dst] = args[t].res]
  /\ args' = [args EXCEPT ![t] = NoArgs]
  /\ loc' = [loc EXCEPT ![t] = NoLoc]
  /\ UnchangedTable /\ UnchangedGc /\ UNCHANGED count

ChildDrop(t) ==
  /\ Goto(t, "child_drop", "idle")
  /\ count' = Dec(count, args[t].lo.id)
  /\ regs' = [regs EXCEPT ![t][loc[t].dst] = args[t].res]
  /\ args' = [args EXCEPT ![t] = NoArgs]
  /\ loc' = [loc EXCEPT ![t] = NoLoc]
  /\ UnchangedTable /\ UnchangedGc

(***************************************************************************)
(* get(&self) and children(&self): both children, the parent is kept.      *)
(***************************************************************************)
GetRead(t, r, a, b) ==
  LET h == regs[t][r]
      n == data[h.id]
  IN
  /\ May(t, "get") /\ GateOpen
  /\ ~IsTerminal(h.id)
  /\ a # b /\ regs[t][a] = Zero /\ regs[t][b] = Zero
  /\ Goto(t, "idle", "get_lo")
  /\ loc' = [loc EXCEPT ![t] =
       [NoLoc EXCEPT !.raw = n.lo, !.fam = Without(n.v, h.fam), !.dst = a,
                     !.raw2 = n.hi, !.fam2 = Cofactor(n.v, h.fam),
                     !.dst2 = b]]
  /\ UnchangedTable /\ UnchangedGc /\ UNCHANGED <<count, regs, args>>

GetLo(t) ==
  /\ Goto(t, "get_lo", "get_hi")
  /\ count' = Inc(count, loc[t].raw)
  /\ regs' = [regs EXCEPT ![t][loc[t].dst] = Handle(loc[t].raw, loc[t].fam)]
  /\ UnchangedTable /\ UnchangedGc /\ UNCHANGED <<args, loc>>

GetHi(t) ==
  /\ Goto(t, "get_hi", "idle")
  /\ count' = Inc(count, loc[t].raw2)
  /\ regs' = [regs EXCEPT ![t][loc[t].dst2] = Handle(loc[t].raw2, loc[t].fam2)]
  /\ loc' = [loc EXCEPT ![t] = NoLoc]
  /\ UnchangedTable /\ UnchangedGc /\ UNCHANGED args

(***************************************************************************)
(* Clone and Drop of a SetFamily, and moving one to another thread.        *)
(***************************************************************************)
CloneHandle(t, r, q) ==
  /\ May(t, "clone") /\ pc[t] = "idle"
  /\ regs[t][r] # Zero /\ regs[t][q] = Zero
  /\ count' = Inc(count, regs[t][r].id)
  /\ regs' = [regs EXCEPT ![t][q] = regs[t][r]]
  /\ UnchangedTable /\ UnchangedGc /\ UNCHANGED <<args, pc, loc>>

DropHandle(t, r) ==
  /\ May(t, "drop") /\ pc[t] = "idle"
  /\ regs[t][r] # Zero
  /\ count' = Dec(count, regs[t][r].id)
  /\ regs' = [regs EXCEPT ![t][r] = Zero]
  /\ UnchangedTable /\ UnchangedGc /\ UNCHANGED <<args, pc, loc>>

SendHandle(t, r, u, q) ==
  /\ May(t, "send") /\ pc[t] = "idle" /\ pc[u] = "idle" /\ t # u
  /\ regs[t][r] # Zero /\ regs[u][q] = Zero
  /\ regs' = [regs EXCEPT ![t][r] = Zero, ![u][q] = regs[t][r]]
  /\ UnchangedTable /\ UnchangedGc /\ UNCHANGED <<count, args, pc, loc>>

(***************************************************************************)
(* gc(force_resize)                                                        *)
(***************************************************************************)
GcCall(t) ==
  /\ May(t, "gc")
  /\ Goto(t, "idle", "gc")
  /\ loc' = [loc EXCEPT ![t] = NoLoc]
  /\ UnchangedTable /\ UnchangedGc /\ UNCHANGED <<count, regs, args>>

\* Here a thread has an index from the table that it has still to count.  (get
\* keeps the parent, but may drop it before the scan comes to it.)
UncountedPcs == {"inc", "child", "get_lo", "get_hi"}

\* The capacity to move to: twice as much, but never beyond the maximum.
ResizeTo(force) ==
  IF ~force /\ 2 * Cardinality(used) <= capacity THEN capacity
  ELSE IF 2 * capacity <= MaxTable THEN 2 * capacity
  ELSE IF capacity >= MaxTable THEN capacity ELSE MaxTable

GcStart(t) ==
  /\ GateOpen
  /\ Goto(t, "gc", "scan")
  /\ paused' = t
  /\ gc' = [NoGc EXCEPT !.newcap = ResizeTo(loc[t].force)]
  /\ raced' = (raced \/ \E u \in Threads \ {t} : pc[u] \in UncountedPcs)
  /\ UnchangedTable /\ UNCHANGED <<count, regs, args, loc>>

\* Someone else is collecting: wait for the end of it.
GcRefused(t) ==
  /\ ~GateOpen
  /\ Goto(t, "gc", "wait")
  /\ UnchangedTable /\ UnchangedGc /\ UNCHANGED <<count, regs, args, loc>>

GcWaited(t) ==
  /\ GateOpen
  /\ Goto(t, "wait", loc[t].ret)
  /\ UnchangedTable /\ UnchangedGc /\ UNCHANGED <<count, regs, args, loc>>

\* Mutant: a node with one handle is not taken for a root.
GcScanShared(t) ==
  /\ gc.pos < capacity
  /\ Goto(t, "scan", "scan")
  /\ gc' = [gc EXCEPT !.pos = @ + 1,
              !.roots = IF count[gc.pos] > 1 THEN @ \cup {gc.pos} ELSE @]
  /\ UnchangedTable /\ UNCHANGED <<count, regs, args, loc, paused, raced>>

\* used_variables: one load of a count at a time, while other threads go on
\* counting and dropping.
GcScan(t) ==
  /\ gc.pos < capacity
  /\ Goto(t, "scan", "scan")
  /\ gc' = [gc EXCEPT !.pos = @ + 1,
              !.roots = IF count[gc.pos] # 0 THEN @ \cup {gc.pos} ELSE @]
  /\ UnchangedTable /\ UNCHANGED <<count, regs, args, loc, paused, raced>>

\* clear(marked, resize_to): marked nodes are hashed again in the order of
\* their indices, unless an equal node came before.
GcSweep(t) ==
  LET marked == Reach(gc.roots) IN
  /\ gc.pos = capacity
  /\ Goto(t, "scan", IF gc.newcap = capacity THEN "end" ELSE "copy")
  /\ published' = {i \in marked :
                     \A j \in marked : j < i => data[j] # data[i]}
  /\ used' = {0, 1} \cup marked
  /\ capacity' = gc.newcap
  /\ UNCHANGED <<data, count, regs, args, loc, paused, gc, raced>>

\* resize_with moves the counts to a new allocation: what other threads do
\* to the old one after the copy is lost.
GcCopyCounts(t) ==
  /\ Goto(t, "copy", "install")
  /\ gc' = [gc EXCEPT !.copy = count]
  /\ UnchangedTable /\ UNCHANGED <<count, regs, args, loc, paused, raced>>

GcInstallCounts(t) ==
  /\ Goto(t, "install", "end")
  /\ count' = gc.copy
  /\ raced' = (raced \/ \E i \in Indices : gc.copy[i] < count[i])
  /\ UnchangedTable /\ UNCHANGED <<regs, args, loc, paused, gc>>

GcEnd(t) ==
  /\ Goto(t, "end", loc[t].ret)
  /\ paused' = NoThread
  /\ gc' = NoGc
  /\ UnchangedTable /\ UNCHANGED <<count, regs, args, loc, raced>>

-----------------------------------------------------------------------------

NodeStep(t) ==
  \/ FindNode(t) \/ CreateNode(t) \/ FindFull(t) \/ CountNode(t)
  \/ DropHi(t) \/ DropLo(t) \/ FullCollects(t) \/ FullPanics(t)

ReadStep(t) == ChildCount(t) \/ ChildDrop(t) \/ GetLo(t) \/ GetHi(t)

GcStep(t) ==
  \/ GcStart(t) \/ GcRefused(t) \/ GcWaited(t) \/ GcScan(t) \/ GcSweep(t)
  \/ GcCopyCounts(t) \/ GcInstallCounts(t) \/ GcEnd(t)

Step(t) == NodeStep(t) \/ ReadStep(t) \/ GcStep(t)

NewCall(t) ==
  \/ GcCall(t)
  \/ \E r \in Places[t] :
       \/ TakeOne(t, r) \/ DropHandle(t, r)
       \/ \E side \in {"lo", "hi"} : ChildRead(t, r, side)
       \/ \E q \in Places[t] \ {r} :
            \/ CloneHandle(t, r, q)
            \/ \E v \in Vals : NodeCall(t, v, r, q)
            \/ \E p \in Places[t] \ {r} : GetRead(t, r, q, p)
       \/ \E u \in Threads : \E q \in Places[u] : SendHandle(t, r, u, q)

Next == \E t \in Threads : NewCall(t) \/ Step(t)

Spec == Init /\ [][Next]_vars

\* A call that has begun goes on; nothing makes a thread begin one.
FairSpec == Spec /\ \A t \in Threads : WF_vars(Step(t))

-----------------------------------------------------------------------------

Pcs == {"idle", "find", "inc", "drop_hi", "drop_lo", "full",
        "child", "child_drop", "get_lo", "get_hi",
        "gc", "wait", "scan", "copy", "install", "end"}

IsHandle(h) == h.id \in Ids /\ h.fam \subseteq SUBSET Vals

TypeOK ==
  /\ capacity \in InitialCapacity .. MaxTable
  /\ \A i \in Indices : /\ data[i].v \in 0 .. NVars
                        /\ {data[i].lo, data[i].hi} \subseteq Ids
  /\ published \subseteq used /\ used \subseteq 0 .. capacity - 1
  /\ count \in [Indices -> Nat]
  /\ \A t \in Threads : /\ \A r \in Regs : IsHandle(regs[t][r])
                        /\ \A a \in DOMAIN NoArgs : IsHandle(args[t][a])
  /\ pc \in [Threads -> Pcs]
  /\ paused \in Threads \cup {NoThread}
  /\ gc.roots \subseteq Indices
  /\ raced \in BOOLEAN

\* All the handles there are, kept or owned by a call.
HandlePlaces == {<<t, r>> : t \in Threads, r \in Regs}
ArgPlaces    == {<<t, a>> : t \in Threads, a \in DOMAIN NoArgs}
Held == {regs[p[1]][p[2]] : p \in HandlePlaces}
          \cup {args[p[1]][p[2]] : p \in ArgPlaces}

Live(i) == IsTerminal(i) \/ i \in published

\* "Held ZDDs shouldn't get cleared or changed by gc" (garbage.rs:147): a
\* handle names a node of the table, and the nodes below it still spell the
\* family that the handle was made for.
HeldSurvive == \A h \in Held : Live(h.id) /\ Family(h.id) = h.fam

\* A handle loses its node only by one of two races: a collection started
\* while another thread had an index that it had not counted yet, or a count
\* went up while it was copied.  Whatever else overlaps a collection - drops,
\* moves, clones, other calls of gc - is harmless.
OnlyMissedCountsLoseNodes == ~raced => HeldSurvive

\* Two handles name the same node exactly when they stand for the same
\* family: what makes SetFamily's equality a comparison of indices, across
\* collections, resizes and buckets that are used again.
EqualityIsIdentity ==
  \A g, h \in Held : (g.id = h.id) <=> (g.fam = h.fam)

\* Every variable keeps its type, and the count of a node is the number of
\* handles to it: it never wraps below 0 and never keeps a node for ever.
CountsExact ==
  /\ TypeOK
  /\ \A i \in Indices :
       count[i] =
         Cardinality({p \in HandlePlaces : regs[p[1]][p[2]].id = i})
           + Cardinality({p \in ArgPlaces : args[p[1]][p[2]].id = i})

\* A collection keeps exactly what the handles reach.
CollectsExactly ==
  [][(\E t \in Threads : GcSweep(t)) =>
       published' = Reach({h.id : h \in Held} \ {0, 1})]_vars

\* get_node answers or panics; it never collects and retries for ever
\* ("must panic rather than loop forever", garbage.rs:202), unless the
\* program keeps calling gc.
NodeReturns ==
  <>[][\A t \in Threads : ~GcCall(t)]_vars =>
    \A t \in Threads : (pc[t] = "find") ~> (pc[t] = "idle")
=============================================================================
