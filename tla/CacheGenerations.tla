-------------------------- MODULE CacheGenerations --------------------------
(***************************************************************************)
(* The three caches that name nodes by their index, against a collection   *)
(* on another thread (src/src/manager/garbage.rs): the operation cache,    *)
(* which gc clears (src/src/utils/op_cache.rs), the TempCache of one call, *)
(* which compares the holder's generation with its own before each use     *)
(* (src/src/manager/temp_cache.rs), and the IntervalCache of clip_weight   *)
(* and bounded_join, which compares it after a miss and before an insert   *)
(* (src/src/algorithms/subset_cover.rs).                                   *)
(*                                                                         *)
(* A node is the family it stands for and has no children.  Every worker   *)
(* computes Result of a family it holds, again and again, and memoises it  *)
(* under the index of its argument, which it holds until the end.  That    *)
(* get_node counts its node at once and that the collector scans all       *)
(* counts in one step are simplifications: Collector has the races between *)
(* those, UnionCache the entries whose key was dropped before the insert.  *)
(* An entry may be lost at any time (a slot collision, clear_half).        *)
(***************************************************************************)
EXTENDS Naturals

CONSTANTS
  Workers,   \* the threads that compute
  Families,  \* what they compute with
  Result,    \* [Families -> Families], the operation
  Indices,   \* the buckets of the unique table
  None,      \* no family, no entry, no index
  MaxGcs     \* bound: the collections of a behaviour

ASSUME CacheGenerationsAssumption ==
  /\ Result \in [Families -> Families]
  /\ None \notin Families /\ None \notin Indices
  /\ MaxGcs \in Nat

Kinds == {"op", "temp", "interval"}

VARIABLES
  kind,        \* which of the three caches the workers use
  table,       \* bucket -> the family of its node, or None
  generation,  \* of the holder
  opGen,       \* of the operation cache
  op,          \* the operation cache: argument -> entry
  own,         \* each worker's TempCache or IntervalCache
  work,        \* each worker's call
  gc,          \* how far the collection has come
  marked       \* what it has marked

vars == <<kind, table, generation, opGen, op, own, work, gc, marked>>
nodes == <<table, gc, marked>>
gens == <<kind, generation, opGen>>

\* early: a history variable, the entry's generation was current between the
\* new generation and the sweep of a collection.
Entry(g, i, early) == [gen |-> g, index |-> i, early |-> early]
Empty == [i \in Indices |-> None]

\* A call: its argument, the family that was, its result, the generation it
\* has loaded, and excused, a history variable: the answer came from an early
\* entry, or a collection began before the answer was counted.
Idle == [pc |-> "idle", arg |-> None, family |-> None, res |-> None,
         gen |-> 0, early |-> FALSE, excused |-> FALSE]

Init ==
  /\ kind \in Kinds
  /\ table = Empty
  /\ generation = 0 /\ opGen = 1
  /\ op = Empty
  /\ own = [w \in Workers |-> [gen |-> 0, map |-> Empty]]
  /\ work = [w \in Workers |-> Idle]
  /\ gc = "off" /\ marked = {}

At(w, pc) == work[w].pc = pc
Becomes(w, call) == work' = [work EXCEPT ![w] = call]

(***************************************************************************)
(* find_or_insert, which waits while the table is paused                   *)
(***************************************************************************)
NodeFor(i, f) ==
  /\ gc = "off"
  /\ IF \E j \in Indices : table[j] = f THEN table[i] = f ELSE table[i] = None
  /\ table' = [table EXCEPT ![i] = f]
  /\ UNCHANGED <<gc, marked>>

Begin(w, f, i) ==
  /\ At(w, "idle")
  /\ NodeFor(i, f)
  /\ Becomes(w, [Idle EXCEPT !.pc = "ask", !.arg = i, !.family = f])
  /\ UNCHANGED <<gens, op, own>>

\* clear_if_not_current: the cache is emptied when its generation is not the
\* holder's.
Checked(c) ==
  IF c.gen = generation THEN c ELSE [gen |-> generation, map |-> Empty]

\* get: only the TempCache checks before it looks.
Ask(w) ==
  /\ At(w, "ask")
  /\ Becomes(w, [work[w] EXCEPT !.pc = "look"])
  /\ own' = IF kind = "temp" THEN [own EXCEPT ![w] = Checked(@)] ELSE own
  /\ UNCHANGED <<gens, nodes, op>>

Cached(w) == IF kind = "op" THEN op[work[w].arg] ELSE own[w].map[work[w].arg]

Hit(w) ==
  LET e == Cached(w) IN
  /\ At(w, "look")
  /\ e # None
  /\ kind = "op" => e.gen = opGen
  /\ Becomes(w, [work[w] EXCEPT !.pc = "count", !.res = e.index,
                                !.gen = IF kind = "op" THEN opGen ELSE own[w].gen,
                                !.early = e.early])
  /\ UNCHANGED <<gens, nodes, op, own>>

Current == IF kind = "op" THEN opGen ELSE generation

\* from_set_family: the index found becomes a counted handle.
Count(w) ==
  /\ At(w, "count")
  /\ Becomes(w, [work[w] EXCEPT !.pc = "done",
                    !.excused = work[w].early \/ work[w].gen # Current])
  /\ UNCHANGED <<gens, nodes, op, own>>

\* After a miss the IntervalCache checks too.
Miss(w) ==
  /\ At(w, "look")
  /\ Becomes(w, [work[w] EXCEPT !.pc = "build"])
  /\ own' = IF kind = "interval" THEN [own EXCEPT ![w] = Checked(@)] ELSE own
  /\ UNCHANGED <<gens, nodes, op>>

Build(w, i) ==
  /\ At(w, "build")
  /\ NodeFor(i, Result[work[w].family])
  /\ Becomes(w, [work[w] EXCEPT !.pc = "check", !.res = i])
  /\ UNCHANGED <<gens, op, own>>

(***************************************************************************)
(* insert: the generation is read or checked, then the slot is written     *)
(***************************************************************************)
Early == gc \in (IF kind = "op" THEN {"cleared", "scanned"}
                 ELSE {"renewed", "cleared", "scanned"})

Check(w) ==
  /\ At(w, "check")
  /\ Becomes(w, [work[w] EXCEPT !.pc = "put", !.gen = Current, !.early = Early])
  /\ own' = IF kind = "op" THEN own ELSE [own EXCEPT ![w] = Checked(@)]
  /\ UNCHANGED <<gens, nodes, op>>

\* The operation cache's entry has the generation loaded before: it may
\* replace one of a later generation, but it is not found by later lookups.
Put(w) ==
  LET c == work[w]
      e == Entry(IF kind = "op" THEN c.gen ELSE 0, c.res, c.early) IN
  /\ At(w, "put")
  /\ IF kind = "op"
     THEN op' = [op EXCEPT ![c.arg] = e] /\ UNCHANGED own
     ELSE own' = [own EXCEPT ![w].map[c.arg] = e] /\ UNCHANGED op
  /\ Becomes(w, [c EXCEPT !.pc = "done"])
  /\ UNCHANGED <<gens, nodes>>

\* The call's handles are dropped.
End(w) ==
  /\ At(w, "done")
  /\ Becomes(w, Idle)
  /\ UNCHANGED <<gens, nodes, op, own>>

(***************************************************************************)
(* gc, by whichever thread                                                 *)
(***************************************************************************)
GcStep(from, to) == gc = from /\ gc' = to

StartGc ==
  /\ generation < MaxGcs
  /\ GcStep("off", "started")
  /\ UNCHANGED <<gens, table, op, own, work, marked>>

\* Mutant: the generation stays.
RenewNothing ==
  /\ GcStep("started", "renewed")
  /\ UNCHANGED <<gens, table, op, own, work, marked>>

Renew ==
  /\ GcStep("started", "renewed")
  /\ generation' = generation + 1
  /\ UNCHANGED <<kind, opGen, table, op, own, work, marked>>

\* Mutant: the operation cache is not cleared.
ClearNothing ==
  /\ GcStep("renewed", "cleared")
  /\ UNCHANGED <<gens, table, op, own, work, marked>>

ClearCaches ==
  /\ GcStep("renewed", "cleared")
  /\ opGen' = opGen + 1
  /\ UNCHANGED <<kind, generation, table, op, own, work, marked>>

\* A worker's counted handles.
Held(w) ==
  CASE At(w, "idle") -> {}
    [] work[w].pc \in {"check", "put", "done"} -> {work[w].arg, work[w].res}
    [] OTHER -> {work[w].arg}

Scan ==
  /\ GcStep("cleared", "scanned")
  /\ marked' = UNION {Held(w) : w \in Workers}
  /\ UNCHANGED <<gens, table, op, own, work>>

Sweep ==
  /\ GcStep("scanned", "off")
  /\ table' = [i \in Indices |-> IF i \in marked THEN table[i] ELSE None]
  /\ marked' = {}
  /\ UNCHANGED <<gens, op, own, work>>

Next ==
  \/ \E w \in Workers :
       \/ \E f \in Families, i \in Indices : Begin(w, f, i)
       \/ Ask(w)
       \/ Hit(w)
       \/ Count(w)
       \/ Miss(w)
       \/ \E i \in Indices : Build(w, i)
       \/ Check(w)
       \/ Put(w)
       \/ End(w)
  \/ StartGc \/ Renew \/ ClearCaches \/ Scan \/ Sweep

Spec == Init /\ [][Next]_vars

-----------------------------------------------------------------------------

Done(w) == At(w, "done") /\ ~work[w].excused
Right(w) ==
  /\ table[work[w].arg] = work[w].family
  /\ table[work[w].res] = Result[work[w].family]

\* With the operation cache, a call that is over holds its argument and the
\* result of it, whatever a collection did meanwhile, unless the answer was
\* memoised after the caches were cleared and before the sweep of one
\* collection, or the next clear came between the lookup and the count.
OpCacheSound == kind = "op" => \A w \in Workers : Done(w) => Right(w)

\* The same with a cache that only compares generations: wrong answers come
\* from entries stored between the new generation and the sweep, and from
\* hits after a new generation that the cache has not noticed, which the
\* IntervalCache takes for impossible.
OwnCacheSound == kind # "op" => \A w \in Workers : Done(w) => Right(w)

=============================================================================
