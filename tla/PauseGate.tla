----------------------------- MODULE PauseGate -----------------------------
(***************************************************************************)
(* The pause gate of the unique table (src/src/manager/hashtable.rs):      *)
(* read_table and the guard it returns, start_gc, end_gc and               *)
(* wait_until_unpaused, as every thread of a ZddHolder runs them.          *)
(*                                                                         *)
(* `paused` is a Mutex<bool> with a condition variable; `is_paused` is the *)
(* copy of it that readers test without the lock; `reading[s]` counts the  *)
(* read sections of the threads whose id falls on split s                  *)
(* (slots.rs: id % n_splits_of_regions), so threads may share a counter.   *)
(*                                                                         *)
(* Atomicity: each load, store or fetch_add of an atomic is a step of its  *)
(* own.  The body of a critical section of the mutex is one step, as it    *)
(* has at most one effect that a thread without the lock can observe (the  *)
(* store to is_paused).  Memory is sequentially consistent.                *)
(***************************************************************************)
EXTENDS Naturals, FiniteSets

CONSTANTS
  Threads,    \* the threads that share the table
  NSplits,    \* n_splits_of_regions: the length of `reading`
  SplitOf,    \* assign_thread_id: the split of each thread
  NoThread    \* the mutex is free

ASSUME GateAssumption ==
  /\ IsFiniteSet(Threads)
  /\ NoThread \notin Threads
  /\ NSplits \in Nat \ {0}
  /\ SplitOf \in [Threads -> 0 .. NSplits - 1]

Splits == 0 .. NSplits - 1

VARIABLES
  pc,         \* where each thread is
  op,         \* what each thread last set out to do: "read" or "gc"
  mutex,      \* the thread that holds the lock of `paused`
  paused,     \* the Mutex<bool>
  is_paused,  \* the AtomicBool
  reading,    \* read sections in progress, per split
  scan,       \* the split whose counter a draining collector loads next
  joined      \* history: threads refused by start_gc whose pause still lasts

vars == <<pc, op, mutex, paused, is_paused, reading, scan, joined>>

ReaderPcs == {"check", "enter", "recheck", "backout", "reading"}
WaitPcs   == {"waitlock", "waittest", "blocked"}
HeldPcs   == {"collect", "endlock", "endclear"}   \* drained, not yet ended
OwnerPcs  == {"drain"} \cup HeldPcs               \* paused the table
Pcs       == {"idle", "gclock", "gctest", "notify"}
               \cup ReaderPcs \cup WaitPcs \cup OwnerPcs

Init ==
  /\ pc = [t \in Threads |-> "idle"]
  /\ op = [t \in Threads |-> "read"]
  /\ mutex = NoThread
  /\ paused = FALSE
  /\ is_paused = FALSE
  /\ reading = [s \in Splits |-> 0]
  /\ scan = [t \in Threads |-> 0]
  /\ joined = {}

Goto(t, from, to) == pc[t] = from /\ pc' = [pc EXCEPT ![t] = to]

Lock(t) == mutex = NoThread /\ mutex' = t

Unlock(t) == mutex = t /\ mutex' = NoThread

(***************************************************************************)
(* read_table                                                              *)
(***************************************************************************)
BeginRead(t) ==
  /\ Goto(t, "idle", "check")
  /\ op' = [op EXCEPT ![t] = "read"]
  /\ UNCHANGED <<mutex, paused, is_paused, reading, scan, joined>>

\* The test at the head of the loop.
CheckPaused(t) ==
  /\ Goto(t, "check", IF is_paused THEN "waitlock" ELSE "enter")
  /\ UNCHANGED <<op, mutex, paused, is_paused, reading, scan, joined>>

CountIn(t) ==
  /\ Goto(t, "enter", "recheck")
  /\ reading' = [reading EXCEPT ![SplitOf[t]] = @ + 1]
  /\ UNCHANGED <<op, mutex, paused, is_paused, scan, joined>>

\* Mutant: the pause is not tested again after the counter went up.
RecheckSkipped(t) ==
  /\ Goto(t, "recheck", "reading")
  /\ UNCHANGED <<op, mutex, paused, is_paused, reading, scan, joined>>

\* A pause that came between the two tests turns the reader back.
Recheck(t) ==
  /\ Goto(t, "recheck", IF is_paused THEN "backout" ELSE "reading")
  /\ UNCHANGED <<op, mutex, paused, is_paused, reading, scan, joined>>

\* Mutant: the reader that turns back stays counted.
BackOutCounted(t) ==
  /\ Goto(t, "backout", "waitlock")
  /\ UNCHANGED <<op, mutex, paused, is_paused, reading, scan, joined>>

BackOut(t) ==
  /\ Goto(t, "backout", "waitlock")
  /\ reading' = [reading EXCEPT ![SplitOf[t]] = @ - 1]
  /\ UNCHANGED <<op, mutex, paused, is_paused, scan, joined>>

\* Mutant: the guard forgets which counter it raised.
EndReadFirst(t) ==
  /\ Goto(t, "reading", "idle")
  /\ reading' = [reading EXCEPT ![0] = @ - 1]
  /\ UNCHANGED <<op, mutex, paused, is_paused, scan, joined>>

\* Drop of ReadingTheTable.
EndRead(t) ==
  /\ Goto(t, "reading", "idle")
  /\ reading' = [reading EXCEPT ![SplitOf[t]] = @ - 1]
  /\ UNCHANGED <<op, mutex, paused, is_paused, scan, joined>>

(***************************************************************************)
(* wait_until_unpaused: a reader then tries again, a gc() returns.         *)
(***************************************************************************)
WaitLock(t) ==
  /\ Goto(t, "waitlock", "waittest")
  /\ Lock(t)
  /\ UNCHANGED <<op, paused, is_paused, reading, scan, joined>>

AfterWait(t) == IF op[t] = "read" THEN "check" ELSE "idle"

WaitTest(t) ==
  /\ Goto(t, "waittest", IF paused THEN "blocked" ELSE AfterWait(t))
  /\ Unlock(t)
  /\ UNCHANGED <<op, paused, is_paused, reading, scan, joined>>

\* Mutant: wait without the loop around it.
SpuriousReturn(t) ==
  /\ Goto(t, "blocked", AfterWait(t))
  /\ UNCHANGED <<op, mutex, paused, is_paused, reading, scan, joined>>

\* A Condvar may wake a waiter that nobody notified.
SpuriousWake(t) ==
  /\ Goto(t, "blocked", "waitlock")
  /\ UNCHANGED <<op, mutex, paused, is_paused, reading, scan, joined>>

(***************************************************************************)
(* gc(): start_gc, the collection, end_gc                                  *)
(***************************************************************************)
BeginGc(t) ==
  /\ Goto(t, "idle", "gclock")
  /\ op' = [op EXCEPT ![t] = "gc"]
  /\ UNCHANGED <<mutex, paused, is_paused, reading, scan, joined>>

StartGcLock(t) ==
  /\ Goto(t, "gclock", "gctest")
  /\ Lock(t)
  /\ UNCHANGED <<op, paused, is_paused, reading, scan, joined>>

StartGcRefused(t) ==
  /\ paused
  /\ Goto(t, "gctest", "waitlock")
  /\ Unlock(t)
  /\ joined' = joined \cup {t}
  /\ UNCHANGED <<op, paused, is_paused, reading, scan>>

\* Mutant: a second collector does not notice the first.
StartGcUntested(t) ==
  /\ Goto(t, "gctest", "drain")
  /\ Unlock(t)
  /\ paused' = TRUE
  /\ is_paused' = TRUE
  /\ scan' = [scan EXCEPT ![t] = 0]
  /\ UNCHANGED <<op, reading, joined>>

StartGcPause(t) ==
  /\ ~paused
  /\ Goto(t, "gctest", "drain")
  /\ Unlock(t)
  /\ paused' = TRUE
  /\ is_paused' = TRUE
  /\ scan' = [scan EXCEPT ![t] = 0]
  /\ UNCHANGED <<op, reading, joined>>

\* One load of the spin loop: a counter above 0 starts the scan over.
DrainLoad(t) ==
  /\ scan[t] < NSplits
  /\ Goto(t, "drain", "drain")
  /\ scan' = [scan EXCEPT ![t] = IF reading[@] = 0 THEN @ + 1 ELSE 0]
  /\ UNCHANGED <<op, mutex, paused, is_paused, reading, joined>>

Drained(t) ==
  /\ scan[t] = NSplits
  /\ Goto(t, "drain", "collect")
  /\ UNCHANGED <<op, mutex, paused, is_paused, reading, scan, joined>>

\* Mark and sweep, the work between start_gc and end_gc.
FinishCollect(t) ==
  /\ Goto(t, "collect", "endlock")
  /\ UNCHANGED <<op, mutex, paused, is_paused, reading, scan, joined>>

EndGcLock(t) ==
  /\ Goto(t, "endlock", "endclear")
  /\ Lock(t)
  /\ UNCHANGED <<op, paused, is_paused, reading, scan, joined>>

\* Mutant: the copy that readers test is not reset.
EndGcMutexOnly(t) ==
  /\ Goto(t, "endclear", "notify")
  /\ Unlock(t)
  /\ paused' = FALSE
  /\ joined' = {}
  /\ UNCHANGED <<op, is_paused, reading, scan>>

EndGcUnpause(t) ==
  /\ Goto(t, "endclear", "notify")
  /\ Unlock(t)
  /\ paused' = FALSE
  /\ is_paused' = FALSE
  /\ joined' = {}
  /\ UNCHANGED <<op, reading, scan>>

\* Mutant: notify_one.
EndGcNotifyOne(t) ==
  /\ pc[t] = "notify"
  /\ LET blocked == {u \in Threads : pc[u] = "blocked"} IN
       IF blocked = {} THEN pc' = [pc EXCEPT ![t] = "idle"]
       ELSE \E u \in blocked :
              pc' = [pc EXCEPT ![t] = "idle", ![u] = "waitlock"]
  /\ UNCHANGED <<op, mutex, paused, is_paused, reading, scan, joined>>

\* notify_all, after the lock was dropped.
EndGcNotify(t) ==
  /\ pc[t] = "notify"
  /\ pc' = [u \in Threads |->
              IF u = t THEN "idle"
              ELSE IF pc[u] = "blocked" THEN "waitlock" ELSE pc[u]]
  /\ UNCHANGED <<op, mutex, paused, is_paused, reading, scan, joined>>

-----------------------------------------------------------------------------

ReadStep(t) ==
  \/ CheckPaused(t) \/ CountIn(t) \/ Recheck(t) \/ BackOut(t) \/ EndRead(t)

WaitStep(t) == WaitLock(t) \/ WaitTest(t)

GcStep(t) ==
  \/ StartGcLock(t) \/ StartGcRefused(t) \/ StartGcPause(t)
  \/ DrainLoad(t) \/ Drained(t) \/ FinishCollect(t)
  \/ EndGcLock(t) \/ EndGcUnpause(t) \/ EndGcNotify(t)

\* What a thread does once it has called into the table.
Step(t) == ReadStep(t) \/ WaitStep(t) \/ GcStep(t)

Next ==
  \E t \in Threads : BeginRead(t) \/ BeginGc(t) \/ SpuriousWake(t) \/ Step(t)

Spec == Init /\ [][Next]_vars

(***************************************************************************)
(* Every thread that is inside a call is scheduled again and again, read   *)
(* sections are finite code, and a thread is woken without a notification  *)
(* only finitely often.  Nothing makes a thread begin a call, and nothing  *)
(* makes the mutex fair between the threads that contend for it.           *)
(***************************************************************************)
Fairness ==
  /\ \A t \in Threads : WF_vars(Step(t))
  /\ <>[][\A t \in Threads : ~SpuriousWake(t)]_vars

FairSpec == Spec /\ Fairness

-----------------------------------------------------------------------------

TypeOK ==
  /\ pc \in [Threads -> Pcs]
  /\ op \in [Threads -> {"read", "gc"}]
  /\ mutex \in Threads \cup {NoThread}
  /\ paused \in BOOLEAN
  /\ is_paused \in BOOLEAN
  /\ reading \in [Splits -> Nat]
  /\ scan \in [Threads -> 0 .. NSplits]
  /\ joined \subseteq Threads

\* While a collector works on the table no thread is in a read section and
\* no other thread has paused the table: the reason why clear() may replace
\* the vectors behind an UnsafeCell (hashtable.rs, start_gc and read_table).
Exclusion ==
  \A t \in Threads : pc[t] \in HeldPcs =>
    \A u \in Threads \ {t} : pc[u] # "reading" /\ pc[u] \notin OwnerPcs

\* A thread sleeps on the condition variable only while the table is paused
\* or the notify_all that wakes it is still to come, although end_gc
\* notifies after it has dropped the lock.
NoLostWakeup ==
  (\E t \in Threads : pc[t] = "blocked") =>
     paused \/ \E u \in Threads : pc[u] = "notify"

\* A gc() that found another collection running returns only after that
\* collection has ended ("Someone else is doing GC so let's wait til that's
\* done", garbage.rs), whatever wakes the condition variable.
GcWaitsForTheEnd ==
  [][\A t \in Threads :
       (pc[t] \in WaitPcs /\ op[t] = "gc" /\ pc'[t] = "idle")
         => t \notin joined]_vars

\* Every pause ends: its drain does, although readers that back out may raise
\* a counter it has already seen at 0, and its end_gc gets the mutex in spite
\* of the threads that contend for it.
PauseEnds == paused ~> ~paused

\* Once collections stop, every reader that was held up gets its section.
ReadersResume ==
  <>[](~paused) =>
    \A t \in Threads :
      (op[t] = "read" /\ pc[t] \in ReaderPcs \cup WaitPcs)
         ~> (pc[t] = "reading")

-----------------------------------------------------------------------------

\* The gate as the lock of TableLock.
Lk == INSTANCE TableLock WITH
        readers    <- {t \in Threads : pc[t] = "reading"},
        owner      <- {t \in Threads : pc[t] \in OwnerPcs},
        collecting <- \E t \in Threads : pc[t] \in HeldPcs

\* The protocol of atomics, mutex and condition variable implements the
\* abstract readers/collector lock.
ImplementsTableLock == Lk!Spec
=============================================================================
