-------------------------- MODULE PauseGateProofs --------------------------
(***************************************************************************)
(* The pause gate, for every number of threads, every number of counters   *)
(* and every assignment of threads to counters.                            *)
(*                                                                         *)
(* Exclusion is not inductive: it rests on what a draining collector has   *)
(* already seen (no reader is left on a scanned split, because `is_paused` *)
(* turns every newcomer back) and on the counters being exact.             *)
(***************************************************************************)
EXTENDS PauseGate, FiniteSetTheorems, TLAPS

CountedPcs == {"recheck", "backout", "reading"}

CountedOn(s) == {t \in Threads : SplitOf[t] = s /\ pc[t] \in CountedPcs}

CountersExact == \A s \in Splits : reading[s] = Cardinality(CountedOn(s))

FlagAgrees == is_paused = paused

PausedByOwner == paused <=> \E t \in Threads : pc[t] \in OwnerPcs

OneOwner ==
  \A t, u \in Threads : pc[t] \in OwnerPcs /\ pc[u] \in OwnerPcs => t = u

ScannedSplitsEmpty ==
  \A t, u \in Threads :
    pc[t] = "drain" /\ pc[u] = "reading" => scan[t] <= SplitOf[u]

DrainedEmpty ==
  \A t, u \in Threads : pc[t] \in HeldPcs => pc[u] # "reading"

JoinedWhilePaused == joined # {} => paused

\* The inductive invariant.
IInv ==
  /\ TypeOK
  /\ CountersExact
  /\ FlagAgrees
  /\ PausedByOwner
  /\ OneOwner
  /\ ScannedSplitsEmpty
  /\ DrainedEmpty
  /\ JoinedWhilePaused
  /\ NoLostWakeup

-----------------------------------------------------------------------------

\* A set of threads is finite: the counters are natural numbers.
LEMMA ThreadSetFinite ==
  ASSUME NEW S \in SUBSET Threads
  PROVE  IsFiniteSet(S) /\ Cardinality(S) \in Nat
  BY FS_Subset, FS_CardinalityType, GateAssumption

\* A split is an index of `reading`.
LEMMA SplitBounds ==
  ASSUME NEW t \in Threads
  PROVE  /\ SplitOf[t] \in Nat
         /\ SplitOf[t] < NSplits
         /\ SplitOf[t] \in Splits
  BY GateAssumption DEF Splits

\* The initial states satisfy the inductive invariant: nobody is in a call.
LEMMA InitIInv == Init => IInv
  <1> SUFFICES ASSUME Init PROVE IInv
    OBVIOUS
  <1> USE DEF Init
  <1>1. TypeOK
    <2>1. pc \in [Threads -> Pcs] /\ op \in [Threads -> {"read", "gc"}]
      BY DEF Pcs
    <2>2. reading \in [Splits -> Nat]
      OBVIOUS
    <2>3. scan \in [Threads -> 0 .. NSplits]
      BY GateAssumption
    <2>4. QED
      BY <2>1, <2>2, <2>3 DEF TypeOK
  <1>2. CountersExact
    <2>1. \A s \in Splits : CountedOn(s) = {}
      BY DEF CountedOn, CountedPcs
    <2>2. QED
      BY <2>1, FS_EmptySet DEF CountersExact
  <1>3. FlagAgrees /\ PausedByOwner /\ OneOwner /\ JoinedWhilePaused
    BY DEF FlagAgrees, PausedByOwner, OneOwner, JoinedWhilePaused, OwnerPcs, HeldPcs
  <1>4. ScannedSplitsEmpty /\ DrainedEmpty /\ NoLostWakeup
    BY DEF ScannedSplitsEmpty, DrainedEmpty, NoLostWakeup, HeldPcs
  <1>5. QED
    BY <1>1, <1>2, <1>3, <1>4 DEF IInv

\* A step that neither writes a counter nor moves a thread into or out of a
\* counted place keeps the counters exact.
LEMMA CountersFrame ==
  ASSUME CountersExact, UNCHANGED reading,
         \A t \in Threads : pc'[t] \in CountedPcs <=> pc[t] \in CountedPcs
  PROVE  CountersExact'
  <1>1. \A s \in Splits : CountedOn(s)' = CountedOn(s)
    BY DEF CountedOn
  <1>2. QED
    BY <1>1 DEF CountersExact

\* CountIn raises the counter of the thread that becomes counted.
LEMMA CountInCounts ==
  ASSUME TypeOK, CountersExact, NEW t \in Threads, CountIn(t)
  PROVE  CountersExact'
  <1> DEFINE r == SplitOf[t]
  <1>1. r \in Splits /\ t \notin CountedOn(r)
    BY GateAssumption DEF CountIn, Goto, CountedOn, CountedPcs, Splits
  <1>2. CountedOn(r)' = CountedOn(r) \cup {t}
    BY DEF CountIn, Goto, CountedOn, CountedPcs, TypeOK
  <1>3. \A s \in Splits \ {r} : CountedOn(s)' = CountedOn(s)
    BY DEF CountIn, Goto, CountedOn, CountedPcs, TypeOK
  <1>4. Cardinality(CountedOn(r)') = Cardinality(CountedOn(r)) + 1
    <2>1. IsFiniteSet(CountedOn(r))
      BY ThreadSetFinite DEF CountedOn
    <2>2. QED
      BY <1>1, <1>2, <2>1, FS_AddElement
  <1>5. /\ reading'[r] = reading[r] + 1
        /\ \A s \in Splits \ {r} : reading'[s] = reading[s]
    BY <1>1 DEF CountIn, TypeOK
  <1>6. QED
    BY <1>1, <1>3, <1>4, <1>5 DEF CountersExact

\* BackOut and EndRead lower the counter of a thread that was counted, so
\* no counter falls below 0.
LEMMA CountOutCounts ==
  ASSUME TypeOK, CountersExact, NEW t \in Threads, BackOut(t) \/ EndRead(t)
  PROVE  CountersExact' /\ reading' \in [Splits -> Nat]
  <1> DEFINE r == SplitOf[t]
  <1>1. r \in Splits /\ t \in CountedOn(r)
    BY GateAssumption DEF BackOut, EndRead, Goto, CountedOn, CountedPcs, Splits
  <1>2. CountedOn(r)' = CountedOn(r) \ {t}
    BY DEF BackOut, EndRead, Goto, CountedOn, CountedPcs, TypeOK
  <1>3. \A s \in Splits \ {r} : CountedOn(s)' = CountedOn(s)
    BY DEF BackOut, EndRead, Goto, CountedOn, CountedPcs, TypeOK
  <1>4. /\ Cardinality(CountedOn(r)') = Cardinality(CountedOn(r)) - 1
        /\ Cardinality(CountedOn(r)') \in Nat
    <2>1. IsFiniteSet(CountedOn(r)) /\ IsFiniteSet(CountedOn(r)')
      BY ThreadSetFinite DEF CountedOn
    <2>2. Cardinality(CountedOn(r)') \in Nat
      BY <2>1, FS_CardinalityType
    <2>3. QED
      BY <1>1, <1>2, <2>1, <2>2, FS_RemoveElement
  <1>5. /\ reading' = [reading EXCEPT ![r] = reading[r] - 1]
        /\ reading'[r] = reading[r] - 1
        /\ \A s \in Splits \ {r} : reading'[s] = reading[s]
    BY <1>1 DEF BackOut, EndRead, TypeOK
  <1>6. CountersExact'
    BY <1>1, <1>3, <1>4, <1>5 DEF CountersExact
  <1>7. reading'[r] \in Nat
    BY <1>1, <1>4, <1>5 DEF CountersExact
  <1>8. QED
    BY <1>1, <1>5, <1>6, <1>7 DEF TypeOK

\* What every step but those on a counter keeps: the types and the counters.
LEMMA QuietStep ==
  ASSUME IInv, NEW t \in Threads, NEW from \in Pcs, NEW to \in Pcs,
         Goto(t, from, to), UNCHANGED reading,
         from \in CountedPcs <=> to \in CountedPcs
  PROVE  pc' \in [Threads -> Pcs] /\ CountersExact'
  <1>1. pc' \in [Threads -> Pcs]
    BY DEF IInv, TypeOK, Goto
  <1>2. \A u \in Threads : pc'[u] \in CountedPcs <=> pc[u] \in CountedPcs
    BY DEF IInv, TypeOK, Goto
  <1>3. QED
    BY <1>1, <1>2, CountersFrame DEF IInv


\* The conjuncts of the inductive invariant that speak of the protocol.
Protocol ==
  /\ FlagAgrees
  /\ PausedByOwner
  /\ OneOwner
  /\ ScannedSplitsEmpty
  /\ DrainedEmpty
  /\ JoinedWhilePaused
  /\ NoLostWakeup

\* Every step of the gate keeps the inductive invariant.
LEMMA NextIInv == IInv /\ [Next]_vars => IInv'
  <1> SUFFICES ASSUME IInv, [Next]_vars PROVE IInv'
    OBVIOUS
  <1> USE DEF Pcs, ReaderPcs, WaitPcs, OwnerPcs, HeldPcs
  <1>0. TypeOK /\ CountersExact /\ Protocol
    BY DEF IInv, Protocol
  <1> SUFFICES TypeOK' /\ CountersExact' /\ Protocol'
    BY DEF IInv, Protocol
  <1>1. ASSUME NEW t \in Threads, BeginRead(t)
        PROVE  TypeOK' /\ CountersExact' /\ Protocol'
    <2>1. pc' \in [Threads -> Pcs] /\ CountersExact'
      BY <1>0, <1>1, QuietStep DEF BeginRead, CountedPcs
    <2>2. TypeOK'
      BY <1>0, <1>1, <2>1, GateAssumption DEF TypeOK, BeginRead, Lock, Unlock
    <2>8. Protocol'
      BY <1>0, <1>1, GateAssumption DEF TypeOK, BeginRead, Goto, Splits, Protocol, FlagAgrees, PausedByOwner, OneOwner, ScannedSplitsEmpty, DrainedEmpty, JoinedWhilePaused, NoLostWakeup
    <2>9. QED
      BY <2>1, <2>2, <2>8
  <1>2. ASSUME NEW t \in Threads, BeginGc(t)
        PROVE  TypeOK' /\ CountersExact' /\ Protocol'
    <2>1. pc' \in [Threads -> Pcs] /\ CountersExact'
      BY <1>0, <1>2, QuietStep DEF BeginGc, CountedPcs
    <2>2. TypeOK'
      BY <1>0, <1>2, <2>1, GateAssumption DEF TypeOK, BeginGc, Lock, Unlock
    <2>8. Protocol'
      BY <1>0, <1>2, GateAssumption DEF TypeOK, BeginGc, Goto, Splits, Protocol, FlagAgrees, PausedByOwner, OneOwner, ScannedSplitsEmpty, DrainedEmpty, JoinedWhilePaused, NoLostWakeup
    <2>9. QED
      BY <2>1, <2>2, <2>8
  <1>3. ASSUME NEW t \in Threads, SpuriousWake(t)
        PROVE  TypeOK' /\ CountersExact' /\ Protocol'
    <2>1. pc' \in [Threads -> Pcs] /\ CountersExact'
      BY <1>0, <1>3, QuietStep DEF SpuriousWake, CountedPcs
    <2>2. TypeOK'
      BY <1>0, <1>3, <2>1, GateAssumption DEF TypeOK, SpuriousWake, Lock, Unlock
    <2>8. Protocol'
      BY <1>0, <1>3, GateAssumption DEF TypeOK, SpuriousWake, Goto, Splits, Protocol, FlagAgrees, PausedByOwner, OneOwner, ScannedSplitsEmpty, DrainedEmpty, JoinedWhilePaused, NoLostWakeup
    <2>9. QED
      BY <2>1, <2>2, <2>8
  <1>4. ASSUME NEW t \in Threads, CheckPaused(t)
        PROVE  TypeOK' /\ CountersExact' /\ Protocol'
    <2>1. pc' \in [Threads -> Pcs] /\ CountersExact'
      BY <1>0, <1>4, QuietStep DEF TypeOK, CheckPaused, CountedPcs, AfterWait, Goto
    <2>2. TypeOK'
      BY <1>0, <1>4, <2>1 DEF TypeOK, CheckPaused, Goto, Unlock
    <2>8. Protocol'
      BY <1>0, <1>4, GateAssumption DEF TypeOK, CheckPaused, Goto, Splits, Protocol, FlagAgrees, PausedByOwner, OneOwner, ScannedSplitsEmpty, DrainedEmpty, JoinedWhilePaused, NoLostWakeup
    <2>9. QED
      BY <2>1, <2>2, <2>8
  <1>5. ASSUME NEW t \in Threads, CountIn(t)
        PROVE  TypeOK' /\ CountersExact' /\ Protocol'
    <2>1. TypeOK'
      <3>1. reading' \in [Splits -> Nat]
        BY <1>0, <1>5, GateAssumption DEF TypeOK, CountIn, Splits
      <3>2. QED
        BY <1>0, <1>5, <3>1 DEF TypeOK, CountIn, Goto
    <2>2. CountersExact'
      BY <1>0, <1>5, CountInCounts
    <2>8. Protocol'
      BY <1>0, <1>5, GateAssumption, SMTT(30) DEF TypeOK, CountIn, Goto, Splits, Protocol, FlagAgrees, PausedByOwner, OneOwner, ScannedSplitsEmpty, DrainedEmpty, JoinedWhilePaused, NoLostWakeup
    <2>9. QED
      BY <2>1, <2>2, <2>8
  <1>6. ASSUME NEW t \in Threads, Recheck(t)
        PROVE  TypeOK' /\ CountersExact' /\ Protocol'
    <2>1. pc' \in [Threads -> Pcs] /\ CountersExact'
      BY <1>0, <1>6, QuietStep DEF TypeOK, Recheck, CountedPcs, AfterWait, Goto
    <2>2. TypeOK'
      BY <1>0, <1>6, <2>1 DEF TypeOK, Recheck, Goto, Unlock
    <2>8. Protocol'
      BY <1>0, <1>6, GateAssumption DEF TypeOK, Recheck, Goto, Splits, Protocol, FlagAgrees, PausedByOwner, OneOwner, ScannedSplitsEmpty, DrainedEmpty, JoinedWhilePaused, NoLostWakeup
    <2>9. QED
      BY <2>1, <2>2, <2>8
  <1>7. ASSUME NEW t \in Threads, BackOut(t)
        PROVE  TypeOK' /\ CountersExact' /\ Protocol'
    <2>1. TypeOK' /\ CountersExact'
      BY <1>0, <1>7, CountOutCounts DEF TypeOK, BackOut, Goto
    <2>8. Protocol'
      BY <1>0, <1>7, GateAssumption DEF TypeOK, BackOut, Goto, Splits, Protocol, FlagAgrees, PausedByOwner, OneOwner, ScannedSplitsEmpty, DrainedEmpty, JoinedWhilePaused, NoLostWakeup
    <2>9. QED
      BY <2>1, <2>8
  <1>8. ASSUME NEW t \in Threads, EndRead(t)
        PROVE  TypeOK' /\ CountersExact' /\ Protocol'
    <2>1. TypeOK' /\ CountersExact'
      BY <1>0, <1>8, CountOutCounts DEF TypeOK, EndRead, Goto
    <2>8. Protocol'
      BY <1>0, <1>8, GateAssumption DEF TypeOK, EndRead, Goto, Splits, Protocol, FlagAgrees, PausedByOwner, OneOwner, ScannedSplitsEmpty, DrainedEmpty, JoinedWhilePaused, NoLostWakeup
    <2>9. QED
      BY <2>1, <2>8
  <1>9. ASSUME NEW t \in Threads, WaitLock(t)
        PROVE  TypeOK' /\ CountersExact' /\ Protocol'
    <2>1. pc' \in [Threads -> Pcs] /\ CountersExact'
      BY <1>0, <1>9, QuietStep DEF WaitLock, CountedPcs
    <2>2. TypeOK'
      BY <1>0, <1>9, <2>1, GateAssumption DEF TypeOK, WaitLock, Lock, Unlock
    <2>8. Protocol'
      BY <1>0, <1>9, GateAssumption DEF TypeOK, WaitLock, Goto, Splits, Protocol, FlagAgrees, PausedByOwner, OneOwner, ScannedSplitsEmpty, DrainedEmpty, JoinedWhilePaused, NoLostWakeup
    <2>9. QED
      BY <2>1, <2>2, <2>8
  <1>10. ASSUME NEW t \in Threads, WaitTest(t)
        PROVE  TypeOK' /\ CountersExact' /\ Protocol'
    <2>1. pc' \in [Threads -> Pcs] /\ CountersExact'
      BY <1>0, <1>10, QuietStep DEF TypeOK, WaitTest, CountedPcs, AfterWait, Goto
    <2>2. TypeOK'
      BY <1>0, <1>10, <2>1 DEF TypeOK, WaitTest, Goto, Unlock
    <2>8. Protocol'
      <3>1. FlagAgrees' /\ JoinedWhilePaused'
        BY <1>0, <1>10 DEF WaitTest, Protocol, FlagAgrees, JoinedWhilePaused
      <3>2. \A u \in Threads :
              /\ pc'[u] \in OwnerPcs <=> pc[u] \in OwnerPcs
              /\ pc'[u] \in HeldPcs <=> pc[u] \in HeldPcs
              /\ pc'[u] = "drain" <=> pc[u] = "drain"
              /\ pc'[u] = "reading" <=> pc[u] = "reading"
        BY <1>0, <1>10 DEF TypeOK, WaitTest, Goto, AfterWait
      <3>3. PausedByOwner' /\ OneOwner' /\ ScannedSplitsEmpty' /\ DrainedEmpty'
        BY <1>0, <1>10, <3>2
        DEF WaitTest, Protocol, PausedByOwner, OneOwner, ScannedSplitsEmpty, DrainedEmpty
      <3>4. ASSUME paused PROVE NoLostWakeup'
        BY <1>0, <1>10, <3>4 DEF WaitTest, NoLostWakeup, Protocol
      <3>5. ASSUME ~paused PROVE NoLostWakeup'
        BY <1>0, <1>10, <3>5
        DEF TypeOK, WaitTest, Goto, AfterWait, NoLostWakeup, Protocol
      <3>6. QED
        BY <3>1, <3>3, <3>4, <3>5 DEF Protocol
    <2>9. QED
      BY <2>1, <2>2, <2>8
  <1>11. ASSUME NEW t \in Threads, StartGcLock(t)
        PROVE  TypeOK' /\ CountersExact' /\ Protocol'
    <2>1. pc' \in [Threads -> Pcs] /\ CountersExact'
      BY <1>0, <1>11, QuietStep DEF StartGcLock, CountedPcs
    <2>2. TypeOK'
      BY <1>0, <1>11, <2>1, GateAssumption DEF TypeOK, StartGcLock, Lock, Unlock
    <2>8. Protocol'
      BY <1>0, <1>11, GateAssumption DEF TypeOK, StartGcLock, Goto, Splits, Protocol, FlagAgrees, PausedByOwner, OneOwner, ScannedSplitsEmpty, DrainedEmpty, JoinedWhilePaused, NoLostWakeup
    <2>9. QED
      BY <2>1, <2>2, <2>8
  <1>12. ASSUME NEW t \in Threads, StartGcRefused(t)
        PROVE  TypeOK' /\ CountersExact' /\ Protocol'
    <2>1. pc' \in [Threads -> Pcs] /\ CountersExact'
      BY <1>0, <1>12, QuietStep DEF StartGcRefused, CountedPcs
    <2>2. TypeOK'
      BY <1>0, <1>12, <2>1, GateAssumption DEF TypeOK, StartGcRefused, Lock, Unlock
    <2>8. Protocol'
      BY <1>0, <1>12, GateAssumption DEF TypeOK, StartGcRefused, Goto, Splits, Protocol, FlagAgrees, PausedByOwner, OneOwner, ScannedSplitsEmpty, DrainedEmpty, JoinedWhilePaused, NoLostWakeup
    <2>9. QED
      BY <2>1, <2>2, <2>8
  <1>13. ASSUME NEW t \in Threads, StartGcPause(t)
        PROVE  TypeOK' /\ CountersExact' /\ Protocol'
    <2>1. pc' \in [Threads -> Pcs] /\ CountersExact'
      BY <1>0, <1>13, QuietStep DEF StartGcPause, CountedPcs
    <2>2. TypeOK'
      <3>1. scan' \in [Threads -> 0 .. NSplits]
        BY <1>0, <1>13, GateAssumption DEF TypeOK, StartGcPause
      <3>2. QED
        BY <1>0, <1>13, <2>1, <3>1 DEF TypeOK, StartGcPause, Unlock
    <2>8. Protocol'
      <3>1. FlagAgrees' /\ JoinedWhilePaused' /\ NoLostWakeup'
        BY <1>13 DEF StartGcPause, FlagAgrees, JoinedWhilePaused, NoLostWakeup
      <3>2. \A u \in Threads : pc[u] \notin OwnerPcs
        BY <1>0, <1>13 DEF StartGcPause, Protocol, PausedByOwner
      <3>3. PausedByOwner' /\ OneOwner' /\ DrainedEmpty'
        BY <1>0, <1>13, <3>2
        DEF TypeOK, StartGcPause, Goto, PausedByOwner, OneOwner, DrainedEmpty
      <3>4. ScannedSplitsEmpty'
        <4>1. scan'[t] = 0 /\ \A u \in Threads : 0 <= SplitOf[u]
          BY <1>0, <1>13, SplitBounds DEF TypeOK, StartGcPause
        <4>2. \A u \in Threads : pc'[u] = "drain" => u = t
          BY <1>0, <1>13, <3>2 DEF TypeOK, StartGcPause, Goto
        <4>3. QED
          BY <4>1, <4>2 DEF ScannedSplitsEmpty
      <3>5. QED
        BY <3>1, <3>3, <3>4 DEF Protocol
    <2>9. QED
      BY <2>1, <2>2, <2>8
  <1>14. ASSUME NEW t \in Threads, DrainLoad(t)
        PROVE  TypeOK' /\ CountersExact' /\ Protocol'
    <2>1. pc' \in [Threads -> Pcs] /\ CountersExact'
      BY <1>0, <1>14, QuietStep DEF DrainLoad, CountedPcs
    <2>2. TypeOK'
      <3>1. scan' \in [Threads -> 0 .. NSplits]
        BY <1>0, <1>14, GateAssumption DEF TypeOK, DrainLoad
      <3>2. QED
        BY <1>0, <1>14, <2>1, <3>1 DEF TypeOK, DrainLoad
    <2>8. Protocol'
      <3>1. pc' = pc /\ paused' = paused
        BY <1>0, <1>14 DEF TypeOK, DrainLoad, Goto
      <3>2. /\ FlagAgrees' /\ JoinedWhilePaused' /\ NoLostWakeup'
            /\ PausedByOwner' /\ OneOwner' /\ DrainedEmpty'
        BY <1>0, <1>14, <3>1
        DEF DrainLoad, Protocol, FlagAgrees, JoinedWhilePaused, NoLostWakeup,
            PausedByOwner, OneOwner, DrainedEmpty
      <3>3. ASSUME NEW u \in Threads, pc[u] = "reading"
            PROVE  scan'[t] <= SplitOf[u]
        \* The counter of a reader's split is not 0: the scan stops before it.
        <4>1. SplitOf[u] \in Splits /\ u \in CountedOn(SplitOf[u])
          BY <3>3, SplitBounds DEF CountedOn, CountedPcs
        <4>2. reading[SplitOf[u]] # 0
          <5>1. IsFiniteSet(CountedOn(SplitOf[u]))
            BY ThreadSetFinite DEF CountedOn
          <5>2. QED
            BY <1>0, <4>1, <5>1, FS_EmptySet DEF CountersExact
        <4>3. scan[t] \in Nat /\ SplitOf[u] \in Nat /\ scan[t] <= SplitOf[u]
          BY <1>0, <1>14, <3>3, SplitBounds, GateAssumption
          DEF TypeOK, DrainLoad, Goto, Protocol, ScannedSplitsEmpty
        <4>4. scan'[t] = IF reading[scan[t]] = 0 THEN scan[t] + 1 ELSE 0
          BY <1>0, <1>14 DEF TypeOK, DrainLoad
        <4>5. CASE reading[scan[t]] = 0
          BY <4>2, <4>3, <4>4, <4>5
        <4>6. CASE reading[scan[t]] # 0
          BY <4>3, <4>4, <4>6
        <4>7. QED
          BY <4>5, <4>6
      <3>4. ScannedSplitsEmpty'
        <4>1. \A u \in Threads \ {t} : scan'[u] = scan[u]
          BY <1>0, <1>14 DEF TypeOK, DrainLoad
        <4>2. QED
          BY <1>0, <3>1, <3>3, <4>1 DEF Protocol, ScannedSplitsEmpty
      <3>5. QED
        BY <3>2, <3>4 DEF Protocol
    <2>9. QED
      BY <2>1, <2>2, <2>8
  <1>15. ASSUME NEW t \in Threads, Drained(t)
        PROVE  TypeOK' /\ CountersExact' /\ Protocol'
    <2>1. pc' \in [Threads -> Pcs] /\ CountersExact'
      BY <1>0, <1>15, QuietStep DEF Drained, CountedPcs
    <2>2. TypeOK'
      BY <1>0, <1>15, <2>1, GateAssumption DEF TypeOK, Drained, Lock, Unlock
    <2>8. Protocol'
      <3>1. \A u \in Threads : pc[u] # "reading"
        <4>1. \A u \in Threads : SplitOf[u] \in 0 .. NSplits - 1
          BY GateAssumption
        <4>2. pc[t] = "drain" /\ scan[t] = NSplits
          BY <1>15 DEF Drained, Goto
        <4>3. QED
          BY <1>0, <4>1, <4>2, GateAssumption DEF Protocol, ScannedSplitsEmpty
      <3>2. ScannedSplitsEmpty' /\ DrainedEmpty'
        BY <1>0, <1>15, <3>1
        DEF TypeOK, Drained, Goto, ScannedSplitsEmpty, DrainedEmpty
      <3>3. /\ FlagAgrees' /\ JoinedWhilePaused' /\ NoLostWakeup'
            /\ PausedByOwner' /\ OneOwner'
        BY <1>0, <1>15
        DEF TypeOK, Drained, Goto, Protocol, FlagAgrees, JoinedWhilePaused,
            NoLostWakeup, PausedByOwner, OneOwner
      <3>4. QED
        BY <3>2, <3>3 DEF Protocol
    <2>9. QED
      BY <2>1, <2>2, <2>8
  <1>16. ASSUME NEW t \in Threads, FinishCollect(t)
        PROVE  TypeOK' /\ CountersExact' /\ Protocol'
    <2>1. pc' \in [Threads -> Pcs] /\ CountersExact'
      BY <1>0, <1>16, QuietStep DEF FinishCollect, CountedPcs
    <2>2. TypeOK'
      BY <1>0, <1>16, <2>1, GateAssumption DEF TypeOK, FinishCollect, Lock, Unlock
    <2>8. Protocol'
      BY <1>0, <1>16, GateAssumption DEF TypeOK, FinishCollect, Goto, Splits, Protocol, FlagAgrees, PausedByOwner, OneOwner, ScannedSplitsEmpty, DrainedEmpty, JoinedWhilePaused, NoLostWakeup
    <2>9. QED
      BY <2>1, <2>2, <2>8
  <1>17. ASSUME NEW t \in Threads, EndGcLock(t)
        PROVE  TypeOK' /\ CountersExact' /\ Protocol'
    <2>1. pc' \in [Threads -> Pcs] /\ CountersExact'
      BY <1>0, <1>17, QuietStep DEF EndGcLock, CountedPcs
    <2>2. TypeOK'
      BY <1>0, <1>17, <2>1, GateAssumption DEF TypeOK, EndGcLock, Lock, Unlock
    <2>8. Protocol'
      BY <1>0, <1>17, GateAssumption DEF TypeOK, EndGcLock, Goto, Splits, Protocol, FlagAgrees, PausedByOwner, OneOwner, ScannedSplitsEmpty, DrainedEmpty, JoinedWhilePaused, NoLostWakeup
    <2>9. QED
      BY <2>1, <2>2, <2>8
  <1>18. ASSUME NEW t \in Threads, EndGcUnpause(t)
        PROVE  TypeOK' /\ CountersExact' /\ Protocol'
    <2>1. pc' \in [Threads -> Pcs] /\ CountersExact'
      BY <1>0, <1>18, QuietStep DEF EndGcUnpause, CountedPcs
    <2>2. TypeOK'
      BY <1>0, <1>18, <2>1, GateAssumption DEF TypeOK, EndGcUnpause, Lock, Unlock
    <2>8. Protocol'
      BY <1>0, <1>18, GateAssumption DEF TypeOK, EndGcUnpause, Goto, Splits, Protocol, FlagAgrees, PausedByOwner, OneOwner, ScannedSplitsEmpty, DrainedEmpty, JoinedWhilePaused, NoLostWakeup
    <2>9. QED
      BY <2>1, <2>2, <2>8
  <1>19. ASSUME NEW t \in Threads, EndGcNotify(t)
        PROVE  TypeOK' /\ CountersExact' /\ Protocol'
    <2>1. TypeOK'
      BY <1>0, <1>19 DEF TypeOK, EndGcNotify
    <2>2. CountersExact'
      BY <1>0, <1>19, CountersFrame DEF TypeOK, EndGcNotify, CountedPcs
    <2>8. Protocol'
      BY <1>0, <1>19, GateAssumption DEF TypeOK, EndGcNotify, Goto, Splits, Protocol, FlagAgrees, PausedByOwner, OneOwner, ScannedSplitsEmpty, DrainedEmpty, JoinedWhilePaused, NoLostWakeup
    <2>9. QED
      BY <2>1, <2>2, <2>8
  <1>20. CASE UNCHANGED vars
    BY <1>0, <1>20, CountersFrame DEF vars, TypeOK, Protocol, FlagAgrees, PausedByOwner, OneOwner, ScannedSplitsEmpty, DrainedEmpty, JoinedWhilePaused, NoLostWakeup
  <1>21. QED
    BY <1>1, <1>2, <1>3, <1>4, <1>5, <1>6, <1>7, <1>8, <1>9, <1>10, <1>11, <1>12, <1>13, <1>14, <1>15, <1>16, <1>17, <1>18, <1>19, <1>20
    DEF Next, Step, ReadStep, WaitStep, GcStep

-----------------------------------------------------------------------------

\* The inductive invariant holds in every reachable state.
THEOREM Invariance == Spec => []IInv
  BY InitIInv, NextIInv, PTL DEF Spec

\* Every variable of the gate keeps its type; in particular no counter of
\* readers ever falls below 0.
THEOREM TypeCorrectness == Spec => []TypeOK
  <1>1. IInv => TypeOK
    BY DEF IInv
  <1>2. QED
    BY <1>1, Invariance, PTL

\* A collector that works on the table is alone: hashtable.rs relies on it
\* to replace the vectors that readers index.
THEOREM CollectorExclusion == Spec => []Exclusion
  <1>1. IInv => Exclusion
    BY DEF IInv, Exclusion, DrainedEmpty, OneOwner, OwnerPcs
  <1>2. QED
    BY <1>1, Invariance, PTL

\* No thread sleeps through the notify_all of end_gc.
THEOREM WakeupsArrive == Spec => []NoLostWakeup
  <1>1. IInv => NoLostWakeup
    BY DEF IInv
  <1>2. QED
    BY <1>1, Invariance, PTL

\* A gc() that was refused by start_gc returns only once the collection it
\* ran into has ended.
THEOREM RefusedGcWaits == Spec => GcWaitsForTheEnd
  <1> DEFINE Waited ==
        \A t \in Threads :
          (pc[t] \in WaitPcs /\ op[t] = "gc" /\ pc'[t] = "idle")
            => t \notin joined
  <1>1. IInv /\ [Next]_vars => [Waited]_vars
    <2> SUFFICES ASSUME IInv, Next, NEW t \in Threads,
                        pc[t] \in WaitPcs, pc'[t] = "idle"
                 PROVE  t \notin joined
      OBVIOUS
    <2>1. PICK u \in Threads :
            BeginRead(u) \/ BeginGc(u) \/ SpuriousWake(u) \/ Step(u)
      BY DEF Next
    <2>2. WaitTest(u) /\ ~paused
      BY <2>1
      DEF Step, ReadStep, WaitStep, GcStep, Goto, IInv, TypeOK, WaitPcs,
          BeginRead, BeginGc, SpuriousWake, CheckPaused, CountIn, Recheck,
          BackOut, EndRead, WaitLock, WaitTest, StartGcLock, StartGcRefused,
          StartGcPause, DrainLoad, Drained, FinishCollect, EndGcLock,
          EndGcUnpause, EndGcNotify
    <2>3. QED
      BY <2>2 DEF IInv, JoinedWhilePaused
  <1>2. QED
    BY <1>1, Invariance, PTL DEF Spec, GcWaitsForTheEnd

-----------------------------------------------------------------------------

\* The refinement mapping, under names of this module.
InSection == {t \in Threads : pc[t] = "reading"}
Closers   == {t \in Threads : pc[t] \in OwnerPcs}
Working   == \E t \in Threads : pc[t] \in HeldPcs

\* A step that moves a thread between places the mapping does not tell
\* apart, and leaves `joined` alone, is a stutter of the lock.
LEMMA UnseenStep ==
  ASSUME UNCHANGED joined,
         \A u \in Threads : /\ pc'[u] = "reading" <=> pc[u] = "reading"
                            /\ pc'[u] \in OwnerPcs <=> pc[u] \in OwnerPcs
                            /\ pc'[u] \in HeldPcs <=> pc[u] \in HeldPcs
  PROVE  UNCHANGED Lk!vars
  <1>1. InSection' = InSection /\ Closers' = Closers /\ Working' = Working
    BY DEF InSection, Closers, Working
  <1>2. QED
    BY <1>1 DEF Lk!vars, InSection, Closers, Working

\* Every step of the gate is a step of the lock or leaves it as it is.
LEMMA StepRefines == IInv /\ [Next]_vars => [Lk!Next]_(Lk!vars)
  <1> SUFFICES ASSUME IInv, [Next]_vars PROVE [Lk!Next]_(Lk!vars)
    OBVIOUS
  <1> USE DEF OwnerPcs, HeldPcs
  <1>0. TypeOK
    BY DEF IInv
  <1>1. ASSUME NEW t \in Threads, BeginRead(t) PROVE UNCHANGED Lk!vars
    BY <1>0, <1>1, UnseenStep DEF TypeOK, BeginRead, Goto
  <1>2. ASSUME NEW t \in Threads, BeginGc(t) PROVE UNCHANGED Lk!vars
    BY <1>0, <1>2, UnseenStep DEF TypeOK, BeginGc, Goto
  <1>3. ASSUME NEW t \in Threads, SpuriousWake(t) PROVE UNCHANGED Lk!vars
    BY <1>0, <1>3, UnseenStep DEF TypeOK, SpuriousWake, Goto
  <1>4. ASSUME NEW t \in Threads, CheckPaused(t) PROVE UNCHANGED Lk!vars
    BY <1>0, <1>4, UnseenStep DEF TypeOK, CheckPaused, Goto
  <1>5. ASSUME NEW t \in Threads, CountIn(t) PROVE UNCHANGED Lk!vars
    BY <1>0, <1>5, UnseenStep DEF TypeOK, CountIn, Goto
  <1>6. ASSUME NEW t \in Threads, BackOut(t) PROVE UNCHANGED Lk!vars
    BY <1>0, <1>6, UnseenStep DEF TypeOK, BackOut, Goto
  <1>7. ASSUME NEW t \in Threads, WaitLock(t) PROVE UNCHANGED Lk!vars
    BY <1>0, <1>7, UnseenStep DEF TypeOK, WaitLock, Goto
  <1>8. ASSUME NEW t \in Threads, WaitTest(t) PROVE UNCHANGED Lk!vars
    BY <1>0, <1>8, UnseenStep DEF TypeOK, WaitTest, Goto, AfterWait
  <1>9. ASSUME NEW t \in Threads, StartGcLock(t) PROVE UNCHANGED Lk!vars
    BY <1>0, <1>9, UnseenStep DEF TypeOK, StartGcLock, Goto
  <1>10. ASSUME NEW t \in Threads, DrainLoad(t) PROVE UNCHANGED Lk!vars
    BY <1>0, <1>10, UnseenStep DEF TypeOK, DrainLoad, Goto
  <1>11. ASSUME NEW t \in Threads, FinishCollect(t) PROVE UNCHANGED Lk!vars
    BY <1>0, <1>11, UnseenStep DEF TypeOK, FinishCollect, Goto
  <1>12. ASSUME NEW t \in Threads, EndGcLock(t) PROVE UNCHANGED Lk!vars
    BY <1>0, <1>12, UnseenStep DEF TypeOK, EndGcLock, Goto
  <1>13. ASSUME NEW t \in Threads, EndGcNotify(t) PROVE UNCHANGED Lk!vars
    BY <1>0, <1>13, UnseenStep DEF TypeOK, EndGcNotify
  <1>14. CASE UNCHANGED vars
    BY <1>14, UnseenStep DEF vars
  <1>15. ASSUME NEW t \in Threads, Recheck(t) PROVE [Lk!Next]_(Lk!vars)
    <2>1. CASE is_paused
      BY <1>0, <1>15, <2>1, UnseenStep DEF TypeOK, Recheck, Goto
    <2>2. CASE ~is_paused
      <3>1. Closers = {}
        BY <2>2 DEF IInv, FlagAgrees, PausedByOwner, Closers
      <3>2. InSection' = InSection \cup {t} /\ Closers' = Closers /\ Working' = Working
        BY <1>0, <1>15, <2>2 DEF TypeOK, Recheck, Goto, InSection, Closers, Working
      <3>3. Lk!Enter(t)
        BY <1>15, <3>1, <3>2 DEF Recheck, Lk!Enter, InSection, Closers, Working
      <3>4. QED
        BY <3>3 DEF Lk!Next
    <2>3. QED
      BY <2>1, <2>2
  <1>16. ASSUME NEW t \in Threads, EndRead(t) PROVE [Lk!Next]_(Lk!vars)
    <2>1. t \in InSection /\ InSection' = InSection \ {t}
          /\ Closers' = Closers /\ Working' = Working
      BY <1>0, <1>16 DEF TypeOK, EndRead, Goto, InSection, Closers, Working
    <2>2. Lk!Leave(t)
      BY <1>16, <2>1 DEF EndRead, Lk!Leave, InSection, Closers, Working
    <2>3. QED
      BY <2>2 DEF Lk!Next
  <1>17. ASSUME NEW t \in Threads, StartGcRefused(t) PROVE [Lk!Next]_(Lk!vars)
    <2>1. Closers # {} /\ t \notin Closers
      BY <1>17 DEF IInv, PausedByOwner, StartGcRefused, Goto, Closers
    <2>2. InSection' = InSection /\ Closers' = Closers /\ Working' = Working
      BY <1>0, <1>17 DEF TypeOK, StartGcRefused, Goto, InSection, Closers, Working
    <2>3. Lk!Join(t)
      BY <1>17, <2>1, <2>2 DEF StartGcRefused, Lk!Join, InSection, Closers, Working
    <2>4. QED
      BY <2>3 DEF Lk!Next
  <1>18. ASSUME NEW t \in Threads, StartGcPause(t) PROVE [Lk!Next]_(Lk!vars)
    <2>1. Closers = {} /\ t \notin InSection
      BY <1>18 DEF IInv, PausedByOwner, StartGcPause, Goto, Closers, InSection
    <2>2. InSection' = InSection /\ Closers' = {t} /\ Working' = Working
      BY <1>0, <1>18, <2>1 DEF TypeOK, StartGcPause, Goto, InSection, Closers, Working
    <2>3. Lk!Close(t)
      BY <1>18, <2>1, <2>2 DEF StartGcPause, Lk!Close, InSection, Closers, Working
    <2>4. QED
      BY <2>3 DEF Lk!Next
  <1>19. ASSUME NEW t \in Threads, Drained(t) PROVE [Lk!Next]_(Lk!vars)
    <2>1. Closers # {} /\ ~Working
      BY <1>19 DEF IInv, OneOwner, Drained, Goto, Closers, Working
    <2>2. InSection' = InSection /\ Closers' = Closers /\ Working'
      BY <1>0, <1>19 DEF TypeOK, Drained, Goto, InSection, Closers, Working
    <2>3. InSection = {}
      <3>1. DrainedEmpty'
        BY NextIInv DEF IInv
      <3>2. QED
        BY <2>2, <3>1 DEF DrainedEmpty, InSection, Working
    <2>4. Lk!Collect
      BY <1>19, <2>1, <2>2, <2>3 DEF Drained, Lk!Collect, InSection, Closers, Working
    <2>5. QED
      BY <2>4 DEF Lk!Next
  <1>20. ASSUME NEW t \in Threads, EndGcUnpause(t) PROVE [Lk!Next]_(Lk!vars)
    <2>1. Working /\ Closers = {t}
      BY <1>20 DEF IInv, OneOwner, EndGcUnpause, Goto, Closers, Working
    <2>2. InSection' = InSection /\ Closers' = {} /\ ~Working'
      BY <1>0, <1>20, <2>1 DEF TypeOK, EndGcUnpause, Goto, InSection, Closers, Working
    <2>3. Lk!Open
      BY <1>20, <2>1, <2>2 DEF EndGcUnpause, Lk!Open, InSection, Closers, Working
    <2>4. QED
      BY <2>3 DEF Lk!Next
  <1>21. QED
    BY <1>1, <1>2, <1>3, <1>4, <1>5, <1>6, <1>7, <1>8, <1>9, <1>10, <1>11, <1>12, <1>13, <1>14, <1>15, <1>16, <1>17, <1>18, <1>19, <1>20
    DEF Next, Step, ReadStep, WaitStep, GcStep

\* The pause gate implements the abstract lock: the protocol of atomics,
\* mutex and condition variable never lets a reader in while a collector
\* works, whatever the number of threads and counters.
THEOREM GateImplementsLock == Spec => ImplementsTableLock
  <1>1. Init => Lk!Init
    BY DEF Init, Lk!Init, OwnerPcs, HeldPcs
  <1>2. QED
    BY <1>1, StepRefines, Invariance, PTL DEF Spec, ImplementsTableLock, Lk!Spec
=============================================================================
