----------------------------- MODULE InternMap -----------------------------
(***************************************************************************)
(* What the unique table promises: a node is given one index, every thread *)
(* that asks for the node is given that index, and the answer stays right  *)
(* until a collection forgets the node.  UniqueTable implements it.        *)
(***************************************************************************)
EXTENDS Naturals

CONSTANTS
  Threads,
  Keys,      \* the nodes (RawZddData values) that are looked up
  Indices    \* the indices a node may be given

VARIABLES
  interned,  \* the index of each node, 0 for a node without one
  call       \* what each thread has asked and what it was answered

vars == <<interned, call>>

None       == [state |-> "none"]
Pending(k) == [state |-> "pending", key |-> k]
Answer(k, i) == [state |-> "answered", key |-> k, index |-> i]
Failed(k)  == [state |-> "failed", key |-> k]

Init ==
  /\ interned = [k \in Keys |-> 0]
  /\ call = [t \in Threads |-> None]

Ask(t, k) ==
  /\ call[t] = None
  /\ call' = [call EXCEPT ![t] = Pending(k)]
  /\ UNCHANGED interned

\* The node is known.
Find(t, k) ==
  /\ call[t] = Pending(k)
  /\ interned[k] # 0
  /\ call' = [call EXCEPT ![t] = Answer(k, interned[k])]
  /\ UNCHANGED interned

\* The node is new: it takes an index that no other node has.
Create(t, k, i) ==
  /\ call[t] = Pending(k)
  /\ interned[k] = 0
  /\ \A j \in Keys : interned[j] # i
  /\ interned' = [interned EXCEPT ![k] = i]
  /\ call' = [call EXCEPT ![t] = Answer(k, i)]

\* No index was found for the node.
Fail(t, k) ==
  /\ call[t] = Pending(k)
  /\ call' = [call EXCEPT ![t] = Failed(k)]
  /\ UNCHANGED interned

Return(t) ==
  /\ call[t].state \in {"answered", "failed"}
  /\ call' = [call EXCEPT ![t] = None]
  /\ UNCHANGED interned

\* A collection keeps the nodes of `keep` where they are.
Forget(keep) ==
  /\ \A t \in Threads : call[t] = None
  /\ interned' = [k \in Keys |-> IF k \in keep THEN interned[k] ELSE 0]
  /\ UNCHANGED call

Next ==
  \/ \E t \in Threads :
       \/ Return(t)
       \/ \E k \in Keys : \/ Ask(t, k) \/ Find(t, k) \/ Fail(t, k)
                          \/ \E i \in Indices : Create(t, k, i)
  \/ \E keep \in SUBSET Keys : Forget(keep)

Spec == Init /\ [][Next]_vars
=============================================================================
