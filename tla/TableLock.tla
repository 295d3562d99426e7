----------------------------- MODULE TableLock -----------------------------
(***************************************************************************)
(* What the pause gate of the unique table promises to the rest of the     *)
(* library: many threads may read the table at once, a garbage collection  *)
(* first closes the table to new readers, works only once the last reader  *)
(* has left, and a thread that asks for a collection while one is running  *)
(* is answered by that collection.                                         *)
(*                                                                         *)
(* PauseGate, the model of the code, is shown to implement this module.    *)
(***************************************************************************)

CONSTANT Threads    \* the threads that share one ZddHolder

VARIABLES
  readers,     \* threads inside a read section
  owner,       \* the thread that closed the table, as a set of at most one
  collecting,  \* the owner has seen the last reader leave
  joined       \* threads whose request is answered by the running collection

vars == <<readers, owner, collecting, joined>>

Init ==
  /\ readers = {}
  /\ owner = {}
  /\ collecting = FALSE
  /\ joined = {}

Enter(t) ==
  /\ owner = {}
  /\ readers' = readers \cup {t}
  /\ UNCHANGED <<owner, collecting, joined>>

Leave(t) ==
  /\ t \in readers
  /\ readers' = readers \ {t}
  /\ UNCHANGED <<owner, collecting, joined>>

Close(t) ==
  /\ owner = {}
  /\ t \notin readers
  /\ owner' = {t}
  /\ UNCHANGED <<readers, collecting, joined>>

Join(t) ==
  /\ owner # {}
  /\ t \notin owner
  /\ joined' = joined \cup {t}
  /\ UNCHANGED <<readers, owner, collecting>>

Collect ==
  /\ owner # {}
  /\ readers = {}
  /\ ~collecting
  /\ collecting' = TRUE
  /\ UNCHANGED <<readers, owner, joined>>

Open ==
  /\ collecting
  /\ owner' = {}
  /\ collecting' = FALSE
  /\ joined' = {}
  /\ UNCHANGED readers

Next ==
  \/ \E t \in Threads : Enter(t) \/ Leave(t) \/ Close(t) \/ Join(t)
  \/ Collect
  \/ Open

Spec == Init /\ [][Next]_vars
=============================================================================
