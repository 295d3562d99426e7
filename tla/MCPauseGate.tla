---------------------------- MODULE MCPauseGate ----------------------------
(* Three threads on two counters: two of them share a counter.             *)
EXTENDS PauseGate, TLC

CONSTANTS t1, t2, t3

MCThreads == {t1, t2, t3}
MCSplitOf == (t1 :> 0) @@ (t2 :> 1) @@ (t3 :> 0)
=============================================================================
