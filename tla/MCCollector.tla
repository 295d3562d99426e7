---------------------------- MODULE MCCollector ----------------------------
EXTENDS Collector, TLC

CONSTANTS t1, t2, r1, r2, r3, r4

Pair == {t1, t2}

ThreeRegs == {r1, r2, r3}
TwoRegs   == {r1, r2}
FourRegs  == ThreeRegs \cup {r4}
SoloPlaces == (t1 :> ThreeRegs) @@ (t2 :> {r4})
PairPlaces == (t1 :> TwoRegs) @@ (t2 :> TwoRegs)
Symmetry  == Permutations(ThreeRegs)

\* One thread that makes every call; the other keeps or sends back what it
\* is sent.
SoloCalls == (t1 :> CallNames) @@ (t2 :> {"send"})

\* Two threads that build and collect.
BuildCalls == (t1 :> {"node", "drop", "gc"}) @@ (t2 :> {"node", "drop"})

\* One thread builds, takes apart, drops and collects as it does; the other
\* calls gc.
SharedCalls == (t1 :> {"node", "drop", "get", "lo_hi"}) @@ (t2 :> {"gc"})
OnePlaces   == (t1 :> ThreeRegs) @@ (t2 :> {})

\* A behaviour is followed up to its first race.
RaceFree == ~raced
=============================================================================
