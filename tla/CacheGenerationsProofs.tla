----------------------- MODULE CacheGenerationsProofs -----------------------
(***************************************************************************)
(* Both properties of CacheGenerations, for any workers, families, buckets *)
(* and number of collections.  The inductive invariant says when an entry  *)
(* can be trusted: while its generation is the current one, it was not     *)
(* stored during a collection, and no collection is under way that has     *)
(* already renewed that generation.  A sweep then meets no such entry, and *)
(* what the calls hold was marked by its scan.                             *)
(***************************************************************************)
EXTENDS CacheGenerations, TLAPS

Pcs == {"idle", "ask", "look", "count", "build", "check", "put", "done"}
Phases == {"off", "started", "renewed", "cleared", "scanned"}
Entries == [gen : Nat, index : Indices, early : BOOLEAN] \cup {None}
Maps == [Indices -> Entries]
Calls == [pc : Pcs, arg : Indices \cup {None}, family : Families \cup {None},
          res : Indices \cup {None}, gen : Nat, early : BOOLEAN,
          excused : BOOLEAN]

Types ==
  /\ kind \in Kinds
  /\ table \in [Indices -> Families \cup {None}]
  /\ generation \in Nat /\ opGen \in Nat
  /\ op \in Maps
  /\ own \in [Workers -> [gen : Nat, map : Maps]]
  /\ work \in [Workers -> Calls]
  /\ gc \in Phases

\* No generation is ahead of the one it is compared with.
GensBehind ==
  /\ \A i \in Indices : op[i] # None => op[i].gen <= opGen
  /\ \A w \in Workers : own[w].gen <= generation /\ work[w].gen <= Current

Cache(w) == IF kind = "op" THEN op ELSE own[w].map
EntryGen(w, i) == IF kind = "op" THEN op[i].gen ELSE own[w].gen

Trusted(w, i) ==
  /\ Cache(w)[i] # None
  /\ ~Cache(w)[i].early
  /\ EntryGen(w, i) = Current

EntriesRight ==
  \A w \in Workers, i \in Indices : Trusted(w, i) =>
    /\ ~Early
    /\ table[i] \in Families
    /\ table[Cache(w)[i].index] = Result[table[i]]

Survives(i) == gc = "scanned" => i \in marked

ArgsHeld ==
  \A w \in Workers : work[w].pc # "idle" =>
    /\ work[w].arg \in Indices /\ work[w].family \in Families
    /\ table[work[w].arg] = work[w].family
    /\ Survives(work[w].arg)

HasResult(w) ==
  work[w].pc \in {"check", "put"} \/ (work[w].pc = "done" /\ ~work[w].excused)

ResultsHeld ==
  \A w \in Workers : HasResult(w) =>
    /\ work[w].res \in Indices
    /\ table[work[w].res] = Result[work[w].family]
    /\ Survives(work[w].res)

\* What a lookup has found or an insert is about to store can be trusted.
InFlight(w, pc) ==
  work[w].pc = pc /\ ~work[w].early /\ work[w].gen = Current

PutsRight ==
  \A w \in Workers :
    /\ InFlight(w, "put") => ~Early
    /\ kind # "op" /\ work[w].pc = "put" => own[w].gen = work[w].gen

CountsRight ==
  \A w \in Workers : InFlight(w, "count") =>
    /\ ~Early
    /\ work[w].res \in Indices
    /\ table[work[w].res] = Result[work[w].family]

IInv ==
  /\ Types /\ GensBehind /\ EntriesRight /\ ArgsHeld /\ ResultsHeld
  /\ PutsRight /\ CountsRight

\* A new node takes a free bucket: the nodes that were there stay.
LEMMA NodesStay ==
  ASSUME Types, NEW i \in Indices, NEW f \in Families, NodeFor(i, f)
  PROVE  /\ table' \in [Indices -> Families \cup {None}]
         /\ table'[i] = f
         /\ \A j \in Indices : table[j] \in Families => table'[j] = table[j]
         /\ gc = "off" /\ UNCHANGED <<gc, marked>>
<1>1. table[i] = f \/ table[i] = None
  BY DEF NodeFor
<1> QED BY <1>1, CacheGenerationsAssumption DEF Types, NodeFor

\* The results of the operation are families.
LEMMA ResultTypes == \A f \in Families : Result[f] \in Families
BY CacheGenerationsAssumption

\* find_or_insert of the argument.
LEMMA BeginKeeps ==
  ASSUME IInv, NEW w \in Workers, NEW f \in Families, NEW i \in Indices, Begin(w, f, i)
  PROVE  IInv'
<1>0. /\ \A j \in Indices : table[j] \in Families => table'[j] = table[j]
      /\ table' \in [Indices -> Families \cup {None}]
      /\ gc = "off" /\ UNCHANGED <<gc, marked>>
      /\ table'[i] = f
  BY NodesStay DEF IInv, Begin
<1>1. Types'
  BY DEF IInv, Begin, NodeFor, gens, Idle, Becomes, At, Types, Maps, Entries,
     Calls, Pcs, Phases, Kinds
<1>2. GensBehind'
  BY DEF IInv, Begin, NodeFor, gens, Idle, Becomes, At, GensBehind, Current,
     Types, Calls
<1>3. EntriesRight'
  BY CacheGenerationsAssumption DEF IInv, Begin, NodeFor, gens, Idle, Becomes,
     At, EntriesRight, Trusted, Cache, EntryGen, Current, Early, Types, Maps,
     Entries, Calls, Pcs, Phases, Kinds
<1>4. ArgsHeld'
  BY CacheGenerationsAssumption DEF IInv, Begin, NodeFor, gens, Idle, Becomes,
     At, ArgsHeld, Survives, Types, Maps, Entries, Calls, Pcs, Phases, Kinds
<1>5. ResultsHeld'
  <2> SUFFICES ASSUME NEW v \in Workers, HasResult(v)'
               PROVE  /\ work'[v].res \in Indices
                      /\ table'[work'[v].res] = Result[work'[v].family]
                      /\ gc' = "scanned" => work'[v].res \in marked'
    BY DEF ResultsHeld, Survives
  <2>1. v # w /\ work'[v] = work[v]
    BY DEF IInv, Types, Calls, Begin, Becomes, Idle, HasResult
  <2> QED BY <1>0, <2>1, ResultTypes
          DEF IInv, ResultsHeld, HasResult, Survives, ArgsHeld
<1>6. PutsRight'
  BY DEF IInv, Begin, NodeFor, gens, Idle, Becomes, At, PutsRight, InFlight,
     Current, Early
<1>7. CountsRight'
  <2> SUFFICES ASSUME NEW v \in Workers, InFlight(v, "count")'
               PROVE  /\ ~Early'
                      /\ work'[v].res \in Indices
                      /\ table'[work'[v].res] = Result[work'[v].family]
    BY DEF CountsRight
  <2>1. v # w /\ work'[v] = work[v]
    BY DEF IInv, Types, Calls, Begin, Becomes, Idle, InFlight
  <2> QED BY <1>0, <2>1, ResultTypes
          DEF IInv, CountsRight, InFlight, ArgsHeld, Begin, gens, Current, Early
<1> QED BY <1>1, <1>2, <1>3, <1>4, <1>5, <1>6, <1>7 DEF IInv

LEMMA AskKeeps ==
  ASSUME IInv, NEW w \in Workers, Ask(w)
  PROVE  IInv'
<1>1. Types'
  BY DEF IInv, Ask, Becomes, At, gens, nodes, Checked, Empty, Types, Maps,
     Entries, Calls, Pcs, Phases, Kinds
<1>2. GensBehind'
  BY DEF IInv, Ask, Becomes, At, gens, nodes, Checked, Empty, GensBehind,
     Current, Types, Calls
<1>3. EntriesRight'
  BY DEF IInv, Ask, Becomes, At, gens, nodes, Checked, Empty, EntriesRight,
     Trusted, Cache, EntryGen, Current, Early, Types, Calls
<1>4. ArgsHeld'
  BY DEF IInv, Ask, Becomes, At, gens, nodes, Checked, Empty, ArgsHeld,
     Survives
<1>5. ResultsHeld'
  BY DEF IInv, Ask, Becomes, At, gens, nodes, Checked, Empty, ResultsHeld,
     HasResult, Survives
<1>6. PutsRight'
  BY DEF IInv, Ask, Becomes, At, gens, nodes, Checked, Empty, PutsRight,
     InFlight, Current, Early
<1>7. CountsRight'
  BY DEF IInv, Ask, Becomes, At, gens, nodes, Checked, Empty, CountsRight,
     InFlight, Current, Early
<1> QED BY <1>1, <1>2, <1>3, <1>4, <1>5, <1>6, <1>7 DEF IInv

\* What a lookup takes from a current entry is right.
LEMMA HitKeeps ==
  ASSUME IInv, NEW w \in Workers, Hit(w)
  PROVE  IInv'
<1>0. /\ work[w].arg \in Indices /\ table[work[w].arg] = work[w].family
      /\ Cached(w).index \in Indices /\ Cached(w).early \in BOOLEAN
  BY DEF IInv, Types, Maps, Entries, ArgsHeld, Hit, At, Cached
<1>1. Types'
  <2> DEFINE g == IF kind = "op" THEN opGen ELSE own[w].gen
  <2>1. [work[w] EXCEPT !.pc = "count", !.res = Cached(w).index,
                        !.gen = g, !.early = Cached(w).early] \in Calls
    BY <1>0, ZenonT(60) DEF IInv, Types, Calls, Pcs
  <2> QED BY <2>1 DEF IInv, Types, Hit, Becomes, gens, nodes
<1>2. GensBehind'
  BY DEF IInv, Hit, Cached, Becomes, At, gens, nodes, GensBehind, Current,
     Types, Calls
<1>3. EntriesRight'
  BY DEF IInv, Hit, Cached, Becomes, At, gens, nodes, EntriesRight, Trusted,
     Cache, EntryGen, Current, Early
<1>4. ArgsHeld'
  BY DEF IInv, Hit, Cached, Becomes, At, gens, nodes, ArgsHeld, Survives
<1>5. ResultsHeld'
  BY ZenonT(60) DEF IInv, Hit, Cached, Becomes, At, gens, nodes, ResultsHeld, HasResult,
     Survives, Types, Calls
<1>6. PutsRight'
  BY DEF IInv, Hit, Cached, Becomes, At, gens, nodes, PutsRight, InFlight,
     Current, Early
<1>7. CountsRight'
  <2> SUFFICES ASSUME NEW v \in Workers, InFlight(v, "count")'
               PROVE  /\ ~Early'
                      /\ work'[v].res \in Indices
                      /\ table'[work'[v].res] = Result[work'[v].family]
    BY DEF CountsRight
  <2>1. CASE v = w
    <3>1. Trusted(w, work[w].arg)
      BY <1>0, <2>1 DEF IInv, Types, Calls, Hit, At, Becomes, gens, InFlight,
         Trusted, Cache, Cached, EntryGen, Current
    <3>2. /\ ~Early
          /\ table[Cached(w).index] = Result[table[work[w].arg]]
      BY <1>0, <3>1 DEF IInv, EntriesRight, Cache, Cached
    <3>3. work'[w].res = Cached(w).index /\ work'[w].family = work[w].family
      BY DEF IInv, Types, Calls, Hit, Becomes
    <3> QED BY <1>0, <2>1, <3>2, <3>3 DEF Hit, gens, nodes, Early
  <2>2. CASE v # w
    BY <2>2 DEF IInv, Types, Calls, CountsRight, Hit, Becomes, gens, nodes,
       InFlight, Current, Early
  <2> QED BY <2>1, <2>2
<1> QED BY <1>1, <1>2, <1>3, <1>4, <1>5, <1>6, <1>7 DEF IInv

\* Nothing was swept between such a lookup and the count.
LEMMA CountKeeps ==
  ASSUME IInv, NEW w \in Workers, Count(w)
  PROVE  IInv'
<1>1. Types'
  <2>1. [work[w] EXCEPT !.pc = "done",
           !.excused = work[w].early \/ work[w].gen # Current] \in Calls
    BY DEF IInv, Types, Calls, Pcs
  <2> QED BY <2>1 DEF IInv, Types, Count, Becomes, gens, nodes
<1>2. GensBehind'
  BY DEF IInv, Count, Becomes, At, gens, nodes, GensBehind, Current
<1>3. EntriesRight'
  BY DEF IInv, Count, Becomes, At, gens, nodes, EntriesRight, Trusted, Cache,
     EntryGen, Current, Early
<1>4. ArgsHeld'
  BY DEF IInv, Count, Becomes, At, gens, nodes, ArgsHeld, Survives
<1>5. ResultsHeld'
  <2> SUFFICES ASSUME NEW v \in Workers, HasResult(v)'
               PROVE  /\ work'[v].res \in Indices
                      /\ table'[work'[v].res] = Result[work'[v].family]
                      /\ gc' = "scanned" => work'[v].res \in marked'
    BY DEF ResultsHeld, Survives
  <2>1. CASE v = w
    <3>1. /\ work'[w].pc = "done" /\ work'[w].res = work[w].res
          /\ work'[w].family = work[w].family
          /\ work'[w].excused = (work[w].early \/ work[w].gen # Current)
      BY DEF IInv, Types, Calls, Count, Becomes
    <3>2. InFlight(w, "count")
      BY <2>1, <3>1 DEF Count, At, HasResult, InFlight
    <3>3. ~Early /\ gc # "scanned"
      BY <3>2 DEF IInv, CountsRight, Early
    <3> QED BY <2>1, <3>1, <3>2, <3>3
            DEF IInv, CountsRight, Survives, Count, nodes
  <2>2. CASE v # w
    BY <2>2 DEF IInv, Types, Calls, ResultsHeld, Count, Becomes, nodes,
       HasResult, Survives
  <2> QED BY <2>1, <2>2
<1>6. PutsRight'
  BY DEF IInv, Count, Becomes, At, gens, nodes, PutsRight, InFlight, Current,
     Early
<1>7. CountsRight'
  BY DEF IInv, Count, Becomes, At, gens, nodes, CountsRight, InFlight,
     Current, Early
<1> QED BY <1>1, <1>2, <1>3, <1>4, <1>5, <1>6, <1>7 DEF IInv

LEMMA MissKeeps ==
  ASSUME IInv, NEW w \in Workers, Miss(w)
  PROVE  IInv'
<1>1. Types'
  BY DEF IInv, Miss, Becomes, At, gens, nodes, Checked, Empty, Types, Maps,
     Entries, Calls, Pcs, Phases, Kinds
<1>2. GensBehind'
  BY DEF IInv, Miss, Becomes, At, gens, nodes, Checked, Empty, GensBehind,
     Current, Types, Calls
<1>3. EntriesRight'
  BY DEF IInv, Miss, Becomes, At, gens, nodes, Checked, Empty, EntriesRight,
     Trusted, Cache, EntryGen, Current, Early, Types, Calls
<1>4. ArgsHeld'
  BY DEF IInv, Miss, Becomes, At, gens, nodes, Checked, Empty, ArgsHeld,
     Survives
<1>5. ResultsHeld'
  BY DEF IInv, Miss, Becomes, At, gens, nodes, Checked, Empty, ResultsHeld,
     HasResult, Survives
<1>6. PutsRight'
  BY DEF IInv, Miss, Becomes, At, gens, nodes, Checked, Empty, PutsRight,
     InFlight, Current, Early
<1>7. CountsRight'
  BY DEF IInv, Miss, Becomes, At, gens, nodes, Checked, Empty, CountsRight,
     InFlight, Current, Early
<1> QED BY <1>1, <1>2, <1>3, <1>4, <1>5, <1>6, <1>7 DEF IInv

LEMMA BuildKeeps ==
  ASSUME IInv, NEW w \in Workers, NEW i \in Indices, Build(w, i)
  PROVE  IInv'
<1>0. /\ \A j \in Indices : table[j] \in Families => table'[j] = table[j]
      /\ table' \in [Indices -> Families \cup {None}]
      /\ gc = "off" /\ UNCHANGED <<gc, marked>>
      /\ table'[i] = Result[work[w].family]
  BY NodesStay, ResultTypes DEF IInv, Build, At, ArgsHeld
<1>1. Types'
  <2>1. [work[w] EXCEPT !.pc = "check", !.res = i] \in Calls
    BY DEF IInv, Types, Calls, Pcs
  <2> QED BY <1>0, <2>1 DEF IInv, Types, Build, Becomes, gens
<1>2. GensBehind'
  BY DEF IInv, Build, NodeFor, Becomes, At, gens, GensBehind, Current
<1>3. EntriesRight'
  BY CacheGenerationsAssumption DEF IInv, Build, NodeFor, Becomes, At, gens,
     EntriesRight, Trusted, Cache, EntryGen, Current, Early, Types, Maps,
     Entries, Calls, Pcs, Phases, Kinds
<1>4. ArgsHeld'
  BY CacheGenerationsAssumption DEF IInv, Build, NodeFor, Becomes, At, gens,
     ArgsHeld, Survives, Types, Maps, Entries, Calls, Pcs, Phases, Kinds
<1>5. ResultsHeld'
  <2> SUFFICES ASSUME NEW v \in Workers, HasResult(v)'
               PROVE  /\ work'[v].res \in Indices
                      /\ table'[work'[v].res] = Result[work'[v].family]
                      /\ gc' = "scanned" => work'[v].res \in marked'
    BY DEF ResultsHeld, Survives
  <2>1. CASE v = w
    BY <1>0, <2>1 DEF IInv, Types, Calls, Build, Becomes, Survives
  <2>2. CASE v # w
    <3>1. work'[v] = work[v]
      BY <2>2 DEF IInv, Types, Build, Becomes
    <3> QED BY <1>0, <3>1, ResultTypes
            DEF IInv, ResultsHeld, HasResult, Survives, ArgsHeld
  <2> QED BY <2>1, <2>2
<1>6. PutsRight'
  BY DEF IInv, Build, NodeFor, Becomes, At, gens, PutsRight, InFlight,
     Current, Early
<1>7. CountsRight'
  <2> SUFFICES ASSUME NEW v \in Workers, InFlight(v, "count")'
               PROVE  /\ ~Early'
                      /\ work'[v].res \in Indices
                      /\ table'[work'[v].res] = Result[work'[v].family]
    BY DEF CountsRight
  <2>1. v # w /\ work'[v] = work[v]
    BY DEF IInv, Types, Calls, Build, Becomes, InFlight
  <2> QED BY <1>0, <2>1, ResultTypes
          DEF IInv, CountsRight, InFlight, ArgsHeld, Build, gens, Current, Early
<1> QED BY <1>1, <1>2, <1>3, <1>4, <1>5, <1>6, <1>7 DEF IInv

LEMMA CheckKeeps ==
  ASSUME IInv, NEW w \in Workers, Check(w)
  PROVE  IInv'
<1>1. Types'
  <2>0. Current \in Nat /\ Early \in BOOLEAN
    BY DEF IInv, Types, Current, Early
  <2>1. [work[w] EXCEPT !.pc = "put", !.gen = Current, !.early = Early] \in Calls
    BY <2>0 DEF IInv, Types, Calls, Pcs
  <2>2. Checked(own[w]) \in [gen : Nat, map : Maps]
    BY DEF IInv, Types, Checked, Empty, Maps, Entries
  <2> QED BY <2>1, <2>2 DEF IInv, Types, Check, Becomes, gens, nodes
<1>2. GensBehind'
  BY DEF IInv, Check, Becomes, At, gens, nodes, Checked, Empty, GensBehind,
     Current, Types, Calls
<1>3. EntriesRight'
  BY DEF IInv, Check, Becomes, At, gens, nodes, Checked, Empty, EntriesRight,
     Trusted, Cache, EntryGen, Current, Early
<1>4. ArgsHeld'
  BY DEF IInv, Check, Becomes, At, gens, nodes, Checked, Empty, ArgsHeld,
     Survives
<1>5. ResultsHeld'
  BY DEF IInv, Check, Becomes, At, gens, nodes, Checked, Empty, ResultsHeld,
     HasResult, Survives
<1>6. PutsRight'
  BY ZenonT(60) DEF IInv, Check, Becomes, At, gens, nodes, Checked, Empty, PutsRight,
     InFlight, Current, Early, Types, Calls
<1>7. CountsRight'
  BY DEF IInv, Check, Becomes, At, gens, nodes, Checked, Empty, CountsRight,
     InFlight, Current, Early
<1> QED BY <1>1, <1>2, <1>3, <1>4, <1>5, <1>6, <1>7 DEF IInv

\* The call still holds the argument and the result that it stores.
LEMMA PutKeeps ==
  ASSUME IInv, NEW w \in Workers, Put(w)
  PROVE  IInv'
<1> DEFINE E == Entry(IF kind = "op" THEN work[w].gen ELSE 0, work[w].res,
                      work[w].early)
<1>0. /\ work[w].arg \in Indices
      /\ E \in Entries /\ E.gen \in Nat /\ (kind = "op" => E.gen = work[w].gen)
      /\ E.index = work[w].res /\ E.early = work[w].early
      /\ IF kind = "op"
         THEN op' = [op EXCEPT ![work[w].arg] = E] /\ own' = own
         ELSE own' = [own EXCEPT ![w].map[work[w].arg] = E] /\ op' = op
  BY DEF IInv, Types, Calls, Entries, ArgsHeld, ResultsHeld, HasResult, Put, At,
     Entry
<1>1. Types'
  <2>1. [work[w] EXCEPT !.pc = "done"] \in Calls
    BY DEF IInv, Types, Calls, Pcs
  <2>2. op' \in Maps
    BY <1>0 DEF IInv, Types, Maps
  <2>3. own' \in [Workers -> [gen : Nat, map : Maps]]
    <3>1. [own[w].map EXCEPT ![work[w].arg] = E] \in Maps
      BY <1>0 DEF IInv, Types, Maps
    <3>2. [own[w] EXCEPT !.map[work[w].arg] = E] \in [gen : Nat, map : Maps]
      BY <3>1 DEF IInv, Types
    <3> QED BY <1>0, <3>2 DEF IInv, Types
  <2> QED BY <2>1, <2>2, <2>3 DEF IInv, Types, Put, Becomes, gens, nodes
<1>2. GensBehind'
  BY <1>0 DEF IInv, GensBehind, Types, Maps, Entries, Calls, Put, Becomes, gens,
     Current
<1>3. EntriesRight'
  <2> SUFFICES ASSUME NEW v \in Workers, NEW i \in Indices, Trusted(v, i)'
               PROVE  /\ ~Early'
                      /\ table'[i] \in Families
                      /\ table'[Cache(v)'[i].index] = Result[table'[i]]
    BY DEF EntriesRight
  <2>1. UNCHANGED <<table, gc, kind, opGen, generation>>
    BY DEF Put, gens, nodes
  <2>2. CASE i = work[w].arg /\ (kind = "op" \/ v = w)
    <3>1. Cache(v)'[i] = E
      BY <1>0, <2>1, <2>2 DEF IInv, Types, Maps, Cache
    <3>2. InFlight(w, "put")
      <4>1. work[w].pc = "put" /\ ~work[w].early
        BY <1>0, <3>1 DEF Trusted, Put, At
      <4>2. CASE kind = "op"
        BY <1>0, <2>1, <2>2, <4>1, <4>2
           DEF IInv, Types, Maps, Trusted, EntryGen, Current, InFlight
      <4>3. CASE kind # "op"
        <5>1. own'[w].gen = own[w].gen
          BY <1>0, <4>3 DEF IInv, Types
        <5> QED BY <2>1, <2>2, <4>1, <4>3, <5>1
                DEF IInv, PutsRight, Trusted, EntryGen, Current, InFlight
      <4> QED BY <4>2, <4>3
    <3> QED BY <2>1, <2>2, <3>1, <3>2, <1>0
            DEF IInv, PutsRight, ArgsHeld, ResultsHeld, HasResult, Put, At, Early
  <2>3. CASE ~(i = work[w].arg /\ (kind = "op" \/ v = w))
    <3>1. Cache(v)'[i] = Cache(v)[i] /\ EntryGen(v, i)' = EntryGen(v, i)
      BY <1>0, <2>1, <2>3 DEF IInv, Types, Maps, Cache, EntryGen
    <3>2. Trusted(v, i)
      BY <2>1, <3>1 DEF Trusted, Current
    <3> QED BY <2>1, <3>1, <3>2 DEF IInv, EntriesRight, Early
  <2> QED BY <2>2, <2>3
<1>4. ArgsHeld'
  BY DEF IInv, Put, Entry, Becomes, At, gens, nodes, ArgsHeld, Survives
<1>5. ResultsHeld'
  BY DEF IInv, Put, Entry, Becomes, At, gens, nodes, ResultsHeld, HasResult,
     Survives
<1>6. PutsRight'
  BY DEF IInv, Put, Entry, Becomes, At, gens, nodes, PutsRight, InFlight,
     Current, Early, Types, Calls
<1>7. CountsRight'
  BY DEF IInv, Put, Entry, Becomes, At, gens, nodes, CountsRight, InFlight,
     Current, Early
<1> QED BY <1>1, <1>2, <1>3, <1>4, <1>5, <1>6, <1>7 DEF IInv

LEMMA EndKeeps ==
  ASSUME IInv, NEW w \in Workers, End(w)
  PROVE  IInv'
<1>1. Types'
  BY DEF IInv, End, Idle, Becomes, At, gens, nodes, Types, Maps, Entries,
     Calls, Pcs, Phases, Kinds
<1>2. GensBehind'
  BY DEF IInv, End, Idle, Becomes, At, gens, nodes, GensBehind, Current,
     Types, Calls
<1>3. EntriesRight'
  BY DEF IInv, End, Idle, Becomes, At, gens, nodes, EntriesRight, Trusted,
     Cache, EntryGen, Current, Early
<1>4. ArgsHeld'
  BY DEF IInv, End, Idle, Becomes, At, gens, nodes, ArgsHeld, Survives
<1>5. ResultsHeld'
  BY DEF IInv, End, Idle, Becomes, At, gens, nodes, ResultsHeld, HasResult,
     Survives
<1>6. PutsRight'
  BY DEF IInv, End, Idle, Becomes, At, gens, nodes, PutsRight, InFlight,
     Current, Early
<1>7. CountsRight'
  BY DEF IInv, End, Idle, Becomes, At, gens, nodes, CountsRight, InFlight,
     Current, Early
<1> QED BY <1>1, <1>2, <1>3, <1>4, <1>5, <1>6, <1>7 DEF IInv

LEMMA StartGcKeeps ==
  ASSUME IInv, StartGc
  PROVE  IInv'
<1>1. Types'
  BY DEF IInv, StartGc, GcStep, gens, Types, Maps, Entries, Calls, Pcs,
     Phases, Kinds
<1>2. GensBehind'
  BY DEF IInv, StartGc, GcStep, gens, GensBehind, Current
<1>3. EntriesRight'
  BY DEF IInv, StartGc, GcStep, gens, EntriesRight, Trusted, Cache, EntryGen,
     Current, Early
<1>4. ArgsHeld'
  BY DEF IInv, StartGc, GcStep, gens, ArgsHeld, Survives
<1>5. ResultsHeld'
  BY DEF IInv, StartGc, GcStep, gens, ResultsHeld, HasResult, Survives
<1>6. PutsRight'
  BY DEF IInv, StartGc, GcStep, gens, PutsRight, InFlight, Current, Early
<1>7. CountsRight'
  BY DEF IInv, StartGc, GcStep, gens, CountsRight, InFlight, Current, Early
<1> QED BY <1>1, <1>2, <1>3, <1>4, <1>5, <1>6, <1>7 DEF IInv

\* The own caches are behind from here on, the operation cache is as it was.
LEMMA RenewKeeps ==
  ASSUME IInv, Renew
  PROVE  IInv'
<1>1. Types'
  BY DEF IInv, Renew, GcStep, Types, Maps, Entries, Calls, Pcs, Phases, Kinds
<1>2. GensBehind'
  BY DEF IInv, Renew, GcStep, GensBehind, Current, Types, Calls
<1>3. EntriesRight'
  <2>1. CASE kind = "op"
    BY <2>1 DEF IInv, EntriesRight, Trusted, Cache, EntryGen, Current, Early,
       Renew, GcStep
  <2>2. CASE kind # "op"
    <3>1. \A v \in Workers, i \in Indices : ~Trusted(v, i)'
      BY <2>2 DEF IInv, Types, Maps, Entries, GensBehind, Trusted, Cache,
         EntryGen, Current, Renew, GcStep
    <3> QED BY <3>1 DEF EntriesRight
  <2> QED BY <2>1, <2>2
<1>4. ArgsHeld'
  BY DEF IInv, Renew, GcStep, ArgsHeld, Survives
<1>5. ResultsHeld'
  BY DEF IInv, Renew, GcStep, ResultsHeld, HasResult, Survives
<1>6. PutsRight'
  <2>1. CASE kind = "op"
    BY <2>1 DEF IInv, PutsRight, InFlight, Current, Early, Renew, GcStep
  <2>2. CASE kind # "op"
    <3>1. \A v \in Workers : ~InFlight(v, "put")'
      BY <2>2 DEF IInv, Types, Calls, GensBehind, InFlight, Current, Renew, GcStep
    <3> QED BY <2>2, <3>1 DEF IInv, PutsRight, Renew
  <2> QED BY <2>1, <2>2
<1>7. CountsRight'
  <2>1. CASE kind = "op"
    BY <2>1 DEF IInv, CountsRight, InFlight, Current, Early, Renew, GcStep
  <2>2. CASE kind # "op"
    <3>1. \A v \in Workers : ~InFlight(v, "count")'
      BY <2>2 DEF IInv, Types, Calls, GensBehind, InFlight, Current, Renew, GcStep
    <3> QED BY <2>2, <3>1 DEF IInv, CountsRight, Renew
  <2> QED BY <2>1, <2>2
<1> QED BY <1>1, <1>2, <1>3, <1>4, <1>5, <1>6, <1>7 DEF IInv

\* From here on no entry of the operation cache is current.
LEMMA ClearCachesKeeps ==
  ASSUME IInv, ClearCaches
  PROVE  IInv'
<1>1. Types'
  BY DEF IInv, ClearCaches, GcStep, Types, Maps, Entries, Calls, Pcs, Phases,
     Kinds
<1>2. GensBehind'
  BY DEF IInv, ClearCaches, GcStep, GensBehind, Current, Types, Calls, Maps,
     Entries
<1>3. EntriesRight'
  <2>1. CASE kind # "op"
    BY <2>1 DEF IInv, EntriesRight, Trusted, Cache, EntryGen, Current, Early,
       ClearCaches, GcStep
  <2>2. CASE kind = "op"
    <3>1. \A v \in Workers, i \in Indices : ~Trusted(v, i)'
      BY <2>2 DEF IInv, Types, Maps, Entries, GensBehind, Trusted, Cache,
         EntryGen, Current, ClearCaches, GcStep
    <3> QED BY <3>1 DEF EntriesRight
  <2> QED BY <2>1, <2>2
<1>4. ArgsHeld'
  BY DEF IInv, ClearCaches, GcStep, ArgsHeld, Survives
<1>5. ResultsHeld'
  BY DEF IInv, ClearCaches, GcStep, ResultsHeld, HasResult, Survives
<1>6. PutsRight'
  <2>1. CASE kind # "op"
    BY <2>1 DEF IInv, PutsRight, InFlight, Current, Early, ClearCaches, GcStep
  <2>2. CASE kind = "op"
    <3>1. \A v \in Workers : ~InFlight(v, "put")'
      BY <2>2 DEF IInv, Types, Calls, GensBehind, InFlight, Current, ClearCaches, GcStep
    <3> QED BY <2>2, <3>1 DEF IInv, PutsRight, ClearCaches
  <2> QED BY <2>1, <2>2
<1>7. CountsRight'
  <2>1. CASE kind # "op"
    BY <2>1 DEF IInv, CountsRight, InFlight, Current, Early, ClearCaches, GcStep
  <2>2. CASE kind = "op"
    <3>1. \A v \in Workers : ~InFlight(v, "count")'
      BY <2>2 DEF IInv, Types, Calls, GensBehind, InFlight, Current, ClearCaches, GcStep
    <3> QED BY <2>2, <3>1 DEF IInv, CountsRight, ClearCaches
  <2> QED BY <2>1, <2>2
<1> QED BY <1>1, <1>2, <1>3, <1>4, <1>5, <1>6, <1>7 DEF IInv

\* What the calls hold is marked.
LEMMA ScanKeeps ==
  ASSUME IInv, Scan
  PROVE  IInv'
<1>1. Types'
  BY DEF IInv, Scan, GcStep, gens, Held, At, Types, Maps, Entries, Calls, Pcs,
     Phases, Kinds
<1>2. GensBehind'
  BY DEF IInv, Scan, GcStep, gens, Held, At, GensBehind, Current
<1>3. EntriesRight'
  BY DEF IInv, Scan, GcStep, gens, Held, At, EntriesRight, Trusted, Cache,
     EntryGen, Current, Early
<1>4. ArgsHeld'
  BY DEF IInv, Scan, GcStep, gens, Held, At, ArgsHeld, Survives
<1>5. ResultsHeld'
  BY DEF IInv, Scan, GcStep, gens, Held, At, ResultsHeld, HasResult, Survives
<1>6. PutsRight'
  BY DEF IInv, Scan, GcStep, gens, Held, At, PutsRight, InFlight, Current,
     Early
<1>7. CountsRight'
  BY DEF IInv, Scan, GcStep, gens, Held, At, CountsRight, InFlight, Current,
     Early
<1> QED BY <1>1, <1>2, <1>3, <1>4, <1>5, <1>6, <1>7 DEF IInv

\* No entry that can be trusted is left when nodes are freed.
LEMMA SweepKeeps ==
  ASSUME IInv, Sweep
  PROVE  IInv'
<1>1. Types'
  BY DEF IInv, Sweep, GcStep, gens, Types, Maps, Entries, Calls, Pcs, Phases,
     Kinds
<1>2. GensBehind'
  BY DEF IInv, Sweep, GcStep, gens, GensBehind, Current
<1>3. EntriesRight'
  BY DEF IInv, Sweep, GcStep, gens, EntriesRight, Trusted, Cache, EntryGen,
     Current, Early
<1>4. ArgsHeld'
  BY DEF IInv, Sweep, GcStep, gens, ArgsHeld, Survives
<1>5. ResultsHeld'
  BY DEF IInv, Sweep, GcStep, gens, ResultsHeld, HasResult, Survives
<1>6. PutsRight'
  BY DEF IInv, Sweep, GcStep, gens, PutsRight, InFlight, Current, Early
<1>7. CountsRight'
  BY DEF IInv, Sweep, GcStep, gens, CountsRight, InFlight, Current, Early
<1> QED BY <1>1, <1>2, <1>3, <1>4, <1>5, <1>6, <1>7 DEF IInv

LEMMA Initially == Init => IInv
BY CacheGenerationsAssumption
   DEF Init, IInv, Types, Maps, Entries, Calls, Pcs, Phases, Kinds, Empty, Idle,
       GensBehind, EntriesRight, Trusted, Cache, EntryGen, Current, ArgsHeld,
       ResultsHeld, HasResult, PutsRight, InFlight, CountsRight

LEMMA Inductive == IInv /\ [Next]_vars => IInv'
<1> SUFFICES ASSUME IInv, [Next]_vars PROVE IInv'
  OBVIOUS
<1>1. CASE UNCHANGED vars
  BY <1>1 DEF IInv, Types, Maps, Entries, Calls, GensBehind, EntriesRight,
     Trusted, Cache, EntryGen, Current, Early, ArgsHeld, Survives, ResultsHeld,
     HasResult, PutsRight, InFlight, CountsRight, vars
<1>2. CASE Next
  BY <1>2, BeginKeeps, AskKeeps, HitKeeps, CountKeeps, MissKeeps, BuildKeeps,
     CheckKeeps, PutKeeps, EndKeeps, StartGcKeeps, RenewKeeps, ClearCachesKeeps,
     ScanKeeps, SweepKeeps
     DEF Next
<1> QED BY <1>1, <1>2

THEOREM InvariantHolds == Spec => []IInv
BY Initially, Inductive, PTL DEF Spec

\* A call that is over holds the right result, unless it is excused.
LEMMA DoneIsRight == IInv => \A w \in Workers : Done(w) => Right(w)
BY DEF IInv, ArgsHeld, ResultsHeld, HasResult, Done, At, Right

\* OpCacheSound: with the operation cache a call ends with the result of its
\* argument, unless its answer was memoised between the clear and the sweep
\* of one collection, or the next clear came before its count.
THEOREM OperationCache == Spec => []OpCacheSound
<1>1. IInv => OpCacheSound
  BY DoneIsRight DEF OpCacheSound
<1> QED BY <1>1, InvariantHolds, PTL

\* OwnCacheSound: the same for a TempCache and an IntervalCache, from the new
\* generation to the sweep.
THEOREM OwnCaches == Spec => []OwnCacheSound
<1>1. IInv => OwnCacheSound
  BY DoneIsRight DEF OwnCacheSound
<1> QED BY <1>1, InvariantHolds, PTL

=============================================================================
