----------------------------- MODULE UnionCache -----------------------------
(***************************************************************************)
(* SetFamily::union (src/src/algebra.rs) with the operation cache, as one  *)
(* thread runs it: the recursion is a stack of frames, each of which owns  *)
(* the handles its function still has in scope.  The other operations of   *)
(* algebra.rs memoise in the same way (get_from_cache, put_into_cache).    *)
(*                                                                         *)
(* Collector shows that one thread's collection keeps exactly what its     *)
(* handles reach; a collection is one step here.  The table is at its      *)
(* maximum size from the start, so that a full table is a panic.  The      *)
(* cache is a map that loses nothing before a collection: an entry that a  *)
(* slot collision or clear_half drops is a miss, which is another run of   *)
(* the recursion.  A freed bucket keeps its node in the code; here it is   *)
(* emptied, which nothing can tell apart as long as NoDangling holds.      *)
(***************************************************************************)
EXTENDS Naturals, FiniteSets, Sequences

CONSTANTS
  NVars,       \* the values of nodes are 1 .. NVars
  Regs,        \* the places where the thread keeps its handles
  Capacity     \* of the unique table, which is max_table_size

ASSUME UnionAssumption ==
  /\ NVars \in Nat /\ Capacity \in Nat /\ Capacity > 2
  /\ Regs # {}

Vals    == 1 .. NVars
Indices == 2 .. Capacity - 1
Ids     == 0 .. Capacity - 1

Node(v, lo, hi) == [v |-> v, lo |-> lo, hi |-> hi]
NoNode == Node(0, 0, 0)

\* A handle and the family it was made for, a history variable.
Handle(i, f) == [id |-> i, fam |-> f]
Zero == Handle(0, {})
One  == Handle(1, {{}})

VARIABLES
  data,       \* bucket -> node
  published,  \* the buckets in use
  cache,      \* Operations::Union(i, j) -> index, as a function on pairs
  regs,       \* the handles the program keeps
  stack,      \* the calls of union in progress, the innermost last
  result,     \* the handle a call has just returned, or NoResult
  older,      \* history: the frames that took their key before a collection
  suspect,    \* history: what such frames stored under keys they no longer hold
  trusted     \* history: no answer came from a suspect entry
              \* (afterwards the other two stay at 0 and {})

doubts == <<older, suspect, trusted>>
vars == <<data, published, cache, regs, stack, result, doubts>>

NoResult == Handle(Capacity, {})

\* A frame: what is left to do, the parts of the node to build, the key to
\* memoise under, the handles kept only because they are in scope, and the
\* family the call has to answer with.
Frame(todo, v, parts, key, kept, expected) ==
  [todo |-> todo, v |-> v, parts |-> parts, key |-> key, kept |-> kept,
   expected |-> expected]

NoKey == <<>>

Init ==
  /\ data = [i \in Indices |-> NoNode]
  /\ published = {}
  /\ cache = [k \in {} |-> 0]
  /\ regs = [r \in Regs |-> Zero]
  /\ stack = <<>>
  /\ result = NoResult
  /\ older = 0 /\ suspect = {} /\ trusted = TRUE

-----------------------------------------------------------------------------

Above(v, f) == {s \cup {v} : s \in f}

IsTerminal(i) == i \in {0, 1}

\* The family of index i by the nodes in the buckets, level by level from the
\* terminals.
Ground == [j \in Ids |-> IF j = 1 THEN {{}} ELSE {}]

Level(nodes, below) ==
  [j \in Ids |->
     IF IsTerminal(j) THEN Ground[j]
     ELSE below[nodes[j].lo] \cup Above(nodes[j].v, below[nodes[j].hi])]

FamilyIn(nodes, i) ==
  LET F[d \in 0 .. NVars] == IF d = 0 THEN Ground ELSE Level(nodes, F[d - 1])
  IN  F[NVars][i]

Family(i) == FamilyIn(data, i)

\* Mutant: only hi children are marked.
ReachHi(nodes, roots) ==
  LET Closed(S) == \A i \in S : nodes[i].hi \in S \cup {0, 1}
  IN  {i \in Indices : \A S \in SUBSET Indices :
                          roots \subseteq S /\ Closed(S) => i \in S}

\* mark: what every set has that has the roots and its nodes' children.
Reach(nodes, roots) ==
  LET Closed(S) == \A i \in S : {nodes[i].lo, nodes[i].hi} \subseteq S \cup {0, 1}
  IN  {i \in Indices : \A S \in SUBSET Indices :
                          roots \subseteq S /\ Closed(S) => i \in S}

IsZero(h) == h.id = 0
IsOne(h)  == h.id = 1
Same(g, h) == g.id = h.id

\* get(): the value of a handle's node and handles to its children.
Val(h) == data[h.id].v
Lo(h)  == Handle(data[h.id].lo, {s \in h.fam : Val(h) \notin s})
Hi(h)  == Handle(data[h.id].hi,
                 {s \ {Val(h)} : s \in {x \in h.fam : Val(h) \in x}})

Ids2Live(S) == {h.id : h \in S} \ {0, 1, Capacity}

\* The handles of a frame, of the program, of the result.
FrameHandles(f) == {f.parts[k] : k \in DOMAIN f.parts} \cup f.kept
Handles ==
  {regs[r] : r \in Regs}
    \cup {result}
    \cup UNION {FrameHandles(stack[k]) : k \in DOMAIN stack}

NoCache == [k \in {} |-> 0]

Emptied(d, kept) == [i \in Indices |-> IF i \in kept THEN d[i] ELSE NoNode]

\* Mutant: the cache outlives a collection.
CollectKeepsCache(held) ==
  /\ published' = Reach(data, Ids2Live(held))
  /\ data' = Emptied(data, published')
  /\ UNCHANGED <<cache, doubts>>

Collect(held) ==
  /\ published' = Reach(data, Ids2Live(held))
  /\ data' = Emptied(data, published')
  /\ cache' = NoCache
  /\ suspect' = {}
  /\ UNCHANGED <<older, trusted>>

Top == stack[Len(stack)]
Below == SubSeq(stack, 1, Len(stack) - 1)

Free == {i \in Indices \ published : \A j \in Indices \ published : i <= j}

(***************************************************************************)
(* union(self, other)                                                      *)
(***************************************************************************)
\* A call in progress that still has both its arguments.
Call(self, other) ==
  Frame("call", 0, <<self, other>>, NoKey, {}, self.fam \cup other.fam)

Calling == stack # <<>> /\ Top.todo = "call"

\* Mutant: the hi child of one argument is joined with itself.
ResumeWithSelf(f, h) ==
  CASE f.todo = "lo"  -> <<[f EXCEPT !.todo = "node", !.parts = <<h, f.parts[2]>>]>>
    [] f.todo = "hi"  -> <<[f EXCEPT !.todo = "node", !.parts = <<f.parts[1], h>>]>>
    [] OTHER -> <<[f EXCEPT !.todo = "hi", !.parts = <<h, Zero>>],
                  Call(f.parts[1], f.parts[1])>>

\* What a frame goes on with when the call it waits for returns h: the node
\* to build, or after lo ("lo_then_hi") the union of the hi children.
Resume(f, h) ==
  CASE f.todo = "lo"  -> <<[f EXCEPT !.todo = "node", !.parts = <<h, f.parts[2]>>]>>
    [] f.todo = "hi"  -> <<[f EXCEPT !.todo = "node", !.parts = <<f.parts[1], h>>]>>
    [] OTHER -> <<[f EXCEPT !.todo = "hi", !.parts = <<h, Zero>>],
                  Call(f.parts[1], f.parts[2])>>

\* The innermost call returns, to the program or to the frame below.
Answer(h) ==
  IF Below = <<>> THEN stack' = <<>> /\ result' = h
  ELSE /\ stack' = SubSeq(Below, 1, Len(Below) - 1) \o Resume(Below[Len(Below)], h)
       /\ UNCHANGED result

\* The frames below are as old as they were.
AgeKept == older' = IF older < Len(Below) THEN older ELSE Len(Below)

ReturnsAtOnce(self, other) == IsZero(self) \/ IsZero(other) \/ Same(self, other)

\* A zero argument, or twice the same.
UnionTrivial ==
  LET self == Top.parts[1]
      other == Top.parts[2]
  IN
  /\ Calling
  /\ ReturnsAtOnce(self, other)
  /\ Answer(IF IsZero(self) THEN other ELSE self)
  /\ AgeKept
  /\ UNCHANGED <<data, published, cache, regs, suspect, trusted>>

\* The arguments, in the order of their indices.
Self  == IF Top.parts[1].id > Top.parts[2].id THEN Top.parts[2] ELSE Top.parts[1]
Other == IF Top.parts[1].id > Top.parts[2].id THEN Top.parts[1] ELSE Top.parts[2]
Key   == <<Self.id, Other.id>>

UnionHit ==
  /\ Calling
  /\ ~ReturnsAtOnce(Self, Other)
  /\ Key \in DOMAIN cache
  /\ Answer(Handle(cache[Key], Top.expected))
  /\ IF Key \in suspect
     THEN older' = 0 /\ suspect' = {} /\ trusted' = FALSE
     ELSE AgeKept /\ UNCHANGED <<suspect, trusted>>
  /\ UNCHANGED <<data, published, cache, regs>>

Misses == Calling /\ ~ReturnsAtOnce(Self, Other) /\ Key \notin DOMAIN cache

Recurse(frame, self, other) ==
  /\ stack' = Below \o <<frame, Call(self, other)>>
  /\ UNCHANGED <<data, published, cache, regs, result, doubts>>

\* One of them is {{}}: nothing is memoised at this level.
UnionOne ==
  /\ Misses
  /\ IsOne(Self)
  /\ Recurse(Frame("lo", Val(Other), <<Zero, Hi(Other)>>, NoKey, {Other},
                   Top.expected),
             Self, Lo(Other))

\* The first has the lower value: the other moves into the recursion.
UnionLess ==
  /\ Misses
  /\ ~IsOne(Self)
  /\ Val(Self) < Val(Other)
  /\ Recurse(Frame("lo", Val(Self), <<Zero, Hi(Self)>>, Key,
                   {Self, Lo(Other), Hi(Other)}, Top.expected),
             Lo(Self), Other)

UnionGreater ==
  /\ Misses
  /\ ~IsOne(Self)
  /\ Val(Self) > Val(Other)
  /\ Recurse(Frame("lo", Val(Other), <<Zero, Hi(Other)>>, Key,
                   {Other, Lo(Self), Hi(Self)}, Top.expected),
             Self, Lo(Other))

\* Equal values: both stay in scope while lo and hi are joined in turn.
UnionEqual ==
  /\ Misses
  /\ ~IsOne(Self)
  /\ Val(Self) = Val(Other)
  /\ Recurse(Frame("lo_then_hi", Val(Self), <<Hi(Self), Hi(Other)>>, Key,
                   {Self, Other}, Top.expected),
             Lo(Self), Lo(Other))

(***************************************************************************)
(* holder.get_node(value, lo, hi), then put_into_cache                     *)
(***************************************************************************)
Wanted(v, lo, hi) == Node(v, lo.id, hi.id)

Known(n) == {i \in published : data[i] = n}

Memoise(c, key, i) ==
  IF key = NoKey THEN c
  ELSE [k \in DOMAIN c \cup {key} |-> IF k = key THEN i ELSE c[k]]

\* The innermost call has moved an argument that its key names into a
\* recursion, which may have dropped it.
KeyUnheld ==
  Top.key # NoKey /\ ~({Top.key[1], Top.key[2]} \subseteq {h.id : h \in Top.kept})

\* put_into_cache of the innermost call, in what is left of the cache.
Store(c, i) ==
  /\ cache' = Memoise(c, Top.key, i)
  /\ AgeKept
  /\ suspect' = IF Len(stack) <= older /\ KeyUnheld
                THEN suspect \cup {Top.key} ELSE suspect \ {Top.key}
  /\ UNCHANGED trusted

\* The same when get_node has just collected.
StoreAfterGc(c, i) ==
  /\ cache' = Memoise(c, Top.key, i)
  /\ older' = IF trusted THEN Len(Below) ELSE 0
  /\ suspect' = IF trusted /\ KeyUnheld THEN {Top.key} ELSE {}
  /\ UNCHANGED trusted

Building == stack # <<>> /\ Top.todo = "node"
TopNode  == Wanted(Top.v, Top.parts[1], Top.parts[2])

\* The hi child is never zero here (TypeOK), so that get_node does not
\* answer with lo.
BuildKnown ==
  /\ Building
  /\ \E i \in Known(TopNode) :
       /\ Answer(Handle(i, Top.expected))
       /\ Store(cache, i)
  /\ UNCHANGED <<data, published, regs>>

BuildNew ==
  /\ Building
  /\ Known(TopNode) = {}
  /\ \E i \in Free :
       /\ data' = [data EXCEPT ![i] = TopNode]
       /\ published' = published \cup {i}
       /\ Answer(Handle(i, Top.expected))
       /\ Store(cache, i)
  /\ UNCHANGED regs

\* A new node after a long probe: get_node collects before it returns, and
\* the result is memoised after the collection.
BuildNewAndCollect ==
  /\ Building
  /\ Known(TopNode) = {}
  /\ \E i \in Free :
       LET n == Handle(i, Top.expected)
           d == [data EXCEPT ![i] = TopNode]
       IN
       /\ published' = Reach(d, Ids2Live(Handles \cup {n}))
       /\ data' = Emptied(d, published')
       /\ Answer(n)
       /\ StoreAfterGc(NoCache, i)
  /\ UNCHANGED regs

\* The capped table is full: a panic unwinds through every frame, and the
\* program starts over with the handles it kept outside.
BuildPanics ==
  /\ Building
  /\ Known(TopNode) = {} /\ Free = {}
  /\ stack' = <<>>
  /\ older' = 0
  /\ UNCHANGED <<data, published, cache, regs, result, suspect, trusted>>

(***************************************************************************)
(* The program                                                             *)
(***************************************************************************)
Idle == stack = <<>> /\ result = NoResult

Operands == {Zero, One} \cup {regs[r] : r \in Regs}

\* zdd_node on clones of handles the program has, with room in the table.
MakeNode(v, lo, hi, r) ==
  LET n == Wanted(v, lo, hi) IN
  /\ Idle /\ IsZero(regs[r])
  /\ ~IsZero(hi)
  /\ \A c \in {lo.id, hi.id} \cap Indices : v < data[c].v
  /\ \E i \in IF Known(n) # {} THEN Known(n) ELSE Free :
       /\ data' = [data EXCEPT ![i] = n]
       /\ published' = published \cup {i}
       /\ regs' = [regs EXCEPT ![r] = Handle(i, lo.fam \cup Above(v, hi.fam))]
  /\ UNCHANGED <<cache, stack, result, doubts>>

CloneHandle(r, q) ==
  /\ Idle /\ ~IsZero(regs[r]) /\ IsZero(regs[q])
  /\ regs' = [regs EXCEPT ![q] = regs[r]]
  /\ UNCHANGED <<data, published, cache, stack, result, doubts>>

DropHandle(r) ==
  /\ Idle /\ ~IsZero(regs[r])
  /\ regs' = [regs EXCEPT ![r] = Zero]
  /\ UNCHANGED <<data, published, cache, stack, result, doubts>>

\* regs[r].union(regs[q]), both moved into the call.
CallUnion(r, q) ==
  /\ Idle /\ ~IsZero(regs[r]) /\ ~IsZero(regs[q])
  /\ stack' = <<Call(regs[r], regs[q])>>
  /\ regs' = [regs EXCEPT ![r] = Zero, ![q] = Zero]
  /\ UNCHANGED <<data, published, cache, result, doubts>>

KeepResult(r) ==
  /\ stack = <<>> /\ result # NoResult
  /\ IsZero(regs[r])
  /\ regs' = [regs EXCEPT ![r] = result]
  /\ result' = NoResult
  /\ UNCHANGED <<data, published, cache, stack, doubts>>

\* gc between two calls.
CallGc ==
  /\ Idle
  /\ Collect(Handles)
  /\ UNCHANGED <<regs, stack, result>>

Union ==
  \/ UnionTrivial \/ UnionHit \/ UnionOne
  \/ UnionLess \/ UnionGreater \/ UnionEqual
  \/ BuildKnown \/ BuildNew \/ BuildNewAndCollect
  \/ BuildPanics

Next ==
  \/ Union
  \/ CallGc
  \/ \E r \in Regs :
       \/ DropHandle(r) \/ KeepResult(r)
       \/ \E q \in Regs \ {r} : CloneHandle(r, q) \/ CallUnion(r, q)
       \/ \E v \in Vals, lo, hi \in Operands : MakeNode(v, lo, hi, r)

Spec == Init /\ [][Next]_vars

-----------------------------------------------------------------------------

Live(i) == i \in {0, 1} \cup published

TypeOK ==
  /\ \A i \in Indices : data[i].v \in 0 .. NVars
  /\ published \subseteq Indices
  /\ DOMAIN cache \subseteq Ids \X Ids
  /\ \A k \in DOMAIN cache : cache[k] \in Ids
  /\ \A h \in Handles \ {NoResult} : h.id \in Ids /\ h.fam \subseteq SUBSET Vals
  /\ Len(stack) <= NVars + 1
  /\ Building => ~IsZero(Top.parts[2])

\* "Takes the set union of two families of sets" (algebra.rs:240): every
\* call of union, memoised or not, answers with the node of the union of
\* what its arguments stood for.
UnionCorrect == result # NoResult => Family(result.id) = result.fam

\* A wrong answer of union always goes back to an entry of the cache that a
\* call stored after a collection inside it, under a key of which it no
\* longer held both nodes: without such a hit the answers are right,
\* whatever was collected and built again in between.
OnlyStaleKeysMislead == trusted => UnionCorrect

\* What the operation cache says is true of the nodes that its keys name,
\* but for the keys that a collection may have outdated.
CacheSound ==
  trusted =>
    \A k \in DOMAIN cache \ suspect :
      /\ Live(k[1]) /\ Live(k[2]) /\ Live(cache[k])
      /\ Family(cache[k]) = Family(k[1]) \cup Family(k[2])

\* No handle and no answer of the cache names a freed bucket: whatever
\* get_node collects in the middle of a recursion, the frames that wait for
\* it still own what they go on to use, and until an answer came from a
\* suspect entry every handle spells the family it was made for.
HandlesSound ==
  /\ TypeOK
  /\ \A h \in Handles \ {NoResult} : /\ Live(h.id)
                                     /\ trusted => Family(h.id) = h.fam
  /\ \A k \in DOMAIN cache : Live(cache[k])
=============================================================================
