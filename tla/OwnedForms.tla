----------------------------- MODULE OwnedForms -----------------------------
(***************************************************************************)
(* What leaves the holder: the members of a family one by one              *)
(* (src/src/iterators.rs), its image in another holder (map, utils.rs) and *)
(* its form that owns its nodes (serialize.rs), with the test of a form    *)
(* that comes from elsewhere (serialize/verification.rs).                  *)
(***************************************************************************)
EXTENDS FamilyAlgebra, Sequences

\* ZddIter: the nodes still to visit, each with the values above it.  A stack
\* has its top at the head.

\* Mutant: the hi child goes on with the values of its parent only.
MembersShort(call, stack) ==
  LET z == Head(stack)[1]
      current_set == Head(stack)[2]
      lo == IF IsZero(Lo(z)) THEN <<>> ELSE <<<<Lo(z), current_set>>>>
      hi == IF IsZero(Hi(z)) THEN <<>> ELSE <<<<Hi(z), <<Val(z)>>>>>>
  IN
  IF stack = <<>> THEN <<>>
  ELSE IF IsZero(z) THEN call[Tail(stack)]
  ELSE IF IsOne(z) THEN <<current_set>> \o call[Tail(stack)]
  ELSE call[hi \o lo \o Tail(stack)]

MembersStep(call, stack) ==
  LET z == Head(stack)[1]
      current_set == Head(stack)[2]
      lo == IF IsZero(Lo(z)) THEN <<>> ELSE <<<<Lo(z), current_set>>>>
      hi == IF IsZero(Hi(z)) THEN <<>>
            ELSE <<<<Hi(z), Append(current_set, Val(z))>>>>
  IN
  IF stack = <<>> THEN <<>>
  ELSE IF IsZero(z) THEN call[Tail(stack)]
  ELSE IF IsOne(z) THEN <<current_set>> \o call[Tail(stack)]
  ELSE call[hi \o lo \o Tail(stack)]
Members[stack \in Seq(Diagrams \X Seq(Elements))] == MembersStep(Members, stack)

\* map: every node once, its children first.
Maps == [Elements -> Elements]

MapIntoStep(call, z, func) ==
  IF IsTerminal(z) THEN z
  ELSE Union[<<call[<<Lo(z), func>>], Insert[<<call[<<Hi(z), func>>], func[Val(z)]>>]>>]
MapInto[p \in Diagrams \X Maps] == MapIntoStep(MapInto, p[1], p[2])

-----------------------------------------------------------------------------
\* The nodes of an owned form refer to each other by position: 0 and 1 are the
\* terminals, 2 is the first node.
OwnedZddNode(value, lo, hi) == [value |-> value, lo |-> lo, hi |-> hi]
OwnedNodes == [value : Elements, lo : Nat, hi : Nat]
Owned(nodes, roots) == [nodes |-> nodes, roots |-> roots]

NodeAt(nodes, idx) == nodes[idx - 1]

Portions == [portion : {"search", "add"}, id : Diagrams]
Search(z) == [portion |-> "search", id |-> z]
Add(z)    == [portion |-> "add", id |-> z]

\* The depth-first search of to_owned_zdds_with_mapping: visited and nodes
\* grow together, one node after the two terminals, so that an index is a
\* place among the visited.
Visited(ids, z) == \E i \in DOMAIN ids : ids[i] = z
IndexOf(ids, z) == (CHOOSE i \in DOMAIN ids : ids[i] = z) - 1

DfsStep(call, stack, ids) ==
  LET z       == Head(stack).id
      rest    == Tail(stack)
      New(c)  == IF Visited(ids, c) THEN <<>> ELSE <<Search(c)>>
  IN
  IF stack = <<>> THEN ids
  ELSE IF Visited(ids, z) THEN call[<<rest, ids>>]
  ELSE IF Head(stack).portion = "search"
    THEN call[<<New(Hi(z)) \o New(Lo(z)) \o <<Add(z)>> \o rest, ids>>]
  ELSE call[<<rest, Append(ids, z)>>]

\* The terminals are visited before the search begins.
VisitedIds == {ids \in Seq(Diagrams) : Visited(ids, Zero) /\ Visited(ids, One)}
Dfs[p \in Seq(Portions) \X VisitedIds] == DfsStep(Dfs, p[1], p[2])

\* The form and the index of every family in it.
ToOwnedZdds(zdds) ==
  LET n   == Len(zdds)
      ids == Dfs[<<[i \in 1 .. n |-> Search(zdds[n + 1 - i])], <<Zero, One>>>>]
      nodes == [i \in 1 .. Len(ids) - 2 |->
                  LET z == ids[i + 2] IN
                  OwnedZddNode(Val(z), IndexOf(ids, Lo(z)), IndexOf(ids, Hi(z)))]
      indices == [i \in 1 .. n |-> IndexOf(ids, zdds[i])]
  IN  [form |-> Owned(nodes, {indices[i] : i \in 1 .. n}), indices |-> indices]

\* to_set_family and to_set_families: node by node, through get_node.

\* Mutant: the nodes are taken as they are, without zero suppression.
LoadUnreduced(mapping, nodes, idx) ==
  LET n == NodeAt(nodes, idx) IN
  IF idx = 0 THEN Zero
  ELSE IF idx = 1 THEN One
  ELSE Node(n.value, mapping[n.lo], mapping[n.hi])

Load(mapping, nodes, idx) ==
  LET n == NodeAt(nodes, idx) IN
  IF idx = 0 THEN Zero
  ELSE IF idx = 1 THEN One
  ELSE GetNode(n.value, mapping[n.lo], mapping[n.hi])

ToSetFamilies(form) ==
  LET mapping[idx \in 0 .. Len(form.nodes) + 1] == Load(mapping, form.nodes, idx)
  IN  [r \in form.roots |-> mapping[r]]

-----------------------------------------------------------------------------
\* check_validity, at one node: of its children only those that are nodes have
\* values to compare.
Children(nodes, idx) ==
  {c \in {NodeAt(nodes, idx).lo, NodeAt(nodes, idx).hi} : c >= 2}

Fault(nodes, idx) ==
  IF idx - 1 \notin DOMAIN nodes THEN "panic"
  ELSE IF \E c \in Children(nodes, idx) : idx < c THEN "BadSerialOrder"
  ELSE IF \E c \in Children(nodes, idx) :
            NodeAt(nodes, c).value <= NodeAt(nodes, idx).value
    THEN "BadValueOrder"
  ELSE "none"

\* The indices that the search may open: children of nodes without a fault.
Below(nodes, stack) ==
  UNION {Children(nodes, idx) : idx \in {x \in stack : Fault(nodes, x) = "none"}}

SearchStep(call, nodes, stack, visited) ==
  LET new == Below(nodes, stack) \ visited IN
  IF stack = {} THEN visited ELSE call[<<new, visited \cup new>>]

Reached(nodes, roots) ==
  LET search[p \in (SUBSET Nat) \X (SUBSET Nat)] ==
        SearchStep(search, nodes, p[1], p[2])
  IN  search[<<roots, roots>>]

\* The stack starts in the order of a hash set: of several faults, any may be
\* met first.
CheckValidity(form) ==
  LET roots   == {r \in form.roots : r >= 2}
      visited == Reached(form.nodes, roots)
      faults  == {Fault(form.nodes, idx) : idx \in visited} \ {"none"}
  IN
  IF faults # {} THEN faults
  ELSE IF Cardinality(visited) # Len(form.nodes) THEN {"UnvisitedNodes"}
  ELSE {"Ok"}

\* try_from for OwnedZdd, which has one root, and for MultipleOwnedZdd.
TryFrom(form, single) ==
  IF single /\ Cardinality(form.roots) # 1 THEN {"NotSingle"}
  ELSE CheckValidity(form)
=============================================================================
