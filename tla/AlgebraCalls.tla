---------------------------- MODULE AlgebraCalls ----------------------------
(***************************************************************************)
(* A program that builds two families with from_sets and calls the         *)
(* operations of FamilyAlgebra, UnateAlgebra and OwnedForms on them, loads *)
(* a form from elsewhere, or uses a SingleSet.  An answer is compared with *)
(* what the documentation of the operation, or the identity it names, says *)
(* of sets of sets; change is compared with the toggling that its code     *)
(* does, where the formula of algebra.rs:376 keeps more.                   *)
(***************************************************************************)
EXTENDS UnateAlgebra, OwnedForms, SingleSets

CONSTANTS
  Partners,  \* the families that operations with two arguments are called on
  Funcs,     \* the functions given to map
  Forms      \* the owned forms that a program may be given to load

ASSUME CallsAssumption ==
  /\ Partners \subseteq Families /\ Funcs \subseteq Maps
  /\ Forms \subseteq [nodes : Seq(OwnedNodes), roots : SUBSET Nat]

VARIABLES
  F, G,      \* the sets that the program gave to from_sets
  f, g,      \* the diagrams it got
  answer     \* the last call: its name, its other arguments, its result

vars == <<F, G, f, g, answer, singleVars>>

NoAnswer == [op |-> "none", arg |-> {}, zdd |-> Zero]

\* Some programs load forms from elsewhere, some use a SingleSet.
LoadsForms    == F = {{}} /\ G = {}
UsesSingleSet == F = {} /\ G = {}

Init ==
  /\ F \in Families /\ G \in Partners
  /\ G # {} => F \in Partners
  /\ SingleInit
  /\ ~UsesSingleSet => content = {}
  /\ f = FromSets(F) /\ g = FromSets(G)
  /\ answer = NoAnswer

Answer(op, arg, z) ==
  /\ answer = NoAnswer
  /\ answer' = [op |-> op, arg |-> arg, zdd |-> z]
  /\ UNCHANGED <<F, G, f, g, singleVars>>

\* A call on self alone, once for all partners; a call on self and other.
Unary(op, arg, z) == G = {} /\ Answer(op, arg, z)
Binary(op, z)     == F \in Partners /\ Answer(op, {}, z)

CallElement(v) ==
  \/ Unary("offset", {v}, ElementRemainder(f, v))
  \/ Unary("onset", {v}, ElementDivision(f, v))
  \/ Unary("change", {v}, Change[<<f, v>>])
  \/ Unary("insert", {v}, Insert[<<f, v>>])
  \/ Unary("insert_as_superset", {v}, InsertAsSuperset[<<f, v>>])

CallExtend(values) ==
  Unary("extend_as_superset", values, ExtendAsSuperset[<<f, values>>])

CallSizes ==
  Unary("sizes", {},
         [size |-> Size[f], max |-> MaxCardinality[f],
          min |-> MinCardinality[f], bounds |-> BoundsCardinality[f],
          universe |-> Universe[f], powerset |-> AllSubsets(Universe[f]),
          empty |-> ContainsEmptySet[f]])

CallMinimal == Unary("minimal", {}, MinimalElements[f])

CallSuperset == Unary("superset", {}, Superset(f))

CallSets ==
  \/ Binary("union", Union[<<f, g>>])
  \/ Binary("intersect", Intersect[<<f, g>>])
  \/ Binary("difference", Difference[<<f, g>>])

CallUnate ==
  \/ Binary("join", Join[<<f, g>>])
  \/ ~IsZero(g) /\ Binary("divide", Divide[<<f, g>>])
  \/ ~IsZero(g) /\ Binary("remainder", Remainder(f, g))

CallFilter ==
  \/ Binary("nonsup", Nonsup[<<f, g>>])
  \/ Binary("has_subset_in", HasSubsetIn[<<f, g>>])

CallMembers ==
  \/ Unary("members", {}, Members[<<<<f, <<>>>>>>])
  \/ \E func \in Funcs : Unary("map", {func}, MapInto[<<f, func>>])

CallToOwned ==
  \/ Unary("to_owned_zdd", {}, ToOwnedZdds(<<f>>))
  \/ Binary("to_owned_zdds", ToOwnedZdds(<<f, g>>))

CallTryFrom ==
  /\ LoadsForms /\ answer = NoAnswer
  /\ \E form \in Forms, single_root \in BOOLEAN :
       \E verdict \in TryFrom(form, single_root) :
         Answer("try_from", {form},
                [verdict |-> verdict,
                 loaded  |-> IF verdict = "Ok" THEN ToSetFamilies(form) ELSE <<>>])

UseSingleSet ==
  /\ UsesSingleSet /\ answer = NoAnswer
  /\ SingleNext
  /\ UNCHANGED <<F, G, f, g, answer>>

\* The program goes on with other calls on the same families.
Forget ==
  /\ answer # NoAnswer
  /\ answer' = NoAnswer
  /\ UNCHANGED <<F, G, f, g, singleVars>>

Next ==
  \/ \E v \in Elements : CallElement(v)
  \/ \E values \in SUBSET Elements : CallExtend(values)
  \/ CallSizes \/ CallMinimal \/ CallSuperset
  \/ CallSets \/ CallUnate \/ CallFilter
  \/ CallMembers \/ CallToOwned
  \/ CallTryFrom \/ UseSingleSet
  \/ Forget

Spec == Init /\ [][Next]_vars

-----------------------------------------------------------------------------

\* The answer to a call of `op` is the one diagram of a family.
Answers(op, sets) == answer.op = op => Is(answer.zdd, sets)

Arg == Least(answer.arg)

\* from_sets builds the one diagram of exactly the sets it was given: its
\* ranges, skips and contains_empty_set flags lose and add no set.  The counts
\* and bounds of that diagram are those of the sets, with the infinity that
\* stands for an overflow and for the smallest set of no set at all.
ConstructionExact ==
  LET sizes == {Cardinality(s) : s \in F}
      r == answer.zdd
  IN
  /\ Is(f, F) /\ Is(g, G)
  /\ answer.op = "sizes" =>
       /\ r.size = IF Cardinality(F) > MaxUsize THEN PositiveInfinity
                   ELSE Cardinality(F)
       /\ r.max = IF F = {} THEN 0 ELSE Greatest(sizes)
       /\ r.min = IF F = {} THEN PositiveInfinity ELSE Least(sizes)
       /\ r.bounds = <<r.min, r.max>>
       /\ r.universe = UNION F
       /\ Is(r.powerset, SUBSET UNION F)
       /\ r.empty = ({} \in F)

\* offset, onset, change, insert and insert_as_superset on every set.
\* extend_as_superset is insert_as_superset "multiple times": the pivots cut
\* the values into those below and above each node without losing one.
ElementOperations ==
  LET v == Arg IN
  /\ answer.op \in {"offset", "onset", "change", "insert", "insert_as_superset"} =>
       /\ Answers("offset", {s \in F : v \notin s})
       /\ Answers("onset", {s \ {v} : s \in {x \in F : v \in x}})
       /\ Answers("change", {IF v \in s THEN s \ {v} ELSE s \cup {v} : s \in F})
       /\ Answers("insert", With(v, F))
       /\ Answers("insert_as_superset", F \cup With(v, F))
  /\ Answers("extend_as_superset", {s \cup t : s \in F, t \in SUBSET answer.arg})

\* The sets made of one of each family; the sets that make A's with each of B's.
Product(A, B) == {a \cup b : a \in A, b \in B}

QuotientOf(A, B) ==
  {s \in SUBSET Elements : \A b \in B : s \cap b = {} /\ s \cup b \in A}

\* union, intersect and difference; join, and division as an intersection of
\* quotients by one set.
FamilyOperations ==
  /\ Answers("union", F \cup G)
  /\ Answers("intersect", F \cap G)
  /\ Answers("difference", F \ G)
  /\ Answers("join", Product(F, G))
  /\ Answers("divide", QuotientOf(F, G))
  /\ Answers("remainder", F \ Product(G, QuotientOf(F, G)))

\* nonsup and has_subset_in split self by whether a set has a subset in other;
\* minimal keeps "{x in f | y in f and x superset of y implies x = y}";
\* superset closes the family upwards within its universe.
FilterOperations ==
  /\ Answers("nonsup", {x \in F : ~\E y \in G : y \subseteq x})
  /\ Answers("has_subset_in", {x \in F : \E y \in G : y \subseteq x})
  /\ Answers("minimal", {x \in F : \A y \in F : y \subseteq x => x = y})
  /\ Answers("superset", {s \in SUBSET UNION F : \E x \in F : x \subseteq s})

Values(path) == {path[i] : i \in DOMAIN path}

Rising(path) == \A j, k \in DOMAIN path : j < k => path[j] < path[k]

\* The paths spell out every set of a family once, and no other.
Enumerates(paths, sets) ==
  /\ {Values(paths[i]) : i \in DOMAIN paths} = sets
  /\ Len(paths) = Cardinality(sets)
  /\ \A i \in DOMAIN paths : Rising(paths[i])

\* The iterator yields every set exactly once, its values in order, and map
\* replaces the values of every set, also by a function that merges or
\* reorders them.
MembersExact ==
  /\ answer.op = "members" => Enumerates(answer.zdd, F)
  /\ Answers("map", {{func[v] : v \in s, func \in answer.arg} : s \in F})

\* What each position of a form spells out.
SpeltStep(call, nodes, idx) ==
  LET n == NodeAt(nodes, idx) IN
  IF idx = 0 THEN {}
  ELSE IF idx = 1 THEN {{}}
  ELSE call[n.lo] \cup With(n.value, call[n.hi])
Spelt(nodes) ==
  LET spelt[idx \in 0 .. Len(nodes) + 1] == SpeltStep(spelt, nodes, idx)
  IN  spelt

\* The form made of zdds is accepted, loads back to them and repeats no node.
RoundTrips(r, zdds) ==
  /\ CheckValidity(r.form) = {"Ok"}
  /\ \A i \in DOMAIN zdds : ToSetFamilies(r.form)[r.indices[i]] = zdds[i]
  /\ \A i, j \in DOMAIN r.form.nodes : i # j => r.form.nodes[i] # r.form.nodes[j]

\* A form made from families is accepted, holds every node once and loads back
\* to those families.  A form from elsewhere that is accepted loads to the one
\* diagram of what it spells, also when it repeats nodes or has nodes that
\* should have been suppressed; and only a root that is no node makes the
\* test panic.
FormsExact ==
  LET r == answer.zdd
      form == CHOOSE x \in answer.arg : TRUE
  IN
  /\ answer.op = "to_owned_zdd" => RoundTrips(r, <<f>>)
  /\ answer.op = "to_owned_zdds" => RoundTrips(r, <<f, g>>)
  /\ answer.op = "try_from" =>
       /\ r.verdict = "Ok" =>
            \A i \in form.roots : Is(r.loaded[i], Spelt(form.nodes)[i])
       /\ r.verdict = "panic" => \E i \in form.roots : i >= Len(form.nodes) + 2
=============================================================================
