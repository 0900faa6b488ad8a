---------------------------- MODULE FeatureGraph ----------------------------
(***************************************************************************)
(* The dependencies between feature packages: _validate_feature_graph      *)
(* rejects a catalog with a cycle when it is loaded, and                   *)
(* _resolve_feature_dependencies later orders the packages a selection     *)
(* needs.  Both are recursive depth-first searches; only the first looks   *)
(* for cycles, so the second relies on it to end.                          *)
(*                                                                         *)
(* The recursion is explicit: a frame is a call of visit with the          *)
(* requirements its loop has still to go through.  The order in which a    *)
(* loop takes them (sorted, in the code) is left open.                     *)
(***************************************************************************)
EXTENDS Integers, Sequences, FiniteSets

CONSTANT Packages

VARIABLES
  requires,   \* requires[f] : requires_features of f
  requested,  \* the features selected for the build
  phase,      \* "validating", "rejected", "resolving", "resolved"
  stack,      \* the calls of visit under way, the innermost last
  todo,       \* what the loop that calls visit has still to go through
  visited,
  order       \* ordered, the result

graphVars == <<requires, requested, phase, stack, todo, visited, order>>

Elements(s) == {s[i] : i \in 1 .. Len(s)}
Visiting == {stack[i].feature : i \in 1 .. Len(stack)}
Top == stack[Len(stack)]

GraphInit ==
  /\ requires \in [Packages -> SUBSET Packages]
  /\ \A f \in Packages : f \notin requires[f]
  /\ requested \in SUBSET Packages
  /\ phase = "validating"
  /\ stack = <<>> /\ todo = Packages
  /\ visited = {} /\ order = <<>>
-----------------------------------------------------------------------------
(***************************************************************************)
(* visit(f), called by the loop over todo or by the innermost visit.       *)
(***************************************************************************)
Called(f) ==
  IF stack = <<>> THEN f \in todo ELSE f \in Top.left

\* The caller's loop without f.
Without(f) ==
  IF stack = <<>>
    THEN <<>>
    ELSE [stack EXCEPT ![Len(stack)].left = @ \ {f}]

Running == phase \in {"validating", "resolving"}

FindCycleAtRoot ==
  /\ phase = "validating"
  /\ \E f \in Packages : Called(f) /\ stack # <<>> /\ f = stack[1].feature
  /\ phase' = "rejected"
  /\ UNCHANGED <<requires, requested, stack, todo, visited, order>>

FindCycleInVisited ==
  /\ phase = "validating"
  /\ \E f \in Packages : Called(f) /\ f \in Visiting \union visited
  /\ phase' = "rejected"
  /\ UNCHANGED <<requires, requested, stack, todo, visited, order>>

\* feature_id in visiting: only the validation asks.
FindCycle ==
  /\ phase = "validating"
  /\ \E f \in Packages : Called(f) /\ f \in Visiting
  /\ phase' = "rejected"
  /\ UNCHANGED <<requires, requested, stack, todo, visited, order>>

\* feature_id in visited.
Skip ==
  /\ Running
  /\ \E f \in visited :
       /\ Called(f) /\ (phase = "validating" => f \notin Visiting)
       /\ stack' = Without(f)
       /\ todo' = todo \ (IF stack = <<>> THEN {f} ELSE {})
  /\ UNCHANGED <<requires, requested, phase, visited, order>>

Enter ==
  /\ Running
  /\ \E f \in Packages \ visited :
       /\ Called(f) /\ (phase = "validating" => f \notin Visiting)
       /\ stack' = Append(Without(f), [feature |-> f, left |-> requires[f]])
       /\ todo' = todo \ (IF stack = <<>> THEN {f} ELSE {})
  /\ UNCHANGED <<requires, requested, phase, visited, order>>

LeaveEarly ==
  /\ Running
  /\ stack # <<>>
  /\ stack' = SubSeq(stack, 1, Len(stack) - 1)
  /\ visited' = visited \union {Top.feature}
  /\ order' = IF phase = "resolving" THEN Append(order, Top.feature) ELSE order
  /\ UNCHANGED <<requires, requested, phase, todo>>

\* visiting.remove, visited.add and, in the second search, ordered.append.
Leave ==
  /\ Running
  /\ stack # <<>> /\ Top.left = {}
  /\ stack' = SubSeq(stack, 1, Len(stack) - 1)
  /\ visited' = visited \union {Top.feature}
  /\ order' = IF phase = "resolving" THEN Append(order, Top.feature) ELSE order
  /\ UNCHANGED <<requires, requested, phase, todo>>

AcceptKeepingVisited ==
  /\ phase = "validating" /\ stack = <<>> /\ todo = {}
  /\ phase' = "resolving"
  /\ todo' = requested
  /\ UNCHANGED <<requires, requested, stack, visited, order>>

\* The catalog is accepted; the selection is resolved with a fresh visited.
Accept ==
  /\ phase = "validating" /\ stack = <<>> /\ todo = {}
  /\ phase' = "resolving"
  /\ todo' = requested /\ visited' = {}
  /\ UNCHANGED <<requires, requested, stack, order>>

Resolve ==
  /\ phase = "resolving" /\ stack = <<>> /\ todo = {}
  /\ phase' = "resolved"
  /\ UNCHANGED <<requires, requested, stack, todo, visited, order>>

GraphNext == FindCycle \/ Skip \/ Enter \/ Leave \/ Accept \/ Resolve

GraphSpec == GraphInit /\ [][GraphNext]_graphVars
-----------------------------------------------------------------------------
(***************************************************************************)
(* Properties.                                                             *)
(***************************************************************************)

\* A set of features each of which requires another one of the set.
HasCycle == \E S \in SUBSET Packages : S # {} /\ \A f \in S : requires[f] \intersect S # {}

\* A catalog is rejected exactly if its requirements contain a cycle.
RejectsExactlyCycles ==
  /\ phase = "rejected" => HasCycle
  /\ phase \in {"resolving", "resolved"} => ~HasCycle

\* In the result everything a feature requires comes before it, at every
\* moment, and nothing comes twice.
DependenciesFirst ==
  /\ \A i \in 1 .. Len(order) :
       \A g \in requires[order[i]] : \E j \in 1 .. i - 1 : order[j] = g
  /\ \A i, j \in 1 .. Len(order) : order[i] = order[j] => i = j

\* The result is the smallest set that has the requested features and all that
\* its members require: nothing is left out and nothing is pulled in.
Closed(S) == requested \subseteq S /\ \A f \in S : requires[f] \subseteq S

ResolvesClosure ==
  phase = "resolved" =>
    /\ Closed(Elements(order))
    /\ \A S \in SUBSET Packages : Closed(S) => Elements(order) \subseteq S

\* Both, as one promise about the order that is returned.
GraphIsResolved == DependenciesFirst /\ ResolvesClosure
=============================================================================
