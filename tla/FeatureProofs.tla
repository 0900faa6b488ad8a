---------------------------- MODULE FeatureProofs ----------------------------
(***************************************************************************)
(* FeatureGraph for any packages and any requirements between them,        *)
(* FeaturePlan for all sound catalogs, all selections and all images, and  *)
(* FeatureCatalog for directories of any contents.                         *)
(* That both searches end is a matter of fairness and is left to TLC.      *)
(***************************************************************************)
EXTENDS FeaturePlan, FeatureGraph, FeatureCatalog, SequenceTheorems, FiniteSetTheorems, TLAPS

(***************************************************************************)
(* FeatureGraph.  A frame is a call of visit.                              *)
(***************************************************************************)
Frame == [feature : Packages, left : SUBSET Packages]

TypeInv ==
  /\ requires \in [Packages -> SUBSET Packages] /\ requested \in SUBSET Packages
  /\ phase \in {"validating", "rejected", "resolving", "resolved"}
  /\ stack \in Seq(Frame) /\ todo \in SUBSET Packages
  /\ visited \in SUBSET Packages /\ order \in Seq(Packages)

\* The features that a call on the stack has not to wait for any more.
Handled(n) == visited \union (IF n < Len(stack) THEN {stack[n + 1].feature} ELSE {})

\* The stack is a path of requirements; no feature is on it twice.
StackInv ==
  \A n \in 1..Len(stack) :
    /\ stack[n].feature \notin visited
    /\ stack[n].left \subseteq requires[stack[n].feature]
    /\ requires[stack[n].feature] \ stack[n].left \subseteq Handled(n)
    /\ n < Len(stack) => stack[n + 1].feature \in requires[stack[n].feature]
    /\ \A m \in 1..Len(stack) : stack[m].feature = stack[n].feature => m = n

CyclicSet(S) == S # {} /\ \A f \in S : requires[f] \intersect S # {}

\* What was visited needs nothing else, and has no cycle.
VisitedInv ==
  /\ \A f \in visited : requires[f] \subseteq visited
  /\ \A S \in SUBSET visited : ~CyclicSet(S)

\* What the outer loop is done with, its current element aside.
Wanted == IF phase \in {"validating", "rejected"} THEN Packages ELSE requested
LoopInv ==
  /\ todo \subseteq Wanted
  /\ \A f \in Wanted \ todo : f \in visited \/ (stack # <<>> /\ f = stack[1].feature)

PhaseInv ==
  /\ phase = "rejected" => HasCycle
  /\ phase \in {"resolving", "resolved"} => ~HasCycle
  /\ phase = "resolved" => stack = <<>> /\ todo = {}

\* The result is what was visited, in the order in which it was left.
OrderInv ==
  /\ phase \in {"validating", "rejected"} => order = <<>>
  /\ phase \in {"resolving", "resolved"} => Elements(order) = visited
  /\ DependenciesFirst

\* Nothing is visited that a closed set can do without.
NeededInv ==
  phase \in {"resolving", "resolved"} =>
    \A S \in SUBSET Packages : Closed(S) => visited \union Visiting \subseteq S

GraphInv ==
  /\ TypeInv /\ StackInv /\ VisitedInv /\ LoopInv
  /\ PhaseInv /\ OrderInv /\ NeededInv
-----------------------------------------------------------------------------
LEMMA Frames ==
  ASSUME TypeInv
  PROVE  /\ Len(stack) \in Nat /\ (stack = <<>> <=> Len(stack) = 0)
         /\ \A n \in 1..Len(stack) : stack[n] \in Frame
BY DEF TypeInv

\* The loop of the innermost call takes f.
LEMMA WithoutOne ==
  ASSUME TypeInv, NEW f \in Packages
  PROVE  /\ Without(f) \in Seq(Frame) /\ Len(Without(f)) = Len(stack)
         /\ \A n \in 1..Len(stack) :
              /\ Without(f)[n].feature = stack[n].feature
              /\ Without(f)[n].left = stack[n].left \ (IF n = Len(stack) THEN {f} ELSE {})
<1>1. CASE stack = <<>>
  BY <1>1 DEF Without, TypeInv
<1>2. CASE stack # <<>>
  <2> DEFINE last == Len(stack)
             frame == [stack[last] EXCEPT !.left = @ \ {f}]
  <2>1. last \in 1..Len(stack) /\ stack[last] \in Frame
    BY <1>2, Frames
  <2>2. frame \in Frame /\ frame.feature = stack[last].feature
        /\ frame.left = stack[last].left \ {f}
    BY <2>1 DEF Frame
  <2>3. Without(f) = [stack EXCEPT ![last] = frame]
    BY <1>2 DEF Without
  <2>4. stack \in Seq(Frame)
    BY DEF TypeInv
  <2>5. /\ [stack EXCEPT ![last] = frame] \in Seq(Frame)
        /\ Len([stack EXCEPT ![last] = frame]) = Len(stack)
        /\ \A n \in 1..Len(stack) :
             [stack EXCEPT ![last] = frame][n] = IF n = last THEN frame ELSE stack[n]
    BY <2>1, <2>2, <2>4, ExceptSeq
  <2> QED BY <2>2, <2>3, <2>5
<1> QED BY <1>1, <1>2

\* Who calls visit: the outer loop or a feature that requires it.
LEMMA Caller ==
  ASSUME TypeInv, StackInv, LoopInv, NEW f \in Packages, Called(f)
  PROVE  IF stack = <<>> THEN f \in todo /\ f \in Wanted
         ELSE /\ Len(stack) \in 1..Len(stack) /\ f \in stack[Len(stack)].left
              /\ f \in requires[stack[Len(stack)].feature]
BY Frames DEF Called, Top, StackInv, LoopInv

\* A call of a feature that is being visited closes a cycle.
LEMMA CallClosesCycle ==
  ASSUME TypeInv, StackInv, LoopInv, NEW f \in Packages, Called(f), f \in Visiting
  PROVE  HasCycle
<1>1. PICK m \in 1..Len(stack) : stack[m].feature = f
  BY DEF Visiting
<1>2. stack # <<>> /\ f \in requires[stack[Len(stack)].feature]
  BY <1>1, Frames, Caller
<1> DEFINE S == {stack[n].feature : n \in m..Len(stack)}
<1>3. S \in SUBSET Packages /\ f \in S /\ \A n \in m..Len(stack) : stack[n].feature \in S
  BY <1>1, Frames DEF Frame
<1>4. \A g \in S : \E n \in m..Len(stack) : g = stack[n].feature
  OBVIOUS
<1> HIDE DEF S
<1>5. ASSUME NEW n \in m..Len(stack) PROVE requires[stack[n].feature] \intersect S # {}
  <2>1. CASE n = Len(stack)
    BY <1>2, <1>3, <2>1
  <2>2. CASE n < Len(stack)
    <3>1. n \in 1..Len(stack) /\ n + 1 \in m..Len(stack)
      BY <2>2, Frames
    <3>2. stack[n + 1].feature \in requires[stack[n].feature]
      BY <2>2, <3>1 DEF StackInv
    <3> QED BY <1>3, <3>1, <3>2
  <2>3. n = Len(stack) \/ n < Len(stack)
    BY Frames
  <2> QED BY <2>1, <2>2, <2>3
<1>6. \A g \in S : requires[g] \intersect S # {}
  BY <1>4, <1>5
<1> QED BY <1>3, <1>6 DEF HasCycle

LEMMA GraphInitIsInv == ASSUME GraphInit PROVE GraphInv
<1>1. TypeInv
  BY DEF GraphInit, TypeInv
<1>2. stack = <<>> /\ visited = {} /\ todo = Packages /\ phase = "validating" /\ order = <<>>
  BY DEF GraphInit
<1>3. StackInv /\ LoopInv /\ PhaseInv /\ NeededInv
  BY <1>2 DEF StackInv, LoopInv, Wanted, PhaseInv, NeededInv
<1>4. VisitedInv /\ OrderInv
  BY <1>2 DEF VisitedInv, CyclicSet, OrderInv, DependenciesFirst
<1> QED BY <1>1, <1>3, <1>4 DEF GraphInv

LEMMA FindCycleKeeps == ASSUME GraphInv, FindCycle PROVE GraphInv'
<1>1. /\ phase = "validating" /\ phase' = "rejected"
      /\ UNCHANGED <<requires, requested, stack, todo, visited, order>>
  BY DEF FindCycle
<1>2. HasCycle
  BY CallClosesCycle DEF FindCycle, GraphInv
<1>3. TypeInv' /\ StackInv' /\ VisitedInv'
  BY <1>1 DEF GraphInv, TypeInv, StackInv, Handled, VisitedInv, CyclicSet
<1>4. LoopInv' /\ OrderInv'
  BY <1>1 DEF GraphInv, LoopInv, Wanted, OrderInv, DependenciesFirst
<1>5. PhaseInv' /\ NeededInv'
  BY <1>1, <1>2 DEF PhaseInv, NeededInv, HasCycle
<1> QED BY <1>3, <1>4, <1>5 DEF GraphInv

LEMMA SkipKeeps == ASSUME GraphInv, Skip PROVE GraphInv'
<1>1. PICK f \in visited :
        /\ Called(f) /\ stack' = Without(f)
        /\ todo' = todo \ (IF stack = <<>> THEN {f} ELSE {})
  BY DEF Skip
<1>2. UNCHANGED <<requires, requested, phase, visited, order>>
  BY DEF Skip
<1>3. f \in Packages
  BY DEF GraphInv, TypeInv
<1>4. /\ stack' \in Seq(Frame) /\ Len(stack') = Len(stack)
      /\ \A n \in 1..Len(stack) :
           /\ stack'[n].feature = stack[n].feature
           /\ stack'[n].left \subseteq stack[n].left
           /\ stack[n].left \subseteq stack'[n].left \union {f}
  BY <1>1, <1>3, WithoutOne DEF GraphInv
<1>5. TypeInv'
  BY <1>1, <1>2, <1>4 DEF GraphInv, TypeInv
<1>6. StackInv'
  <2>1. \A n \in 1..Len(stack) :
          stack[n].feature \notin visited /\ stack[n].left \subseteq requires[stack[n].feature]
    BY DEF GraphInv, StackInv
  <2>2. \A n \in 1..Len(stack) : Handled(n)' = Handled(n)
    BY <1>2, <1>4 DEF Handled
  <2>3. \A n \in 1..Len(stack) : requires[stack[n].feature] \ stack'[n].left \subseteq Handled(n)
    BY <1>1, <1>4, Frames DEF GraphInv, StackInv, Handled
  <2>4. \A n \in 1..Len(stack) :
          n < Len(stack) => stack[n + 1].feature \in requires[stack[n].feature]
    BY DEF GraphInv, StackInv
  <2>5. \A m, n \in 1..Len(stack) : stack[m].feature = stack[n].feature => m = n
    BY DEF GraphInv, StackInv
  <2>6. Len(stack) \in Nat
    BY Frames DEF GraphInv
  <2>7. \A n \in 1..Len(stack) : n < Len(stack) => stack'[n + 1].feature = stack[n + 1].feature
    BY <1>4, <2>6
  <2>8. \A n \in 1..Len(stack) :
          /\ stack'[n].feature \notin visited'
          /\ stack'[n].left \subseteq requires'[stack'[n].feature]
    BY <1>2, <1>4, <2>1
  <2>9. \A n \in 1..Len(stack) : requires'[stack'[n].feature] \ stack'[n].left \subseteq Handled(n)'
    BY <1>2, <1>4, <2>2, <2>3
  <2>10. \A n \in 1..Len(stack) :
           n < Len(stack) => stack'[n + 1].feature \in requires'[stack'[n].feature]
    BY <1>2, <1>4, <2>4, <2>7
  <2>11. \A m, n \in 1..Len(stack) : stack'[m].feature = stack'[n].feature => m = n
    BY <1>4, <2>5
  <2> QED BY <1>4, <2>8, <2>9, <2>10, <2>11 DEF StackInv
<1>7. VisitedInv' /\ OrderInv' /\ PhaseInv'
  <2>1. VisitedInv' /\ OrderInv'
    BY <1>2 DEF GraphInv, VisitedInv, CyclicSet, OrderInv, DependenciesFirst, Elements
  <2>2. phase # "resolved"
    BY DEF Skip, Running
  <2> QED BY <1>2, <2>1, <2>2 DEF GraphInv, PhaseInv, HasCycle
<1>8. LoopInv'
  <2>1. stack # <<>> => stack' # <<>> /\ stack'[1].feature = stack[1].feature
    BY <1>4, Frames DEF GraphInv
  <2> QED BY <1>1, <1>2, <2>1 DEF GraphInv, LoopInv, Wanted
<1>9. NeededInv'
  <2>1. Visiting' = Visiting
    BY <1>4 DEF Visiting
  <2> QED BY <1>2, <2>1 DEF GraphInv, NeededInv, Closed
<1> QED BY <1>5, <1>6, <1>7, <1>8, <1>9 DEF GraphInv

LEMMA EnterKeeps == ASSUME GraphInv, Enter PROVE GraphInv'
<1> DEFINE top == Len(stack) + 1
<1>1. PICK f \in Packages \ visited :
        /\ Called(f) /\ (phase = "validating" => f \notin Visiting)
        /\ stack' = Append(Without(f), [feature |-> f, left |-> requires[f]])
        /\ todo' = todo \ (IF stack = <<>> THEN {f} ELSE {})
  BY DEF Enter
<1>2. UNCHANGED <<requires, requested, phase, visited, order>>
  BY DEF Enter
<1>3. phase \in {"validating", "resolving"}
  BY DEF Enter, Running
<1>4. f \notin Visiting
  BY <1>1, <1>3, CallClosesCycle DEF GraphInv, PhaseInv
<1>5. [feature |-> f, left |-> requires[f]] \in Frame
  BY DEF GraphInv, TypeInv, Frame
<1>6. /\ stack' \in Seq(Frame) /\ Len(stack') = top
      /\ \A n \in 1..Len(stack) : stack'[n] = Without(f)[n]
      /\ stack'[top] = [feature |-> f, left |-> requires[f]]
  BY <1>1, <1>5, WithoutOne, AppendProperties DEF GraphInv
<1>7. \A n \in 1..Len(stack) :
        /\ stack'[n].feature = stack[n].feature /\ stack'[n].feature # f
        /\ stack'[n].left = stack[n].left \ (IF n = Len(stack) THEN {f} ELSE {})
  BY <1>4, <1>6, WithoutOne DEF GraphInv, Visiting
<1>8. \A n \in 1..top : n = top \/ n \in 1..Len(stack)
  BY Frames DEF GraphInv
<1>9. TypeInv'
  BY <1>1, <1>2, <1>6 DEF GraphInv, TypeInv
<1>10. StackInv'
  <2> DEFINE After(n) == visited \union (IF n < top THEN {stack'[n + 1].feature} ELSE {})
  <2>1. ASSUME NEW n \in 1..Len(stack)
        PROVE  /\ stack'[n].feature \notin visited'
               /\ stack'[n].left \subseteq requires'[stack'[n].feature]
               /\ requires'[stack'[n].feature] \ stack'[n].left \subseteq After(n)
               /\ n < Len(stack') /\ stack'[n + 1].feature \in requires'[stack'[n].feature]
    <3>1. CASE n = Len(stack)
      <4>1. f \in requires[stack[n].feature] /\ Handled(n) = visited
        BY <1>1, <3>1, Caller, Frames DEF GraphInv, Handled
      <4>2. After(n) = visited \union {f} /\ stack'[n + 1].feature = f /\ n < Len(stack')
        BY <1>2, <1>6, <3>1, Frames DEF GraphInv, Handled
      <4> QED BY <1>2, <1>7, <3>1, <4>1, <4>2 DEF GraphInv, StackInv
    <3>2. CASE n < Len(stack)
      <4>1. n + 1 \in 1..Len(stack) /\ n < Len(stack') /\ n # Len(stack)
        BY <1>6, <3>2, Frames DEF GraphInv
      <4>2. After(n) = Handled(n)
        BY <1>2, <1>7, <3>2, <4>1 DEF Handled
      <4>3. stack'[n].feature = stack[n].feature /\ stack'[n].left = stack[n].left
        BY <1>7, <3>2, <4>1
      <4>4. stack'[n + 1].feature = stack[n + 1].feature
        BY <1>7, <4>1
      <4> QED BY <1>2, <3>2, <4>1, <4>2, <4>3, <4>4 DEF GraphInv, StackInv
    <3>3. n = Len(stack) \/ n < Len(stack)
      BY Frames DEF GraphInv
    <3> QED BY <3>1, <3>2, <3>3
  <2>2. /\ stack'[top].feature \notin visited'
        /\ stack'[top].left \subseteq requires'[stack'[top].feature]
        /\ requires'[stack'[top].feature] \ stack'[top].left \subseteq After(top)
    BY <1>1, <1>2, <1>6
  <2>3. ASSUME NEW m \in 1..top, NEW n \in 1..top, stack'[m].feature = stack'[n].feature
        PROVE  m = n
    <3>1. stack'[top].feature = f
      BY <1>6
    <3>2. m = top <=> n = top
      BY <1>7, <1>8, <2>3, <3>1
    <3>3. CASE m # top /\ n # top
      BY <1>7, <1>8, <2>3, <3>3 DEF GraphInv, StackInv
    <3> QED BY <3>2, <3>3
  <2>4. \A n \in 1..top :
          /\ stack'[n].feature \notin visited'
          /\ stack'[n].left \subseteq requires'[stack'[n].feature]
          /\ requires'[stack'[n].feature] \ stack'[n].left \subseteq After(n)
    BY <1>8, <2>1, <2>2
  <2>5. \A n \in 1..top :
          n < Len(stack') => stack'[n + 1].feature \in requires'[stack'[n].feature]
    BY <1>6, <1>8, <2>1, Frames DEF GraphInv
  <2> QED BY <1>2, <1>6, <2>3, <2>4, <2>5 DEF StackInv, Handled
<1>11. VisitedInv' /\ OrderInv' /\ PhaseInv'
  <2>1. VisitedInv'
    BY <1>2 DEF GraphInv, VisitedInv, CyclicSet
  <2>2. OrderInv'
    <3>1. DependenciesFirst'
      BY <1>2 DEF GraphInv, OrderInv, DependenciesFirst
    <3>2. Elements(order)' = Elements(order)
      BY <1>2 DEF Elements
    <3> QED BY <1>2, <3>1, <3>2 DEF GraphInv, OrderInv
  <2>3. PhaseInv'
    BY <1>2, <1>3 DEF GraphInv, PhaseInv, HasCycle
  <2> QED BY <2>1, <2>2, <2>3
<1>12. LoopInv'
  <2>1. stack # <<>> => stack'[1].feature = stack[1].feature
    BY <1>7, Frames DEF GraphInv
  <2>2. stack = <<>> => stack'[1].feature = f
    BY <1>6, Frames DEF GraphInv
  <2>3. stack' # <<>>
    BY <1>1, <1>5, WithoutOne, AppendProperties DEF GraphInv
  <2> QED BY <1>1, <1>2, <2>1, <2>2, <2>3 DEF GraphInv, LoopInv, Wanted
<1>13. NeededInv'
  <2>1. Visiting' = Visiting \union {f}
    BY <1>6, <1>7, <1>8, Frames DEF GraphInv, Visiting
  <2>2. ASSUME NEW S \in SUBSET Packages, Closed(S), phase = "resolving",
               visited \union Visiting \subseteq S
        PROVE  f \in S
    <3>1. CASE stack = <<>>
      BY <1>1, <2>2, <3>1, Caller DEF GraphInv, Wanted, Closed
    <3>2. CASE stack # <<>>
      <4>1. stack[Len(stack)].feature \in S /\ f \in requires[stack[Len(stack)].feature]
        BY <1>1, <2>2, <3>2, Caller DEF GraphInv, Visiting
      <4> QED BY <2>2, <4>1 DEF Closed
    <3> QED BY <3>1, <3>2
  <2> QED BY <1>2, <1>3, <2>1, <2>2 DEF GraphInv, NeededInv, Closed
<1> QED BY <1>9, <1>10, <1>11, <1>12, <1>13 DEF GraphInv

\* A set without a cycle stays one when a feature is added that needs nothing
\* but its members.
LEMMA AcyclicGrows ==
  ASSUME VisitedInv, NEW f, f \notin visited, requires[f] \subseteq visited,
         NEW S \in SUBSET (visited \union {f})
  PROVE  ~CyclicSet(S)
<1>1. SUFFICES ASSUME CyclicSet(S) PROVE FALSE
  OBVIOUS
<1>2. CASE S \intersect visited = {}
  <2>1. f \in S /\ S = {f}
    BY <1>1, <1>2 DEF CyclicSet
  <2>2. requires[f] \intersect S # {}
    BY <1>1, <2>1 DEF CyclicSet
  <2> QED BY <2>1, <2>2
<1>3. CASE S \intersect visited # {}
  <2> DEFINE T == S \intersect visited
  <2>1. PICK g \in T : requires[g] \intersect T = {}
    BY <1>3 DEF VisitedInv, CyclicSet
  <2>2. requires[g] \subseteq visited
    BY <2>1 DEF VisitedInv
  <2>3. requires[g] \intersect S # {}
    BY <1>1, <2>1 DEF CyclicSet
  <2> QED BY <2>1, <2>2, <2>3
<1> QED BY <1>2, <1>3

LEMMA LeaveKeeps == ASSUME GraphInv, Leave PROVE GraphInv'
<1> DEFINE last == Len(stack)
           f == stack[last].feature
<1>1. /\ phase \in {"validating", "resolving"} /\ stack # <<>> /\ stack[last].left = {}
      /\ stack' = SubSeq(stack, 1, last - 1) /\ visited' = visited \union {f}
      /\ order' = IF phase = "resolving" THEN Append(order, f) ELSE order
      /\ UNCHANGED <<requires, requested, phase, todo>>
  BY DEF Leave, Running, Top
<1>2. last \in Nat \ {0} /\ last \in 1..last /\ \A n \in 1..last : stack[n] \in Frame
  BY <1>1, Frames DEF GraphInv
<1>3. f \in Packages /\ f \notin visited
  BY <1>2 DEF GraphInv, Frame, StackInv
<1>4. requires[f] \subseteq visited
  BY <1>1, <1>2 DEF GraphInv, StackInv, Handled
<1>5. \A n \in 1..last - 1 : stack[n] \in Frame
  BY <1>2
<1>6. /\ stack' \in Seq(Frame) /\ Len(stack') = last - 1
      /\ \A n \in 1..last - 1 : stack'[n] = stack[n]
  <2>1. /\ SubSeq(stack, 1, last - 1) \in Seq(Frame)
        /\ Len(SubSeq(stack, 1, last - 1)) =
             IF 1 <= last - 1 THEN (last - 1) - 1 + 1 ELSE 0
        /\ \A n \in 1..(last - 1) - 1 + 1 : SubSeq(stack, 1, last - 1)[n] = stack[1 + n - 1]
    BY <1>2, <1>5, SubSeqProperties
  <2>2. /\ (IF 1 <= last - 1 THEN (last - 1) - 1 + 1 ELSE 0) = last - 1
        /\ (last - 1) - 1 + 1 = last - 1 /\ \A n \in 1..last - 1 : 1 + n - 1 = n
    <3>1. last \in Nat \ {0}
      BY <1>2
    <3> HIDE DEF last
    <3> QED BY <3>1
  <2> QED BY <1>1, <2>1, <2>2
<1>7. TypeInv'
  BY <1>1, <1>3, <1>6 DEF GraphInv, TypeInv
<1>8. StackInv'
  <2> DEFINE After(n) ==
        visited \union {f} \union (IF n < last - 1 THEN {stack[n + 1].feature} ELSE {})
  <2>1. ASSUME NEW n \in 1..last - 1
        PROVE  /\ n \in 1..last /\ n < last /\ n # last
               /\ n < last - 1 => n + 1 \in 1..last - 1
               /\ n < last - 1 \/ n + 1 = last
    BY <1>2
  <2>2. ASSUME NEW n \in 1..last - 1 PROVE Handled(n) \subseteq After(n)
    BY <2>1 DEF Handled
  <2>3. \A n \in 1..last - 1 :
          /\ stack'[n].feature \notin visited'
          /\ stack'[n].left \subseteq requires'[stack'[n].feature]
          /\ requires'[stack'[n].feature] \ stack'[n].left \subseteq After(n)
    BY <1>1, <1>2, <1>6, <2>1, <2>2 DEF GraphInv, StackInv
  <2>4. \A n \in 1..last - 1 :
          /\ n < last - 1 => stack'[n + 1].feature \in requires'[stack'[n].feature]
          /\ \A m \in 1..last - 1 : stack'[m].feature = stack'[n].feature => m = n
    BY <1>1, <1>6, <2>1 DEF GraphInv, StackInv
  <2>5. \A n \in 1..last - 1 :
          After(n) = visited' \union (IF n < Len(stack') THEN {stack'[n + 1].feature} ELSE {})
    BY <1>1, <1>6, <2>1
  <2> QED BY <1>6, <2>3, <2>4, <2>5 DEF StackInv, Handled
<1>9. VisitedInv'
  BY <1>1, <1>3, <1>4, AcyclicGrows DEF GraphInv, VisitedInv, CyclicSet
<1>10. LoopInv'
  <2>1. stack[1].feature = f \/ (stack' # <<>> /\ stack'[1].feature = stack[1].feature)
    BY <1>2, <1>6
  <2> QED BY <1>1, <2>1 DEF GraphInv, LoopInv, Wanted
<1>11. PhaseInv'
  BY <1>1 DEF GraphInv, PhaseInv, HasCycle
<1>12. OrderInv'
  <2>1. CASE phase = "validating"
    BY <1>1, <2>1 DEF GraphInv, OrderInv, DependenciesFirst
  <2>2. CASE phase = "resolving"
    <3> DEFINE end == Len(order) + 1
    <3>1. /\ Len(order) \in Nat /\ Len(order') = end /\ order'[end] = f
          /\ \A n \in 1..Len(order) : order'[n] = order[n]
      BY <1>1, <1>3, <2>2, AppendProperties DEF GraphInv, TypeInv
    <3>2. \A n \in 1..end : n = end \/ n \in 1..Len(order)
      BY <3>1
    <3>3. Elements(order) = visited
      BY <2>2 DEF GraphInv, OrderInv
    <3>4. Elements(order') = visited'
      BY <1>1, <3>1, <3>2, <3>3 DEF Elements
    <3>5. ASSUME NEW n \in 1..end, NEW g \in requires[order'[n]]
          PROVE  \E j \in 1..n - 1 : order'[j] = g
      <4>1. CASE n = end
        BY <1>4, <3>1, <3>3, <3>5, <4>1 DEF Elements
      <4>2. CASE n \in 1..Len(order)
        <5>1. PICK j \in 1..n - 1 : order[j] = g
          BY <3>1, <3>5, <4>2 DEF GraphInv, OrderInv, DependenciesFirst
        <5>2. j \in 1..Len(order)
          BY <3>1, <4>2, <5>1
        <5> QED BY <3>1, <5>1, <5>2
      <4> QED BY <3>2, <4>1, <4>2
    <3>6. ASSUME NEW n \in 1..end, NEW j \in 1..end, order'[n] = order'[j] PROVE n = j
      <4>1. \A l \in 1..Len(order) : order'[l] # f
        BY <1>3, <3>1, <3>3 DEF Elements
      <4>2. n = end <=> j = end
        BY <3>1, <3>2, <3>6, <4>1
      <4>3. CASE n # end /\ j # end
        BY <3>1, <3>2, <3>6, <4>3 DEF GraphInv, OrderInv, DependenciesFirst
      <4> QED BY <4>2, <4>3
    <3>7. \A n \in 1..end : \A g \in requires[order'[n]] : \E j \in 1..n - 1 : order'[j] = g
      BY <3>5
    <3>8. DependenciesFirst'
      <4>1. requires' = requires /\ Len(order') = end
        BY <1>1, <3>1
      <4>2. \A n, j \in 1..end : order'[n] = order'[j] => n = j
        BY <3>6
      <4> HIDE DEF end
      <4> QED BY <3>7, <4>1, <4>2 DEF DependenciesFirst
    <3> QED BY <1>1, <2>2, <3>4, <3>8 DEF OrderInv
  <2> QED BY <1>1, <2>1, <2>2
<1>13. NeededInv'
  <2>1. f \in Visiting /\ Visiting' \subseteq Visiting
    BY <1>2, <1>6 DEF Visiting
  <2> QED BY <1>1, <2>1 DEF GraphInv, NeededInv, Closed
<1> QED BY <1>7, <1>8, <1>9, <1>10, <1>11, <1>12, <1>13 DEF GraphInv

LEMMA AcceptKeeps == ASSUME GraphInv, Accept PROVE GraphInv'
<1>1. /\ phase = "validating" /\ stack = <<>> /\ todo = {} /\ phase' = "resolving"
      /\ todo' = requested /\ visited' = {}
      /\ UNCHANGED <<requires, requested, stack, order>>
  BY DEF Accept
<1>2. ~HasCycle
  <2>1. Packages \subseteq visited
    BY <1>1 DEF GraphInv, LoopInv, Wanted
  <2> QED BY <2>1 DEF GraphInv, VisitedInv, CyclicSet, HasCycle
<1>3. order = <<>> /\ Elements(order) = {}
  BY <1>1 DEF GraphInv, OrderInv, Elements
<1>4. TypeInv' /\ StackInv' /\ LoopInv' /\ PhaseInv'
  BY <1>1, <1>2 DEF GraphInv, TypeInv, StackInv, LoopInv, Wanted, PhaseInv, HasCycle
<1>5. VisitedInv' /\ OrderInv' /\ NeededInv'
  BY <1>1, <1>3 DEF GraphInv, VisitedInv, CyclicSet, OrderInv, DependenciesFirst, Elements,
                    NeededInv, Visiting
<1> QED BY <1>4, <1>5 DEF GraphInv

LEMMA ResolveKeeps == ASSUME GraphInv, Resolve \/ UNCHANGED graphVars PROVE GraphInv'
<1>1. /\ UNCHANGED <<requires, requested, stack, todo, visited, order>>
      /\ \/ phase = "resolving" /\ phase' = "resolved" /\ stack = <<>> /\ todo = {}
         \/ phase' = phase
  BY DEF Resolve, graphVars
<1>2. TypeInv' /\ StackInv' /\ VisitedInv' /\ LoopInv' /\ PhaseInv'
  BY <1>1 DEF GraphInv, TypeInv, StackInv, Handled, VisitedInv, CyclicSet, LoopInv, Wanted,
              PhaseInv, HasCycle
<1>3. OrderInv' /\ NeededInv'
  BY <1>1 DEF GraphInv, OrderInv, DependenciesFirst, Elements, NeededInv, Closed, Visiting
<1> QED BY <1>2, <1>3 DEF GraphInv

LEMMA GraphSpecKeepsInv == GraphSpec => []GraphInv
<1>1. ASSUME GraphInv, [GraphNext]_graphVars PROVE GraphInv'
  BY <1>1, FindCycleKeeps, SkipKeeps, EnterKeeps, LeaveKeeps, AcceptKeeps, ResolveKeeps
  DEF GraphNext
<1> QED BY GraphInitIsInv, <1>1, PTL DEF GraphSpec
-----------------------------------------------------------------------------
(***************************************************************************)
(* _validate_feature_graph rejects a catalog only if its requirements have *)
(* a cycle, and accepts it only if they have none.                         *)
(***************************************************************************)
THEOREM CyclesAreRejected == GraphSpec => []RejectsExactlyCycles
<1>1. ASSUME GraphInv PROVE RejectsExactlyCycles
  BY <1>1 DEF GraphInv, PhaseInv, RejectsExactlyCycles
<1> QED BY <1>1, GraphSpecKeepsInv, PTL

(***************************************************************************)
(* _resolve_feature_dependencies puts every feature after all it requires, *)
(* and none twice.                                                         *)
(***************************************************************************)
THEOREM DependenciesComeFirst == GraphSpec => []DependenciesFirst
<1>1. ASSUME GraphInv PROVE DependenciesFirst
  BY <1>1 DEF GraphInv, OrderInv
<1> QED BY <1>1, GraphSpecKeepsInv, PTL

(***************************************************************************)
(* Its result has every feature after all it requires, and is the smallest *)
(* set that has the requested features and all that its members require.   *)
(***************************************************************************)
THEOREM ClosureIsResolved == GraphSpec => []GraphIsResolved
<1>1. ASSUME GraphInv, phase = "resolved"
      PROVE  /\ Closed(Elements(order))
             /\ \A S \in SUBSET Packages : Closed(S) => Elements(order) \subseteq S
  <2>1. Elements(order) = visited
    BY <1>1 DEF GraphInv, OrderInv
  <2>2. Closed(visited)
    BY <1>1 DEF GraphInv, PhaseInv, LoopInv, Wanted, VisitedInv, Closed
  <2>3. \A S \in SUBSET Packages : Closed(S) => visited \subseteq S
    BY <1>1 DEF GraphInv, NeededInv
  <2> QED BY <2>1, <2>2, <2>3
<1>2. ASSUME GraphInv PROVE ResolvesClosure
  BY <1>1, <1>2 DEF ResolvesClosure
<1>3. GraphInv => GraphIsResolved
  BY <1>2 DEF GraphInv, OrderInv, GraphIsResolved
<1> QED BY <1>3, GraphSpecKeepsInv, PTL
-----------------------------------------------------------------------------
(***************************************************************************)
(* The invariant.  The places of a plan, from the last ones to the first,  *)
(* and what is known from each of them on; Reached: pc is one of the       *)
(* places, or the plan is done (and not because nothing was selected).     *)
(***************************************************************************)
Reached(places) == pc \in places \/ (pc = "planned" /\ Chosen)

FromInspect == {"inspect"}
FromBuild == {"build", "files"} \union FromInspect
FromAssemble == {"assemble"} \union FromBuild
FromOffline == {"offline", "variants"} \union FromAssemble
FromPatches == {"patches"} \union FromOffline
FromPublic == {"public"} \union FromPatches
FromConflicts == {"conflicts"} \union FromPublic
FromExcluded == {"excluded"} \union FromConflicts

InputInv ==
  /\ catalog \in Catalogs
  /\ selection.features \subseteq catalog.features
  /\ selection.public \union selection.withoutPublic \subseteq {r.id : r \in catalog.public}
  /\ pc \in {"selection", "dependencies", "planned", "refused"} \union FromExcluded
  /\ Chosen \/ pc \in {"selection", "planned", "refused"}

\* Nothing was selected, and nothing is planned.
EmptyInv == pc = "selection" \/ ~Chosen => ordered = {} /\ recipes = {}

\* What the features and public patches of the plan are.
SelectionInv ==
  /\ Reached(FromExcluded) => ordered = Needed(selection.features)
  /\ Reached(FromConflicts) => ordered \intersect selection.without = {}
  /\ Reached(FromPublic) => \A f, g \in ordered : ~InConflict(f, g)
  /\ Reached(FromPatches) =>
       resolved = selection.public \union UNION {catalog.patches[f] : f \in ordered}
  /\ Reached(FromOffline) => resolved \intersect selection.withoutPublic = {}

\* What was chosen so far is one variant of a component at most, and fits.
ChoiceInv ==
  /\ chosen \in Seq(SUBSET Recipes(catalog)) /\ earlier \subseteq Recipes(catalog)
  /\ Len(chosen) <= Len(catalog.components)
  /\ \A i \in 1 .. Len(chosen) :
       /\ chosen[i] \subseteq catalog.components[i].variants \intersect earlier
       /\ chosen[i] = {} \/ \E v \in chosen[i] : chosen[i] = {v}
  /\ Consistent(Base \union earlier)

PlanInv ==
  /\ Reached(FromAssemble) => Len(chosen) = Len(catalog.components)
  /\ Reached(FromBuild) =>
       /\ recipes = Resolved \union Hidden
       /\ \A i \in 1 .. Len(chosen) : Selected(i) => chosen[i] # {}
  /\ Reached(FromInspect) => \A t \in PayloadsOf(ordered) : Free(t)
  /\ Reached({}) => \A r \in recipes : Reconstructs(r.target, recipes)

Satisfiable == Chosen /\ image.applied = {} /\ ~Unsatisfiable

\* On an unpatched image the variants that were made for it are the ones that
\* fit, and nothing fails.
PristineInv ==
  Satisfiable =>
    /\ pc # "refused"
    /\ earlier \subseteq Made
    /\ \A i \in 1 .. Len(chosen) :
         chosen[i] = catalog.components[i].variants \intersect Made

IInv == InputInv /\ EmptyInv /\ SelectionInv /\ ChoiceInv /\ PlanInv /\ PristineInv
-----------------------------------------------------------------------------
\* The sums of a set of patches, and of a part of it.
LEMMA TotalOfSubset ==
  ASSUME NEW S, Sized(S), NEW T \in SUBSET S, NEW sum \in Sums
  PROVE  /\ Total(sum, S) \in Nat /\ Total(sum, T) \in Nat
         /\ Total(sum, T) <= Total(sum, S)
<1> DEFINE Of(r) == {r} \X (1 .. r.size[sum])
           P == [r \in S |-> Of(r)]
           R == {Of(r) : r \in S}
           All == UNION R
           Part == UNION {Of(r) : r \in T}
<1>1. ASSUME NEW r \in S PROVE IsFiniteSet(Of(r))
  <2> DEFINE I == 1 .. r.size[sum]
  <2>1. r.size[sum] \in Nat
    BY DEF Sized
  <2>2. IsFiniteSet(I)
    BY <2>1, FS_Interval
  <2>3. IsFiniteSet({r})
    BY FS_Singleton
  <2> HIDE DEF I
  <2> QED BY <2>2, <2>3, FS_Product DEF I
<1>2. P \in Surjection(S, R)
  <2> HIDE DEF Of
  <2> QED BY DEF Surjection
<1>3. IsFiniteSet(R)
  <2> HIDE DEF P, R
  <2> QED BY <1>2, FS_Surjection DEF Sized
<1>4. IsFiniteSet(All)
  <2>1. \A U \in R : IsFiniteSet(U)
    BY <1>1
  <2> HIDE DEF R
  <2> QED BY <1>3, <2>1, FS_UNION
<1>5. Part \in SUBSET All
  <2> HIDE DEF Of
  <2> QED OBVIOUS
<1>6. Total(sum, S) = Cardinality(All) /\ Total(sum, T) = Cardinality(Part)
  BY DEF Total
<1> HIDE DEF All, Part
<1>7. IsFiniteSet(Part) /\ Cardinality(Part) <= Cardinality(All)
  BY <1>4, <1>5, FS_Subset
<1> QED BY <1>4, <1>6, <1>7, FS_CardinalityType

LEMMA BoundedSubset ==
  ASSUME NEW S, Sized(S), Bounded(S), NEW T \in SUBSET S PROVE Bounded(T)
BY TotalOfSubset, LimitsAssumption DEF Bounded

LEMMA ConsistentSubset ==
  ASSUME NEW S, Sized(S), Consistent(S), NEW T \in SUBSET S PROVE Consistent(T)
BY BoundedSubset DEF Consistent, Pairwise, Agreement

LEMMA SizedSubset == ASSUME NEW S, Sized(S), NEW T \in SUBSET S PROVE Sized(T)
BY FS_Subset DEF Sized

LEMMA CatalogIsSound ==
  ASSUME InputInv
  PROVE  /\ catalog.features \subseteq Features
         /\ Len(catalog.components) \in Nat
         /\ SoundCatalog(catalog) /\ Sized(Recipes(catalog))
BY CatalogsAssumption DEF InputInv

\* What is needed is a set of features that is closed.
LEMMA NeededIsClosed ==
  ASSUME InputInv, NEW S, S \subseteq catalog.features
  PROVE  /\ S \subseteq Needed(S)
         /\ Needed(S) \subseteq catalog.features
         /\ \A f \in Needed(S) : catalog.requires[f] \subseteq Needed(S)
<1>1. \A f \in catalog.features : catalog.requires[f] \subseteq catalog.features
  BY CatalogIsSound DEF SoundCatalog, Resolvable
<1>2. S \subseteq Needed(S)
  BY CatalogIsSound DEF Needed
<1>3. Needed(S) \subseteq catalog.features
  BY <1>1, CatalogIsSound DEF Needed
<1>4. ASSUME NEW f \in Needed(S), NEW g \in catalog.requires[f] PROVE g \in Needed(S)
  <2>1. g \in Features
    BY <1>1, <1>3, CatalogIsSound
  <2>2. ASSUME NEW T \in SUBSET Features, S \subseteq T,
               \A h \in T \intersect catalog.features : catalog.requires[h] \subseteq T
        PROVE  g \in T
    <3>1. f \in T
      BY <2>2 DEF Needed
    <3> QED BY <2>2, <3>1, <1>3
  <2> QED BY <2>1, <2>2 DEF Needed
<1> QED BY <1>2, <1>3, <1>4

\* A component has one variant that is the only one to fit, or none.
LEMMA UniqueIsOne ==
  ASSUME NEW c
  PROVE  /\ Unique(c) \subseteq c.variants
         /\ Unique(c) = {} \/ \E v \in Unique(c) : Unique(c) = {v} /\ Fits(v)
<1> DEFINE fitting == {w \in c.variants : Fits(w)}
<1>1. Unique(c) = {v \in c.variants : fitting = {v}}
  BY DEF Unique
<1>2. ASSUME NEW v \in Unique(c) PROVE Unique(c) = {v} /\ Fits(v)
  <2>1. fitting = {v}
    BY <1>1
  <2>2. \A u \in Unique(c) : fitting = {u}
    BY <1>1
  <2>3. v \in fitting
    BY <2>1
  <2> QED BY <2>1, <2>2, <2>3
<1> QED BY <1>1, <1>2

LEMMA UniqueIsConsistent ==
  ASSUME NEW c, Consistent(Base \union earlier)
  PROVE  Consistent(Base \union (earlier \union Unique(c)))
<1>1. CASE Unique(c) = {}
  BY <1>1
<1>2. ASSUME NEW v \in Unique(c), Unique(c) = {v}, Fits(v)
      PROVE  Consistent(Base \union (earlier \union Unique(c)))
  <2>1. Consistent(Base \union earlier \union {v})
    BY <1>2 DEF Fits
  <2>2. Base \union earlier \union {v} = Base \union (earlier \union Unique(c))
    BY <1>2
  <2> QED BY <2>1, <2>2
<1> QED BY <1>1, <1>2, UniqueIsOne

\* On an unpatched image, as long as all that was chosen was made for it, a
\* variant fits exactly if it was made for it too.
LEMMA MadeFits ==
  ASSUME InputInv, image.applied = {}, Consistent(Made), Base \subseteq Made,
         earlier \subseteq Made, NEW v \in Recipes(catalog)
  PROVE  Fits(v) <=> v \in Made
<1> DEFINE trial == Base \union earlier \union {v}
<1>1. ASSUME v \in Made PROVE Fits(v)
  <2>1. trial \subseteq Made
    BY <1>1
  <2>2. Sized(Made)
    BY CatalogIsSound, SizedSubset DEF Made
  <2>3. Consistent(trial)
    BY <2>1, <2>2, ConsistentSubset
  <2>4. Reconstructs(v.target, trial)
    BY <2>1 DEF Reconstructs, Made
  <2> QED BY <2>3, <2>4 DEF Fits
<1>2. ASSUME Fits(v) PROVE v \in Made
  <2>1. Reconstructs(v.target, trial)
    BY <1>2 DEF Fits
  <2> QED BY <2>1 DEF Reconstructs, Made
<1> QED BY <1>1, <1>2

LEMMA UniqueIsMade ==
  ASSUME InputInv, Satisfiable, earlier \subseteq Made,
         NEW i \in 1 .. Len(catalog.components)
  PROVE  Unique(catalog.components[i]) = catalog.components[i].variants \intersect Made
<1> DEFINE variants == catalog.components[i].variants
<1>1. variants \subseteq Recipes(catalog)
  BY DEF Recipes
<1>2. image.applied = {} /\ Consistent(Made) /\ Base \subseteq Made
  BY DEF Satisfiable, Unsatisfiable
<1>3. PICK v \in Made : variants \intersect Made = {v}
  BY DEF Satisfiable, Unsatisfiable
<1>4. {u \in variants : Fits(u)} = variants \intersect Made
  BY <1>1, <1>2, MadeFits
<1>5. Unique(catalog.components[i]) = {u \in variants : {v} = {u}}
  BY <1>3, <1>4 DEF Unique
<1> QED BY <1>3, <1>5
-----------------------------------------------------------------------------
LEMMA HiddenIsChosen ==
  ASSUME InputInv, ChoiceInv, ordered \subseteq catalog.features
  PROVE  Resolved \union Hidden \subseteq Base \union earlier
<1>1. Hidden \subseteq Fixed(catalog) \union earlier
  BY DEF Hidden, Fixed, ChoiceInv
<1> QED BY <1>1 DEF Resolved, Base

LEMMA OrderedAreFeatures ==
  ASSUME InputInv, EmptyInv, SelectionInv, Reached(FromExcluded) \/ ~Chosen
  PROVE  ordered \subseteq catalog.features
BY NeededIsClosed DEF InputInv, EmptyInv, SelectionInv

LEMMA InitIsInv == ASSUME Init PROVE IInv
<1>1. InputInv /\ EmptyInv /\ SelectionInv /\ PlanInv
  BY DEF Init, InputInv, EmptyInv, SelectionInv, PlanInv, Reached, Chosen, FromExcluded,
         FromConflicts, FromPublic, FromPatches, FromOffline, FromAssemble, FromBuild,
         FromInspect
<1>2. ChoiceInv
  <2>1. chosen = <<>> /\ earlier = {}
    BY DEF Init
  <2>2. Consistent(Base \union earlier)
    BY <1>1, <2>1, CatalogIsSound DEF SoundCatalog, Base
  <2> QED BY <1>1, <2>1, <2>2, CatalogIsSound DEF ChoiceInv
<1>3. PristineInv
  BY DEF Init, PristineInv
<1> QED BY <1>1, <1>2, <1>3 DEF IInv

\* What depends on the catalog, the image and the selection alone.
LEMMA InputsStay ==
  ASSUME UNCHANGED inputs
  PROVE  /\ (Chosen <=> Chosen')
         /\ (Satisfiable <=> Satisfiable')
         /\ Base = Base' /\ Made = Made'
         /\ Needed(selection.features) = Needed(selection.features)'
BY DEF inputs, Chosen, Satisfiable, Unsatisfiable, Base, Made, Needed, PayloadsOf, Free,
       InConflict

\* The choices are kept while no variant is chosen.
LEMMA ChoiceStays ==
  ASSUME IInv, UNCHANGED inputs, UNCHANGED <<chosen, earlier>>
  PROVE  /\ ChoiceInv'
         /\ pc' # "refused" => PristineInv'
<1>1. ChoiceInv'
  BY InputsStay DEF IInv, ChoiceInv, inputs, Recipes
<1>2. ASSUME pc' # "refused" PROVE PristineInv'
  BY <1>2, InputsStay DEF IInv, PristineInv, inputs
<1> QED BY <1>1, <1>2

\* An action that checks something and goes on, or refuses.
LEMMA CheckKeeps ==
  ASSUME IInv, UNCHANGED inputs, UNCHANGED <<ordered, resolved, chosen, earlier, recipes>>,
         \/ CheckSelection \/ SelectNothing \/ CheckExcluded \/ CheckConflicts
         \/ CheckPublic \/ CheckOffline \/ EndVariants \/ Build \/ PreflightFiles
         \/ Inspect,
         Satisfiable => pc' # "refused"
  PROVE  IInv'
<1> USE DEF Check, Reached, FromExcluded, FromConflicts, FromPublic,
            FromPatches, FromOffline, FromAssemble, FromBuild, FromInspect
<1>1. InputInv'
  BY DEF IInv, InputInv, inputs, Chosen, CheckSelection, SelectNothing, CheckExcluded,
         CheckConflicts, CheckPublic, CheckOffline, EndVariants, Build, PreflightFiles, Inspect
<1>2. EmptyInv'
  BY DEF IInv, EmptyInv, inputs, Chosen, CheckSelection, SelectNothing, CheckExcluded,
         CheckConflicts, CheckPublic, CheckOffline, EndVariants, Build, PreflightFiles, Inspect
<1>3. SelectionInv'
  BY InputsStay
  DEF IInv, SelectionInv, inputs, InConflict, CheckSelection, SelectNothing, CheckExcluded,
         CheckConflicts, CheckPublic, CheckOffline, EndVariants, Build, PreflightFiles, Inspect
<1>4. PlanInv'
  BY InputsStay DEF IInv, PlanInv, inputs, Resolved, Hidden, Selected, PayloadsOf, Free,
         Reconstructs, CheckSelection, SelectNothing, CheckExcluded,
         CheckConflicts, CheckPublic, CheckOffline, EndVariants, Build, PreflightFiles, Inspect
<1>5. ChoiceInv' /\ PristineInv'
  BY ChoiceStays, InputsStay DEF PristineInv
<1> QED BY <1>1, <1>2, <1>3, <1>4, <1>5 DEF IInv

\* What is planned is among the patches that were found to go together.
LEMMA PlanIsConsistent ==
  ASSUME IInv, Reached(FromBuild)
  PROVE  recipes \subseteq Base \union earlier /\ Consistent(recipes)
<1>1. Reached(FromExcluded)
  BY DEF Reached, FromExcluded, FromConflicts, FromPublic, FromPatches, FromOffline,
         FromAssemble
<1>2. ordered \subseteq catalog.features
  BY <1>1, OrderedAreFeatures DEF IInv
<1>3. recipes \subseteq Base \union earlier
  BY <1>2, HiddenIsChosen DEF IInv, PlanInv
<1>4. Base \union earlier \in SUBSET Recipes(catalog)
  BY DEF IInv, ChoiceInv, Base, Recipes
<1>5. Sized(Base \union earlier)
  BY <1>4, CatalogIsSound, SizedSubset DEF IInv
<1> QED BY <1>3, <1>5, ConsistentSubset DEF IInv, ChoiceInv

\* No check fails for a selection that can be satisfied.
LEMMA SatisfiableIsNotRefused ==
  ASSUME IInv, Next, Satisfiable
  PROVE  pc' # "refused"
<1> USE DEF Check, Reached, FromExcluded, FromConflicts, FromPublic,
            FromPatches, FromOffline, FromAssemble, FromBuild, FromInspect
<1> DEFINE all == Needed(selection.features)
<1>1. pc # "refused" /\ Chosen
  BY DEF IInv, PristineInv, Satisfiable
<1>2. /\ selection.features \subseteq all
      /\ pc \in FromExcluded => ordered = all
  BY NeededIsClosed DEF IInv, InputInv, SelectionInv
<1>3. CASE CheckSelection
  BY <1>1, <1>2, <1>3 DEF CheckSelection, Satisfiable, Unsatisfiable
<1>4. CASE CheckExcluded
  BY <1>1, <1>2, <1>4 DEF CheckExcluded, Satisfiable, Unsatisfiable
<1>5. CASE CheckConflicts
  BY <1>1, <1>2, <1>5 DEF CheckConflicts, Satisfiable, Unsatisfiable
<1>6. CASE CheckPublic
  <2>1. resolved = selection.public \union UNION {catalog.patches[f] : f \in all}
    BY <1>2, <1>6 DEF CheckPublic, IInv, SelectionInv
  <2> QED BY <1>6, <2>1 DEF CheckPublic, Satisfiable, Unsatisfiable
<1>7. CASE CheckOffline
  BY <1>1, <1>2, <1>7 DEF CheckOffline, Satisfiable, Unsatisfiable
<1>8. CASE Assemble
  <2>1. Len(chosen) = Len(catalog.components)
    BY <1>8 DEF Assemble, IInv, PlanInv
  <2>2. ASSUME NEW i \in 1 .. Len(chosen) PROVE chosen[i] # {}
    <3>1. chosen[i] = catalog.components[i].variants \intersect Made
      BY DEF IInv, PristineInv
    <3>2. \E v \in Made : catalog.components[i].variants \intersect Made = {v}
      BY <2>1 DEF Satisfiable, Unsatisfiable
    <3> QED BY <3>1, <3>2
  <2> QED BY <1>8, <2>2 DEF Assemble
<1>9. CASE Build
  BY <1>9, PlanIsConsistent DEF Build
<1>10. CASE PreflightFiles
  BY <1>1, <1>2, <1>10 DEF PreflightFiles, Satisfiable, Unsatisfiable
<1>11. CASE Inspect
  <2>1. recipes \subseteq Made
    BY <1>11, PlanIsConsistent DEF Inspect, IInv, PristineInv, Satisfiable, Unsatisfiable
  <2>2. \A r \in recipes : Reconstructs(r.target, recipes)
    BY <2>1 DEF Reconstructs, Made, Satisfiable
  <2> QED BY <1>11, <2>2 DEF Inspect
<1>12. CASE SelectNothing
  BY <1>1, <1>12 DEF SelectNothing
<1>13. CASE ResolveDependencies \/ ResolvePublic \/ ResolveVariant \/ EndVariants
  BY <1>1, <1>13 DEF ResolveDependencies, ResolvePublic, ResolveVariant, EndVariants
<1> QED BY <1>3, <1>4, <1>5, <1>6, <1>7, <1>8, <1>9, <1>10, <1>11, <1>12, <1>13 DEF Next

LEMMA DependenciesKeep == ASSUME IInv, ResolveDependencies PROVE IInv'
<1> USE DEF Reached, FromExcluded, FromConflicts, FromPublic,
            FromPatches, FromOffline, FromAssemble, FromBuild, FromInspect
<1>1. InputInv' /\ EmptyInv' /\ SelectionInv' /\ PlanInv'
  BY InputsStay DEF IInv, InputInv, EmptyInv, SelectionInv, PlanInv, Chosen, inputs,
                    ResolveDependencies
<1>2. ChoiceInv' /\ PristineInv'
  BY ChoiceStays DEF ResolveDependencies
<1> QED BY <1>1, <1>2 DEF IInv

LEMMA PublicKeeps == ASSUME IInv, ResolvePublic PROVE IInv'
<1> USE DEF Reached, FromExcluded, FromConflicts, FromPublic,
            FromPatches, FromOffline, FromAssemble, FromBuild, FromInspect
<1>1. InputInv' /\ EmptyInv' /\ PlanInv'
  BY DEF IInv, InputInv, EmptyInv, PlanInv, Chosen, inputs, ResolvePublic
<1>2. SelectionInv'
  BY InputsStay DEF IInv, SelectionInv, InConflict, inputs, ResolvePublic
<1>3. ChoiceInv' /\ PristineInv'
  BY ChoiceStays DEF ResolvePublic
<1> QED BY <1>1, <1>2, <1>3 DEF IInv

LEMMA AssembleKeeps ==
  ASSUME IInv, Assemble, Satisfiable => pc' # "refused" PROVE IInv'
<1> USE DEF Check, Reached, FromExcluded, FromConflicts, FromPublic,
            FromPatches, FromOffline, FromAssemble, FromBuild, FromInspect
<1>1. UNCHANGED <<inputs, ordered, resolved, chosen, earlier>>
  BY DEF Assemble
<1>2. InputInv' /\ EmptyInv'
  BY <1>1 DEF IInv, InputInv, EmptyInv, Chosen, inputs, Assemble
<1>3. SelectionInv'
  BY <1>1, InputsStay DEF IInv, SelectionInv, InConflict, inputs, Assemble
<1>4. PlanInv'
  BY <1>1 DEF IInv, PlanInv, Resolved, Hidden, Selected, inputs, Assemble
<1>5. ChoiceInv' /\ PristineInv'
  BY <1>1, ChoiceStays, InputsStay DEF PristineInv
<1> QED BY <1>2, <1>3, <1>4, <1>5 DEF IInv

LEMMA VariantKeeps == ASSUME IInv, ResolveVariant PROVE IInv'
<1> DEFINE i == Len(chosen) + 1
           one == Unique(catalog.components[i])
<1> USE DEF Reached, FromExcluded, FromConflicts, FromPublic,
            FromPatches, FromOffline, FromAssemble, FromBuild, FromInspect
<1>1. /\ UNCHANGED <<inputs, pc, ordered, resolved, recipes>>
      /\ chosen' = Append(chosen, one) /\ earlier' = earlier \union one
      /\ pc = "variants" /\ Len(chosen) < Len(catalog.components)
  BY DEF ResolveVariant
<1>2. Len(chosen) \in Nat /\ i \in 1 .. Len(catalog.components)
  BY <1>1, CatalogIsSound DEF IInv, ChoiceInv
<1>3. /\ one \subseteq catalog.components[i].variants
      /\ one = {} \/ \E v \in one : one = {v}
  BY UniqueIsOne
<1>4. one \in SUBSET Recipes(catalog)
  BY <1>2, <1>3 DEF Recipes
<1>5. /\ chosen' \in Seq(SUBSET Recipes(catalog)) /\ Len(chosen') = i
      /\ \A j \in 1 .. i : chosen'[j] = IF j = i THEN one ELSE chosen[j]
  BY <1>1, <1>2, <1>4 DEF IInv, ChoiceInv
<1>6. InputInv' /\ EmptyInv' /\ PlanInv'
  BY <1>1 DEF IInv, InputInv, EmptyInv, PlanInv, Chosen, inputs
<1>7. SelectionInv'
  BY <1>1, InputsStay DEF IInv, SelectionInv, InConflict, inputs
<1>8. ChoiceInv'
  <2>1. Consistent(Base \union earlier)'
    BY <1>1, UniqueIsConsistent, InputsStay
    DEF IInv, ChoiceInv, Consistent, Pairwise, Bounded, Total
  <2>2. \A j \in 1 .. i :
          /\ chosen'[j] \subseteq catalog.components[j].variants \intersect earlier'
          /\ chosen'[j] = {} \/ \E v \in chosen'[j] : chosen'[j] = {v}
    BY <1>1, <1>2, <1>3, <1>5 DEF IInv, ChoiceInv
  <2>3. catalog' = catalog
    BY <1>1 DEF inputs
  <2>4. earlier' \subseteq Recipes(catalog)
    BY <1>1, <1>4 DEF IInv, ChoiceInv
  <2>5. Recipes(catalog') = Recipes(catalog)
    BY <2>3
  <2> QED BY <1>2, <1>5, <2>1, <2>2, <2>3, <2>4, <2>5 DEF ChoiceInv
<1>9. PristineInv'
  <2>1. ASSUME Satisfiable
        PROVE  /\ one = catalog.components[i].variants \intersect Made
               /\ earlier \subseteq Made
    BY <1>2, <2>1, UniqueIsMade DEF IInv, PristineInv
  <2>2. ASSUME Satisfiable, NEW j \in 1 .. i
        PROVE  chosen'[j] = catalog.components[j].variants \intersect Made
    BY <1>2, <1>5, <2>1, <2>2 DEF IInv, PristineInv
  <2> QED BY <1>1, <1>5, <2>1, <2>2, InputsStay DEF PristineInv, inputs
<1> QED BY <1>6, <1>7, <1>8, <1>9 DEF IInv

LEMMA NextKeepsInv == ASSUME IInv, [Next]_vars PROVE IInv'
<1>1. CASE UNCHANGED vars
  <2>1. UNCHANGED inputs /\ UNCHANGED <<pc, ordered, resolved, chosen, earlier, recipes>>
    BY <1>1 DEF vars
  <2>2. ChoiceInv' /\ PristineInv'
    BY <2>1, ChoiceStays, InputsStay DEF IInv, PristineInv
  <2>3. InputInv' /\ EmptyInv'
    BY <2>1 DEF IInv, InputInv, EmptyInv, Chosen, inputs
  <2>4. SelectionInv'
    BY <2>1, InputsStay DEF IInv, SelectionInv, Reached, InConflict, inputs
  <2>5. PlanInv'
    BY <2>1, InputsStay DEF IInv, PlanInv, Reached, Resolved, Hidden, Selected, PayloadsOf,
                            Free, Reconstructs, inputs
  <2> QED BY <2>2, <2>3, <2>4, <2>5 DEF IInv
<1>2. CASE Next
  <2>1. Satisfiable => pc' # "refused"
    BY <1>2, SatisfiableIsNotRefused
  <2>2. CASE ResolveDependencies
    BY <2>2, DependenciesKeep
  <2>3. CASE ResolvePublic
    BY <2>3, PublicKeeps
  <2>4. CASE ResolveVariant
    BY <2>4, VariantKeeps
  <2>5. CASE Assemble
    BY <2>1, <2>5, AssembleKeeps
  <2>6. CASE \/ CheckSelection \/ SelectNothing \/ CheckExcluded \/ CheckConflicts
             \/ CheckPublic \/ CheckOffline \/ EndVariants \/ Build
             \/ PreflightFiles \/ Inspect
    <3>1. UNCHANGED inputs /\ UNCHANGED <<ordered, resolved, chosen, earlier, recipes>>
      BY <2>6 DEF CheckSelection, SelectNothing, CheckExcluded, CheckConflicts, CheckPublic,
                  CheckOffline, EndVariants, Build, PreflightFiles, Inspect
    <3> QED BY <2>1, <2>6, <3>1, CheckKeeps
  <2> QED BY <1>2, <2>2, <2>3, <2>4, <2>5, <2>6 DEF Next
<1> QED BY <1>1, <1>2

LEMMA SpecKeepsInv == Spec => []IInv
BY InitIsInv, NextKeepsInv, PTL DEF Spec
-----------------------------------------------------------------------------
(***************************************************************************)
(* The recipes that plan_feature_install collects never overlap or         *)
(* disagree: its own check for that cannot fail.                           *)
(***************************************************************************)
THEOREM BuildNeverFails == Spec => []BuildCannotFail
<1>1. ASSUME IInv PROVE BuildCannotFail
  BY <1>1, PlanIsConsistent DEF BuildCannotFail, Reached, FromBuild
<1> QED BY <1>1, SpecKeepsInv, PTL

(***************************************************************************)
(* An unpatched image is only refused if the selection cannot be           *)
(* satisfied on it.                                                        *)
(***************************************************************************)
THEOREM PristineImageIsPlanned == Spec => []PristineIsPlanned
<1>1. ASSUME IInv PROVE PristineIsPlanned
  BY <1>1 DEF PristineIsPlanned, IInv, PristineInv, Satisfiable
<1> QED BY <1>1, SpecKeepsInv, PTL

\* What is known of a plan that is done.
LEMMA Planned ==
  ASSUME IInv, pc = "planned", Chosen
  PROVE  /\ ordered = Needed(selection.features) /\ ordered \subseteq catalog.features
         /\ resolved = selection.public \union UNION {catalog.patches[f] : f \in ordered}
         /\ recipes = Resolved \union Hidden
         /\ Len(chosen) = Len(catalog.components)
         /\ \A r \in recipes : Reconstructs(r.target, recipes)
<1>1. \A places : Reached(places)
  BY DEF Reached
<1> QED BY <1>1, OrderedAreFeatures DEF IInv, SelectionInv, PlanInv

\* Its public patches are those that were resolved.
LEMMA PublicPatches ==
  ASSUME IInv, pc = "planned", Chosen
  PROVE  /\ resolved \subseteq {r.id : r \in recipes}
         /\ {r.id : r \in recipes} \intersect selection.withoutPublic = {}
<1> DEFINE publicIds == {r.id : r \in catalog.public}
<1>1. /\ ordered \subseteq catalog.features /\ recipes = Resolved \union Hidden
      /\ resolved = selection.public \union UNION {catalog.patches[f] : f \in ordered}
  BY Planned
<1>2. \A f \in ordered : catalog.patches[f] \subseteq publicIds
  BY <1>1, CatalogIsSound DEF IInv, SoundCatalog, Resolvable
<1>3. resolved \subseteq publicIds
  BY <1>1, <1>2 DEF IInv, InputInv
<1>4. ASSUME NEW r \in Hidden PROVE r.id \notin publicIds
  <2>1. r \in Fixed(catalog) \/ \E i \in 1 .. Len(catalog.components) :
                                   r \in catalog.components[i].variants
    BY <1>1, Planned DEF Hidden, Fixed, IInv, ChoiceInv
  <2>2. r \in Recipes(catalog) /\ r \notin catalog.public
    BY <2>1, CatalogIsSound DEF IInv, SoundCatalog, PatchesApart, Recipes
  <2>3. \A s \in catalog.public : s \in Recipes(catalog)
    BY DEF Recipes
  <2> QED BY <2>2, <2>3, CatalogIsSound DEF IInv, SoundCatalog, PatchesApart
<1>5. resolved \intersect selection.withoutPublic = {}
  BY DEF IInv, SelectionInv, Reached
<1> QED BY <1>1, <1>3, <1>4, <1>5 DEF IInv, InputInv, Resolved

\* The variants it has of a component are those that were chosen.
LEMMA TakenAreChosen ==
  ASSUME IInv, pc = "planned", Chosen, NEW i \in 1 .. Len(catalog.components)
  PROVE  catalog.components[i].variants \intersect recipes =
           IF Selected(i) THEN chosen[i] ELSE {}
<1> DEFINE variants(j) == catalog.components[j].variants
<1>1. /\ recipes = Resolved \union Hidden /\ Len(chosen) = Len(catalog.components)
      /\ ordered \subseteq catalog.features
  BY Planned
<1>2. \A j \in 1 .. Len(chosen) : chosen[j] \subseteq variants(j)
  BY DEF IInv, ChoiceInv
<1>3. ASSUME NEW r \in variants(i), r \in recipes PROVE Selected(i) /\ r \in chosen[i]
  <2>1. r \notin catalog.public /\ r \notin Fixed(catalog)
    BY <1>3, CatalogIsSound DEF IInv, SoundCatalog, PatchesApart
  <2>2. \A f \in ordered : r \notin catalog.fixed[f]
    BY <1>1, <2>1 DEF Fixed
  <2>3. PICK j \in 1 .. Len(chosen) : Selected(j) /\ r \in chosen[j]
    BY <1>1, <1>3, <2>1, <2>2 DEF Resolved, Hidden
  <2>4. j = i
    BY <1>1, <1>2, <1>3, <2>3, CatalogIsSound DEF IInv, SoundCatalog, PatchesApart
  <2> QED BY <2>3, <2>4
<1>4. Selected(i) => chosen[i] \subseteq variants(i) \intersect recipes
  BY <1>1, <1>2 DEF Hidden
<1> QED BY <1>3, <1>4

(***************************************************************************)
(* plan_feature_install returns what was asked for, with all it requires   *)
(* and one variant of each component for this image, and nothing else that *)
(* is excluded or in conflict.                                             *)
(***************************************************************************)
THEOREM PlanHasWhatWasAsked == Spec => []PlanIsWhatWasAsked
<1>1. ASSUME IInv, pc = "planned", Chosen PROVE PlanIsWhatWasAsked
  <2>1. \A places : Reached(places)
    BY <1>1 DEF Reached
  <2>2. /\ selection.features \subseteq ordered
        /\ \A f \in ordered : catalog.requires[f] \subseteq ordered
    BY <1>1, Planned, NeededIsClosed DEF IInv, InputInv
  <2>3. selection.public \subseteq {r.id : r \in recipes}
    BY <1>1, Planned, PublicPatches
  <2>4. ASSUME NEW f \in ordered
        PROVE  /\ catalog.requires[f] \subseteq ordered \ selection.without
               /\ catalog.patches[f] \subseteq {r.id : r \in recipes}
               /\ catalog.conflicts[f] \intersect (ordered \ {f}) = {}
               /\ catalog.payloads[f] \intersect image.present = {}
    <3>1. catalog.requires[f] \subseteq ordered \ selection.without
      BY <1>1, <2>1, <2>2 DEF IInv, SelectionInv
    <3>2. catalog.patches[f] \subseteq {r.id : r \in recipes}
      BY <1>1, Planned, PublicPatches
    <3>3. catalog.conflicts[f] \intersect (ordered \ {f}) = {}
      BY <1>1, <2>1 DEF IInv, SelectionInv, InConflict
    <3>4. catalog.payloads[f] \intersect image.present = {}
      BY <1>1, <2>1 DEF IInv, PlanInv, PayloadsOf, Free
    <3> QED BY <3>1, <3>2, <3>3, <3>4
  <2>5. ASSUME NEW i \in 1 .. Len(catalog.components), Selected(i)
        PROVE  \E v \in catalog.components[i].variants \intersect recipes :
                 /\ catalog.components[i].variants \intersect recipes = {v}
                 /\ v.source = image.source[v.target]
    <3>1. PICK v \in chosen[i] : chosen[i] = {v}
      BY <1>1, <2>1, <2>5, Planned DEF IInv, ChoiceInv, PlanInv
    <3>2. catalog.components[i].variants \intersect recipes = {v}
      BY <1>1, <2>5, <3>1, TakenAreChosen
    <3>3. Reconstructs(v.target, recipes)
      BY <1>1, <3>2, Planned
    <3> QED BY <3>2, <3>3 DEF Reconstructs
  <2>6. ASSUME NEW i \in 1 .. Len(catalog.components), ~Selected(i)
        PROVE  catalog.components[i].variants \intersect recipes = {}
    BY <1>1, <2>6, TakenAreChosen
  <2> QED BY <1>1, <2>2, <2>3, <2>4, <2>5, <2>6, PublicPatches DEF PlanIsWhatWasAsked
<1>2. ASSUME IInv, ~Chosen PROVE PlanIsWhatWasAsked
  BY <1>2 DEF IInv, EmptyInv, Chosen, PlanIsWhatWasAsked, Selected, InputInv
<1>3. ASSUME IInv PROVE PlanIsWhatWasAsked
  BY <1>1, <1>2, <1>3 DEF PlanIsWhatWasAsked
<1> QED BY <1>3, SpecKeepsInv, PTL
-----------------------------------------------------------------------------
(***************************************************************************)
(* What plan_feature_install takes in one step of FeaturePlan is what the  *)
(* second search of FeatureGraph returns for the same catalog and          *)
(* selection.                                                              *)
(***************************************************************************)
SameInputs ==
  /\ Packages = catalog.features /\ requested = selection.features
  /\ \A f \in Packages : requires[f] = catalog.requires[f]

SearchIsPlanned ==
  phase = "resolved" /\ SameInputs => Elements(order) = Needed(selection.features)

THEOREM PlanTakesTheSearch == GraphSpec /\ Spec => []SearchIsPlanned
<1>1. ASSUME IInv, GraphIsResolved, phase = "resolved", SameInputs
      PROVE  Elements(order) = Needed(selection.features)
  <2> DEFINE all == Needed(selection.features)
  <2>1. InputInv /\ catalog.features \subseteq Features
    BY <1>1, CatalogIsSound DEF IInv
  <2>2. /\ selection.features \subseteq all /\ all \subseteq catalog.features
        /\ \A f \in all : catalog.requires[f] \subseteq all
    BY <2>1, NeededIsClosed DEF InputInv
  <2>3. Closed(Elements(order)) /\ \A S \in SUBSET Packages : Closed(S) => Elements(order) \subseteq S
    BY <1>1 DEF GraphIsResolved, ResolvesClosure
  <2>4. Elements(order) \subseteq all
    <3>1. all \in SUBSET Packages /\ Closed(all)
      BY <1>1, <2>2 DEF Closed, SameInputs
    <3> QED BY <2>3, <3>1
  <2>5. \A g \in Elements(order) \intersect catalog.features : catalog.requires[g] \subseteq Elements(order)
    BY <1>1, <2>3 DEF Closed, SameInputs
  <2>6. Elements(order) \in SUBSET Features /\ selection.features \subseteq Elements(order)
    BY <1>1, <2>1, <2>2, <2>3, <2>4 DEF Closed, SameInputs
  <2>7. all \subseteq Elements(order)
    BY <2>5, <2>6 DEF Needed
  <2> QED BY <2>4, <2>7
<1>2. IInv /\ GraphIsResolved => SearchIsPlanned
  BY <1>1 DEF SearchIsPlanned
<1> QED BY <1>2, SpecKeepsInv, ClosureIsResolved, PTL
-----------------------------------------------------------------------------
(***************************************************************************)
(* FeatureCatalog, for directories of any contents.  First what a listing  *)
(* of a finite set is, and a sequence of its elements that is chosen.      *)
(***************************************************************************)
Lists(s, S) ==
  /\ Len(s) \in Nat /\ DOMAIN s = 1 .. Len(s)
  /\ \A i, j \in 1 .. Len(s) : i # j => s[i] # s[j]
  /\ \A i \in 1 .. Len(s) : s[i] \in S
  /\ \A e \in S : \E i \in 1 .. Len(s) : s[i] = e

LEMMA InjectionLists ==
  ASSUME NEW S, IsFiniteSet(S), NEW s \in [1 .. Cardinality(S) -> S], IsInjective(s)
  PROVE  Lists(s, S) /\ s \in Seq(S)
<1> DEFINE D == 1 .. Cardinality(S)
<1>1. Cardinality(S) \in Nat
  BY FS_CardinalityType
<1>2. s \in Injection(D, S)
  BY DEF Injection
<1>3. Cardinality(D) = Cardinality(S)
  BY <1>1, FS_Interval
<1>4. s \in Surjection(D, S)
  <2> HIDE DEF D
  <2> QED BY <1>2, <1>3, FS_Injection
<1>5. \A e \in S : \E i \in D : s[i] = e
  BY <1>4 DEF Surjection
<1>6. s \in Seq(S) /\ Len(s) = Cardinality(S)
  BY <1>1
<1> QED BY <1>1, <1>5, <1>6 DEF Lists, IsInjective

LEMMA ListingLists ==
  ASSUME NEW S, IsFiniteSet(S), NEW s \in SetToSeqs(S) PROVE Lists(s, S)
<1>1. s \in [1 .. Cardinality(S) -> S] /\ IsInjective(s)
  BY DEF SetToSeqs, IsInjective
<1> QED BY <1>1, InjectionLists

LEMMA SequenceLists ==
  ASSUME NEW S, IsFiniteSet(S) PROVE Lists(SetToSeq(S), S)
<1>1. \E s \in [1 .. Cardinality(S) -> S] : IsInjective(s)
  BY FS_CardinalityType DEF ExistsBijection, Bijection, Injection
<1>2. SetToSeq(S) \in [1 .. Cardinality(S) -> S] /\ IsInjective(SetToSeq(S))
  BY <1>1 DEF SetToSeq
<1> QED BY <1>2, InjectionLists

(***************************************************************************)
(* What a directory is known to be.                                        *)
(***************************************************************************)
PublicRecipes == {Recipe(p, directory.patches[p]) : p \in DOMAIN directory.patches}
IsComponent(c) ==
  /\ c.kind \in {"file", "patch", "variants"}
  /\ Len(c.members) \in Nat /\ DOMAIN c.members = 1 .. Len(c.members)
  /\ c.kind = "patch" => Len(c.members) = 1
  /\ c.kind # "file" => \A j \in DOMAIN c.members :
       c.members[j].content # Junk => HasSizes(c.members[j].content)

LEMMA DirectoryIs ==
  ASSUME directory \in Directories
  PROVE  /\ IsFiniteSet(DOMAIN directory.patches) /\ IsFiniteSet(DOMAIN directory.packages)
         /\ MaxPatches \in Nat
         /\ \A p \in DOMAIN directory.patches :
              directory.patches[p] # Junk => HasSizes(directory.patches[p])
         /\ \A f \in DOMAIN directory.packages : ManifestOf(f) # Junk =>
              /\ Len(ComponentsOf(f)) \in Nat
              /\ DOMAIN ComponentsOf(f) = 1 .. Len(ComponentsOf(f))
              /\ \A i \in DOMAIN ComponentsOf(f) : IsComponent(ComponentsOf(f)[i])
BY DirectoriesAssumption
DEF IsSequence, ManifestOf, ComponentsOf, Components, IsComponent

LEMMA SlotIs ==
  \A s : s \in Slots <=> \E f \in DOMAIN directory.packages :
                           \E i \in DOMAIN ComponentsOf(f) : s = <<f, i>>
BY DEF Slots

LEMMA SlotHas ==
  ASSUME NEW s \in Slots
  PROVE  /\ s[1] \in DOMAIN directory.packages /\ s[2] \in DOMAIN ComponentsOf(s[1])
         /\ s = <<s[1], s[2]>> /\ In(s) = ComponentsOf(s[1])[s[2]]
<1>1. PICK f \in DOMAIN directory.packages : \E i \in DOMAIN ComponentsOf(f) : s = <<f, i>>
  BY SlotIs
<1>2. PICK i \in DOMAIN ComponentsOf(f) : s = <<f, i>>
  BY <1>1
<1> QED BY <1>2 DEF In

LEMMA SlotsAre ==
  ASSUME directory \in Directories, Readable
  PROVE  IsFiniteSet(Slots) /\ \A s \in Slots : IsComponent(In(s))
<1> DEFINE D == DOMAIN directory.packages
           Of(f) == {f} \X DOMAIN ComponentsOf(f)
           P == [f \in D |-> Of(f)]
           R == {Of(f) : f \in D}
<1>1. ASSUME NEW f \in D PROVE IsFiniteSet(Of(f))
  <2>1. Len(ComponentsOf(f)) \in Nat /\ DOMAIN ComponentsOf(f) = 1 .. Len(ComponentsOf(f))
    BY DirectoryIs DEF Readable
  <2> DEFINE C == DOMAIN ComponentsOf(f)
  <2>2. IsFiniteSet(C)
    BY <2>1, FS_Interval
  <2> HIDE DEF C
  <2>3. IsFiniteSet({f})
    BY FS_Singleton
  <2> QED BY <2>2, <2>3, FS_Product DEF C
<1>2. P \in Surjection(D, R)
  <2> HIDE DEF Of
  <2> QED BY DEF Surjection
<1>3. IsFiniteSet(R)
  <2> HIDE DEF P, R
  <2> QED BY <1>2, FS_Surjection, DirectoryIs DEF D
<1>4. \A T \in R : IsFiniteSet(T)
  BY <1>1
<1>5. IsFiniteSet(UNION R)
  <2> HIDE DEF R
  <2> QED BY <1>3, <1>4, FS_UNION
<1>6. \A s \in Slots : IsComponent(In(s))
  BY DirectoryIs, SlotIs DEF Readable, In
<1> QED BY <1>5, <1>6 DEF Slots

LEMMA IdsAreFinite ==
  ASSUME directory \in Directories, Readable PROVE IsFiniteSet(AllIds)
<1> DEFINE Of(s) == PatchIds(In(s))
           P == [s \in Slots |-> Of(s)]
           R == {Of(s) : s \in Slots}
<1>1. ASSUME NEW s \in Slots PROVE IsFiniteSet(Of(s))
  <2> DEFINE c == In(s)
             D == 1 .. Len(c.members)
             I == {c.members[j].path.id : j \in D}
             Q == [j \in D |-> c.members[j].path.id]
  <2>1. Len(c.members) \in Nat /\ DOMAIN c.members = D
    BY SlotsAre DEF IsComponent
  <2>2. IsFiniteSet(D)
    BY <2>1, FS_Interval
  <2>3. Q \in Surjection(D, I)
    <3> HIDE DEF D, c
    <3> QED BY DEF Surjection
  <2>4. IsFiniteSet(I)
    <3> HIDE DEF Q, I, D
    <3> QED BY <2>2, <2>3, FS_Surjection
  <2>5. Of(s) = {} \/ Of(s) = I
    <3> HIDE DEF D
    <3> QED BY <2>1 DEF PatchIds, Members, Range
  <2> QED BY <2>4, <2>5, FS_EmptySet
<1>2. P \in Surjection(Slots, R)
  <2> HIDE DEF Of
  <2> QED BY DEF Surjection
<1>3. IsFiniteSet(R)
  <2> HIDE DEF P, R
  <2> QED BY <1>2, FS_Surjection, SlotsAre
<1>4. IsFiniteSet(UNION R)
  <2>1. \A T \in R : IsFiniteSet(T)
    BY <1>1
  <2> HIDE DEF R
  <2> QED BY <1>3, <2>1, FS_UNION
<1>5. AllIds = (DOMAIN directory.patches) \union (UNION R)
  BY DEF AllIds
<1> HIDE DEF R
<1> QED BY <1>4, <1>5, FS_Union, DirectoryIs

(***************************************************************************)
(* The catalog that a directory describes.  Every component that is one of *)
(* variants is in it once.                                                 *)
(***************************************************************************)
LEMMA DescribedIs ==
  /\ Described.features = DOMAIN directory.packages
  /\ Described.public = PublicRecipes
  /\ Described.components = Alternatives
  /\ \A f \in DOMAIN directory.packages :
       /\ Described.payloads[f] = Range(Targets(directory.packages[f]))
       /\ Described.fixed[f] = FixedBy(f)
BY DEF Described, PublicRecipes

VariantSlots == {s \in Slots : In(s).kind = "variants"}
Alternative(s) == [feature |-> s[1], variants |-> PatchesOf(In(s))]

LEMMA AlternativesAre ==
  ASSUME directory \in Directories, Readable
  PROVE  \E slots :
           /\ Lists(slots, VariantSlots) /\ Len(Alternatives) = Len(slots)
           /\ Len(Alternatives) \in Nat
           /\ \A k \in 1 .. Len(Alternatives) : Alternatives[k] = Alternative(slots[k])
<1>1. IsFiniteSet(VariantSlots)
  BY SlotsAre, FS_Subset DEF VariantSlots
<1> DEFINE slots == SetToSeq(VariantSlots)
<1>2. Lists(slots, VariantSlots)
  BY <1>1, SequenceLists
<1>3. Alternatives = [k \in DOMAIN slots |-> Alternative(slots[k])]
  BY DEF Alternatives, VariantSlots, Alternative
<1> HIDE DEF slots
<1>4. DOMAIN slots = 1 .. Len(slots) /\ Len(slots) \in Nat
  BY <1>2 DEF Lists
<1>5. Len(Alternatives) = Len(slots)
  <2>1. Alternatives \in Seq({Alternative(slots[k]) : k \in DOMAIN slots})
    BY <1>3, <1>4
  <2> QED BY <1>3, <1>4, <2>1
<1> QED BY <1>2, <1>3, <1>4, <1>5

\* A recipe comes from a file of the patch directory or from a member of a slot.
LEMMA PatchesAre ==
  ASSUME NEW c, IsComponent(c)
  PROVE  /\ \A r \in PatchesOf(c) : \E j \in 1 .. Len(c.members) :
              r = Recipe(c.members[j].path.id, c.members[j].content)
         /\ \A j \in 1 .. Len(c.members) :
              /\ Recipe(c.members[j].path.id, c.members[j].content) \in PatchesOf(c)
              /\ c.kind # "file" => c.members[j].path.id \in PatchIds(c)
         /\ \A r \in PatchesOf(c) : c.kind # "file" => r.id \in PatchIds(c)
<1>1. DOMAIN c.members = 1 .. Len(c.members)
  BY DEF IsComponent
<1>2. Members(c) = {c.members[j] : j \in 1 .. Len(c.members)}
  BY <1>1 DEF Members, Range
<1>3. \A m \in Members(c) : c.kind # "file" => m.path.id \in PatchIds(c)
  BY DEF PatchIds
<1>4. \A id, content : Recipe(id, content).id = id
  BY DEF Recipe
<1> QED BY <1>2, <1>3, <1>4 DEF PatchesOf

LEMMA RecipesComeFrom ==
  ASSUME directory \in Directories, Readable, NEW r \in Recipes(Described)
  PROVE  \/ r \in PublicRecipes
         \/ \E s \in Slots : In(s).kind # "file" /\ r \in PatchesOf(In(s))
<1>1. PICK slots : /\ Lists(slots, VariantSlots) /\ Len(Alternatives) = Len(slots)
                   /\ Len(Alternatives) \in Nat
                   /\ \A k \in 1 .. Len(Alternatives) : Alternatives[k] = Alternative(slots[k])
  BY AlternativesAre
<1>2. CASE r \in PublicRecipes
  BY <1>2
<1>3. CASE r \in Fixed(Described)
  <2>1. PICK f \in DOMAIN directory.packages : r \in FixedBy(f)
    BY <1>3, DescribedIs DEF Fixed
  <2>2. PICK i \in DOMAIN ComponentsOf(f) :
          ComponentsOf(f)[i].kind = "patch" /\ r \in PatchesOf(ComponentsOf(f)[i])
    BY <2>1 DEF FixedBy, Range
  <2>3. <<f, i>> \in Slots /\ In(<<f, i>>) = ComponentsOf(f)[i]
    BY SlotIs DEF In
  <2> QED BY <2>2, <2>3
<1>4. CASE \E k \in 1 .. Len(Alternatives) : r \in Alternatives[k].variants
  <2>1. PICK k \in 1 .. Len(Alternatives) : r \in Alternatives[k].variants
    BY <1>4
  <2>2. slots[k] \in VariantSlots
    BY <1>1, <2>1 DEF Lists
  <2>3. Alternatives[k] = Alternative(slots[k])
    BY <1>1
  <2>4. r \in PatchesOf(In(slots[k]))
    BY <2>1, <2>3 DEF Alternative
  <2> QED BY <2>2, <2>4 DEF VariantSlots
<1> QED BY <1>2, <1>3, <1>4, DescribedIs DEF Recipes

LEMMA IdsTellPatches ==
  ASSUME directory \in Directories, Readable, IdsApart
  PROVE  /\ \A s \in Slots : In(s).kind # "file" =>
              PatchesOf(In(s)) \intersect PublicRecipes = {}
         /\ \A s, t \in Slots : s # t /\ In(s).kind # "file" /\ In(t).kind # "file" =>
              PatchesOf(In(s)) \intersect PatchesOf(In(t)) = {}
         /\ \A r, s \in Recipes(Described) : r.id = s.id => r = s
<1>1. \A s \in Slots : In(s).kind # "file" => \A r \in PatchesOf(In(s)) : r.id \in PatchIds(In(s))
  BY SlotsAre, PatchesAre
<1>2. \A r \in PublicRecipes : r.id \in DOMAIN directory.patches
  BY DEF PublicRecipes, Recipe
<1>3. \A s \in Slots : In(s).kind # "file" => PatchesOf(In(s)) \intersect PublicRecipes = {}
  <2>1. \A s \in Slots : In(s).kind # "file" => PatchIds(In(s)) \intersect DOMAIN directory.patches = {}
    BY DEF IdsApart
  <2> QED BY <1>1, <1>2, <2>1
<1>4. \A s, t \in Slots : s # t /\ In(s).kind # "file" /\ In(t).kind # "file" =>
        PatchesOf(In(s)) \intersect PatchesOf(In(t)) = {}
  BY <1>1 DEF IdsApart
<1>5. ASSUME NEW r \in Recipes(Described), NEW q \in Recipes(Described), r.id = q.id
      PROVE  r = q
  <2>1. CASE r \in PublicRecipes /\ q \in PublicRecipes
    BY <1>5, <2>1 DEF PublicRecipes, Recipe
  <2>2. CASE \E s \in Slots : In(s).kind # "file" /\ r \in PatchesOf(In(s))
    <3>1. PICK s \in Slots : In(s).kind # "file" /\ r \in PatchesOf(In(s))
      BY <2>2
    <3>2. q \notin PublicRecipes
      BY <1>1, <1>2, <1>5, <3>1 DEF IdsApart
    <3>3. PICK t \in Slots : In(t).kind # "file" /\ q \in PatchesOf(In(t))
      BY <3>2, RecipesComeFrom
    <3>4. s = t
      BY <1>1, <1>5, <3>1, <3>3 DEF IdsApart
    <3> DEFINE ms == In(s).members
    <3>5. PICK i \in 1 .. Len(ms) : r = Recipe(ms[i].path.id, ms[i].content)
      BY <3>1, SlotsAre, PatchesAre
    <3>6. PICK j \in 1 .. Len(ms) : q = Recipe(ms[j].path.id, ms[j].content)
      BY <3>3, <3>4, SlotsAre, PatchesAre
    <3>7. ms[i].path.id = ms[j].path.id
      BY <1>5, <3>5, <3>6 DEF Recipe
    <3>8. DOMAIN ms = 1 .. Len(ms)
      BY SlotsAre DEF IsComponent
    <3>9. IsInjective([k \in DOMAIN ms |-> ms[k].path.id])
      BY <3>1 DEF IdsApart
    <3>10. i = j
      <4> HIDE DEF ms
      <4> QED BY <3>7, <3>8, <3>9 DEF IsInjective
    <3> QED BY <3>5, <3>6, <3>10
  <2>3. CASE r \in PublicRecipes /\ \E s \in Slots : In(s).kind # "file" /\ q \in PatchesOf(In(s))
    BY <1>1, <1>2, <1>5, <2>3 DEF IdsApart
  <2> QED BY <2>1, <2>2, <2>3, RecipesComeFrom
<1> QED BY <1>3, <1>4, <1>5

\* The patches of a sound directory can be added up.
LEMMA DescribedIsSized ==
  ASSUME directory \in Directories, SoundDirectory PROVE Sized(Recipes(Described))
<1>1. Readable /\ IdsApart /\ \A f \in DOMAIN directory.packages : PackageIsSound(f)
  BY DEF SoundDirectory
<1>2. \A id, content : Recipe(id, content).size = content.size /\ Recipe(id, content).id = id
  BY DEF Recipe
<1>3. ASSUME NEW r \in PublicRecipes
      PROVE  r.size \in [Sums -> Nat] /\ r.id \in DOMAIN directory.patches
  <2>1. PICK p \in DOMAIN directory.patches : r = Recipe(p, directory.patches[p])
    BY DEF PublicRecipes
  <2> QED BY <1>1, <1>2, <2>1, DirectoryIs DEF Readable, HasSizes
<1>4. ASSUME NEW s \in Slots, In(s).kind # "file", NEW r \in PatchesOf(In(s))
      PROVE  r.size \in [Sums -> Nat] /\ r.id \in PatchIds(In(s))
  <2> DEFINE c == In(s)
  <2>1. IsComponent(c)
    BY <1>1, SlotsAre
  <2>2. PICK j \in 1 .. Len(c.members) : r = Recipe(c.members[j].path.id, c.members[j].content)
    BY <2>1, PatchesAre
  <2>3. c.members[j].content # Junk
    <3>1. j \in DOMAIN c.members /\ c.members[j] \in Members(c)
      BY <2>1, <2>2 DEF IsComponent, Members, Range
    <3>2. s[1] \in DOMAIN directory.packages /\ c \in Range(ComponentsOf(s[1]))
      BY SlotHas DEF Range
    <3> QED BY <1>1, <1>4, <3>1, <3>2 DEF PackageIsSound
  <2>4. HasSizes(c.members[j].content)
    BY <1>4, <2>1, <2>2, <2>3 DEF IsComponent
  <2>5. r.id \in PatchIds(c)
    BY <1>4, <2>1, PatchesAre
  <2> QED BY <1>2, <2>2, <2>4, <2>5 DEF HasSizes
<1>5. ASSUME NEW r \in Recipes(Described) PROVE r.size \in [Sums -> Nat] /\ r.id \in AllIds
  BY <1>1, <1>3, <1>4, RecipesComeFrom DEF AllIds
<1> DEFINE id == [r \in Recipes(Described) |-> r.id]
<1>6. id \in Injection(Recipes(Described), AllIds)
  BY <1>1, <1>5, IdsTellPatches DEF Injection, IsInjective
<1>7. IsFiniteSet(Recipes(Described))
  <2> HIDE DEF id
  <2> QED BY <1>1, <1>6, IdsAreFinite, FS_Injection
<1> QED BY <1>5, <1>7 DEF Sized

\* Patches of the directory that cannot be applied together are no part of a
\* sound one.
LEMMA SoundIsConsistent ==
  ASSUME directory \in Directories, SoundDirectory, NEW S \in SUBSET PublicRecipes
  PROVE  Consistent(S)
<1> DEFINE all == Described.public \union Fixed(Described)
<1>1. all \in SUBSET Recipes(Described) /\ S \in SUBSET all
  BY DescribedIs DEF Recipes
<1>2. Consistent(all)
  BY DEF SoundDirectory, SoundCatalog
<1>3. Sized(all)
  BY <1>1, DescribedIsSized, SizedSubset
<1> HIDE DEF all
<1> QED BY <1>1, <1>2, <1>3, ConsistentSubset

LEMMA DescribedPatchesApart ==
  ASSUME directory \in Directories, Readable, IdsApart PROVE PatchesApart(Described)
<1>1. PICK slots : /\ Lists(slots, VariantSlots) /\ Len(Alternatives) = Len(slots)
                   /\ Len(Alternatives) \in Nat
                   /\ \A k \in 1 .. Len(Alternatives) : Alternatives[k] = Alternative(slots[k])
  BY AlternativesAre
<1>2. ASSUME NEW f \in DOMAIN directory.packages, NEW r \in FixedBy(f)
      PROVE  \E s \in Slots : s[1] = f /\ In(s).kind = "patch" /\ r \in PatchesOf(In(s))
  <2>1. PICK i \in DOMAIN ComponentsOf(f) :
          ComponentsOf(f)[i].kind = "patch" /\ r \in PatchesOf(ComponentsOf(f)[i])
    BY <1>2 DEF FixedBy, Range
  <2>2. <<f, i>> \in Slots /\ In(<<f, i>>) = ComponentsOf(f)[i] /\ <<f, i>>[1] = f
    BY SlotIs DEF In
  <2> QED BY <2>1, <2>2
<1>3. ASSUME NEW k \in 1 .. Len(Alternatives)
      PROVE  /\ slots[k] \in Slots /\ In(slots[k]).kind = "variants"
             /\ Alternatives[k].variants = PatchesOf(In(slots[k]))
  <2>1. slots[k] \in VariantSlots
    BY <1>1 DEF Lists
  <2>2. Alternatives[k] = Alternative(slots[k])
    BY <1>1
  <2> QED BY <2>1, <2>2 DEF VariantSlots, Alternative
<1>4. \A i, j \in 1 .. Len(Alternatives) : i # j => slots[i] # slots[j]
  BY <1>1 DEF Lists
<1>5. Described.public \intersect Fixed(Described) = {}
  BY <1>2, IdsTellPatches, DescribedIs DEF Fixed
<1>6. \A f, g \in Described.features : f # g => Described.fixed[f] \intersect Described.fixed[g] = {}
  BY <1>2, IdsTellPatches, DescribedIs
<1>7. ASSUME NEW i \in 1 .. Len(Alternatives)
      PROVE  Alternatives[i].variants \intersect (Described.public \union Fixed(Described)) = {}
  BY <1>2, <1>3, IdsTellPatches, DescribedIs DEF Fixed
<1>8. ASSUME NEW i \in 1 .. Len(Alternatives), NEW j \in 1 .. Len(Alternatives), i # j
      PROVE  Alternatives[i].variants \intersect Alternatives[j].variants = {}
  BY <1>3, <1>4, <1>8, IdsTellPatches
<1>9. \A r, s \in Recipes(Described) : r.id = s.id => r = s
  BY IdsTellPatches
<1> QED BY <1>5, <1>6, <1>7, <1>8, <1>9, DescribedIs DEF PatchesApart

LEMMA VariantsAreMany ==
  ASSUME NEW c, IsComponent(c)
  PROVE  /\ Cardinality(PatchesOf(c)) > 1 => Len(c.members) > 1
         /\ (/\ Len(c.members) > 1
             /\ IsInjective([j \in DOMAIN c.members |-> c.members[j].path.id]))
              => Cardinality(PatchesOf(c)) > 1
         /\ OfOneTarget(c) <=> \A v, w \in PatchesOf(c) : v.target = w.target
<1> DEFINE D == 1 .. Len(c.members)
           R(j) == Recipe(c.members[j].path.id, c.members[j].content)
           S == PatchesOf(c)
<1>1. Len(c.members) \in Nat /\ DOMAIN c.members = D
  BY DEF IsComponent
<1>2. IsFiniteSet(D) /\ Cardinality(D) = Len(c.members)
  <2> DEFINE l == Len(c.members)
  <2>1. l \in Nat
    BY <1>1
  <2> HIDE DEF l
  <2>2. IsFiniteSet(1 .. l) /\ Cardinality(1 .. l) = l
    BY <2>1, FS_Interval
  <2> QED BY <2>2 DEF l
<1>3. S = {R(j) : j \in D}
  BY <1>1 DEF PatchesOf, Members, Range
<1>4. [j \in D |-> R(j)] \in Surjection(D, S)
  <2> HIDE DEF D, R, S
  <2> QED BY <1>3 DEF Surjection
<1>5. IsFiniteSet(S) /\ Cardinality(S) <= Len(c.members)
  <2> DEFINE f == [j \in D |-> R(j)]
  <2> HIDE DEF f, D, S
  <2> QED BY <1>2, <1>4, FS_Surjection DEF f
<1>6. Cardinality(S) > 1 => Len(c.members) > 1
  <2>1. Cardinality(S) \in Nat
    BY <1>5, FS_CardinalityType
  <2> QED BY <1>1, <1>5, <2>1
<1>7. ASSUME Len(c.members) > 1, IsInjective([j \in DOMAIN c.members |-> c.members[j].path.id])
      PROVE  Cardinality(S) > 1
  <2>1. 1 \in D /\ 2 \in D
    BY <1>1, <1>7
  <2>2. c.members[1].path.id # c.members[2].path.id
    <3> DEFINE f == [j \in DOMAIN c.members |-> c.members[j].path.id]
    <3>1. f[1] = c.members[1].path.id /\ f[2] = c.members[2].path.id /\ 1 \in DOMAIN f /\ 2 \in DOMAIN f
      BY <1>1, <2>1
    <3>2. IsInjective(f)
      BY <1>7
    <3> HIDE DEF f
    <3>3. f[1] = f[2] => 1 = 2
      BY <3>1, <3>2 DEF IsInjective
    <3> QED BY <3>1, <3>3
  <2>3. R(1) # R(2)
    BY <2>2 DEF Recipe
  <2>4. R(1) \in S /\ R(2) \in S
    BY <1>3, <2>1
  <2>5. Cardinality(S) # 0
    BY <1>5, <2>4, FS_EmptySet
  <2>6. Cardinality(S) # 1
    <3> HIDE DEF S, R
    <3> QED BY <1>5, <2>3, <2>4, FS_Singleton
  <2> QED BY <1>5, <2>5, <2>6, FS_CardinalityType
<1>8. OfOneTarget(c) <=> \A v, w \in PatchesOf(c) : v.target = w.target
  <2>1. \A m : Recipe(m.path.id, m.content).target = m.content.target
    BY DEF Recipe
  <2> QED BY <2>1 DEF OfOneTarget, PatchesOf
<1> QED BY <1>6, <1>7, <1>8

LEMMA VariantsAlikeIs ==
  ASSUME directory \in Directories, Readable, IdsApart
  PROVE  VariantsAlike(Described) <=>
           \A s \in VariantSlots : Len(In(s).members) > 1 /\ OfOneTarget(In(s))
<1>1. PICK slots : /\ Lists(slots, VariantSlots) /\ Len(Alternatives) = Len(slots)
                   /\ Len(Alternatives) \in Nat
                   /\ \A k \in 1 .. Len(Alternatives) : Alternatives[k] = Alternative(slots[k])
  BY AlternativesAre
<1>2. ASSUME NEW s \in VariantSlots
      PROVE  /\ s \in Slots /\ In(s).kind = "variants" /\ IsComponent(In(s))
             /\ s[1] \in DOMAIN directory.packages
             /\ Cardinality(PatchesOf(In(s))) > 1 <=> Len(In(s).members) > 1
             /\ OfOneTarget(In(s)) <=> \A v, w \in PatchesOf(In(s)) : v.target = w.target
  <2>1. s \in Slots /\ In(s).kind = "variants" /\ IsComponent(In(s))
    BY SlotsAre DEF VariantSlots
  <2>2. IsInjective([j \in DOMAIN In(s).members |-> In(s).members[j].path.id])
    BY <2>1 DEF IdsApart
  <2>3. s[1] \in DOMAIN directory.packages
    BY <2>1, SlotIs
  <2> QED BY <2>1, <2>2, <2>3, VariantsAreMany
<1> DEFINE Alike(k) ==
      /\ Alternatives[k].feature \in Described.features
      /\ Cardinality(Alternatives[k].variants) > 1
      /\ \A v, w \in Alternatives[k].variants : v.target = w.target
<1>3. ASSUME NEW k \in 1 .. Len(Alternatives)
      PROVE  /\ slots[k] \in VariantSlots
             /\ Alike(k) <=> Len(In(slots[k]).members) > 1 /\ OfOneTarget(In(slots[k]))
  <2>1. slots[k] \in VariantSlots
    BY <1>1 DEF Lists
  <2>2. Alternatives[k].feature = slots[k][1] /\ Alternatives[k].variants = PatchesOf(In(slots[k]))
    <3>1. Alternatives[k] = Alternative(slots[k])
      BY <1>1
    <3> QED BY <3>1 DEF Alternative
  <2> QED BY <1>2, <2>1, <2>2, DescribedIs
<1>4. \A s \in VariantSlots : \E k \in 1 .. Len(Alternatives) : slots[k] = s
  BY <1>1 DEF Lists
<1>5. VariantsAlike(Described) <=> \A k \in 1 .. Len(Alternatives) : Alike(k)
  BY DescribedIs DEF VariantsAlike
<1> HIDE DEF Alike
<1> QED BY <1>3, <1>4, <1>5

(***************************************************************************)
(* What has been read so far: the packages before the current one, and of  *)
(* this one the components before the current one.                         *)
(***************************************************************************)
Finished == {names[i] : i \in 1 .. next - 1}
WasRead(s) ==
  s[1] \in Finished \/ (loading = "component" /\ s[1] = names[next] /\ s[2] < component)
ReadSlots == {s \in Slots : WasRead(s)}

MembersAreSound(f, c) ==
  \A m \in Members(c) :
    Identified(directory.packages[f], m) /\ (c.kind # "file" => m.content # Junk)

PatchesInv ==
  loading = "patch" =>
    /\ Lists(names, DOMAIN directory.patches)
    /\ \A i, j \in 1 .. Len(names) : i < j => FileBefore(names[i], names[j])
    /\ next \in 1 .. Len(names) + 1
    /\ public \in Seq(PublicRecipes) /\ Len(public) = next - 1
    /\ \A i \in 1 .. next - 1 :
         /\ directory.patches[names[i]] # Junk
         /\ public[i] = Recipe(names[i], directory.patches[names[i]])

PublicInv ==
  /\ loading \in {"packages", "manifest", "component"} =>
       \A p \in DOMAIN directory.patches : directory.patches[p] # Junk
  /\ loading = "patches" => public = <<>>
  /\ loading = "packages" => ids = DOMAIN directory.patches
  /\ loading \in {"patches", "patch", "packages"} => targets = {}

InPackages == loading \in {"manifest", "component"}

PackagesInv ==
  InPackages =>
    /\ Lists(names, DOMAIN directory.packages) /\ next \in 1 .. Len(names) + 1
    /\ \A f \in Finished : ManifestOf(f) # Junk /\ PackageIsSound(f)

CurrentInv ==
  loading = "component" =>
    LET f == names[next] IN
    /\ next <= Len(names) /\ ManifestOf(f) # Junk
    /\ component \in 1 .. Len(ComponentsOf(f)) + 1
    /\ \A i \in 1 .. component - 1 :
         /\ MembersAreSound(f, ComponentsOf(f)[i])
         /\ \A j \in 1 .. component - 1 : ComponentsOf(f)[i].id = ComponentsOf(f)[j].id => i = j

OfItsOwn(s) ==
  In(s).kind # "file" =>
    /\ IsInjective([j \in DOMAIN In(s).members |-> In(s).members[j].path.id])
    /\ PatchIds(In(s)) \intersect DOMAIN directory.patches = {}
SlotsInv ==
  InPackages =>
    /\ ids = DOMAIN directory.patches \union UNION {PatchIds(In(s)) : s \in ReadSlots}
    /\ \A s \in ReadSlots :
         /\ OfItsOwn(s)
         /\ In(s).kind = "variants" => Len(In(s).members) > 1 /\ OfOneTarget(In(s))
         /\ \A t \in ReadSlots : s # t => PatchIds(In(s)) \intersect PatchIds(In(t)) = {}

PackageTargets(f) == Range(Targets(directory.packages[f]))
TargetsInv ==
  InPackages =>
    /\ targets = UNION {PackageTargets(f) : f \in Finished}
    /\ \A f, g \in Finished : f # g => PackageTargets(f) \intersect PackageTargets(g) = {}

OutcomeInv ==
  /\ loading = "loaded" => SoundDirectory
  /\ loading = "rejected" => ~SoundDirectory \/ Misordered

ReadInv ==
  /\ directory \in Directories
  /\ loading \in {"patches", "patch", "packages", "manifest", "component", "loaded", "rejected"}
  /\ PatchesInv /\ PublicInv /\ PackagesInv /\ CurrentInv /\ SlotsInv /\ TargetsInv /\ OutcomeInv
-----------------------------------------------------------------------------
LEMMA ReadInitIsInv == ASSUME ReadInit PROVE ReadInv
BY DEF ReadInit, ReadInv, PatchesInv, PublicInv, InPackages, PackagesInv, CurrentInv,
       SlotsInv, TargetsInv, OutcomeInv

\* No step changes the directory, nor what depends on nothing else.
LEMMA DirectoryStays ==
  ASSUME directory' = directory
  PROVE  /\ Slots' = Slots /\ PublicRecipes' = PublicRecipes
         /\ \A f : /\ ManifestOf(f)' = ManifestOf(f) /\ ComponentsOf(f)' = ComponentsOf(f)
                   /\ PackageIsSound(f)' = PackageIsSound(f) /\ PackageTargets(f)' = PackageTargets(f)
         /\ \A s : In(s)' = In(s) /\ OfItsOwn(s)' = OfItsOwn(s)
         /\ \A f, c : MembersAreSound(f, c)' = MembersAreSound(f, c)
         /\ SoundDirectory' = SoundDirectory /\ Misordered' = Misordered
<1>1. \A f : ManifestOf(f)' = ManifestOf(f) /\ ComponentsOf(f)' = ComponentsOf(f)
  BY DEF ManifestOf, ComponentsOf
<1>2. Slots' = Slots /\ PublicRecipes' = PublicRecipes
  BY <1>1 DEF Slots, PublicRecipes
<1>3. \A s : In(s)' = In(s)
  BY <1>1 DEF In
<1>4. \A s : OfItsOwn(s)' = OfItsOwn(s)
  BY <1>3 DEF OfItsOwn
<1>5. \A f : PackageIsSound(f)' = PackageIsSound(f) /\ PackageTargets(f)' = PackageTargets(f)
  BY <1>1 DEF PackageIsSound, PackageTargets
<1>6. \A f, c : MembersAreSound(f, c)' = MembersAreSound(f, c)
  BY DEF MembersAreSound
<1>7. Misordered' = Misordered
  BY DEF Misordered
<1>8. \A f : FixedBy(f)' = FixedBy(f)
  BY <1>1 DEF FixedBy
<1>9. Alternatives' = Alternatives
  BY <1>2, <1>3 DEF Alternatives
<1>10. Described' = Described
  BY <1>1, <1>8, <1>9 DEF Described
<1>11. Readable' = Readable /\ AllIds' = AllIds /\ IdsApart' = IdsApart
  BY <1>1, <1>2, <1>3 DEF Readable, AllIds, IdsApart
<1>12. SoundDirectory' = SoundDirectory
  BY <1>5, <1>10, <1>11 DEF SoundDirectory
<1> QED BY <1>1, <1>2, <1>3, <1>4, <1>5, <1>6, <1>7, <1>12

\* A refusal is all there is to show of a step that refuses.
LEMMA RejectedKeeps ==
  ASSUME ReadInv, directory' = directory, loading' = "rejected", ~SoundDirectory \/ Misordered
  PROVE  ReadInv'
BY DirectoryStays
DEF ReadInv, PatchesInv, PublicInv, InPackages, PackagesInv, CurrentInv, SlotsInv, TargetsInv,
    OutcomeInv

LEMMA ListPatchesKeeps == ASSUME ReadInv, ListPatches PROVE ReadInv'
<1>1. /\ directory \in Directories /\ directory' = directory /\ public' = public
      /\ public = <<>> /\ targets = {} /\ targets' = targets
  BY DEF ReadInv, PublicInv, ListPatches
<1> DEFINE D == DOMAIN directory.patches
<1>2. CASE Cardinality(D) <= MaxPatches
  <2>1. loading' = "patch" /\ next' = 1
    BY <1>2 DEF ListPatches, ReachIf, Reach
  <2>2. names' \in SetToSeqs(D) /\ \A i, j \in DOMAIN names' : i < j => FileBefore(names'[i], names'[j])
    BY DEF ListPatches, Listings
  <2>3. Lists(names', D)
    BY <1>1, <2>2, ListingLists, DirectoryIs
  <2>4. PatchesInv'
    <3>1. public \in Seq(PublicRecipes) /\ Len(public) = 0
      BY <1>1
    <3>2. Len(names') \in Nat
      BY <2>3 DEF Lists
    <3> QED BY <1>1, <2>1, <2>2, <2>3, <3>1, <3>2, DirectoryStays DEF PatchesInv, Lists
  <2> QED BY <1>1, <2>1, <2>4
      DEF ReadInv, PublicInv, InPackages, PackagesInv, CurrentInv, SlotsInv, TargetsInv, OutcomeInv
<1>3. CASE ~(Cardinality(D) <= MaxPatches)
  <2>1. loading' = "rejected"
    BY <1>3 DEF ListPatches, ReachIf, Reach
  <2>2. ASSUME SoundDirectory PROVE FALSE
    <3>1. IsFiniteSet(AllIds) /\ Cardinality(AllIds) <= MaxPatches /\ Cardinality(AllIds) \in Nat
      BY <1>1, <2>2, IdsAreFinite, FS_CardinalityType DEF SoundDirectory
    <3>2. Cardinality(D) \in Nat /\ MaxPatches \in Nat
      BY <1>1, DirectoryIs, FS_CardinalityType
    <3>3. D \in SUBSET AllIds
      BY DEF AllIds
    <3>4. Cardinality(D) <= Cardinality(AllIds)
      BY <3>1, <3>3, FS_Subset
    <3> QED BY <1>3, <3>1, <3>2, <3>4
  <2> QED BY <1>1, <2>1, <2>2, RejectedKeeps
<1> QED BY <1>2, <1>3

LEMMA ReadPatchKeeps == ASSUME ReadInv, ReadPatch PROVE ReadInv'
<1>1. /\ directory \in Directories /\ directory' = directory /\ names' = names
      /\ targets = {} /\ targets' = targets
      /\ loading = "patch" /\ next <= Len(names)
  BY DEF ReadInv, PublicInv, ReadPatch
<1> DEFINE content == directory.patches[names[next]]
<1>2. /\ Lists(names, DOMAIN directory.patches) /\ next \in 1 .. Len(names)
      /\ public \in Seq(PublicRecipes) /\ Len(public) = next - 1
  BY <1>1 DEF ReadInv, PatchesInv, Lists
<1>3. names[next] \in DOMAIN directory.patches
  BY <1>2 DEF Lists
<1> DEFINE read == Append(public, Recipe(names[next], content))
<1>4. CASE content # Junk /\ Bounded(Range(read))
  <2>1. loading' = "patch" /\ next' = next + 1 /\ public' = read
    BY <1>4 DEF ReadPatch, ReachIf, Reach
  <2>2. Recipe(names[next], content) \in PublicRecipes
    BY <1>3 DEF PublicRecipes
  <2>3. /\ public' \in Seq(PublicRecipes) /\ Len(public') = next
        /\ \A i \in 1 .. next - 1 : public'[i] = public[i]
        /\ public'[next] = Recipe(names[next], content)
    BY <1>2, <2>1, <2>2 DEF Lists
  <2>4. ASSUME NEW i \in 1 .. next
        PROVE  /\ directory.patches[names[i]] # Junk
               /\ public'[i] = Recipe(names[i], directory.patches[names[i]])
    <3>1. CASE i = next
      BY <1>4, <2>3, <3>1
    <3>2. CASE i \in 1 .. next - 1
      BY <1>1, <2>3, <3>2 DEF ReadInv, PatchesInv
    <3> QED BY <1>2, <3>1, <3>2 DEF Lists
  <2>5. \A i, j \in 1 .. Len(names) : i < j => FileBefore(names[i], names[j])
    BY <1>1 DEF ReadInv, PatchesInv
  <2>6. next' \in 1 .. Len(names) + 1 /\ next' - 1 = next
    BY <1>2, <2>1 DEF Lists
  <2>7. PatchesInv'
    BY <1>1, <1>2, <2>1, <2>3, <2>4, <2>5, <2>6, DirectoryStays DEF PatchesInv, Lists
  <2> QED BY <1>1, <2>1, <2>7
      DEF ReadInv, PublicInv, InPackages, PackagesInv, CurrentInv, SlotsInv, TargetsInv, OutcomeInv
<1>5. CASE content = Junk
  <2>1. loading' = "rejected"
    BY <1>5 DEF ReadPatch, ReachIf, Reach
  <2>2. ~SoundDirectory
    BY <1>3, <1>5 DEF SoundDirectory, Readable
  <2> QED BY <1>1, <2>1, <2>2, RejectedKeeps
<1>6. CASE content # Junk /\ ~Bounded(Range(read))
  <2>1. loading' = "rejected"
    BY <1>6 DEF ReadPatch, ReachIf, Reach
  <2>2. read \in Seq(PublicRecipes)
    BY <1>2, <1>3 DEF PublicRecipes
  <2> HIDE DEF read
  <2>3. Range(read) \in SUBSET PublicRecipes
    BY <2>2 DEF Range
  <2>4. ~SoundDirectory
    BY <1>1, <1>6, <2>3, SoundIsConsistent DEF Consistent
  <2> QED BY <1>1, <2>1, <2>4, RejectedKeeps
<1> QED BY <1>4, <1>5, <1>6

LEMMA CheckPatchesKeeps == ASSUME ReadInv, CheckPatches PROVE ReadInv'
<1>1. /\ directory \in Directories /\ directory' = directory
      /\ targets = {} /\ targets' = targets
      /\ loading = "patch" /\ next > Len(names)
      /\ ids' = {public[i].id : i \in 1 .. Len(public)}
  BY DEF ReadInv, PublicInv, CheckPatches
<1>2. /\ Lists(names, DOMAIN directory.patches) /\ next = Len(names) + 1
      /\ public \in Seq(PublicRecipes) /\ Len(public) = Len(names)
  BY <1>1 DEF ReadInv, PatchesInv, Lists
<1>3. \A i \in 1 .. Len(names) :
        /\ directory.patches[names[i]] # Junk
        /\ public[i] = Recipe(names[i], directory.patches[names[i]])
  BY <1>1, <1>2 DEF ReadInv, PatchesInv, Lists
<1>4. \A p \in DOMAIN directory.patches : directory.patches[p] # Junk
  BY <1>2, <1>3 DEF Lists
<1>5. \A i \in 1 .. Len(names) : public[i].id = names[i]
  <2>1. \A p, content : Recipe(p, content).id = p
    BY DEF Recipe
  <2> QED BY <1>3, <2>1
<1>6. ids' = DOMAIN directory.patches
  BY <1>1, <1>2, <1>5 DEF Lists
<1>7. Range(public) = PublicRecipes
  <2>1. Range(public) \subseteq PublicRecipes
    BY <1>2 DEF Range
  <2>2. ASSUME NEW p \in DOMAIN directory.patches
        PROVE  Recipe(p, directory.patches[p]) \in Range(public)
    <3>1. PICK i \in 1 .. Len(names) : names[i] = p
      BY <1>2 DEF Lists
    <3> QED BY <1>2, <1>3, <3>1 DEF Range
  <2> QED BY <2>1, <2>2 DEF PublicRecipes
<1>8. CASE Ascending /\ Consistent(Range(public))
  <2>1. loading' = "packages"
    BY <1>8 DEF CheckPatches, ReachIf, Reach
  <2> QED BY <1>1, <1>4, <1>6, <2>1
      DEF ReadInv, PatchesInv, PublicInv, InPackages, PackagesInv, CurrentInv, SlotsInv,
          TargetsInv, OutcomeInv
<1>9. CASE ~Ascending
  <2>1. loading' = "rejected"
    BY <1>9 DEF CheckPatches, ReachIf, Reach
  <2>2. PICK i \in 1 .. Len(names), j \in 1 .. Len(names) :
          i < j /\ ~Before(public[i].id, public[j].id)
    BY <1>2, <1>9 DEF Ascending
  <2>3. ~Before(names[i], names[j]) /\ FileBefore(names[i], names[j])
    BY <1>1, <1>5, <2>2 DEF ReadInv, PatchesInv
  <2>4. names[i] \in DOMAIN directory.patches /\ names[j] \in DOMAIN directory.patches
    BY <1>2 DEF Lists
  <2>5. Misordered
    BY <2>3, <2>4 DEF Misordered
  <2> QED BY <1>1, <2>1, <2>5, RejectedKeeps
<1>10. CASE ~Consistent(Range(public))
  <2>1. loading' = "rejected"
    BY <1>10 DEF CheckPatches, ReachIf, Reach
  <2>2. ~SoundDirectory
    BY <1>1, <1>7, <1>10, SoundIsConsistent
  <2> QED BY <1>1, <2>1, <2>2, RejectedKeeps
<1> QED BY <1>8, <1>9, <1>10

LEMMA ListPackagesKeeps == ASSUME ReadInv, ListPackages PROVE ReadInv'
<1>1. /\ directory \in Directories /\ directory' = directory
      /\ targets = {} /\ targets' = targets
      /\ ids = DOMAIN directory.patches /\ ids' = ids
      /\ \A p \in DOMAIN directory.patches : directory.patches[p] # Junk
      /\ loading' = "manifest" /\ next' = 1
  BY DEF ReadInv, PublicInv, ListPackages, Reach
<1>2. names' \in SetToSeqs(DOMAIN directory.packages)
  BY DEF ListPackages, Listings
<1>3. Lists(names', DOMAIN directory.packages)
  BY <1>1, <1>2, ListingLists, DirectoryIs
<1>4. Finished' = {}
  BY <1>1 DEF Finished
<1>5. ReadSlots' = {}
  BY <1>1, <1>4 DEF ReadSlots, WasRead
<1>6. PackagesInv'
  <2>1. Lists(names, DOMAIN directory.packages)'
    BY <1>1, <1>3 DEF Lists
  <2>2. next' \in 1 .. Len(names') + 1
    BY <1>1, <1>3 DEF Lists
  <2> QED BY <1>4, <2>1, <2>2 DEF PackagesInv
<1>7. SlotsInv' /\ TargetsInv'
  BY <1>1, <1>4, <1>5 DEF SlotsInv, TargetsInv
<1> QED BY <1>1, <1>6, <1>7
    DEF ReadInv, PatchesInv, PublicInv, CurrentInv, OutcomeInv

-----------------------------------------------------------------------------
LEMMA ReadManifestKeeps == ASSUME ReadInv, ReadManifest PROVE ReadInv'
<1>1. /\ directory \in Directories /\ directory' = directory /\ names' = names
      /\ ids' = ids /\ targets' = targets
      /\ loading = "manifest" /\ next <= Len(names)
  BY DEF ReadInv, ReadManifest
<1>2. Lists(names, DOMAIN directory.packages) /\ next \in 1 .. Len(names) + 1
  BY <1>1 DEF ReadInv, PackagesInv, InPackages
<1>3. names[next] \in DOMAIN directory.packages
  BY <1>1, <1>2 DEF Lists
<1>4. CASE Package.manifest # Junk
  <2>1. loading' = "component" /\ next' = next /\ component' = 1
    BY <1>4 DEF ReadManifest, ReachIf, Reach
  <2>2. ManifestOf(names[next]) # Junk
    BY <1>4 DEF Package, ManifestOf
  <2>3. Finished' = Finished
    BY <1>1, <2>1 DEF Finished
  <2>4. ReadSlots' = ReadSlots
    <3>1. ASSUME NEW s \in Slots, s[1] = names[next] PROVE ~(s[2] < 1)
      <4>1. Len(ComponentsOf(names[next])) \in Nat
            /\ DOMAIN ComponentsOf(names[next]) = 1 .. Len(ComponentsOf(names[next]))
        BY <1>1, <1>3, <2>2, DirectoryIs
      <4> QED BY <3>1, <4>1, SlotHas
    <3> QED BY <1>1, <2>1, <2>3, <3>1, DirectoryStays DEF ReadSlots, WasRead
  <2>5. CurrentInv'
    <3>1. Len(ComponentsOf(names[next])) \in Nat
      BY <1>1, <1>3, <2>2, DirectoryIs
    <3> QED BY <1>1, <2>1, <2>2, <3>1, DirectoryStays DEF CurrentInv
  <2>6. PackagesInv' /\ SlotsInv' /\ TargetsInv'
    BY <1>1, <2>1, <2>3, <2>4, DirectoryStays
    DEF ReadInv, PackagesInv, SlotsInv, TargetsInv, InPackages, Lists
  <2> QED BY <1>1, <2>1, <2>5, <2>6, DirectoryStays
      DEF ReadInv, PatchesInv, PublicInv, OutcomeInv
<1>5. CASE Package.manifest = Junk
  <2>1. loading' = "rejected"
    BY <1>5 DEF ReadManifest, ReachIf, Reach
  <2>2. ~SoundDirectory
    BY <1>3, <1>5 DEF SoundDirectory, Readable, Package, ManifestOf
  <2> QED BY <1>1, <2>1, <2>2, RejectedKeeps
<1> QED BY <1>4, <1>5

\* What the loop over the components knows of the current one.
LEMMA Current ==
  ASSUME ReadInv, loading = "component"
  PROVE  LET f == names[next] IN
         /\ Lists(names, DOMAIN directory.packages) /\ next \in 1 .. Len(names)
         /\ f \in DOMAIN directory.packages /\ f \notin Finished
         /\ Package = directory.packages[f] /\ Components(Package) = ComponentsOf(f)
         /\ Len(ComponentsOf(f)) \in Nat /\ DOMAIN ComponentsOf(f) = 1 .. Len(ComponentsOf(f))
         /\ component \in 1 .. Len(ComponentsOf(f)) + 1
         /\ \A i \in 1 .. Len(ComponentsOf(f)) :
              /\ <<f, i>> \in Slots /\ In(<<f, i>>) = ComponentsOf(f)[i]
              /\ IsComponent(ComponentsOf(f)[i])
              /\ <<f, i>> \in ReadSlots <=> i < component
<1> DEFINE f == names[next]
<1>1. /\ Lists(names, DOMAIN directory.packages) /\ next \in 1 .. Len(names)
      /\ component \in 1 .. Len(ComponentsOf(f)) + 1 /\ ManifestOf(f) # Junk
  BY DEF ReadInv, PackagesInv, CurrentInv, InPackages, Lists
<1>2. f \in DOMAIN directory.packages /\ f \notin Finished
  BY <1>1 DEF Lists, Finished
<1>3. Package = directory.packages[f] /\ Components(Package) = ComponentsOf(f)
  BY DEF Package, ComponentsOf
<1>4. /\ Len(ComponentsOf(f)) \in Nat /\ DOMAIN ComponentsOf(f) = 1 .. Len(ComponentsOf(f))
      /\ \A i \in DOMAIN ComponentsOf(f) : IsComponent(ComponentsOf(f)[i])
  BY <1>1, <1>2, DirectoryIs DEF ReadInv
<1> HIDE DEF f
<1>5. ASSUME NEW i \in 1 .. Len(ComponentsOf(f))
      PROVE  /\ <<f, i>> \in Slots /\ In(<<f, i>>) = ComponentsOf(f)[i]
             /\ <<f, i>> \in ReadSlots <=> i < component
  <2>1. <<f, i>> \in Slots
    BY <1>2, <1>4, SlotIs
  <2>2. <<f, i>>[1] = f /\ <<f, i>>[2] = i
    OBVIOUS
  <2>3. In(<<f, i>>) = ComponentsOf(f)[i]
    BY <2>2 DEF In
  <2>4. <<f, i>> \in ReadSlots <=> i < component
    BY <1>2, <2>1, <2>2 DEF ReadSlots, WasRead, f
  <2> QED BY <2>1, <2>3, <2>4
<1> QED BY <1>1, <1>2, <1>3, <1>4, <1>5 DEF f

\* A component that parses is sound and has ids of its own, and only such a one.
LEMMA LoadsIffSound ==
  ASSUME ReadInv, loading = "component", NEW c, IsComponent(c)
  PROVE  LoadsPatches(Package, c) <=>
           /\ \A m \in Members(c) : Identified(Package, m) /\ m.content # Junk
           /\ IsInjective([j \in DOMAIN c.members |-> c.members[j].path.id])
           /\ \A m \in Members(c) : m.path.id \notin ids
<1> DEFINE ms == c.members
           l == Len(ms)
<1>1. l \in Nat /\ DOMAIN ms = 1 .. l
  BY DEF IsComponent
<1>2. IsInjective([j \in DOMAIN ms |-> ms[j].path.id])
        <=> \A j \in 1 .. l : \A i \in 1 .. j - 1 : ms[j].path.id # ms[i].path.id
  <2> DEFINE e == [j \in DOMAIN ms |-> ms[j].path.id]
  <2>1. DOMAIN e = 1 .. l /\ \A j \in 1 .. l : e[j] = ms[j].path.id
    BY <1>1
  <2> HIDE DEF e, l, ms
  <2>2. (\A i, j \in 1 .. l : e[i] = e[j] => i = j)
          <=> \A j \in 1 .. l : \A i \in 1 .. j - 1 : e[j] # e[i]
    BY <1>1
  <2>3. IsInjective(e) <=> \A i, j \in 1 .. l : e[i] = e[j] => i = j
    BY <2>1 DEF IsInjective
  <2>4. \A j \in 1 .. l : \A i \in 1 .. j - 1 : i \in 1 .. l
    BY <1>1
  <2> QED BY <2>1, <2>2, <2>3, <2>4 DEF e
<1>3. LoadsPatches(Package, c) <=>
        /\ \A j \in 1 .. l : ms[j].path.id \notin ids
        /\ \A j \in 1 .. l : Identified(Package, ms[j]) /\ ms[j].content # Junk
        /\ \A j \in 1 .. l : \A i \in 1 .. j - 1 : ms[j].path.id # ms[i].path.id
  BY <1>1 DEF LoadsPatches
<1>4. \A m : m \in Members(c) <=> \E j \in 1 .. l : m = ms[j]
  BY <1>1 DEF Members, Range
<1> HIDE DEF l, ms
<1> QED BY <1>2, <1>3, <1>4 DEF ms

LEMMA ParsesIffSound ==
  ASSUME ReadInv, loading = "component", component <= Len(ComponentsOf(names[next]))
  PROVE  LET slot == <<names[next], component>>
             c == In(slot)
         IN Parses(Package, c) <=>
              /\ MembersAreSound(names[next], c) /\ OfItsOwn(slot) /\ PatchIds(c) \intersect ids = {}
              /\ c.kind = "variants" => Len(c.members) > 1 /\ OfOneTarget(c)
<1> DEFINE f == names[next]
           c == In(<<f, component>>)
           Apart == IsInjective([j \in DOMAIN c.members |-> c.members[j].path.id])
           New == \A m \in Members(c) : m.path.id \notin ids
           Good == \A m \in Members(c) : Identified(Package, m) /\ m.content # Junk
<1>1. component \in 1 .. Len(ComponentsOf(f)) /\ IsComponent(c) /\ Package = directory.packages[f]
  BY Current
<1>2. LoadsPatches(Package, c) <=> Good /\ Apart /\ New
  BY <1>1, LoadsIffSound
<1>3. c.kind = "file" => (MembersAreSound(f, c) <=> \A m \in Members(c) : Identified(Package, m))
  BY <1>1 DEF MembersAreSound
<1>4. c.kind # "file" => (MembersAreSound(f, c) <=> Good)
  BY <1>1 DEF MembersAreSound
<1>5. DOMAIN directory.patches \subseteq ids
  BY DEF ReadInv, SlotsInv, InPackages
<1>6. c.kind # "file" => (New <=> PatchIds(c) \intersect ids = {})
  BY DEF PatchIds
<1>7. c.kind = "file" => PatchIds(c) = {}
  BY DEF PatchIds
<1>8. PatchIds(c) \intersect ids = {} => (OfItsOwn(<<f, component>>) <=> (c.kind # "file" => Apart))
  BY <1>5 DEF OfItsOwn
<1>9. c.kind \in {"file", "patch", "variants"} /\ (c.kind = "patch" => Len(c.members) = 1)
  BY <1>1 DEF IsComponent
<1> HIDE DEF c, f, Apart, New, Good
<1>10. CASE c.kind = "file"
  BY <1>3, <1>7, <1>8, <1>10 DEF Parses, c, f
<1>11. CASE c.kind = "patch"
  BY <1>2, <1>4, <1>6, <1>8, <1>11 DEF Parses, c, f
<1>12. CASE c.kind = "variants"
  BY <1>2, <1>4, <1>6, <1>8, <1>12 DEF Parses, c, f
<1> QED BY <1>9, <1>10, <1>11, <1>12

\* In a sound directory there is nothing to refuse in the current component.
LEMMA SoundParses ==
  ASSUME ReadInv, loading = "component", component <= Len(ComponentsOf(names[next])),
         SoundDirectory
  PROVE  LET c == In(<<names[next], component>>)
         IN /\ Parses(Package, c)
            /\ \A i \in 1 .. component - 1 : ComponentsOf(names[next])[i].id # c.id
<1> DEFINE f == names[next]
           slot == <<f, component>>
           c == In(slot)
<1>1. /\ component \in 1 .. Len(ComponentsOf(f)) /\ IsComponent(c) /\ Package = directory.packages[f]
      /\ f \in DOMAIN directory.packages /\ slot \in Slots /\ slot \notin ReadSlots
      /\ c = ComponentsOf(f)[component] /\ DOMAIN ComponentsOf(f) = 1 .. Len(ComponentsOf(f))
      /\ Components(Package) = ComponentsOf(f) /\ Len(ComponentsOf(f)) \in Nat
  BY Current
<1>2. directory \in Directories /\ Readable /\ IdsApart /\ PackageIsSound(f) /\ VariantsAlike(Described)
  BY <1>1 DEF ReadInv, SoundDirectory, SoundCatalog
<1>3. MembersAreSound(f, c)
  <2>1. c \in Range(ComponentsOf(f))
    BY <1>1 DEF Range
  <2>2. \A m \in Members(c) :
          /\ directory.packages[f].files[m.path] = m.content
          /\ c.kind # "file" => m.content # Junk
    BY <1>2, <2>1 DEF PackageIsSound
  <2>3. \A m \in Members(c) : m.path \in Expected(directory.packages[f])
    BY <1>1, <2>1 DEF Expected
  <2>4. DOMAIN directory.packages[f].files = Expected(directory.packages[f])
    BY <1>2 DEF PackageIsSound
  <2> QED BY <2>2, <2>3, <2>4 DEF MembersAreSound, Identified
<1>4. OfItsOwn(slot)
  BY <1>1, <1>2 DEF IdsApart, OfItsOwn
<1>5. PatchIds(c) \intersect ids = {}
  <2>1. PatchIds(c) \intersect DOMAIN directory.patches = {}
    BY <1>4 DEF OfItsOwn, PatchIds
  <2>2. \A s \in ReadSlots : PatchIds(c) \intersect PatchIds(In(s)) = {}
    BY <1>1, <1>2 DEF IdsApart, ReadSlots
  <2>3. ids = DOMAIN directory.patches \union UNION {PatchIds(In(s)) : s \in ReadSlots}
    BY DEF ReadInv, SlotsInv, InPackages
  <2> QED BY <2>1, <2>2, <2>3
<1>6. c.kind = "variants" => Len(c.members) > 1 /\ OfOneTarget(c)
  BY <1>1, <1>2, VariantsAlikeIs DEF VariantSlots
<1>7. Parses(Package, c)
  BY <1>1, <1>3, <1>4, <1>5, <1>6, ParsesIffSound
<1>8. ASSUME NEW i \in 1 .. component - 1 PROVE ComponentsOf(f)[i].id # c.id
  <2> DEFINE e == [k \in DOMAIN ComponentsOf(f) |-> ComponentsOf(f)[k].id]
  <2>1. IsInjective(e)
    BY <1>2 DEF PackageIsSound
  <2>2. i \in DOMAIN e /\ component \in DOMAIN e /\ i # component
    BY <1>1
  <2>3. e[i] = ComponentsOf(f)[i].id /\ e[component] = c.id
    BY <1>1, <2>2
  <2> HIDE DEF e
  <2> QED BY <2>1, <2>2, <2>3 DEF IsInjective
<1> QED BY <1>7, <1>8

LEMMA ParseComponentKeeps == ASSUME ReadInv, ParseComponent PROVE ReadInv'
<1> DEFINE f == names[next]
           cs == ComponentsOf(f)
           slot == <<f, component>>
           c == In(slot)
<1>1. /\ directory \in Directories /\ directory' = directory /\ names' = names
      /\ targets' = targets /\ loading = "component"
      /\ component <= Len(cs)
  BY DEF ReadInv, ParseComponent, Package, Components, ComponentsOf
<1>2. /\ Lists(names, DOMAIN directory.packages) /\ next \in 1 .. Len(names)
      /\ component \in 1 .. Len(cs) /\ Len(cs) \in Nat /\ DOMAIN cs = 1 .. Len(cs)
      /\ f \in DOMAIN directory.packages /\ Components(Package) = cs
      /\ slot \in Slots /\ slot \notin ReadSlots /\ c = cs[component] /\ IsComponent(c)
      /\ f \notin Finished
  BY <1>1, Current
<1>3. /\ ids' = ids \union PatchIds(c)
      /\ ReachIf(Parses(Package, c) /\ c.id \notin {cs[i].id : i \in 1 .. component - 1},
                 "component", next, component + 1)
  BY <1>2 DEF ParseComponent
<1>4. CASE Parses(Package, c) /\ c.id \notin {cs[i].id : i \in 1 .. component - 1}
  <2>1. loading' = "component" /\ next' = next /\ component' = component + 1
    BY <1>3, <1>4 DEF ReachIf, Reach
  <2>2. /\ MembersAreSound(f, c) /\ OfItsOwn(slot) /\ PatchIds(c) \intersect ids = {}
        /\ c.kind = "variants" => Len(c.members) > 1 /\ OfOneTarget(c)
    BY <1>1, <1>4, ParsesIffSound
  <2>3. Finished' = Finished
    BY <1>1, <2>1 DEF Finished
  <2>4. ReadSlots' = ReadSlots \union {slot}
    <3>1. ASSUME NEW s \in Slots PROVE WasRead(s)' <=> WasRead(s) \/ s = slot
      <4>1. s[1] = f => s[2] \in Nat
        BY <1>2, SlotHas
      <4>2. s = slot <=> s[1] = f /\ s[2] = component
        BY SlotHas
      <4>3. WasRead(s)' <=> s[1] \in Finished \/ (s[1] = f /\ s[2] < component + 1)
        BY <1>1, <2>1, <2>3 DEF WasRead
      <4>4. WasRead(s) <=> s[1] \in Finished \/ (s[1] = f /\ s[2] < component)
        BY <1>1 DEF WasRead
      <4>5. component \in Nat
        BY <1>2
      <4> HIDE DEF f, slot
      <4>6. s[1] = f => (s[2] < component + 1 <=> s[2] < component \/ s[2] = component)
        BY <4>1, <4>5
      <4> QED BY <4>2, <4>3, <4>4, <4>6
    <3> QED BY <1>1, <1>2, <3>1, DirectoryStays DEF ReadSlots
  <2>5. CurrentInv'
    <3>1. ASSUME NEW i \in 1 .. component
          PROVE  /\ MembersAreSound(f, cs[i])
                 /\ \A j \in 1 .. component : cs[i].id = cs[j].id => i = j
      <4>1. /\ \A k \in 1 .. component - 1 :
                 /\ MembersAreSound(f, cs[k])
                 /\ \A j \in 1 .. component - 1 : cs[k].id = cs[j].id => k = j
            /\ MembersAreSound(f, cs[component])
            /\ \A j \in 1 .. component - 1 : cs[j].id # cs[component].id
        BY <1>1, <1>2, <1>4, <2>2 DEF ReadInv, CurrentInv
      <4>2. \A j \in 1 .. component : j = component \/ j \in 1 .. component - 1
        BY <1>2
      <4> QED BY <4>1, <4>2
    <3>2. component' \in 1 .. Len(cs) + 1 /\ component' - 1 = component
      BY <1>2, <2>1
    <3>3. ManifestOf(f) # Junk /\ next <= Len(names)
      BY <1>1 DEF ReadInv, CurrentInv
    <3> QED BY <1>1, <2>1, <3>1, <3>2, <3>3, DirectoryStays DEF CurrentInv
  <2>6. SlotsInv'
    <3>1. /\ ids = DOMAIN directory.patches \union UNION {PatchIds(In(s)) : s \in ReadSlots}
          /\ \A s \in ReadSlots :
               /\ OfItsOwn(s)
               /\ In(s).kind = "variants" => Len(In(s).members) > 1 /\ OfOneTarget(In(s))
               /\ \A t \in ReadSlots : s # t => PatchIds(In(s)) \intersect PatchIds(In(t)) = {}
      BY <1>1 DEF ReadInv, SlotsInv, InPackages
    <3> DEFINE All == ReadSlots \union {slot}
    <3>2. ids' = DOMAIN directory.patches \union UNION {PatchIds(In(s)) : s \in All}
      BY <1>3, <3>1
    <3>3. \A s \in ReadSlots : PatchIds(In(s)) \intersect PatchIds(c) = {}
      BY <2>2, <3>1
    <3>4. \A s \in All :
            /\ OfItsOwn(s)
            /\ In(s).kind = "variants" => Len(In(s).members) > 1 /\ OfOneTarget(In(s))
      BY <2>2, <3>1
    <3>5. \A s, t \in All : s # t => PatchIds(In(s)) \intersect PatchIds(In(t)) = {}
      <4> HIDE DEF slot
      <4> QED BY <3>1, <3>3
    <3> HIDE DEF All
    <3>6. ReadSlots' = All
      BY <2>4 DEF All
    <3> QED BY <1>1, <3>2, <3>4, <3>5, <3>6, DirectoryStays DEF SlotsInv
  <2>7. PackagesInv' /\ TargetsInv' /\ PublicInv'
    BY <1>1, <2>1, <2>3, DirectoryStays
    DEF ReadInv, PublicInv, PackagesInv, TargetsInv, InPackages, Lists
  <2> QED BY <1>1, <2>1, <2>5, <2>6, <2>7 DEF ReadInv, PatchesInv, OutcomeInv
<1>5. CASE ~(Parses(Package, c) /\ c.id \notin {cs[i].id : i \in 1 .. component - 1})
  <2>1. loading' = "rejected"
    BY <1>3, <1>5 DEF ReachIf, Reach
  <2>2. ~SoundDirectory
    BY <1>1, <1>5, SoundParses
  <2> QED BY <1>1, <2>1, <2>2, RejectedKeeps
<1> QED BY <1>4, <1>5

LEMMA EndPackageKeeps == ASSUME ReadInv, EndPackage PROVE ReadInv'
<1> DEFINE f == names[next]
           cs == ComponentsOf(f)
           New == PackageTargets(f)
           Ends == /\ cs # <<>> /\ UnexpectedFiles(directory.packages[f]) = {}
                   /\ IsInjective(Targets(directory.packages[f])) /\ New \intersect targets = {}
<1>1. /\ directory \in Directories /\ directory' = directory /\ names' = names
      /\ ids' = ids /\ loading = "component" /\ component > Len(cs)
  BY DEF ReadInv, EndPackage, Package, Components, ComponentsOf
<1>2. /\ Lists(names, DOMAIN directory.packages) /\ next \in 1 .. Len(names)
      /\ component = Len(cs) + 1 /\ Len(cs) \in Nat /\ DOMAIN cs = 1 .. Len(cs)
      /\ f \in DOMAIN directory.packages /\ Components(Package) = cs
      /\ Package = directory.packages[f] /\ f \notin Finished
  <2>1. component \in 1 .. Len(cs) + 1 /\ Len(cs) \in Nat
    BY <1>1, Current
  <2>2. component = Len(cs) + 1
    BY <1>1, <2>1
  <2> QED BY <1>1, <2>1, <2>2, Current
<1>3. targets' = targets \union New /\ ReachIf(Ends, "manifest", next + 1, 1)
  BY <1>2 DEF EndPackage, PackageTargets
<1>4. /\ targets = UNION {PackageTargets(g) : g \in Finished}
      /\ \A g, h \in Finished : g # h => PackageTargets(g) \intersect PackageTargets(h) = {}
  BY <1>1 DEF ReadInv, TargetsInv, InPackages
<1>5. CASE Ends
  <2>1. loading' = "manifest" /\ next' = next + 1
    BY <1>3, <1>5 DEF ReachIf, Reach
  <2>2. Finished' = Finished \union {f}
    <3>1. Finished' = {names[i] : i \in 1 .. next}
      BY <1>1, <1>2, <2>1 DEF Finished
    <3>2. 1 .. next = (1 .. next - 1) \union {next}
      BY <1>2
    <3> QED BY <3>1, <3>2 DEF Finished
  <2>3. ReadSlots' = ReadSlots
    <3>1. ASSUME NEW s \in Slots PROVE WasRead(s)' <=> WasRead(s)
      <4>1. s[1] = f => s[2] < component
        BY <1>2, SlotHas
      <4> QED BY <1>1, <2>1, <2>2, <4>1 DEF WasRead
    <3> QED BY <1>1, <3>1, DirectoryStays DEF ReadSlots
  <2>4. PackageIsSound(f)
    <3>1. ASSUME NEW i \in 1 .. Len(cs)
          PROVE  /\ MembersAreSound(f, cs[i])
                 /\ \A j \in 1 .. Len(cs) : cs[i].id = cs[j].id => i = j
      BY <1>1, <1>2 DEF ReadInv, CurrentInv
    <3>2. IsInjective([i \in DOMAIN cs |-> cs[i].id])
      <4> DEFINE e == [i \in DOMAIN cs |-> cs[i].id]
      <4>1. DOMAIN e = 1 .. Len(cs) /\ \A i \in 1 .. Len(cs) : e[i] = cs[i].id
        BY <1>2
      <4> HIDE DEF e, cs
      <4> QED BY <3>1, <4>1 DEF IsInjective, e
    <3>3. DOMAIN directory.packages[f].files = Expected(directory.packages[f])
      BY <1>5 DEF UnexpectedFiles
    <3>4. \A c \in Range(cs) : \A m \in Members(c) :
            /\ directory.packages[f].files[m.path] = m.content
            /\ c.kind # "file" => m.content # Junk
      BY <1>2, <3>1 DEF Range, MembersAreSound, Identified
    <3> HIDE DEF cs
    <3> QED BY <1>5, <3>2, <3>3, <3>4 DEF PackageIsSound, cs
  <2>5. PackagesInv'
    <3>1. ManifestOf(f) # Junk
      BY <1>1 DEF ReadInv, CurrentInv
    <3>2. \A g \in Finished : ManifestOf(g) # Junk /\ PackageIsSound(g)
      BY <1>1 DEF ReadInv, PackagesInv, InPackages
    <3>3. next' \in 1 .. Len(names) + 1
      BY <1>2, <2>1 DEF Lists
    <3> QED BY <1>1, <1>2, <2>1, <2>2, <2>4, <3>1, <3>2, <3>3, DirectoryStays
        DEF PackagesInv, Lists
  <2>6. TargetsInv'
    <3> HIDE DEF f
    <3>1. targets' = UNION {PackageTargets(g) : g \in Finished \union {f}}
      BY <1>3, <1>4
    <3>2. \A g \in Finished : PackageTargets(g) \intersect New = {}
      BY <1>4, <1>5
    <3>3. \A g, h \in Finished \union {f} : g # h => PackageTargets(g) \intersect PackageTargets(h) = {}
      BY <1>4, <3>2
    <3> QED BY <1>1, <2>2, <3>1, <3>3, DirectoryStays DEF TargetsInv
  <2>7. SlotsInv' /\ PublicInv'
    BY <1>1, <2>1, <2>3, DirectoryStays DEF ReadInv, PublicInv, SlotsInv, InPackages
  <2> QED BY <1>1, <2>1, <2>5, <2>6, <2>7 DEF ReadInv, PatchesInv, CurrentInv, OutcomeInv
<1>6. CASE ~Ends
  <2>1. loading' = "rejected"
    BY <1>3, <1>6 DEF ReachIf, Reach
  <2>2. ASSUME SoundDirectory PROVE FALSE
    <3>1. PackageIsSound(f) /\ PayloadsApart(Described)
      BY <1>2, <2>2 DEF SoundDirectory, SoundCatalog
    <3>2. New \intersect targets = {}
      <4>1. \A g \in Finished : g \in DOMAIN directory.packages
        BY <1>2 DEF Finished, Lists
      <4>2. \A g \in Finished : PackageTargets(g) \intersect New = {}
        BY <1>2, <3>1, <4>1, DescribedIs DEF PayloadsApart, PackageTargets
      <4> QED BY <1>4, <4>2
    <3>3. UnexpectedFiles(directory.packages[f]) = {}
      BY <3>1 DEF PackageIsSound, UnexpectedFiles
    <3> QED BY <1>6, <3>1, <3>2, <3>3 DEF PackageIsSound
  <2> QED BY <1>1, <2>1, <2>2, RejectedKeeps
<1> QED BY <1>5, <1>6

\* With all packages read, the catalog is sound if the last checks say so.
LEMMA ValidateKeeps == ASSUME ReadInv, Validate PROVE ReadInv'
<1> DEFINE Payloads == UNION {PackageTargets(f) : f \in DOMAIN directory.packages}
           Valid == /\ Cardinality(ids) <= MaxPatches
                    /\ Resolvable(Described) /\ ~Cyclic(Described)
                    /\ targets \intersect {r.target : r \in Recipes(Described)} = {}
                    /\ WithinLimits
<1>1. /\ directory \in Directories /\ directory' = directory
      /\ loading = "manifest" /\ next > Len(names)
      /\ ReachIf(Valid, "loaded", next, 1)
  BY DEF ReadInv, Validate
<1>2. Lists(names, DOMAIN directory.packages) /\ next = Len(names) + 1
  BY <1>1 DEF ReadInv, PackagesInv, InPackages, Lists
<1>3. Finished = DOMAIN directory.packages
  BY <1>2 DEF Finished, Lists
<1>4. ReadSlots = Slots
  BY <1>3, SlotHas DEF ReadSlots, WasRead
<1>5. Readable /\ \A f \in DOMAIN directory.packages : PackageIsSound(f)
  BY <1>1, <1>3 DEF ReadInv, PublicInv, PackagesInv, InPackages, Readable
<1>6. ids = AllIds
  BY <1>1, <1>4 DEF ReadInv, SlotsInv, InPackages, AllIds
<1>7. IdsApart
  BY <1>1, <1>4 DEF ReadInv, SlotsInv, InPackages, IdsApart, OfItsOwn
<1>8. VariantsAlike(Described)
  <2>1. \A s \in VariantSlots : Len(In(s).members) > 1 /\ OfOneTarget(In(s))
    BY <1>1, <1>4 DEF ReadInv, SlotsInv, InPackages, VariantSlots
  <2> QED BY <1>1, <1>5, <1>7, <2>1, VariantsAlikeIs
<1>9. targets = Payloads /\ \A f, g \in DOMAIN directory.packages :
                              f # g => PackageTargets(f) \intersect PackageTargets(g) = {}
  BY <1>1, <1>3 DEF ReadInv, TargetsInv, InPackages
<1>10. PayloadsApart(Described) <=> targets \intersect {r.target : r \in Recipes(Described)} = {}
  <2> DEFINE Patched == {r.target : r \in Recipes(Described)}
  <2>1. PayloadsApart(Described) <=>
          \A f \in DOMAIN directory.packages : PackageTargets(f) \intersect Patched = {}
    <3>1. \A f \in DOMAIN directory.packages : Described.payloads[f] = PackageTargets(f)
      BY DescribedIs DEF PackageTargets
    <3> HIDE DEF Patched
    <3> QED BY <1>9, <3>1, DescribedIs DEF PayloadsApart, Patched
  <2>2. \A t : t \in targets <=> \E f \in DOMAIN directory.packages : t \in PackageTargets(f)
    BY <1>9
  <2> HIDE DEF Patched
  <2> QED BY <2>1, <2>2 DEF Patched
<1>11. PatchesApart(Described)
  BY <1>1, <1>5, <1>7, DescribedPatchesApart
<1>12. Valid <=> SoundDirectory
  BY <1>5, <1>6, <1>7, <1>8, <1>10, <1>11 DEF SoundDirectory, SoundCatalog, WithinLimits, DefinitionsFit
<1> HIDE DEF Valid
<1>13. CASE Valid
  <2>1. loading' = "loaded"
    BY <1>1, <1>13 DEF ReachIf, Reach
  <2> QED BY <1>1, <1>12, <1>13, <2>1, DirectoryStays
      DEF ReadInv, PatchesInv, PublicInv, InPackages, PackagesInv, CurrentInv, SlotsInv,
          TargetsInv, OutcomeInv
<1>14. CASE ~Valid
  <2>1. loading' = "rejected"
    BY <1>1, <1>14 DEF ReachIf, Reach
  <2> QED BY <1>1, <1>12, <1>14, <2>1, RejectedKeeps
<1> QED BY <1>13, <1>14

LEMMA ReadStutterKeeps == ASSUME ReadInv, UNCHANGED readVars PROVE ReadInv'
<1>1. /\ directory' = directory /\ names' = names /\ next' = next /\ loading' = loading
      /\ public' = public /\ component' = component /\ ids' = ids /\ targets' = targets
  BY DEF readVars
<1>2. Finished' = Finished
  BY <1>1 DEF Finished
<1>3. ReadSlots' = ReadSlots
  BY <1>1, <1>2, DirectoryStays DEF ReadSlots, WasRead
<1>4. PatchesInv' /\ PublicInv'
  BY <1>1, DirectoryStays DEF ReadInv, PatchesInv, PublicInv, Lists
<1>5. PackagesInv'
  BY <1>1, <1>2, DirectoryStays DEF ReadInv, PackagesInv, InPackages, Lists
<1>6. CurrentInv'
  BY <1>1, DirectoryStays DEF ReadInv, CurrentInv
<1>7. SlotsInv' /\ TargetsInv' /\ OutcomeInv'
  BY <1>1, <1>2, <1>3, DirectoryStays DEF ReadInv, SlotsInv, TargetsInv, OutcomeInv, InPackages
<1> QED BY <1>1, <1>4, <1>5, <1>6, <1>7 DEF ReadInv

LEMMA ReadSpecKeepsInv == ReadSpec => []ReadInv
<1>1. ReadInv /\ [ReadNext]_readVars => ReadInv'
  BY ListPatchesKeeps, ReadPatchKeeps, CheckPatchesKeeps, ListPackagesKeeps, ReadManifestKeeps,
     ParseComponentKeeps, EndPackageKeeps, ValidateKeeps, ReadStutterKeeps DEF ReadNext
<1> QED BY <1>1, ReadInitIsInv, PTL DEF ReadSpec

(***************************************************************************)
(* load_feature_catalog accepts no catalog that lacks what planning and    *)
(* installing rely on, and refuses none that has it, unless the names of   *)
(* its patch files are in another order than the ids: for any number of    *)
(* patches, packages, components and variants.                             *)
(***************************************************************************)
THEOREM CatalogIsPromised == ReadSpec => []CatalogIsAsPromised
<1>1. ReadInv => CatalogIsAsPromised
  BY DEF ReadInv, OutcomeInv, CatalogIsAsPromised, AcceptedIsSound, SoundIsAccepted
<1> QED BY <1>1, ReadSpecKeepsInv, PTL
=============================================================================
