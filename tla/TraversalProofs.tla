-------------------------- MODULE TraversalProofs --------------------------
(***************************************************************************)
(* Proofs about the traversal builder (module Traversal) for every value  *)
(* of its constants.                                                       *)
(***************************************************************************)
EXTENDS Traversal, TLAPS, SequenceTheorems

USE TraversalAssumption

\* The inputs a caller passes are well typed.
LEMMA StepInputsTyped == StepInputs \subseteq Step
BY DEF StepInputs, Step

LEMMA StartListsTyped == StartLists \subseteq Seq(Nodes)
<1> SUFFICES ASSUME NEW ns \in StartLists PROVE ns \in Seq(Nodes)
  OBVIOUS
<1>1. PICK m \in 0..MaxStartNodes : ns \in [1..m -> Nodes]
  BY DEF StartLists, SeqOf
<1>2. QED
  BY <1>1, SMT

\* A traversal object and the step list it points at are well typed.
LEMMA TraversalTyped ==
  ASSUME TypeOK, NEW t \in 1..Len(travs)
  PROVE  /\ travs[t].max_total_depth \in {None} \cup Int
         /\ travs[t].include_paths \in BOOLEAN
         /\ StepsOf(t) \in Seq(Step)
<1>1. travs[t] \in TraversalObject
  BY SMT DEF TypeOK
<1>2. travs[t].steps \in 1..Len(stepsHeap)
  BY DEF TypeOK
<1>3. stepsHeap[travs[t].steps] \in Seq(Step)
  BY <1>2, ElementOfSeq DEF TypeOK
<1>4. QED
  BY <1>1, <1>3 DEF TraversalObject, StepsOf

\* The object a successful builder call appends is a traversal object.
LEMMA NewTraversalTyped ==
  ASSUME TypeOK, NEW t \in 1..Len(travs),
         NEW total \in {None} \cup Int, NEW paths \in BOOLEAN, NEW op \in Ops
  PROVE  NewTraversal(t, FreshSteps, total, paths, op) \in TraversalObject
<1>1. travs[t].start \in Nat
  BY SMT DEF TypeOK
<1>2. FreshSteps \in Nat
  BY SMT DEF TypeOK, FreshSteps
<1>3. t \in Nat /\ op \in Ops
  OBVIOUS
<1>4. QED
  BY <1>1, <1>2, <1>3, SMT DEF NewTraversal, TraversalObject

(***************************************************************************)
(* Every builder call that succeeds allocates one step list and appends   *)
(* one traversal object that points at it and shares its receiver's      *)
(* start list; such a step keeps the heaps and pointers well formed.      *)
(***************************************************************************)
LEMMA DerivedTyped ==
  ASSUME TypeOK, NEW t \in 1..Len(travs), NEW l \in Seq(Step),
         NEW total \in {None} \cup Int, NEW paths \in BOOLEAN, NEW op \in Ops,
         stepsHeap' = Append(stepsHeap, l),
         travs' = Append(travs, NewTraversal(t, FreshSteps, total, paths, op)),
         outcome' = "ok", nodesHeap' = nodesHeap
  PROVE TypeOK'
<1> DEFINE r == NewTraversal(t, FreshSteps, total, paths, op)
<1>1. r \in TraversalObject
  BY NewTraversalTyped
<1>2. stepsHeap' \in Seq(Seq(Step)) /\ travs' \in Seq(TraversalObject)
  BY <1>1 DEF TypeOK
<1>3. Len(stepsHeap') = Len(stepsHeap) + 1 /\ Len(travs') = Len(travs) + 1
  BY DEF TypeOK
<1>4. ASSUME NEW u \in 1..Len(travs')
      PROVE /\ travs'[u].start \in 1..Len(nodesHeap')
            /\ travs'[u].steps \in 1..Len(stepsHeap')
            /\ travs'[u].parent \in 0..(u - 1)
  <2>1. CASE u = Len(travs) + 1
    <3>1. travs'[u] = r
      BY <2>1 DEF TypeOK
    <3>2. travs[t].start \in 1..Len(nodesHeap)
      BY DEF TypeOK
    <3>3. /\ r.start = travs[t].start
          /\ r.steps = Len(stepsHeap) + 1
          /\ r.parent = t
      BY DEF r, NewTraversal, FreshSteps
    <3>4. QED
      BY <2>1, <1>3, <3>1, <3>2, <3>3, SMT DEF TypeOK
  <2>2. CASE u \in 1..Len(travs)
    <3>1. travs'[u] = travs[u]
      BY <2>2, SMT DEF TypeOK
    <3>2. QED
      BY <2>2, <3>1, <1>3 DEF TypeOK
  <2>3. u = Len(travs) + 1 \/ u \in 1..Len(travs)
    BY <1>3, SMT DEF TypeOK
  <2>4. QED
    BY <2>1, <2>2, <2>3
<1>5. QED
  BY <1>2, <1>4 DEF TypeOK, Outcomes

(***************************************************************************)
(* Type correctness: the heaps, the traversal objects and their pointers  *)
(* stay well formed under every builder call.                             *)
(***************************************************************************)
LEMMA TypeOKStep == TypeOK /\ [Next]_vars => TypeOK'
  <2> SUFFICES ASSUME TypeOK, [Next]_vars PROVE TypeOK'
    OBVIOUS
  <2>1. ASSUME NEW ns \in StartLists, CreateTraversalFromNodes(ns) PROVE TypeOK'
    <3> DEFINE r == [start |-> Len(nodesHeap) + 1, steps |-> FreshSteps,
                     max_total_depth |-> None, include_paths |-> FALSE,
                     parent |-> 0, op |-> "create"]
    <3>1. r \in TraversalObject
      BY SMT DEF TypeOK, FreshSteps, TraversalObject, Ops
    <3>2. /\ stepsHeap' = Append(stepsHeap, <<>>)
          /\ nodesHeap' = Append(nodesHeap, ns)
          /\ travs' = Append(travs, r)
          /\ outcome' = "ok"
      BY <2>1 DEF CreateTraversalFromNodes, FreshSteps
    <3>3. /\ stepsHeap' \in Seq(Seq(Step))
          /\ nodesHeap' \in Seq(Seq(Nodes))
          /\ travs' \in Seq(TraversalObject)
      BY <3>1, <3>2, StartListsTyped DEF TypeOK
    <3>4. ASSUME NEW u \in 1..Len(travs')
          PROVE /\ travs'[u].start \in 1..Len(nodesHeap')
                /\ travs'[u].steps \in 1..Len(stepsHeap')
                /\ travs'[u].parent \in 0..(u - 1)
      <4>1. CASE u = Len(travs) + 1
        BY <4>1, <3>2, SMT DEF TypeOK, FreshSteps
      <4>2. CASE u \in 1..Len(travs)
        <5>0. /\ travs[u].start \in 1..Len(nodesHeap)
              /\ travs[u].steps \in 1..Len(stepsHeap)
              /\ travs[u].parent \in 0..(u - 1)
          BY <4>2 DEF TypeOK
        <5>1. travs'[u] = travs[u]
          BY <4>2, <3>2, SMT DEF TypeOK
        <5>3. /\ Len(nodesHeap') = Len(nodesHeap) + 1
              /\ Len(stepsHeap') = Len(stepsHeap) + 1
          BY <3>2 DEF TypeOK
        <5>4. Len(nodesHeap) \in Nat /\ Len(stepsHeap) \in Nat
          BY DEF TypeOK
        <5>2. QED
          BY <5>0, <5>1, <5>3, <5>4, SMT
      <4>3. QED
        BY <4>1, <4>2, <3>2, SMT DEF TypeOK
    <3>5. QED
      BY <3>2, <3>3, <3>4 DEF TypeOK, Outcomes
  <2>2. ASSUME NEW t \in 1..Len(travs), NEW s \in StepInputs, AddStep(t, s) PROVE TypeOK'
    <3>1. s \in Step
      BY StepInputsTyped
    <3>2. CASE IsValidStep(s)
      <4>1. Append(StepsOf(t), s) \in Seq(Step)
        BY <3>1, TraversalTyped
      <4>2. QED
        BY <2>2, <3>2, <4>1, TraversalTyped, DerivedTyped DEF AddStep, Ops
    <3>3. CASE ~IsValidStep(s)
      BY <2>2, <3>3 DEF AddStep, TypeOK, Outcomes
    <3>4. QED
      BY <3>2, <3>3
  <2>3. ASSUME NEW t \in 1..Len(travs), NEW d \in DepthInputs, WithDepthLimit(t, d) PROVE TypeOK'
    <3>1. CASE d < 0
      BY <2>3, <3>1 DEF WithDepthLimit, TypeOK, Outcomes
    <3>2. CASE ~(d < 0)
      <4>1. d \in Int
        BY DEF TypeOK
      <4>2. QED
        BY <2>3, <3>2, <4>1, TraversalTyped, DerivedTyped DEF WithDepthLimit, Ops
    <3>3. QED
      BY <3>1, <3>2
  <2>4. ASSUME NEW t \in 1..Len(travs), IncludePaths(t) PROVE TypeOK'
    BY <2>4, TraversalTyped, DerivedTyped DEF IncludePaths, Ops
  <2>5. ASSUME NEW t \in 1..Len(travs), Execute(t) PROVE TypeOK'
    BY <2>5 DEF Execute, TypeOK, Outcomes
  <2>6. CASE UNCHANGED vars
    BY <2>6 DEF vars, TypeOK
  <2>7. QED
    BY <2>1, <2>2, <2>3, <2>4, <2>5, <2>6 DEF Next

THEOREM TypeCorrect == Spec => []TypeOK
<1>1. Init => TypeOK
  BY SMT DEF Init, TypeOK, Outcomes
<1>2. QED
  BY <1>1, TypeOKStep, PTL DEF Spec

(***************************************************************************)
(* No step rewrites an existing traversal object, or the step list and    *)
(* start list it points at: every builder call only allocates.            *)
(***************************************************************************)
LEMMA OldUnchanged ==
  ASSUME TypeOK, [Next]_vars
  PROVE  /\ Len(travs) <= Len(travs')
         /\ \A t \in 1..Len(travs) :
               /\ travs'[t] = travs[t]
               /\ stepsHeap'[travs[t].steps] = stepsHeap[travs[t].steps]
               /\ nodesHeap'[travs[t].start] = nodesHeap[travs[t].start]
<1> DEFINE Kept ==
      /\ Len(travs) <= Len(travs')
      /\ \A t \in 1..Len(travs) :
            /\ travs'[t] = travs[t]
            /\ stepsHeap'[travs[t].steps] = stepsHeap[travs[t].steps]
            /\ nodesHeap'[travs[t].start] = nodesHeap[travs[t].start]
<1> SUFFICES Kept
  OBVIOUS
\* The shape every allocating call has.
<1>1. ASSUME NEW x, NEW y, NEW z,
             stepsHeap' = Append(stepsHeap, x), travs' = Append(travs, y),
             \/ nodesHeap' = nodesHeap
             \/ nodesHeap' = Append(nodesHeap, z)
      PROVE  Kept
  <2>1. /\ stepsHeap \in Seq(Seq(Step))
        /\ travs \in Seq(TraversalObject)
        /\ nodesHeap \in Seq(Seq(Nodes))
        /\ \A t \in 1..Len(travs) :
              /\ travs[t].steps \in 1..Len(stepsHeap)
              /\ travs[t].start \in 1..Len(nodesHeap)
    BY DEF TypeOK
  <2>2. /\ Len(travs') = Len(travs) + 1
        /\ \A i \in 1..Len(travs) : travs'[i] = travs[i]
    BY <1>1, <2>1, SMT
  <2>3. \A i \in 1..Len(stepsHeap) : stepsHeap'[i] = stepsHeap[i]
    BY <1>1, <2>1, SMT
  <2>4. \A i \in 1..Len(nodesHeap) : nodesHeap'[i] = nodesHeap[i]
    BY <1>1, <2>1, SMT
  <2>5. ASSUME NEW t \in 1..Len(travs)
        PROVE  /\ travs'[t] = travs[t]
               /\ stepsHeap'[travs[t].steps] = stepsHeap[travs[t].steps]
               /\ nodesHeap'[travs[t].start] = nodesHeap[travs[t].start]
    <3>1. travs[t].steps \in 1..Len(stepsHeap) /\ travs[t].start \in 1..Len(nodesHeap)
      BY <2>1
    <3> QED
      BY <3>1, <2>2, <2>3, <2>4
  <2>6. Len(travs) <= Len(travs')
    BY <2>1, <2>2, SMT
  <2> QED
    BY <2>5, <2>6
<1>2. CASE UNCHANGED vars
  BY <1>2 DEF vars
<1>3. ASSUME NEW ns \in StartLists, CreateTraversalFromNodes(ns) PROVE Kept
  BY <1>1, <1>3 DEF CreateTraversalFromNodes
<1>4. ASSUME NEW t \in 1..Len(travs), NEW s \in StepInputs, AddStep(t, s) PROVE Kept
  <2>1. CASE IsValidStep(s)
    BY <1>1, <1>4, <2>1 DEF AddStep
  <2>2. CASE ~IsValidStep(s)
    BY <1>4, <2>2 DEF AddStep
  <2>3. QED
    BY <2>1, <2>2
<1>5. ASSUME NEW t \in 1..Len(travs), NEW d \in DepthInputs, WithDepthLimit(t, d) PROVE Kept
  <2>1. CASE d < 0
    BY <1>5, <2>1 DEF WithDepthLimit
  <2>2. CASE ~(d < 0)
    BY <1>1, <1>5, <2>2 DEF WithDepthLimit
  <2>3. QED
    BY <2>1, <2>2
<1>6. ASSUME NEW t \in 1..Len(travs), IncludePaths(t) PROVE Kept
  BY <1>1, <1>6 DEF IncludePaths
<1>7. ASSUME NEW t \in 1..Len(travs), Execute(t) PROVE Kept
  BY <1>7 DEF Execute
<1>8. QED
  BY <1>2, <1>3, <1>4, <1>5, <1>6, <1>7 DEF Next

(***************************************************************************)
(* Immutability (TraversalImmutable): whatever call the caller makes, on  *)
(* whichever traversal, every traversal returned earlier keeps denoting    *)
(* the same start nodes, steps and settings.                              *)
(***************************************************************************)
THEOREM Immutable == Spec => TraversalImmutable
<1>1. TypeOK /\ [Next]_vars => [\A t \in 1..Len(travs) : View(t)' = View(t)]_vars
  BY OldUnchanged DEF View, StepsOf
<1>2. QED
  BY <1>1, TypeCorrect, PTL DEF Spec, TraversalImmutable

\* What a traversal created before a step denotes is the same after it.
LEMMA ViewStable ==
  ASSUME TypeOK, [Next]_vars, NEW t \in 1..Len(travs)
  PROVE  /\ t \in 1..Len(travs')
         /\ travs'[t] = travs[t]
         /\ StepsOf(t)' = StepsOf(t)
         /\ View(t)' = View(t)
BY OldUnchanged, SMT DEF View, StepsOf

\* A list is a prefix of itself.
LEMMA PrefixRefl ==
  ASSUME NEW S, NEW x \in Seq(S)
  PROVE  IsPrefix(x, x)
BY SMT DEF IsPrefix

\* A list is a prefix of itself with one element appended.
LEMMA PrefixOfAppend ==
  ASSUME NEW S, NEW x \in Seq(S), NEW e \in S
  PROVE  IsPrefix(x, Append(x, e))
BY SMT DEF IsPrefix

(***************************************************************************)
(* DerivedExtendsBase holds in every state: a derived traversal keeps its *)
(* receiver's start list, all of its steps in order, and every setting    *)
(* other than the one its call changes. Together with TypeOK it is        *)
(* inductive, since no call rewrites a traversal that already exists.     *)
(***************************************************************************)
DerivedInv == TypeOK /\ DerivedExtendsBase

THEOREM DerivedExtendsBaseHolds == Spec => []DerivedExtendsBase
<1>1. Init => DerivedInv
  BY DEF Init, DerivedInv, TypeOK, Outcomes, DerivedExtendsBase
<1>2. DerivedInv /\ [Next]_vars => DerivedInv'
  <2> SUFFICES ASSUME TypeOK, DerivedExtendsBase, [Next]_vars
               PROVE  DerivedExtendsBase'
    BY TypeOKStep DEF DerivedInv
  <2>1. TypeOK'
    BY TypeOKStep
  \* The derived traversal a successful call appends, with its receiver t.
  <2>2. ASSUME NEW u \in 1..Len(travs) PROVE DerivedFrom(u)'
    <3>1. DerivedFrom(u)
      BY DEF DerivedExtendsBase
    <3>0. travs'[u] = travs[u] /\ StepsOf(u)' = StepsOf(u) /\ View(u)' = View(u)
      BY ViewStable
    <3>2. CASE travs[u].op = "create"
      BY <3>0, <3>2 DEF DerivedFrom
    <3>3. CASE travs[u].op # "create"
      <4> DEFINE b == travs[u].parent
      <4>1. b \in 1..(u - 1)
        BY <3>1, <3>3 DEF DerivedFrom
      <4>2. b \in 1..Len(travs)
        BY <4>1, SMT DEF TypeOK
      <4>3. travs'[b] = travs[b] /\ StepsOf(b)' = StepsOf(b) /\ View(b)' = View(b)
        BY <4>2, ViewStable
      <4>4. QED
        BY <3>0, <3>1, <4>3, Zenon DEF DerivedFrom
    <3>4. QED
      BY <3>2, <3>3
  <2>3. ASSUME NEW u \in 1..Len(travs'), u \notin 1..Len(travs) PROVE DerivedFrom(u)'
    \* What a successful builder call on t leaves at the new index u.
    <3>1. ASSUME NEW t \in 1..Len(travs), NEW l \in Seq(Step),
                 NEW tot \in {None} \cup Int, NEW pa \in BOOLEAN, NEW o \in Ops,
                 stepsHeap' = Append(stepsHeap, l),
                 travs' = Append(travs, NewTraversal(t, FreshSteps, tot, pa, o)),
                 nodesHeap' = nodesHeap
          PROVE  /\ travs'[u] = NewTraversal(t, FreshSteps, tot, pa, o)
                 /\ t \in 1..(u - 1)
                 /\ StepsOf(u)' = l
                 /\ View(u)'.start = View(t)'.start
                 /\ StepsOf(t)' = StepsOf(t)
                 /\ travs'[t] = travs[t]
      <4> DEFINE r == NewTraversal(t, FreshSteps, tot, pa, o)
      <4>1. r \in TraversalObject
        BY NewTraversalTyped
      <4>2. Len(travs') = Len(travs) + 1 /\ travs'[Len(travs) + 1] = r
        BY <3>1, <4>1, AppendProperties DEF TypeOK
      <4>3. u = Len(travs) + 1
        BY <2>3, <4>2, SMT DEF TypeOK
      <4>4. stepsHeap'[Len(stepsHeap) + 1] = l
        BY <3>1, AppendProperties DEF TypeOK
      <4>5. /\ r.steps = Len(stepsHeap) + 1
            /\ r.start = travs[t].start
            /\ r.parent = t
        BY DEF NewTraversal, FreshSteps
      <4>6. t \in 1..(u - 1)
        BY <4>3, SMT DEF TypeOK
      <4>7. QED
        BY <3>1, <4>2, <4>3, <4>4, <4>5, <4>6, ViewStable DEF StepsOf, View
    <3>2. CASE UNCHANGED vars
      BY <2>3, <3>2 DEF vars
    <3>3. ASSUME NEW ns \in StartLists, CreateTraversalFromNodes(ns) PROVE DerivedFrom(u)'
      <4>1. u = Len(travs) + 1
        BY <2>3, <3>3, SMT DEF TypeOK, CreateTraversalFromNodes
      <4>2. travs'[u].op = "create"
        BY <3>3, <4>1 DEF TypeOK, CreateTraversalFromNodes
      <4>3. QED
        BY <4>2 DEF DerivedFrom
    <3>4. ASSUME NEW t \in 1..Len(travs), NEW s \in StepInputs, AddStep(t, s) PROVE DerivedFrom(u)'
      <4>1. CASE IsValidStep(s)
        <5>1. /\ travs'[u] = NewTraversal(t, FreshSteps, travs[t].max_total_depth,
                                         travs[t].include_paths, "add_step")
              /\ t \in 1..(u - 1)
              /\ StepsOf(u)' = Append(StepsOf(t), s)
              /\ View(u)'.start = View(t)'.start
              /\ StepsOf(t)' = StepsOf(t)
              /\ travs'[t] = travs[t]
          <6>1. Append(StepsOf(t), s) \in Seq(Step)
            BY TraversalTyped, StepInputsTyped, AppendProperties
          <6>2. QED
            BY <3>1, <3>4, <4>1, <6>1, TraversalTyped DEF AddStep, Ops
        <5>2. IsPrefix(StepsOf(t), Append(StepsOf(t), s))
              /\ Len(Append(StepsOf(t), s)) = Len(StepsOf(t)) + 1
          <6>1. StepsOf(t) \in Seq(Step) /\ s \in Step
            BY TraversalTyped, StepInputsTyped
          <6>2. QED
            BY <6>1, PrefixOfAppend, AppendProperties
        <5>3. /\ travs'[u].op = "add_step" /\ travs'[u].parent = t
              /\ travs'[u].max_total_depth = travs'[t].max_total_depth
              /\ travs'[u].include_paths = travs'[t].include_paths
          BY <5>1 DEF NewTraversal
        <5>4. /\ IsPrefix(StepsOf(t)', StepsOf(u)')
              /\ Len(StepsOf(u)') = Len(StepsOf(t)') + 1
          BY <5>1, <5>2
        <5>5. /\ (IF travs'[u].op = "add_step" THEN 1 ELSE 0) = 1
              /\ travs'[u].op # "create"
              /\ travs'[u].include_paths =
                    (travs'[t].include_paths \/ travs'[u].op = "include_paths")
          BY <5>1, <5>3, TraversalTyped
        <5>6. QED
          BY <5>1, <5>3, <5>4, <5>5, Zenon DEF DerivedFrom
      <4>2. CASE ~IsValidStep(s)
        BY <2>3, <3>4, <4>2 DEF AddStep
      <4>3. QED
        BY <4>1, <4>2
    <3>5. ASSUME NEW t \in 1..Len(travs), NEW d \in DepthInputs, WithDepthLimit(t, d) PROVE DerivedFrom(u)'
      <4>1. CASE ~(d < 0)
        <5>1. /\ travs'[u] = NewTraversal(t, FreshSteps, d,
                                         travs[t].include_paths, "with_depth_limit")
              /\ t \in 1..(u - 1)
              /\ StepsOf(u)' = StepsOf(t)
              /\ View(u)'.start = View(t)'.start
              /\ StepsOf(t)' = StepsOf(t)
              /\ travs'[t] = travs[t]
          <6>1. d \in Int
            OBVIOUS
          <6>2. /\ StepsOf(t) \in Seq(Step)
                /\ travs[t].include_paths \in BOOLEAN
                /\ "with_depth_limit" \in Ops
                /\ d \in {None} \cup Int
            BY <6>1, TraversalTyped DEF Ops
          <6>3. /\ stepsHeap' = Append(stepsHeap, StepsOf(t))
                /\ travs' = Append(travs, NewTraversal(t, FreshSteps, d,
                                  travs[t].include_paths, "with_depth_limit"))
                /\ nodesHeap' = nodesHeap
            BY <3>5, <4>1 DEF WithDepthLimit
          <6>4. QED
            BY <3>1, <6>2, <6>3
        <5>2. IsPrefix(StepsOf(t), StepsOf(t))
          <6>1. StepsOf(t) \in Seq(Step)
            BY TraversalTyped
          <6>2. QED
            BY <6>1, PrefixRefl
        <5>3. /\ travs'[u].op = "with_depth_limit" /\ travs'[u].parent = t
              /\ travs'[u].include_paths = travs'[t].include_paths
          BY <5>1 DEF NewTraversal
        <5>4. /\ IsPrefix(StepsOf(t)', StepsOf(u)')
              /\ Len(StepsOf(u)') = Len(StepsOf(t)') + 0
          BY <5>1, <5>2, TraversalTyped, SMT
        <5>5. /\ (IF travs'[u].op = "add_step" THEN 1 ELSE 0) = 0
              /\ travs'[u].op # "create"
              /\ travs'[u].include_paths =
                    (travs'[t].include_paths \/ travs'[u].op = "include_paths")
          BY <5>1, <5>3, TraversalTyped
        <5>6. QED
          BY <5>1, <5>3, <5>4, <5>5, Zenon DEF DerivedFrom
      <4>2. CASE d < 0
        BY <2>3, <3>5, <4>2 DEF WithDepthLimit
      <4>3. QED
        BY <4>1, <4>2
    <3>6. ASSUME NEW t \in 1..Len(travs), IncludePaths(t) PROVE DerivedFrom(u)'
      <4>1. /\ travs'[u] = NewTraversal(t, FreshSteps, travs[t].max_total_depth,
                                       TRUE, "include_paths")
            /\ t \in 1..(u - 1)
            /\ StepsOf(u)' = StepsOf(t)
            /\ View(u)'.start = View(t)'.start
            /\ StepsOf(t)' = StepsOf(t)
            /\ travs'[t] = travs[t]
        BY <3>1, <3>6, TraversalTyped DEF IncludePaths, Ops
      <4>2. IsPrefix(StepsOf(t), StepsOf(t))
        <5>1. StepsOf(t) \in Seq(Step)
          BY TraversalTyped
        <5>2. QED
          BY <5>1, PrefixRefl
      <4>3. /\ travs'[u].op = "include_paths" /\ travs'[u].parent = t
            /\ travs'[u].max_total_depth = travs'[t].max_total_depth
            /\ travs'[u].include_paths = TRUE
        BY <4>1 DEF NewTraversal
      <4>4. /\ IsPrefix(StepsOf(t)', StepsOf(u)')
            /\ Len(StepsOf(u)') = Len(StepsOf(t)') + 0
        BY <4>1, <4>2, TraversalTyped, SMT
      <4>5. QED
        BY <4>1, <4>3, <4>4, Zenon DEF DerivedFrom
    <3>7. ASSUME NEW t \in 1..Len(travs), Execute(t) PROVE DerivedFrom(u)'
      BY <2>3, <3>7 DEF Execute
    <3>8. QED
      BY <3>2, <3>3, <3>4, <3>5, <3>6, <3>7 DEF Next
  <2>4. QED
    BY <2>1, <2>2, <2>3 DEF DerivedExtendsBase, TypeOK
<1>3. QED
  BY <1>1, <1>2, PTL DEF Spec, DerivedInv

-----------------------------------------------------------------------------
(***************************************************************************)
(* Refinement. Mapping each traversal object to the value it denotes      *)
(* (Views), the builder implements the immutable traversal values of      *)
(* TraversalValues. The argument rests on OldUnchanged: a step leaves the *)
(* values of the traversals that exist as they were, so a call that       *)
(* succeeds appends one value and a call that fails appends none.         *)
(***************************************************************************)

\* A step that adds one traversal object appends its value to Views.
\* Appending to a sequence adds one element, found at the new last index.
LEMMA AppendLast ==
  ASSUME NEW T, NEW S \in Seq(T), NEW x
  PROVE  /\ Len(Append(S, x)) = Len(S) + 1
         /\ Append(S, x)[Len(S) + 1] = x
OBVIOUS

LEMMA ViewsAppend ==
  ASSUME TypeOK, [Next]_vars, NEW n, n = Len(travs) + 1, Len(travs') = n,
         NEW v, View(n)' = v
  PROVE  Views' = Append(Views, v)
<1> DEFINE L == Len(travs)
           R == {View(t) : t \in 1..L} \cup {v}
<1>1. L \in Nat
  BY DEF TypeOK
<1>2. \A t \in 1..L : View(t)' = View(t)
  BY ViewStable
<1>3. /\ Views \in Seq(R)
      /\ Len(Views) = L
      /\ \A t \in 1..L : Views[t] = View(t)
  BY <1>1 DEF Views
<1>4. Views' = [t \in 1..n |-> View(t)']
  BY DEF Views
<1>5. \A t \in 1..n : View(t)' \in R
  <2> SUFFICES ASSUME NEW t \in 1..n PROVE View(t)' \in R
    OBVIOUS
  <2>1. CASE t \in 1..L
    BY <1>2, <2>1 DEF R
  <2>2. CASE t = n
    BY <2>2 DEF R
  <2> QED
    BY <1>1, <2>1, <2>2, SMT
<1>6. /\ Views' \in Seq(R)
      /\ Len(Views') = L + 1
      /\ \A t \in 1..L : Views'[t] = View(t)
      /\ Views'[L + 1] = v
  BY <1>1, <1>2, <1>4, <1>5, SMT
<1>7. /\ Append(Views, v) \in Seq(R)
      /\ Len(Append(Views, v)) = L + 1
      /\ \A t \in 1..L : Append(Views, v)[t] = View(t)
      /\ Append(Views, v)[L + 1] = v
  BY <1>3, AppendProperties
<1> QED
  BY <1>6, <1>7, SeqEqual

\* A step that allocates nothing leaves Views as it is.
LEMMA ViewsSame ==
  ASSUME UNCHANGED <<stepsHeap, nodesHeap, travs>>
  PROVE  Views' = Views
BY DEF Views, View, StepsOf

\* Replacing one field of a traversal value leaves the other three.
LEMMA ExceptSteps ==
  ASSUME NEW a, NEW b, NEW c, NEW d, NEW x
  PROVE  [[start |-> a, steps |-> b, max_total_depth |-> c, include_paths |-> d]
            EXCEPT !.steps = Append(@, x)]
         = [start |-> a, steps |-> Append(b, x), max_total_depth |-> c,
            include_paths |-> d]
OBVIOUS

LEMMA ExceptPaths ==
  ASSUME NEW a, NEW b, NEW c, NEW d, NEW e
  PROVE  [[start |-> a, steps |-> b, max_total_depth |-> c, include_paths |-> d]
            EXCEPT !.include_paths = e]
         = [start |-> a, steps |-> b, max_total_depth |-> c, include_paths |-> e]
OBVIOUS

\* The value of the object a successful builder call appends.
LEMMA DerivedView ==
  ASSUME TypeOK, NEW t \in 1..Len(travs), NEW l, NEW total, NEW paths, NEW op,
         stepsHeap' = Append(stepsHeap, l),
         travs' = Append(travs, NewTraversal(t, FreshSteps, total, paths, op)),
         nodesHeap' = nodesHeap, NEW n, n = Len(travs) + 1
  PROVE  /\ Len(travs') = n
         /\ View(n)' =
               [start |-> View(t).start, steps |-> l,
                max_total_depth |-> total, include_paths |-> paths]
<1>1. /\ Len(travs') = n
      /\ travs'[n] = NewTraversal(t, FreshSteps, total, paths, op)
      /\ stepsHeap'[FreshSteps] = l
  BY SMT DEF TypeOK, FreshSteps
<1>2. /\ travs'[n].start = travs[t].start
      /\ travs'[n].steps = FreshSteps
      /\ travs'[n].max_total_depth = total
      /\ travs'[n].include_paths = paths
  BY <1>1 DEF NewTraversal
<1>3. View(n)' = [start |-> nodesHeap'[travs'[n].start],
                  steps |-> stepsHeap'[travs'[n].steps],
                  max_total_depth |-> travs'[n].max_total_depth,
                  include_paths |-> travs'[n].include_paths]
  BY DEF View, StepsOf
<1>4. nodesHeap'[travs'[n].start] = View(t).start
  BY <1>2 DEF View
<1>5. stepsHeap'[travs'[n].steps] = l
  BY <1>1, <1>2, Zenon
<1> QED
  BY <1>1, <1>3, <1>4, <1>5, <1>2, Zenon

\* What a traversal denotes, field by field.
LEMMA ViewFields ==
  ASSUME NEW t
  PROVE  View(t) = [start |-> View(t).start, steps |-> StepsOf(t),
                    max_total_depth |-> travs[t].max_total_depth,
                    include_paths |-> travs[t].include_paths]
BY DEF View

\* The caller's inputs are the same sets in both specifications.
LEMMA SameInputs ==
  /\ StepInputs = [relationship_type: RelTypes, target_node_type: NodeTypes,
                   direction: Values!Directions, min_depth: DepthInputs,
                   max_depth: DepthInputs]
  /\ \A s : IsValidStep(s) <=> Values!ValidStep(s)
BY DEF StepInputs, Directions, Values!Directions, IsValidStep, Values!ValidStep

LEMMA InitRefines == Init => Values!AbsInit
BY SMT DEF Init, Values!AbsInit, Views

\* create_traversal_from_nodes is Start of the list it is passed.
LEMMA CreateRefines ==
  ASSUME TypeOK, [Next]_vars, NEW ns \in StartLists, CreateTraversalFromNodes(ns)
  PROVE  Values!AbsNext
<1>1. PICK m \in 0..MaxStartNodes : ns \in [1..m -> Nodes]
  BY DEF StartLists, SeqOf
<1>0. PICK n : n = Len(travs) + 1
  OBVIOUS
<1>6. /\ nodesHeap' = Append(nodesHeap, ns)
      /\ stepsHeap' = Append(stepsHeap, <<>>)
      /\ travs' = Append(travs, [start |-> Len(nodesHeap) + 1, steps |-> FreshSteps,
                                 max_total_depth |-> None, include_paths |-> FALSE,
                                 parent |-> 0, op |-> "create"])
  BY DEF CreateTraversalFromNodes
<1>2. /\ Len(travs') = n
      /\ travs'[n].start = Len(nodesHeap) + 1
      /\ travs'[n].steps = Len(stepsHeap) + 1
      /\ travs'[n].max_total_depth = None
      /\ travs'[n].include_paths = FALSE
      /\ nodesHeap'[Len(nodesHeap) + 1] = ns
      /\ stepsHeap'[Len(stepsHeap) + 1] = <<>>
  <2>1. travs \in Seq(TraversalObject) /\ nodesHeap \in Seq(Seq(Nodes))
        /\ stepsHeap \in Seq(Seq(Step))
    BY DEF TypeOK
  <2> QED
    BY <1>0, <1>6, <2>1, AppendLast DEF FreshSteps
<1>7. View(n)' = [start |-> nodesHeap'[travs'[n].start],
                  steps |-> stepsHeap'[travs'[n].steps],
                  max_total_depth |-> travs'[n].max_total_depth,
                  include_paths |-> travs'[n].include_paths]
  BY DEF View, StepsOf
<1>4. /\ Len(travs') = n
      /\ View(n)' = [start |-> ns, steps |-> <<>>,
                                  max_total_depth |-> None, include_paths |-> FALSE]
  BY <1>2, <1>7, Zenon
<1>5. Views' = Append(Views, [start |-> ns, steps |-> <<>>,
                              max_total_depth |-> None, include_paths |-> FALSE])
  BY <1>0, <1>4, ViewsAppend
<1>3. Values!Start(ns)
  BY <1>5 DEF CreateTraversalFromNodes, Values!Start
<1> QED
  BY <1>1, <1>3 DEF Values!AbsNext

\* add_step is Extend: one step more, or ValueError and no new value.
LEMMA AddStepRefines ==
  ASSUME TypeOK, [Next]_vars, NEW t \in 1..Len(travs), NEW s \in StepInputs,
         AddStep(t, s)
  PROVE  Values!Extend(t, s)
<1>1. Views[t] = View(t)
  BY DEF Views
<1>0. PICK n : n = Len(travs) + 1
  OBVIOUS
<1>2. CASE IsValidStep(s)
  <2>1. /\ Len(travs') = n
        /\ View(n)' =
              [start |-> View(t).start, steps |-> Append(StepsOf(t), s),
               max_total_depth |-> travs[t].max_total_depth,
               include_paths |-> travs[t].include_paths]
    <3>1. /\ stepsHeap' = Append(stepsHeap, Append(StepsOf(t), s))
          /\ travs' = Append(travs, NewTraversal(t, FreshSteps,
                          travs[t].max_total_depth, travs[t].include_paths,
                          "add_step"))
          /\ nodesHeap' = nodesHeap
      BY <1>2 DEF AddStep
    <3> QED
      BY <1>0, <3>1, DerivedView
  <2>2. View(n)' = [Views[t] EXCEPT !.steps = Append(@, s)]
    <3>1. Views[t] = [start |-> View(t).start, steps |-> StepsOf(t),
                      max_total_depth |-> travs[t].max_total_depth,
                      include_paths |-> travs[t].include_paths]
      BY <1>1, ViewFields, Zenon
    <3>2. [[start |-> View(t).start, steps |-> StepsOf(t),
            max_total_depth |-> travs[t].max_total_depth,
            include_paths |-> travs[t].include_paths] EXCEPT !.steps = Append(@, s)]
          = [start |-> View(t).start, steps |-> Append(StepsOf(t), s),
             max_total_depth |-> travs[t].max_total_depth,
             include_paths |-> travs[t].include_paths]
      BY ExceptSteps
    <3> QED
      BY <2>1, <3>1, <3>2, Zenon
  <2> QED
    BY <1>0, <1>2, <2>1, <2>2, ViewsAppend, SameInputs DEF AddStep, Values!Extend
<1>3. CASE ~IsValidStep(s)
  BY <1>3, ViewsSame, SameInputs DEF AddStep, Values!Extend
<1> QED
  BY <1>2, <1>3

\* with_depth_limit is Limit: the limit replaced, or ValueError.
LEMMA WithDepthLimitRefines ==
  ASSUME TypeOK, [Next]_vars, NEW t \in 1..Len(travs), NEW d \in DepthInputs,
         WithDepthLimit(t, d)
  PROVE  Values!Limit(t, d)
<1>1. Views[t] = View(t)
  BY DEF Views
<1>0. PICK n : n = Len(travs) + 1
  OBVIOUS
<1>2. CASE d < 0
  BY <1>2, ViewsSame DEF WithDepthLimit, Values!Limit
<1>3. CASE ~(d < 0)
  <2>1. /\ Len(travs') = n
        /\ View(n)' =
              [start |-> View(t).start, steps |-> StepsOf(t),
               max_total_depth |-> d,
               include_paths |-> travs[t].include_paths]
    <3>1. /\ stepsHeap' = Append(stepsHeap, StepsOf(t))
          /\ travs' = Append(travs, NewTraversal(t, FreshSteps, d,
                          travs[t].include_paths, "with_depth_limit"))
          /\ nodesHeap' = nodesHeap
      BY <1>3 DEF WithDepthLimit
    <3> QED
      BY <1>0, <3>1, DerivedView
  <2>2. View(n)' = [Views[t] EXCEPT !.max_total_depth = d]
    BY <1>1, <2>1, ViewFields
  <2> QED
    BY <1>0, <1>3, <2>1, <2>2, ViewsAppend DEF WithDepthLimit, Values!Limit
<1> QED
  BY <1>2, <1>3

\* include_paths is WithPaths: the paths flag set.
LEMMA IncludePathsRefines ==
  ASSUME TypeOK, [Next]_vars, NEW t \in 1..Len(travs), IncludePaths(t)
  PROVE  Values!WithPaths(t)
<1>1. Views[t] = View(t)
  BY DEF Views
<1>0. PICK n : n = Len(travs) + 1
  OBVIOUS
<1>2. /\ Len(travs') = n
      /\ View(n)' =
            [start |-> View(t).start, steps |-> StepsOf(t),
             max_total_depth |-> travs[t].max_total_depth,
             include_paths |-> TRUE]
  <2>1. /\ stepsHeap' = Append(stepsHeap, StepsOf(t))
        /\ travs' = Append(travs, NewTraversal(t, FreshSteps,
                        travs[t].max_total_depth, TRUE, "include_paths"))
        /\ nodesHeap' = nodesHeap
    BY DEF IncludePaths
  <2> QED
    BY <1>0, <2>1, DerivedView, Zenon
<1>3. View(n)' = [Views[t] EXCEPT !.include_paths = TRUE]
  <2>1. Views[t] = [start |-> View(t).start, steps |-> StepsOf(t),
                    max_total_depth |-> travs[t].max_total_depth,
                    include_paths |-> travs[t].include_paths]
    BY <1>1, ViewFields, Zenon
  <2>2. [[start |-> View(t).start, steps |-> StepsOf(t),
          max_total_depth |-> travs[t].max_total_depth,
          include_paths |-> travs[t].include_paths] EXCEPT !.include_paths = TRUE]
        = [start |-> View(t).start, steps |-> StepsOf(t),
           max_total_depth |-> travs[t].max_total_depth,
           include_paths |-> TRUE]
    BY ExceptPaths, Zenon
  <2> QED
    BY <1>2, <2>1, <2>2, Zenon
<1>4. Views' = Append(Views, [Views[t] EXCEPT !.include_paths = TRUE])
  BY <1>0, <1>2, <1>3, ViewsAppend
<1> QED
  BY <1>4 DEF IncludePaths, Values!WithPaths

(***************************************************************************)
(* The builder implements immutable traversal values (spec 4.3) for every *)
(* set of classes, nodes and depths and every bound: each call of the     *)
(* code is a step of TraversalValues or leaves the values as they are.    *)
(***************************************************************************)
THEOREM Refinement == Spec => ImplementsValues
<1>1. TypeOK /\ [Next]_vars => [Values!AbsNext]_<<Views, outcome>>
  <2> SUFFICES ASSUME TypeOK, [Next]_vars
               PROVE  [Values!AbsNext]_<<Views, outcome>>
    OBVIOUS
  <2>1. CASE \E ns \in StartLists : CreateTraversalFromNodes(ns)
    BY <2>1, CreateRefines
  <2>2. ASSUME NEW t \in 1..Len(travs)
        PROVE  \/ \E s \in StepInputs : AddStep(t, s)
               \/ \E d \in DepthInputs : WithDepthLimit(t, d)
               \/ IncludePaths(t)
               \/ Execute(t)
               => Values!AbsNext
    <3>1. t \in 1..Len(Views)
      BY SMT DEF Views, TypeOK
    <3>2. CASE \E s \in StepInputs : AddStep(t, s)
      BY <3>1, <3>2, AddStepRefines, SameInputs DEF Values!AbsNext
    <3>3. CASE \E d \in DepthInputs : WithDepthLimit(t, d)
      BY <3>1, <3>3, WithDepthLimitRefines DEF Values!AbsNext
    <3>4. CASE IncludePaths(t)
      BY <3>1, <3>4, IncludePathsRefines DEF Values!AbsNext
    <3>5. CASE Execute(t)
      BY <3>1, <3>5, ViewsSame DEF Execute, Values!Run, Values!AbsNext
    <3> QED
      BY <3>2, <3>3, <3>4, <3>5
  <2>3. CASE UNCHANGED vars
    BY <2>3, ViewsSame DEF vars
  <2> QED
    BY <2>1, <2>2, <2>3 DEF Next
<1> QED
  BY InitRefines, <1>1, TypeCorrect, PTL
     DEF Spec, ImplementsValues, Values!AbsSpec
=============================================================================
