----------------------------- MODULE Traversal -----------------------------
(***************************************************************************)
(* The traversal builder of querying/traversal.py: TraversalStep with its *)
(* fail-fast depth validation, and GraphTraversal, whose builder methods  *)
(* (add_step, with_depth_limit, include_paths) each return a new object   *)
(* built by copying the receiver's fields by hand.                        *)
(*                                                                         *)
(* Python lists are objects with identity, so the model keeps two heaps:  *)
(* stepsHeap holds the step lists the builder allocates (self._steps + ...,*)
(* self._steps.copy()), nodesHeap the start-node lists the caller passes  *)
(* to create_traversal_from_nodes, which the traversal keeps by reference.*)
(* A traversal object is a record of pointers into those heaps and its two *)
(* scalar settings. Each traversal also carries two history fields (parent,*)
(* op) that the code does not have; only the properties read them.        *)
(***************************************************************************)
EXTENDS Integers, Sequences, SequencesExt

CONSTANTS
    RelTypes,        \* relationship classes passed as relationship_type
    NodeTypes,       \* node classes passed as target_node_type
    Nodes,           \* node objects a caller can put in a start list
    DepthInputs,     \* integers a caller may pass as min/max/total depth
    MaxTraversals,   \* bound on the number of GraphTraversal objects
    MaxStartNodes,   \* bound on the length of a caller's start-node list
    None             \* Python's None, the initial _max_total_depth

ASSUME TraversalAssumption ==
    /\ DepthInputs \subseteq Int
    /\ MaxTraversals \in Nat
    /\ MaxStartNodes \in Nat
    /\ None \notin Int

\* TraversalDirection (traversal.py:14-24)
Directions == {"OUTGOING", "INCOMING", "BOTH"}

\* The kinds of call that create a traversal (history field op).
Ops == {"create", "add_step", "with_depth_limit", "include_paths"}

\* Result of the caller's last call: a value returned or an exception.
Outcomes == {"ok", "ValueError", "NotImplementedError"}

Step == [relationship_type: RelTypes, target_node_type: NodeTypes,
         direction: Directions, min_depth: Int, max_depth: Int]

TraversalObject == [start: Nat, steps: Nat, max_total_depth: {None} \cup Int,
                    include_paths: BOOLEAN, parent: Nat, op: Ops]

VARIABLES
    stepsHeap,   \* stepsHeap[p]: the step list object at address p
    nodesHeap,   \* nodesHeap[p]: the caller's start-node list at address p
    travs,       \* travs[t]: the t-th GraphTraversal object created
    outcome      \* what the caller's last call produced

vars == <<stepsHeap, nodesHeap, travs, outcome>>

(***************************************************************************)
(* TraversalStep.__post_init__ (traversal.py:50-55): the step is rejected *)
(* at construction when min_depth < 0 or max_depth < min_depth.            *)
(***************************************************************************)
IsValidStep(s) ==
    /\ s.min_depth >= 0
    /\ s.max_depth >= s.min_depth

\* The new object's fields, as GraphTraversal(...) followed by the
\* hand-written assignments of a builder method leave them.
NewTraversal(t, stepsPtr, total, paths, op) ==
    [start |-> travs[t].start, steps |-> stepsPtr, max_total_depth |-> total,
     include_paths |-> paths, parent |-> t, op |-> op]

\* The address the next allocated step list gets.
FreshSteps == Len(stepsHeap) + 1

\* The steps a traversal sees, through its pointer.
StepsOf(t) == stepsHeap[travs[t].steps]

Init ==
    /\ stepsHeap = <<>>
    /\ nodesHeap = <<>>
    /\ travs = <<>>
    /\ outcome = "ok"

\* A constructor that points the traversal at the last list allocated
\* before its own (off by one).
CreateTraversalFromNodesStaleSteps(ns) ==
    /\ Len(travs) < MaxTraversals
    /\ nodesHeap' = Append(nodesHeap, ns)
    /\ stepsHeap' = Append(stepsHeap, <<>>)
    /\ travs' = Append(travs, [start |-> Len(nodesHeap) + 1, steps |-> Len(stepsHeap),
                               max_total_depth |-> None, include_paths |-> FALSE,
                               parent |-> 0, op |-> "create"])
    /\ outcome' = "ok"

(***************************************************************************)
(* create_traversal_from_nodes(nodes) / GraphTraversal.__init__           *)
(* (traversal.py:158-168, 223-233): the caller's list is stored by        *)
(* reference; a fresh empty step list is allocated.                       *)
(***************************************************************************)
CreateTraversalFromNodes(ns) ==
    /\ Len(travs) < MaxTraversals
    /\ nodesHeap' = Append(nodesHeap, ns)
    /\ stepsHeap' = Append(stepsHeap, <<>>)
    /\ travs' = Append(travs, [start |-> Len(nodesHeap) + 1, steps |-> FreshSteps,
                               max_total_depth |-> None, include_paths |-> FALSE,
                               parent |-> 0, op |-> "create"])
    /\ outcome' = "ok"

\* An add_step that appends to self._steps in place and shares that list
\* with the new object.
AddStepInPlace(t, s) ==
    /\ Len(travs) < MaxTraversals
    /\ IF IsValidStep(s)
       THEN /\ stepsHeap' = [stepsHeap EXCEPT ![travs[t].steps] = Append(@, s)]
            /\ travs' = Append(travs, NewTraversal(t, travs[t].steps,
                           travs[t].max_total_depth, travs[t].include_paths,
                           "add_step"))
            /\ outcome' = "ok"
       ELSE /\ outcome' = "ValueError"
            /\ UNCHANGED <<stepsHeap, travs>>
    /\ UNCHANGED nodesHeap

(***************************************************************************)
(* GraphTraversal.add_step (traversal.py:170-191). The TraversalStep is   *)
(* built first, so invalid depths raise before any object is made; the    *)
(* new object gets self._steps + [step], a freshly allocated list.        *)
(***************************************************************************)
AddStep(t, s) ==
    /\ Len(travs) < MaxTraversals
    /\ IF IsValidStep(s)
       THEN /\ stepsHeap' = Append(stepsHeap, Append(StepsOf(t), s))
            /\ travs' = Append(travs, NewTraversal(t, FreshSteps,
                           travs[t].max_total_depth, travs[t].include_paths,
                           "add_step"))
            /\ outcome' = "ok"
       ELSE /\ outcome' = "ValueError"
            /\ UNCHANGED <<stepsHeap, travs>>
    /\ UNCHANGED nodesHeap

\* A with_depth_limit that lost its check and accepts a negative limit.
WithDepthLimitNoCheck(t, d) ==
    /\ Len(travs) < MaxTraversals
    /\ stepsHeap' = Append(stepsHeap, StepsOf(t))
    /\ travs' = Append(travs, NewTraversal(t, FreshSteps, d,
                   travs[t].include_paths, "with_depth_limit"))
    /\ outcome' = "ok"
    /\ UNCHANGED nodesHeap

(***************************************************************************)
(* GraphTraversal.with_depth_limit (traversal.py:193-202): a negative     *)
(* limit raises; otherwise the steps are copied and the limit replaced.   *)
(***************************************************************************)
WithDepthLimit(t, d) ==
    /\ Len(travs) < MaxTraversals
    /\ IF d < 0
       THEN /\ outcome' = "ValueError"
            /\ UNCHANGED <<stepsHeap, travs>>
       ELSE /\ stepsHeap' = Append(stepsHeap, StepsOf(t))
            /\ travs' = Append(travs, NewTraversal(t, FreshSteps, d,
                           travs[t].include_paths, "with_depth_limit"))
            /\ outcome' = "ok"
    /\ UNCHANGED nodesHeap

\* An include_paths that forgets to copy _max_total_depth.
IncludePathsDropsLimit(t) ==
    /\ Len(travs) < MaxTraversals
    /\ stepsHeap' = Append(stepsHeap, StepsOf(t))
    /\ travs' = Append(travs, NewTraversal(t, FreshSteps, None, TRUE,
                   "include_paths"))
    /\ outcome' = "ok"
    /\ UNCHANGED nodesHeap

\* GraphTraversal.include_paths (traversal.py:204-210).
IncludePaths(t) ==
    /\ Len(travs) < MaxTraversals
    /\ stepsHeap' = Append(stepsHeap, StepsOf(t))
    /\ travs' = Append(travs, NewTraversal(t, FreshSteps,
                   travs[t].max_total_depth, TRUE, "include_paths"))
    /\ outcome' = "ok"
    /\ UNCHANGED nodesHeap

\* execute / execute_with_paths (traversal.py:212-220) are stubs that raise.
Execute(t) ==
    /\ outcome' = "NotImplementedError"
    /\ UNCHANGED <<stepsHeap, nodesHeap, travs>>

\* The caller's inputs, drawn from the constants.
StepInputs == [relationship_type: RelTypes, target_node_type: NodeTypes,
               direction: Directions, min_depth: DepthInputs,
               max_depth: DepthInputs]

StartLists == SeqOf(Nodes, MaxStartNodes)

Next ==
    \/ \E ns \in StartLists : CreateTraversalFromNodes(ns)
    \/ \E t \in 1..Len(travs) :
          \/ \E s \in StepInputs : AddStep(t, s)
          \/ \E d \in DepthInputs : WithDepthLimit(t, d)
          \/ IncludePaths(t)
          \/ Execute(t)

Spec == Init /\ [][Next]_vars

(***************************************************************************)
(* The caller's own code may keep mutating the list it passed to          *)
(* create_traversal_from_nodes (an append, as list.append does).          *)
(***************************************************************************)
CallerAppendsStartNode(p, n) ==
    /\ Len(nodesHeap[p]) < MaxStartNodes
    /\ nodesHeap' = [nodesHeap EXCEPT ![p] = Append(@, n)]
    /\ UNCHANGED <<stepsHeap, travs, outcome>>

NextWithCaller ==
    \/ Next
    \/ \E p \in 1..Len(nodesHeap), n \in Nodes : CallerAppendsStartNode(p, n)

SpecWithCaller == Init /\ [][NextWithCaller]_vars

-----------------------------------------------------------------------------
(***************************************************************************)
(* What a traversal denotes to its user: the start nodes and steps it     *)
(* reads through its pointers, and its two settings.                      *)
(***************************************************************************)
View(t) == [start |-> nodesHeap[travs[t].start], steps |-> StepsOf(t),
            max_total_depth |-> travs[t].max_total_depth,
            include_paths |-> travs[t].include_paths]

TypeOK ==
    /\ stepsHeap \in Seq(Seq(Step))
    /\ nodesHeap \in Seq(Seq(Nodes))
    /\ travs \in Seq(TraversalObject)
    /\ outcome \in Outcomes
    /\ \A t \in 1..Len(travs) :
          /\ travs[t].start \in 1..Len(nodesHeap)
          /\ travs[t].steps \in 1..Len(stepsHeap)
          /\ travs[t].parent \in 0..(t - 1)

(***************************************************************************)
(* Immutability (spec 4.3, 5): no call, on any traversal, changes what an *)
(* already returned traversal denotes, so a traversal can be reused as a  *)
(* template for several variants. It breaks if a builder method wrote     *)
(* into a list it shares with its receiver.                                *)
(***************************************************************************)
TraversalImmutable ==
    [][\A t \in 1..Len(travs) : View(t)' = View(t)]_vars

(***************************************************************************)
(* Every traversal returned by a builder call keeps all of its receiver's *)
(* steps, in order, and the receiver's settings, except the one setting   *)
(* the call is about (add_step appends exactly one step, with_depth_limit *)
(* replaces the limit, include_paths sets the flag). The builder copies   *)
(* each field by hand, so a forgotten field resets a caller's setting.    *)
(***************************************************************************)
DerivedFrom(t) ==
    travs[t].op # "create" =>
       LET b == travs[t].parent
           grew == IF travs[t].op = "add_step" THEN 1 ELSE 0
       IN /\ b \in 1..(t - 1)
          /\ View(t).start = View(b).start
          /\ IsPrefix(StepsOf(b), StepsOf(t))
          /\ Len(StepsOf(t)) = Len(StepsOf(b)) + grew
          /\ travs[t].op # "with_depth_limit" =>
                travs[t].max_total_depth = travs[b].max_total_depth
          /\ travs[t].include_paths =
                (travs[b].include_paths \/ travs[t].op = "include_paths")

DerivedExtendsBase == \A t \in 1..Len(travs) : DerivedFrom(t)

\* The values the traversals returned so far denote, in creation order.
Views == [t \in 1..Len(travs) |-> View(t)]

Values == INSTANCE TraversalValues WITH vals <- Views

(***************************************************************************)
(* Refinement (spec 4.3): the builder implements immutable traversal      *)
(* values. Mapping each object to what it denotes, every call of the code *)
(* is a step of TraversalValues: it appends the value with exactly the    *)
(* change the call is about, raises where the spec says it fails, and     *)
(* leaves every value returned before untouched.                          *)
(***************************************************************************)
ImplementsValues == Values!AbsSpec
=============================================================================
