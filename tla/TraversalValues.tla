-------------------------- MODULE TraversalValues --------------------------
(***************************************************************************)
(* What the traversal model promises (spec 4.3, 5): a traversal is a      *)
(* value, the start nodes, the ordered steps, the optional total depth    *)
(* limit and the paths flag, and each builder call returns a new value    *)
(* with one change applied, leaving every value returned before as it     *)
(* was. vals holds the values returned so far, in order; nothing here     *)
(* knows of objects, pointers or list identity.                            *)
(***************************************************************************)
EXTENDS Integers, Sequences

CONSTANTS RelTypes, NodeTypes, Nodes, DepthInputs, MaxStartNodes, None

VARIABLES
    vals,      \* vals[t]: the t-th traversal value returned to the caller
    outcome    \* what the caller's last call produced

Directions == {"OUTGOING", "INCOMING", "BOTH"}

\* A step is rejected when it is built (spec 4.3: fail-fast).
ValidStep(s) == 0 <= s.min_depth /\ s.min_depth <= s.max_depth

AbsInit ==
    /\ vals = <<>>
    /\ outcome = "ok"

\* A new traversal over the given start nodes, with no steps.
Start(ns) ==
    /\ vals' = Append(vals, [start |-> ns, steps |-> <<>>,
                             max_total_depth |-> None, include_paths |-> FALSE])
    /\ outcome' = "ok"

\* add_step: the value with one more step, or ValueError and no value.
Extend(t, s) ==
    IF ValidStep(s)
    THEN /\ vals' = Append(vals, [vals[t] EXCEPT !.steps = Append(@, s)])
         /\ outcome' = "ok"
    ELSE /\ outcome' = "ValueError"
         /\ UNCHANGED vals

\* with_depth_limit: the value with the limit replaced; negative limits fail.
Limit(t, d) ==
    IF d < 0
    THEN /\ outcome' = "ValueError"
         /\ UNCHANGED vals
    ELSE /\ vals' = Append(vals, [vals[t] EXCEPT !.max_total_depth = d])
         /\ outcome' = "ok"

\* include_paths: the value with the paths flag set.
WithPaths(t) ==
    /\ vals' = Append(vals, [vals[t] EXCEPT !.include_paths = TRUE])
    /\ outcome' = "ok"

\* Execution is left to providers and fails here.
Run(t) ==
    /\ outcome' = "NotImplementedError"
    /\ UNCHANGED vals

AbsNext ==
    \/ \E n \in 0..MaxStartNodes : \E ns \in [1..n -> Nodes] : Start(ns)
    \/ \E t \in 1..Len(vals) :
          \/ \E s \in [relationship_type: RelTypes, target_node_type: NodeTypes,
                       direction: Directions, min_depth: DepthInputs,
                       max_depth: DepthInputs] : Extend(t, s)
          \/ \E d \in DepthInputs : Limit(t, d)
          \/ WithPaths(t)
          \/ Run(t)

AbsSpec == AbsInit /\ [][AbsNext]_<<vals, outcome>>
=============================================================================
