--------------------------- MODULE TypeClassifier ---------------------------
(***************************************************************************)
(* The storage classification helpers of GraphDataModel (core/graph.py:   *)
(* 213-269). A type annotation is a record: its name for a plain class,   *)
(* or the origin and arguments that typing.get_origin / get_args return   *)
(* for a parameterised one (List[str] has origin "list" and arguments     *)
(* <<str>>; Optional[str] has origin "Union" and arguments <<str, None>>).*)
(* is_simple_type is recursive, so this module is for TLC only.           *)
(***************************************************************************)
EXTENDS Naturals, Sequences

CONSTANTS
    Classes,      \* plain annotation names: primitives and user classes
    MaxNesting    \* how deeply the annotations a caller declares nest

\* A plain class, and a parameterised annotation.
Plain(name) == [name |-> name, origin |-> "none", args |-> <<>>]
Generic(origin, args) == [name |-> origin, origin |-> origin, args |-> args]

NoneType == Plain("NoneType")

\* is_simple_type's basic (line 222) and datetime (line 227) types.
Primitives == {Plain(n) : n \in {"str", "int", "float", "bool", "bytes",
                                 "datetime", "date", "time"}}

\* The origins is_simple_type treats as collections (line 233).
CollectionOrigins == {"list", "tuple", "set"}

(***************************************************************************)
(* The annotations of nesting depth at most d: plain classes, single- and *)
(* two-argument collections, and Optional, over annotations of depth d-1. *)
(***************************************************************************)
RECURSIVE Annotations(_)
Annotations(d) ==
    IF d = 0 THEN {Plain(n) : n \in Classes}
    ELSE LET T == Annotations(d - 1)
         IN T \cup {Generic(o, <<a>>) : o \in CollectionOrigins, a \in T}
              \cup {Generic("tuple", <<a, b>>) : a, b \in T}
              \cup {Generic("Union", <<a, NoneType>>) : a \in T}

\* GraphDataModel.is_simple_type (graph.py:213-237)
RECURSIVE is_simple_type(_)
is_simple_type(t) ==
    \/ t \in Primitives
    \/ /\ t.origin \in CollectionOrigins
       /\ Len(t.args) = 1
       /\ is_simple_type(t.args[1])

\* GraphDataModel.is_complex_type (graph.py:240-247)
is_complex_type(t) == ~is_simple_type(t)

\* GraphDataModel.is_collection_of_simple (graph.py:250-258)
is_collection_of_simple(t) ==
    /\ t.origin \in CollectionOrigins
    /\ Len(t.args) = 1
    /\ is_simple_type(t.args[1])

\* GraphDataModel.is_collection_of_complex (graph.py:261-269)
is_collection_of_complex(t) ==
    /\ t.origin \in CollectionOrigins
    /\ Len(t.args) = 1
    /\ is_complex_type(t.args[1])

VARIABLES
    declared,   \* the annotation the caller last asked about
    verdict     \* the four helpers' answers for it

vars == <<declared, verdict>>

Init ==
    /\ declared = NoneType
    /\ verdict = [simple |-> FALSE, complex |-> FALSE,
                  collection_of_simple |-> FALSE, collection_of_complex |-> FALSE]

Classify(t) ==
    /\ declared' = t
    /\ verdict' = [simple |-> is_simple_type(t), complex |-> is_complex_type(t),
                   collection_of_simple |-> is_collection_of_simple(t),
                   collection_of_complex |-> is_collection_of_complex(t)]

Next == \E t \in Annotations(MaxNesting) : Classify(t)

Spec == Init /\ [][Next]_vars

-----------------------------------------------------------------------------
(***************************************************************************)
(* Spec 4.1 rule 2: a type is a collection of simple values only when it  *)
(* is a single-argument collection whose element type is primitive or     *)
(* temporal (rule 1); a collection of collections is malformed.           *)
(***************************************************************************)
Rule2(t) ==
    /\ t.origin \in CollectionOrigins
    /\ Len(t.args) = 1
    /\ t.args[1] \in Primitives

CollectionOfSimpleIsRule2 ==
    verdict.collection_of_simple = Rule2(declared)
=============================================================================
