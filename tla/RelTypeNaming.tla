--------------------------- MODULE RelTypeNaming ---------------------------
(***************************************************************************)
(* The synthetic relationship-type naming convention of GraphDataModel    *)
(* (core/graph.py:184-211): a complex property named f is stored as a     *)
(* relationship of type PREFIX + f + SUFFIX, and the inverse strips the   *)
(* prefix and suffix again. A Python str is modelled as the sequence of   *)
(* its characters, so the f-string is concatenation, startswith/endswith  *)
(* compare a prefix/suffix of the sequence, and a slice is SubSeq after   *)
(* Python's normalisation of negative and out-of-range indices.           *)
(*                                                                         *)
(* The functions are stateless; the state machine below is a caller that  *)
(* makes one call at a time and records its argument and result.          *)
(***************************************************************************)
EXTENDS Integers, Sequences

CONSTANTS
    Chars,        \* the characters names are made of
    Prefix,       \* PROPERTY_RELATIONSHIP_TYPE_NAME_PREFIX, "__PROPERTY__"
    Suffix,       \* PROPERTY_RELATIONSHIP_TYPE_NAME_SUFFIX, "__"
    FieldNames,   \* property names a caller passes to the forward mapping
    TypeNames     \* relationship type names passed to the inverse

\* The suffix constant is non-empty ("__"): with an empty suffix the slice
\* [len(prefix):-0] would be empty.
ASSUME NamingAssumption ==
    /\ Prefix \in Seq(Chars)
    /\ Suffix \in Seq(Chars)
    /\ Len(Suffix) >= 1
    /\ FieldNames \subseteq Seq(Chars)
    /\ TypeNames \subseteq Seq(Chars)

\* The index a Python slice bound k denotes in s: negative counts from the
\* end, and the result is clamped to 0..len(s).
PyIndex(s, k) ==
    LET i == IF k < 0 THEN Len(s) + k ELSE k
    IN IF i < 0 THEN 0 ELSE IF i > Len(s) THEN Len(s) ELSE i

\* s[i:j]
PySlice(s, i, j) == SubSeq(s, PyIndex(s, i) + 1, PyIndex(s, j))

\* str.startswith / str.endswith
StartsWith(s, p) == Len(s) >= Len(p) /\ SubSeq(s, 1, Len(p)) = p

EndsWith(s, q) == Len(s) >= Len(q) /\ SubSeq(s, Len(s) - Len(q) + 1, Len(s)) = q

\* GraphDataModel.property_name_to_relationship_type_name (graph.py:189-195)
property_name_to_relationship_type_name(property_name) ==
    Prefix \o property_name \o Suffix

\* An inverse whose slice starts one character early (a 1-based index).
relationship_type_name_to_property_name_off_by_one(name) ==
    IF StartsWith(name, Prefix) /\ EndsWith(name, Suffix)
    THEN PySlice(name, Len(Prefix) - 1, -Len(Suffix))
    ELSE name

\* An inverse that lost its final return, so Python returns None.
relationship_type_name_to_property_name_no_fallback(name) ==
    IF StartsWith(name, Prefix) /\ EndsWith(name, Suffix)
    THEN PySlice(name, Len(Prefix), -Len(Suffix))
    ELSE "None"

\* GraphDataModel.relationship_type_name_to_property_name (graph.py:198-211)
relationship_type_name_to_property_name(name) ==
    IF StartsWith(name, Prefix) /\ EndsWith(name, Suffix)
    THEN PySlice(name, Len(Prefix), -Len(Suffix))
    ELSE name

Calls == {"none", "to_rel", "to_prop"}

VARIABLE lastCall    \* the caller's last call: function, argument, result

Init == lastCall = [fn |-> "none", arg |-> <<>>, ret |-> <<>>]

ToRelationshipTypeName(f) ==
    lastCall' = [fn |-> "to_rel", arg |-> f,
                 ret |-> property_name_to_relationship_type_name(f)]

ToPropertyName(n) ==
    lastCall' = [fn |-> "to_prop", arg |-> n,
                 ret |-> relationship_type_name_to_property_name(n)]

Next ==
    \/ \E f \in FieldNames : ToRelationshipTypeName(f)
    \/ \E n \in TypeNames : ToPropertyName(n)

Spec == Init /\ [][Next]_lastCall

-----------------------------------------------------------------------------
TypeOK ==
    lastCall \in [fn: Calls, arg: Seq(Chars), ret: Seq(Chars)]

(***************************************************************************)
(* Round trip (spec 4.2, 8): the inverse gives back the property name     *)
(* from any type name the forward mapping produced, for every property    *)
(* name, including ones that themselves contain the prefix or suffix.     *)
(***************************************************************************)
InverseUndoesForward ==
    lastCall.fn = "to_rel" =>
        relationship_type_name_to_property_name(lastCall.ret) = lastCall.arg

\* The names the forward mapping can produce: PREFIX + f + SUFFIX.
MatchesPattern(n) ==
    /\ Len(n) >= Len(Prefix) + Len(Suffix)
    /\ StartsWith(n, Prefix)
    /\ EndsWith(n, Suffix)

(***************************************************************************)
(* No accidental stripping (spec 4.2): the inverse returns a type name    *)
(* unchanged unless it has the form PREFIX + f + SUFFIX.                  *)
(***************************************************************************)
NonMatchingUnchanged ==
    lastCall.fn = "to_prop" /\ ~MatchesPattern(lastCall.arg) =>
        lastCall.ret = lastCall.arg
=============================================================================
