------------------------ MODULE RelTypeNamingProofs ------------------------
(***************************************************************************)
(* The round trip of the relationship-type naming convention, for every   *)
(* prefix, every non-empty suffix and every property name.                 *)
(***************************************************************************)
EXTENDS RelTypeNaming, TLAPS, SequenceTheorems

USE NamingAssumption

(***************************************************************************)
(* Where the characters of PREFIX + f + SUFFIX come from.                 *)
(***************************************************************************)
LEMMA WrappedElems ==
    ASSUME NEW f \in Seq(Chars)
    PROVE  LET n == property_name_to_relationship_type_name(f)
               P == Len(Prefix)
               F == Len(f)
           IN  /\ n \in Seq(Chars)
               /\ Len(n) = P + F + Len(Suffix)
               /\ \A i \in 1..P : n[i] = Prefix[i]
               /\ \A i \in 1..F : n[P + i] = f[i]
               /\ \A i \in 1..Len(Suffix) : n[P + F + i] = Suffix[i]
<1> DEFINE pf == Prefix \o f
<1>1. /\ pf \in Seq(Chars)
      /\ Len(pf) = Len(Prefix) + Len(f)
      /\ \A i \in 1..Len(Prefix) + Len(f) :
            pf[i] = IF i <= Len(Prefix) THEN Prefix[i] ELSE f[i - Len(Prefix)]
  BY ConcatProperties
<1>2. /\ pf \o Suffix \in Seq(Chars)
      /\ Len(pf \o Suffix) = Len(pf) + Len(Suffix)
      /\ \A i \in 1..Len(pf) + Len(Suffix) :
            (pf \o Suffix)[i] = IF i <= Len(pf) THEN pf[i] ELSE Suffix[i - Len(pf)]
  BY <1>1, ConcatProperties
<1>3. property_name_to_relationship_type_name(f) = pf \o Suffix
  BY DEF property_name_to_relationship_type_name
<1> QED
  BY <1>1, <1>2, <1>3, SMT

(***************************************************************************)
(* The inverse gives back every property name the forward mapping wraps.  *)
(***************************************************************************)
THEOREM RoundTrip ==
    ASSUME NEW f \in Seq(Chars)
    PROVE  relationship_type_name_to_property_name(
               property_name_to_relationship_type_name(f)) = f
<1> DEFINE n == property_name_to_relationship_type_name(f)
           P == Len(Prefix)
           F == Len(f)
           Q == Len(Suffix)
<1>1. /\ n \in Seq(Chars)
      /\ Len(n) = P + F + Q
      /\ \A i \in 1..P : n[i] = Prefix[i]
      /\ \A i \in 1..F : n[P + i] = f[i]
      /\ \A i \in 1..Q : n[P + F + i] = Suffix[i]
  BY WrappedElems
<1>2. /\ P \in Nat /\ F \in Nat /\ Q \in Nat /\ Q >= 1
  OBVIOUS
<1>3. StartsWith(n, Prefix)
  <2>1. /\ SubSeq(n, 1, P) \in Seq(Chars)
        /\ Len(SubSeq(n, 1, P)) = P
        /\ \A i \in 1..P : SubSeq(n, 1, P)[i] = n[i]
    BY <1>1, <1>2, SubSeqProperties, SMT
  <2>2. SubSeq(n, 1, P) = Prefix
    BY <1>1, <2>1, SeqEqual
  <2> QED
    BY <1>1, <1>2, <2>2 DEF StartsWith
<1>4. EndsWith(n, Suffix)
  <2>1. /\ SubSeq(n, P + F + 1, P + F + Q) \in Seq(Chars)
        /\ Len(SubSeq(n, P + F + 1, P + F + Q)) = Q
        /\ \A i \in 1..Q : SubSeq(n, P + F + 1, P + F + Q)[i] = n[P + F + i]
    BY <1>1, <1>2, SubSeqProperties, SMT
  <2>2. SubSeq(n, P + F + 1, P + F + Q) = Suffix
    BY <1>1, <2>1, SeqEqual
  <2> QED
    BY <1>1, <1>2, <2>2, SMT DEF EndsWith
<1>5. /\ PyIndex(n, P) = P
      /\ PyIndex(n, -Q) = P + F
  BY <1>1, <1>2, SMT DEF PyIndex
<1>6. SubSeq(n, P + 1, P + F) = f
  <2>1. /\ SubSeq(n, P + 1, P + F) \in Seq(Chars)
        /\ Len(SubSeq(n, P + 1, P + F)) = F
        /\ \A i \in 1..F : SubSeq(n, P + 1, P + F)[i] = n[P + i]
    BY <1>1, <1>2, SubSeqProperties, SMT
  <2> QED
    BY <1>1, <2>1, SeqEqual
<1> QED
  BY <1>3, <1>4, <1>5, <1>6
     DEF relationship_type_name_to_property_name, PySlice

(***************************************************************************)
(* Every run of the caller satisfies the round trip: after a call of the  *)
(* forward mapping, the inverse maps its result back to its argument.     *)
(***************************************************************************)
THEOREM RoundTripInvariant == Spec => []InverseUndoesForward
<1>1. Init => InverseUndoesForward
  BY DEF Init, InverseUndoesForward
<1>2. InverseUndoesForward /\ [Next]_lastCall => InverseUndoesForward'
  <2> SUFFICES ASSUME InverseUndoesForward, [Next]_lastCall
               PROVE  InverseUndoesForward'
    OBVIOUS
  <2>1. CASE \E f \in FieldNames : ToRelationshipTypeName(f)
    <3>1. PICK f \in FieldNames : ToRelationshipTypeName(f)
      BY <2>1
    <3>2. f \in Seq(Chars)
      OBVIOUS
    <3> QED
      BY <3>1, <3>2, RoundTrip DEF ToRelationshipTypeName, InverseUndoesForward
  <2>2. CASE \E n \in TypeNames : ToPropertyName(n)
    BY <2>2 DEF ToPropertyName, InverseUndoesForward
  <2>3. CASE UNCHANGED lastCall
    BY <2>3 DEF InverseUndoesForward
  <2> QED
    BY <2>1, <2>2, <2>3 DEF Next
<1> QED
  BY <1>1, <1>2, PTL DEF Spec
(***************************************************************************)
(* A Python slice s[i:j] of a name is a name over the same characters:    *)
(* PyIndex clamps both bounds into 0..len(s), so SubSeq only reads        *)
(* characters of s, whatever the bounds the caller passes.                *)
(***************************************************************************)
LEMMA PyIndexRange ==
    ASSUME NEW s \in Seq(Chars), NEW k \in Int
    PROVE  PyIndex(s, k) \in 0..Len(s)
BY LenProperties DEF PyIndex

LEMMA PySliceTyped ==
    ASSUME NEW s \in Seq(Chars), NEW i \in Int, NEW j \in Int
    PROVE  PySlice(s, i, j) \in Seq(Chars)
<1>1. PyIndex(s, i) \in 0..Len(s) /\ PyIndex(s, j) \in 0..Len(s)
  BY PyIndexRange
<1>2. \A x \in (PyIndex(s, i) + 1)..PyIndex(s, j) : s[x] \in Chars
  BY <1>1, LenProperties
<1> QED
  BY <1>1, <1>2, SubSeqProperties DEF PySlice

\* The inverse mapping returns a name over the characters of its argument.
LEMMA InverseTyped ==
    ASSUME NEW n \in Seq(Chars)
    PROVE  relationship_type_name_to_property_name(n) \in Seq(Chars)
<1>1. Len(Prefix) \in Nat /\ -Len(Suffix) \in Int
  BY LenProperties
<1> QED
  BY <1>1, PySliceTyped DEF relationship_type_name_to_property_name

(***************************************************************************)
(* Type correctness of the naming caller: every argument and every result *)
(* of property_name_to_relationship_type_name and of its inverse          *)
(* (graph.py:184-211) is a string over the alphabet, for every prefix,    *)
(* suffix and set of names.                                               *)
(***************************************************************************)
THEOREM NamingTypeCorrect == Spec => []TypeOK
<1>1. Init => TypeOK
  BY DEF Init, TypeOK, Calls
<1>2. TypeOK /\ [Next]_lastCall => TypeOK'
  <2> SUFFICES ASSUME TypeOK, [Next]_lastCall PROVE TypeOK'
    OBVIOUS
  <2>1. ASSUME NEW f \in FieldNames, ToRelationshipTypeName(f) PROVE TypeOK'
    <3>1. f \in Seq(Chars)
      OBVIOUS
    <3>2. property_name_to_relationship_type_name(f) \in Seq(Chars)
      BY <3>1, WrappedElems
    <3> QED
      BY <2>1, <3>1, <3>2 DEF ToRelationshipTypeName, TypeOK, Calls
  <2>2. ASSUME NEW n \in TypeNames, ToPropertyName(n) PROVE TypeOK'
    <3>1. n \in Seq(Chars)
      OBVIOUS
    <3> QED
      BY <2>2, <3>1, InverseTyped DEF ToPropertyName, TypeOK, Calls
  <2>3. CASE UNCHANGED lastCall
    BY <2>3 DEF TypeOK
  <2> QED
    BY <2>1, <2>2, <2>3 DEF Next
<1> QED
  BY <1>1, <1>2, PTL DEF Spec
=============================================================================
