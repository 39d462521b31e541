------------------------- MODULE EntityCodecProofs -------------------------
(***************************************************************************)
(* When the entity codec round-trips (spec 4.2, 8), for every entity class *)
(* in a family described by the shape of its field declarations, and for  *)
(* every instance of such a class. The codec runs show what happens       *)
(* outside that family: an embedded or related field of a node, an        *)
(* unlabelled property_field of a relationship, two fields on one label.  *)
(***************************************************************************)
EXTENDS EntityCodec, TLAPS

USE CodecAssumption

\* No two fields of the class share a name (model_fields is a dict).
DistinctNames(S) ==
    \A i, j \in 1..Len(S) : S[i].name = S[j].name => i = j

\* A field that may hold None defaults to None, so a skipped None value
\* comes back as the same None.
NullDefaults(S) ==
    \A i \in 1..Len(S) : Null \in S[i].domain => S[i].default = Null

(***************************************************************************)
(* A node class whose entities serialize_node and deserialize_node give   *)
(* back: each field is stored under its own name (no label, or the label  *)
(* equal to the name), it is not a related-node field (those are not      *)
(* stored), and it is not an embedded JSON field (deserialize_node leaves *)
(* the JSON undecoded when complex_properties is empty).                  *)
(***************************************************************************)
SafeNode(S) ==
    /\ DistinctNames(S)
    /\ NullDefaults(S)
    /\ \A i \in 1..Len(S) :
          /\ S[i].kind # "related"
          /\ S[i].kind # "none" => S[i].label \in {Null, S[i].name}
          /\ ~(S[i].kind = "embedded" /\ S[i].json)

(***************************************************************************)
(* A relationship class whose entities round-trip: serialize_relationship *)
(* keys a simple field by its label as it is, so that label must be the   *)
(* field's name; an embedded field is keyed by its label or name and its  *)
(* JSON is decoded on the way back.                                       *)
(***************************************************************************)
SafeRel(S) ==
    /\ DistinctNames(S)
    /\ NullDefaults(S)
    /\ \A i \in 1..Len(S) :
          /\ S[i].kind # "related"
          /\ S[i].kind = "simple" => S[i].label = S[i].name
          /\ S[i].kind = "embedded" => S[i].label \in {Null, S[i].name}

SafeClasses ==
    /\ \A S \in NodeClasses : SafeNode(S)
    /\ \A S \in RelClasses : SafeRel(S)

(***************************************************************************)
(* The caller's state is what the codec functions compute from the class  *)
(* and the entity it created: the wire record is serialize_*(cls, entity) *)
(* and the result is deserialize_* of that record.                        *)
(***************************************************************************)
ClassesOf(k) == IF k = "node" THEN NodeClasses ELSE RelClasses

Serialized(k, S, e) ==
    IF k = "node" THEN serialize_node(S, e) ELSE serialize_relationship(S, e)

ReadBack(k, S, e, w) ==
    IF k = "node" THEN deserialize_node(S, w.properties, RelatedValues(S, e))
    ELSE deserialize_relationship(S, w.properties)

CodecInv ==
    /\ kind \in {"node", "rel"}
    /\ phase \in Phases
    /\ phase # "idle" => cls \in ClassesOf(kind) /\ entity \in Instances(cls)
    /\ phase \in {"serialized", "done"} => wire = Serialized(kind, cls, entity)
    /\ phase = "done" => result = ReadBack(kind, cls, entity, wire)
-----------------------------------------------------------------------------
\* In a safe node class every stored field is keyed by its own name and
\* stored as it is.
LEMMA NodeKey ==
    ASSUME NEW S \in Seq(Field), SafeNode(S), NEW i \in 1..Len(S), NEW v
    PROVE  /\ S[i].kind # "related"
           /\ NodePropKey(S[i]) = S[i].name
           /\ Stored(S[i], v) = v
BY DEF SafeNode, NodePropKey, Stored

(***************************************************************************)
(* The property map serialize_node writes for a safe class: one key per   *)
(* field that is not None, its name, holding the field's value. DictOf's  *)
(* CHOOSE picks the field itself, since no other field has its key.       *)
(***************************************************************************)
LEMMA NodeRow ==
    ASSUME NEW S \in Seq(Field), SafeNode(S), NEW e \in Instances(S)
    PROVE  /\ DOMAIN serialize_node(S, e).properties =
                 {S[i].name : i \in {j \in 1..Len(S) : e[j] # Null}}
           /\ \A i \in 1..Len(S) :
                 e[i] # Null => serialize_node(S, e).properties[S[i].name] = e[i]
<1> DEFINE props == {i \in 1..Len(S) : e[i] # Null /\ S[i].kind # "related"}
           P == {j \in 1..Len(S) : e[j] # Null}
           Pick(k) == CHOOSE c \in props : NodePropKey(S[c]) = k
                        /\ \A j \in props : NodePropKey(S[j]) = k => j <= c
<1>1. props = P
  BY NodeKey
<1>2. serialize_node(S, e).properties =
        [k \in {NodePropKey(S[i]) : i \in props} |-> Stored(S[Pick(k)], e[Pick(k)])]
  BY DEF serialize_node, DictOf
<1>3. ASSUME NEW i \in props PROVE Pick(S[i].name) = i
  <2>1. \A c \in props : NodePropKey(S[c]) = S[i].name => c = i
    BY NodeKey DEF SafeNode, DistinctNames
  <2>2. /\ NodePropKey(S[i]) = S[i].name
        /\ \A j \in props : NodePropKey(S[j]) = S[i].name => j <= i
    BY <2>1, NodeKey
  <2> QED
    BY <2>1, <2>2
<1>4. {NodePropKey(S[i]) : i \in props} = {S[i].name : i \in P}
  <2>1. ASSUME NEW i \in props PROVE NodePropKey(S[i]) = S[i].name
    BY NodeKey
  <2>2. {NodePropKey(S[i]) : i \in props} = {S[i].name : i \in props}
    BY <2>1, Zenon
  <2> QED
    BY <1>1, <2>2
<1>5. ASSUME NEW i \in 1..Len(S), e[i] # Null
      PROVE  serialize_node(S, e).properties[S[i].name] = e[i]
  <2>1. i \in props /\ S[i].name \in {NodePropKey(S[j]) : j \in props}
    BY <1>5, NodeKey
  <2>2. Pick(S[i].name) = i
    BY <2>1, <1>3
  <2>3. serialize_node(S, e).properties[S[i].name] =
          Stored(S[Pick(S[i].name)], e[Pick(S[i].name)])
    BY <1>2, <2>1, Zenon
  <2>4. Stored(S[i], e[i]) = e[i]
    BY NodeKey
  <2> QED
    BY <2>2, <2>3, <2>4
<1> QED
  BY <1>2, <1>4, <1>5

(***************************************************************************)
(* The entity constructor given, under each field's name, the value of    *)
(* every field that is not None builds the entity back: the other fields  *)
(* take their default, which is None.                                     *)
(***************************************************************************)
LEMMA ConstructBack ==
    ASSUME NEW S \in Seq(Field), DistinctNames(S), NullDefaults(S),
           NEW e \in Instances(S), NEW data,
           DOMAIN data = {S[i].name : i \in {j \in 1..Len(S) : e[j] # Null}},
           \A i \in 1..Len(S) : e[i] # Null => data[S[i].name] = e[i]
    PROVE  Construct(S, data) = [exc |-> "none", value |-> e]
<1>1. ASSUME NEW i \in 1..Len(S) PROVE S[i].name \in DOMAIN data <=> e[i] # Null
  BY DEF DistinctNames
<1>2. /\ e \in [1..Len(S) -> Values \cup {Null}]
      /\ \A i \in 1..Len(S) : e[i] \in S[i].domain
  BY DEF Instances
<1>3. ASSUME NEW i \in 1..Len(S)
      PROVE  /\ ~IF S[i].name \in DOMAIN data
                  THEN data[S[i].name] \notin S[i].domain
                  ELSE S[i].default = NoDefault
             /\ (IF S[i].name \in DOMAIN data THEN data[S[i].name]
                 ELSE S[i].default) = e[i]
  <2>1. CASE e[i] # Null
    BY <1>1, <1>2, <2>1
  <2>2. CASE e[i] = Null
    <3>1. S[i].name \notin DOMAIN data
      BY <1>1, <2>2
    <3>2. S[i].default = Null
      BY <1>2, <2>2 DEF NullDefaults
    <3> QED
      BY <3>1, <3>2, <2>2
  <2> QED
    BY <2>1, <2>2
<1> QED
  BY <1>2, <1>3 DEF Construct

(***************************************************************************)
(* Node round trip: a safe node class has no related-node field, so the   *)
(* caller passes an empty complex_properties, deserialize_node constructs *)
(* from the stored row as it is, and the row holds every field.           *)
(***************************************************************************)
LEMMA NodeRoundTrip ==
    ASSUME NEW S \in Seq(Field), SafeNode(S), NEW e \in Instances(S)
    PROVE  deserialize_node(S, serialize_node(S, e).properties, RelatedValues(S, e))
             = [exc |-> "none", value |-> e]
<1>1. {i \in 1..Len(S) : S[i].kind = "related" /\ e[i] # Null} = {}
  BY NodeKey
<1>2. DOMAIN RelatedValues(S, e) = {}
  BY <1>1 DEF RelatedValues, DictOf
<1>3. deserialize_node(S, serialize_node(S, e).properties, RelatedValues(S, e))
        = Construct(S, serialize_node(S, e).properties)
  BY <1>2 DEF deserialize_node
<1>4. DistinctNames(S) /\ NullDefaults(S)
  BY DEF SafeNode
<1> QED
  BY <1>3, <1>4, NodeRow, ConstructBack

-----------------------------------------------------------------------------
\* In a safe relationship class every stored field is keyed by its name.
LEMMA RelKey ==
    ASSUME NEW S \in Seq(Field), SafeRel(S), NEW i \in 1..Len(S)
    PROVE  /\ S[i].kind # "related"
           /\ RelPropKey(S[i]) = S[i].name
<1>1. S[i] \in Field
  OBVIOUS
<1>2. S[i].kind \in {"none", "simple", "embedded"}
  BY <1>1 DEF SafeRel, Field, Kinds
<1> QED
  BY <1>2 DEF SafeRel, RelPropKey

(***************************************************************************)
(* The property map serialize_relationship writes for a safe class: one  *)
(* key per field that is not None, its name, holding the stored value.    *)
(***************************************************************************)
LEMMA RelRow ==
    ASSUME NEW S \in Seq(Field), SafeRel(S), NEW e \in Instances(S)
    PROVE  /\ DOMAIN serialize_relationship(S, e).properties =
                 {S[i].name : i \in {j \in 1..Len(S) : e[j] # Null}}
           /\ \A i \in 1..Len(S) :
                 e[i] # Null =>
                    serialize_relationship(S, e).properties[S[i].name] = Stored(S[i], e[i])
<1> DEFINE props == {i \in 1..Len(S) : e[i] # Null /\ S[i].kind # "related"}
           P == {j \in 1..Len(S) : e[j] # Null}
           Pick(k) == CHOOSE c \in props : RelPropKey(S[c]) = k
                        /\ \A j \in props : RelPropKey(S[j]) = k => j <= c
<1>1. props = P
  BY RelKey
<1>2. serialize_relationship(S, e).properties =
        [k \in {RelPropKey(S[i]) : i \in props} |-> Stored(S[Pick(k)], e[Pick(k)])]
  BY DEF serialize_relationship, DictOf
<1>3. ASSUME NEW i \in props PROVE Pick(S[i].name) = i
  <2>1. \A c \in props : RelPropKey(S[c]) = S[i].name => c = i
    BY RelKey DEF SafeRel, DistinctNames
  <2>2. /\ RelPropKey(S[i]) = S[i].name
        /\ \A j \in props : RelPropKey(S[j]) = S[i].name => j <= i
    BY <2>1, RelKey
  <2> QED
    BY <2>1, <2>2
<1>4. {RelPropKey(S[i]) : i \in props} = {S[i].name : i \in P}
  <2>1. ASSUME NEW i \in props PROVE RelPropKey(S[i]) = S[i].name
    BY RelKey
  <2>2. {RelPropKey(S[i]) : i \in props} = {S[i].name : i \in props}
    BY <2>1, Zenon
  <2> QED
    BY <1>1, <2>2
<1>5. ASSUME NEW i \in 1..Len(S), e[i] # Null
      PROVE  serialize_relationship(S, e).properties[S[i].name] = Stored(S[i], e[i])
  <2>1. i \in props /\ S[i].name \in {RelPropKey(S[j]) : j \in props}
    BY <1>5, RelKey
  <2>2. Pick(S[i].name) = i
    BY <2>1, <1>3
  <2>3. serialize_relationship(S, e).properties[S[i].name] =
          Stored(S[Pick(S[i].name)], e[Pick(S[i].name)])
    BY <1>2, <2>1, Zenon
  <2> QED
    BY <2>2, <2>3
<1> QED
  BY <1>2, <1>4, <1>5

(***************************************************************************)
(* Relationship round trip: every key of the stored row is a field name,  *)
(* so deserialize_relationship raises no KeyError; model_fields[k] finds  *)
(* the field stored under k, and json.loads undoes json.dumps.            *)
(***************************************************************************)
LEMMA RelRoundTrip ==
    ASSUME NEW S \in Seq(Field), SafeRel(S), NEW e \in Instances(S)
    PROVE  deserialize_relationship(S, serialize_relationship(S, e).properties)
             = [exc |-> "none", value |-> e]
<1> DEFINE row == serialize_relationship(S, e).properties
           Dec(k) == IF S[FieldIndex(S, k)].kind = "embedded" /\ S[FieldIndex(S, k)].json
                     THEN Loads(row[k]) ELSE row[k]
           data == [k \in DOMAIN row |-> Dec(k)]
<1>1. ASSUME NEW i \in 1..Len(S) PROVE FieldIndex(S, S[i].name) = i
  BY DEF SafeRel, DistinctNames, FieldIndex
<1>2. \A k \in DOMAIN row : IsField(S, k)
  BY RelRow DEF IsField
<1>3. deserialize_relationship(S, row) = Construct(S, data)
  BY <1>2 DEF deserialize_relationship
<1>4. ASSUME NEW i \in 1..Len(S), e[i] # Null PROVE data[S[i].name] = e[i]
  <2>1. S[i].name \in DOMAIN row /\ row[S[i].name] = Stored(S[i], e[i])
    BY <1>4, RelRow
  <2>2. Dec(S[i].name) = e[i]
    BY <1>1, <2>1 DEF Stored, Loads, Blob
  <2> QED
    BY <2>1, <2>2
<1>5. DOMAIN data = {S[i].name : i \in {j \in 1..Len(S) : e[j] # Null}}
  BY RelRow
<1>6. DistinctNames(S) /\ NullDefaults(S)
  BY DEF SafeRel
<1> QED
  BY <1>3, <1>4, <1>5, <1>6, ConstructBack

-----------------------------------------------------------------------------
(***************************************************************************)
(* Bookkeeping lemma: the store-and-read-back caller only ever holds     *)
(* what the codec functions compute from the class and entity it created, *)
(* for every set of classes, safe or not.  It says nothing about the      *)
(* codec itself; CodecRoundTrip below is where its behaviour is proved.   *)
(***************************************************************************)
LEMMA CodecInvariant == Spec => []CodecInv
<1>1. Init => CodecInv
  BY DEF Init, CodecInv, Phases
<1>2. CodecInv /\ [Next]_vars => CodecInv'
  <2> SUFFICES ASSUME CodecInv, [Next]_vars PROVE CodecInv'
    OBVIOUS
  <2>1. ASSUME NEW S \in NodeClasses, NEW e \in Instances(S), Create("node", S, e)
        PROVE  CodecInv'
    BY <2>1 DEF Create, CodecInv, ClassesOf, Phases
  <2>2. ASSUME NEW S \in RelClasses, NEW e \in Instances(S), Create("rel", S, e)
        PROVE  CodecInv'
    BY <2>2 DEF Create, CodecInv, ClassesOf, Phases
  <2>3. CASE SerializeNode
    BY <2>3 DEF SerializeNode, CodecInv, Serialized, Phases
  <2>4. CASE SerializeRelationship
    BY <2>4 DEF SerializeRelationship, CodecInv, Serialized, Phases
  <2>5. CASE DeserializeNode
    BY <2>5 DEF DeserializeNode, CodecInv, ReadBack, Phases
  <2>6. CASE DeserializeRelationship
    BY <2>6 DEF DeserializeRelationship, CodecInv, ReadBack, Phases
  <2>7. CASE UNCHANGED vars
    BY <2>7 DEF vars, CodecInv, ClassesOf, Serialized, ReadBack
  <2> QED
    BY <2>1, <2>2, <2>3, <2>4, <2>5, <2>6, <2>7 DEF Next
<1> QED
  BY <1>1, <1>2, PTL DEF Spec

\* What a finished read-back returns, for a safe class.
LEMMA DoneResult ==
    ASSUME SafeClasses, CodecInv, phase = "done"
    PROVE  /\ result = [exc |-> "none", value |-> entity]
           /\ entity \in Instances(cls)
<1>1. cls \in ClassesOf(kind) /\ entity \in Instances(cls)
      /\ wire = Serialized(kind, cls, entity)
      /\ result = ReadBack(kind, cls, entity, wire)
      /\ kind \in {"node", "rel"}
  BY DEF CodecInv
<1>2. CASE kind = "node"
  <2>1. cls \in Seq(Field) /\ SafeNode(cls)
    BY <1>1, <1>2 DEF ClassesOf, SafeClasses
  <2> QED
    BY <1>1, <1>2, <2>1, NodeRoundTrip DEF Serialized, ReadBack
<1>3. CASE kind = "rel"
  <2>1. cls \in Seq(Field) /\ SafeRel(cls)
    BY <1>1, <1>3 DEF ClassesOf, SafeClasses
  <2> QED
    BY <1>1, <1>3, <2>1, RelRoundTrip DEF Serialized, ReadBack
<1> QED
  BY <1>1, <1>2, <1>3

(***************************************************************************)
(* Round trip (spec 4.2, 8) of serialization.py:58-224 for every family   *)
(* of safe classes: reading back a stored node or relationship gives the  *)
(* entity back, with no exception.                                        *)
(***************************************************************************)
THEOREM CodecRoundTrip == SafeClasses => (Spec => []RoundTrip)
<1> SUFFICES ASSUME SafeClasses PROVE Spec => []RoundTrip
  OBVIOUS
<1>1. CodecInv => RoundTrip
  BY DoneResult DEF RoundTrip
<1> QED
  BY <1>1, CodecInvariant, PTL

\* Every field of a class has a string name.
LEMMA FieldNameString ==
    ASSUME NEW S \in Seq(Field)
    PROVE  \A i \in 1..Len(S) : S[i].name \in STRING
<1> SUFFICES ASSUME NEW i \in 1..Len(S) PROVE S[i].name \in STRING
  OBVIOUS
<1>1. S[i] \in Field
  OBVIOUS
<1> QED
  BY <1>1, Zenon DEF Field

\* The keys serialize_* writes for a safe class are field names: strings.
LEMMA WireKeys ==
    ASSUME SafeClasses, CodecInv, phase \in {"serialized", "done"}
    PROVE  /\ DOMAIN wire.properties \subseteq STRING
           /\ DOMAIN wire.complex_properties \subseteq STRING
<1>1. cls \in ClassesOf(kind) /\ entity \in Instances(cls)
      /\ wire = Serialized(kind, cls, entity) /\ kind \in {"node", "rel"}
  BY DEF CodecInv
<1>2. CASE kind = "node"
  <2>1. cls \in Seq(Field) /\ SafeNode(cls)
    BY <1>1, <1>2 DEF ClassesOf, SafeClasses
  <2>2. \A i \in 1..Len(cls) : cls[i].name \in STRING
    BY <2>1, FieldNameString
  <2>3. wire = serialize_node(cls, entity)
    BY <1>1, <1>2 DEF Serialized
  <2>6. DOMAIN serialize_node(cls, entity).properties =
          {cls[i].name : i \in {j \in 1..Len(cls) : entity[j] # Null}}
    BY <1>1, <2>1, NodeRow
  <2>4. DOMAIN wire.properties \subseteq STRING
    BY <2>2, <2>3, <2>6
  <2>5. DOMAIN wire.complex_properties \subseteq STRING
    BY <2>2, <2>3 DEF serialize_node, DictOf
  <2> QED
    BY <2>4, <2>5
<1>3. CASE kind = "rel"
  <2>1. cls \in Seq(Field) /\ SafeRel(cls)
    BY <1>1, <1>3 DEF ClassesOf, SafeClasses
  <2>2. \A i \in 1..Len(cls) : cls[i].name \in STRING
    BY <2>1, FieldNameString
  <2>3. wire = serialize_relationship(cls, entity)
    BY <1>1, <1>3 DEF Serialized
  <2>6. DOMAIN serialize_relationship(cls, entity).properties =
          {cls[i].name : i \in {j \in 1..Len(cls) : entity[j] # Null}}
    BY <1>1, <2>1, RelRow
  <2>4. DOMAIN wire.properties \subseteq STRING
    BY <2>2, <2>3, <2>6
  <2>5. DOMAIN wire.complex_properties = {}
    BY <2>3 DEF serialize_relationship
  <2> QED
    BY <2>4, <2>5
<1> QED
  BY <1>1, <1>2, <1>3

(***************************************************************************)
(* Type correctness of the codec caller for every family of safe classes: *)
(* the property maps are keyed by strings and a finished read-back is an  *)
(* instance of the class or one of the two exceptions.                    *)
(***************************************************************************)
THEOREM CodecTypeCorrect == SafeClasses => (Spec => []TypeOK)
<1> SUFFICES ASSUME SafeClasses PROVE Spec => []TypeOK
  OBVIOUS
<1>1. CodecInv => TypeOK
  <2> SUFFICES ASSUME CodecInv PROVE TypeOK
    OBVIOUS
  <2>1. kind \in {"node", "rel"} /\ phase \in Phases
    BY DEF CodecInv
  <2>2. phase \in {"serialized", "done"} =>
          /\ DOMAIN wire.properties \subseteq STRING
          /\ DOMAIN wire.complex_properties \subseteq STRING
    BY WireKeys
  <2>3. phase = "done" => result.exc = "none" /\ result.value \in Instances(cls)
    BY DoneResult
  <2> QED
    BY <2>1, <2>2, <2>3 DEF TypeOK
<1> QED
  BY <1>1, CodecInvariant, PTL
=============================================================================
