---------------------------- MODULE EntityCodec ----------------------------
(***************************************************************************)
(* The entity codec of providers/neo4j/serialization.py (Neo4jSerializer): *)
(* serialize_node/serialize_relationship turn an entity into a wire       *)
(* record, deserialize_node/deserialize_relationship turn a stored row    *)
(* back into an entity, through the entity class's constructor.           *)
(*                                                                         *)
(* An entity class is given by its field descriptors, in declaration      *)
(* order: the field's name, how it is declared (a bare annotation with no *)
(* field info, property_field, embedded_field or related_node_field),     *)
(* its storage label (None when the field function was given none), its  *)
(* storage type, the values its declared type admits and its default.    *)
(* What get_field_info, get_relationship_type_for_field and the entity    *)
(* constructor do is taken from the spec: their code is not in this       *)
(* repository. Values are model values; model_dump() and the constructor's *)
(* validation of a dumped value give back the same value. json.dumps of a  *)
(* value v is the text blob Blob(v), and json.loads of Blob(v) is v.      *)
(***************************************************************************)
EXTENDS Naturals, Sequences, FiniteSets

CONSTANTS
    NodeClasses,  \* the node classes, each a sequence of field descriptors
    RelClasses,   \* the relationship classes
    Values,       \* field values
    Null,         \* Python None
    NoDefault     \* a field declared without a default (required)

\* How a field is declared, as get_field_info classifies it.
Kinds == {"none", "simple", "embedded", "related"}

Field == [name: STRING, kind: Kinds, label: STRING \cup {Null},
          json: BOOLEAN, rel_type: STRING \cup {Null}, private: BOOLEAN,
          domain: SUBSET (Values \cup {Null}),
          default: Values \cup {Null, NoDefault}]

ASSUME CodecAssumption ==
    /\ NodeClasses \subseteq Seq(Field)
    /\ RelClasses \subseteq Seq(Field)
    /\ {Null, NoDefault} \cap Values = {}
    /\ Null # NoDefault

\* json.dumps(v, default=str) and json.loads
Blob(v) == [json |-> v]
Loads(b) == b.json

\* The instances of an entity class: a value per field, in its domain.
Instances(S) == {e \in [1..Len(S) -> Values \cup {Null}] :
                     \A i \in 1..Len(S) : e[i] \in S[i].domain}

\* get_relationship_type_for_field: the explicit type, else the synthetic
\* name of RelTypeNaming (represented by the field name it wraps).
get_relationship_type_for_field(name, rel_type) ==
    IF rel_type # Null THEN rel_type ELSE [synthetic |-> name]

(***************************************************************************)
(* A Python dict filled by assignments d[key(i)] = val(i) for i in I, in  *)
(* increasing order: each key holds the value of its last assignment.     *)
(***************************************************************************)
DictOf(I, key(_), val(_)) ==
    [k \in {key(i) : i \in I} |->
        val(CHOOSE i \in I : key(i) = k /\ \A j \in I : key(j) = k => j <= i)]

\* The value stored for a simple or embedded field (lines 87-98, 141-152).
Stored(fd, v) == IF fd.kind = "embedded" /\ fd.json THEN Blob(v) ELSE v

\* A serialize_node keying simple fields by field_info.label alone.
NodePropKeyLabelOnly(fd) ==
    IF fd.kind = "none" THEN fd.name ELSE fd.label

\* serialize_node's key: the field name without field info (line 84),
\* else field_info.label or field_name (lines 89, 94).
NodePropKey(fd) ==
    IF fd.kind = "none" \/ fd.label = Null THEN fd.name ELSE fd.label

(***************************************************************************)
(* Neo4jSerializer.serialize_node (serialization.py:58-117): None values   *)
(* are skipped; bare and simple fields are stored as they are, embedded   *)
(* ones as JSON when their storage type is "json", both under their key;  *)
(* related-node fields go to complex_properties under their field name    *)
(* with their resolved relationship type and private flag.                *)
(***************************************************************************)
serialize_node(S, e) ==
    LET props == {i \in 1..Len(S) : e[i] # Null /\ S[i].kind # "related"}
        related == {i \in 1..Len(S) : e[i] # Null /\ S[i].kind = "related"}
    IN [properties |->
            DictOf(props, LAMBDA i : NodePropKey(S[i]),
                   LAMBDA i : Stored(S[i], e[i])),
        complex_properties |->
            DictOf(related, LAMBDA i : S[i].name,
                   LAMBDA i : [value |-> e[i],
                               relationship_type |->
                                   get_relationship_type_for_field(S[i].name, S[i].rel_type),
                               private |-> S[i].private])]

(***************************************************************************)
(* serialize_relationship's key (line 143): the field name without field  *)
(* info, else field_info.label as it is, even None, for a simple field;   *)
(* field_info.label or field_name for an embedded one (line 148).         *)
(***************************************************************************)
RelPropKey(fd) ==
    CASE fd.kind = "none"     -> fd.name
      [] fd.kind = "simple"   -> fd.label
      [] fd.kind = "embedded" -> IF fd.label = Null THEN fd.name ELSE fd.label

\* A serialize_relationship without the branch for fields with no field
\* info, so bare annotations are not stored.
serialize_relationship_no_bare(S, e) ==
    LET props == {i \in 1..Len(S) : e[i] # Null /\ S[i].kind \in {"simple", "embedded"}}
    IN [properties |->
            DictOf(props, LAMBDA i : RelPropKey(S[i]),
                   LAMBDA i : Stored(S[i], e[i])),
        complex_properties |-> <<>>]

\* Neo4jSerializer.serialize_relationship (serialization.py:120-160): the
\* related-node fields fall through every branch and are not stored.
serialize_relationship(S, e) ==
    LET props == {i \in 1..Len(S) : e[i] # Null /\ S[i].kind # "related"}
    IN [properties |->
            DictOf(props, LAMBDA i : RelPropKey(S[i]),
                   LAMBDA i : Stored(S[i], e[i])),
        complex_properties |-> <<>>]

\* The index of the field called k in S (model_fields[k]).
FieldIndex(S, k) == CHOOSE i \in 1..Len(S) : S[i].name = k

IsField(S, k) == \E i \in 1..Len(S) : S[i].name = k

(***************************************************************************)
(* node_type called with the data as keywords: each field takes its      *)
(* value, validated against its declared type, or its default; a missing  *)
(* required field or a value of the wrong type raises ValidationError.    *)
(* Keywords that are not fields are ignored. The result is the entity, or *)
(* the exception.                                                          *)
(***************************************************************************)
Raised(exc) == [exc |-> exc, value |-> <<>>]

Construct(S, data) ==
    IF \E i \in 1..Len(S) :
          IF S[i].name \in DOMAIN data
          THEN data[S[i].name] \notin S[i].domain
          ELSE S[i].default = NoDefault
    THEN Raised("ValidationError")
    ELSE [exc |-> "none",
          value |-> [i \in 1..Len(S) |->
                       IF S[i].name \in DOMAIN data THEN data[S[i].name]
                       ELSE S[i].default]]

(***************************************************************************)
(* Neo4jSerializer.deserialize_node (serialization.py:163-196). Only when *)
(* complex_properties is non-empty, each of its fields that is also a key *)
(* of the row is replaced: an embedded JSON field by json.loads of the    *)
(* stored text, any other by the supplied value.                          *)
(***************************************************************************)
deserialize_node(S, row, complex) ==
    LET Replaced(k) ==
            IF S[FieldIndex(S, k)].kind = "embedded"
            THEN IF S[FieldIndex(S, k)].json THEN Loads(row[k]) ELSE row[k]
            ELSE complex[k]
        data == IF DOMAIN complex = {} THEN row
                ELSE [k \in DOMAIN row |->
                         IF k \in DOMAIN complex THEN Replaced(k) ELSE row[k]]
    IN Construct(S, data)

(***************************************************************************)
(* Neo4jSerializer.deserialize_relationship (serialization.py:199-224):   *)
(* every key of the row is looked up in model_fields, which raises        *)
(* KeyError for a key that is not a field name; embedded JSON fields are  *)
(* decoded.                                                                *)
(***************************************************************************)
deserialize_relationship(S, row) ==
    LET Decoded(k) ==
            IF S[FieldIndex(S, k)].kind = "embedded" /\ S[FieldIndex(S, k)].json
            THEN Loads(row[k]) ELSE row[k]
    IN IF \E k \in DOMAIN row : ~IsField(S, k)
       THEN Raised("KeyError")
       ELSE Construct(S, [k \in DOMAIN row |-> Decoded(k)])

-----------------------------------------------------------------------------
(***************************************************************************)
(* A caller that stores an entity and reads it back: it serializes it,    *)
(* the provider writes the property map and returns it as the row, and   *)
(* the caller deserializes the row, passing the entity's related-node     *)
(* values as complex_properties, as the spec's round trip does.           *)
(***************************************************************************)
Phases == {"idle", "created", "serialized", "done"}

VARIABLES
    kind,      \* "node" or "rel": which kind of class the current entity is of
    cls,       \* the entity's class: its field descriptors
    entity,    \* the entity in memory
    wire,      \* the serialized record
    result,    \* what deserialization returned: an entity or an exception
    phase

vars == <<kind, cls, entity, wire, result, phase>>

NoWire == [properties |-> <<>>, complex_properties |-> <<>>]

Init ==
    /\ kind = "node"
    /\ cls = <<>>
    /\ entity = <<>>
    /\ wire = NoWire
    /\ result = Raised("none")
    /\ phase = "idle"

\* The related-node values of a node: {f: e.f for related f}, without None.
RelatedValues(S, e) ==
    LET I == {i \in 1..Len(S) : S[i].kind = "related" /\ e[i] # Null}
    IN DictOf(I, LAMBDA i : S[i].name, LAMBDA i : e[i])

Create(k, S, e) ==
    /\ phase \in {"idle", "done"}
    /\ kind' = k
    /\ cls' = S
    /\ entity' = e
    /\ wire' = NoWire
    /\ result' = Raised("none")
    /\ phase' = "created"

SerializeNode ==
    /\ phase = "created" /\ kind = "node"
    /\ wire' = serialize_node(cls, entity)
    /\ phase' = "serialized"
    /\ UNCHANGED <<kind, cls, entity, result>>

SerializeRelationship ==
    /\ phase = "created" /\ kind = "rel"
    /\ wire' = serialize_relationship(cls, entity)
    /\ phase' = "serialized"
    /\ UNCHANGED <<kind, cls, entity, result>>

DeserializeNode ==
    /\ phase = "serialized" /\ kind = "node"
    /\ result' = deserialize_node(cls, wire.properties, RelatedValues(cls, entity))
    /\ phase' = "done"
    /\ UNCHANGED <<kind, cls, entity, wire>>

DeserializeRelationship ==
    /\ phase = "serialized" /\ kind = "rel"
    /\ result' = deserialize_relationship(cls, wire.properties)
    /\ phase' = "done"
    /\ UNCHANGED <<kind, cls, entity, wire>>

Next ==
    \/ \E S \in NodeClasses : \E e \in Instances(S) : Create("node", S, e)
    \/ \E S \in RelClasses : \E e \in Instances(S) : Create("rel", S, e)
    \/ SerializeNode
    \/ SerializeRelationship
    \/ DeserializeNode
    \/ DeserializeRelationship

Spec == Init /\ [][Next]_vars

-----------------------------------------------------------------------------
\* Property-map keys: labels and field names, both strings.
TypeOK ==
    /\ kind \in {"node", "rel"}
    /\ phase \in Phases
    /\ phase \in {"serialized", "done"} =>
          /\ DOMAIN wire.properties \subseteq STRING
          /\ DOMAIN wire.complex_properties \subseteq STRING
    /\ phase = "done" =>
          \/ result.exc \in {"ValidationError", "KeyError"}
          \/ result.exc = "none" /\ result.value \in Instances(cls)

(***************************************************************************)
(* Round trip (spec 4.2, 8): reading back what was stored, with the       *)
(* entity's related-node values supplied, gives the entity back: the same *)
(* value in every field, and no exception.                                 *)
(***************************************************************************)
RoundTrip ==
    phase = "done" => result = [exc |-> "none", value |-> entity]
=============================================================================
