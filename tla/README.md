# TLA+ models of the Python graph model library

This directory models the Python library under `src/python/graph_model` in TLA+: its traversal builder, Neo4j driver holder, naming convention, type classifier and entity codec. It has TLC configurations that model-check them on small instances, and TLAPS proofs of the central safety properties for every value of the constants.

## 1. The system

The library maps Python classes to a property graph stored in Neo4j.

| Part | Source | State and operations | Interacts with |
|---|---|---|---|
| Traversal model | `querying/traversal.py` | `TraversalStep` (depth bounds validated at construction); `GraphTraversal` (start nodes, step list, total depth limit, include-paths flag) with builder methods `add_step`, `with_depth_limit`, `include_paths`, each returning a new object; `execute*` are stubs that raise | callers; provider subclasses (not in the repository) |
| Driver holder | `providers/neo4j/driver.py` | class-level `_driver` singleton; async `initialize`, async `close`, `get_driver`, `session` | every asyncio task of the process; the neo4j driver |
| Relationship-type naming | `core/graph.py:184-211` | pure: `"__PROPERTY__" + name + "__"` and its inverse | entity codec (`get_relationship_type_for_field`), query translator |
| Type classifier | `core/graph.py:213-269` | pure: `is_simple_type` (recursive), `is_complex_type`, `is_collection_of_simple`, `is_collection_of_complex` | field classification at registration |
| Entity codec | `providers/neo4j/serialization.py` | pure: `serialize_node`, `serialize_relationship`, `deserialize_node`, `deserialize_relationship`; Cypher fragment formatters | the provider that writes and reads rows; entity classes (pydantic) |
| Graph/queryable interfaces | `core/graph.py:24-171` | abstract methods only | provider implementations (absent) |
| Query plan builder/translator | `querying/queryable.py`, `cypher_builder.py` | imported, but not in the repository | — |
| Examples | `examples/*.py` | entity classes and demonstration calls | everything above |

The only concurrency in the code is that of asyncio tasks sharing the `Neo4jDriver` class. Its only suspension point is the await on the driver's own `close()`. Everything else is pure, or a builder that runs without suspending.

### The hard behaviours

- **Driver holder.** `initialize` and `close` read `cls._driver` before an await and write it after. Two tasks can therefore both close the same driver. The task resumed second then overwrites the driver the first one installed.
- **Traversal builder.** The builder copies every field by hand. A forgotten field, or a list shared instead of copied, changes what an earlier traversal means. The start-node list is kept by reference.
- **Naming.** Prefix and suffix handling uses `startswith`, `endswith` and a slice with a negative bound. The prefix `"__PROPERTY__"` itself ends with the suffix `"__"`.
- **Classifier.** `is_simple_type` recurses through collection element types.
- **Codec.** Serialization routes fields by their declaration and keys them by storage label. Deserialization decodes JSON and substitutes related values only under conditions on its optional argument. Labels and field names differ.

### The properties that make each part correct

- **Traversal.**
  - Builder calls never change an existing traversal.
  - A derived traversal keeps its base's steps and settings, apart from the one the call changes.
  - Invalid depths are rejected at construction.
  - Read through its pointers, the builder behaves as the abstract specification of immutable values (`TraversalValues`).
- **Driver.**
  - `cls._driver` never names a closed driver.
  - No open driver is dropped.
  - No session is opened on a driver whose `close()` is being awaited.
- **Naming.**
  - The inverse undoes the forward mapping.
  - Names that do not match the pattern pass through unchanged.
- **Classifier.** Spec 4.1 rule 2: a collection is a collection of simple values only if its elements are primitive.
- **Codec.** The round trip of spec 8: reading back what was stored gives the entity back.

## 2. Modules

| Module | Models | Kind |
|---|---|---|
| `Traversal` | traversal.py | state machine over two heaps of Python lists |
| `TraversalValues` | spec 4.3, 5 | abstract specification: traversals as immutable values |
| `TraversalProofs` | — | TLAPS proofs about `Traversal`, including its refinement of `TraversalValues` |
| `Neo4jDriver` | driver.py | asyncio tasks as processes with a pc |
| `Neo4jDriverProofs` | — | TLAPS proofs about `Neo4jDriver` |
| `RelTypeNaming` | graph.py:184-211 | pure operators plus a one-call-at-a-time caller |
| `RelTypeNamingProofs` | — | TLAPS proofs about `RelTypeNaming` |
| `TypeClassifier` | graph.py:213-269 | RECURSIVE operators (TLC only) plus a caller |
| `EntityCodec` | serialization.py:29-224 | pure operators plus a store-and-read-back caller |
| `EntityCodecProofs` | — | TLAPS proofs about `EntityCodec`: its inductive invariant, and round trip for the safe family of classes |
| `MC*` | — | the instances TLC checks |

### Traversal (`Traversal.tla`)

Python lists are objects with identity, so the module keeps two heaps:
- `stepsHeap` holds every step list the builder allocates;
- `nodesHeap` holds every start-node list a caller passes in.

`travs[t]` is the t-th `GraphTraversal` object: pointers into the heaps, `max_total_depth` (`None` or an integer) and `include_paths`. It also carries two history fields, `parent` and `op`, that only the properties read.

The actions are the builder methods:

| Action | Code |
|---|---|
| `CreateTraversalFromNodes` | `__init__` and `create_traversal_from_nodes`: stores the caller's list, allocates an empty step list |
| `AddStep` | validation raises `ValueError`, or `self._steps + [step]` is allocated |
| `WithDepthLimit` | a negative limit raises; otherwise `.copy()` |
| `IncludePaths` | `.copy()` and sets the flag |
| `Execute` | raises `NotImplementedError` |

`CallerAppendsStartNode` is the caller's own code appending to a list it passed in. Only `SpecWithCaller` includes it.

**Refinement.** `TraversalValues.tla` is what the builder promises (spec 4.3, 5), with no pointers. `vals` is the sequence of traversal values returned so far. Each value is a record of:
- the start nodes;
- the steps;
- the total depth limit;
- the paths flag.

Each builder call appends one value that differs from its receiver in one field, or fails and appends nothing. `Traversal.tla` maps its state to `vals` by `Views`, which reads every object through its pointers (`View`). `ImplementsValues` is `TraversalValues!AbsSpec` under that mapping.

### Neo4jDriver (`Neo4jDriver.tla`)

Each task is idle, or suspended on a driver's `close()` inside `initialize` (`initClosing`) or inside `close` (`closeClosing`). Drivers are numbered in creation order, and `drvState` records whether each one is unused, open or closed.

| Action | Code |
|---|---|
| `Initialize` | lines 20-21 up to the await, or 22-24 at once when no driver is installed |
| `InitializeResume` | line 36, then 22-24 with no await between, so it is one step |
| `Close` | lines 34-35 |
| `CloseResume` | the await completes, then line 36 |
| `Session` | `get_driver` and `session` |

### RelTypeNaming (`RelTypeNaming.tla`)

A `str` is modelled as the sequence of its characters:
- the f-string is concatenation;
- `startswith` and `endswith` compare a prefix or suffix of the sequence;
- `s[i:j]` is `PySlice`, which applies Python's normalisation of negative and out-of-range bounds (`PyIndex`).

### TypeClassifier (`TypeClassifier.tla`)

An annotation is a record of its name, its `get_origin` and its `get_args`. `Annotations(d)` enumerates the annotations of nesting depth up to d over the given class names: single-argument list, tuple and set, two-argument tuples, and `Optional`.

### EntityCodec (`EntityCodec.tla`)

An entity class is a sequence of field descriptors. Each descriptor gives:
- the field's name;
- how it is declared: a bare annotation (`none`), `property_field`, `embedded_field` or `related_node_field`;
- its label;
- its JSON storage;
- the values its type admits;
- its default.

Two helpers of the code are modelled from the spec, because their code is not in the repository and they are marked `spec_modelled` in the map:
- `get_field_info` and `get_relationship_type_for_field`;
- the entity constructor (pydantic validation: each field gets its keyword value if that value is admitted, else its default; a missing required field or an inadmissible value raises `ValidationError`).

`DictOf` is a Python dict filled in declaration order, so the last assignment to a key wins.

The constants `NodeClasses` and `RelClasses` are the entity classes a caller may use. `MCEntityCodec.tla` gives them the classes of `examples/basic_usage.py`: `Person`, `Company`, `WorksFor`, `Knows` and `Manages`. `PersonSimple` and `CompanySimple` are the plain-property parts of the two node classes. `WorksForIndexed` is `WorksFor` with `position` declared as an unlabelled `property_field`.

The caller picks a class and an instance of it, creates the entity, serializes it, and deserializes the stored property map. For nodes it passes the entity's related-node values as `complex_properties`, as spec 8's round trip does.

## 3. Runs

| Run | Config | Expect | Checks | Shows |
|---|---|---|---|---|
| traversal_safety | MCTraversal.cfg | pass | TypeOK, DerivedExtendsBase, ImplementsValues | derived traversals keep their base's steps and settings, and the builder implements the abstract immutable-value specification |
| traversal_caller_mutation | MCTraversalCaller.cfg | violation | TraversalImmutable | the caller's list is shared (traversal.py:165) |
| driver_installed_open | MCNeo4jDriver.cfg | pass | TypeOK, InstalledDriverOpen | `cls._driver` is never a closed driver |
| driver_leak | MCNeo4jDriverLeak.cfg | violation | NoLeakedDriver | concurrent `initialize` calls leak a driver (driver.py:36) |
| naming_round_trip | MCRelTypeNaming.cfg | pass | TypeOK, InverseUndoesForward | the inverse recovers every property name |
| naming_strips_nonmatching | MCRelTypeNamingStrip.cfg | violation | NonMatchingUnchanged | `"__PROPERTY__"` is mapped to `""` (graph.py:209) |
| classifier_rule2 | MCTypeClassifier.cfg | violation | CollectionOfSimpleIsRule2 | `List[List[str]]` counts as a collection of simple (graph.py:235) |
| codec_round_trip | MCEntityCodec.cfg | pass | TypeOK, RoundTrip | WorksFor, Knows, Manages and the plain properties of Person and Company round-trip |
| codec_node_round_trip | MCEntityCodecNode.cfg | violation | RoundTrip | Person or Company with embedded fields does not read back (serialization.py:183) |
| codec_rel_unlabelled | MCEntityCodecRel.cfg | violation | RoundTrip | an unlabelled `property_field` on a relationship raises KeyError (serialization.py:143) |
| codec_label_collision | MCEntityCodecLabel.cfg | violation | RoundTrip | a field labelled with another field's storage label is overwritten (serialization.py:89) |
| driver_session_stale | MCNeo4jDriverSession.cfg | violation | SessionNotOnClosingDriver | `session()` opens a session on a driver that `initialize()` is closing (driver.py:41) |

`ImplementsValues` implies `TraversalImmutable`: an abstract step only appends a value, so every value returned earlier stays as it was. No run therefore checks `TraversalImmutable` on its own; the `Immutable` theorem proves it for all constants.

Every property of a passing run has a mutant listed in `PROJECT.json`. A mutant is a plausible bug in the mapped definition, and TLC finds it.

### Bounds and why they suffice

- **Traversal:**
  - four traversal objects, one relationship type and one node type;
  - depths in -1..1, start lists of at most one of two nodes.

  Four objects allow a chain of three builder calls, or fan-out from one base, which is what mixing settings and sharing needs. The depths -1..1 cover both `ValueError` branches and the valid 0 and 1. The proofs cover every bound.
- **Driver:** two tasks and three drivers. That is the smallest instance in which two calls can be suspended on the same driver while a third driver is created. The leak needs exactly this.
- **Naming:**
  - the code's real prefix and suffix;
  - property names of up to three characters over `_`, `P` and `a`, so that names can contain the suffix or the start of the prefix;
  - type names that are short words, or the prefix followed by one.

  The theorem covers all names.
- **Classifier:** annotations nested twice over `str`, `int`, `datetime` and a user class.
- **Codec:** the five example classes, with one to three values per field. The label-collision run uses one user class of two string fields, which is the smallest schema with two fields on one key. The pass run uses the plain-property node classes and all three relationship classes, so every relationship default and every bare field is exercised.

### Fairness and liveness

No liveness property is checked. The one candidate is that every suspended call returns. It holds under weak fairness of the awaited `close()`, and only because of that fairness:
- `InitializeResume` and `CloseResume` are guarded by the task's pc alone (the code re-checks nothing after the await);
- so the property would restate the fairness assumption and say nothing about driver.py.

The code has no other progress obligation: everything but `close()` completes in one step.

Deadlock checking is on in every run. Every state of every model has a next step: `Execute` is always enabled once a traversal exists, `session` is always enabled, and the callers can always start over.

## 4. What is proved

TLAPS proves the following for every value of the constants, under the assumptions named in each module:
- `TraversalAssumption`: the depths are integers, the bounds are naturals, and `None` is not an integer;
- `NamingAssumption`: the prefix and suffix are strings, and the suffix is non-empty, as the code's `"__"` is;
- `DriverAssumption`: `MaxDrivers` is a natural and the set of tasks is finite.
- `CodecAssumption`: the typing of the model values the codec uses, `Null` being neither `NoDefault` nor a value of the other kinds.

**TraversalProofs**
- `TypeCorrect`: `Spec => []TypeOK`. TypeOK is inductive on its own, because it includes the facts that every pointer is in range and every parent precedes its child.
- `Immutable`: `Spec => TraversalImmutable`. This follows from the lemma `OldUnchanged`: every step only appends to the heaps and to `travs`, so the old entries and what they point at are unchanged.
- `DerivedExtendsBaseHolds`: `Spec => []DerivedExtendsBase`. The inductive invariant is `TypeOK /\ DerivedExtendsBase`.
  - For an existing traversal, `DerivedFrom` is preserved because its view and its parent's view are unchanged (`ViewStable`).
  - For the new one, it follows from the action's definition, through the lemmas `PrefixRefl` and `PrefixOfAppend`.

- `Refinement`: `Spec => ImplementsValues`.
  - Every step of `Next` is a step of `AbsNext` under `Views`, or leaves `Views` and `outcome` unchanged. The proof has one lemma per action: `CreateRefines`, `AddStepRefines`, `WithDepthLimitRefines`, `IncludePathsRefines`.
  - Each lemma has two parts. `ViewStable` shows the old values are unchanged, which gives `ViewsAppend`. `DerivedView` computes the one new value from the two heaps.
  - `TypeCorrect` provides the typing that these steps need, and the temporal step is closed by PTL.

**Neo4jDriverProofs**
- `DriverInvariant`: `Spec => []IInv`. `InstalledDriverOpen` is not inductive on its own. A task suspended in `initialize` will install a fresh driver when it resumes, and nothing in `InstalledDriverOpen` says that driver is unused. `IInv` therefore adds four facts:
  - drivers are created in order (`drvState[d] = "unused"` exactly for `d > created`);
  - `created` plus the number of suspended `initialize` calls is at most `MaxDrivers`, so a resuming task always has room;
  - the installed driver has been created;
  - every suspended task awaits a created driver.

  There is one lemma per action. The cardinality of the suspended set is tracked with `FS_AddElement` and `FS_RemoveElement`.
- `DriverTypeCorrect` and `InstalledDriverOpenHolds` follow from it.

**RelTypeNamingProofs**
- `RoundTrip`: the inverse undoes the forward mapping for every name.
  - The proof computes the characters of `PREFIX + f + SUFFIX` (lemma `WrappedElems`).
  - From them it shows that `startswith` and `endswith` hold.
  - It shows that `PyIndex` turns the slice bounds into `|PREFIX|` and `|PREFIX| + |f|`.
  - The slice is then equal to `f` (`SeqEqual`).
  - The non-empty suffix is needed: with `""`, `s[k:-0]` would be empty.
- `RoundTripInvariant`: `Spec => []InverseUndoesForward`, from `RoundTrip`.
- `NamingTypeCorrect`: `Spec => []TypeOK`.
  - The lemmas `PyIndexRange` and `PySliceTyped` show that Python's negative-index slicing stays within the string and yields a string.
  - `InverseTyped` shows that the inverse maps strings to strings, whether or not the pattern matches.

**EntityCodecProofs**
- The lemma `CodecInvariant` (`Spec => []CodecInv`) is bookkeeping about the caller, for every set of classes: once serialized, `wire` is `serialize_*` of the entity it created, and once read back, `result` is the deserializer applied to that record. It says nothing about the codec itself and is not a result of its own; the two theorems below rest on it.
- `CodecRoundTrip`: `SafeClasses => (Spec => []RoundTrip)`, and `CodecTypeCorrect`: `SafeClasses => (Spec => []TypeOK)`.
  - `SafeClasses` is the family of classes the round trip is true for:
    - field names are distinct;
    - a field whose domain holds `None` has default `None`;
    - no field holds a related node;
    - on a node, a stored field is stored under its own name or unlabelled, and no embedded field is JSON;
    - on a relationship, a simple field is labelled with its own name, and an embedded one is labelled with its own name or unlabelled.
  - Each clause excludes one of the failures the violation runs show:
    - `codec_node_round_trip` (embedded fields on a node);
    - `codec_rel_unlabelled` (an unlabelled simple relationship field);
    - `codec_label_collision` (one field labelled with another's name).

    It is therefore a real hypothesis and not a vacuous one. TLC finds it true of the classes of the passing run `codec_round_trip` and false of those of the three violation runs.
  - JSON storage is modelled as lossless (`Blob`/`Loads`): `json.loads(json.dumps(v, default=str))` gives `v` back. That is true of the JSON-native values (strings, numbers, booleans, lists, dicts) the model's domains stand for. It is false for sets, tuples and datetimes, which `default=str` turns into strings, so for a JSON embedded field on a relationship the theorem covers only JSON-native values.
  - The argument is in two lemmas per kind:
    - `NodeRow` / `RelRow` compute the serialized record field by field. The `CHOOSE` in the dictionary comprehension is resolved through `DistinctNames`.
    - `NodeRoundTrip` / `RelRoundTrip` show that the deserializer then finds every field under its name and rebuilds the same instance (`ConstructBack`).

**Only model-checked.** These stay with TLC:
- the driver's `NoLeakedDriver` and `SessionNotOnClosingDriver`, which are violated;
- the classifier, because it is recursive and no module with a theorem may reach a `RECURSIVE` operator;
- liveness, and anything under `ENABLED`, which TLAPS does not handle here.

## 5. Findings

| Finding | Where | What |
|---|---|---|
| Caller's start list is aliased | traversal.py:165 | every derived traversal shares the caller's start-node list |
| Concurrent `initialize` leaks a driver | driver.py:36 | the task resumed second writes `None` over the newly installed driver |
| Non-matching name stripped | graph.py:209 | `"__PROPERTY__"` is mapped to `""` |
| Nested collection counted as simple | graph.py:235 | `is_collection_of_simple(List[List[str]])` is true, against spec 4.1 rule 2 |
| Node round trip fails | serialization.py:183 | embedded JSON and related values are not restored with the spec's arguments |
| Unlabelled relationship field | serialization.py:143 | stored under `None`; reading back raises KeyError |
| Colliding storage labels | serialization.py:89 | the later field overwrites the earlier one; the spec does not forbid equal labels |
| Session on a closing driver | driver.py:41 | during `initialize()`'s await on the old driver, `session()` still hands that driver out |

## 6. Not modelled, and the plan

**Not modelled:**
- `TraversalPath` (nothing constructs it);
- the Cypher fragment formatters (string layout only);
- the abstract interfaces;
- the package `__init__` files;
- the demonstration code of the examples;
- the entity classes of `examples/linq_style_querying.py`. Each defines its own `__init__(self, name, age, ...)`, which assigns attributes instead of calling the model constructor. The codec's read-back (`cls(**props)`) would therefore go through code that `Construct`, the spec's pydantic construction, does not describe;
- the query plan builder and query translator, whose code is absent.

**Planned next:**
1. A spec-modelled query plan module (spec 4.4, 4.5):
   - the immutability of plans under fan-out;
   - the order in which fragments are emitted.

