------------------------- MODULE Neo4jDriverProofs -------------------------
(***************************************************************************)
(* Proofs about the driver singleton (module Neo4jDriver) for every set   *)
(* of tasks and every bound on the drivers created.                       *)
(***************************************************************************)
EXTENDS Neo4jDriver, TLAPS, FiniteSetTheorems

USE DriverAssumption

(***************************************************************************)
(* The inductive invariant. Drivers are created in order, so the ones     *)
(* numbered up to created are the ones that exist; each task suspended in *)
(* initialize() will create one more, and the guard of Initialize keeps   *)
(* room for all of them, so the driver InitializeResume installs is one   *)
(* of DriverIds. Every driver a suspended task awaits exists.             *)
(***************************************************************************)
IInv ==
    /\ TypeOK
    /\ created + Cardinality(PendingInits) <= MaxDrivers
    /\ \A d \in DriverIds : drvState[d] = "unused" <=> d > created
    /\ driver # None => driver <= created
    /\ \A t \in Tasks : pc[t] # "idle" => target[t] \in 1..created
    /\ InstalledDriverOpen

\* The tasks suspended in initialize() are a finite set.
LEMMA PendingFinite ==
    ASSUME TypeOK
    PROVE  /\ IsFiniteSet(PendingInits)
           /\ Cardinality(PendingInits) \in Nat
<1>1. IsFiniteSet(PendingInits)
  BY FS_Subset DEF PendingInits
<1> QED
  BY <1>1, FS_CardinalityType

\* Suspending task t in initialize() adds it to the pending tasks.
LEMMA PendingAdd ==
    ASSUME TypeOK, NEW t \in Tasks, pc[t] = "idle",
           pc' = [pc EXCEPT ![t] = "initClosing"]
    PROVE  Cardinality(PendingInits') = Cardinality(PendingInits) + 1
<1>1. PendingInits' = PendingInits \cup {t}
  BY DEF PendingInits, TypeOK
<1>2. t \notin PendingInits
  BY DEF PendingInits
<1> QED
  BY <1>1, <1>2, PendingFinite, FS_AddElement

\* Resuming task t from initialize() removes it from the pending tasks.
LEMMA PendingRemove ==
    ASSUME TypeOK, NEW t \in Tasks, pc[t] = "initClosing",
           pc' = [pc EXCEPT ![t] = "idle"]
    PROVE  /\ Cardinality(PendingInits') = Cardinality(PendingInits) - 1
           /\ Cardinality(PendingInits) >= 1
<1>1. PendingInits' = PendingInits \ {t}
  BY DEF PendingInits, TypeOK
<1>2. t \in PendingInits
  BY DEF PendingInits
<1>3. /\ IsFiniteSet(PendingInits \ {t})
      /\ Cardinality(PendingInits \ {t}) = Cardinality(PendingInits) - 1
  BY <1>2, PendingFinite, FS_RemoveElement
<1>4. Cardinality(PendingInits \ {t}) \in Nat
  BY <1>3, FS_CardinalityType
<1> QED
  BY <1>1, <1>3, <1>4, PendingFinite

\* With pc unchanged, so are the pending tasks.
LEMMA PendingSame ==
    ASSUME pc' = pc
    PROVE  PendingInits' = PendingInits
BY DEF PendingInits

-----------------------------------------------------------------------------
LEMMA InitInv == Init => IInv
<1> SUFFICES ASSUME Init PROVE IInv
  OBVIOUS
<1>1. PendingInits = {}
  BY DEF Init, PendingInits
<1>2. Cardinality(PendingInits) = 0
  BY <1>1, FS_EmptySet
<1> QED
  BY <1>2 DEF Init, IInv, TypeOK, DriverIds, TaskStates, Results, None,
             InstalledDriverOpen

(***************************************************************************)
(* initialize() with no driver installed creates driver created + 1, for  *)
(* which the guard has kept room.                                          *)
(***************************************************************************)
LEMMA InitializeInstallInv ==
    ASSUME IInv, NEW t \in Tasks, pc[t] = "idle",
           created + Cardinality(PendingInits) < MaxDrivers,
           driver = None, Install,
           result' = [result EXCEPT ![t] = "ok"],
           UNCHANGED <<pc, target, got>>
    PROVE  IInv'
<1>1. Cardinality(PendingInits) \in Nat
  BY PendingFinite DEF IInv
<1>2. created + 1 \in DriverIds /\ created \in Nat
  BY <1>1 DEF IInv, TypeOK, DriverIds
<1>3. PendingInits' = PendingInits
  BY PendingSame
<1>4. TypeOK'
  BY <1>2, SMT DEF IInv, TypeOK, Install, Results, DriverIds, None
<1>5. \A d \in DriverIds : drvState'[d] = "unused" <=> d > created'
  BY <1>2, SMT DEF IInv, TypeOK, Install, DriverIds
<1>6. InstalledDriverOpen'
  BY <1>2 DEF IInv, TypeOK, Install, InstalledDriverOpen, None
<1> QED
  BY <1>1, <1>2, <1>3, <1>4, <1>5, <1>6 DEF IInv, Install, None

\* initialize() with a driver installed suspends on its close().
LEMMA InitializeSuspendInv ==
    ASSUME IInv, NEW t \in Tasks, pc[t] = "idle",
           created + Cardinality(PendingInits) < MaxDrivers,
           driver # None,
           pc' = [pc EXCEPT ![t] = "initClosing"],
           target' = [target EXCEPT ![t] = driver],
           UNCHANGED <<driver, drvState, created, result, got>>
    PROVE  IInv'
<1>1. Cardinality(PendingInits') = Cardinality(PendingInits) + 1
  BY PendingAdd DEF IInv
<1>2. TypeOK'
  BY DEF IInv, TypeOK, TaskStates, None, DriverIds
<1>3. \A u \in Tasks : pc'[u] # "idle" => target'[u] \in 1..created'
  BY DEF IInv, TypeOK, None, DriverIds
<1>4. Cardinality(PendingInits) \in Nat /\ created \in Nat
  BY PendingFinite DEF IInv, TypeOK
<1>5. created' + Cardinality(PendingInits') <= MaxDrivers
  BY <1>1, <1>4
<1> QED
  BY <1>2, <1>3, <1>5 DEF IInv, InstalledDriverOpen

(***************************************************************************)
(* The rest of initialize(): the awaited driver, which exists, is closed, *)
(* and driver created + 1 is installed. The task leaves the pending set,  *)
(* so the room it reserved is the room the new driver takes.              *)
(***************************************************************************)
LEMMA InitializeResumeInv ==
    ASSUME IInv, NEW t \in Tasks, InitializeResume(t)
    PROVE  IInv'
<1>1. /\ Cardinality(PendingInits') = Cardinality(PendingInits) - 1
      /\ Cardinality(PendingInits) >= 1
  BY PendingRemove DEF IInv, InitializeResume
<1>2. /\ Cardinality(PendingInits) \in Nat /\ created \in Nat
      /\ created + 1 \in DriverIds
  BY <1>1, PendingFinite DEF IInv, TypeOK, DriverIds
<1>3. target[t] \in 1..created
  BY DEF IInv, InitializeResume
<1>4. TypeOK'
  BY <1>2, <1>3, SMT DEF IInv, TypeOK, InitializeResume, Results, DriverIds,
                         None, TaskStates
<1>5. \A d \in DriverIds : drvState'[d] = "unused" <=> d > created'
  BY <1>2, <1>3, SMT DEF IInv, TypeOK, InitializeResume, DriverIds
<1>6. \A u \in Tasks : pc'[u] # "idle" => target'[u] \in 1..created'
  BY <1>2, SMT DEF IInv, TypeOK, InitializeResume
<1>7. InstalledDriverOpen'
  BY <1>2, <1>3, SMT DEF IInv, TypeOK, InitializeResume, InstalledDriverOpen,
                         DriverIds
<1>8. created' + Cardinality(PendingInits') <= MaxDrivers
  BY <1>1, <1>2 DEF IInv, InitializeResume
<1>9. driver' <= created'
  BY <1>2 DEF InitializeResume
<1> QED
  BY <1>4, <1>5, <1>6, <1>7, <1>8, <1>9 DEF IInv

\* close() with a driver installed suspends on the driver's close().
LEMMA CloseInv ==
    ASSUME IInv, NEW t \in Tasks, Close(t)
    PROVE  IInv'
<1>1. PendingInits' = PendingInits
  BY DEF IInv, TypeOK, Close, PendingInits
<1>2. TypeOK'
  BY DEF IInv, TypeOK, Close, Results, TaskStates
<1>3. \A u \in Tasks : pc'[u] # "idle" => target'[u] \in 1..created'
  BY DEF IInv, TypeOK, Close, DriverIds, None
<1> QED
  BY <1>1, <1>2, <1>3 DEF IInv, Close, InstalledDriverOpen

\* The rest of close(): the awaited driver is closed and none is installed.
LEMMA CloseResumeInv ==
    ASSUME IInv, NEW t \in Tasks, CloseResume(t)
    PROVE  IInv'
<1>1. PendingInits' = PendingInits
  BY DEF IInv, TypeOK, CloseResume, PendingInits
<1>2. target[t] \in 1..created /\ created \in Nat
  BY DEF IInv, TypeOK, CloseResume
<1>3. TypeOK'
  BY <1>2 DEF IInv, TypeOK, CloseResume, Results, TaskStates, DriverIds, None
<1>4. \A d \in DriverIds : drvState'[d] = "unused" <=> d > created'
  BY <1>2, SMT DEF IInv, TypeOK, CloseResume, DriverIds
<1>5. \A u \in Tasks : pc'[u] # "idle" => target'[u] \in 1..created'
  BY DEF IInv, TypeOK, CloseResume
<1> QED
  BY <1>1, <1>3, <1>4, <1>5 DEF IInv, CloseResume, InstalledDriverOpen

\* session() changes only the calling task's result and session.
LEMMA SessionInv ==
    ASSUME IInv, NEW t \in Tasks, Session(t)
    PROVE  IInv'
<1>1. PendingInits' = PendingInits
  BY DEF Session, PendingInits
<1>2. TypeOK'
  BY DEF IInv, TypeOK, Session, Results
<1> QED
  BY <1>1, <1>2 DEF IInv, Session, InstalledDriverOpen

-----------------------------------------------------------------------------
(***************************************************************************)
(* IInv is inductive: every action of every task, and every stutter,      *)
(* keeps it.                                                               *)
(***************************************************************************)
LEMMA NextInv == IInv /\ [Next]_vars => IInv'
<1> SUFFICES ASSUME IInv, [Next]_vars PROVE IInv'
  OBVIOUS
<1>1. CASE \E t \in Tasks : Initialize(t)
  <2>1. PICK t \in Tasks : Initialize(t)
    BY <1>1
  <2>2. CASE driver = None
    BY <2>1, <2>2, InitializeInstallInv DEF Initialize
  <2>3. CASE driver # None
    BY <2>1, <2>3, InitializeSuspendInv DEF Initialize
  <2> QED
    BY <2>2, <2>3
<1>2. CASE \E t \in Tasks : InitializeResume(t)
  BY <1>2, InitializeResumeInv
<1>3. CASE \E t \in Tasks : Close(t)
  BY <1>3, CloseInv
<1>4. CASE \E t \in Tasks : CloseResume(t)
  BY <1>4, CloseResumeInv
<1>5. CASE \E t \in Tasks : Session(t)
  BY <1>5, SessionInv
<1>6. CASE UNCHANGED vars
  <2>1. PendingInits' = PendingInits
    BY <1>6 DEF vars, PendingInits
  <2> QED
    BY <1>6, <2>1 DEF vars, IInv, TypeOK, InstalledDriverOpen
<1> QED
  BY <1>1, <1>2, <1>3, <1>4, <1>5, <1>6 DEF Next

(***************************************************************************)
(* Every run keeps the singleton well typed, and get_driver() never hands *)
(* out a driver whose close() has completed (InstalledDriverOpen), for    *)
(* any number of tasks and however their close() completions interleave. *)
(***************************************************************************)
THEOREM DriverInvariant == Spec => []IInv
BY InitInv, NextInv, PTL DEF Spec

\* The type invariant of the driver singleton holds in every run.
THEOREM DriverTypeCorrect == Spec => []TypeOK
<1>1. IInv => TypeOK
  BY DEF IInv
<1> QED
  BY <1>1, DriverInvariant, PTL

\* cls._driver, whenever it is set, names an open driver in every run.
THEOREM InstalledDriverOpenHolds == Spec => []InstalledDriverOpen
<1>1. IInv => InstalledDriverOpen
  BY DEF IInv
<1> QED
  BY <1>1, DriverInvariant, PTL
=============================================================================
