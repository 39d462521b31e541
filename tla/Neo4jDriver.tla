---------------------------- MODULE Neo4jDriver ----------------------------
(***************************************************************************)
(* The class-level driver singleton of providers/neo4j/driver.py, used by  *)
(* several asyncio tasks of one event loop. A task runs without            *)
(* interruption between two awaits; the only await that suspends is the   *)
(* one on the driver's own close() (driver.py:35), whose completion the   *)
(* event loop delivers later, in any order among tasks. So initialize()   *)
(* and close() are each split into the part before that await and the     *)
(* part after it; session() never suspends.                                *)
(*                                                                         *)
(* The driver objects made by AsyncGraphDatabase.driver are numbered in   *)
(* creation order; drvState records whether each is open or closed. The   *)
(* uri and auth fields (driver.py:22-23) are written but never read in    *)
(* this code and are left out.                                            *)
(***************************************************************************)
EXTENDS Naturals, FiniteSets

CONSTANTS
    Tasks,        \* the asyncio tasks calling Neo4jDriver's class methods
    MaxDrivers    \* bound on the number of driver objects ever created

ASSUME DriverAssumption == MaxDrivers \in Nat /\ IsFiniteSet(Tasks)

\* cls._driver is None.
None == 0

DriverIds == 1..MaxDrivers

\* Where a task is: between calls, or suspended on driver.close() inside
\* close() called from initialize() (line 21), or inside a direct close().
TaskStates == {"idle", "initClosing", "closeClosing"}

\* What a task's last call returned.
Results == {"none", "ok", "RuntimeError"}

VARIABLES
    driver,     \* cls._driver: None or the id of a driver object
    drvState,   \* drvState[d]: "unused" (not created yet), "open" or "closed"
    created,    \* how many driver objects AsyncGraphDatabase.driver made
    pc,         \* pc[t]: where task t is
    target,     \* target[t]: the driver whose close() task t awaits
    result,     \* result[t]: what task t's last call returned
    got         \* got[t]: the driver whose session task t last obtained

vars == <<driver, drvState, created, pc, target, result, got>>

Init ==
    /\ driver = None
    /\ drvState = [d \in DriverIds |-> "unused"]
    /\ created = 0
    /\ pc = [t \in Tasks |-> "idle"]
    /\ target = [t \in Tasks |-> None]
    /\ result = [t \in Tasks |-> "none"]
    /\ got = [t \in Tasks |-> None]

\* Tasks suspended inside initialize(); each will create one driver.
PendingInits == {t \in Tasks : pc[t] = "initClosing"}

\* AsyncGraphDatabase.driver(...) (line 24) returns a new open driver,
\* which becomes cls._driver.
Install ==
    /\ created' = created + 1
    /\ driver' = created + 1
    /\ drvState' = [drvState EXCEPT ![created + 1] = "open"]

(***************************************************************************)
(* initialize() (driver.py:19-24) up to its first suspension. With no     *)
(* driver it creates and installs one at once. Otherwise it calls close(),*)
(* which re-checks cls._driver (line 34) and awaits cls._driver.close()   *)
(* (line 35): the task suspends with that driver as its target.           *)
(***************************************************************************)
Initialize(t) ==
    /\ pc[t] = "idle"
    /\ created + Cardinality(PendingInits) < MaxDrivers
    /\ IF driver = None
       THEN /\ Install
            /\ result' = [result EXCEPT ![t] = "ok"]
            /\ UNCHANGED <<pc, target>>
       ELSE /\ pc' = [pc EXCEPT ![t] = "initClosing"]
            /\ target' = [target EXCEPT ![t] = driver]
            /\ UNCHANGED <<driver, drvState, created, result>>
    /\ UNCHANGED got

(***************************************************************************)
(* The rest of initialize(), once the awaited driver.close() completes:   *)
(* close() sets cls._driver = None (line 36) and returns, and initialize  *)
(* then creates and installs the new driver (lines 22-24), with no await  *)
(* in between, whatever cls._driver held meanwhile.                       *)
(***************************************************************************)
InitializeResume(t) ==
    /\ pc[t] = "initClosing"
    /\ created' = created + 1
    /\ driver' = created + 1
    /\ drvState' = [drvState EXCEPT ![target[t]] = "closed", ![created + 1] = "open"]
    /\ pc' = [pc EXCEPT ![t] = "idle"]
    /\ target' = [target EXCEPT ![t] = None]
    /\ result' = [result EXCEPT ![t] = "ok"]
    /\ UNCHANGED got

\* close() (driver.py:33-36) up to the await on cls._driver.close().
Close(t) ==
    /\ pc[t] = "idle"
    /\ IF driver = None
       THEN /\ result' = [result EXCEPT ![t] = "ok"]
            /\ UNCHANGED <<pc, target>>
       ELSE /\ pc' = [pc EXCEPT ![t] = "closeClosing"]
            /\ target' = [target EXCEPT ![t] = driver]
            /\ UNCHANGED result
    /\ UNCHANGED <<driver, drvState, created, got>>

\* A close() that forgot line 36 and left the closed driver installed.
CloseResumeKeepsDriver(t) ==
    /\ pc[t] = "closeClosing"
    /\ drvState' = [drvState EXCEPT ![target[t]] = "closed"]
    /\ pc' = [pc EXCEPT ![t] = "idle"]
    /\ target' = [target EXCEPT ![t] = None]
    /\ result' = [result EXCEPT ![t] = "ok"]
    /\ UNCHANGED <<driver, created, got>>

\* close() after the awaited driver.close() completes: cls._driver = None.
CloseResume(t) ==
    /\ pc[t] = "closeClosing"
    /\ drvState' = [drvState EXCEPT ![target[t]] = "closed"]
    /\ driver' = None
    /\ pc' = [pc EXCEPT ![t] = "idle"]
    /\ target' = [target EXCEPT ![t] = None]
    /\ result' = [result EXCEPT ![t] = "ok"]
    /\ UNCHANGED <<created, got>>

\* A session() without get_driver's None check: None.session() raises
\* AttributeError instead of the documented RuntimeError.
SessionWithoutCheck(t) ==
    /\ pc[t] = "idle"
    /\ IF driver = None
       THEN /\ result' = [result EXCEPT ![t] = "AttributeError"]
            /\ UNCHANGED got
       ELSE /\ result' = [result EXCEPT ![t] = "ok"]
            /\ got' = [got EXCEPT ![t] = driver]
    /\ UNCHANGED <<driver, drvState, created, pc, target>>

(***************************************************************************)
(* session() (driver.py:39-41) through get_driver() (lines 27-30): raise  *)
(* RuntimeError when no driver is installed, else open a session on it.  *)
(***************************************************************************)
Session(t) ==
    /\ pc[t] = "idle"
    /\ IF driver = None
       THEN /\ result' = [result EXCEPT ![t] = "RuntimeError"]
            /\ UNCHANGED got
       ELSE /\ result' = [result EXCEPT ![t] = "ok"]
            /\ got' = [got EXCEPT ![t] = driver]
    /\ UNCHANGED <<driver, drvState, created, pc, target>>

Next ==
    \E t \in Tasks :
        \/ Initialize(t)
        \/ InitializeResume(t)
        \/ Close(t)
        \/ CloseResume(t)
        \/ Session(t)

Spec == Init /\ [][Next]_vars

-----------------------------------------------------------------------------
TypeOK ==
    /\ driver \in {None} \cup DriverIds
    /\ drvState \in [DriverIds -> {"unused", "open", "closed"}]
    /\ created \in 0..MaxDrivers
    /\ pc \in [Tasks -> TaskStates]
    /\ target \in [Tasks -> {None} \cup DriverIds]
    /\ result \in [Tasks -> Results]
    /\ got \in [Tasks -> {None} \cup DriverIds]

(***************************************************************************)
(* get_driver() never hands out a driver whose close() has completed:     *)
(* whenever cls._driver is set it names an open driver, however the       *)
(* completions of concurrent close() calls interleave with initialize().  *)
(***************************************************************************)
InstalledDriverOpen ==
    driver # None => drvState[driver] = "open"

(***************************************************************************)
(* No driver leaks: every open driver is either cls._driver or one whose  *)
(* close() some task is awaiting. initialize() closes the previous driver *)
(* before installing a new one precisely so that an open driver, with its *)
(* connection pool, is never dropped.                                      *)
(***************************************************************************)
NoLeakedDriver ==
    \A d \in DriverIds :
        drvState[d] = "open" =>
            \/ d = driver
            \/ \E t \in Tasks : pc[t] # "idle" /\ target[t] = d

(***************************************************************************)
(* session() never opens a session on a driver whose close() some task is *)
(* already awaiting. close() clears cls._driver only after the awaited    *)
(* driver.close() returns (driver.py:35-36), so a session() run by        *)
(* another task in that window goes through get_driver() to the driver    *)
(* that is being shut down.                                                *)
(***************************************************************************)
SessionNotOnClosingDriver ==
    [][\A t \in Tasks :
         Session(t) /\ driver # None =>
            \A u \in Tasks : ~(pc[u] # "idle" /\ target[u] = driver)]_vars
=============================================================================
