-------------------------- MODULE UnitOrchestrator --------------------------
(* The fan-out of a unit into one run per session                           *)
(* (services/gateway/unit_orchestrator.py, unit_run_store.py), driven by    *)
(* the background sweeper of every gateway process (main.py), next to the   *)
(* teacher's spawn-anyway (routers/unit_runs.py).                           *)
(*                                                                          *)
(* A sweep is one database transaction over all units: for each it reads    *)
(* the children, decides the next session, inserts its run and its START    *)
(* job, and writes an event under the unit's advisory lock, which is held   *)
(* to the commit.  What the database does is external: rows of other        *)
(* transactions are seen once committed (READ COMMITTED), an insert waits   *)
(* for an uncommitted duplicate and fails on a committed one, a cycle of    *)
(* waits aborts one of its members.                                         *)
EXTENDS Naturals, Sequences, FiniteSets

CONSTANTS
    Units,        \* UNIT_PARENT runs whose lesson_sequence is not the placeholder
    Order,        \* LessonSequence.sessions of each unit: session ids in plan order
    Prereq,       \* SessionPlan.prerequisite_sessions of each session of a unit
    Sweepers,     \* gateway processes, one sweeper each
    Requests,     \* spawn-anyway requests, each made once
    MaxRestarts,   \* bound: gateway processes started again
    NoTarget      \* nothing decided

Sessions(u) == {Order[u][i] : i \in DOMAIN Order[u]}
Actors == Sweepers \cup Requests
Rows == UNION {{u} \X Sessions(u) : u \in Units}

ASSUME UnitAssumption ==
    /\ DOMAIN Order = Units /\ DOMAIN Prereq = Units
    /\ \A u \in Units : Prereq[u] \in [Sessions(u) -> SUBSET Sessions(u)]
    /\ Sweepers \cap Requests = {}
    /\ MaxRestarts \in Nat
    /\ NoTarget \notin Rows

VARIABLES
    child,    \* committed child runs: "none" or what the run has come to
    jobs,     \* committed START jobs: the row and the idempotency key used
    pc,       \* where each actor is in its transaction
    todo,     \* units a sweep still has to react to
    target,   \* the row an actor decided to insert
    tx,       \* rows an actor inserted and did not commit yet
    restarts   \* how many processes were started again

vars == <<child, jobs, pc, todo, target, tx, restarts>>

Keys == {"unit-session-start", "spawn-anyway"}
\* _FAILED_STATUS: "failed" stands for FAILED and CANCELLED, which is final too.
ChildStates == {"none", "open", "completed", "failed"}
\* "ended": an exception left the sweeper's loop; "down": the process is gone.
Phases == {"idle", "react", "insert", "announce", "commit", "done", "ended", "down"}

UnitInit ==
    /\ child = [w \in Rows |-> "none"]
    /\ jobs = {}
    /\ pc = [a \in Actors |-> "idle"]
    /\ todo = [a \in Actors |-> {}]
    /\ target = [a \in Actors |-> NoTarget]
    /\ tx = [a \in Actors |-> {}]
    /\ restarts = 0

-----------------------------------------------------------------------------
(* decide(): the session to spawn, read from the children of a unit.        *)

Spawned(u, s) == child[<<u, s>>] # "none"
PrereqsDone(u, s) == \A p \in Prereq[u][s] : child[<<u, p>>] = "completed"

\* Mutation of Ready: a failed prerequisite no longer holds a session back.
Ready_FailedCounts(u, s) ==
    ~Spawned(u, s) /\ \A p \in Prereq[u][s] : child[<<u, p>>] \in {"completed", "failed"}

\* Neither spawned yet nor blocked by a failed prerequisite nor waiting.
Ready(u, s) == ~Spawned(u, s) /\ PrereqsDone(u, s)

\* Mutation of Decision: the loop stops at the first session that was spawned.
Decision_HeadOnly(u) ==
    {s \in Sessions(u) : Ready(u, s) /\ s = Order[u][1]}

\* The first ready session in plan order; unit_fanout_concurrency is 1.
Decision(u) ==
    {s \in Sessions(u) : \E i \in DOMAIN Order[u] :
        /\ s = Order[u][i] /\ Ready(u, s)
        /\ \A k \in 1..(i - 1) : ~Ready(u, Order[u][k])}

-----------------------------------------------------------------------------
(* The database.                                                            *)

\* Units whose event lock the transaction of b holds.
EventLocks(b) ==
    IF b \in Requests THEN {}
    ELSE {w[1] : w \in IF pc[b] = "announce" THEN tx[b] \ {target[b]} ELSE tx[b]}

WaitsFor(a) ==
    {b \in Actors \ {a} :
        \/ pc[a] = "insert" /\ target[a] \in tx[b]
        \/ pc[a] = "announce" /\ target[a][1] \in EventLocks(b)}

Deadlocked(a) ==
    \E C \in SUBSET Actors : a \in C /\ \A b \in C : WaitsFor(b) \cap C # {}

\* Mutation of Duplicate: no unique constraint on (parent_run_id, session_id).
Duplicate_Allowed(w) == FALSE

\* uq_runs_parent_session.
Duplicate(w) == child[w] # "none"

-----------------------------------------------------------------------------
(* Both actors.                                                             *)

\* The transaction of a is gone with all its rows and locks.
RolledBack(a, next) ==
    /\ tx' = [tx EXCEPT ![a] = {}]
    /\ target' = [target EXCEPT ![a] = NoTarget]
    /\ todo' = [todo EXCEPT ![a] = {}]
    /\ pc' = [pc EXCEPT ![a] = next]
    /\ UNCHANGED <<child, jobs>>

\* create_child_run flushes the row; the START job follows in the transaction.
Insert(a) ==
    /\ pc[a] = "insert"
    /\ WaitsFor(a) = {}
    /\ ~Duplicate(target[a])
    /\ tx' = [tx EXCEPT ![a] = @ \cup {target[a]}]
    /\ pc' = [pc EXCEPT ![a] = IF a \in Sweepers THEN "announce" ELSE "commit"]
    /\ target' = [target EXCEPT ![a] = IF a \in Sweepers THEN @ ELSE NoTarget]
    /\ UNCHANGED <<child, jobs, todo, restarts>>

KeyOf(a) == IF a \in Sweepers THEN "unit-session-start" ELSE "spawn-anyway"

Commit(a) ==
    /\ pc[a] = "commit"
    /\ child' = [w \in Rows |-> IF w \in tx[a] THEN "open" ELSE child[w]]
    /\ jobs' = jobs \cup {<<w, KeyOf(a)>> : w \in tx[a]}
    /\ tx' = [tx EXCEPT ![a] = {}]
    /\ pc' = [pc EXCEPT ![a] = IF a \in Sweepers THEN "idle" ELSE "done"]
    /\ UNCHANGED <<todo, target, restarts>>

\* A request answers 500.  In a sweep the error of one unit is caught, but the
\* session refuses every later statement, the commit included, and nothing
\* catches that: the sweeper's task ends, and with it the lifespan's task group.
AfterError(a) == IF a \in Sweepers THEN "ended" ELSE "done"

\* The insert meets a committed row, or the database picks a deadlock's victim.
InsertFails(a) ==
    /\ pc[a] = "insert" /\ WaitsFor(a) = {} /\ Duplicate(target[a])
    /\ RolledBack(a, AfterError(a))
    /\ UNCHANGED restarts

DeadlockVictim(a) ==
    /\ Deadlocked(a)
    /\ RolledBack(a, AfterError(a))
    /\ UNCHANGED restarts

-----------------------------------------------------------------------------
(* The sweeper.                                                             *)

\* Every 60 s: reconcile_units selects the live units (no order is asked for).
\* A unit parent stays live: nothing here changes its status.
SweepStart(g) ==
    /\ pc[g] = "idle"
    /\ todo' = [todo EXCEPT ![g] = Units]
    /\ pc' = [pc EXCEPT ![g] = "react"]
    /\ UNCHANGED <<child, jobs, target, tx, restarts>>

\* react: the children are read and at most one SPAWN is decided.  (The
\* placeholder of a unit still being planned fails validation before any
\* statement could fail, and the sweep goes on to the next unit.)
React(g, u) ==
    /\ pc[g] = "react" /\ u \in todo[g]
    /\ todo' = [todo EXCEPT ![g] = @ \ {u}]
    /\ \/ Decision(u) = {} /\ UNCHANGED <<pc, target>>
       \/ /\ \E s \in Decision(u) : target' = [target EXCEPT ![g] = <<u, s>>]
          /\ pc' = [pc EXCEPT ![g] = "insert"]
    /\ UNCHANGED <<child, jobs, tx, restarts>>

\* write_event of unit.session.spawned takes the unit's advisory lock.
Announce(g) ==
    /\ pc[g] = "announce"
    /\ WaitsFor(g) = {}
    /\ target' = [target EXCEPT ![g] = NoTarget]
    /\ pc' = [pc EXCEPT ![g] = "react"]
    /\ UNCHANGED <<child, jobs, todo, tx, restarts>>

SweepDone(g) ==
    /\ pc[g] = "react" /\ todo[g] = {}
    /\ pc' = [pc EXCEPT ![g] = "commit"]
    /\ UNCHANGED <<child, jobs, todo, target, tx, restarts>>

\* The process of gateway g dies; an operator starts it again, also one that
\* still serves requests without a sweeper.
Crash(g) ==
    /\ pc[g] # "down"
    /\ RolledBack(g, "down")
    /\ UNCHANGED restarts

Restart(g) ==
    /\ pc[g] \in {"ended", "down"} /\ restarts < MaxRestarts
    /\ pc' = [pc EXCEPT ![g] = "idle"]
    /\ restarts' = restarts + 1
    /\ UNCHANGED <<child, jobs, todo, target, tx>>

-----------------------------------------------------------------------------
(* spawn-anyway: the session must be unspawned; prerequisites do not matter. *)

SpawnAnyway(q, u, s) ==
    /\ pc[q] = "idle"
    /\ ~Spawned(u, s)
    /\ target' = [target EXCEPT ![q] = <<u, s>>]
    /\ pc' = [pc EXCEPT ![q] = "insert"]
    /\ UNCHANGED <<child, jobs, todo, tx, restarts>>

\* The client or the connection goes away before the commit.
RequestLost(q) ==
    /\ pc[q] \in {"insert", "commit"}
    /\ RolledBack(q, "done")
    /\ UNCHANGED restarts

-----------------------------------------------------------------------------
(* A child run settles, once, as RunPromise says runs do.                    *)

ChildSettles(w, st) ==
    /\ child[w] = "open"
    /\ child' = [child EXCEPT ![w] = st]
    /\ UNCHANGED <<jobs, pc, todo, target, tx, restarts>>

UnitNext ==
    \/ \E a \in Actors : Insert(a) \/ InsertFails(a) \/ DeadlockVictim(a) \/ Commit(a)
    \/ \E g \in Sweepers : SweepStart(g) \/ Announce(g) \/ SweepDone(g) \/ Crash(g) \/ Restart(g)
    \/ \E g \in Sweepers, u \in Units : React(g, u)
    \/ \E q \in Requests, w \in Rows : SpawnAnyway(q, w[1], w[2])
    \/ \E q \in Requests : RequestLost(q)
    \/ \E w \in Rows, st \in {"completed", "failed"} : ChildSettles(w, st)

Sweep(g) == SweepStart(g) \/ (\E u \in Units : React(g, u)) \/ Announce(g) \/ SweepDone(g)
Statement(a) == Insert(a) \/ InsertFails(a) \/ DeadlockVictim(a) \/ Commit(a)

\* The sweeper's loop and the server's handlers run on; crashes, restarts,
\* teachers and child runs come when they like.
UnitFairness ==
    /\ \A g \in Sweepers : WF_vars(Sweep(g) \/ Statement(g))
    /\ \A q \in Requests : WF_vars(Statement(q))

UnitSafety == UnitInit /\ [][UnitNext]_vars
UnitSpec == UnitSafety /\ UnitFairness

-----------------------------------------------------------------------------
(* Properties.                                                              *)

\* Types, and what a transaction holds where it is.
UnitTypeOK ==
    /\ child \in [Rows -> ChildStates]
    /\ jobs \subseteq Rows \X Keys
    /\ pc \in [Actors -> Phases]
    /\ todo \in [Actors -> SUBSET Units]
    /\ target \in [Actors -> Rows \cup {NoTarget}]
    /\ tx \in [Actors -> SUBSET Rows]
    /\ restarts \in 0..MaxRestarts
    /\ \A a \in Actors :
        /\ pc[a] \in {"insert", "announce"} <=> target[a] # NoTarget
        /\ tx[a] # {} => pc[a] \in {"react", "insert", "announce", "commit"}

\* However sweeps of several gateways and spawn-anyway requests interleave, and
\* whichever transaction is rolled back, a session has one START job exactly
\* when it has a child run (react 264-276, spawn_anyway 283-303).
OneStartPerChild ==
    \A w \in Rows :
        Cardinality({k \in Keys : <<w, k>> \in jobs}) = IF child[w] = "none" THEN 0 ELSE 1

\* A child the orchestrator started (not the teacher, who may overrule) had all
\* its prerequisites completed, and they still are: the decision was read
\* before the insert and the commit (decide 131-152, react 224-265).
SweptAfterPrerequisites ==
    \A w \in Rows :
        <<w, "unit-session-start">> \in jobs => PrereqsDone(w[1], w[2])

\* If the sweeper of some gateway stays up, every session whose prerequisites
\* are completed is started, although one sweep starts one session per unit
\* and other sweepers die holding rows and locks
\* (reconcile_units 298-335, the sweep as the backstop of ADR-017).
Up(g) == pc[g] \notin {"ended", "down"}
ReadyIsStarted ==
    (\E g \in Sweepers : <>[]Up(g))
        => \A w \in Rows : Ready(w[1], w[2]) ~> Spawned(w[1], w[2])

\* A spawn that loses the race is a no-op and costs at most the unit it is
\* about: "the flush on the child row raises IntegrityError which we convert to
\* a no-op" (tests/test_unit_orchestrator_idempotency.py 133-136).
LostRaceIsNoOp == \A g \in Sweepers : pc[g] # "ended"

=============================================================================
