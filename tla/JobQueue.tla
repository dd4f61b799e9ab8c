------------------------------ MODULE JobQueue ------------------------------
(***************************************************************************)
(* The durable job queue of the gateway: the run_jobs table, the worker    *)
(* tasks that lease jobs from it, the recovery sweeper and the operator's  *)
(* recovery actions (services/gateway: teaching_pack_job_store.py,         *)
(* teaching_pack_worker.py, recovery_sweeper.py, admin_recovery.py).       *)
(*                                                                         *)
(* A job is its row.  Ids are creation order (created_at); an enqueue      *)
(* whose idempotency key exists returns the stored row and changes         *)
(* nothing, so it is a stuttering step.  Wall-clock time is abstracted to  *)
(* what the queries compare with it: a lease is live or expired, a         *)
(* backoff is in the future or past.  Every action is one database         *)
(* transaction, except the sweep, whose SELECT takes no row lock: its read *)
(* and its write are two actions.                                          *)
(*                                                                         *)
(* A task is one coroutine of a worker process (_run_claimed_job); several *)
(* tasks may share a worker id (worker_concurrency > 1).                   *)
(***************************************************************************)
EXTENDS Naturals, FiniteSets

CONSTANTS
  Jobs,         \* job ids, positive numbers in the order of created_at
  Runs,         \* teaching-pack runs a job may belong to
  Tasks,        \* coroutines that may hold a claimed job
  WorkerIds,    \* values of the lease_owner column
  WorkerOf,     \* the worker id each task claims under
  NoWorker,     \* lease_owner IS NULL
  NoRun,        \* run of a job that does not exist yet
  MaxAttempts,  \* max_transient_attempts = DEFAULT_MAX_ATTEMPTS (3)
  MaxFaults,    \* bound: crashes and stalled heartbeats in one behaviour
  MaxOps        \* bound: operator retries and replays in one behaviour

ASSUME QueueAssumption ==
  /\ Jobs \subseteq Nat \ {0}
  /\ WorkerOf \in [Tasks -> WorkerIds]
  /\ NoWorker \notin WorkerIds
  /\ NoRun \notin Runs
  /\ MaxAttempts \in Nat \ {0}
  /\ MaxFaults \in Nat
  /\ MaxOps \in Nat

VARIABLES
  runOf,         \* run_jobs.run_id
  jobStatus,     \* run_jobs.status
  leaseOwner,    \* run_jobs.lease_owner
  lease,         \* run_jobs.lease_expires_at against the clock
  attempts,      \* run_jobs.attempts
  eligible,      \* run_jobs.eligible_at against the clock
  taskJob,       \* the job a task executes, 0 when idle
  taskAttempts,  \* job.attempts in the RunJobRead the claim returned
  beating,       \* the task's heartbeat coroutine is still looping
  lost,          \* history: since its claim, the task's lease expired or
                 \* its job's row was released by somebody else
  sweepSet,      \* jobs the open sweep transaction has read as stuck
  sweepAttempts, \* attempts as that transaction read them
  faults, ops    \* how much of the two bounds is used

rowVars   == <<runOf, jobStatus, leaseOwner, lease, attempts, eligible>>
taskVars  == <<taskJob, taskAttempts, beating, lost>>
sweepVars == <<sweepSet, sweepAttempts>>
boundVars == <<faults, ops>>
vars      == <<rowVars, taskVars, sweepVars, boundVars>>

NoJob == 0

\* RunJobStatus.  FAILED is left out: only mark_failed writes it and nothing
\* calls mark_failed; "absent" is a row that has not been inserted.
JobStatuses == {"absent", "PENDING", "QUEUED", "RUNNING",
                "COMPLETED", "CANCELLED", "DEAD_LETTER"}
LiveJob     == {"PENDING", "QUEUED", "RUNNING"}
Settled     == {"COMPLETED", "CANCELLED"}

\* Type correctness of the columns, of the tasks and of the sweep.
TypeOK ==
  /\ runOf \in [Jobs -> Runs \cup {NoRun}]
  /\ jobStatus \in [Jobs -> JobStatuses]
  /\ leaseOwner \in [Jobs -> WorkerIds \cup {NoWorker}]
  /\ lease \in [Jobs -> {"none", "live", "expired"}]
  /\ attempts \in [Jobs -> Nat]
  /\ eligible \in [Jobs -> {"none", "future", "past"}]
  /\ taskJob \in [Tasks -> Jobs \cup {NoJob}]
  /\ taskAttempts \in [Tasks -> Nat]
  /\ beating \in [Tasks -> BOOLEAN]
  /\ lost \in [Tasks -> BOOLEAN]
  /\ sweepSet \in SUBSET Jobs
  /\ sweepAttempts \in [Jobs -> Nat]
  /\ faults \in Nat
  /\ ops \in Nat

QueueInit ==
  /\ runOf = [j \in Jobs |-> NoRun]
  /\ jobStatus = [j \in Jobs |-> "absent"]
  /\ leaseOwner = [j \in Jobs |-> NoWorker]
  /\ lease = [j \in Jobs |-> "none"]
  /\ attempts = [j \in Jobs |-> 0]
  /\ eligible = [j \in Jobs |-> "none"]
  /\ taskJob = [t \in Tasks |-> NoJob]
  /\ taskAttempts = [t \in Tasks |-> 0]
  /\ beating = [t \in Tasks |-> FALSE]
  /\ lost = [t \in Tasks |-> FALSE]
  /\ sweepSet = {}
  /\ sweepAttempts = [j \in Jobs |-> 0]
  /\ faults = 0
  /\ ops = 0

-----------------------------------------------------------------------------
(* Row updates shared by the operations.                                   *)

\* Mutation of Release: lease_expires_at is not cleared.
Release_LeaseKept(J, s) ==
  /\ jobStatus'  = [j \in Jobs |-> IF j \in J THEN s ELSE jobStatus[j]]
  /\ leaseOwner' = [j \in Jobs |-> IF j \in J THEN NoWorker ELSE leaseOwner[j]]
  /\ UNCHANGED lease

\* status := s, lease_owner := NULL, lease_expires_at := NULL for the jobs in J.
Release(J, s) ==
  /\ jobStatus'  = [j \in Jobs |-> IF j \in J THEN s ELSE jobStatus[j]]
  /\ leaseOwner' = [j \in Jobs |-> IF j \in J THEN NoWorker ELSE leaseOwner[j]]
  /\ lease'      = [j \in Jobs |-> IF j \in J THEN "none" ELSE lease[j]]

\* Tasks other than those in T that execute a job of J no longer own it.
LoseClaims(J, T) ==
  lost' = [t \in Tasks |-> IF t \in T THEN FALSE ELSE lost[t] \/ taskJob[t] \in J]

\* Mutation of ReleaseIfRunning: the status check is dropped.
ReleaseIfRunning_Blind(j, s) == Release({j}, s)

\* The mark_* calls of a finishing task: nothing unless the row is RUNNING.
\* None of them compares lease_owner.
ReleaseIfRunning(j, s) ==
  Release({j} \cap {k \in Jobs : jobStatus[k] = "RUNNING"}, s)

mark_completed(j) == ReleaseIfRunning(j, "COMPLETED") /\ UNCHANGED eligible

\* Mutation of mark_dead_letter: mark_failed, which no caller uses any more.
mark_failed(j) == ReleaseIfRunning(j, "FAILED") /\ UNCHANGED eligible

mark_dead_letter(j) == ReleaseIfRunning(j, "DEAD_LETTER") /\ UNCHANGED eligible

requeue_with_backoff(j) ==
  /\ ReleaseIfRunning(j, "QUEUED")
  /\ eligible' = IF jobStatus[j] = "RUNNING"
                 THEN [eligible EXCEPT ![j] = "future"] ELSE eligible

-----------------------------------------------------------------------------
(* Enqueueing.                                                             *)

NextId(j) == jobStatus[j] = "absent" /\ \A k \in Jobs : k < j => jobStatus[k] # "absent"

\* enqueue: QUEUED when backpressure gave an eligible_at, PENDING otherwise.
Enqueue(j, r, delayed) ==
  /\ NextId(j)
  /\ runOf' = [runOf EXCEPT ![j] = r]
  /\ jobStatus' = [jobStatus EXCEPT ![j] = IF delayed THEN "QUEUED" ELSE "PENDING"]
  /\ eligible' = [eligible EXCEPT ![j] = IF delayed THEN "future" ELSE "none"]
  /\ UNCHANGED <<leaseOwner, lease, attempts, taskVars, sweepVars, boundVars>>

\* _create_gated_run with an idempotency key: the row that remembers the key is
\* enqueued and cancelled in the transaction that creates the run.
EnqueuePlaceholder(j, r) ==
  /\ NextId(j)
  /\ runOf' = [runOf EXCEPT ![j] = r]
  /\ jobStatus' = [jobStatus EXCEPT ![j] = "CANCELLED"]
  /\ UNCHANGED <<leaseOwner, lease, attempts, eligible, taskVars, sweepVars, boundVars>>

-----------------------------------------------------------------------------
(* Claiming and executing.                                                 *)

\* Mutation of Claimable: the lease is not looked at.
Claimable_NoLease(j) ==
  \/ jobStatus[j] = "PENDING"
  \/ jobStatus[j] = "QUEUED" /\ eligible[j] = "past"
  \/ jobStatus[j] = "RUNNING"

\* Mutation of Claimable: RUNNING rows are left to the sweeper.
Claimable_NotRunning(j) ==
  /\ \/ jobStatus[j] = "PENDING"
     \/ jobStatus[j] = "QUEUED" /\ eligible[j] = "past"
  /\ lease[j] \in {"none", "expired"}

\* The WHERE clause of claim_next.
Claimable(j) ==
  /\ \/ jobStatus[j] = "PENDING"
     \/ jobStatus[j] = "QUEUED" /\ eligible[j] = "past"
     \/ jobStatus[j] = "RUNNING"
  /\ lease[j] \in {"none", "expired"}

\* Rows an open transaction may have locked, which SKIP LOCKED passes over:
\* those the sweep is about to write and those a task is finishing.
MaybeLocked(j) == j \in sweepSet \/ \E t \in Tasks : taskJob[t] = j

\* claim_next by an idle task: the oldest claimable row that is not locked.
ClaimNext(t, j) ==
  /\ taskJob[t] = NoJob
  /\ Claimable(j)
  /\ \A k \in Jobs : k < j /\ Claimable(k) => MaybeLocked(k)
  /\ jobStatus' = [jobStatus EXCEPT ![j] = "RUNNING"]
  /\ leaseOwner' = [leaseOwner EXCEPT ![j] = WorkerOf[t]]
  /\ lease' = [lease EXCEPT ![j] = "live"]
  /\ attempts' = [attempts EXCEPT ![j] = @ + 1]
  /\ taskJob' = [taskJob EXCEPT ![t] = j]
  /\ taskAttempts' = [taskAttempts EXCEPT ![t] = attempts[j] + 1]
  /\ beating' = [beating EXCEPT ![t] = TRUE]
  /\ lost' = [lost EXCEPT ![t] = FALSE]
  /\ UNCHANGED <<runOf, eligible, sweepVars, boundVars>>

\* refresh_lease accepts RUNNING rows of the same worker id, expired or not.
Refreshable(t, j) == jobStatus[j] = "RUNNING" /\ leaseOwner[j] = WorkerOf[t]

\* One round of _heartbeat: refresh, or stop beating when the row is not ours.
\* The execution goes on either way.
Heartbeat(t) ==
  /\ taskJob[t] # NoJob
  /\ beating[t]
  /\ \/ /\ Refreshable(t, taskJob[t])
        /\ lease' = [lease EXCEPT ![taskJob[t]] = "live"]
        /\ UNCHANGED beating
     \/ /\ ~Refreshable(t, taskJob[t])
        /\ beating' = [beating EXCEPT ![t] = FALSE]
        /\ UNCHANGED lease
  /\ UNCHANGED <<runOf, jobStatus, leaseOwner, attempts, eligible,
                 taskJob, taskAttempts, lost, sweepVars, boundVars>>

\* Some task still refreshes the lease of j.
KeptAlive(j) == \E t \in Tasks : taskJob[t] = j /\ beating[t] /\ Refreshable(t, j)

Lapse(j) ==
  /\ lease[j] = "live"
  /\ lease' = [lease EXCEPT ![j] = "expired"]
  /\ LoseClaims({j}, {})
  /\ UNCHANGED <<runOf, jobStatus, leaseOwner, attempts, eligible,
                 taskJob, taskAttempts, beating, sweepVars, ops>>

\* The lease of a job nobody refreshes runs out.
LeaseExpires(j) == Lapse(j) /\ ~KeptAlive(j) /\ UNCHANGED faults

\* A stalled event loop or a lost connection delays the heartbeat past the lease.
HeartbeatStalls(j) ==
  Lapse(j) /\ KeptAlive(j) /\ faults < MaxFaults /\ faults' = faults + 1

\* The clock reaches eligible_at.
BackoffElapses(j) ==
  /\ eligible[j] = "future"
  /\ eligible' = [eligible EXCEPT ![j] = "past"]
  /\ UNCHANGED <<runOf, jobStatus, leaseOwner, lease, attempts, taskVars, sweepVars, boundVars>>

\* The task is done with its job (its transaction commits) and is idle again.
TaskDone(t, j) ==
  /\ taskJob[t] = j
  /\ taskJob' = [taskJob EXCEPT ![t] = NoJob]
  /\ taskAttempts' = [taskAttempts EXCEPT ![t] = 0]
  /\ beating' = [beating EXCEPT ![t] = FALSE]
  /\ LoseClaims({j}, {t})
  /\ UNCHANGED <<runOf, attempts, sweepVars, boundVars>>

\* run_claimed: the executor returned.
FinishOk(t, j) == TaskDone(t, j) /\ mark_completed(j)

\* _handle_job_error with a TransientProviderError.  The ceiling is compared
\* with the attempts the claim returned, not with the row.
FinishTransient(t, j) ==
  /\ TaskDone(t, j)
  /\ \/ taskAttempts[t] < MaxAttempts /\ requeue_with_backoff(j)
     \/ taskAttempts[t] >= MaxAttempts /\ mark_dead_letter(j)

\* _handle_job_error with any other exception: no retry.
FinishPermanent(t, j) == TaskDone(t, j) /\ mark_dead_letter(j)

\* The worker process dies or its session fails: the transaction is rolled
\* back and the row stays RUNNING under a lease nobody refreshes.
Crash(t) ==
  /\ taskJob[t] # NoJob
  /\ faults < MaxFaults
  /\ faults' = faults + 1
  /\ taskJob' = [taskJob EXCEPT ![t] = NoJob]
  /\ taskAttempts' = [taskAttempts EXCEPT ![t] = 0]
  /\ beating' = [beating EXCEPT ![t] = FALSE]
  /\ lost' = [lost EXCEPT ![t] = FALSE]
  /\ UNCHANGED <<rowVars, sweepVars, ops>>

\* promote_eligible, one row.
PromoteEligible(j) ==
  /\ jobStatus[j] = "QUEUED"
  /\ eligible[j] = "past"
  /\ jobStatus' = [jobStatus EXCEPT ![j] = "PENDING"]
  /\ UNCHANGED <<runOf, leaseOwner, lease, attempts, eligible, taskVars, sweepVars, boundVars>>

-----------------------------------------------------------------------------
(* Recovery.                                                               *)

\* sweep_stuck_jobs, the SELECT: no FOR UPDATE, so the rows stay unlocked.
SweepRead ==
  /\ sweepSet = {}
  /\ sweepSet' = {j \in Jobs : jobStatus[j] = "RUNNING" /\ lease[j] = "expired"}
  /\ sweepSet' # {}
  /\ sweepAttempts' = [j \in Jobs |-> IF j \in sweepSet' THEN attempts[j] ELSE 0]
  /\ UNCHANGED <<rowVars, taskVars, boundVars>>

\* Mutation of SweptStatus: FAILED, as the docstring of sweep_stuck_jobs says.
SweptStatus_Failed(j) == IF sweepAttempts[j] < MaxAttempts THEN "PENDING" ELSE "FAILED"

\* The status sweep_stuck_jobs gives a row it read as stuck.
SweptStatus(j) == IF sweepAttempts[j] < MaxAttempts THEN "PENDING" ELSE "DEAD_LETTER"

\* sweep_stuck_jobs, the flush and commit: UPDATE by primary key from what was
\* read, whatever the rows have become since.
SweepWrite ==
  /\ sweepSet # {}
  /\ jobStatus' = [j \in Jobs |-> IF j \in sweepSet THEN SweptStatus(j) ELSE jobStatus[j]]
  /\ leaseOwner' = [j \in Jobs |-> IF j \in sweepSet THEN NoWorker ELSE leaseOwner[j]]
  /\ lease' = [j \in Jobs |-> IF j \in sweepSet THEN "none" ELSE lease[j]]
  /\ attempts' = [j \in Jobs |-> IF j \in sweepSet /\ sweepAttempts[j] < MaxAttempts
                                 THEN sweepAttempts[j] + 1 ELSE attempts[j]]
  /\ LoseClaims(sweepSet, {})
  /\ sweepSet' = {}
  /\ sweepAttempts' = [j \in Jobs |-> 0]
  /\ UNCHANGED <<runOf, eligible, taskJob, taskAttempts, beating, boundVars>>

\* _retry_stuck_job: the run's latest RUNNING job, whether or not its lease is live.
AdminRetryStuck(r, j) ==
  /\ ops < MaxOps
  /\ ops' = ops + 1
  /\ runOf[j] = r /\ jobStatus[j] = "RUNNING"
  /\ \A k \in Jobs : runOf[k] = r /\ jobStatus[k] = "RUNNING" => k <= j
  /\ Release({j}, "PENDING")
  /\ LoseClaims({j}, {})
  /\ UNCHANGED <<runOf, attempts, eligible, taskJob, taskAttempts, beating, sweepVars, faults>>

\* replay_dead_letter, for the system administrator.
ReplayDeadLetter(j) ==
  /\ ops < MaxOps
  /\ ops' = ops + 1
  /\ jobStatus[j] = "DEAD_LETTER"
  /\ jobStatus' = [jobStatus EXCEPT ![j] = "PENDING"]
  /\ attempts' = [attempts EXCEPT ![j] = 0]
  /\ eligible' = [eligible EXCEPT ![j] = "none"]
  /\ UNCHANGED <<runOf, leaseOwner, lease, taskVars, sweepVars, faults>>

\* cancel_run_jobs: every live job of the run; a dead letter is left alone.
CancelRunJobs(r) ==
  LET J == {j \in Jobs : runOf[j] = r /\ jobStatus[j] \in LiveJob} IN
  /\ Release(J, "CANCELLED")
  /\ LoseClaims(J, {})
  /\ UNCHANGED <<runOf, attempts, eligible, taskJob, taskAttempts, beating, sweepVars, boundVars>>

-----------------------------------------------------------------------------
TaskStep(t) ==
  \/ \E j \in Jobs : ClaimNext(t, j)
  \/ Heartbeat(t)
  \/ \E j \in Jobs : FinishOk(t, j) \/ FinishTransient(t, j) \/ FinishPermanent(t, j)
  \/ Crash(t)

ClockStep == \E j \in Jobs : LeaseExpires(j) \/ HeartbeatStalls(j) \/ BackoffElapses(j)

RecoveryStep ==
  \/ SweepRead
  \/ SweepWrite
  \/ \E j \in Jobs : PromoteEligible(j) \/ ReplayDeadLetter(j)
  \/ \E r \in Runs, j \in Jobs : AdminRetryStuck(r, j)

RequestStep ==
  \/ \E j \in Jobs, r \in Runs, delayed \in BOOLEAN : Enqueue(j, r, delayed)
  \/ \E j \in Jobs, r \in Runs : EnqueuePlaceholder(j, r)
  \/ \E r \in Runs : CancelRunJobs(r)

QueueNext == (\E t \in Tasks : TaskStep(t)) \/ ClockStep \/ RecoveryStep \/ RequestStep

QueueSafety == QueueInit /\ [][QueueNext]_vars

(* What the scheduling of the workers guarantees: an idle worker polls, an *)
(* execution ends, an open sweep transaction ends and the clock advances.  *)
(* Nothing obliges the heartbeat, the sweep, the operators or the teachers *)
(* to act.                                                                 *)
QueueFairness ==
  /\ \A t \in Tasks :
       /\ WF_vars(\E j \in Jobs : ClaimNext(t, j))
       /\ WF_vars(\E j \in Jobs : FinishOk(t, j) \/ FinishTransient(t, j) \/ FinishPermanent(t, j))
  /\ \A j \in Jobs : WF_vars(LeaseExpires(j)) /\ WF_vars(BackoffElapses(j))
  /\ WF_vars(SweepWrite)

QueueSpec == QueueSafety /\ QueueFairness

-----------------------------------------------------------------------------
(* Properties.                                                             *)

\* A row carries a lease exactly while it is RUNNING.  A lease left behind on
\* a released row would hide it from claim_next until the lease ran out, and a
\* RUNNING row without one could be claimed from under its worker at once.
LeaseDiscipline ==
  \A j \in Jobs :
    /\ jobStatus[j] = "RUNNING" <=> leaseOwner[j] # NoWorker
    /\ jobStatus[j] = "RUNNING" <=> lease[j] # "none"

\* Two tasks execute the same job only after one of them lost it: its lease
\* expired, or the sweeper, an operator, a cancellation or another task's
\* verdict released the row.  With heartbeats on time SKIP LOCKED and the lease
\* are a mutual exclusion of executions.
ExclusiveClaim ==
  \A t, u \in Tasks :
    t # u /\ taskJob[t] # NoJob /\ taskJob[t] = taskJob[u] => lost[t] \/ lost[u]

\* A completed or cancelled job is never revived by a late worker, a replay or
\* an operator: only a sweep that read the row before it was settled can do so.
OnlyStaleSweepUnsettles ==
  [][\A j \in Jobs : jobStatus[j] \in Settled /\ jobStatus'[j] # jobStatus[j]
                       => j \in sweepSet]_vars

\* Every accepted job is eventually completed, cancelled or dead-lettered, in
\* spite of crashed workers, expired leases, backoff and racing sweeps.
EveryJobSettles ==
  \A j \in Jobs : jobStatus[j] \in LiveJob ~> jobStatus[j] \in Settled \cup {"DEAD_LETTER"}

=============================================================================
