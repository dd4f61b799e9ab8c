------------------------ MODULE RunLifecycleProofs -------------------------
(***************************************************************************)
(* Proofs about JobQueue, for any set of jobs, runs and tasks and any      *)
(* assignment of worker ids to tasks, and about RunLifecycle: the composed *)
(* system is an implementation of the job queue, so what is proved of the  *)
(* queue holds of it, and of the promise of RunPromise.                    *)
(***************************************************************************)
EXTENDS RunLifecycle, TLAPS

-----------------------------------------------------------------------------
(* The job queue.                                                          *)

\* A task that has not lost its claim holds a live lease on a RUNNING row under
\* its own worker id.  This is what makes ExclusiveClaim inductive: the lease
\* test of claim_next keeps every other task away from such a row.
Owned(t) ==
  taskJob[t] # NoJob /\ ~lost[t] =>
    /\ jobStatus[taskJob[t]] = "RUNNING"
    /\ leaseOwner[taskJob[t]] = WorkerOf[t]
    /\ lease[taskJob[t]] = "live"

OwnedClaims == \A t \in Tasks : Owned(t)

QueueInv == TypeOK /\ LeaseDiscipline /\ OwnedClaims /\ ExclusiveClaim

-----------------------------------------------------------------------------
(* What the actions that release rows have in common.                      *)

Finish(t, j) == FinishOk(t, j) \/ FinishTransient(t, j) \/ FinishPermanent(t, j)

\* Whatever the verdict, a finishing task releases its job's row if it is
\* still RUNNING and never makes it RUNNING again.
LEMMA FinishReleases ==
  ASSUME NEW t \in Tasks, NEW j \in Jobs, TypeOK, Finish(t, j)
  PROVE  /\ TaskDone(t, j)
         /\ \E s \in {"COMPLETED", "QUEUED", "DEAD_LETTER"} : ReleaseIfRunning(j, s)
         /\ eligible' \in [Jobs -> {"none", "future", "past"}]
<1>1. CASE FinishOk(t, j)
  BY <1>1 DEF FinishOk, mark_completed, TypeOK
<1>2. CASE FinishPermanent(t, j)
  BY <1>2 DEF FinishPermanent, mark_dead_letter, TypeOK
<1>3. CASE FinishTransient(t, j)
  <2>1. CASE requeue_with_backoff(j)
    BY <1>3, <2>1 DEF FinishTransient, requeue_with_backoff, TypeOK
  <2>2. CASE mark_dead_letter(j)
    BY <1>3, <2>2 DEF FinishTransient, mark_dead_letter, TypeOK
  <2> QED BY <1>3, <2>1, <2>2 DEF FinishTransient
<1> QED BY <1>1, <1>2, <1>3 DEF Finish

\* What LoseClaims does, task by task.
LEMMA ClaimsLost ==
  ASSUME NEW J, NEW T, LoseClaims(J, T)
  PROVE  /\ \A t \in Tasks \ T : lost[t] => lost'[t]
         /\ \A t \in Tasks \ T : taskJob[t] \in J => lost'[t]
         /\ \A t \in Tasks \ T : lost'[t] => lost[t] \/ taskJob[t] \in J
         /\ \A t \in Tasks \cap T : ~lost'[t]
BY DEF LoseClaims

\* A row the sweep writes leaves RUNNING.
LEMMA SweptNotRunning ==
  ASSUME NEW j \in Jobs
  PROVE  SweptStatus(j) \in {"PENDING", "DEAD_LETTER"}
BY DEF SweptStatus

-----------------------------------------------------------------------------
(* Type correctness.                                                       *)

LEMMA TypeInit == QueueInit => TypeOK
BY QueueAssumption DEF QueueInit, TypeOK, JobStatuses, NoJob

\* Every step of the queue keeps the types of the columns, tasks and sweep.
LEMMA TypeStep == TypeOK /\ [QueueNext]_vars => TypeOK'
<1> SUFFICES ASSUME TypeOK, [QueueNext]_vars PROVE TypeOK'
  OBVIOUS
<1> USE QueueAssumption DEF TypeOK, JobStatuses, NoJob
<1>1. ASSUME NEW t \in Tasks, NEW j \in Jobs, ClaimNext(t, j) PROVE TypeOK'
  BY <1>1 DEF ClaimNext, sweepVars, boundVars
<1>2. ASSUME NEW t \in Tasks, Heartbeat(t) PROVE TypeOK'
  <2>1. lease' \in [Jobs -> {"none", "live", "expired"}]
    BY <1>2 DEF Heartbeat
  <2>2. beating' \in [Tasks -> BOOLEAN]
    BY <1>2 DEF Heartbeat
  <2> QED BY <1>2, <2>1, <2>2 DEF Heartbeat, sweepVars, boundVars
<1>3. ASSUME NEW t \in Tasks, NEW j \in Jobs, Finish(t, j) PROVE TypeOK'
  <2>1. PICK s \in {"COMPLETED", "QUEUED", "DEAD_LETTER"} : ReleaseIfRunning(j, s)
    BY <1>3, FinishReleases
  <2>2. /\ jobStatus' \in [Jobs -> JobStatuses]
        /\ leaseOwner' \in [Jobs -> WorkerIds \cup {NoWorker}]
        /\ lease' \in [Jobs -> {"none", "live", "expired"}]
    BY <2>1 DEF ReleaseIfRunning, Release
  <2>3. eligible' \in [Jobs -> {"none", "future", "past"}]
    BY <1>3, FinishReleases
  <2>4. TaskDone(t, j)
    BY <1>3, FinishReleases
  <2> QED BY <2>2, <2>3, <2>4 DEF TaskDone, LoseClaims, sweepVars, boundVars
<1>4. ASSUME NEW t \in Tasks, Crash(t) PROVE TypeOK'
  BY <1>4 DEF Crash, rowVars, sweepVars
<1>5. ASSUME NEW j \in Jobs, LeaseExpires(j) \/ HeartbeatStalls(j) PROVE TypeOK'
  <2>1. lost' \in [Tasks -> BOOLEAN]
    BY <1>5 DEF LeaseExpires, HeartbeatStalls, Lapse, LoseClaims
  <2>2. faults' \in Nat
    BY <1>5 DEF LeaseExpires, HeartbeatStalls
  <2>3. Lapse(j)
    BY <1>5 DEF LeaseExpires, HeartbeatStalls
  <2> QED BY <2>1, <2>2, <2>3 DEF Lapse, sweepVars
<1>6. ASSUME NEW j \in Jobs, BackoffElapses(j) PROVE TypeOK'
  BY <1>6 DEF BackoffElapses, taskVars, sweepVars, boundVars
<1>7. CASE SweepRead
  BY <1>7 DEF SweepRead, rowVars, taskVars, boundVars
<1>8. CASE SweepWrite
  <2>1. jobStatus' \in [Jobs -> JobStatuses]
    BY <1>8, SweptNotRunning DEF SweepWrite
  <2>2. lost' \in [Tasks -> BOOLEAN]
    BY <1>8 DEF SweepWrite, LoseClaims
  <2>3. attempts' \in [Jobs -> Nat]
    BY <1>8 DEF SweepWrite
  <2> QED BY <1>8, <2>1, <2>2, <2>3 DEF SweepWrite, boundVars
<1>9. ASSUME NEW j \in Jobs, PromoteEligible(j) \/ ReplayDeadLetter(j) PROVE TypeOK'
  <2>1. CASE PromoteEligible(j)
    BY <2>1 DEF PromoteEligible, taskVars, sweepVars, boundVars
  <2>2. CASE ReplayDeadLetter(j)
    BY <2>2 DEF ReplayDeadLetter, taskVars, sweepVars
  <2> QED BY <1>9, <2>1, <2>2
<1>10. ASSUME NEW r \in Runs, NEW j \in Jobs, AdminRetryStuck(r, j) PROVE TypeOK'
  BY <1>10 DEF AdminRetryStuck, Release, LoseClaims, sweepVars
<1>11. ASSUME NEW j \in Jobs, NEW r \in Runs, NEW delayed \in BOOLEAN, Enqueue(j, r, delayed)
       PROVE  TypeOK'
  BY <1>11 DEF Enqueue, taskVars, sweepVars, boundVars
<1>12. ASSUME NEW j \in Jobs, NEW r \in Runs, EnqueuePlaceholder(j, r) PROVE TypeOK'
  BY <1>12 DEF EnqueuePlaceholder, taskVars, sweepVars, boundVars
<1>13. ASSUME NEW r \in Runs, CancelRunJobs(r) PROVE TypeOK'
  BY <1>13 DEF CancelRunJobs, Release, LoseClaims, sweepVars, boundVars
<1>14. CASE UNCHANGED vars
  BY <1>14 DEF vars, rowVars, taskVars, sweepVars, boundVars
<1> HIDE DEF TypeOK
<1> QED
  BY <1>1, <1>2, <1>3, <1>4, <1>5, <1>6, <1>7, <1>8, <1>9, <1>10, <1>11, <1>12, <1>13, <1>14
  DEF QueueNext, TaskStep, Finish, ClockStep, RecoveryStep, RequestStep

\* The rows never hold a value the code does not write: in particular no row
\* ever becomes FAILED.
THEOREM QueueTypeCorrect == QueueSafety => []TypeOK
BY TypeInit, TypeStep, PTL DEF QueueSafety

-----------------------------------------------------------------------------
(* Leases and claims.                                                      *)

LEMMA InvInit == QueueInit => QueueInv
<1> SUFFICES ASSUME QueueInit PROVE QueueInv
  OBVIOUS
<1>1. TypeOK
  BY TypeInit
<1>2. LeaseDiscipline /\ OwnedClaims /\ ExclusiveClaim
  BY DEF QueueInit, LeaseDiscipline, OwnedClaims, Owned, ExclusiveClaim, NoJob
<1> QED BY <1>1, <1>2 DEF QueueInv

\* Rows of J are released: they get a status other than RUNNING and no lease,
\* the other rows stay as they are, and every task loses its claim on a row of
\* J or stops executing it.
Releases(J) ==
  /\ \A j \in J : jobStatus'[j] # "RUNNING" /\ leaseOwner'[j] = NoWorker /\ lease'[j] = "none"
  /\ \A j \in Jobs \ J : /\ jobStatus'[j] = jobStatus[j]
                         /\ leaseOwner'[j] = leaseOwner[j]
                         /\ lease'[j] = lease[j]
  /\ \A t \in Tasks : taskJob'[t] = NoJob \/ (taskJob'[t] = taskJob[t] /\ (lost[t] => lost'[t]))
  /\ \A t \in Tasks : taskJob'[t] \in J => lost'[t]

\* Releasing rows preserves the three lease invariants.
LEMMA ReleaseStep ==
  ASSUME NEW J \in SUBSET Jobs, QueueInv, TypeOK', Releases(J)
  PROVE  LeaseDiscipline' /\ OwnedClaims' /\ ExclusiveClaim'
<1> USE QueueAssumption DEF QueueInv
<1>1. LeaseDiscipline'
  BY DEF LeaseDiscipline, Releases
<1>2. OwnedClaims'
  <2> SUFFICES ASSUME NEW t \in Tasks, taskJob'[t] # NoJob, ~lost'[t]
               PROVE  /\ jobStatus'[taskJob'[t]] = "RUNNING"
                      /\ leaseOwner'[taskJob'[t]] = WorkerOf[t]
                      /\ lease'[taskJob'[t]] = "live"
    BY DEF OwnedClaims, Owned
  <2>1. taskJob'[t] = taskJob[t] /\ ~lost[t]
    BY DEF Releases, TypeOK
  <2>2. taskJob'[t] \in Jobs \ J
    BY DEF Releases, TypeOK
  <2>3. Owned(t)
    BY DEF OwnedClaims
  <2> QED BY <2>1, <2>2, <2>3 DEF Owned, Releases
<1>3. ExclusiveClaim'
  BY DEF ExclusiveClaim, Releases, TypeOK, NoJob
<1> QED BY <1>1, <1>2, <1>3

\* The step that needs the strengthening: a task with a claim it has not lost
\* holds a live lease, so the claimed row is not its row.
LEMMA ClaimStep ==
  ASSUME NEW t \in Tasks, NEW j \in Jobs, QueueInv, TypeOK', ClaimNext(t, j)
  PROVE  LeaseDiscipline' /\ OwnedClaims' /\ ExclusiveClaim'
<1> USE QueueAssumption DEF QueueInv, NoJob
<1>1. \A u \in Tasks \ {t} : taskJob'[u] = taskJob[u] /\ lost'[u] = lost[u]
  BY DEF ClaimNext, TypeOK
<1>2. taskJob'[t] = j /\ ~lost'[t]
  BY DEF ClaimNext, TypeOK
<1>3. \A k \in Jobs \ {j} : /\ jobStatus'[k] = jobStatus[k]
                            /\ leaseOwner'[k] = leaseOwner[k]
                            /\ lease'[k] = lease[k]
  BY DEF ClaimNext, TypeOK
<1>4. jobStatus'[j] = "RUNNING" /\ leaseOwner'[j] = WorkerOf[t] /\ lease'[j] = "live"
  BY DEF ClaimNext, TypeOK
<1>5. \A u \in Tasks : taskJob[u] = j => lost[u]
  BY DEF ClaimNext, Claimable, OwnedClaims, Owned
<1>6. LeaseDiscipline'
  BY <1>3, <1>4 DEF LeaseDiscipline
<1>7. ASSUME NEW u \in Tasks PROVE Owned(u)'
  <2>1. CASE u = t
    BY <1>2, <1>4, <2>1 DEF Owned
  <2>2. CASE u # t
    <3>1. Owned(u) /\ taskJob'[u] = taskJob[u] /\ lost'[u] = lost[u]
      BY <1>1, <2>2 DEF OwnedClaims
    <3>2. CASE taskJob[u] \in Jobs \ {j}
      BY <1>3, <3>1, <3>2 DEF Owned
    <3>3. CASE taskJob[u] = j \/ taskJob[u] = NoJob
      BY <1>5, <3>1, <3>3 DEF Owned
    <3> QED BY <3>2, <3>3 DEF TypeOK
  <2> QED BY <2>1, <2>2
<1>8. ExclusiveClaim'
  BY <1>1, <1>2, <1>5 DEF ExclusiveClaim
<1> QED BY <1>6, <1>7, <1>8 DEF OwnedClaims

\* A heartbeat renews a lease only on a RUNNING row, and a lease that runs out
\* takes the claims on its row with it.
LEMMA LeaseClockStep ==
  ASSUME QueueInv, TypeOK',
         (\E t \in Tasks : Heartbeat(t)) \/ (\E j \in Jobs : Lapse(j))
  PROVE  LeaseDiscipline' /\ OwnedClaims' /\ ExclusiveClaim'
<1> USE QueueAssumption DEF QueueInv, NoJob
<1>1. ASSUME NEW t \in Tasks, Heartbeat(t)
      PROVE  LeaseDiscipline' /\ OwnedClaims' /\ ExclusiveClaim'
  <2>1. LeaseDiscipline'
    BY <1>1 DEF Heartbeat, Refreshable, LeaseDiscipline, TypeOK
  <2>2. ASSUME NEW u \in Tasks PROVE Owned(u)'
    <3>1. Owned(u) /\ UNCHANGED <<jobStatus, leaseOwner, taskJob, lost>>
      BY <1>1 DEF Heartbeat, OwnedClaims
    <3>2. taskJob[u] \in Jobs /\ lease[taskJob[u]] = "live" => lease'[taskJob[u]] = "live"
      BY <1>1 DEF Heartbeat, TypeOK
    <3> QED BY <3>1, <3>2 DEF Owned, TypeOK
  <2>3. ExclusiveClaim'
    BY <1>1 DEF Heartbeat, ExclusiveClaim
  <2> QED BY <2>1, <2>2, <2>3 DEF OwnedClaims
<1>2. ASSUME NEW j \in Jobs, Lapse(j)
      PROVE  LeaseDiscipline' /\ OwnedClaims' /\ ExclusiveClaim'
  <2>1. LeaseDiscipline'
    BY <1>2 DEF Lapse, LeaseDiscipline, TypeOK
  <2>2. /\ UNCHANGED <<jobStatus, leaseOwner, taskJob>>
        /\ \A k \in Jobs \ {j} : lease'[k] = lease[k]
        /\ \A u \in Tasks : lost[u] => lost'[u]
        /\ \A u \in Tasks : taskJob[u] = j => lost'[u]
    BY <1>2, ClaimsLost DEF Lapse, TypeOK
  <2>3. ASSUME NEW u \in Tasks PROVE Owned(u)'
    <3>1. Owned(u)
      BY DEF OwnedClaims
    <3> QED BY <2>2, <3>1 DEF Owned, TypeOK
  <2>4. ExclusiveClaim'
    BY <2>2 DEF ExclusiveClaim
  <2> QED BY <2>1, <2>3, <2>4 DEF OwnedClaims
<1> QED BY <1>1, <1>2

\* Every other action releases some rows, possibly none.
LEMMA OtherStepsRelease ==
  ASSUME QueueInv, TypeOK',
         \/ \E t \in Tasks, j \in Jobs : Finish(t, j)
         \/ \E t \in Tasks : Crash(t)
         \/ \E j \in Jobs : BackoffElapses(j)
         \/ RecoveryStep
         \/ RequestStep
         \/ UNCHANGED vars
  PROVE  \E J \in SUBSET Jobs : Releases(J)
<1> USE QueueAssumption DEF QueueInv, NoJob
<1>1. ASSUME NEW t \in Tasks, NEW j \in Jobs, Finish(t, j)
      PROVE  Releases({j} \cap {k \in Jobs : jobStatus[k] = "RUNNING"})
  <2>1. PICK s \in {"COMPLETED", "QUEUED", "DEAD_LETTER"} : ReleaseIfRunning(j, s)
    BY <1>1, FinishReleases
  <2>2. TaskDone(t, j)
    BY <1>1, FinishReleases
  <2>3. \A u \in Tasks \ {t} : taskJob'[u] = taskJob[u] /\ (lost[u] => lost'[u])
                               /\ (taskJob[u] = j => lost'[u])
    BY <2>2, ClaimsLost DEF TaskDone, TypeOK
  <2>4. taskJob'[t] = NoJob
    BY <2>2 DEF TaskDone, TypeOK
  <2> DEFINE J == {j} \cap {k \in Jobs : jobStatus[k] = "RUNNING"}
  <2>5. /\ \A k \in J : jobStatus'[k] # "RUNNING" /\ leaseOwner'[k] = NoWorker /\ lease'[k] = "none"
        /\ \A k \in Jobs \ J : /\ jobStatus'[k] = jobStatus[k]
                               /\ leaseOwner'[k] = leaseOwner[k]
                               /\ lease'[k] = lease[k]
    BY <2>1 DEF ReleaseIfRunning, Release
  <2>6. NoJob \notin J /\ J \subseteq {j}
    OBVIOUS
  <2> HIDE DEF J
  <2>7. ASSUME NEW u \in Tasks
        PROVE  /\ taskJob'[u] = NoJob \/ (taskJob'[u] = taskJob[u] /\ (lost[u] => lost'[u]))
               /\ taskJob'[u] \in J => lost'[u]
    <3>1. CASE u = t
      BY <2>4, <2>6, <3>1
    <3>2. CASE u # t
      <4>1. taskJob'[u] = taskJob[u] /\ (lost[u] => lost'[u]) /\ (taskJob[u] = j => lost'[u])
        BY <2>3, <3>2
      <4>2. taskJob'[u] \in J => lost'[u]
        BY <2>6, <4>1
      <4> QED BY <4>1, <4>2
    <3> QED BY <3>1, <3>2
  <2>8. Releases(J)
    BY <2>5, <2>7 DEF Releases
  <2> QED BY <2>8 DEF J
<1>2. ASSUME NEW t \in Tasks, Crash(t) PROVE Releases({})
  <2>1. taskJob'[t] = NoJob /\ \A u \in Tasks \ {t} : taskJob'[u] = taskJob[u] /\ lost'[u] = lost[u]
    BY <1>2 DEF Crash, TypeOK
  <2>2. UNCHANGED <<jobStatus, leaseOwner, lease>>
    BY <1>2 DEF Crash, rowVars
  <2>3. ASSUME NEW u \in Tasks
        PROVE  taskJob'[u] = NoJob \/ (taskJob'[u] = taskJob[u] /\ (lost[u] => lost'[u]))
    <3>1. CASE u = t
      BY <2>1, <3>1
    <3>2. CASE u # t
      <4>1. taskJob'[u] = taskJob[u] /\ lost'[u] = lost[u]
        BY <2>1, <3>2
      <4> QED BY <4>1
    <3> QED BY <3>1, <3>2
  <2> QED BY <2>2, <2>3 DEF Releases
<1>3. ASSUME NEW j \in Jobs, BackoffElapses(j) PROVE Releases({})
  BY <1>3 DEF BackoffElapses, taskVars, Releases
<1>4. CASE SweepRead
  BY <1>4 DEF SweepRead, rowVars, taskVars, Releases
<1>5. CASE SweepWrite
  <2>1. Releases(sweepSet)
    BY <1>5, SweptNotRunning, ClaimsLost DEF SweepWrite, Releases, TypeOK
  <2> QED BY <2>1 DEF TypeOK
<1>6. ASSUME NEW j \in Jobs, PromoteEligible(j) \/ ReplayDeadLetter(j) PROVE Releases({j})
  <2>1. jobStatus[j] # "RUNNING" /\ leaseOwner[j] = NoWorker /\ lease[j] = "none"
    BY <1>6 DEF PromoteEligible, ReplayDeadLetter, LeaseDiscipline
  <2>2. \A t \in Tasks : taskJob[t] = j => lost[t]
    BY <2>1 DEF OwnedClaims, Owned
  <2>3. UNCHANGED <<leaseOwner, lease, taskJob, lost>>
    BY <1>6 DEF PromoteEligible, ReplayDeadLetter, taskVars
  <2>4. jobStatus' = [jobStatus EXCEPT ![j] = "PENDING"]
    BY <1>6 DEF PromoteEligible, ReplayDeadLetter
  <2> QED BY <2>1, <2>2, <2>3, <2>4 DEF Releases, TypeOK
<1>7. ASSUME NEW r \in Runs, NEW j \in Jobs, AdminRetryStuck(r, j) PROVE Releases({j})
  BY <1>7, ClaimsLost DEF AdminRetryStuck, Release, Releases, TypeOK
<1>8. ASSUME NEW j \in Jobs, NEW r \in Runs, NEW delayed \in BOOLEAN, Enqueue(j, r, delayed)
      PROVE  Releases({j})
  <2>1. jobStatus[j] # "RUNNING" /\ leaseOwner[j] = NoWorker /\ lease[j] = "none"
    BY <1>8 DEF Enqueue, NextId, LeaseDiscipline
  <2>2. \A t \in Tasks : taskJob[t] = j => lost[t]
    BY <2>1 DEF OwnedClaims, Owned
  <2> QED BY <1>8, <2>1, <2>2 DEF Enqueue, taskVars, Releases, TypeOK
<1>9. ASSUME NEW j \in Jobs, NEW r \in Runs, EnqueuePlaceholder(j, r) PROVE Releases({j})
  <2>1. jobStatus[j] # "RUNNING" /\ leaseOwner[j] = NoWorker /\ lease[j] = "none"
    BY <1>9 DEF EnqueuePlaceholder, NextId, LeaseDiscipline
  <2>2. \A t \in Tasks : taskJob[t] = j => lost[t]
    BY <2>1 DEF OwnedClaims, Owned
  <2> QED BY <1>9, <2>1, <2>2 DEF EnqueuePlaceholder, taskVars, Releases, TypeOK
<1>10. ASSUME NEW r \in Runs, CancelRunJobs(r)
       PROVE  Releases({j \in Jobs : runOf[j] = r /\ jobStatus[j] \in LiveJob})
  BY <1>10, ClaimsLost DEF CancelRunJobs, Release, Releases, TypeOK
<1>11. CASE UNCHANGED vars
  <2>1. UNCHANGED <<jobStatus, leaseOwner, lease, taskJob, lost>>
    BY <1>11 DEF vars, rowVars, taskVars
  <2>2. Releases({})
    BY <2>1 DEF Releases
  <2> QED BY <2>2
<1> QED
  BY <1>1, <1>2, <1>3, <1>4, <1>5, <1>6, <1>7, <1>8, <1>9, <1>10, <1>11
  DEF RecoveryStep, RequestStep

\* QueueInv is inductive.
LEMMA InvStep == QueueInv /\ [QueueNext]_vars => QueueInv'
<1> SUFFICES ASSUME QueueInv, [QueueNext]_vars PROVE QueueInv'
  OBVIOUS
<1>1. TypeOK'
  BY TypeStep DEF QueueInv
<1>2. \/ \E t \in Tasks, j \in Jobs : ClaimNext(t, j)
      \/ (\E t \in Tasks : Heartbeat(t)) \/ (\E j \in Jobs : Lapse(j))
      \/ \/ \E t \in Tasks, j \in Jobs : Finish(t, j)
         \/ \E t \in Tasks : Crash(t)
         \/ \E j \in Jobs : BackoffElapses(j)
         \/ RecoveryStep
         \/ RequestStep
         \/ UNCHANGED vars
  BY DEF QueueNext, TaskStep, ClockStep, Finish, LeaseExpires, HeartbeatStalls
<1>3. LeaseDiscipline' /\ OwnedClaims' /\ ExclusiveClaim'
  BY <1>1, <1>2, ClaimStep, LeaseClockStep, OtherStepsRelease, ReleaseStep
<1> QED BY <1>1, <1>3 DEF QueueInv

LEMMA InvAlways == QueueSafety => []QueueInv
BY InvInit, InvStep, PTL DEF QueueSafety

\* A row carries a lease exactly while it is RUNNING, whatever the interleaving
\* of workers, sweeps, operators and cancellations.
THEOREM LeasesAreDisciplined == QueueSafety => []LeaseDiscipline
<1>1. QueueInv => LeaseDiscipline
  BY DEF QueueInv
<1> QED BY <1>1, InvAlways, PTL

\* Two tasks never execute one job while both still own it, for any number of
\* tasks per worker id, jobs, faults and operator actions.
THEOREM ClaimsAreExclusive == QueueSafety => []ExclusiveClaim
<1>1. QueueInv => ExclusiveClaim
  BY DEF QueueInv
<1> QED BY <1>1, InvAlways, PTL

-----------------------------------------------------------------------------
(* Settled jobs.                                                           *)

\* No step but the write of a sweep changes the status of a COMPLETED or
\* CANCELLED row, and that write only changes rows the sweep has read.
LEMMA SettledStep ==
  ASSUME TypeOK, QueueNext, NEW j \in Jobs, jobStatus[j] \in Settled
  PROVE  jobStatus'[j] = jobStatus[j] \/ j \in sweepSet
<1> USE DEF TypeOK, Settled
<1>1. ASSUME NEW t \in Tasks, NEW k \in Jobs, ClaimNext(t, k) PROVE jobStatus'[j] = jobStatus[j]
  BY <1>1 DEF ClaimNext, Claimable
<1>2. ASSUME NEW t \in Tasks, NEW k \in Jobs, Finish(t, k) PROVE jobStatus'[j] = jobStatus[j]
  <2>1. PICK s \in {"COMPLETED", "QUEUED", "DEAD_LETTER"} : ReleaseIfRunning(k, s)
    BY <1>2, FinishReleases
  <2> QED BY <2>1 DEF ReleaseIfRunning, Release
<1>3. ASSUME NEW t \in Tasks, Heartbeat(t) \/ Crash(t) PROVE jobStatus'[j] = jobStatus[j]
  BY <1>3 DEF Heartbeat, Crash, rowVars
<1>4. CASE ClockStep
  BY <1>4 DEF ClockStep, LeaseExpires, HeartbeatStalls, Lapse, BackoffElapses
<1>5. CASE SweepRead
  BY <1>5 DEF SweepRead, rowVars
<1>6. CASE SweepWrite
  BY <1>6 DEF SweepWrite
<1>7. ASSUME NEW k \in Jobs, PromoteEligible(k) \/ ReplayDeadLetter(k)
      PROVE  jobStatus'[j] = jobStatus[j]
  BY <1>7 DEF PromoteEligible, ReplayDeadLetter
<1>8. ASSUME NEW r \in Runs, NEW k \in Jobs, AdminRetryStuck(r, k)
      PROVE  jobStatus'[j] = jobStatus[j]
  BY <1>8 DEF AdminRetryStuck, Release
<1>9. CASE RequestStep
  BY <1>9 DEF RequestStep, Enqueue, EnqueuePlaceholder, NextId, CancelRunJobs, Release, LiveJob
<1> QED
  BY <1>1, <1>2, <1>3, <1>4, <1>5, <1>6, <1>7, <1>8, <1>9
  DEF QueueNext, TaskStep, Finish, RecoveryStep

\* Late workers, replays, operators and requests never revive a settled job:
\* only a sweep whose unlocked read preceded the settling can.
THEOREM OnlySweepsUnsettle == QueueSafety => OnlyStaleSweepUnsettles
<1>1. TypeOK /\ [QueueNext]_vars =>
        [\A j \in Jobs : jobStatus[j] \in Settled /\ jobStatus'[j] # jobStatus[j]
                           => j \in sweepSet]_vars
  BY SettledStep
<1> QED BY <1>1, QueueTypeCorrect, PTL DEF QueueSafety, OnlyStaleSweepUnsettles

-----------------------------------------------------------------------------
(* Verdicts.                                                               *)

\* The attempts a claim returned are the row's as long as the claim is not
\* lost: sweeps and replays, which count or reset them, take the claim first.
CountsAgree ==
  \A t \in Tasks :
    taskJob[t] # NoJob /\ ~lost[t] => taskAttempts[t] = attempts[taskJob[t]]

\* The verdict of a task that still owns its job is stored, and a transient
\* failure is retried exactly while the row has counted fewer attempts than the
\* ceiling.
VerdictsCount ==
  [][\A t \in Tasks, j \in Jobs : ~lost[t] =>
       /\ FinishOk(t, j) => jobStatus'[j] = "COMPLETED"
       /\ FinishPermanent(t, j) => jobStatus'[j] = "DEAD_LETTER"
       /\ FinishTransient(t, j) =>
            IF attempts[j] < MaxAttempts
            THEN jobStatus'[j] = "QUEUED" /\ eligible'[j] = "future"
            ELSE jobStatus'[j] = "DEAD_LETTER"]_vars

\* Every step that changes the attempts of a row or of a task, and what the
\* others leave alone.
LEMMA CountMoves ==
  ASSUME TypeOK, [QueueNext]_vars
  PROVE  \/ \E t \in Tasks, j \in Jobs : ClaimNext(t, j)
         \/ \E t \in Tasks : /\ taskJob' = [taskJob EXCEPT ![t] = NoJob]
                             /\ taskAttempts' = [taskAttempts EXCEPT ![t] = 0]
                             /\ \A u \in Tasks \ {t} : lost[u] => lost'[u]
                             /\ UNCHANGED attempts
         \/ SweepWrite
         \/ \E j \in Jobs : ReplayDeadLetter(j)
         \/ /\ UNCHANGED <<taskJob, taskAttempts, attempts>>
            /\ \A t \in Tasks : lost[t] => lost'[t]
<1> DEFINE Rest == /\ UNCHANGED <<taskJob, taskAttempts, attempts>>
                   /\ \A t \in Tasks : lost[t] => lost'[t]
           Idle(t) == /\ taskJob' = [taskJob EXCEPT ![t] = NoJob]
                      /\ taskAttempts' = [taskAttempts EXCEPT ![t] = 0]
                      /\ \A u \in Tasks \ {t} : lost[u] => lost'[u]
                      /\ UNCHANGED attempts
<1>1. ASSUME NEW t \in Tasks, NEW j \in Jobs, Finish(t, j) PROVE Idle(t)
  BY <1>1, FinishReleases, ClaimsLost DEF TaskDone
<1>2. ASSUME NEW t \in Tasks, Crash(t) PROVE Idle(t)
  BY <1>2 DEF Crash, rowVars, TypeOK
<1>3. ASSUME NEW t \in Tasks, Heartbeat(t) PROVE Rest
  BY <1>3 DEF Heartbeat
<1>4. CASE ClockStep
  BY <1>4, ClaimsLost DEF ClockStep, LeaseExpires, HeartbeatStalls, Lapse, BackoffElapses, taskVars
<1>5. CASE SweepRead \/ \E j \in Jobs : PromoteEligible(j)
  BY <1>5 DEF SweepRead, PromoteEligible, rowVars, taskVars
<1>6. ASSUME NEW r \in Runs, NEW j \in Jobs, AdminRetryStuck(r, j) PROVE Rest
  BY <1>6, ClaimsLost DEF AdminRetryStuck
<1>7. CASE RequestStep
  <2>1. ASSUME NEW r \in Runs, CancelRunJobs(r) PROVE Rest
    BY <2>1, ClaimsLost DEF CancelRunJobs
  <2>2. CASE \/ \E j \in Jobs, r \in Runs, delayed \in BOOLEAN : Enqueue(j, r, delayed)
             \/ \E j \in Jobs, r \in Runs : EnqueuePlaceholder(j, r)
    BY <2>2 DEF Enqueue, EnqueuePlaceholder, taskVars
  <2> HIDE DEF Rest
  <2> QED BY <1>7, <2>1, <2>2 DEF RequestStep, Rest
<1>8. CASE UNCHANGED vars
  BY <1>8 DEF vars, rowVars, taskVars
<1> QED
  BY <1>1, <1>2, <1>3, <1>4, <1>5, <1>6, <1>7, <1>8
  DEF QueueNext, TaskStep, Finish, RecoveryStep

LEMMA CountsStep == QueueInv /\ CountsAgree /\ [QueueNext]_vars => CountsAgree'
<1> SUFFICES ASSUME QueueInv, CountsAgree, [QueueNext]_vars, NEW t \in Tasks,
                    taskJob'[t] # NoJob, ~lost'[t]
             PROVE  taskAttempts'[t] = attempts'[taskJob'[t]]
  BY DEF CountsAgree
<1> USE QueueAssumption DEF QueueInv, NoJob
<1>0. TypeOK
  OBVIOUS
<1>1. ASSUME NEW u \in Tasks, NEW j \in Jobs, ClaimNext(u, j)
      PROVE  taskAttempts'[t] = attempts'[taskJob'[t]]
  <2>1. CASE t = u
    BY <1>1, <2>1 DEF ClaimNext, TypeOK
  <2>2. CASE t # u
    <3>1. /\ taskJob'[t] = taskJob[t] /\ lost'[t] = lost[t]
          /\ taskAttempts'[t] = taskAttempts[t]
          /\ \A k \in Jobs \ {j} : attempts'[k] = attempts[k]
      BY <1>1, <2>2 DEF ClaimNext, TypeOK
    <3>2. taskJob[t] \in Jobs \ {j}
      BY <1>1, <3>1 DEF ClaimNext, Claimable, OwnedClaims, Owned, TypeOK
    <3> QED BY <3>1, <3>2 DEF CountsAgree
  <2> QED BY <2>1, <2>2
<1>2. ASSUME NEW u \in Tasks,
             taskJob' = [taskJob EXCEPT ![u] = NoJob],
             taskAttempts' = [taskAttempts EXCEPT ![u] = 0],
             \A v \in Tasks \ {u} : lost[v] => lost'[v], UNCHANGED attempts
      PROVE  taskAttempts'[t] = attempts'[taskJob'[t]]
  BY <1>2 DEF CountsAgree, TypeOK
<1>3. CASE SweepWrite
  <2>1. /\ UNCHANGED <<taskJob, taskAttempts>> /\ ~lost[t] /\ taskJob[t] \notin sweepSet
        /\ \A j \in Jobs \ sweepSet : attempts'[j] = attempts[j]
    BY <1>3, ClaimsLost DEF SweepWrite
  <2> QED BY <2>1 DEF CountsAgree, TypeOK
<1>4. ASSUME NEW j \in Jobs, ReplayDeadLetter(j)
      PROVE  taskAttempts'[t] = attempts'[taskJob'[t]]
  <2>1. /\ UNCHANGED <<taskJob, taskAttempts, lost>> /\ jobStatus[j] = "DEAD_LETTER"
        /\ \A k \in Jobs \ {j} : attempts'[k] = attempts[k]
    BY <1>4 DEF ReplayDeadLetter, taskVars, TypeOK
  <2>2. taskJob[t] \in Jobs \ {j}
    BY <2>1 DEF OwnedClaims, Owned, TypeOK
  <2> QED BY <2>1, <2>2 DEF CountsAgree
<1>5. CASE /\ UNCHANGED <<taskJob, taskAttempts, attempts>>
           /\ \A u \in Tasks : lost[u] => lost'[u]
  BY <1>5 DEF CountsAgree
<1> QED BY <1>0, <1>1, <1>2, <1>3, <1>4, <1>5, CountMoves

LEMMA CountsAlways == QueueSafety => [](QueueInv /\ CountsAgree)
<1>1. QueueInit => CountsAgree
  BY DEF QueueInit, CountsAgree, NoJob
<1> QED BY <1>1, CountsStep, InvAlways, PTL DEF QueueSafety

LEMMA VerdictStored ==
  ASSUME QueueInv, CountsAgree, NEW t \in Tasks, NEW j \in Jobs, ~lost[t]
  PROVE  /\ FinishOk(t, j) => jobStatus'[j] = "COMPLETED"
         /\ FinishPermanent(t, j) => jobStatus'[j] = "DEAD_LETTER"
         /\ FinishTransient(t, j) =>
              IF attempts[j] < MaxAttempts
              THEN jobStatus'[j] = "QUEUED" /\ eligible'[j] = "future"
              ELSE jobStatus'[j] = "DEAD_LETTER"
<1>1. ASSUME TaskDone(t, j)
      PROVE  /\ jobStatus[j] = "RUNNING" /\ taskAttempts[t] = attempts[j]
             /\ attempts[j] \in Nat /\ eligible \in [Jobs -> {"none", "future", "past"}]
  BY <1>1, QueueAssumption
  DEF QueueAssumption, QueueInv, TaskDone, OwnedClaims, Owned, CountsAgree, NoJob, TypeOK
<1>2. ASSUME NEW s, jobStatus[j] = "RUNNING", ReleaseIfRunning(j, s) PROVE jobStatus'[j] = s
  BY <1>2 DEF ReleaseIfRunning, Release
<1>3. ASSUME FinishOk(t, j) PROVE jobStatus'[j] = "COMPLETED"
  BY <1>1, <1>2, <1>3 DEF FinishOk, mark_completed
<1>4. ASSUME FinishPermanent(t, j) PROVE jobStatus'[j] = "DEAD_LETTER"
  BY <1>1, <1>2, <1>4 DEF FinishPermanent, mark_dead_letter
<1>5. ASSUME FinishTransient(t, j)
      PROVE  IF attempts[j] < MaxAttempts
             THEN jobStatus'[j] = "QUEUED" /\ eligible'[j] = "future"
             ELSE jobStatus'[j] = "DEAD_LETTER"
  <2>1. /\ jobStatus[j] = "RUNNING" /\ taskAttempts[t] = attempts[j] /\ attempts[j] \in Nat
        /\ eligible \in [Jobs -> {"none", "future", "past"}] /\ MaxAttempts \in Nat
    BY <1>1, <1>5, QueueAssumption DEF FinishTransient, QueueAssumption
  <2>2. CASE attempts[j] < MaxAttempts
    <3>1. requeue_with_backoff(j)
      BY <1>5, <2>1, <2>2 DEF FinishTransient
    <3> QED BY <1>2, <2>1, <2>2, <3>1 DEF requeue_with_backoff
  <2>3. CASE ~(attempts[j] < MaxAttempts)
    <3>1. mark_dead_letter(j)
      BY <1>5, <2>1, <2>3 DEF FinishTransient
    <3> QED BY <1>2, <2>1, <2>3, <3>1 DEF mark_dead_letter
  <2> QED BY <2>2, <2>3
<1> QED BY <1>3, <1>4, <1>5

\* The verdict of a task that did not lose its claim is stored although no
\* mark_* call compares the owner, and the ceiling, compared with what the
\* claim returned, is the one of the row (run_claimed, _handle_job_error).
THEOREM OwnersVerdictsCount == QueueSafety => VerdictsCount
<1>1. QueueInv /\ CountsAgree /\ [QueueNext]_vars =>
        [\A t \in Tasks, j \in Jobs : ~lost[t] =>
           /\ FinishOk(t, j) => jobStatus'[j] = "COMPLETED"
           /\ FinishPermanent(t, j) => jobStatus'[j] = "DEAD_LETTER"
           /\ FinishTransient(t, j) =>
                IF attempts[j] < MaxAttempts
                THEN jobStatus'[j] = "QUEUED" /\ eligible'[j] = "future"
                ELSE jobStatus'[j] = "DEAD_LETTER"]_vars
  BY VerdictStored
<1> QED BY <1>1, CountsAlways, PTL DEF QueueSafety, VerdictsCount

-----------------------------------------------------------------------------
(* References between rows, tasks and the sweep.                           *)

\* A stored job has a run; a task executes and a sweep writes stored jobs only.
QueueRefs ==
  /\ \A j \in Jobs : jobStatus[j] # "absent" => runOf[j] \in Runs
  /\ \A t \in Tasks : taskJob[t] # NoJob => jobStatus[taskJob[t]] # "absent"
  /\ \A j \in sweepSet : jobStatus[j] # "absent"

\* An enqueue inserts one row, for the run it is given.
LEMMA InsertOne ==
  ASSUME TypeOK, NEW j \in Jobs, NEW r \in Runs,
         (\E d \in BOOLEAN : Enqueue(j, r, d)) \/ EnqueuePlaceholder(j, r)
  PROVE  /\ jobStatus[j] = "absent" /\ runOf'[j] = r
         /\ \A k \in Jobs \ {j} : jobStatus'[k] = jobStatus[k] /\ runOf'[k] = runOf[k]
BY DEF TypeOK, Enqueue, EnqueuePlaceholder, NextId

\* Nothing else inserts a row, deletes one or changes the run of one.
NotInserting ==
  \/ \E t \in Tasks : TaskStep(t)
  \/ ClockStep
  \/ RecoveryStep
  \/ \E r \in Runs : CancelRunJobs(r)
  \/ UNCHANGED vars

LEMMA RowsStay ==
  ASSUME TypeOK, QueueRefs, NotInserting, NEW k \in Jobs
  PROVE  runOf' = runOf /\ (jobStatus[k] = "absent" <=> jobStatus'[k] = "absent")
<1> USE DEF TypeOK
<1>1. ASSUME NEW t \in Tasks, NEW j \in Jobs, ClaimNext(t, j)
      PROVE  runOf' = runOf /\ (jobStatus[k] = "absent" <=> jobStatus'[k] = "absent")
  BY <1>1 DEF ClaimNext, Claimable
<1>2. ASSUME NEW t \in Tasks, NEW j \in Jobs, Finish(t, j)
      PROVE  runOf' = runOf /\ (jobStatus[k] = "absent" <=> jobStatus'[k] = "absent")
  <2>1. PICK s \in {"COMPLETED", "QUEUED", "DEAD_LETTER"} : ReleaseIfRunning(j, s)
    BY <1>2, FinishReleases
  <2>2. runOf' = runOf
    BY <1>2, FinishReleases DEF TaskDone
  <2> QED BY <2>1, <2>2 DEF ReleaseIfRunning, Release
<1>3. ASSUME NEW t \in Tasks, Heartbeat(t) \/ Crash(t)
      PROVE  runOf' = runOf /\ jobStatus' = jobStatus
  BY <1>3 DEF Heartbeat, Crash, rowVars
<1>4. ASSUME ClockStep PROVE runOf' = runOf /\ jobStatus' = jobStatus
  BY <1>4 DEF ClockStep, LeaseExpires, HeartbeatStalls, Lapse, BackoffElapses
<1>5. ASSUME SweepRead PROVE runOf' = runOf /\ jobStatus' = jobStatus
  BY <1>5 DEF SweepRead, rowVars
<1>6. ASSUME SweepWrite
      PROVE  runOf' = runOf /\ (jobStatus[k] = "absent" <=> jobStatus'[k] = "absent")
  BY <1>6, SweptNotRunning DEF SweepWrite, QueueRefs
<1>7. ASSUME NEW j \in Jobs, PromoteEligible(j) \/ ReplayDeadLetter(j)
      PROVE  runOf' = runOf /\ (jobStatus[k] = "absent" <=> jobStatus'[k] = "absent")
  BY <1>7 DEF PromoteEligible, ReplayDeadLetter
<1>8. ASSUME NEW r \in Runs, NEW j \in Jobs, AdminRetryStuck(r, j)
      PROVE  runOf' = runOf /\ (jobStatus[k] = "absent" <=> jobStatus'[k] = "absent")
  BY <1>8 DEF AdminRetryStuck, Release
<1>9. ASSUME NEW r \in Runs, CancelRunJobs(r)
      PROVE  runOf' = runOf /\ (jobStatus[k] = "absent" <=> jobStatus'[k] = "absent")
  BY <1>9 DEF CancelRunJobs, Release, LiveJob
<1>10. ASSUME UNCHANGED vars PROVE runOf' = runOf /\ jobStatus' = jobStatus
  BY <1>10 DEF vars, rowVars
<1> HIDE DEF TypeOK
<1> QED
  BY <1>1, <1>2, <1>3, <1>4, <1>5, <1>6, <1>7, <1>8, <1>9, <1>10
  DEF NotInserting, TaskStep, Finish, RecoveryStep

LEMMA RowsPersist ==
  ASSUME TypeOK, QueueRefs, [QueueNext]_vars, NEW k \in Jobs
  PROVE  /\ jobStatus[k] # "absent" => jobStatus'[k] # "absent" /\ runOf'[k] = runOf[k]
         /\ jobStatus'[k] # "absent" => runOf'[k] \in Runs
<1>1. CASE NotInserting
  BY <1>1, RowsStay DEF QueueRefs
<1>2. CASE \E j \in Jobs, r \in Runs : (\E d \in BOOLEAN : Enqueue(j, r, d)) \/ EnqueuePlaceholder(j, r)
  BY <1>2, InsertOne DEF QueueRefs
<1> QED BY <1>1, <1>2 DEF QueueNext, NotInserting, RequestStep

\* QueueRefs is inductive.
LEMMA RefsStep == TypeOK /\ QueueRefs /\ [QueueNext]_vars => QueueRefs'
<1> SUFFICES ASSUME TypeOK, QueueRefs, [QueueNext]_vars PROVE QueueRefs'
  OBVIOUS
<1>1. TypeOK'
  BY TypeStep
<1>2. \A k \in Jobs : jobStatus[k] # "absent" => jobStatus'[k] # "absent"
  BY RowsPersist
<1>3. \A k \in Jobs : jobStatus'[k] # "absent" => runOf'[k] \in Runs
  BY RowsPersist
<1>4. \/ sweepSet' \subseteq sweepSet
      \/ sweepSet' = {j \in Jobs : jobStatus[j] = "RUNNING" /\ lease[j] = "expired"}
  <2>1. CASE SweepRead \/ SweepWrite
    BY <2>1 DEF SweepRead, SweepWrite
  <2>2. ASSUME NEW t \in Tasks, NEW j \in Jobs, Finish(t, j) PROVE sweepSet' = sweepSet
    BY <2>2, FinishReleases DEF TaskDone, sweepVars
  <2>3. ASSUME NEW t \in Tasks, NEW j \in Jobs, ClaimNext(t, j) PROVE sweepSet' = sweepSet
    BY <2>3 DEF ClaimNext, sweepVars
  <2>4. ASSUME NEW t \in Tasks, Heartbeat(t) \/ Crash(t) PROVE sweepSet' = sweepSet
    BY <2>4 DEF Heartbeat, Crash, sweepVars
  <2>5. ASSUME ClockStep PROVE sweepSet' = sweepSet
    BY <2>5 DEF ClockStep, LeaseExpires, HeartbeatStalls, Lapse, BackoffElapses, sweepVars
  <2>6. ASSUME NEW j \in Jobs, PromoteEligible(j) \/ ReplayDeadLetter(j) PROVE sweepSet' = sweepSet
    BY <2>6 DEF PromoteEligible, ReplayDeadLetter, sweepVars
  <2>7. ASSUME NEW r \in Runs, NEW j \in Jobs, AdminRetryStuck(r, j) PROVE sweepSet' = sweepSet
    BY <2>7 DEF AdminRetryStuck, sweepVars
  <2>8. ASSUME RequestStep PROVE sweepSet' = sweepSet
    BY <2>8 DEF RequestStep, Enqueue, EnqueuePlaceholder, CancelRunJobs, sweepVars
  <2>9. ASSUME UNCHANGED vars PROVE sweepSet' = sweepSet
    BY <2>9 DEF vars, sweepVars
  <2> QED BY <2>1, <2>2, <2>3, <2>4, <2>5, <2>6, <2>7, <2>8, <2>9
          DEF QueueNext, TaskStep, Finish, RecoveryStep
<1>5. ASSUME NEW t \in Tasks
      PROVE  \/ taskJob'[t] = NoJob
             \/ taskJob'[t] = taskJob[t]
             \/ taskJob'[t] \in Jobs /\ jobStatus'[taskJob'[t]] # "absent"
  <2> USE DEF TypeOK
  <2>1. ASSUME NEW u \in Tasks, NEW j \in Jobs, ClaimNext(u, j)
        PROVE  \/ taskJob'[t] = taskJob[t]
               \/ taskJob'[t] \in Jobs /\ jobStatus'[taskJob'[t]] # "absent"
    BY <2>1 DEF ClaimNext
  <2>2. ASSUME NEW u \in Tasks, NEW j \in Jobs, Finish(u, j)
        PROVE  taskJob'[t] = NoJob \/ taskJob'[t] = taskJob[t]
    BY <2>2, FinishReleases DEF TaskDone
  <2>3. ASSUME NEW u \in Tasks, Heartbeat(u) \/ Crash(u)
        PROVE  taskJob'[t] = NoJob \/ taskJob'[t] = taskJob[t]
    BY <2>3 DEF Heartbeat, Crash
  <2>4. ASSUME ClockStep PROVE taskJob' = taskJob
    BY <2>4 DEF ClockStep, LeaseExpires, HeartbeatStalls, Lapse, BackoffElapses, taskVars
  <2>5. ASSUME RecoveryStep PROVE taskJob' = taskJob
    BY <2>5 DEF RecoveryStep, SweepRead, SweepWrite, PromoteEligible, ReplayDeadLetter,
                AdminRetryStuck, taskVars
  <2>6. ASSUME RequestStep PROVE taskJob' = taskJob
    BY <2>6 DEF RequestStep, Enqueue, EnqueuePlaceholder, CancelRunJobs, taskVars
  <2>7. ASSUME UNCHANGED vars PROVE taskJob' = taskJob
    BY <2>7 DEF vars, taskVars
  <2> HIDE DEF TypeOK
  <2> QED BY <2>1, <2>2, <2>3, <2>4, <2>5, <2>6, <2>7 DEF QueueNext, TaskStep, Finish
<1>6. \A t \in Tasks : taskJob'[t] # NoJob => jobStatus'[taskJob'[t]] # "absent"
  BY <1>1, <1>2, <1>5 DEF QueueRefs, TypeOK
<1>7. \A j \in sweepSet' : jobStatus'[j] # "absent"
  BY <1>1, <1>2, <1>4 DEF QueueRefs, TypeOK
<1> QED BY <1>3, <1>6, <1>7 DEF QueueRefs

-----------------------------------------------------------------------------
(* Type correctness.                                                       *)

\* What the graph returns is a phase of an execution and a checkpoint.
LEMMA GraphResultType ==
  ASSUME RunTypeOK, NEW j \in Jobs, NEW after \in GraphResults(j), runOf[j] \in Runs
  PROVE  after[1] \in Phases /\ after[2] \in {"none", "content", "other", "done"}
BY DEF GraphResults, RunTypeOK, Phases

LEMMA RunTypeInit == LifeInit => RunTypeOK
BY LifecycleAssumption, QueueAssumption
DEF LifeInit, RunTypeOK, Phases, NoGate, GateNames, RunStatuses

-----------------------------------------------------------------------------
(* Gates and requests refer to stored rows.                                *)

GateRefs ==
  /\ \A g \in Gates : gateStatus[g] # "absent" => gateRun[g] \in Runs
  /\ \A q \in Requests : reqGate[q] # NoGate => gateStatus[reqGate[q]] # "absent"
  /\ \A g \in gateSweep : gateStatus[g] # "absent"

\* The run a request answers for exists.
LEMMA AnsweredGateRun ==
  ASSUME RunTypeOK, GateRefs, NEW q \in Requests, NEW g \in Gates, reqGate[q] = g
  PROVE  gateRun[g] \in Runs
BY LifecycleAssumption DEF GateRefs, NoGate

-----------------------------------------------------------------------------
(* Every step of the composed system is a step of the queue.               *)

Inserts(j, r) == (\E d \in BOOLEAN : Enqueue(j, r, d)) \/ EnqueuePlaceholder(j, r)

\* The run of a new job is in the table, or a stored gate belongs to it.
RunKnown(r) ==
  \/ runStatus'[r] # "absent"
  \/ \E g \in Gates : gateRun[g] = r /\ gateStatus[g] # "absent"

InsertingStep == \E j \in Jobs, r \in Runs : Inserts(j, r) /\ RunKnown(r)

LEMMA QueueStepKind == RunTypeOK /\ GateRefs /\ [RunNext]_allVars => NotInserting \/ InsertingStep
<1> SUFFICES ASSUME RunTypeOK, GateRefs, [RunNext]_allVars PROVE NotInserting \/ InsertingStep
  OBVIOUS
<1>1. CASE CreateStep
  <2>1. ASSUME NEW r \in Runs, NEW j \in Jobs, NEW delayed \in BOOLEAN, CreateReady(r, j, delayed)
        PROVE  InsertingStep
    BY <2>1 DEF CreateReady, InsertingStep, Inserts, RunKnown, RunTypeOK
  <2>2. ASSUME NEW r \in Runs, CreateDuplicate(r) PROVE UNCHANGED vars
    BY <2>2 DEF CreateDuplicate
  <2>3. ASSUME NEW r \in Runs, NEW g \in Gates, NEW name \in {"clarification", "contract"},
               CreateGated(r, g, name)
        PROVE  UNCHANGED vars \/ InsertingStep
    BY <2>3 DEF CreateGated, CreateGatedRow, InsertingStep, Inserts, RunKnown, RunTypeOK
  <2> QED BY <1>1, <2>1, <2>2, <2>3 DEF CreateStep, NotInserting
<1>2. CASE TeacherStep
  <2>1. ASSUME NEW q \in Requests, NEW g \in Gates, ResumeRead(q, g) PROVE UNCHANGED vars
    BY <2>1 DEF ResumeRead
  <2>2. ASSUME NEW q \in Requests, NEW g \in Gates, NEW j \in Jobs,
               ResumeStart(q, g, j) \/ ResumeGraph(q, g, j)
        PROVE  InsertingStep
    <3>1. reqGate[q] = g
      BY <2>2 DEF ResumeStart, ResumeGraph, AnswerWithJob, RespondToGate
    <3>2. gateRun[g] \in Runs /\ gateStatus[g] # "absent"
      BY <3>1, LifecycleAssumption DEF GateRefs, NoGate
    <3>3. Enqueue(j, gateRun[g], FALSE)
      BY <2>2 DEF ResumeStart, ResumeGraph, AnswerWithJob
    <3> QED BY <3>2, <3>3 DEF InsertingStep, Inserts, RunKnown
  <2>3. ASSUME NEW q \in Requests, NEW g \in Gates, NEW h \in Gates, ResumeSearchGate(q, g, h)
        PROVE  UNCHANGED vars
    BY <2>3 DEF ResumeSearchGate
  <2>4. ASSUME NEW q \in Requests, ResumeRejected(q) PROVE UNCHANGED vars
    BY <2>4 DEF ResumeRejected
  <2>5. ASSUME NEW r \in Runs, TeacherCancel(r) PROVE CancelRunJobs(r)
    BY <2>5 DEF TeacherCancel
  <2>6. ASSUME NEW r \in Runs, NEW j \in Jobs, RequestRevision(r, j) PROVE InsertingStep
    BY <2>6 DEF RequestRevision, InsertingStep, Inserts, RunKnown, runVars
  <2> QED BY <1>2, <2>1, <2>2, <2>3, <2>4, <2>5, <2>6 DEF TeacherStep, NotInserting
<1>3. CASE WorkerStep
  <2> SUFFICES ASSUME NEW t \in Tasks,
                      \/ \E j \in Jobs :
                           \/ StartExecution(t, j)
                           \/ AtPhase(t, j, "invoking") /\ GraphReturns(t, j)
                           \/ \E g \in Gates : PersistGate(t, j, g)
                           \/ GateConflict(t, j)
                           \/ SkipExport(t, j)
                           \/ WriteExports(t, j)
                           \/ PersistExport(t, j)
                           \/ PersistRecovery(t, j)
                           \/ PersistNothing(t, j)
                           \/ PersistError(t, j)
                      \/ WorkerCrash(t)
               PROVE  TaskStep(t) \/ UNCHANGED vars
    BY <1>3 DEF WorkerStep, NotInserting
  <2>1. ASSUME NEW j \in Jobs, StartExecution(t, j) PROVE TaskStep(t)
    BY <2>1 DEF StartExecution, TaskStep
  <2>2. ASSUME NEW j \in Jobs, GraphReturns(t, j) \/ WriteExports(t, j) PROVE UNCHANGED vars
    BY <2>2 DEF GraphReturns, WriteExports
  <2>3. ASSUME NEW j \in Jobs,
               \/ \E g \in Gates : PersistGate(t, j, g)
               \/ SkipExport(t, j) \/ PersistExport(t, j) \/ PersistRecovery(t, j)
               \/ PersistNothing(t, j) \/ PersistError(t, j)
        PROVE  TaskStep(t)
    BY <2>3 DEF PersistGate, SkipExport, PersistExport, PersistRecovery, PersistNothing, PersistError,
                TaskStep
  <2>4. ASSUME NEW j \in Jobs, GateConflict(t, j) PROVE TaskStep(t)
    BY <2>4 DEF GateConflict, TaskStep
  <2>5. ASSUME WorkerCrash(t) PROVE TaskStep(t)
    BY <2>5 DEF WorkerCrash, TaskStep
  <2> QED BY <2>1, <2>2, <2>3, <2>4, <2>5
<1>4. CASE OperatorStep
  BY <1>4 DEF OperatorStep, AdminCancel, AdminReopenGate, AdminMarkEscalated, GateSweepRead,
              GateSweepWrite, NotInserting
<1>5. CASE QueueOnly
  BY <1>5 DEF QueueOnly, NotInserting, TaskStep
<1>6. CASE UNCHANGED allVars
  BY <1>6 DEF allVars, NotInserting
<1> QED BY <1>1, <1>2, <1>3, <1>4, <1>5, <1>6 DEF RunNext

LEMMA QueueStepOf == RunTypeOK /\ GateRefs /\ [RunNext]_allVars => [QueueNext]_vars
BY QueueStepKind DEF NotInserting, InsertingStep, Inserts, QueueNext, RequestStep

-----------------------------------------------------------------------------
(* Each action keeps the types and the references.                         *)

LifeOK == RunTypeOK /\ GateRefs

LEMMA CreateKeeps == LifeOK /\ CreateStep => LifeOK'
<1> SUFFICES ASSUME LifeOK, CreateStep PROVE LifeOK'
  OBVIOUS
<1> USE LifecycleAssumption, QueueAssumption
    DEF LifeOK, RunTypeOK, GateRefs, RunStatuses, GateNames
<1>1. ASSUME NEW r \in Runs, NEW j \in Jobs, NEW delayed \in BOOLEAN, CreateReady(r, j, delayed)
      PROVE  LifeOK'
  BY <1>1 DEF CreateReady, gateVars, workVars, execVars
<1>2. ASSUME NEW r \in Runs, CreateDuplicate(r) PROVE LifeOK'
  BY <1>2 DEF CreateDuplicate, gateVars, workVars, execVars
<1>3. ASSUME NEW r \in Runs, NEW g \in Gates, NEW name \in {"clarification", "contract"},
             CreateGated(r, g, name)
      PROVE  LifeOK'
  BY <1>3 DEF CreateGated, CreateGatedRow, OpenGate, workVars, execVars
<1> HIDE DEF LifeOK
<1> QED BY <1>1, <1>2, <1>3 DEF CreateStep

LEMMA TeacherKeeps == LifeOK /\ TeacherStep => LifeOK'
<1> SUFFICES ASSUME LifeOK, TeacherStep PROVE LifeOK'
  OBVIOUS
<1> USE LifecycleAssumption, QueueAssumption
    DEF LifeOK, RunTypeOK, GateRefs, RunStatuses, GateNames, NoGate
<1>1. ASSUME NEW q \in Requests, NEW g \in Gates, ResumeRead(q, g) PROVE LifeOK'
  BY <1>1 DEF ResumeRead, runVars, gateVars, workVars, execVars
<1>2. ASSUME NEW q \in Requests, NEW g \in Gates, NEW j \in Jobs, NEW kind \in {"START", "RESUME"},
             AnswerWithJob(q, g, j, kind)
      PROVE  LifeOK'
  BY <1>2 DEF AnswerWithJob, AnsweredStatus, RespondToGate, runVars, execVars
<1>3. ASSUME NEW q \in Requests, NEW g \in Gates, NEW h \in Gates, ResumeSearchGate(q, g, h)
      PROVE  LifeOK'
  <2>1. gateRun[g] \in Runs
    BY <1>3, AnsweredGateRun DEF ResumeSearchGate, RespondToGate
  <2>2. PICK c \in {"RESPONDED", "CANCELLED"} :
          OpenGate([gateStatus EXCEPT ![g] = c], h, gateRun[g], "search", 0)
    BY <1>3 DEF ResumeSearchGate, AnsweredStatus
  <2>3. RespondToGate(q, g) /\ UNCHANGED <<runVars, applied, gateSweep, workVars, execVars, admin>>
    BY <1>3 DEF ResumeSearchGate
  <2> QED BY <2>1, <2>2, <2>3 DEF RespondToGate, OpenGate, runVars, workVars, execVars
<1>4. ASSUME NEW q \in Requests, ResumeRejected(q) PROVE LifeOK'
  BY <1>4 DEF ResumeRejected, runVars, gateVars, workVars, execVars
<1>5. ASSUME NEW r \in Runs, TeacherCancel(r) PROVE LifeOK'
  BY <1>5 DEF TeacherCancel, CancelledGates, workVars, execVars
<1>6. ASSUME NEW r \in Runs, NEW j \in Jobs, RequestRevision(r, j) PROVE LifeOK'
  BY <1>6 DEF RequestRevision, runVars, gateVars, execVars
<1> HIDE DEF LifeOK
<1> QED BY <1>1, <1>2, <1>3, <1>4, <1>5, <1>6 DEF TeacherStep, ResumeStart, ResumeGraph

LEMMA OperatorKeeps == LifeOK /\ (OperatorStep \/ UNCHANGED lifeVars) => LifeOK'
<1> SUFFICES ASSUME LifeOK, OperatorStep \/ UNCHANGED lifeVars PROVE LifeOK'
  OBVIOUS
<1> USE LifecycleAssumption, QueueAssumption DEF LifeOK, RunTypeOK, GateRefs, RunStatuses
<1>1. ASSUME NEW r \in Runs, AdminCancel(r) PROVE LifeOK'
  BY <1>1 DEF AdminCancel, AdminUsed, gateVars, workVars, execVars
<1>2. ASSUME NEW r \in Runs, NEW g \in Gates, AdminReopenGate(r, g) PROVE LifeOK'
  BY <1>2 DEF AdminReopenGate, AdminUsed, Latest, runVars, workVars, execVars
<1>3. ASSUME NEW r \in Runs, NEW g \in Gates, AdminMarkEscalated(r, g) PROVE LifeOK'
  BY <1>3 DEF AdminMarkEscalated, AdminUsed, Latest, runVars, workVars, execVars
<1>4. ASSUME NEW S \in SUBSET Gates, GateSweepRead(S) PROVE LifeOK'
  BY <1>4 DEF GateSweepRead, AdminUsed, runVars, workVars, execVars
<1>5. CASE GateSweepWrite
  BY <1>5 DEF GateSweepWrite, runVars, workVars, execVars
<1>6. CASE UNCHANGED lifeVars
  BY <1>6 DEF lifeVars, runVars, gateVars, workVars, execVars
<1> HIDE DEF LifeOK
<1> QED BY <1>1, <1>2, <1>3, <1>4, <1>5, <1>6 DEF OperatorStep

\* The status a failure leaves is a status.
LEMMA AfterFailureType == \A s \in RunStatuses \cup {"absent"} :
                            AfterFailure(s) \in RunStatuses \cup {"absent"}
BY DEF AfterFailure, RunStatuses

LEMMA WorkerKeeps == LifeOK /\ TypeOK /\ QueueRefs /\ WorkerStep => LifeOK'
<1> SUFFICES ASSUME LifeOK, TypeOK, QueueRefs, WorkerStep PROVE LifeOK'
  OBVIOUS
<1> USE LifecycleAssumption, QueueAssumption
    DEF LifeOK, RunTypeOK, GateRefs, Phases
<1>1. \A t \in Tasks, j \in Jobs : taskJob[t] = j => runOf[j] \in Runs
  BY DEF QueueRefs, NoJob
<1>2. ASSUME NEW t \in Tasks, NEW j \in Jobs, StartExecution(t, j) PROVE LifeOK'
  BY <1>2 DEF StartExecution, runVars, gateVars, workVars
<1>3. ASSUME NEW t \in Tasks, NEW j \in Jobs, taskJob[t] = j, GraphReturns(t, j) PROVE LifeOK'
  <2>1. runOf[j] \in Runs
    BY <1>1, <1>3
  <2> DEFINE r == runOf[j]
             raised(after) == after[1] = "gate" /\ ~(jobKind[j] = "START" /\ checkpoint[r] = "content")
  <2>2. PICK after \in GraphResults(j) :
          /\ phase' = [phase EXCEPT ![t] = after[1]]
          /\ checkpoint' = [checkpoint EXCEPT ![r] = after[2]]
          /\ pauses' = IF raised(after) THEN [pauses EXCEPT ![r] = @ + 1] ELSE pauses
          /\ seenPause' = [seenPause EXCEPT ![t] = IF after[1] = "gate" THEN pauses'[r] ELSE 0]
          /\ applied' = IF AnswersInterrupt(j, after)
                        THEN [applied EXCEPT ![jobGate[j]] = @ \cup {pauses[r]}] ELSE applied
    BY <1>3 DEF GraphReturns
  <2>3. after[1] \in Phases /\ after[2] \in {"none", "content", "other", "done"}
    BY <2>1, GraphResultType
  <2>4. pauses' \in [Runs -> Nat]
    BY <2>1, <2>2
  <2>5. seenPause' \in [Tasks -> Nat]
    BY <2>1, <2>2, <2>4
  <2>6. applied' \in [Gates -> SUBSET Nat]
    <3>1. ASSUME NEW g PROVE [applied EXCEPT ![g] = @ \cup {pauses[r]}] \in [Gates -> SUBSET Nat]
      <4>1. \A h \in Gates : applied[h] \cup {pauses[r]} \in SUBSET Nat
        BY <2>1
      <4> QED BY <4>1
    <3> QED BY <2>2, <3>1
  <2>7. phase' \in [Tasks -> Phases] /\ checkpoint' \in [Runs -> {"none", "content", "other", "done"}]
    BY <2>1, <2>2, <2>3
  <2>8. UNCHANGED <<vars, runStatus, exports, completions, gateRun, gateName, gateStatus,
                    gatePause, answered, gateSweep, workVars, reqGate, admin>>
    BY <1>3 DEF GraphReturns
  <2> QED BY <2>4, <2>5, <2>6, <2>7, <2>8 DEF workVars
<1>4. ASSUME NEW t \in Tasks, NEW j \in Jobs, NEW g \in Gates, PersistGate(t, j, g) PROVE LifeOK'
  <2>1. runOf[j] \in Runs
    BY <1>1, <1>4 DEF PersistGate, AtPhase
  <2>2. runStatus' \in [Runs -> RunStatuses \cup {"absent"}]
    BY <1>4, <2>1, AfterFailureType DEF PersistGate, RunStatuses
  <2>3. /\ OpenGate(gateStatus, g, runOf[j], "content", seenPause[t])
        /\ Committed(t)
        /\ UNCHANGED <<exports, completions, answered, applied, gateSweep>>
    BY <1>4 DEF PersistGate
  <2> QED BY <2>1, <2>2, <2>3 DEF OpenGate, Committed, workVars, GateNames
<1>5. ASSUME NEW t \in Tasks, NEW j \in Jobs, GateConflict(t, j) \/ WorkerCrash(t) \/ SkipExport(t, j)
      PROVE  LifeOK'
  <2>1. Committed(t) /\ UNCHANGED <<runStatus, exports, completions, gateVars>>
    BY <1>5 DEF GateConflict, WorkerCrash, SkipExport
  <2> QED BY <2>1 DEF Committed, gateVars, workVars
<1>6. ASSUME NEW t \in Tasks, NEW j \in Jobs, WriteExports(t, j) PROVE LifeOK'
  BY <1>6 DEF WriteExports, gateVars, workVars
<1>7. ASSUME NEW t \in Tasks, NEW j \in Jobs, PersistExport(t, j) PROVE LifeOK'
  <2>1. runOf[j] \in Runs
    BY <1>1, <1>7 DEF PersistExport, AtPhase
  <2>2. runStatus' \in [Runs -> RunStatuses \cup {"absent"}]
    BY <1>7, <2>1, AfterFailureType DEF PersistExport, RunStatuses
  <2>3. completions' \in [Runs -> Nat]
    BY <1>7, <2>1 DEF PersistExport
  <2>4. /\ exports' = [exports EXCEPT ![runOf[j]] = "recorded"]
        /\ Committed(t)
        /\ UNCHANGED gateVars
    BY <1>7 DEF PersistExport, RecordExports
  <2> QED BY <2>1, <2>2, <2>3, <2>4 DEF Committed, gateVars, workVars
<1>8. ASSUME NEW t \in Tasks, NEW j \in Jobs,
             PersistRecovery(t, j) \/ PersistNothing(t, j) \/ PersistError(t, j)
      PROVE  LifeOK'
  <2>1. runOf[j] \in Runs
    BY <1>1, <1>8 DEF PersistRecovery, PersistNothing, PersistError, AtPhase
  <2>2. runStatus' \in [Runs -> RunStatuses \cup {"absent"}]
    BY <1>8, <2>1, AfterFailureType DEF PersistRecovery, PersistNothing, PersistError, RunStatuses
  <2>3. /\ Committed(t)
        /\ UNCHANGED <<exports, completions, gateVars>>
    BY <1>8 DEF PersistRecovery, PersistNothing, PersistError
  <2> QED BY <2>2, <2>3 DEF Committed, gateVars, workVars
<1> HIDE DEF LifeOK
<1>9. ASSUME NEW t \in Tasks, WorkerCrash(t) PROVE LifeOK'
  <2>1. taskJob[t] \in Jobs
    BY <1>9 DEF WorkerCrash, Crash, TypeOK
  <2> QED BY <1>5, <1>9, <2>1
<1> QED BY <1>2, <1>3, <1>4, <1>5, <1>6, <1>7, <1>8, <1>9 DEF WorkerStep, AtPhase

-----------------------------------------------------------------------------
(* The composition implements the queue.                                   *)

LifeInv == TypeOK /\ QueueRefs /\ LifeOK

LEMMA LifeInvInit == RunInit => LifeInv
<1> SUFFICES ASSUME RunInit PROVE LifeInv
  OBVIOUS
<1>1. TypeOK /\ RunTypeOK
  BY TypeInit, RunTypeInit DEF RunInit
<1>2. QueueRefs
  BY DEF RunInit, QueueInit, QueueRefs, NoJob
<1>3. GateRefs
  BY DEF RunInit, LifeInit, GateRefs, NoGate
<1> QED BY <1>1, <1>2, <1>3 DEF LifeInv, LifeOK

\* LifeInv is inductive: the queue's part because the step is a step of the
\* queue, the rest action by action.
LEMMA LifeInvStep == LifeInv /\ [RunNext]_allVars => LifeInv'
<1> SUFFICES ASSUME LifeInv, [RunNext]_allVars PROVE LifeInv'
  OBVIOUS
<1>1. TypeOK' /\ QueueRefs'
  BY QueueStepOf, TypeStep, RefsStep DEF LifeInv, LifeOK
<1>2. LifeOK'
  <2>1. CASE UNCHANGED allVars
    BY <2>1, OperatorKeeps DEF LifeInv, allVars
  <2>2. CASE QueueOnly
    BY <2>2, OperatorKeeps DEF LifeInv, QueueOnly
  <2> QED BY <2>1, <2>2, CreateKeeps, TeacherKeeps, WorkerKeeps, OperatorKeeps DEF LifeInv, RunNext
<1> QED BY <1>1, <1>2 DEF LifeInv

LEMMA LifeInvAlways == RunSpec => []LifeInv
BY LifeInvInit, LifeInvStep, PTL DEF RunSpec

\* The tables of runs and gates, the requests and the executions keep their
\* types in every behaviour of the composed system.
THEOREM LifecycleTypeCorrect == RunSpec => []RunTypeOK
<1>1. LifeInv => RunTypeOK
  BY DEF LifeInv, LifeOK
<1> QED BY <1>1, LifeInvAlways, PTL

\* Routes, workers and operators change run_jobs only as the queue allows: the
\* composed system implements the queue.
THEOREM LifecycleImplementsQueue == RunSpec => QueueSafety
<1>1. LifeInv /\ [RunNext]_allVars => [QueueNext]_vars
  BY QueueStepOf DEF LifeInv, LifeOK
<1>2. RunInit => QueueInit
  BY DEF RunInit
<1> QED BY <1>1, <1>2, LifeInvAlways, PTL DEF RunSpec, QueueSafety

\* So executions of one job exclude each other in the composed system too.
THEOREM LifecycleClaimsAreExclusive == RunSpec => []ExclusiveClaim
BY LifecycleImplementsQueue, ClaimsAreExclusive, PTL

\* In the composed system, too, only a sweep that read the row before it was
\* settled changes a completed or cancelled job: no answer, refinement,
\* cancellation, publication or operator of the lifecycle does.
THEOREM LifecycleOnlySweepsUnsettle == RunSpec => OnlyStaleSweepUnsettles
BY LifecycleImplementsQueue, OnlySweepsUnsettle

\* And the verdict of a task that owns its job is stored, with the retry
\* ceiling applied to the attempts of the row.
THEOREM LifecycleVerdictsCount == RunSpec => VerdictsCount
BY LifecycleImplementsQueue, OwnersVerdictsCount

-----------------------------------------------------------------------------
(* Runs that jobs and gates refer to exist.                                *)

RunsExist ==
  /\ \A j \in Jobs : jobStatus[j] # "absent" => runStatus[runOf[j]] # "absent"
  /\ \A g \in Gates : gateStatus[g] # "absent" => runStatus[gateRun[g]] # "absent"

\* A task executes a job of a run that exists.
LEMMA ExecutedRun ==
  ASSUME LifeInv, RunsExist, NEW t \in Tasks, NEW j \in Jobs, taskJob[t] = j
  PROVE  runOf[j] \in Runs /\ runStatus[runOf[j]] \in RunStatuses
BY QueueAssumption DEF LifeInv, LifeOK, RunTypeOK, QueueRefs, RunsExist, NoJob

\* What the status table says about the ends of a run.
LEMMA TableFacts ==
  ASSUME NEW s \in RunStatuses
  PROVE  /\ CanMove(s, "FAILED") => s \notin {"COMPLETED", "CANCELLED"}
         /\ CanMove(s, "CANCELLED") => s \notin {"COMPLETED", "FAILED"}
         /\ CanMove(s, "AWAITING_APPROVAL") => s \notin Terminal
         /\ CanMove(s, "PLANNING") => s \notin Terminal
         /\ CanMove(s, "EXPORTING") => s \notin Terminal
<1>1. CASE s \in Terminal
  BY <1>1 DEF CanMove, AllowedTransitions, Terminal
<1>2. CASE s \notin Terminal
  BY <1>2 DEF Terminal
<1> QED BY <1>1, <1>2

Open(s) == s \in RunStatuses \ Terminal

\* How a step may move run r, and no other run.
MoveOf(r) ==
  /\ \A x \in Runs \ {r} : runStatus'[x] = runStatus[x] /\ completions'[x] = completions[x]
  /\ \/ /\ OutcomeOf(runStatus'[r]) = OutcomeOf(runStatus[r])
        /\ completions'[r] = completions[r]
     \/ /\ runStatus[r] = "absent" /\ Open(runStatus'[r])
        /\ completions'[r] = completions[r]
     \/ /\ Open(runStatus[r]) /\ runStatus'[r] = "FAILED"
        /\ completions'[r] = completions[r]
     \/ /\ (Open(runStatus[r]) \/ runStatus[r] = "FAILED")
        /\ runStatus'[r] = "CANCELLED"
        /\ completions'[r] = completions[r]
     \/ /\ Open(runStatus[r]) /\ runStatus'[r] = "COMPLETED"
        /\ completions'[r] = completions[r] + 1
        /\ exports'[r] = "recorded"

StatusMove ==
  /\ (UNCHANGED <<runStatus, completions>> \/ \E r \in Runs : MoveOf(r))
  /\ \A r \in Runs : exports[r] = "recorded" => exports'[r] = "recorded"

\* persist_failure moves an open run to FAILED and no other.
LEMMA FailureMoves ==
  ASSUME LifeInv, NEW r \in Runs, runStatus[r] \in RunStatuses,
         runStatus' = [runStatus EXCEPT ![r] = AfterFailure(@)], completions' = completions
  PROVE  MoveOf(r)
<1>1. runStatus'[r] = AfterFailure(runStatus[r]) /\ \A x \in Runs \ {r} : runStatus'[x] = runStatus[x]
  BY DEF LifeInv, LifeOK, RunTypeOK
<1>2. CASE CanMove(runStatus[r], "FAILED")
  <2>1. runStatus'[r] = "FAILED" /\ runStatus[r] \notin {"COMPLETED", "CANCELLED"}
    BY <1>1, <1>2, TableFacts DEF AfterFailure
  <2> QED BY <1>1, <2>1 DEF MoveOf, Open, Terminal
<1>3. CASE ~CanMove(runStatus[r], "FAILED")
  BY <1>1, <1>3 DEF AfterFailure, MoveOf
<1> QED BY <1>2, <1>3

\* Every step moves at most one run, and only as the promise allows.
LEMMA StatusMoves == LifeInv /\ RunsExist /\ [RunNext]_allVars => StatusMove
<1> SUFFICES ASSUME LifeInv, RunsExist, [RunNext]_allVars PROVE StatusMove
  OBVIOUS
<1>0. RunTypeOK
  BY DEF LifeInv, LifeOK
<1>1. CASE CreateStep
  <2>1. PICK r \in Runs : /\ runStatus[r] = "absent"
                          /\ \/ runStatus' = [runStatus EXCEPT ![r] = "PENDING"]
                             \/ runStatus' = [runStatus EXCEPT ![r] = "AWAITING_APPROVAL"]
                          /\ UNCHANGED <<completions, exports>>
    BY <1>1 DEF CreateStep, CreateReady, CreateDuplicate, CreateGated, CreateGatedRow
  <2>2. MoveOf(r)
    BY <1>0, <2>1 DEF MoveOf, Open, RunStatuses, Terminal, RunTypeOK
  <2> QED BY <2>1, <2>2 DEF StatusMove
<1>2. CASE TeacherStep
  <2>1. ASSUME NEW r \in Runs, TeacherCancel(r) PROVE StatusMove
    <3>1. /\ runStatus[r] \in RunStatuses /\ CanMove(runStatus[r], "CANCELLED")
          /\ runStatus' = [runStatus EXCEPT ![r] = "CANCELLED"]
          /\ UNCHANGED <<completions, exports>>
      BY <1>0, <2>1 DEF TeacherCancel, RunTypeOK
    <3>2. runStatus[r] \notin {"COMPLETED", "FAILED"}
      BY <3>1, TableFacts
    <3>3. MoveOf(r)
      BY <1>0, <3>1, <3>2 DEF MoveOf, Open, Terminal, RunTypeOK
    <3> QED BY <3>1, <3>3 DEF StatusMove
  <2>2. CASE ~ \E r \in Runs : TeacherCancel(r)
    <3>1. UNCHANGED runVars
      BY <1>2, <2>2 DEF TeacherStep, ResumeRead, ResumeStart, ResumeGraph, AnswerWithJob,
                        ResumeSearchGate, ResumeRejected, RequestRevision
    <3> QED BY <3>1 DEF runVars, StatusMove
  <2> QED BY <2>1, <2>2
<1>3. CASE WorkerStep
  <2>1. ASSUME NEW t \in Tasks, NEW j \in Jobs, NEW g \in Gates, PersistGate(t, j, g) PROVE StatusMove
    <3>1. runOf[j] \in Runs /\ runStatus[runOf[j]] \in RunStatuses
      BY <2>1, ExecutedRun DEF PersistGate, AtPhase
    <3>2. UNCHANGED <<completions, exports>>
      BY <2>1 DEF PersistGate
    <3>3. CASE /\ CanMove(runStatus[runOf[j]], "AWAITING_APPROVAL")
               /\ runStatus' = [runStatus EXCEPT ![runOf[j]] = "AWAITING_APPROVAL"]
      <4>1. runStatus[runOf[j]] \notin Terminal
        BY <3>1, <3>3, TableFacts
      <4>2. MoveOf(runOf[j])
        BY <1>0, <3>1, <3>2, <3>3, <4>1 DEF MoveOf, OutcomeOf, Terminal, RunStatuses, RunTypeOK
      <4> QED BY <3>1, <3>2, <4>2 DEF StatusMove
    <3>4. CASE runStatus' = [runStatus EXCEPT ![runOf[j]] = AfterFailure(@)]
      BY <3>1, <3>2, <3>4, FailureMoves DEF StatusMove
    <3> QED BY <2>1, <3>3, <3>4 DEF PersistGate
  <2>2. ASSUME NEW t \in Tasks, NEW j \in Jobs, PersistExport(t, j) PROVE StatusMove
    <3>1. runOf[j] \in Runs /\ runStatus[runOf[j]] \in RunStatuses
      BY <2>2, ExecutedRun DEF PersistExport, AtPhase
    <3>2. exports' = [exports EXCEPT ![runOf[j]] = "recorded"]
      BY <2>2 DEF PersistExport, RecordExports
    <3>3. CASE /\ CanMove(runStatus[runOf[j]], "EXPORTING")
               /\ runStatus' = [runStatus EXCEPT ![runOf[j]] = "COMPLETED"]
               /\ completions' = [completions EXCEPT ![runOf[j]] = @ + 1]
      <4>1. runStatus[runOf[j]] \notin Terminal
        BY <3>1, <3>3, TableFacts
      <4>2. MoveOf(runOf[j])
        BY <1>0, <3>1, <3>2, <3>3, <4>1 DEF MoveOf, Open, RunTypeOK
      <4> QED BY <1>0, <3>1, <3>2, <4>2 DEF StatusMove, RunTypeOK
    <3>4. CASE /\ runStatus' = [runStatus EXCEPT ![runOf[j]] = AfterFailure(@)]
               /\ UNCHANGED completions
      <4>1. MoveOf(runOf[j])
        BY <3>1, <3>4, FailureMoves
      <4> QED BY <1>0, <3>1, <3>2, <4>1 DEF StatusMove, RunTypeOK
    <3> QED BY <2>2, <3>3, <3>4 DEF PersistExport
  <2>3. ASSUME NEW t \in Tasks, NEW j \in Jobs, PersistNothing(t, j) \/ PersistError(t, j)
        PROVE  StatusMove
    <3>1. runOf[j] \in Runs /\ runStatus[runOf[j]] \in RunStatuses
      BY <2>3, ExecutedRun DEF PersistNothing, PersistError, AtPhase
    <3>2. /\ runStatus' = [runStatus EXCEPT ![runOf[j]] = AfterFailure(@)]
          /\ UNCHANGED <<completions, exports>>
      BY <2>3 DEF PersistNothing, PersistError
    <3> QED BY <3>1, <3>2, FailureMoves DEF StatusMove
  <2>7. ASSUME NEW t \in Tasks, NEW j \in Jobs, PersistRecovery(t, j) PROVE StatusMove
    <3>1. runOf[j] \in Runs /\ runStatus[runOf[j]] \in RunStatuses
      BY <2>7, ExecutedRun DEF PersistRecovery, AtPhase
    <3>2. UNCHANGED <<completions, exports>>
      BY <2>7 DEF PersistRecovery
    <3>3. CASE /\ CanMove(runStatus[runOf[j]], "PLANNING")
               /\ runStatus' = [runStatus EXCEPT ![runOf[j]] = "PLANNING"]
      <4>1. runStatus[runOf[j]] \notin Terminal
        BY <3>1, <3>3, TableFacts
      <4>2. MoveOf(runOf[j])
        BY <1>0, <3>1, <3>2, <3>3, <4>1 DEF MoveOf, OutcomeOf, Terminal, RunStatuses, RunTypeOK
      <4> QED BY <3>1, <3>2, <4>2 DEF StatusMove
    <3>4. CASE runStatus' = [runStatus EXCEPT ![runOf[j]] = AfterFailure(@)]
      BY <3>1, <3>2, <3>4, FailureMoves DEF StatusMove
    <3> QED BY <2>7, <3>3, <3>4 DEF PersistRecovery
  <2>4. ASSUME NEW t \in Tasks, NEW j \in Jobs, WriteExports(t, j) PROVE StatusMove
    BY <1>0, <2>4 DEF WriteExports, StatusMove, RunTypeOK
  <2>5. ASSUME NEW t \in Tasks, NEW j \in Jobs,
               StartExecution(t, j) \/ GraphReturns(t, j) \/ GateConflict(t, j) \/ SkipExport(t, j)
        PROVE  StatusMove
    BY <2>5 DEF StartExecution, GraphReturns, GateConflict, SkipExport, StatusMove, runVars
  <2>6. ASSUME NEW t \in Tasks, WorkerCrash(t) PROVE StatusMove
    BY <2>6 DEF WorkerCrash, StatusMove
  <2> QED BY <1>3, <2>1, <2>2, <2>3, <2>4, <2>5, <2>6, <2>7 DEF WorkerStep
<1>4. CASE OperatorStep
  <2>1. ASSUME NEW r \in Runs, AdminCancel(r) PROVE StatusMove
    <3>1. /\ runStatus[r] \in RunStatuses \ {"COMPLETED", "CANCELLED"}
          /\ runStatus' = [runStatus EXCEPT ![r] = "CANCELLED"]
          /\ UNCHANGED <<completions, exports>>
      BY <1>0, <2>1 DEF AdminCancel, AdminCancellable, RunTypeOK
    <3>2. MoveOf(r)
      BY <1>0, <3>1 DEF MoveOf, Open, Terminal, RunTypeOK
    <3> QED BY <3>1, <3>2 DEF StatusMove
  <2>2. CASE ~ \E r \in Runs : AdminCancel(r)
    <3>1. UNCHANGED runVars
      BY <1>4, <2>2 DEF OperatorStep, AdminReopenGate, AdminMarkEscalated, GateSweepRead, GateSweepWrite
    <3> QED BY <3>1 DEF runVars, StatusMove
  <2> QED BY <2>1, <2>2
<1>5. CASE QueueOnly \/ UNCHANGED allVars
  BY <1>5 DEF QueueOnly, allVars, lifeVars, runVars, StatusMove
<1> QED BY <1>1, <1>2, <1>3, <1>4, <1>5 DEF RunNext

\* A run that exists stays in the table.
LEMMA RunsStay ==
  ASSUME StatusMove, NEW r \in Runs, runStatus[r] # "absent"
  PROVE  runStatus'[r] # "absent"
<1>1. CASE UNCHANGED <<runStatus, completions>>
  BY <1>1
<1>2. ASSUME NEW x \in Runs, MoveOf(x) PROVE runStatus'[r] # "absent"
  <2>1. CASE x # r
    BY <1>2, <2>1 DEF MoveOf
  <2>2. CASE x = r /\ OutcomeOf(runStatus'[r]) = OutcomeOf(runStatus[r])
    BY <2>2 DEF OutcomeOf
  <2> QED BY <1>2, <2>1, <2>2 DEF MoveOf
<1> QED BY <1>1, <1>2 DEF StatusMove

\* A gate keeps its run once it is stored; a gate that is opened gets a run
\* that exists.
GatesStay ==
  \A g \in Gates : gateStatus'[g] # "absent" =>
    \/ gateStatus[g] # "absent" /\ gateRun'[g] = gateRun[g]
    \/ gateRun'[g] \in Runs /\ runStatus'[gateRun'[g]] # "absent"

LEMMA OpenGateStays ==
  ASSUME RunTypeOK, NEW g \in Gates, NEW r \in Runs, NEW name, NEW pause, NEW s,
         s \in [Gates -> {"absent", "ACTIVE", "RESPONDED", "EXPIRED", "CANCELLED"}],
         \A h \in Gates : gateStatus[h] = "absent" => s[h] = "absent",
         OpenGate(s, g, r, name, pause), runStatus'[r] # "absent"
  PROVE  GatesStay
BY DEF OpenGate, GatesStay, RunTypeOK

LEMMA GateSteps == LifeInv /\ RunsExist /\ [RunNext]_allVars => GatesStay
<1> SUFFICES ASSUME LifeInv, RunsExist, [RunNext]_allVars PROVE GatesStay
  OBVIOUS
<1>0. RunTypeOK /\ GateRefs
  BY DEF LifeInv, LifeOK
<1>s. StatusMove
  BY StatusMoves
<1>1. CASE CreateStep
  <2>1. ASSUME NEW r \in Runs, NEW g \in Gates, NEW name, CreateGated(r, g, name) PROVE GatesStay
    <3>1. OpenGate(gateStatus, g, r, name, 0) /\ runStatus'[r] # "absent"
      BY <1>0, <2>1 DEF CreateGated, CreateGatedRow, RunTypeOK
    <3> QED BY <1>0, <3>1, OpenGateStays DEF RunTypeOK
  <2>2. CASE UNCHANGED gateVars
    BY <2>2 DEF gateVars, GatesStay
  <2> QED BY <1>1, <2>1, <2>2 DEF CreateStep, CreateReady, CreateDuplicate
<1>2. CASE TeacherStep
  <2>1. ASSUME NEW q \in Requests, NEW g \in Gates, NEW h \in Gates, ResumeSearchGate(q, g, h)
        PROVE  GatesStay
    <3>1. /\ reqGate[q] = g
          /\ \E c \in {"RESPONDED", "CANCELLED"} :
               OpenGate([gateStatus EXCEPT ![g] = c], h, gateRun[g], "search", 0)
      BY <2>1 DEF ResumeSearchGate, AnsweredStatus, RespondToGate
    <3>2. gateRun[g] \in Runs /\ gateStatus[g] # "absent"
      BY <1>0, <3>1, LifecycleAssumption DEF GateRefs, NoGate
    <3>3. runStatus'[gateRun[g]] # "absent"
      BY <1>s, <3>2, RunsStay DEF RunsExist
    <3>c. PICK c \in {"RESPONDED", "CANCELLED"} :
            OpenGate([gateStatus EXCEPT ![g] = c], h, gateRun[g], "search", 0)
      BY <3>1
    <3> DEFINE s == [gateStatus EXCEPT ![g] = c]
    <3>4. /\ s \in [Gates -> {"absent", "ACTIVE", "RESPONDED", "EXPIRED", "CANCELLED"}]
          /\ \A k \in Gates : gateStatus[k] = "absent" => s[k] = "absent"
      BY <1>0, <3>2 DEF RunTypeOK
    <3>5. OpenGate(s, h, gateRun[g], "search", 0)
      BY <3>c
    <3> HIDE DEF s
    <3> QED BY <1>0, <3>2, <3>3, <3>4, <3>5, OpenGateStays
  <2>2. ASSUME NEW q \in Requests, NEW g \in Gates, NEW j \in Jobs,
               ResumeStart(q, g, j) \/ ResumeGraph(q, g, j)
        PROVE  GatesStay
    <3>1. /\ reqGate[q] = g
          /\ \E c \in {"RESPONDED", "CANCELLED"} : gateStatus' = [gateStatus EXCEPT ![g] = c]
          /\ gateRun' = gateRun
      BY <2>2 DEF ResumeStart, ResumeGraph, AnswerWithJob, AnsweredStatus, RespondToGate
    <3>2. gateStatus[g] # "absent"
      BY <1>0, <3>1, LifecycleAssumption DEF GateRefs, NoGate
    <3> QED BY <1>0, <3>1, <3>2 DEF GatesStay, RunTypeOK
  <2>3. ASSUME NEW r \in Runs, TeacherCancel(r) PROVE GatesStay
    BY <2>3 DEF TeacherCancel, CancelledGates, GatesStay
  <2>4. CASE UNCHANGED gateVars
    BY <2>4 DEF gateVars, GatesStay
  <2> QED BY <1>2, <2>1, <2>2, <2>3, <2>4 DEF TeacherStep, ResumeRead, ResumeRejected, RequestRevision
<1>3. CASE WorkerStep
  <2>1. ASSUME NEW t \in Tasks, NEW j \in Jobs, NEW g \in Gates, PersistGate(t, j, g) PROVE GatesStay
    <3>1. taskJob[t] = j /\ OpenGate(gateStatus, g, runOf[j], "content", seenPause[t])
      BY <2>1 DEF PersistGate, AtPhase
    <3>2. runOf[j] \in Runs /\ runStatus[runOf[j]] \in RunStatuses
      BY <3>1, ExecutedRun
    <3>3. runStatus'[runOf[j]] # "absent"
      BY <1>s, <3>2, RunsStay DEF RunStatuses
    <3> QED BY <1>0, <3>1, <3>2, <3>3, OpenGateStays DEF RunTypeOK
  <2>2. ASSUME NEW t \in Tasks, NEW j \in Jobs,
               \/ GraphReturns(t, j)
               \/ PersistExport(t, j) \/ PersistRecovery(t, j)
               \/ PersistNothing(t, j) \/ PersistError(t, j)
               \/ StartExecution(t, j) \/ GateConflict(t, j) \/ SkipExport(t, j) \/ WriteExports(t, j)
        PROVE  UNCHANGED <<gateStatus, gateRun>>
    BY <2>2 DEF GraphReturns, PersistExport, PersistRecovery, PersistNothing, PersistError, StartExecution,
                GateConflict, SkipExport, WriteExports, gateVars
  <2>3. ASSUME NEW t \in Tasks, WorkerCrash(t) PROVE UNCHANGED <<gateStatus, gateRun>>
    BY <2>3 DEF WorkerCrash, gateVars
  <2>4. CASE UNCHANGED <<gateStatus, gateRun>>
    BY <2>4 DEF GatesStay
  <2> QED BY <1>3, <2>1, <2>2, <2>3, <2>4 DEF WorkerStep
<1>4. CASE OperatorStep
  <2>1. ASSUME NEW r \in Runs, NEW g \in Gates, AdminReopenGate(r, g) \/ AdminMarkEscalated(r, g)
        PROVE  GatesStay
    BY <1>0, <2>1 DEF AdminReopenGate, AdminMarkEscalated, Latest, GatesStay, RunTypeOK
  <2>2. ASSUME NEW S, GateSweepRead(S) PROVE GatesStay
    BY <2>2 DEF GateSweepRead, GatesStay
  <2>3. CASE GateSweepWrite
    BY <1>0, <2>3 DEF GateSweepWrite, GateRefs, GatesStay
  <2>4. ASSUME NEW r \in Runs, AdminCancel(r) PROVE GatesStay
    BY <2>4 DEF AdminCancel, gateVars, GatesStay
  <2> QED BY <1>4, <2>1, <2>2, <2>3, <2>4 DEF OperatorStep
<1>5. CASE QueueOnly \/ UNCHANGED allVars
  BY <1>5 DEF QueueOnly, allVars, lifeVars, gateVars, GatesStay
<1> QED BY <1>1, <1>2, <1>3, <1>4, <1>5 DEF RunNext

LEMMA RunsExistStep == LifeInv /\ RunsExist /\ [RunNext]_allVars => RunsExist'
<1> SUFFICES ASSUME LifeInv, RunsExist, [RunNext]_allVars PROVE RunsExist'
  OBVIOUS
<1>1. StatusMove /\ GatesStay
  BY StatusMoves, GateSteps
<1>2. TypeOK /\ QueueRefs /\ RunTypeOK /\ GateRefs
  BY DEF LifeInv, LifeOK
<1>3. ASSUME NEW g \in Gates, gateStatus'[g] # "absent" PROVE runStatus'[gateRun'[g]] # "absent"
  <2>1. CASE gateStatus[g] # "absent" /\ gateRun'[g] = gateRun[g]
    BY <1>1, <1>2, <2>1, RunsStay DEF RunsExist, GateRefs
  <2> QED BY <1>1, <1>3, <2>1 DEF GatesStay
<1>4. ASSUME NEW k \in Jobs, jobStatus'[k] # "absent" PROVE runStatus'[runOf'[k]] # "absent"
  <2>1. CASE jobStatus[k] # "absent" /\ runOf'[k] = runOf[k]
    BY <1>1, <1>2, <2>1, RunsStay DEF RunsExist, QueueRefs
  <2>2. CASE NotInserting
    BY <1>2, <1>4, <2>1, <2>2, RowsStay
  <2>3. ASSUME NEW j \in Jobs, NEW r \in Runs, Inserts(j, r), RunKnown(r)
        PROVE  runStatus'[runOf'[k]] # "absent"
    <3>1. /\ runOf'[j] = r
          /\ \A i \in Jobs \ {j} : jobStatus'[i] = jobStatus[i] /\ runOf'[i] = runOf[i]
      BY <1>2, <2>3, InsertOne DEF Inserts
    <3>2. runStatus'[r] # "absent"
      BY <1>1, <2>3, RunsStay DEF RunKnown, RunsExist
    <3> QED BY <1>4, <2>1, <3>1, <3>2
  <2> QED BY <1>2, <2>2, <2>3, QueueStepKind DEF InsertingStep
<1> QED BY <1>3, <1>4 DEF RunsExist

-----------------------------------------------------------------------------
(* Completion and the promise.                                             *)

PromiseInv == LifeInv /\ RunsExist /\ CompletionRecorded

LEMMA PromiseInvInit == RunInit => PromiseInv
<1> SUFFICES ASSUME RunInit PROVE PromiseInv
  OBVIOUS
<1>1. LifeInv
  BY LifeInvInit
<1>2. RunsExist
  BY DEF RunInit, QueueInit, LifeInit, RunsExist
<1>3. CompletionRecorded
  BY DEF RunInit, LifeInit, CompletionRecorded
<1> QED BY <1>1, <1>2, <1>3 DEF PromiseInv

LEMMA PromiseInvStep == PromiseInv /\ [RunNext]_allVars => PromiseInv'
<1> SUFFICES ASSUME PromiseInv, [RunNext]_allVars PROVE PromiseInv'
  OBVIOUS
<1>1. LifeInv' /\ RunsExist' /\ StatusMove
  BY LifeInvStep, RunsExistStep, StatusMoves DEF PromiseInv
<1>2. ASSUME NEW r \in Runs
      PROVE  /\ completions'[r] = IF runStatus'[r] = "COMPLETED" THEN 1 ELSE 0
             /\ runStatus'[r] = "COMPLETED" => exports'[r] = "recorded"
  <2>1. /\ completions[r] = IF runStatus[r] = "COMPLETED" THEN 1 ELSE 0
        /\ runStatus[r] = "COMPLETED" => exports[r] = "recorded"
    BY DEF PromiseInv, CompletionRecorded
  <2>2. exports[r] = "recorded" => exports'[r] = "recorded"
    BY <1>1 DEF StatusMove
  <2>3. CASE runStatus'[r] = runStatus[r] /\ completions'[r] = completions[r]
    BY <2>1, <2>2, <2>3
  <2>4. CASE MoveOf(r)
    <3>1. CASE OutcomeOf(runStatus'[r]) = OutcomeOf(runStatus[r]) /\ completions'[r] = completions[r]
      <4>1. runStatus'[r] = "COMPLETED" <=> runStatus[r] = "COMPLETED"
        BY <3>1 DEF OutcomeOf
      <4> QED BY <2>1, <2>2, <3>1, <4>1
    <3> QED BY <2>1, <2>4, <3>1 DEF MoveOf, Open, Terminal
  <2> QED BY <1>1, <2>3, <2>4 DEF StatusMove, MoveOf
<1>3. CompletionRecorded'
  BY <1>2 DEF CompletionRecorded
<1> QED BY <1>1, <1>3 DEF PromiseInv

LEMMA PromiseInvAlways == RunSpec => []PromiseInv
BY PromiseInvInit, PromiseInvStep, PTL DEF RunSpec

\* A run is COMPLETED exactly when its one completion was announced, with the
\* export records committed: for any number of workers, faults and recoveries.
THEOREM CompletionsAreRecorded == RunSpec => []CompletionRecorded
<1>1. PromiseInv => CompletionRecorded
  BY DEF PromiseInv
<1> QED BY <1>1, PromiseInvAlways, PTL

\* What a run has come to, by status.
LEMMA OutcomeTable ==
  /\ OutcomeOf("absent") = "none"
  /\ OutcomeOf("COMPLETED") = "completed"
  /\ OutcomeOf("FAILED") = "failed"
  /\ OutcomeOf("CANCELLED") = "cancelled"
  /\ \A s : Open(s) => OutcomeOf(s) = "open"
<1>1. ASSUME NEW s, Open(s) PROVE OutcomeOf(s) = "open"
  BY <1>1 DEF Open, OutcomeOf, Terminal, RunStatuses
<1> QED BY <1>1 DEF OutcomeOf

\* The map from the tables to the promise.
Outcome == [r \in Runs |-> OutcomeOf(runStatus[r])]

\* A function on Runs changed at one run.
LEMMA OutcomeAt ==
  ASSUME NEW r \in Runs, \A x \in Runs \ {r} : runStatus'[x] = runStatus[x]
  PROVE  Outcome' = [Outcome EXCEPT ![r] = OutcomeOf(runStatus'[r])]
BY DEF Outcome

\* The move of a run is an action of the promise or changes nothing in it.
LEMMA MovePromise ==
  ASSUME LifeInv, LifeInv', NEW r \in Runs, MoveOf(r)
  PROVE  \/ Promise!Accept(r) \/ Promise!Complete(r) \/ Promise!Fail(r) \/ Promise!Cancel(r)
         \/ (Outcome' = Outcome /\ completions' = completions)
<1>1. Outcome' = [Outcome EXCEPT ![r] = OutcomeOf(runStatus'[r])]
  BY OutcomeAt DEF MoveOf
<1>2. completions' = [completions EXCEPT ![r] = completions'[r]]
  BY DEF MoveOf, LifeInv, LifeOK, RunTypeOK
<1>3. Outcome[r] = OutcomeOf(runStatus[r])
  BY DEF Outcome
<1>4. completions'[r] = completions[r] => completions' = completions
  BY <1>2 DEF LifeInv, LifeOK, RunTypeOK
<1>5. CASE OutcomeOf(runStatus'[r]) = OutcomeOf(runStatus[r]) /\ completions'[r] = completions[r]
  <2>1. Outcome' = Outcome
    BY <1>1, <1>3, <1>5 DEF Outcome
  <2> QED BY <1>4, <1>5, <2>1
<1>6. CASE runStatus[r] = "absent" /\ Open(runStatus'[r]) /\ completions'[r] = completions[r]
  <2>1. Outcome[r] = "none" /\ Outcome' = [Outcome EXCEPT ![r] = "open"]
    BY <1>1, <1>3, <1>6, OutcomeTable
  <2> QED BY <1>4, <1>6, <2>1 DEF Promise!Accept, Outcome
<1>7. CASE Open(runStatus[r]) /\ runStatus'[r] = "FAILED" /\ completions'[r] = completions[r]
  <2>1. Outcome[r] = "open" /\ Outcome' = [Outcome EXCEPT ![r] = "failed"]
    BY <1>1, <1>3, <1>7, OutcomeTable
  <2> QED BY <1>4, <1>7, <2>1 DEF Promise!Fail, Outcome
<1>8. CASE /\ (Open(runStatus[r]) \/ runStatus[r] = "FAILED")
           /\ runStatus'[r] = "CANCELLED" /\ completions'[r] = completions[r]
  <2>1. Outcome[r] \in {"open", "failed"} /\ Outcome' = [Outcome EXCEPT ![r] = "cancelled"]
    BY <1>1, <1>3, <1>8, OutcomeTable
  <2> QED BY <1>4, <1>8, <2>1 DEF Promise!Cancel, Outcome
<1>9. CASE /\ Open(runStatus[r]) /\ runStatus'[r] = "COMPLETED"
           /\ completions'[r] = completions[r] + 1
  <2>1. Outcome[r] = "open" /\ Outcome' = [Outcome EXCEPT ![r] = "completed"]
    BY <1>1, <1>3, <1>9, OutcomeTable
  <2>2. completions' = [completions EXCEPT ![r] = @ + 1]
    BY <1>2, <1>9
  <2> QED BY <2>1, <2>2 DEF Promise!Complete, Outcome
<1> QED BY <1>5, <1>6, <1>7, <1>8, <1>9 DEF MoveOf

\* The gateway implements RunPromise: a completed or cancelled run never moves
\* again, a failed one is only ever cancelled and completion is announced once.
THEOREM PromiseIsKept == RunSpec => PromiseKept
<1>1. RunInit => Promise!PromiseInit
  <2> SUFFICES ASSUME RunInit PROVE Promise!PromiseInit
    OBVIOUS
  <2>1. \A r \in Runs : OutcomeOf(runStatus[r]) = "none"
    BY OutcomeTable DEF RunInit, LifeInit
  <2>2. [r \in Runs |-> OutcomeOf(runStatus[r])] = [r \in Runs |-> "none"]
    BY <2>1
  <2>3. completions = [r \in Runs |-> 0]
    BY DEF RunInit, LifeInit
  <2> QED BY <2>2, <2>3 DEF Promise!PromiseInit
<1>2. PromiseInv /\ PromiseInv' /\ [RunNext]_allVars
        => [Promise!PromiseNext]_<<[r \in Runs |-> OutcomeOf(runStatus[r])], completions>>
  <2> SUFFICES ASSUME PromiseInv, PromiseInv', [RunNext]_allVars
               PROVE  Promise!PromiseNext \/ (Outcome' = Outcome /\ completions' = completions)
    BY DEF Outcome
  <2>1. StatusMove /\ LifeInv /\ LifeInv'
    BY StatusMoves DEF PromiseInv
  <2>2. CASE UNCHANGED <<runStatus, completions>>
    BY <2>2 DEF Outcome
  <2>3. ASSUME NEW r \in Runs, MoveOf(r)
        PROVE  Promise!PromiseNext \/ (Outcome' = Outcome /\ completions' = completions)
    BY <2>1, <2>3, MovePromise DEF Promise!PromiseNext
  <2> QED BY <2>1, <2>2, <2>3 DEF StatusMove
<1> QED BY <1>1, <1>2, PromiseInvAlways, PTL DEF RunSpec, PromiseKept, Promise!PromiseSpec

-----------------------------------------------------------------------------
(* Answers.                                                                *)

\* A job that delivers an answer belongs to a gate whose answer is stored: so
\* the unique constraint on gate_responses keeps a second job away.
AnswersStored == \A j \in Jobs : jobGate[j] # NoGate => jobGate[j] \in answered

AnswerInv == AnswersStored /\ OneJobPerAnswer

\* Only an answer touches jobGate and answered.
LEMMA AnswerSteps ==
  ASSUME LifeInv, [RunNext]_allVars
  PROVE  \/ jobGate' = jobGate /\ answered \subseteq answered'
         \/ \E g \in Gates \ answered, j \in Jobs :
              jobGate' = [jobGate EXCEPT ![j] = g] /\ answered' = answered \cup {g}
<1> DEFINE Goal == \/ jobGate' = jobGate /\ answered \subseteq answered'
                   \/ \E g \in Gates \ answered, j \in Jobs :
                        jobGate' = [jobGate EXCEPT ![j] = g] /\ answered' = answered \cup {g}
<1>1. ASSUME NEW q \in Requests, NEW g \in Gates, NEW j \in Jobs,
             ResumeStart(q, g, j) \/ ResumeGraph(q, g, j)
      PROVE  Goal
  BY <1>1 DEF ResumeStart, ResumeGraph, AnswerWithJob, RespondToGate
<1>2. ASSUME NEW q \in Requests, NEW g \in Gates, NEW h \in Gates, ResumeSearchGate(q, g, h)
      PROVE  Goal
  BY <1>2 DEF ResumeSearchGate, RespondToGate, workVars
<1>3. ASSUME UNCHANGED <<jobGate, answered>> PROVE Goal
  BY <1>3
<1>4. ASSUME CreateStep PROVE UNCHANGED <<jobGate, answered>>
  BY <1>4 DEF CreateStep, CreateReady, CreateDuplicate, CreateGated, CreateGatedRow, gateVars, workVars
<1>5. ASSUME WorkerStep PROVE UNCHANGED <<jobGate, answered>>
  <2>1. ASSUME NEW t, NEW j, NEW g, PersistGate(t, j, g) PROVE UNCHANGED <<jobGate, answered>>
    BY <2>1 DEF PersistGate, Committed, workVars
  <2>2. ASSUME NEW t, NEW j, GraphReturns(t, j) PROVE UNCHANGED <<jobGate, answered>>
    BY <2>2 DEF GraphReturns, workVars
  <2>3. ASSUME NEW t, NEW j, StartExecution(t, j) \/ WriteExports(t, j)
        PROVE  UNCHANGED <<jobGate, answered>>
    BY <2>3 DEF StartExecution, WriteExports, gateVars, workVars
  <2>4. ASSUME NEW t, NEW j,
               \/ GateConflict(t, j) \/ SkipExport(t, j) \/ PersistExport(t, j)
               \/ PersistRecovery(t, j) \/ PersistNothing(t, j) \/ PersistError(t, j) \/ WorkerCrash(t)
        PROVE  UNCHANGED <<jobGate, answered>>
    BY <2>4 DEF GateConflict, SkipExport, PersistExport, PersistRecovery, PersistNothing, PersistError,
                WorkerCrash, Committed, gateVars, workVars
  <2> QED BY <1>5, <2>1, <2>2, <2>3, <2>4 DEF WorkerStep
<1>6. ASSUME OperatorStep PROVE UNCHANGED <<jobGate, answered>>
  BY <1>6 DEF OperatorStep, AdminCancel, AdminReopenGate, AdminMarkEscalated, GateSweepRead,
              GateSweepWrite, gateVars, workVars
<1>7. ASSUME QueueOnly \/ UNCHANGED allVars PROVE UNCHANGED <<jobGate, answered>>
  BY <1>7 DEF QueueOnly, allVars, lifeVars, gateVars, workVars
<1>8. ASSUME NEW q \in Requests, NEW g \in Gates, ResumeRead(q, g) PROVE UNCHANGED <<jobGate, answered>>
  BY <1>8 DEF ResumeRead, gateVars, workVars
<1>9. ASSUME NEW q \in Requests, ResumeRejected(q) PROVE UNCHANGED <<jobGate, answered>>
  BY <1>9 DEF ResumeRejected, gateVars, workVars
<1>10. ASSUME NEW r \in Runs, TeacherCancel(r) PROVE UNCHANGED <<jobGate, answered>>
  BY <1>10 DEF TeacherCancel, workVars
<1>11. ASSUME NEW r \in Runs, NEW j \in Jobs, RequestRevision(r, j) PROVE UNCHANGED <<jobGate, answered>>
  BY <1>11 DEF RequestRevision, gateVars
<1> HIDE DEF Goal
<1>12. ASSUME TeacherStep PROVE Goal
  BY <1>12, <1>1, <1>2, <1>3, <1>8, <1>9, <1>10, <1>11 DEF TeacherStep
<1>13. Goal
  BY <1>3, <1>4, <1>5, <1>6, <1>7, <1>12 DEF RunNext
<1> QED BY <1>13 DEF Goal

LEMMA AnswerStep == LifeInv /\ AnswerInv /\ [RunNext]_allVars => AnswerInv'
<1> SUFFICES ASSUME LifeInv, AnswerInv, [RunNext]_allVars PROVE AnswerInv'
  OBVIOUS
<1>1. CASE jobGate' = jobGate /\ answered \subseteq answered'
  BY <1>1 DEF AnswerInv, AnswersStored, OneJobPerAnswer
<1>2. ASSUME NEW g \in Gates \ answered, NEW j \in Jobs,
             jobGate' = [jobGate EXCEPT ![j] = g], answered' = answered \cup {g}
      PROVE  AnswerInv'
  <2>1. jobGate'[j] = g /\ \A k \in Jobs \ {j} : jobGate'[k] = jobGate[k]
    BY <1>2 DEF LifeInv, LifeOK, RunTypeOK
  <2>2. \A k \in Jobs \ {j} : jobGate[k] # g
    BY <1>2, LifecycleAssumption DEF AnswerInv, AnswersStored, NoGate
  <2>3. AnswersStored'
    BY <1>2, <2>1 DEF AnswerInv, AnswersStored
  <2>4. OneJobPerAnswer'
    BY <2>1, <2>2 DEF AnswerInv, OneJobPerAnswer
  <2> QED BY <2>3, <2>4 DEF AnswerInv
<1> QED BY <1>1, <1>2, AnswerSteps

\* A teacher's answer is queued for the graph at most once, for any number of
\* concurrent requests.
THEOREM AnswersAreQueuedOnce == RunSpec => []OneJobPerAnswer
<1>1. RunInit => AnswerInv
  BY DEF RunInit, LifeInit, AnswerInv, AnswersStored, OneJobPerAnswer
<1>2. AnswerInv => OneJobPerAnswer
  BY DEF AnswerInv
<1> QED BY <1>1, <1>2, AnswerStep, LifeInvAlways, PTL DEF RunSpec

-----------------------------------------------------------------------------
(* No run without a handle.                                                *)

HandleStatuses == LiveJob \cup {"DEAD_LETTER"}
OpenGates == {"ACTIVE", "EXPIRED"}

Handled(r) ==
  \/ \E j \in Jobs : runOf[j] = r /\ jobStatus[j] \in HandleStatuses
  \/ \E g \in Gates : gateRun[g] = r /\ gateStatus[g] \in OpenGates

\* The run ever got a job or a gate.
Referred(r) == (\E j \in Jobs : runOf[j] = r) \/ (\E g \in Gates : gateRun[g] = r)

\* A row that has not been inserted belongs to no run.
Blank ==
  /\ \A j \in Jobs : jobStatus[j] = "absent" => runOf[j] = NoRun
  /\ \A g \in Gates : gateStatus[g] = "absent" => gateRun[g] = NoRun

\* A step that adds no row to run r and settles none of its handles.
JobsKept(r) ==
  \A k \in Jobs :
    /\ runOf'[k] = r => runOf[k] = r
    /\ runOf[k] = r /\ jobStatus[k] \in HandleStatuses
         => runOf'[k] = r /\ jobStatus'[k] \in HandleStatuses

GatesKept(r) ==
  \A g \in Gates :
    /\ gateRun'[g] = r => gateRun[g] = r
    /\ gateRun[g] = r /\ gateStatus[g] \in OpenGates
         => gateRun'[g] = r /\ gateStatus'[g] \in OpenGates

\* A run whose handle NoStrandedRun promises.
Promised(r) == Working(r) /\ runStatus[r] # "PLANNING"

\* What has to be shown of a step and a run.
Carried(r) ==
  Promised(r)' /\ Referred(r)' /\ (Referred(r) => Handled(r)) => Handled(r)'

LEMMA KeptCarried == ASSUME NEW r, JobsKept(r), GatesKept(r) PROVE Carried(r)
BY DEF JobsKept, GatesKept, Carried, Referred, Handled

\* The steps of the queue, by the runs whose handles they keep.
LEMMA InsertKeepsOthers ==
  ASSUME TypeOK, NEW j \in Jobs, NEW x \in Runs, Inserts(j, x), NEW r \in Runs \ {x}
  PROVE  JobsKept(r)
<1>1. /\ jobStatus[j] = "absent" /\ runOf'[j] = x
      /\ \A k \in Jobs \ {j} : jobStatus'[k] = jobStatus[k] /\ runOf'[k] = runOf[k]
  BY InsertOne DEF Inserts
<1> QED BY <1>1 DEF JobsKept, HandleStatuses, LiveJob

LEMMA FinishKeeps ==
  ASSUME TypeOK, NEW t \in Tasks, NEW j \in Jobs, TaskDone(t, j), NEW s, ReleaseIfRunning(j, s),
         NEW r, s \in HandleStatuses \/ runOf[j] # r
  PROVE  JobsKept(r)
BY DEF TypeOK, TaskDone, ReleaseIfRunning, Release, JobsKept

LEMMA FinishTransientKeeps ==
  ASSUME TypeOK, NEW t \in Tasks, NEW j \in Jobs, NEW r,
         FinishTransient(t, j) \/ FinishPermanent(t, j)
  PROVE  JobsKept(r)
<1>1. TaskDone(t, j) /\ (ReleaseIfRunning(j, "QUEUED") \/ ReleaseIfRunning(j, "DEAD_LETTER"))
  BY DEF FinishTransient, FinishPermanent, requeue_with_backoff, mark_dead_letter
<1> QED BY <1>1, FinishKeeps DEF HandleStatuses, LiveJob

LEMMA FinishOkKeepsOthers ==
  ASSUME TypeOK, NEW t \in Tasks, NEW j \in Jobs, FinishOk(t, j), NEW r, runOf[j] # r
  PROVE  JobsKept(r)
<1>1. TaskDone(t, j) /\ ReleaseIfRunning(j, "COMPLETED")
  BY DEF FinishOk, mark_completed
<1> QED BY <1>1, FinishKeeps

LEMMA TaskKeeps ==
  ASSUME TypeOK, NEW t \in Tasks, NEW r,
         (\E j \in Jobs : ClaimNext(t, j)) \/ Heartbeat(t) \/ Crash(t)
  PROVE  JobsKept(r)
<1> USE DEF TypeOK, JobsKept, HandleStatuses, LiveJob
<1>1. ASSUME NEW j \in Jobs, ClaimNext(t, j) PROVE JobsKept(r)
  BY <1>1 DEF ClaimNext
<1>2. CASE Heartbeat(t)
  BY <1>2 DEF Heartbeat
<1>3. CASE Crash(t)
  BY <1>3 DEF Crash, rowVars
<1> QED BY <1>1, <1>2, <1>3

LEMMA RecoveryKeeps ==
  ASSUME TypeOK, ClockStep \/ RecoveryStep \/ UNCHANGED vars, NEW r
  PROVE  JobsKept(r)
<1> USE DEF TypeOK, JobsKept, HandleStatuses, LiveJob
<1>1. CASE ClockStep \/ UNCHANGED vars
  BY <1>1 DEF ClockStep, LeaseExpires, HeartbeatStalls, Lapse, BackoffElapses, vars, rowVars
<1>2. CASE SweepRead
  BY <1>2 DEF SweepRead, rowVars
<1>3. CASE SweepWrite
  BY <1>3 DEF SweepWrite, SweptStatus
<1>4. ASSUME NEW j \in Jobs, PromoteEligible(j) \/ ReplayDeadLetter(j) PROVE JobsKept(r)
  BY <1>4 DEF PromoteEligible, ReplayDeadLetter
<1>5. ASSUME NEW x \in Runs, NEW j \in Jobs, AdminRetryStuck(x, j) PROVE JobsKept(r)
  BY <1>5 DEF AdminRetryStuck, Release
<1> QED BY <1>1, <1>2, <1>3, <1>4, <1>5 DEF RecoveryStep

LEMMA CancelKeepsOthers ==
  ASSUME TypeOK, NEW x \in Runs, CancelRunJobs(x), NEW r \in Runs \ {x}
  PROVE  JobsKept(r)
BY DEF TypeOK, JobsKept, CancelRunJobs, Release

\* Opening a gate keeps the gates of other runs and gives its run a handle.
LEMMA OpenGateKeeps ==
  ASSUME RunTypeOK, NEW g \in Gates, NEW x \in Runs, NEW name, NEW pause, NEW s,
         s \in [Gates -> {"absent", "ACTIVE", "RESPONDED", "EXPIRED", "CANCELLED"}],
         \A h \in Gates : gateRun[h] # x => s[h] = gateStatus[h],
         OpenGate(s, g, x, name, pause)
  PROVE  Handled(x)' /\ \A r \in Runs \ {x} : GatesKept(r)
BY DEF RunTypeOK, OpenGate, NextGate, GatesKept, Handled, OpenGates

LEMMA EnqueueHandles ==
  ASSUME TypeOK, NEW j \in Jobs, NEW x \in Runs, NEW d \in BOOLEAN, Enqueue(j, x, d)
  PROVE  Handled(x)'
BY DEF TypeOK, Enqueue, Handled, HandleStatuses, LiveJob

\* Creation, the routes, the workers and the operators leave no run that is
\* still working without a handle.
LEMMA CreateCarries ==
  ASSUME LifeInv, CreateStep, NEW r \in Runs
  PROVE  Carried(r)
<1>0. TypeOK /\ RunTypeOK
  BY DEF LifeInv, LifeOK
<1>1. ASSUME NEW x \in Runs, NEW j \in Jobs, NEW d \in BOOLEAN, CreateReady(x, j, d) PROVE Carried(r)
  <2>1. Enqueue(j, x, d) /\ UNCHANGED gateVars
    BY <1>1 DEF CreateReady
  <2>2. CASE x = r
    BY <1>0, <2>1, <2>2, EnqueueHandles DEF Carried
  <2>3. CASE x # r
    <3>1. JobsKept(r)
      BY <1>0, <2>1, <2>3, InsertKeepsOthers DEF Inserts
    <3>2. GatesKept(r)
      BY <2>1 DEF gateVars, GatesKept
    <3> QED BY <3>1, <3>2, KeptCarried
  <2> QED BY <2>2, <2>3
<1>2. ASSUME NEW x \in Runs, CreateDuplicate(x) PROVE Carried(r)
  <2>1. UNCHANGED vars /\ UNCHANGED gateVars
    BY <1>2 DEF CreateDuplicate
  <2>2. JobsKept(r) /\ GatesKept(r)
    BY <1>0, <2>1, RecoveryKeeps DEF gateVars, GatesKept
  <2> QED BY <2>2, KeptCarried
<1>3. ASSUME NEW x \in Runs, NEW g \in Gates, NEW name, CreateGated(x, g, name) PROVE Carried(r)
  <2>1. OpenGate(gateStatus, g, x, name, 0)
    BY <1>3 DEF CreateGated, CreateGatedRow
  <2>2. Handled(x)' /\ \A y \in Runs \ {x} : GatesKept(y)
    BY <1>0, <2>1, OpenGateKeeps DEF RunTypeOK
  <2>3. UNCHANGED vars \/ \E j \in Jobs : EnqueuePlaceholder(j, x)
    BY <1>3 DEF CreateGated
  <2>4. x # r => JobsKept(r)
    BY <1>0, <2>3, InsertKeepsOthers, RecoveryKeeps DEF Inserts
  <2> QED BY <2>2, <2>4, KeptCarried DEF Carried
<1> QED BY <1>1, <1>2, <1>3 DEF CreateStep

LEMMA AnswerCarries ==
  ASSUME LifeInv, NEW q \in Requests, NEW g \in Gates, NEW r \in Runs,
         \/ \E j \in Jobs : ResumeStart(q, g, j) \/ ResumeGraph(q, g, j)
         \/ \E h \in Gates : ResumeSearchGate(q, g, h)
  PROVE  Carried(r)
<1>0. TypeOK /\ RunTypeOK /\ GateRefs
  BY DEF LifeInv, LifeOK
<1>1. reqGate[q] = g
  BY DEF ResumeStart, ResumeGraph, ResumeSearchGate, AnswerWithJob, RespondToGate
<1>2. gateRun[g] \in Runs
  BY <1>0, <1>1, AnsweredGateRun
<1>3. ASSUME NEW j \in Jobs, ResumeStart(q, g, j) \/ ResumeGraph(q, g, j) PROVE Carried(r)
  <2>1. /\ Enqueue(j, gateRun[g], FALSE)
        /\ \E s : gateStatus' = [gateStatus EXCEPT ![g] = s]
        /\ gateRun' = gateRun
    BY <1>3 DEF ResumeStart, ResumeGraph, AnswerWithJob
  <2>2. Handled(gateRun[g])'
    BY <1>0, <1>2, <2>1, EnqueueHandles
  <2>3. CASE gateRun[g] # r
    <3>1. JobsKept(r)
      BY <1>0, <1>2, <2>1, <2>3, InsertKeepsOthers DEF Inserts
    <3>2. GatesKept(r)
      BY <1>0, <2>1, <2>3 DEF GatesKept, RunTypeOK
    <3> QED BY <3>1, <3>2, KeptCarried
  <2> QED BY <2>1, <2>2, <2>3 DEF Carried
<1>4. ASSUME NEW h \in Gates, ResumeSearchGate(q, g, h) PROVE Carried(r)
  <2>1. PICK c \in {"RESPONDED", "CANCELLED"} :
          OpenGate([gateStatus EXCEPT ![g] = c], h, gateRun[g], "search", 0)
    BY <1>4 DEF ResumeSearchGate, AnsweredStatus
  <2>2. UNCHANGED vars
    BY <1>4 DEF ResumeSearchGate
  <2> DEFINE s == [gateStatus EXCEPT ![g] = c]
  <2>3. /\ s \in [Gates -> {"absent", "ACTIVE", "RESPONDED", "EXPIRED", "CANCELLED"}]
        /\ \A k \in Gates : gateRun[k] # gateRun[g] => s[k] = gateStatus[k]
    BY <1>0 DEF RunTypeOK
  <2>4. OpenGate(s, h, gateRun[g], "search", 0)
    BY <2>1
  <2> HIDE DEF s
  <2>5. PICK x \in Runs : x = gateRun[g]
    BY <1>2
  <2>6. Handled(x)' /\ \A y \in Runs \ {x} : GatesKept(y)
    BY <1>0, <2>3, <2>4, <2>5, OpenGateKeeps
  <2>7. JobsKept(r)
    BY <1>0, <2>2, RecoveryKeeps
  <2>8. CASE x = r
    BY <2>6, <2>8 DEF Carried
  <2> QED BY <2>6, <2>7, <2>8, KeptCarried
<1> QED BY <1>3, <1>4

LEMMA TeacherCarries ==
  ASSUME LifeInv, TeacherStep, NEW r \in Runs
  PROVE  Carried(r)
<1>0. TypeOK /\ RunTypeOK
  BY DEF LifeInv, LifeOK
<1>1. CASE UNCHANGED vars /\ UNCHANGED gateVars
  <2>1. JobsKept(r) /\ GatesKept(r)
    BY <1>0, <1>1, RecoveryKeeps DEF gateVars, GatesKept
  <2> QED BY <2>1, KeptCarried
<1>2. ASSUME NEW x \in Runs, TeacherCancel(x) PROVE Carried(r)
  <2>1. /\ CancelRunJobs(x)
        /\ gateStatus' = [g \in Gates |-> IF g \in CancelledGates(x) THEN "CANCELLED" ELSE gateStatus[g]]
        /\ runStatus' = [runStatus EXCEPT ![x] = "CANCELLED"]
        /\ gateRun' = gateRun
    BY <1>2 DEF TeacherCancel
  <2>2. CASE x = r
    BY <1>0, <2>1, <2>2 DEF Carried, Promised, Working, Terminal, RunTypeOK
  <2>3. CASE x # r
    <3>1. JobsKept(r)
      BY <1>0, <2>1, <2>3, CancelKeepsOthers
    <3>2. GatesKept(r)
      BY <2>1, <2>3 DEF GatesKept, CancelledGates
    <3> QED BY <3>1, <3>2, KeptCarried
  <2> QED BY <2>2, <2>3
<1>3. ASSUME NEW x \in Runs, NEW j \in Jobs, RequestRevision(x, j) PROVE Carried(r)
  <2>1. Enqueue(j, x, FALSE) /\ UNCHANGED gateVars
    BY <1>3 DEF RequestRevision
  <2>2. Handled(x)'
    BY <1>0, <2>1, EnqueueHandles
  <2>3. CASE x # r
    <3>1. JobsKept(r)
      BY <1>0, <2>1, <2>3, InsertKeepsOthers DEF Inserts
    <3>2. GatesKept(r)
      BY <2>1 DEF gateVars, GatesKept
    <3> QED BY <3>1, <3>2, KeptCarried
  <2> QED BY <2>2, <2>3 DEF Carried
<1> QED BY <1>1, <1>2, <1>3, AnswerCarries DEF TeacherStep, ResumeRead, ResumeRejected

LEMMA WorkerCarries ==
  ASSUME LifeInv, RunsExist, WorkerStep, NEW r \in Runs
  PROVE  Carried(r)
<1>0. TypeOK /\ RunTypeOK
  BY DEF LifeInv, LifeOK
<1>g. UNCHANGED gateVars => GatesKept(r)
  BY DEF gateVars, GatesKept
<1>1. ASSUME NEW t \in Tasks, NEW j \in Jobs,
             \/ StartExecution(t, j) \/ GraphReturns(t, j) \/ GateConflict(t, j)
             \/ WriteExports(t, j) \/ PersistError(t, j)
      PROVE  Carried(r)
  <2>1. /\ \/ ClaimNext(t, j) \/ Crash(t) \/ UNCHANGED vars
           \/ FinishTransient(t, j) \/ FinishPermanent(t, j)
        /\ UNCHANGED <<gateRun, gateStatus>>
    BY <1>1 DEF StartExecution, GraphReturns, GateConflict, WriteExports, PersistError,
                gateVars
  <2>2. JobsKept(r)
    BY <1>0, <2>1, TaskKeeps, RecoveryKeeps, FinishTransientKeeps
  <2>3. GatesKept(r)
    BY <2>1 DEF GatesKept
  <2> QED BY <2>2, <2>3, KeptCarried
<1>2. ASSUME NEW t \in Tasks, NEW j \in Jobs, NEW g \in Gates, PersistGate(t, j, g)
      PROVE  Carried(r)
  <2>1. PICK x \in Runs : x = runOf[j]
    BY <1>2, ExecutedRun DEF PersistGate, AtPhase
  <2>2. /\ OpenGate(gateStatus, g, x, "content", seenPause[t])
        /\ FinishOk(t, j) \/ FinishPermanent(t, j)
    BY <1>2, <2>1 DEF PersistGate
  <2>3. Handled(x)' /\ \A y \in Runs \ {x} : GatesKept(y)
    BY <1>0, <2>1, <2>2, OpenGateKeeps DEF RunTypeOK
  <2>4. CASE x # r
    <3>1. JobsKept(r)
      BY <1>0, <2>1, <2>2, <2>4, FinishOkKeepsOthers, FinishTransientKeeps
    <3> QED BY <2>3, <2>4, <3>1, KeptCarried
  <2> QED BY <2>3, <2>4 DEF Carried
<1>3. ASSUME NEW t \in Tasks, NEW j \in Jobs,
             \/ SkipExport(t, j) \/ PersistExport(t, j)
             \/ PersistRecovery(t, j) \/ PersistNothing(t, j)
      PROVE  Carried(r)
  <2> DEFINE ends == {"COMPLETED", "FAILED", "PLANNING"}
  <2>1. UNCHANGED gateVars
    BY <1>3 DEF SkipExport, PersistExport, PersistRecovery, PersistNothing
  <2>2. \/ FinishPermanent(t, j)
        \/ FinishOk(t, j) /\ (runOf[j] \in Runs => runStatus'[runOf[j]] \in ends)
    BY <1>0, <1>3 DEF SkipExport, PersistExport, PersistRecovery, PersistNothing, AfterFailure, RunTypeOK
  <2>3. CASE FinishPermanent(t, j) \/ runOf[j] # r
    <3>1. JobsKept(r)
      BY <1>0, <2>2, <2>3, FinishOkKeepsOthers, FinishTransientKeeps
    <3> QED BY <1>g, <2>1, <3>1, KeptCarried
  <2>4. CASE runOf[j] = r /\ runStatus'[runOf[j]] \in ends
    <3>1. ~Promised(r)'
      BY <2>4 DEF Promised, Working, Terminal
    <3> QED BY <3>1 DEF Carried
  <2> QED BY <2>2, <2>3, <2>4
<1>4. ASSUME NEW t \in Tasks, WorkerCrash(t) PROVE Carried(r)
  BY <1>0, <1>g, <1>4, TaskKeeps, KeptCarried DEF WorkerCrash
<1> QED BY <1>1, <1>2, <1>3, <1>4 DEF WorkerStep

LEMMA OperatorCarries ==
  ASSUME LifeInv, OperatorStep \/ QueueOnly \/ UNCHANGED allVars, NEW r \in Runs
  PROVE  Carried(r)
<1>0. TypeOK /\ RunTypeOK /\ GateRefs
  BY DEF LifeInv, LifeOK
<1>1. CASE QueueOnly \/ UNCHANGED allVars
  <2>1. /\ ClockStep \/ RecoveryStep \/ UNCHANGED vars \/ \E t \in Tasks : Heartbeat(t)
        /\ UNCHANGED gateVars
    BY <1>1 DEF QueueOnly, allVars, lifeVars
  <2>2. JobsKept(r)
    BY <1>0, <2>1, TaskKeeps, RecoveryKeeps
  <2>3. GatesKept(r)
    BY <2>1 DEF gateVars, GatesKept
  <2> QED BY <2>2, <2>3, KeptCarried
<1>2. CASE OperatorStep
  <2>1. UNCHANGED vars
    BY <1>2 DEF OperatorStep, AdminCancel, AdminReopenGate, AdminMarkEscalated, GateSweepRead,
                GateSweepWrite
  <2>2. GatesKept(r)
    <3>1. ASSUME NEW x \in Runs, NEW g \in Gates, AdminReopenGate(x, g) \/ AdminMarkEscalated(x, g)
          PROVE  GatesKept(r)
      BY <1>0, <3>1 DEF AdminReopenGate, AdminMarkEscalated, GatesKept, OpenGates, RunTypeOK
    <3>2. CASE GateSweepWrite
      BY <1>0, <3>2 DEF GateSweepWrite, GatesKept, OpenGates
    <3>3. CASE UNCHANGED <<gateRun, gateStatus>>
      BY <3>3 DEF GatesKept
    <3> QED BY <1>2, <3>1, <3>2, <3>3 DEF OperatorStep, AdminCancel, GateSweepRead, gateVars
  <2> QED BY <1>0, <2>1, <2>2, RecoveryKeeps, KeptCarried
<1> QED BY <1>1, <1>2

\* Gate g was not in the table before the step, and the step says nothing of it.
StillAbsent(g) == gateStatus[g] = "absent" /\ gateRun'[g] = gateRun[g]

\* A gate row is not deleted, and one that is absent is blank until it is opened.
LEMMA AbsentGates ==
  ASSUME LifeInv, [RunNext]_allVars, NEW g \in Gates, gateStatus'[g] = "absent"
  PROVE  StillAbsent(g)
<1>0. RunTypeOK /\ GateRefs
  BY DEF LifeInv, LifeOK
<1> USE DEF StillAbsent
<1>1. ASSUME NEW x, NEW h \in Gates, NEW name, NEW pause, OpenGate(gateStatus, h, x, name, pause)
      PROVE  StillAbsent(g)
  BY <1>0, <1>1 DEF OpenGate, RunTypeOK
<1>2. ASSUME NEW q \in Requests, NEW k \in Gates, NEW h \in Gates, ResumeSearchGate(q, k, h) PROVE StillAbsent(g)
  <2>1. PICK c \in {"RESPONDED", "CANCELLED"} :
          OpenGate([gateStatus EXCEPT ![k] = c], h, gateRun[k], "search", 0)
    BY <1>2 DEF ResumeSearchGate, AnsweredStatus
  <2> QED BY <1>0, <2>1 DEF OpenGate, RunTypeOK
<1>3. ASSUME NEW q \in Requests, NEW k \in Gates, NEW j \in Jobs,
             ResumeStart(q, k, j) \/ ResumeGraph(q, k, j)
      PROVE  StillAbsent(g)
  <2>1. PICK c \in {"RESPONDED", "CANCELLED"} :
          gateStatus' = [gateStatus EXCEPT ![k] = c] /\ gateRun' = gateRun
    BY <1>3 DEF ResumeStart, ResumeGraph, AnswerWithJob, AnsweredStatus
  <2> QED BY <1>0, <2>1 DEF RunTypeOK
<1>4. ASSUME NEW x \in Runs, TeacherCancel(x) PROVE StillAbsent(g)
  BY <1>4 DEF TeacherCancel, CancelledGates
<1>5. ASSUME NEW x \in Runs, NEW h \in Gates, AdminReopenGate(x, h) \/ AdminMarkEscalated(x, h)
      PROVE  StillAbsent(g)
  BY <1>0, <1>5 DEF AdminReopenGate, AdminMarkEscalated, Latest, RunTypeOK
<1>6. CASE GateSweepWrite
  BY <1>6 DEF GateSweepWrite
<1>7. CASE UNCHANGED <<gateStatus, gateRun>> \/ UNCHANGED gateVars
  BY <1>7 DEF gateVars
<1> HIDE DEF StillAbsent
<1>8. CASE CreateStep
  BY <1>1, <1>7, <1>8 DEF CreateStep, CreateReady, CreateDuplicate, CreateGated, CreateGatedRow
<1>9. CASE TeacherStep
  BY <1>2, <1>3, <1>4, <1>7, <1>9 DEF TeacherStep, ResumeRead, ResumeRejected, RequestRevision
<1>10. CASE WorkerStep
  <2>1. ASSUME NEW t, NEW j, NEW h \in Gates, PersistGate(t, j, h) PROVE StillAbsent(g)
    BY <1>1, <2>1 DEF PersistGate
  <2>2. ASSUME NEW t, NEW j,
               \/ GraphReturns(t, j) \/ PersistExport(t, j) \/ PersistRecovery(t, j)
               \/ PersistNothing(t, j) \/ PersistError(t, j) \/ StartExecution(t, j) \/ GateConflict(t, j)
               \/ SkipExport(t, j) \/ WriteExports(t, j) \/ WorkerCrash(t)
        PROVE  StillAbsent(g)
    BY <1>7, <2>2 DEF GraphReturns, PersistExport, PersistRecovery, PersistNothing, PersistError, StartExecution,
                      GateConflict, SkipExport, WriteExports, WorkerCrash
  <2> QED BY <1>10, <2>1, <2>2 DEF WorkerStep
<1>11. CASE OperatorStep
  BY <1>5, <1>6, <1>7, <1>11 DEF OperatorStep, AdminCancel, GateSweepRead
<1>12. CASE QueueOnly \/ UNCHANGED allVars
  BY <1>7, <1>12 DEF QueueOnly, allVars, lifeVars
<1> QED BY <1>8, <1>9, <1>10, <1>11, <1>12 DEF RunNext

\* Absent rows stay blank.
LEMMA BlankStep == LifeInv /\ Blank /\ [RunNext]_allVars => Blank'
<1> SUFFICES ASSUME LifeInv, Blank, [RunNext]_allVars PROVE Blank'
  OBVIOUS
<1>0. TypeOK /\ QueueRefs /\ RunTypeOK /\ GateRefs
  BY DEF LifeInv, LifeOK
<1>1. ASSUME NEW k \in Jobs, jobStatus'[k] = "absent" PROVE runOf'[k] = NoRun
  <2>1. CASE NotInserting
    BY <1>0, <1>1, <2>1, RowsStay DEF Blank
  <2>2. ASSUME NEW j \in Jobs, NEW x \in Runs, Inserts(j, x) PROVE runOf'[k] = NoRun
    <3>1. /\ runOf'[j] = x
          /\ \A i \in Jobs \ {j} : jobStatus'[i] = jobStatus[i] /\ runOf'[i] = runOf[i]
      BY <1>0, <2>2, InsertOne DEF Inserts
    <3>2. jobStatus'[j] # "absent"
      BY <1>0, <2>2 DEF Inserts, Enqueue, EnqueuePlaceholder, TypeOK
    <3> QED BY <1>1, <3>1, <3>2 DEF Blank
  <2> QED BY <1>0, <2>1, <2>2, QueueStepKind DEF InsertingStep
<1>2. ASSUME NEW g \in Gates, gateStatus'[g] = "absent" PROVE gateRun'[g] = NoRun
  <2>1. CASE gateStatus[g] = "absent" /\ gateRun'[g] = gateRun[g]
    BY <2>1 DEF Blank
  <2> QED BY <1>0, <1>2, <2>1, AbsentGates DEF StillAbsent
<1> QED BY <1>1, <1>2 DEF Blank

\* A run that starts to work had no job and no gate before.
LEMMA WorkBegins ==
  ASSUME LifeInv, RunsExist, Blank, StatusMove, NEW r \in Runs, Working(r)', Referred(r)
  PROVE  Working(r)
<1>1. runStatus[r] # "absent"
  BY QueueAssumption DEF RunsExist, Blank, Referred
<1>2. ASSUME NEW x \in Runs, MoveOf(x) PROVE Working(r)
  <2>1. CASE x # r
    BY <1>2, <2>1 DEF MoveOf, Working
  <2>2. CASE x = r /\ OutcomeOf(runStatus'[r]) = OutcomeOf(runStatus[r])
    BY <1>1, <2>2 DEF OutcomeOf, Working, Terminal
  <2> QED BY <1>1, <1>2, <2>1, <2>2 DEF MoveOf, Open, Working, Terminal
<1> QED BY <1>2 DEF StatusMove, Working

\* A run leaves PLANNING for another status of work only when its content gate
\* is opened.
LEMMA PlanningEnds ==
  ASSUME LifeInv, RunsExist, [RunNext]_allVars, NEW r \in Runs,
         runStatus[r] = "PLANNING", Promised(r)'
  PROVE  Handled(r)'
<1>0. RunTypeOK
  BY DEF LifeInv, LifeOK
<1>n. runStatus'[r] \notin {"PLANNING", "FAILED", "CANCELLED", "COMPLETED"}
  BY DEF Promised, Working, Terminal
<1> USE DEF RunTypeOK
<1>1. ~CreateStep
  BY <1>0, <1>n DEF CreateStep, CreateReady, CreateDuplicate, CreateGated, CreateGatedRow
<1>2. ~TeacherStep
  BY <1>0, <1>n DEF TeacherStep, ResumeRead, ResumeStart, ResumeGraph, AnswerWithJob, ResumeSearchGate,
                    ResumeRejected, RequestRevision, TeacherCancel, runVars
<1>3. CASE WorkerStep
  <2>1. ASSUME NEW t \in Tasks, NEW j \in Jobs, NEW g \in Gates, PersistGate(t, j, g)
        PROVE  Handled(r)'
    <3>1. PICK x \in Runs : x = runOf[j]
      BY <2>1, ExecutedRun DEF PersistGate, AtPhase
    <3>2. x = r
      BY <1>0, <1>n, <2>1, <3>1 DEF PersistGate
    <3> QED BY <1>0, <2>1, <3>1, <3>2, OpenGateKeeps DEF PersistGate
  <2>2. ASSUME NEW t, NEW j,
               \/ StartExecution(t, j) \/ GraphReturns(t, j) \/ GateConflict(t, j)
               \/ SkipExport(t, j) \/ WriteExports(t, j) \/ WorkerCrash(t)
        PROVE  FALSE
    BY <1>n, <2>2 DEF StartExecution, GraphReturns, GateConflict, SkipExport, WriteExports, WorkerCrash,
                      runVars
  <2>3. ASSUME NEW t, NEW j,
               \/ PersistExport(t, j) \/ PersistRecovery(t, j)
               \/ PersistNothing(t, j) \/ PersistError(t, j)
        PROVE  FALSE
    BY <1>0, <1>n, <2>3 DEF PersistExport, PersistRecovery, PersistNothing, PersistError, AfterFailure
  <2> QED BY <1>3, <2>1, <2>2, <2>3 DEF WorkerStep
<1>4. ~OperatorStep
  BY <1>0, <1>n DEF OperatorStep, AdminCancel, AdminReopenGate, AdminMarkEscalated, GateSweepRead,
                    GateSweepWrite, runVars
<1>5. ~(QueueOnly \/ UNCHANGED allVars)
  BY <1>n DEF QueueOnly, allVars, lifeVars, runVars
<1> QED BY <1>1, <1>2, <1>3, <1>4, <1>5 DEF RunNext

HandleInv == LifeInv /\ RunsExist /\ Blank /\ NoStrandedRun

LEMMA HandleInit == RunInit => HandleInv
<1> SUFFICES ASSUME RunInit PROVE HandleInv
  OBVIOUS
<1>1. LifeInv
  BY LifeInvInit
<1>2. RunsExist /\ Blank /\ NoStrandedRun
  BY DEF RunInit, QueueInit, LifeInit, RunsExist, Blank, NoStrandedRun, Working
<1> QED BY <1>1, <1>2 DEF HandleInv

LEMMA HandleStep == HandleInv /\ [RunNext]_allVars => HandleInv'
<1> SUFFICES ASSUME HandleInv, [RunNext]_allVars PROVE HandleInv'
  OBVIOUS
<1>1. LifeInv /\ RunsExist /\ Blank /\ StatusMove
  BY StatusMoves DEF HandleInv
<1>2. LifeInv' /\ RunsExist' /\ Blank'
  BY <1>1, LifeInvStep, RunsExistStep, BlankStep
<1>3. ASSUME NEW r \in Runs, Promised(r)', Referred(r)' PROVE Handled(r)'
  <2>1. CASE runStatus[r] = "PLANNING"
    BY <1>1, <1>3, <2>1, PlanningEnds
  <2>2. CASE runStatus[r] # "PLANNING"
    <3>1. Carried(r)
      BY <1>1, CreateCarries, TeacherCarries, WorkerCarries, OperatorCarries DEF RunNext
    <3>2. Working(r)'
      BY <1>3 DEF Promised
    <3>3. Referred(r) => Handled(r)
      BY <1>1, <2>2, <3>2, WorkBegins
      DEF HandleInv, NoStrandedRun, Referred, Handled, HandleStatuses, OpenGates
    <3> QED BY <1>3, <3>1, <3>3 DEF Carried
  <2> QED BY <2>1, <2>2
<1>4. NoStrandedRun'
  BY <1>3 DEF NoStrandedRun, Promised, Referred, Handled, HandleStatuses, OpenGates
<1> QED BY <1>2, <1>4 DEF HandleInv

\* A run that is not over never loses the last row on which somebody can act,
\* whatever workers, requests, sweeps and operators do to its jobs and gates,
\* unless a quality recovery sends it back to PLANNING.
THEOREM NoRunIsStranded == RunSpec => []NoStrandedRun
<1>1. HandleInv => NoStrandedRun
  BY DEF HandleInv
<1> QED BY <1>1, HandleInit, HandleStep, PTL DEF RunSpec

=============================================================================
