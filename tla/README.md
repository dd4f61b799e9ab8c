# Verification of the oh-my-class gateway

oh-my-class turns a teacher's request into a *teaching pack*: a LangGraph
pipeline plans, researches, writes, checks and renders lesson material, stops
for the teacher's decisions at *gates*, and exports the approved result.  The
gateway (`services/gateway`) makes this durable: runs, gates, jobs and events
are rows in Postgres, and worker processes lease jobs from a queue.

This directory holds TLA+ models of that durable core, the TLC configurations
that check them on small instances and TLAPS proofs for every instance.
Correctness here is decided by what happens when several workers, HTTP requests,
sweepers and operators touch the same rows: the part a unit test reaches least.

## 1. Inventory

| Part | State | Operations | Talks to |
|---|---|---|---|
| **Run job queue** `teaching_pack_job_store.py` | `run_jobs`: status, lease owner and expiry, attempts, eligible_at | enqueue, claim_next, refresh_lease, mark_*, requeue, replay, cancel_run_jobs, promote | worker, routes, sweeper, operators |
| **Worker** `teaching_pack_worker.py`, `main.py`, `worker_entrypoint.py` | the claimed job, its heartbeat, an open session | batch claim, execute with heartbeat, classify errors, surface dead letters | queue, executor, outbox |
| **Recovery sweeper** `recovery_sweeper.py` | a snapshot of stuck rows | sweep stuck jobs, expire gates | queue, gates |
| **Operators** `admin_recovery.py`, `routers/ops.py` | – | retry stuck job, cancel run, reopen or escalate gate, replay dead letter | queue, runs, gates |
| **Run status** `teaching_pack_status.py`, `teaching_pack_store.py` | `runs.status` | transition_status against the table | everything that finishes a run |
| **Gates** `teaching_pack_control_store.py`, `research_gate.py` | `gate_interrupts`, `gate_responses` | open, respond, cancel, search-plan gate | routes, completion |
| **Routes** `routers/teaching_pack_runs.py`, `teaching_pack_lifecycle.py`, `run_creation.py` | a request between read and write | create, resume, request revision, cancel | queue, gates, runs |
| **Executor and completion** `teaching_pack_executor.py`, `teaching_pack_completion.py` | progress of one execution | invoke the graph; open a gate, export, fail | graph, exports, runs |
| **Graph** `packages/agents/teaching_pack` | checkpoint of a thread: stages, waves, generations, routes | run to the next interrupt, the end or an error | executor, renderer pool, documents |
| **Healing** `healing_runtime.py`, `packages/agents/healing` | failure count, run breaker in Redis | pick a strategy, trip, escalate | graph |
| **Event ledger, outbox, stream** `teaching_pack_store.py`, `run_event_outbox.py`, `teaching_pack_event_bus.py`, `routers/teaching_pack_stream.py` | numbered events, outbox rows, in-process waiters | write, publish, wait, replay | all writers, browsers |
| **Unit orchestrator** `unit_orchestrator.py`, `routers/unit_runs.py` | a unit's sessions and their runs | decide, spawn, spawn anyway | creation, queue |
| **Teaching session** `teaching_session/`, `routers/teaching_session_live.py` | live events, counters, pinned snapshot, hot state in Redis | advance, branch, respond, republish, stream | browsers |
| **Artifact documents** `artifact_document_*.py`, `artifact_approval_service.py` | versions, approvals, notes | generate, edit, restore, derive, approve | routes, graph |
| **Snapshots and exports** `teaching_pack_snapshot_store.py`, `export_manifest_service.py`, `routers/exports.py` | snapshot versions, export records, files | edit, restore, approve, publish, export | routes, completion, sessions |
| **Renderer pool** `renderer_pool.py`, `packages/renderer` | processes, their pipes and locks | borrow, render, replace | graph, routes |
| **Backpressure** `backpressure.py` | counts of runs and jobs | admit, queue, reject | creation |

The LLM client and budget, rate limits, notifications, outcome delivery,
retention and purge, media, renderers, the exporters and the web application
complete the system; `PROJECT.json` says for each why it is not modelled.

**What is hard.** A lease may expire while its worker still runs.  The finishing
calls do not look at the lease.  The sweeps read without a lock and write by
primary key.  The graph's checkpoint is durable *before* the gateway's own
transaction, so a crash separates them.  Export files are written outside the
transaction.  Two teachers' tabs answer one gate.  A cancellation meets a
completion.  Operators act on rows that are in use.  Events are numbered by
transactions that commit in any order and are announced by processes that do not
hear each other.  Redis, renderer processes and browsers come and go.  Versions are
read, rendered and only then locked and compared.  `PROJECT.json` lists each
hazard at its line together with the properties that would catch it.

**What makes the core correct.**

* Queue: a row has a lease exactly while it runs; one execution per job unless a
  claim was lost; nothing settled is revived; every job is eventually settled.
* Run: completed and cancelled are final; completion is announced once, together
  with the records of its exports; a failed run stays failed or is cancelled.
* Gates: a decision reaches the queue once; an open run never loses the last row
  somebody could act on (a quality recovery breaks this, see section 3).
* Events: a reader sees every committed event once and in order, whichever process
  wrote it and wherever it reconnects.
* Graph: an artifact is made from finished dependencies, judged in whole generations
  and exported only when it is due; an invocation comes to an end.
* Units: one run and one job per session, after its prerequisites, and no session
  forgotten.
* Sessions: one answer counts once; what students see is committed and in order.
* Documents and snapshots: histories are linear and only grow; approvals and
  publications hold what they say.
* Renderer pool: no process without an owner, no page in the wrong hands, and a call
  ends unless its process never reads what is written to it.

## 2. Modules

| Module | Content |
|---|---|
| `JobQueue` | the queue, the tasks that execute jobs, the sweep of stuck jobs, operators |
| `RunPromise` | abstract: what the gateway promises about one run |
| `RunLifecycle` | runs, gates, requests, executor and completion; EXTENDS `JobQueue` and conjoins its actions; refines `RunPromise` |
| `EventFeed` | abstract: a feed every client receives in order and without gaps |
| `EventLog` | ledger, outbox, bus and streams of one run; refines `EventFeed` |
| `TeachingPackGraph` | the stage graph, its fan-out and its healing, between two interrupts |
| `UnitOrchestrator` | sweeps of several gateways over units, and spawn-anyway |
| `TeachingSession` | a live session: log, counters, Redis, streams |
| `ArtifactDocuments` | versions of an artifact and of a derived one, notes, approvals |
| `SnapshotVersions` | versions of a deck, exports, publication |
| `RendererPool` | calls, processes and pipes |
| `MC...` | instances for TLC: worker ids of tasks, plans, symmetry sets |
| `RunLifecycleProofs`, `TeachingPackGraphProofs`, `EventLogProofs`, `TeachingSessionProofs`, `SnapshotVersionsProofs`, `ArtifactDocumentsProofs`, `UnitOrchestratorProofs`, `RendererPoolProofs` | theorems about the module of that name, and their proofs; the first holds those about `JobQueue` too |

How they fit: a job of `JobQueue` executes one invocation of the graph, which
`RunLifecycle` sees as one step and `TeachingPackGraph` takes apart; `EventLog` is the
transaction of such an execution or of a request, seen by its events; the children of
`UnitOrchestrator` are runs of `RunLifecycle` and settle as `RunPromise` says; the
approved head that `TeachingSession` republishes is a version of `SnapshotVersions`.

### JobQueue

The variables `runOf` to `eligible` are the columns of `run_jobs`; a job's number
is its place in `created_at` order.  Wall-clock time is reduced to what the SQL
compares: a lease is `none`, `live` or `expired`, `eligible_at` is `none`, `future`
or `past`.  A *task* is one `_run_claimed_job` coroutine; `WorkerOf` gives the
worker id it leases under, and tasks of one process share it, as in `main.py`.
`taskAttempts` is the attempts value in the `RunJobRead` the claim returned, which
is what the retry ceiling is compared with.  `lost` is a history variable: since
its claim, the task's lease has expired or somebody released its row.

Every action is one transaction, because the statements lock the rows they
change (`FOR UPDATE`), with one exception: `sweep_stuck_jobs` selects without a lock.
It is split in `SweepRead` and `SweepWrite`; the write uses the attempts it
read and ignores what the rows have become.  `claim_next` takes the oldest
claimable row that is not locked; rows an open transaction may hold are passed
over (`MaybeLocked`).  `refresh_lease` accepts an expired lease of the same worker id.
The finishing calls act only on RUNNING rows and never compare the owner.
A crash is the rollback of a task's session.

An `enqueue` whose idempotency key exists returns the stored row: a stuttering
step.  `mark_failed` has no caller, so no row is ever FAILED.  `promote_eligible`
is used by `run_one` only, but the model lets it happen at any time.

### RunLifecycle

`runStatus`, `gateStatus`, `answered` and so on are the tables; `reqGate` is a resume
request between the SELECT of `respond_to_gate` and its flush; `phase` is how far
a task's execution has come.  `checkpoint` and `pauses` stand for the external
LangGraph thread: `GraphResults` lists what one `ainvoke` may do given the job's kind
and the checkpoint, and the checkpoint moves before any row of the gateway does.

* Creation: `CreateReady`, `CreateGated` (with the placeholder job that remembers
  the idempotency key) and `CreateDuplicate`, the loser of the idempotency race.
* Resume: `ResumeRead`, then `ResumeStart`, `ResumeGraph` or `ResumeSearchGate`, or
  `ResumeRejected` by the unique constraint.  The branch follows the gate name in
  the request, which the code never compares with the row.  A cancellation that
  read the same gate may write its status last; `AnsweredStatus` has both outcomes.
  `TeacherCancel` itself is atomic: it holds the job rows and the run row, and an
  answer that overlaps it has the effect of cancel-then-answer.
* Worker: `StartExecution`, `GraphReturns`, then one of `PersistGate`, `GateConflict`,
  `SkipExport`, `WriteExports`/`PersistExport`, `PersistRecovery`, `PersistNothing`,
  `PersistError`, `WorkerCrash`.  Each persisting action contains the transition, the failure
  path when the table rejects it, the job's `mark_*` and the surfaced dead letter,
  which all commit together.  An `InvalidRunStatusTransitionError` does not roll the
  session back: what was flushed before it is committed, and the model keeps that.
  `PersistRecovery` is the branch of `persist_completion` for a state that still has its
  `quality_recovery_route`: `GraphResults` lets an answer that ends the thread without
  an export return one, because healing that escalated leaves the route
  `teacher_approval` and of the stages behind it only a completed export clears it.
* Operators and the gate sweep: as in the code, unlocked reads split.

`NoStrandedRun` excepts two kinds of run the code does strand: one that
`PersistRecovery` moved to PLANNING (no other step enters that status), and the run of
`CreateDuplicate`.

The three sweeps of `main.py` share one transaction; the model lets them commit
separately, which allows more behaviours.  Contract revisions, snapshots,
events other than the completion, and notifications are left out.

### EventLog

`ledger` and `outbox` are the committed rows of `run_events` and `run_event_outbox`; a
*session* is one database transaction of a request or of a worker's task, and
`ProcOf` says in which process it and each stream live.  `NextSequence` takes the
advisory lock and holds it to the end of the transaction; the rows in `txRows` are
invisible until `Commit`.  `ClaimBatch`, `PublishItem` and `PublishFails` are
`publish_run_event_outbox` row by row: the wake-up goes out before the
acknowledgement commits, and it may raise after some waiters were set.
`AfterCommit` is the SQLAlchemy listener, which wakes this process only.  A stream
replays, compares the bus version under the lock, parks, and reads again when it is
woken or the timeout expires.  `Crash` ends a process with its transactions and
streams; browsers reconnect with `Last-Event-ID`.

An outbox row is never committed as `publishing`, since every caller claims and
marks in one transaction, so the lease columns of the outbox are never compared.

### TeachingPackGraph

`node` and `routing` are the place in the compiled graph (before a stage, or on its
edge), the other variables the channels that later branches read.  `Runs` and `Skip`
are `make_stage_node` with `_can_reenter_stage`; each stage is one action, the
branches of a `Send` fan-out (`GenerateOne`) report one by one and in any order.
`Coordinate` is the whole of `coordinate_artifact_fanout`.  What a model or a judge
answers is a choice; what the code makes of the answer is not.  `render_quality` has
four actions: passed, failed unhealed, failed and healed, and `RenderQualityRaises` for the
gate error nothing catches.  Healing switched off (`max_healing_attempts = 0`) and the
seam `TEACHING_PACK_FORCE_ESCALATE` (`healing_runtime.py` 25-38) are left out.
`keepsAll` chooses
between a content store that accepts a second document of a type and the
gateway's, which refuses it (see below); the run has both.

### UnitOrchestrator

`child` and `jobs` are committed rows, `tx` the rows a transaction has flushed.  A
sweep goes over the units in any order and keeps all its rows and advisory locks
to its one commit, so two sweeps can deadlock; `WaitsFor` and `Deadlocked` are the
database's view of it.  `AfterError` follows an exception out of `reconcile_units`
into the commit that fails and the task group that ends.

The only unit parents the program creates carry a placeholder plan, which `react`
refuses (`run_creation.py` 202-225); the model is about the plans `decide` is written
for.  `LessonSequence` does not reject cyclic prerequisites; the instance has none.

### TeachingSession

A request is a transaction and what follows its commit: `SetHot`, `PublishEvent`.
The advisory lock is held from its first use to the end.  A slide or a branch is
identified with the number of the event that selected it.  Any Redis call may fail
and its keys may vanish (`MaxFaults`).  A stream is `off`, replaying, live (with
`inbox`, the messages of its subscription) or polling.

### ArtifactDocuments

Two lineages, `source` and `derived`; a request is interleaved at its statements,
each of which sees what is committed by then.  `Insert` fails on a committed version
and waits for an uncommitted one (`Rivals`).  `blockers` is a history variable: the
notes open since an approval was asked for.

### SnapshotVersions

`versions` is the lineage of one deck in `created_at` order; a deck is a function from
blocks to texts, because `content_hash` looks at nothing else (and at the tag a restore
adds).  `files` maps paths to the version they were rendered from, `records` are
`export_records`, whose uniqueness over snapshot and format is `Recorded`.  A file is
written in one step, while `write_text` truncates it first: what a crash in the middle of
that call leaves is not modelled (the crash before and after it is).

### RendererPool

`phase` is where a call is in `_render_request`; `stdin` and `stdout` are the pipes of a
process, which answers, answers wrongly, hangs or exits on its own.  After `WriteRequest`
a call reads, or is in `drain` while its line does not fit the buffers: it goes on when
the process takes its input (`TakesInput`) or dies (`PipeFails`), and no timeout ends the
wait.  `LineTooLong` is a page above the limit of `readline` (64 KiB, the default, since
`start_worker` sets none): the `ValueError` is caught nowhere, the process stays listed,
and what had not come yet of the line stays in the pipe as a fragment.  `outOfStep`
remembers processes that a reader left early: by a timeout, a cancellation or such a
fragment.  The names of processes are reused,
and `MaxSlots` is large enough that none is reused while somebody knows it; a new
process has new, empty pipes.

## 3. Runs

Configurations set `CHECK_DEADLOCK FALSE` where the system may rest: runs that are
finished or wait for a teacher, requests made once, a log with nothing to deliver.
`RendererPool` and `TeachingPackGraph` are checked for deadlock.

| Run | Checks | Instance |
|---|---|---|
| `JobQueue` | `TypeOK`, `LeaseDiscipline`, `ExclusiveClaim`, `OnlyStaleSweepUnsettles`, `EveryJobSettles` | 2 jobs, 2 tasks of 2 processes, ceiling 2, one fault, one operator action |
| `LifecycleCrash` | `CompletionRecorded`, `NoStrandedRun`, `PromiseKept` | 1 run, 2 jobs, 2 gates, 2 content interrupts, 2 tasks of one process, ceiling 1, one fault |
| `LifecycleOps` | `RunTypeOK`, `OneJobPerAnswer`, `NoStrandedRun` | 1 run, 2 jobs, 2 gates, 1 content interrupt, 2 requests, 1 task, ceiling 2, one operator action, one recovery or gate sweep |
| `EventLog` | `EventTypeOK`, `NoLostWakeup`, `FeedImplemented`, `EveryEventDelivered`, `OutboxDrained` | 2 events, a session in the gateway and one in a worker process, 1 client, one fault |
| `TeachingPackGraph` | `DependenciesFirst`, `JudgedWhole`, `ExportIsDue`, `StopsUnlessStuck` | 4 types in 3 waves, one branch at a time, 3 healings, one rejection, one failing generation, one uncounted failure, 6 generations |
| `UnitOrchestrator` | `OneStartPerChild`, `SweptAfterPrerequisites`, `ReadyIsStarted` | a unit of two dependent sessions and a unit of one, 2 gateways, 1 spawn-anyway, one restart |
| `TeachingSession` | `CountedOnce`, `PinAnnounced`, `OnlyCommittedShown`, `StreamInOrder`, `PollingCatchesUp` | 2 concurrent requests, 2 keys, 2 versions, 2 events, 1 client, one fault |
| `ArtifactDocuments` | `DocumentTypeOK`, `NoLostEdit`, `NotesRespected`, `NobodyStuck`, `HistoryKept` | 3 requests, 2 generations, 1 note |
| `SnapshotVersions` | `NoLostUpdate`, `RestoreIsAVersion`, `RecordedHtmlKept`, `LiveWasApproved` | 3 requests and the worker, 2 blocks of 2 texts, one death |
| `RendererPool` | `NoProcessLeaked`, `InStep`, `EveryRenderReturns` | 2 calls, 2 processes, one retry, one exit |

*Why these bounds are enough to be interesting.*  One fault is one lost worker or one
late heartbeat; with the sweep and a second task it already gives two executions of
one job.  Ceiling 1 makes the first expiry a dead letter, ceiling 2 both outcomes.
Two jobs and two gates let a run go through its first decision and reach the next; a
second content interrupt lets an answer meet the wrong one.  Two events in two
processes commit in both orders and wake only one of them.  The plan of four types
has a wave of two, a dependent of both sides and a wave that a failure blocks; six
generations are more than healing, the rejection and the uncounted failure use up.
Two units are what a deadlock of sweeps needs.  Three requests let an edit, a second
edit and an approval or export overlap.  Two calls and two processes share a process
after a replacement.  Larger instances of the queue and the lifecycle are the
business of the proofs.  The type invariants of the modules whose run lists none
(`SessionTypeOK`, `PoolTypeOK`, `GraphTypeOK`, `UnitTypeOK`) hold on the same instances.

*Fairness* (`QueueSpec`).  A worker's loop polls for ever and sleeps at most a second
when it finds nothing (`main.py`, `run_worker_batch`), so claiming is weakly fair.
`run_worker_batch` waits for every execution of the batch before it claims again;
executions end, since provider calls and the renderer's answers have timeouts, so a
task's claim is not postponed for ever.  (One wait has none, the `drain` of
`renderer_pool.py` 125; a worker whose renderer stops reading there is lost to the queue
until its process is restarted, which the model has as a crash only.)  The clock advances: leases nobody refreshes
expire, backoffs elapse.  An open sweep transaction ends.  Nothing is assumed of
heartbeats, of new sweeps, of operators or of teachers.  `EveryJobSettles` thus says
that re-claiming expired rows alone recovers from crashes.

*Fairness of the other modules.*  `LogFairness`: workers keep polling the outbox, open
transactions end, streams run on, the stream's wait expires, delays elapse; nobody has
to write or to reconnect a given number of times (connecting is fair: `EventSource`
retries for ever).  `SessionSpec`: a connected stream runs on, nothing else.
`PoolFairness`: strong, because `asyncio` locks and the semaphore wake their waiters in
turn, so a call whose turn comes again and again gets it; nothing makes a process
read or answer.  The timeout ends the wait for an answer; none covers `drain`, so
`EveryRenderReturns` excepts a call that is for ever in it or behind it (`Blocked`).  `GraphSpec`: `ainvoke` runs to an interrupt or the
end; no teacher has to answer.  `UnitFairness`: a gateway that is up sweeps every minute
and its statements end; `ReadyIsStarted` assumes that some sweeper stays up and does not
assume which.  `ArtifactDocuments` and `SnapshotVersions` state no fairness;
`NobodyStuck` says instead that a request can go on exactly when it waits for nobody
(`WaitsFor`: the holder of its advisory lock, or an uncommitted row of its version), and
that some request always can.

### What the documentation says and the code does not do

Each is a run whose property quotes the repository, violated by the code's own
steps; `PROJECT.json` has the lines.

| Run | Property | What happens |
|---|---|---|
| `FindAnswer` | `AnswerReachesOnlyItsGate` | after a crash the old answer is given to the next interrupt |
| `FindLostRace` | `LostRaceIsNoOp` | a sweep that loses a spawn race poisons its session; the commit raises and ends the sweeper, and with it the gateway's task group |

### Consequences of the code without a run

Found while reading and modelling, and visible in the models' actions:

* **Queue.**  Attempts are not bounded: `claim_next` never looks at them and a sweep
  counts once more (ADR-057, line 43, promises bounded attempts).  A sweep that read an
  expired row overwrites its completion, and the job runs again.
* **Lifecycle.**  A transient error fails the run before the job is retried, and the
  retry cannot bring it back (`teaching_pack_executor.py` 130).  A job dead-lettered by
  the sweeper leaves its run open and silent.  A run cancelled in flight still gets
  export records.  The answer to a clarification resumes a thread that never started
  (`routers/teaching_pack_runs.py` 256).  `_reopen_gate` makes an answered gate ACTIVE,
  but `gate_responses` refuses every further answer.  `request_artifact_revision` queues a
  job for a cancelled run, whose execution ends in a dead letter.
  A *quality recovery strands its run* (`teaching_pack_completion.py` 63-66, 186-207):
  healing escalates and leaves the route `teacher_approval`, the teacher rejects without
  a scope (or approves what is unavailable), `export_finalize` returns early
  (`nodes.py` 738-748) and the route is still set.  The run goes to PLANNING, its job is
  COMPLETED, its gate RESPONDED, and no job or gate is made; only a revision request or a
  cancellation acts on it.  `.omo/plans/pipeline-v2-completion.md` line 63 says that
  completion "now treats render-quality recovery states as resumable recovery
  orchestration instead of terminal missing-export failures", and
  `test_teaching_pack_completion.py` 380 tests the transition; nothing resumes it.
  Without the exception of PLANNING in `NoStrandedRun` TLC finds it in ten states.
* **Session.**  A live message that arrives behind a later one is skipped as "already
  replayed" although it was never received (`routers/teaching_session_live.py` 571-572).
  Hot state is written after the commit without an order, so it can be a lost update
  rather than the fold of the log.
* **Graph.**  The references channel never drops documents of older generations.
  Research is not run again after replanning.  A failed quality report counts twice in
  the breaker, because `heal_quality_failure` is called for the log line too
  (`quality_runtime.py` 144, 146).  Nothing in the code ends the four loops of `Stuck`:
  the invocation sets no limit, so LangGraph's default recursion limit ends them, with an
  error.  An approval after escalation exports the snapshots of the last
  passing judgement, or none.  After a scoped rejection the compliance gate is
  skipped, and the scope of the first rejection is never cleared.
* **Documents.**  The gateway's content store gives every generation of a type version 1
  of the same artifact id, which `uq_artifact_documents_version` refuses: the second
  generation of a run fails (`artifact_projection_mapper.py` 27).  A translation does not
  check which source version it was made from.  A note opened between the check and the
  commit of an approval is not seen.
* **Snapshots and exports.**  An edit that returns the deck to earlier content collides
  with the globally unique `content_hash`: the old row is reported as created and the head
  does not move.  Formats other than HTML, and the bundle, overwrite one file per run, so
  a recorded download changes (ADR-056, lines 61 and 63).  A bundle is recorded under the
  first snapshot's id with format html, and after that the html of that artifact can
  never be recorded; nor can a format whose slow regeneration recorded an older head.
  Approval needs `AWAITING_APPROVAL`, so an edit after completion can never be approved,
  published or bundled.  Completion exports the content of the gate's snapshots,
  whatever was edited since.  The graph's snapshot ids do not depend on the generation.
* **Pool.**  After a timeout or a cancellation the next borrower of the process can be
  given another call's page (`renderer_pool.py` 126): `InStep` is stated for what remains.
  A page above 64 KiB raises a `ValueError` that is not turned into a
  `RendererAdapterError`: no retry, no replacement, and the process may be left out of
  step too.  A process that stops reading a request above the buffers blocks its call in
  `drain` (line 125) for ever, with the process lock and a unit of the semaphore.
* **Units.**  A unit is never marked complete.

## 4. Theorems

Proved by TLAPS for every value of the constants that satisfies the named assumption
of the module (`QueueAssumption`, `LifecycleAssumption`, `LogAssumption` and so on).
They say that ids are positive numbers, that null values are not real ones, that maps
are defined where they are used and that bounds are naturals; `ArtifactDocuments` also
that there are finitely many requests and `RendererPool` that there are more names of
processes than processes anybody can know.  `PlanAssumption` of `TeachingPackGraph`
says what holds of the only dependency plan in the code (below).  Apart from that no set is assumed finite:
the theorems hold for any number of jobs, tasks, requests, clients and events, where
the runs have two or three.  In each module the inductive invariant was checked by TLC
on the run's instance before it was proved.

**RunLifecycleProofs, the queue.**  `ExclusiveClaim` is not inductive: that two tasks do not share a
job says nothing about whether a third may claim it.  The invariant adds
`OwnedClaims`: a task that has not lost its claim executes a RUNNING row whose
lease is live and under its worker id.  `Claimable` then excludes the row, so a second
task can only come after the loss.  `OwnedClaims` needs `LeaseDiscipline`, which
needs `TypeOK`; `QueueInv` is the conjunction of the four.  Theorems:
`QueueTypeCorrect`, `LeasesAreDisciplined`, `ClaimsAreExclusive` and, as an action
property, `OnlySweepsUnsettle`.  `OwnersVerdictsCount` is another action property: the
verdict of a task that kept its claim is stored, although no `mark_*` call compares the
owner, and a transient failure is retried exactly while the row has counted fewer
attempts than the ceiling.  It needs `CountsAgree`: the attempts a claim returned stay
the row's as long as the claim is not lost, because what counts or resets them (a sweep,
a replay) takes the claim away first.

**RunLifecycleProofs, the lifecycle.**  `LifecycleImplementsQueue` shows that every step of the
lifecycle is a step of the queue or leaves its variables alone, so
`LifecycleClaimsAreExclusive`, `LifecycleOnlySweepsUnsettle` and
`LifecycleVerdictsCount` carry the queue's theorems to the composed system.
`LifeInv` (types, and that references between tables point at existing rows)
gives `LifecycleTypeCorrect`.  `StatusMoves` classifies what a step may do to the
statuses; with `RunsExist` (whatever a job or gate belongs to was created) and
`CompletionRecorded` it makes `PromiseInv` inductive.  From it follow
`CompletionsAreRecorded` and the refinement `PromiseIsKept`: initial states map to
initial states, and each kind of move maps to one action of `RunPromise` or to a
stutter.  `AnswersAreQueuedOnce` rests on `AnswersStored`: a job that delivers an
answer belongs to a gate that has its row in `gate_responses`, so a second answer
to the gate is refused.  `NoRunIsStranded`: `NoStrandedRun` is inductive with
`RunsExist` and `Blank` (a row that is not there yet belongs to no run), `HandleInv`.
The argument follows the handle of a run from one row to the next: most actions give no
row to another run and settle no job or gate of it (`Carried`), whatever settles the
last handle of a run leaves another (a dead letter to replay or a gate to reopen are
handles too) or a final status in the same step, and a run that starts to work had neither a job nor a gate before
(`WorkBegins`), so nothing it does not own can stand for it.  A run that a quality
recovery sent back to PLANNING has no handle and the theorem does not promise it one; it
leaves PLANNING for another status of work only with a new gate (`PlanningEnds`).

**TeachingPackGraphProofs.**  `GraphInv` has one part per question.  `FanoutInv`: while
a generation is made (`Progress`) the waves before the current one have reported and
no failure in them blocks a type of the generation, the later ones have not; when the
edge of the artifact stage is evaluated and the fan-out is not over there is something
to send out, so that edge never leads to `render_quality` too early
(`SendsWhileMaking`).  `RejectionInv`: what a generation makes changes only between two
generations, because a rejection without a scope comes when the fan-out is over and, if
it names no document, every stage after it is skipped (`Idle`).  `DocumentInv`: a
document has the documents it was made from, and so has what a scope leaves as it is.
`RouteInv` is what each later stage knows of the verdicts when it runs, `ExportInv` that
nothing follows an export.  Theorems: `DependenciesComeFirst`, `WholeGenerationsJudged`,
`ExportsAreDue` and `GraphTypeCorrect`, which bounds the branches sent out together.
The proof showed what `DependenciesComeFirst` rests on: of two dependencies of a type
one depends on the other (`ScopeLeavesMade`).  `DEFAULT_DEPENDENCY_PLAN` is like that,
but `DependencyPlan` does not validate it.  With a type that depends on two unrelated
ones, of which one failed, a scoped rejection of the other would regenerate the type
without the failed one.
`VerdictsOncePerGeneration` says of the steps that an artifact gets one verdict in a
generation, always the newest: what was sent out has not reported (`SentOpen`), and a
dependent of a failure is in a later wave than the current one (`SkippedAreOpen`).
`InvocationsEnd` is the safety half of `StopsUnlessStuck`.  It gives a measure of five
parts that are compared in order (`Lower`): the healings left, the distance to the end
along the edges (`Distance`), the waves left, the artifacts of the wave that have not
reported (`Left`) and the turn of the coordinator.  Each part is bounded (`MeasureOK`),
and every step of an invocation lowers the measure with two exceptions: a quality
failure that `heal_quality_failure` never sees, which nothing in the code counts, and a
step that leaves the graph in one of the loops of `Stuck`.  TLC refutes the statement
without either exception.  `AnsweredInv` and `EmptyRouteInv` are what a stage that is
skipped knows of the answer or verdict it left behind.

**EventLogProofs.**  `LogInv` adds to the types: a transaction that has inserted rows
and is not over holds the advisory lock and its numbers come after every committed one
(`WritersInv`); a number is given once (`NumbersInv`); what a stream that is about to
wait has not read is still to be notified by the process that wrote it (`WakeupInv`);
and, per client, what it has received are exactly the teacher events up to
`last_sequence` and the batch in hand is what comes next (`StreamInv`).  The last is why
a commit cannot slip an event in behind a reader: `WritersInv` puts it after all of them.
`EventTypeCorrect`, `WakeupsAreNotLost` and the refinement `LogImplementsFeed`: the
commit of a transaction is `EventFeed`'s publishing step, a yield its delivery,
everything else a stutter (the safety part; that the feed moves is a run's property).

**TeachingSessionProofs.**  The four properties are inductive together with what each
request has in hand (`RequestOK`): who has checked a key or inserted a row holds the
advisory lock, and `NewRow` says what the row may claim, for example that its tally is
one more than the counter and its key not in the log.  `InboxOK` and `LastOK` are about
messages in flight.  `KeysAreCountedOnce`, `PinIsAnnounced`, `OnlyCommittedIsShown`,
`StreamsAreInOrder`.

**SnapshotVersionsProofs.**  What makes `NoUpdateIsLost` true is what the holder of the
lock has in hand: the row it drafted was made from the head, which nobody else can
move.  `RecordedHtmlStays` needs that a path of an html export names the snapshot, so
that a later export cannot write over it, and `OnlyApprovedGoesLive` that an approval
stays what it was.  `RestoresAreVersions` holds because
the tag of a restore occurs in a version only after that request inserted it, so the
insert is never skipped as a duplicate (`TagsAnswered`).  `ContentIsStoredOnce`: the
hash is unique and an answer names a version that holds what was asked for
(`StoreInv`, with what an insert that is not committed yet has found,
`InsertResults`).  `LineageIsKept` is the action property of the history: versions and
export records are only appended, approvals not withdrawn.

**ArtifactDocumentsProofs.**  `VersionInv`: the versions of an artifact are 1 to its
head, a request's number may be older than the head until it holds the lock, the row it
has inserted is the next after the head, and at most one request has such a row.
`EditsAreNotLost` and the action property `HistoryIsKept` follow; `NoteInv` gives
`ApprovalsRespectNotes`.  `NobodyWaitsInACircle`: whoever is waited for is further than
the one that waits, because the lock comes before the insert and who has inserted waits
for nothing (`WaitInv`); so some request in progress waits for nobody.
`RequestsRunOutOfSteps`: each statement leaves a request fewer to execute (`StepsLeft`)
and nobody else makes it start over.

**UnitOrchestratorProofs.**  A row is in one open transaction at most (`Uncommitted`), a
child and its job are committed together (`JobsMatch`), and what a sweeper has decided,
inserted or committed had its prerequisites finished and still has (`Justified`, because
a child that is done stays done).  `OneStart`, `StartsAreJustified`.
`DeadlocksAreBetweenSweepers`: a circle of waits goes through two sweeps at least, since
a request holds its row only where nothing makes it wait any more (`RequestInv`).
`LoneSweeperEndures` takes one gateway and no spawn-anyway as hypotheses and proves
`LostRaceIsNoOp`: what `FindLostRace` shows needs a second writer, the sweeper alone does
not end itself.

**RendererPoolProofs.**  `PoolInv` has one part per resource: who has a process
(`BorrowInv`), who may start one (`SpawnInv`), how many calls the semaphore lets in
(`CallsInv`), which processes live (`AliveInv`), whose lock it is (`LockInv`), what is in
the pipes of a process that is in step (`QueueInv`: nothing, the request of the holder
or its answer; while it drains nothing is answered, `DrainInv`), and that nothing is out
of step before the first retry, failure or cancellation (`ReplyInv`).  `FreshSlot` counts: with at most `MaxConcurrent` calls inside and
`PoolSize` processes listed a name is always free.  `NoProcessIsLeaked`,
`RendersAreInStep`.  `CallsDoNotDeadlock`: who holds a lock a call waits for is inside
and waits for no other call, so waits have length one (`HolderInv`).  `CallsRunOutOfSteps`: a
call takes at most `(MaxRetries + 1) * (2 * PoolSize + 7)` steps; the holder of the pool
lock starts only the processes the list lacks, and nobody shortens the list meanwhile.

**Only model-checked.**  Everything about liveness under fairness, which is beyond
the prover: `EveryJobSettles`, `EveryEventDelivered`, `OutboxDrained`,
`PollingCatchesUp`, `EveryRenderReturns`, `StopsUnlessStuck`, `ReadyIsStarted`.  Of
`EveryRenderReturns` and `StopsUnlessStuck` the safety half is proved: nobody waits in a
circle and the steps run out (`CallsDoNotDeadlock`, `CallsRunOutOfSteps`,
`InvocationsEnd`); that an enabled step is taken is the fairness the runs assume.
`NobodyStuck` contains `ENABLED`; that a request which waits for nobody is enabled is
TLC's, that there is one is `NobodyWaitsInACircle`.  Attempts of a job have no bound to
prove: a sweep and a claim both count and `claim_next` has no ceiling.

## 5. Not modelled, and plan

`PROJECT.json` gives the reason for each part.  In short: what is pure data
(rendering, exporting, compiling plans and prompts, the contracts) has no states to
interleave, and is most of the repository's lines; what is a single transaction with
no protocol (notifications, outcome delivery, retention, budget) has nothing a test does
not reach; what no production path reaches is not modelled as if it did (worker leases,
the provider breaker, the unit actions without an executor);
the limits of backpressure are soft and checked without a lock, which a model could
only restate.  Of modelled parts, these operations are left out: joining and status of
teaching sessions, claim evidence and delegation, deck translations and rewrite
suggestions, `approve_all` and the export of units, soft deletion.

What is left to prove: every invariant and every refinement that a run checks has a
theorem, apart from the properties named under "Only model-checked".  Further theorems
would come with further parts of the model.

## 6. Running

`tlc -config <run>.cfg <module>` checks a run (the module is named in `PROJECT.json`),
`tlapm <module>Proofs.tla` checks the proofs about a module.  Operators
whose comment starts with "Mutation of" are deliberate errors: put in the place of
the definition they mutate, each makes one property fail, which shows that the
property constrains the code.
