---------------------------- MODULE RunLifecycle ----------------------------
(***************************************************************************)
(* A teaching-pack run from creation to its end: the runs and gate tables, *)
(* the HTTP routes of the teacher and the administrator, and what a worker *)
(* writes when the graph returns (services/gateway: run_creation.py,       *)
(* routers/teaching_pack_runs.py and teaching_pack_lifecycle.py,           *)
(* teaching_pack_control_store.py, teaching_pack_store.py,                 *)
(* teaching_pack_executor.py, teaching_pack_completion.py,                 *)
(* admin_recovery.py, recovery_sweeper.py).                                *)
(*                                                                         *)
(* The module composes with the queue: an action that touches run_jobs     *)
(* conjoins the action of JobQueue that does so, in the same transaction.  *)
(*                                                                         *)
(* The LangGraph graph and its checkpointer are external: one invocation   *)
(* is one step that moves the thread's checkpoint, which is durable before *)
(* the gateway's own transaction writes anything.                          *)
(***************************************************************************)
EXTENDS JobQueue

CONSTANTS
  Gates,      \* gate ids, positive numbers in the order of created_at (bound)
  Requests,   \* concurrent resume requests (bound)
  MaxPauses,  \* bound: content interrupts the graph raises in one run
  MaxAdmin    \* bound: recoveries of runs and gates, and day-long gate waits

ASSUME LifecycleAssumption ==
  /\ Gates \subseteq Nat \ {0}
  /\ MaxPauses \in Nat
  /\ MaxAdmin \in Nat

VARIABLES
  runStatus,    \* runs.status
  checkpoint,   \* external: where the run's graph thread stands
  pauses,       \* external: content interrupts raised by the thread so far
  exports,      \* export files in storage, then rows in export_records
  completions,  \* number of teaching_pack.run.completed events
  gateRun,      \* gate_interrupts.run_id
  gateName,     \* gate_interrupts.gate_name
  gateStatus,   \* gate_interrupts.status
  gatePause,    \* the content interrupt the gate row was opened for
  answered,     \* gates with a row in gate_responses
  applied,      \* history: content interrupts resumed by the gate's answer
  gateSweep,    \* gates the open sweep transaction has read as timed out
  jobKind,      \* run_jobs.kind
  jobGate,      \* the gate whose answer the job delivers, 0 if none
  reqGate,      \* the gate a resume request has read as ACTIVE, 0 if none
  phase,        \* what a task's execution has come to
  seenPause,    \* the content interrupt the graph returned to the task
  admin         \* how much of MaxAdmin is used

runVars  == <<runStatus, checkpoint, pauses, exports, completions>>
gateVars == <<gateRun, gateName, gateStatus, gatePause, answered, applied, gateSweep>>
workVars == <<jobKind, jobGate>>
execVars == <<phase, seenPause>>
lifeVars == <<runVars, gateVars, workVars, reqGate, execVars, admin>>
allVars  == <<vars, lifeVars>>

NoGate == 0

RunStatuses == {"PENDING", "PLANNING", "RESEARCHING", "GENERATING", "REVIEWING",
                "AWAITING_APPROVAL", "EXPORTING", "COMPLETED", "FAILED", "CANCELLED"}
Terminal == {"COMPLETED", "FAILED", "CANCELLED"}

\* "contract" stands for contract_confirmation and source_conflict, the setup
\* gates of a run that has a contract; a clarification_required run has none.
GateNames == {"clarification", "contract", "search", "content"}

Phases == {"idle", "invoking", "gate", "export", "written", "recovery", "nothing",
           "transient", "permanent"}

\* Type correctness of the tables, the external graph and the requests.
RunTypeOK ==
  /\ runStatus \in [Runs -> RunStatuses \cup {"absent"}]
  /\ checkpoint \in [Runs -> {"none", "content", "other", "done"}]
  /\ pauses \in [Runs -> Nat]
  /\ exports \in [Runs -> {"none", "files", "recorded"}]
  /\ completions \in [Runs -> Nat]
  /\ gateRun \in [Gates -> Runs \cup {NoRun}]
  /\ gateName \in [Gates -> GateNames \cup {"none"}]
  /\ gateStatus \in [Gates -> {"absent", "ACTIVE", "RESPONDED", "EXPIRED", "CANCELLED"}]
  /\ gatePause \in [Gates -> Nat]
  /\ answered \in SUBSET Gates
  /\ applied \in [Gates -> SUBSET Nat]
  /\ gateSweep \in SUBSET Gates
  /\ jobKind \in [Jobs -> {"START", "RESUME"}]
  /\ jobGate \in [Jobs -> Gates \cup {NoGate}]
  /\ reqGate \in [Requests -> Gates \cup {NoGate}]
  /\ phase \in [Tasks -> Phases]
  /\ seenPause \in [Tasks -> Nat]
  /\ admin \in Nat

LifeInit ==
  /\ runStatus = [r \in Runs |-> "absent"]
  /\ checkpoint = [r \in Runs |-> "none"]
  /\ pauses = [r \in Runs |-> 0]
  /\ exports = [r \in Runs |-> "none"]
  /\ completions = [r \in Runs |-> 0]
  /\ gateRun = [g \in Gates |-> NoRun]
  /\ gateName = [g \in Gates |-> "none"]
  /\ gateStatus = [g \in Gates |-> "absent"]
  /\ gatePause = [g \in Gates |-> 0]
  /\ answered = {}
  /\ applied = [g \in Gates |-> {}]
  /\ gateSweep = {}
  /\ jobKind = [j \in Jobs |-> "START"]
  /\ jobGate = [j \in Jobs |-> NoGate]
  /\ reqGate = [q \in Requests |-> NoGate]
  /\ phase = [t \in Tasks |-> "idle"]
  /\ seenPause = [t \in Tasks |-> 0]
  /\ admin = 0

RunInit == QueueInit /\ LifeInit

-----------------------------------------------------------------------------
(* The status table.                                                       *)

AllowedTransitions ==
  [PENDING           |-> {"PLANNING", "AWAITING_APPROVAL", "CANCELLED", "FAILED"},
   PLANNING          |-> {"RESEARCHING", "AWAITING_APPROVAL", "CANCELLED", "FAILED"},
   RESEARCHING       |-> {"GENERATING", "CANCELLED", "FAILED"},
   GENERATING        |-> {"REVIEWING", "AWAITING_APPROVAL", "CANCELLED", "FAILED"},
   REVIEWING         |-> {"AWAITING_APPROVAL", "EXPORTING", "CANCELLED", "FAILED"},
   AWAITING_APPROVAL |-> {"PLANNING", "GENERATING", "EXPORTING", "CANCELLED", "FAILED"},
   EXPORTING         |-> {"COMPLETED", "FAILED", "CANCELLED"},
   COMPLETED         |-> {},
   FAILED            |-> {},
   CANCELLED         |-> {}]

\* validate_status_transition: staying where one is is accepted.
CanMove(from, to) == from = to \/ to \in AllowedTransitions[from]

\* Mutation of AfterFailure: the status is written past the table.
AfterFailure_Blind(s) == "FAILED"

\* Mutation of AfterFailure: status and reason of the transition are swapped.
AfterFailure_Swapped(s) == IF CanMove(s, "FAILED") THEN "missing_export_evidence" ELSE s

\* The status a run has after persist_failure, whose transition raises when
\* the table rejects it.
AfterFailure(s) == IF CanMove(s, "FAILED") THEN "FAILED" ELSE s

-----------------------------------------------------------------------------
(* Gates.                                                                  *)

NextGate(g) == gateStatus[g] = "absent" /\ \A h \in Gates : h < g => gateStatus[h] # "absent"

\* What the partial unique index uq_gate_interrupts_active forbids twice, when
\* the gates have the statuses s.
ActiveGate(s, r, name) ==
  \E g \in Gates : gateRun[g] = r /\ gateName[g] = name /\ s[g] = "ACTIVE"

\* open_gate: a new ACTIVE row; status s holds what the transaction makes of the
\* other rows.
OpenGate(s, g, r, name, pause) ==
  /\ NextGate(g)
  /\ ~ActiveGate(s, r, name)
  /\ gateRun' = [gateRun EXCEPT ![g] = r]
  /\ gateName' = [gateName EXCEPT ![g] = name]
  /\ gateStatus' = [s EXCEPT ![g] = "ACTIVE"]
  /\ gatePause' = [gatePause EXCEPT ![g] = pause]

-----------------------------------------------------------------------------
(* Creation.                                                               *)

\* _create_ready_run: run, contract and START job in one transaction.
CreateReady(r, j, delayed) ==
  /\ runStatus[r] = "absent"
  /\ runStatus' = [runStatus EXCEPT ![r] = "PENDING"]
  /\ Enqueue(j, r, delayed)
  /\ UNCHANGED <<checkpoint, pauses, exports, completions, gateVars, workVars, reqGate, execVars, admin>>

\* Two creates with one idempotency key race past find_by_idempotency_key: the
\* second inserts its own run, its enqueue finds the key taken by the job of the
\* winner's run, which need not be one of Runs, and it commits a run without a job.
CreateDuplicate(r) ==
  /\ runStatus[r] = "absent"
  /\ runStatus' = [runStatus EXCEPT ![r] = "PENDING"]
  /\ UNCHANGED <<vars, checkpoint, pauses, exports, completions, gateVars, workVars, reqGate, execVars, admin>>

\* _create_gated_run without and with an idempotency key.
CreateGatedRow(r, g, name) ==
  /\ runStatus[r] = "absent"
  /\ runStatus' = [runStatus EXCEPT ![r] = "AWAITING_APPROVAL"]
  /\ OpenGate(gateStatus, g, r, name, 0)
  /\ UNCHANGED <<checkpoint, pauses, exports, completions,
                 answered, applied, gateSweep, workVars, reqGate, execVars, admin>>

CreateGated(r, g, name) ==
  /\ CreateGatedRow(r, g, name)
  /\ \/ UNCHANGED vars
     \/ \E j \in Jobs : EnqueuePlaceholder(j, r)

-----------------------------------------------------------------------------
(* The teacher's routes.                                                   *)

\* resume, up to the SELECT of respond_to_gate, which takes no row lock.
ResumeRead(q, g) ==
  /\ reqGate[q] = NoGate
  /\ gateStatus[g] = "ACTIVE"
  /\ reqGate' = [reqGate EXCEPT ![q] = g]
  /\ UNCHANGED <<vars, runVars, gateVars, workVars, execVars, admin>>

\* Mutation of RespondToGate: gate_responses has no unique constraint.
RespondToGate_NotUnique(q, g) ==
  /\ reqGate[q] = g
  /\ reqGate[q] # NoGate
  /\ answered' = answered \cup {g}
  /\ reqGate' = [reqGate EXCEPT ![q] = NoGate]

\* The answer of request q is flushed; gate_responses admits one row per gate.
RespondToGate(q, g) ==
  /\ reqGate[q] = g
  /\ g \notin answered
  /\ answered' = answered \cup {g}
  /\ reqGate' = [reqGate EXCEPT ![q] = NoGate]

\* The gate becomes RESPONDED whatever it is by now.  A cancellation that also
\* read it as ACTIVE may write it last (cancel_active_gates takes no lock).
AnsweredStatus(g) == {"RESPONDED"} \cup ({"CANCELLED"} \cap {gateStatus[g]})

AnswerWithJob(q, g, j, kind) ==
  /\ RespondToGate(q, g)
  /\ \E s \in AnsweredStatus(g) : gateStatus' = [gateStatus EXCEPT ![g] = s]
  /\ Enqueue(j, gateRun[g], FALSE)
  /\ jobKind' = [jobKind EXCEPT ![j] = kind]
  /\ jobGate' = [jobGate EXCEPT ![j] = g]
  /\ UNCHANGED <<runVars, gateRun, gateName, gatePause, applied, gateSweep, execVars, admin>>

\* A contract is stored when the run is created, unless it lacks information.
HasContract(r) == \A g \in Gates : gateRun[g] = r => gateName[g] # "clarification"

\* The route branches on the gate_name of the request, which nothing compares
\* with the gate's row.  For contract_confirmation (no search plan to confirm)
\* and search_plan_confirmation it reads the contract and starts the graph.
ResumeStart(q, g, j) ==
  HasContract(gateRun[g]) /\ AnswerWithJob(q, g, j, "START")

\* For every other name it resumes the graph.
ResumeGraph(q, g, j) == AnswerWithJob(q, g, j, "RESUME")

\* contract_confirmation whose search plan requires confirmation: another gate
\* is opened instead of a job.
ResumeSearchGate(q, g, h) ==
  /\ RespondToGate(q, g)
  /\ HasContract(gateRun[g])
  /\ \E s \in AnsweredStatus(g) :
       OpenGate([gateStatus EXCEPT ![g] = s], h, gateRun[g], "search", 0)
  /\ UNCHANGED <<vars, runVars, applied, gateSweep, workVars, execVars, admin>>

\* The unique constraint on gate_responses rejects a second answer (HTTP 500).
ResumeRejected(q) ==
  /\ reqGate[q] \in answered
  /\ reqGate' = [reqGate EXCEPT ![q] = NoGate]
  /\ UNCHANGED <<vars, runVars, gateVars, workVars, execVars, admin>>

\* request_artifact_revision: a RESUME job, whatever the run and its gate are.
RequestRevision(r, j) ==
  /\ runStatus[r] # "absent"
  /\ Enqueue(j, r, FALSE)
  /\ jobKind' = [jobKind EXCEPT ![j] = "RESUME"]
  /\ UNCHANGED <<runVars, gateVars, jobGate, reqGate, execVars, admin>>

\* cancel_active_gates.
CancelledGates(r) == {g \in Gates : gateRun[g] = r /\ gateStatus[g] = "ACTIVE"}

\* cancel_teaching_pack_run: jobs, gates and status in one transaction; the
\* whole of it is rolled back (409) when the table rejects the transition.
TeacherCancel(r) ==
  /\ runStatus[r] # "absent"
  /\ CanMove(runStatus[r], "CANCELLED")
  /\ CancelRunJobs(r)
  /\ gateStatus' = [g \in Gates |-> IF g \in CancelledGates(r) THEN "CANCELLED" ELSE gateStatus[g]]
  /\ runStatus' = [runStatus EXCEPT ![r] = "CANCELLED"]
  /\ UNCHANGED <<checkpoint, pauses, exports, completions, gateRun, gateName, gatePause,
                 answered, applied, gateSweep, workVars, reqGate, execVars, admin>>

-----------------------------------------------------------------------------
(* The worker.                                                             *)

StartExecution(t, j) ==
  /\ ClaimNext(t, j)
  /\ phase' = [phase EXCEPT ![t] = "invoking"]
  /\ UNCHANGED <<runVars, gateVars, workVars, reqGate, seenPause, admin>>

\* What the graph can return for job j: the phase the execution enters and the
\* checkpoint it leaves.  The exports are only reached by a teacher's answer to
\* a content interrupt (a revision request rejects); a thread that is done
\* returns its exports again; a resume without a checkpoint raises
\* EmptyInputError; an error may leave the thread where it was or further on.
\* A pack that healing escalated keeps its quality_recovery_route until it is
\* exported: the answer that ends the thread without an export (a rejection
\* without a scope, an approval of unavailable artifacts) returns the route, and
\* so does every later resume of the ended thread.
GraphResults(j) ==
  LET c == checkpoint[runOf[j]]
      errors == {"transient", "permanent"} \X {c, "other"}
  IN IF jobKind[j] = "RESUME" /\ c = "none"
     THEN {<<"permanent", "none">>}
     ELSE errors
          \cup (IF c = "done" THEN {} ELSE {<<"gate", "content">>, <<"nothing", "other">>})
          \cup (IF c = "done" \/ (jobKind[j] = "RESUME" /\ jobGate[j] # NoGate)
                THEN {<<"export", "done">>} ELSE {})
          \cup (IF /\ jobKind[j] = "RESUME" /\ pauses[runOf[j]] > 0
                   /\ c = "other" \/ (c = "content" /\ jobGate[j] # NoGate)
                THEN {<<"recovery", "other">>} ELSE {})

\* The invocation answers a pending content interrupt with job j's payload.
AnswersInterrupt(j, after) ==
  /\ jobKind[j] = "RESUME"
  /\ jobGate[j] # NoGate
  /\ checkpoint[runOf[j]] = "content"
  /\ after # <<"transient", "content">> /\ after # <<"permanent", "content">>

\* ainvoke returns or raises.  A START that finds the thread at its content
\* interrupt meets that interrupt again.
GraphReturns(t, j) == \E after \in GraphResults(j) :
  LET r == runOf[j]
      raised == after[1] = "gate" /\ ~(jobKind[j] = "START" /\ checkpoint[r] = "content")
  IN
  /\ raised => pauses[r] < MaxPauses
  /\ phase' = [phase EXCEPT ![t] = after[1]]
  /\ checkpoint' = [checkpoint EXCEPT ![r] = after[2]]
  /\ pauses' = IF raised THEN [pauses EXCEPT ![r] = @ + 1] ELSE pauses
  /\ seenPause' = [seenPause EXCEPT ![t] = IF after[1] = "gate" THEN pauses'[r] ELSE 0]
  /\ applied' = IF AnswersInterrupt(j, after)
                THEN [applied EXCEPT ![jobGate[j]] = @ \cup {pauses[r]}] ELSE applied
  /\ UNCHANGED <<vars, runStatus, exports, completions, gateRun, gateName, gateStatus,
                 gatePause, answered, gateSweep, workVars, reqGate, admin>>

AtPhase(t, j, p) == taskJob[t] = j /\ phase[t] = p

\* The finishing transaction of task t commits.
Committed(t) ==
  /\ phase' = [phase EXCEPT ![t] = "idle"]
  /\ seenPause' = [seenPause EXCEPT ![t] = 0]
  /\ UNCHANGED <<checkpoint, pauses, workVars, reqGate, admin>>

\* _persist_content_gate.  When the table rejects the transition the exception
\* is caught by the worker, which commits the session: the gate stays.
PersistGate(t, j, g) ==
  LET r == runOf[j] IN
  /\ AtPhase(t, j, "gate")
  /\ OpenGate(gateStatus, g, r, "content", seenPause[t])
  /\ \/ /\ CanMove(runStatus[r], "AWAITING_APPROVAL")
        /\ runStatus' = [runStatus EXCEPT ![r] = "AWAITING_APPROVAL"]
        /\ FinishOk(t, j)
     \/ /\ ~CanMove(runStatus[r], "AWAITING_APPROVAL")
        /\ runStatus' = [runStatus EXCEPT ![r] = AfterFailure(@)]
        /\ FinishPermanent(t, j)
  /\ Committed(t)
  /\ UNCHANGED <<exports, completions, answered, applied, gateSweep>>

\* A content gate is already active: the insert fails, the session is unusable
\* and the error leaves the worker, whose process dies.
GateConflict(t, j) ==
  /\ AtPhase(t, j, "gate")
  /\ ActiveGate(gateStatus, runOf[j], "content")
  /\ Crash(t)
  /\ Committed(t)
  /\ UNCHANGED <<runStatus, exports, completions, gateVars>>

\* persist_completion with export evidence, up to write_exports: a COMPLETED
\* run is left alone, otherwise the files go to storage, outside any
\* transaction.
SkipExport(t, j) ==
  /\ AtPhase(t, j, "export")
  /\ runStatus[runOf[j]] = "COMPLETED"
  /\ FinishOk(t, j)
  /\ Committed(t)
  /\ UNCHANGED <<runStatus, exports, completions, gateVars>>

WriteExports(t, j) ==
  /\ AtPhase(t, j, "export")
  /\ runStatus[runOf[j]] # "COMPLETED"
  /\ exports' = [exports EXCEPT ![runOf[j]] = IF @ = "none" THEN "files" ELSE @]
  /\ phase' = [phase EXCEPT ![t] = "written"]
  /\ UNCHANGED <<vars, runStatus, checkpoint, pauses, completions, gateVars, workVars, reqGate,
                 seenPause, admin>>

\* Mutation of RecordExports: the recorder was built without an export store.
RecordExports_NoStore(r) == UNCHANGED exports

\* create_export_record for every file.
RecordExports(r) == exports' = [exports EXCEPT ![r] = "recorded"]

\* The export records, then EXPORTING and COMPLETED.  The records are committed
\* even when the table rejects the transition.
PersistExport(t, j) ==
  LET r == runOf[j] IN
  /\ AtPhase(t, j, "written")
  /\ RecordExports(r)
  /\ \/ /\ CanMove(runStatus[r], "EXPORTING")
        /\ CanMove("EXPORTING", "COMPLETED")
        /\ runStatus' = [runStatus EXCEPT ![r] = "COMPLETED"]
        /\ completions' = [completions EXCEPT ![r] = @ + 1]
        /\ FinishOk(t, j)
     \/ /\ ~CanMove(runStatus[r], "EXPORTING")
        /\ runStatus' = [runStatus EXCEPT ![r] = AfterFailure(@)]
        /\ UNCHANGED completions
        /\ FinishPermanent(t, j)
  /\ Committed(t)
  /\ UNCHANGED gateVars

\* _persist_quality_recovery: the run goes back to PLANNING, no gate is opened and
\* no job is queued.  A rejected transition is handled as in _persist_content_gate.
PersistRecovery(t, j) ==
  LET r == runOf[j] IN
  /\ AtPhase(t, j, "recovery")
  /\ \/ /\ CanMove(runStatus[r], "PLANNING")
        /\ runStatus' = [runStatus EXCEPT ![r] = "PLANNING"]
        /\ FinishOk(t, j)
     \/ /\ ~CanMove(runStatus[r], "PLANNING")
        /\ runStatus' = [runStatus EXCEPT ![r] = AfterFailure(@)]
        /\ FinishPermanent(t, j)
  /\ Committed(t)
  /\ UNCHANGED <<exports, completions, gateVars>>

\* persist_completion without a content gate, a recovery route and export
\* evidence: an interrupt of another kind, or an export of nothing.
PersistNothing(t, j) ==
  LET r == runOf[j] IN
  /\ AtPhase(t, j, "nothing")
  /\ runStatus' = [runStatus EXCEPT ![r] = AfterFailure(@)]
  /\ \/ CanMove(runStatus[r], "FAILED") /\ FinishOk(t, j)
     \/ ~CanMove(runStatus[r], "FAILED") /\ FinishPermanent(t, j)
  /\ Committed(t)
  /\ UNCHANGED <<exports, completions, gateVars>>

\* The graph raised: persist_failure, then _handle_job_error.  If persist_failure
\* itself raises, its exception replaces the provider's and is not transient.
PersistError(t, j) ==
  LET r == runOf[j] IN
  /\ taskJob[t] = j
  /\ phase[t] \in {"transient", "permanent"}
  /\ runStatus' = [runStatus EXCEPT ![r] = AfterFailure(@)]
  /\ \/ phase[t] = "transient" /\ CanMove(runStatus[r], "FAILED") /\ FinishTransient(t, j)
     \/ phase[t] = "transient" /\ ~CanMove(runStatus[r], "FAILED") /\ FinishPermanent(t, j)
     \/ phase[t] = "permanent" /\ FinishPermanent(t, j)
  /\ Committed(t)
  /\ UNCHANGED <<exports, completions, gateVars>>

\* The process dies before the transaction commits; the checkpoint and the
\* files written so far survive.
WorkerCrash(t) ==
  /\ Crash(t)
  /\ Committed(t)
  /\ UNCHANGED <<runStatus, exports, completions, gateVars>>

-----------------------------------------------------------------------------
(* Operators and the gate sweep.                                           *)

AdminUsed == admin < MaxAdmin /\ admin' = admin + 1

AdminCancellable(r) == runStatus[r] \notin {"absent", "COMPLETED", "CANCELLED"}

\* _cancel_run: the status alone, past the table; jobs and gates are left.
AdminCancel(r) ==
  /\ AdminUsed
  /\ AdminCancellable(r)
  /\ runStatus' = [runStatus EXCEPT ![r] = "CANCELLED"]
  /\ UNCHANGED <<vars, checkpoint, pauses, exports, completions, gateVars, workVars, reqGate, execVars>>

Latest(g, S) == g \in S /\ \A h \in S : h <= g

\* _reopen_gate: the latest answered or expired gate becomes ACTIVE.
AdminReopenGate(r, g) ==
  /\ AdminUsed
  /\ Latest(g, {h \in Gates : gateRun[h] = r /\ gateStatus[h] \in {"RESPONDED", "EXPIRED"}})
  /\ ~ActiveGate(gateStatus, r, gateName[g])
  /\ gateStatus' = [gateStatus EXCEPT ![g] = "ACTIVE"]
  /\ UNCHANGED <<vars, runVars, gateRun, gateName, gatePause, answered, applied, gateSweep,
                 workVars, reqGate, execVars>>

\* _mark_escalated: the latest active gate becomes EXPIRED.
AdminMarkEscalated(r, g) ==
  /\ AdminUsed
  /\ Latest(g, {h \in Gates : gateRun[h] = r /\ gateStatus[h] = "ACTIVE"})
  /\ gateStatus' = [gateStatus EXCEPT ![g] = "EXPIRED"]
  /\ UNCHANGED <<vars, runVars, gateRun, gateName, gatePause, answered, applied, gateSweep,
                 workVars, reqGate, execVars>>

\* sweep_escalated_gates: an unlocked SELECT of gates open for more than a day
\* (any ACTIVE gate may be that old), and a blind UPDATE by primary key.
GateSweepRead(S) ==
  /\ AdminUsed
  /\ gateSweep = {}
  /\ S # {}
  /\ S \subseteq {g \in Gates : gateStatus[g] = "ACTIVE"}
  /\ gateSweep' = S
  /\ UNCHANGED <<vars, runVars, gateRun, gateName, gateStatus, gatePause, answered, applied,
                 workVars, reqGate, execVars>>

\* Mutation of GateSweepWrite: the gates are closed for good.
GateSweepWrite_Cancels ==
  /\ gateSweep # {}
  /\ gateStatus' = [g \in Gates |-> IF g \in gateSweep THEN "CANCELLED" ELSE gateStatus[g]]
  /\ gateSweep' = {}
  /\ UNCHANGED <<vars, runVars, gateRun, gateName, gatePause, answered, applied,
                 workVars, reqGate, execVars, admin>>

GateSweepWrite ==
  /\ gateSweep # {}
  /\ gateStatus' = [g \in Gates |-> IF g \in gateSweep THEN "EXPIRED" ELSE gateStatus[g]]
  /\ gateSweep' = {}
  /\ UNCHANGED <<vars, runVars, gateRun, gateName, gatePause, answered, applied,
                 workVars, reqGate, execVars, admin>>

\* Steps of the queue that touch nothing else.
QueueOnly ==
  /\ \/ \E t \in Tasks : Heartbeat(t)
     \/ ClockStep
     \/ RecoveryStep
  /\ UNCHANGED lifeVars

-----------------------------------------------------------------------------
CreateStep ==
  \E r \in Runs :
    \/ \E j \in Jobs, delayed \in BOOLEAN : CreateReady(r, j, delayed)
    \/ CreateDuplicate(r)
    \/ \E g \in Gates, name \in {"clarification", "contract"} : CreateGated(r, g, name)

TeacherStep ==
  \/ \E q \in Requests, g \in Gates :
       \/ ResumeRead(q, g)
       \/ \E j \in Jobs : ResumeStart(q, g, j) \/ ResumeGraph(q, g, j)
       \/ \E h \in Gates : ResumeSearchGate(q, g, h)
  \/ \E q \in Requests : ResumeRejected(q)
  \/ \E r \in Runs : TeacherCancel(r) \/ \E j \in Jobs : RequestRevision(r, j)

WorkerStep ==
  \E t \in Tasks :
    \/ \E j \in Jobs :
         \/ StartExecution(t, j)
         \/ AtPhase(t, j, "invoking") /\ GraphReturns(t, j)
         \/ \E g \in Gates : PersistGate(t, j, g)
         \/ GateConflict(t, j)
         \/ SkipExport(t, j)
         \/ WriteExports(t, j)
         \/ PersistExport(t, j)
         \/ PersistRecovery(t, j)
         \/ PersistNothing(t, j)
         \/ PersistError(t, j)
    \/ WorkerCrash(t)

OperatorStep ==
  \/ \E r \in Runs : AdminCancel(r) \/ \E g \in Gates : AdminReopenGate(r, g) \/ AdminMarkEscalated(r, g)
  \/ \E S \in SUBSET Gates : GateSweepRead(S)
  \/ GateSweepWrite

RunNext == CreateStep \/ TeacherStep \/ WorkerStep \/ OperatorStep \/ QueueOnly

RunSpec == RunInit /\ [][RunNext]_allVars

-----------------------------------------------------------------------------
(* Properties.                                                             *)

OutcomeOf(s) ==
  CASE s = "absent"    -> "none"
    [] s = "COMPLETED" -> "completed"
    [] s = "FAILED"    -> "failed"
    [] s = "CANCELLED" -> "cancelled"
    [] OTHER           -> "open"

Promise == INSTANCE RunPromise WITH
  outcome   <- [r \in Runs |-> OutcomeOf(runStatus[r])],
  announced <- completions

\* The gateway implements RunPromise: late workers, replays, racing requests
\* and recoveries never move a run out of COMPLETED or CANCELLED, revive a
\* FAILED run or announce a completion twice, because every transition
\* re-reads the status under the row lock and consults the table.
PromiseKept == Promise!PromiseSpec

\* A run is COMPLETED exactly when one completion was announced, and only
\* after its export records were committed in the same transaction.
CompletionRecorded ==
  \A r \in Runs :
    /\ completions[r] = IF runStatus[r] = "COMPLETED" THEN 1 ELSE 0
    /\ runStatus[r] = "COMPLETED" => exports[r] = "recorded"

\* However many requests answer a gate at once, the teacher's decision is
\* queued for the graph at most once: respond_to_gate takes no lock and relies
\* on the unique constraint of gate_responses.
OneJobPerAnswer ==
  \A j, k \in Jobs : j # k /\ jobGate[j] # NoGate => jobGate[j] # jobGate[k]

Working(r) == runStatus[r] \notin Terminal \cup {"absent"}

\* An unfinished run that ever got a job or a gate keeps a handle on which
\* somebody can act: a job that will run or can be replayed, or a gate that
\* can be answered or reopened.  Two states are excepted, in which the code does
\* strand a run: PLANNING, where PersistRecovery leaves it, and the run of the
\* loser of an idempotency race, which never gets a job or a gate
\* (CreateDuplicate).
NoStrandedRun ==
  \A r \in Runs :
    /\ Working(r) /\ runStatus[r] # "PLANNING"
    /\ (\E j \in Jobs : runOf[j] = r) \/ (\E g \in Gates : gateRun[g] = r)
    => \/ \E j \in Jobs : runOf[j] = r /\ jobStatus[j] \in LiveJob \cup {"DEAD_LETTER"}
       \/ \E g \in Gates : gateRun[g] = r /\ gateStatus[g] \in {"ACTIVE", "EXPIRED"}

-----------------------------------------------------------------------------
(* What the documentation says and the code does not do.                   *)

\* docs/adr/011: "Gate resume requires current `gate_interrupt_id` and expected
\* gate version": the answer to a content gate resumes only the interrupt the
\* gate was opened for.
AnswerReachesOnlyItsGate ==
  \A g \in Gates : gateName[g] = "content" => applied[g] \subseteq {gatePause[g]}

=============================================================================
