------------------------------ MODULE EventLog ------------------------------
(***************************************************************************)
(* The event ledger of one run, its outbox, the in-process wake-ups and    *)
(* the status streams (services/gateway: teaching_pack_store.py,           *)
(* run_event_outbox.py, teaching_pack_event_bus.py,                        *)
(* routers/teaching_pack_stream.py, and the worker's publishing calls).    *)
(*                                                                         *)
(* A session is a database session of a request or a worker task.  It      *)
(* writes events and acknowledges outbox rows in one transaction; the      *)
(* advisory lock of write_event is held until that transaction ends.  The  *)
(* ledger and the outbox hold committed rows only; what a transaction      *)
(* wrote is in tx variables until it commits.  Statements see what was     *)
(* committed before them (READ COMMITTED).                                 *)
(*                                                                         *)
(* The bus's version counter is only ever compared with the value a stream *)
(* has read: fresh[c] says that they are still equal.  The status          *)
(* "publishing" is never committed, because every caller claims and marks  *)
(* in one transaction: a claim is the row lock of that transaction.        *)
(***************************************************************************)
EXTENDS Naturals, Sequences

CONSTANTS
  Sessions,   \* database sessions that write events or publish the outbox
  Clients,    \* browsers that follow the run
  Procs,      \* processes: the gateway and the standalone worker
  ProcOf,     \* the process of each session and of each client's stream
  NoSession,  \* the advisory lock is free
  MaxSeq,     \* bound: events of the run
  MaxFaults   \* bound: rollbacks, crashes, failing wake-ups, disconnects

ASSUME LogAssumption ==
  /\ ProcOf \in [Sessions \cup Clients -> Procs]
  /\ NoSession \notin Sessions
  /\ MaxSeq \in Nat
  /\ MaxFaults \in Nat

VARIABLES
  ledger,      \* committed rows of run_events
  outbox,      \* committed run_event_outbox.status of each sequence number
  lock,        \* holder of pg_advisory_xact_lock(hashtext(run_id))
  txPc,        \* where a session is
  txRows,      \* events its transaction has inserted
  txClaimed,   \* outbox rows it has locked and not yet handled
  txPublished, \* outbox rows it has marked published
  txRetry,     \* outbox rows it has put back with a delay
  pc,          \* where a client's stream generator is
  first,       \* the stream is in its initial replay
  last,        \* last_sequence of the stream
  batch,       \* rows it has read and not yet yielded
  fresh,       \* no wake-up since it read the bus's version
  received,    \* history: ids the client received, over all connections
  faults       \* how much of MaxFaults is used

tableVars  == <<ledger, outbox>>
txVars     == <<lock, txPc, txRows, txClaimed, txPublished, txRetry>>
streamVars == <<pc, first, last, batch, fresh, received>>
vars       == <<tableVars, txVars, streamVars, faults>>

Numbers == 1..MaxSeq

\* A row: its number, whether its visibility is TEACHER, and, as history, the
\* process that wrote it.
Rows == [sequence : Numbers, teacher : BOOLEAN, by : Procs]

NumbersOf(R) == {e.sequence : e \in R}

\* Types of the tables, of the open transactions and of the streams.
EventTypeOK ==
  /\ ledger \in SUBSET Rows
  /\ outbox \in [Numbers -> {"absent", "pending", "deferred", "published"}]
  /\ lock \in Sessions \cup {NoSession}
  /\ txPc \in [Sessions -> {"idle", "open", "publishing", "committed"}]
  /\ txRows \in [Sessions -> SUBSET Rows]
  /\ txClaimed \in [Sessions -> SUBSET Numbers]
  /\ txPublished \in [Sessions -> SUBSET Numbers]
  /\ txRetry \in [Sessions -> SUBSET Numbers]
  /\ pc \in [Clients -> {"off", "first", "loop", "replay", "wait", "parked",
                         "orphaned", "again", "yield"}]
  /\ first \in [Clients -> BOOLEAN]
  /\ last \in [Clients -> {0} \cup Numbers]
  /\ batch \in [Clients -> SUBSET Rows]
  /\ fresh \in [Clients -> BOOLEAN]
  /\ received \in [Clients -> Seq(Numbers)]
  /\ faults \in Nat

LogInit ==
  /\ ledger = {}
  /\ outbox = [n \in Numbers |-> "absent"]
  /\ lock = NoSession
  /\ txPc = [s \in Sessions |-> "idle"]
  /\ txRows = [s \in Sessions |-> {}]
  /\ txClaimed = [s \in Sessions |-> {}]
  /\ txPublished = [s \in Sessions |-> {}]
  /\ txRetry = [s \in Sessions |-> {}]
  /\ pc = [c \in Clients |-> "off"]
  /\ first = [c \in Clients |-> FALSE]
  /\ last = [c \in Clients |-> 0]
  /\ batch = [c \in Clients |-> {}]
  /\ fresh = [c \in Clients |-> FALSE]
  /\ received = [c \in Clients |-> << >>]
  /\ faults = 0

-----------------------------------------------------------------------------
(* Writing events.                                                         *)

\* Mutation of LockFree: the advisory lock is not waited for.
LockFree_Never(s) == s \in Sessions

LockFree(s) == lock \in {NoSession, s}

\* n is max(sequence) + 1 over what the session sees: the committed rows and
\* its own.
NextSequence(s, n) ==
  /\ n \in Numbers
  /\ n = 1 \/ n - 1 \in NumbersOf(ledger \cup txRows[s])
  /\ \A m \in NumbersOf(ledger \cup txRows[s]) : m < n

\* write_event and write_observability_event: take the lock, number the row,
\* insert it and its outbox row, remember to notify after the commit.
WriteEvent(s, teacher) ==
  /\ txPc[s] \in {"idle", "open"}
  /\ LockFree(s)
  /\ \E n \in Numbers :
       /\ NextSequence(s, n)
       /\ txRows' = [txRows EXCEPT ![s] = @ \cup
            {[sequence |-> n, teacher |-> teacher, by |-> ProcOf[s]]}]
  /\ lock' = s
  /\ txPc' = [txPc EXCEPT ![s] = "open"]
  /\ UNCHANGED <<tableVars, txClaimed, txPublished, txRetry, streamVars, faults>>

-----------------------------------------------------------------------------
(* Wake-ups and the outbox.                                                *)

\* notify_run_event in process p: the version moves, every waiter of that
\* process is taken off the list and those in W are set.
Notify(p, W) ==
  /\ fresh' = [c \in Clients |-> fresh[c] /\ ProcOf[c] # p]
  /\ pc' = [c \in Clients |->
       IF pc[c] # "parked" \/ ProcOf[c] # p THEN pc[c]
       ELSE IF c \in W THEN "again" ELSE "orphaned"]
  /\ UNCHANGED <<first, last, batch, received>>

\* Outbox rows some transaction holds, and those another one does.
Held(s)       == txClaimed[s] \cup txPublished[s] \cup txRetry[s]
HeldByOthers(s) == UNION {Held(t) : t \in Sessions \ {s}}

\* claim_batch: pending rows whose delay is over, committed or the session's
\* own, that no other transaction has locked (SKIP LOCKED).
Claimable(s) ==
  ({n \in Numbers : outbox[n] = "pending"} \cup NumbersOf(txRows[s]))
    \ (Held(s) \cup HeldByOthers(s))

ClaimBatch(s) ==
  /\ txPc[s] \in {"idle", "open"}
  /\ Claimable(s) # {}
  /\ txClaimed' = [txClaimed EXCEPT ![s] = Claimable(s)]
  /\ txPc' = [txPc EXCEPT ![s] = "publishing"]
  /\ UNCHANGED <<tableVars, lock, txRows, txPublished, txRetry, streamVars, faults>>

\* The next claimed row, in the order of the query.
FirstOf(s, n) == n \in txClaimed[s] /\ \A m \in txClaimed[s] : n <= m

\* After the last row the transaction goes on to its commit.
HandledRow(s, n) ==
  /\ txClaimed' = [txClaimed EXCEPT ![s] = @ \ {n}]
  /\ txPc' = [txPc EXCEPT ![s] = IF txClaimed[s] = {n} THEN "open" ELSE @]

\* notify_run_event and mark_published for one row.
PublishItem(s) ==
  /\ txPc[s] = "publishing"
  /\ \E n \in Numbers :
       /\ FirstOf(s, n)
       /\ HandledRow(s, n)
       /\ txPublished' = [txPublished EXCEPT ![s] = @ \cup {n}]
  /\ Notify(ProcOf[s], Clients)
  /\ UNCHANGED <<tableVars, lock, txRows, txRetry, faults>>

\* The wake-up raises after some waiters were set; mark_retry delays the row.
PublishFails(s) ==
  /\ txPc[s] = "publishing"
  /\ faults < MaxFaults
  /\ \E n \in Numbers :
       /\ FirstOf(s, n)
       /\ HandledRow(s, n)
       /\ txRetry' = [txRetry EXCEPT ![s] = @ \cup {n}]
  /\ \E W \in SUBSET Clients : Notify(ProcOf[s], W)
  /\ faults' = faults + 1
  /\ UNCHANGED <<tableVars, lock, txRows, txPublished>>

\* available_at of the delayed rows passes.
DelayElapses ==
  /\ \E n \in Numbers : outbox[n] = "deferred"
  /\ outbox' = [n \in Numbers |-> IF outbox[n] = "deferred" THEN "pending" ELSE outbox[n]]
  /\ UNCHANGED <<ledger, txVars, streamVars, faults>>

-----------------------------------------------------------------------------
(* The end of a transaction.                                               *)

\* The sessions S have no transaction any more; state p follows.
EndTx(S, p) ==
  /\ txPc' = [s \in Sessions |-> IF s \in S THEN p ELSE txPc[s]]
  /\ txClaimed' = [s \in Sessions |-> IF s \in S THEN {} ELSE txClaimed[s]]
  /\ txPublished' = [s \in Sessions |-> IF s \in S THEN {} ELSE txPublished[s]]
  /\ txRetry' = [s \in Sessions |-> IF s \in S THEN {} ELSE txRetry[s]]
  /\ lock' = IF lock \in S THEN NoSession ELSE lock

\* Mutation of OutboxAfter: mark_retry leaves the status as the claim set it.
OutboxAfter_RetryKept(s, n) ==
  IF n \in txPublished[s] THEN "published"
  ELSE IF n \in txRetry[s] THEN "publishing"
  ELSE IF n \in NumbersOf(txRows[s]) THEN "pending" ELSE outbox[n]

\* Mutation of OutboxAfter: the event is written without an outbox row.
OutboxAfter_NotEnqueued(s, n) ==
  IF n \in txPublished[s] THEN "published"
  ELSE IF n \in txRetry[s] THEN "deferred" ELSE outbox[n]

\* The committed status of an outbox row after the session's transaction:
\* mark_published, mark_retry, or enqueue for a row it has just inserted.
OutboxAfter(s, n) ==
  IF n \in txPublished[s] THEN "published"
  ELSE IF n \in txRetry[s] THEN "deferred"
  ELSE IF n \in NumbersOf(txRows[s]) THEN "pending" ELSE outbox[n]

\* The rows and the acknowledgements become visible and the lock is released.
Commit(s) ==
  /\ txPc[s] = "open"
  /\ ledger' = ledger \cup txRows[s]
  /\ outbox' = [n \in Numbers |-> OutboxAfter(s, n)]
  /\ EndTx({s}, IF txRows[s] = {} THEN "idle" ELSE "committed")
  /\ UNCHANGED <<txRows, streamVars, faults>>

\* The after_commit listener wakes the streams of this process only.
AfterCommit(s) ==
  /\ txPc[s] = "committed"
  /\ Notify(ProcOf[s], Clients)
  /\ txPc' = [txPc EXCEPT ![s] = "idle"]
  /\ txRows' = [txRows EXCEPT ![s] = {}]
  /\ UNCHANGED <<tableVars, lock, txClaimed, txPublished, txRetry, faults>>

\* Some statement failed: nothing of the transaction stays, nobody is woken.
Rollback(s) ==
  /\ txPc[s] \in {"open", "publishing"}
  /\ faults < MaxFaults
  /\ EndTx({s}, "idle")
  /\ txRows' = [txRows EXCEPT ![s] = {}]
  /\ faults' = faults + 1
  /\ UNCHANGED <<tableVars, streamVars>>

\* The streams in C end; the browsers will reconnect.
Drop(C) ==
  /\ pc' = [c \in Clients |-> IF c \in C THEN "off" ELSE pc[c]]
  /\ batch' = [c \in Clients |-> IF c \in C THEN {} ELSE batch[c]]
  /\ UNCHANGED <<first, last, fresh, received>>

\* A process dies: its transactions are rolled back, the wake-ups of its
\* committed ones are lost and its streams end.
Crash(p) ==
  /\ faults < MaxFaults
  /\ EndTx({s \in Sessions : ProcOf[s] = p}, "idle")
  /\ txRows' = [s \in Sessions |-> IF ProcOf[s] = p THEN {} ELSE txRows[s]]
  /\ Drop({c \in Clients : ProcOf[c] = p})
  /\ faults' = faults + 1
  /\ UNCHANGED tableVars

-----------------------------------------------------------------------------
(* The status stream.                                                      *)

\* EventSource sends the id of the last event it received.
LastEventId(c) == IF received[c] = << >> THEN 0 ELSE received[c][Len(received[c])]

Connect(c) ==
  /\ pc[c] = "off"
  /\ pc' = [pc EXCEPT ![c] = "first"]
  /\ last' = [last EXCEPT ![c] = LastEventId(c)]
  /\ first' = [first EXCEPT ![c] = TRUE]
  /\ UNCHANGED <<tableVars, txVars, batch, fresh, received, faults>>

Disconnect(c) ==
  /\ pc[c] # "off"
  /\ faults < MaxFaults
  /\ Drop({c})
  /\ faults' = faults + 1
  /\ UNCHANGED <<tableVars, txVars>>

\* replay_events(after_sequence = last_sequence).
Unread(c) == {e \in ledger : e.sequence > last[c]}

\* The initial replay, and the replay after a wait.
ReplayAll(c) ==
  /\ pc[c] \in {"first", "again"}
  /\ batch' = [batch EXCEPT ![c] = Unread(c)]
  /\ pc' = [pc EXCEPT ![c] = "yield"]
  /\ UNCHANGED <<tableVars, txVars, first, last, fresh, received, faults>>

\* last_sequence after row e: the initial replay moves it for teacher events
\* only, the loop for every row.
Advanced(c, e) ==
  IF (e.teacher \/ ~first[c]) /\ e.sequence > last[c] THEN e.sequence ELSE last[c]

YieldNext(c) ==
  /\ pc[c] = "yield"
  /\ \E e \in batch[c] :
       /\ \A f \in batch[c] : e.sequence <= f.sequence
       /\ last' = [last EXCEPT ![c] = Advanced(c, e)]
       /\ batch' = [batch EXCEPT ![c] = @ \ {e}]
       /\ received' = [received EXCEPT ![c] =
            IF e.teacher THEN Append(@, e.sequence) ELSE @]
  /\ UNCHANGED <<tableVars, txVars, pc, first, fresh, faults>>

EndBatch(c) ==
  /\ pc[c] = "yield"
  /\ batch[c] = {}
  /\ pc' = [pc EXCEPT ![c] = "loop"]
  /\ first' = [first EXCEPT ![c] = FALSE]
  /\ UNCHANGED <<tableVars, txVars, last, batch, fresh, received, faults>>

\* observed_version = current_run_event_version(run_id)
ReadVersion(c) ==
  /\ pc[c] = "loop"
  /\ pc' = [pc EXCEPT ![c] = "replay"]
  /\ fresh' = [fresh EXCEPT ![c] = TRUE]
  /\ UNCHANGED <<tableVars, txVars, first, last, batch, received, faults>>

\* The replay before the wait.
Replay(c) ==
  /\ pc[c] = "replay"
  /\ batch' = [batch EXCEPT ![c] = Unread(c)]
  /\ pc' = [pc EXCEPT ![c] = IF Unread(c) = {} THEN "wait" ELSE "yield"]
  /\ UNCHANGED <<tableVars, txVars, first, last, fresh, received, faults>>

\* Mutation of MustPark: the observed version is not compared.
MustPark_Always(c) == c \in Clients

MustPark(c) == fresh[c]

\* wait_for_run_event: a newer version returns at once, otherwise the waiter
\* is put on the list, both under the bus lock.
WaitForEvent(c) ==
  /\ pc[c] = "wait"
  /\ pc' = [pc EXCEPT ![c] = IF MustPark(c) THEN "parked" ELSE "again"]
  /\ UNCHANGED <<tableVars, txVars, first, last, batch, fresh, received, faults>>

\* Mutation of Expires: the wait has no timeout.
Expires_Never(c) == FALSE

\* The fifteen seconds are over, on the list or not.
Expires(c) == pc[c] \in {"parked", "orphaned"}

WaitTimeout(c) ==
  /\ Expires(c)
  /\ pc' = [pc EXCEPT ![c] = "again"]
  /\ UNCHANGED <<tableVars, txVars, first, last, batch, fresh, received, faults>>

-----------------------------------------------------------------------------

StreamStep(c) ==
  \/ Connect(c) \/ ReplayAll(c) \/ YieldNext(c) \/ EndBatch(c)
  \/ ReadVersion(c) \/ Replay(c) \/ WaitForEvent(c) \/ WaitTimeout(c)

FinishStep(s) == PublishItem(s) \/ Commit(s) \/ AfterCommit(s)

SessionStep(s) ==
  \/ \E teacher \in BOOLEAN : WriteEvent(s, teacher)
  \/ ClaimBatch(s) \/ PublishFails(s) \/ Rollback(s)
  \/ FinishStep(s)

LogNext ==
  \/ \E s \in Sessions : SessionStep(s)
  \/ \E c \in Clients : StreamStep(c) \/ Disconnect(c)
  \/ DelayElapses
  \/ \E p \in Procs : Crash(p)

LogSafety == LogInit /\ [][LogNext]_vars

\* A request or worker that has begun a transaction goes on with it, every
\* worker batch starts by publishing, and a stream is driven by its client's
\* connection, its own timeout or the next event.
LogFairness ==
  /\ \A s \in Sessions : WF_vars(FinishStep(s)) /\ WF_vars(ClaimBatch(s))
  /\ \A c \in Clients : WF_vars(StreamStep(c))
  /\ WF_vars(DelayElapses)

LogSpec == LogSafety /\ LogFairness

-----------------------------------------------------------------------------
(* Properties.                                                             *)

\* The teacher events of a run are received by every client as a prefix of
\* the ledger's order, without gaps or repetitions over all its connections:
\* the lock of _next_sequence and the Last-Event-ID replay implement EventFeed.
Feed == INSTANCE EventFeed WITH
          feed <- NumbersOf({e \in ledger : e.teacher}), received <- received

FeedImplemented == Feed!FeedSpec

\* A stream that is parked on the bus has not missed a wake-up: what its own
\* process has committed and it has not read is still to be notified
\* (wait_for_run_event compares the version under the lock).
NoLostWakeup ==
  \A c \in Clients : \A e \in ledger :
    pc[c] = "parked" /\ e.sequence > last[c] /\ e.by = ProcOf[c] =>
      \E s \in Sessions : txPc[s] = "committed" /\ e \in txRows[s]

\* Every committed teacher event reaches every client, also the events of
\* other processes, whose wake-ups stream_visible_run_events never hears.
EveryEventDelivered ==
  \A c \in Clients, n \in Numbers :
    (\E e \in ledger : e.sequence = n /\ e.teacher)
      ~> (n \in Feed!Elements(received[c]))

\* Every outbox row of a committed event ends up published, whatever crashes
\* between the wake-up and the acknowledgement.
OutboxDrained ==
  \A n \in Numbers : (n \in NumbersOf(ledger)) ~> (outbox[n] = "published")

=============================================================================
