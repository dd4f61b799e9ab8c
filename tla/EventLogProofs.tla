--------------------------- MODULE EventLogProofs ---------------------------
(***************************************************************************)
(* Proofs about EventLog.                                                  *)
(***************************************************************************)
EXTENDS EventLog, SequenceTheorems, TLAPS

-----------------------------------------------------------------------------
(* The inductive invariant.                                                *)

Writing(s) == txPc[s] \in {"open", "publishing"}

\* A transaction that has inserted rows and is not over holds the advisory
\* lock, and its rows come after everything committed.
WritersInv ==
  \A s \in Sessions :
    /\ txPc[s] = "idle" => txRows[s] = {}
    /\ Writing(s) /\ txRows[s] # {} =>
         /\ lock = s
         /\ \A e \in txRows[s], f \in ledger : f.sequence < e.sequence

\* A sequence number is given to one row.
NumbersInv ==
  /\ \A e, f \in ledger : e.sequence = f.sequence => e = f
  /\ \A s \in Sessions : \A e, f \in txRows[s] : e.sequence = f.sequence => e = f

\* The rows of a session were written by its process.
ByInv == \A s \in Sessions : \A e \in txRows[s] : e.by = ProcOf[s]

TxInv == WritersInv /\ NumbersInv /\ ByInv

\* What a stream that is about to wait has not read is still to be notified.
WakeupInv ==
  \A c \in Clients : \A e \in ledger :
    /\ pc[c] = "parked" \/ (pc[c] = "wait" /\ fresh[c])
    /\ e.sequence > last[c] /\ e.by = ProcOf[c]
    => \E s \in Sessions : txPc[s] = "committed" /\ e \in txRows[s]

Got(c) == Feed!Elements(received[c])

\* What a client has received are the teacher events up to last_sequence, the
\* last id it received is the greatest, and the batch in hand is, but for rows
\* that are not for teachers, what comes next in the ledger.
StreamInv(c) ==
  /\ last[c] = 0 \/ last[c] \in NumbersOf(ledger)
  /\ \A n \in Got(c) : /\ n <= last[c] /\ n <= LastEventId(c)
                       /\ \E e \in ledger : e.teacher /\ e.sequence = n
  /\ \A e \in ledger : e.teacher /\ e.sequence <= last[c] => e.sequence \in Got(c)
  /\ batch[c] \subseteq ledger
  /\ pc[c] # "yield" => batch[c] = {}
  /\ \A e \in batch[c] : e.sequence > last[c]
  /\ \A e \in ledger \ batch[c], f \in batch[c] :
       e.teacher /\ e.sequence > last[c] => e.sequence > f.sequence

StreamsInv == \A c \in Clients : StreamInv(c)

LogInv == EventTypeOK /\ TxInv /\ WakeupInv /\ StreamsInv

-----------------------------------------------------------------------------
(* Types.                                                                  *)

TableTypes ==
  /\ ledger \in SUBSET Rows
  /\ outbox \in [Numbers -> {"absent", "pending", "deferred", "published"}]

TxTypes ==
  /\ lock \in Sessions \cup {NoSession}
  /\ txPc \in [Sessions -> {"idle", "open", "publishing", "committed"}]
  /\ txRows \in [Sessions -> SUBSET Rows]
  /\ txClaimed \in [Sessions -> SUBSET Numbers]
  /\ txPublished \in [Sessions -> SUBSET Numbers]
  /\ txRetry \in [Sessions -> SUBSET Numbers]

StreamTypes ==
  /\ pc \in [Clients -> {"off", "first", "loop", "replay", "wait", "parked",
                         "orphaned", "again", "yield"}]
  /\ first \in [Clients -> BOOLEAN]
  /\ last \in [Clients -> {0} \cup Numbers]
  /\ batch \in [Clients -> SUBSET Rows]
  /\ fresh \in [Clients -> BOOLEAN]
  /\ received \in [Clients -> Seq(Numbers)]

LEMMA TypeParts == EventTypeOK <=> TableTypes /\ TxTypes /\ StreamTypes /\ faults \in Nat
BY DEF EventTypeOK, TableTypes, TxTypes, StreamTypes

LEMMA TypeInit == LogInit => EventTypeOK
<1> SUFFICES ASSUME LogInit PROVE EventTypeOK
  OBVIOUS
<1>1. TableTypes
  BY DEF LogInit, TableTypes
<1>2. TxTypes
  BY DEF LogInit, TxTypes
<1>3. StreamTypes
  <2>1. << >> \in Seq(Numbers)
    OBVIOUS
  <2> QED BY <2>1 DEF LogInit, StreamTypes
<1>4. faults \in Nat
  BY DEF LogInit
<1> QED BY <1>1, <1>2, <1>3, <1>4, TypeParts

\* What ends a transaction, wakes the streams or ends them keeps the types.
LEMMA EndTypes ==
  ASSUME TxTypes, NEW S \in SUBSET Sessions, NEW p \in {"idle", "committed"}, EndTx(S, p),
         txRows' \in [Sessions -> SUBSET Rows]
  PROVE  TxTypes'
<1> USE DEF TxTypes, EndTx
<1>1. lock' \in Sessions \cup {NoSession}
  OBVIOUS
<1>2. txPc' \in [Sessions -> {"idle", "open", "publishing", "committed"}]
  OBVIOUS
<1>3. /\ txClaimed' \in [Sessions -> SUBSET Numbers]
      /\ txPublished' \in [Sessions -> SUBSET Numbers]
      /\ txRetry' \in [Sessions -> SUBSET Numbers]
  OBVIOUS
<1> QED BY <1>1, <1>2, <1>3

LEMMA NotifyTypes ==
  ASSUME StreamTypes, NEW p, NEW W, Notify(p, W)
  PROVE  StreamTypes'
<1> USE DEF StreamTypes, Notify
<1>1. fresh' \in [Clients -> BOOLEAN]
  OBVIOUS
<1>2. pc' \in [Clients -> {"off", "first", "loop", "replay", "wait", "parked",
                           "orphaned", "again", "yield"}]
  OBVIOUS
<1> QED BY <1>1, <1>2

LEMMA DropTypes ==
  ASSUME StreamTypes, NEW C, Drop(C)
  PROVE  StreamTypes'
<1> USE DEF StreamTypes, Drop
<1>1. batch' \in [Clients -> SUBSET Rows]
  OBVIOUS
<1>2. pc' \in [Clients -> {"off", "first", "loop", "replay", "wait", "parked",
                           "orphaned", "again", "yield"}]
  OBVIOUS
<1> QED BY <1>1, <1>2

LEMMA SessionTypes ==
  ASSUME EventTypeOK, NEW s \in Sessions, SessionStep(s)
  PROVE  EventTypeOK'
<1>0. TableTypes /\ TxTypes /\ StreamTypes /\ faults \in Nat
  BY TypeParts
<1>1. ASSUME NEW teacher \in BOOLEAN, WriteEvent(s, teacher) PROVE EventTypeOK'
  <2>1. ProcOf[s] \in Procs
    BY LogAssumption DEF LogAssumption
  <2>2. PICK n \in Numbers : txRows' = [txRows EXCEPT ![s] = @ \cup
            {[sequence |-> n, teacher |-> teacher, by |-> ProcOf[s]]}]
    BY <1>1 DEF WriteEvent
  <2>3. [sequence |-> n, teacher |-> teacher, by |-> ProcOf[s]] \in Rows
    BY <2>1 DEF Rows
  <2>4. txRows' \in [Sessions -> SUBSET Rows]
    BY <1>0, <2>2, <2>3 DEF TxTypes
  <2>5. TxTypes'
    BY <1>0, <1>1, <2>4 DEF TxTypes, WriteEvent
  <2>6. TableTypes' /\ StreamTypes' /\ faults' \in Nat
    BY <1>0, <1>1 DEF WriteEvent, TableTypes, StreamTypes, tableVars, streamVars
  <2> QED BY <2>5, <2>6, TypeParts DEF EventTypeOK, TableTypes, TxTypes, StreamTypes
<1>2. CASE ClaimBatch(s)
  <2>1. Claimable(s) \subseteq Numbers
    BY <1>0 DEF Claimable, NumbersOf, TxTypes, Rows
  <2>2. TxTypes'
    BY <1>0, <1>2, <2>1 DEF TxTypes, ClaimBatch
  <2>3. TableTypes' /\ StreamTypes' /\ faults' \in Nat
    BY <1>0, <1>2 DEF ClaimBatch, TableTypes, StreamTypes, tableVars, streamVars
  <2> QED BY <2>2, <2>3 DEF EventTypeOK, TableTypes, TxTypes, StreamTypes
<1>3. CASE PublishItem(s)
  <2>1. TxTypes'
    BY <1>0, <1>3 DEF TxTypes, PublishItem, HandledRow
  <2>2. TableTypes' /\ StreamTypes' /\ faults' \in Nat
    BY <1>0, <1>3, NotifyTypes DEF PublishItem, TableTypes, tableVars
  <2> QED BY <2>1, <2>2 DEF EventTypeOK, TableTypes, TxTypes, StreamTypes
<1>4. CASE PublishFails(s)
  <2>1. TxTypes'
    BY <1>0, <1>4 DEF TxTypes, PublishFails, HandledRow
  <2>2. TableTypes' /\ StreamTypes' /\ faults' \in Nat
    BY <1>0, <1>4, NotifyTypes DEF PublishFails, TableTypes, tableVars
  <2> QED BY <2>1, <2>2 DEF EventTypeOK, TableTypes, TxTypes, StreamTypes
<1>5. CASE Rollback(s)
  <2>1. TxTypes'
    BY <1>0, <1>5, EndTypes DEF TxTypes, Rollback
  <2>2. TableTypes' /\ StreamTypes' /\ faults' \in Nat
    BY <1>0, <1>5 DEF Rollback, TableTypes, StreamTypes, tableVars, streamVars
  <2> QED BY <2>1, <2>2 DEF EventTypeOK, TableTypes, TxTypes, StreamTypes
<1>6. CASE Commit(s)
  <2>1. TxTypes'
    BY <1>0, <1>6, EndTypes DEF TxTypes, Commit
  <2>2. outbox' \in [Numbers -> {"absent", "pending", "deferred", "published"}]
    BY <1>0, <1>6 DEF TableTypes, Commit, OutboxAfter
  <2>3. ledger' \in SUBSET Rows
    BY <1>0, <1>6 DEF TableTypes, TxTypes, Commit
  <2>4. StreamTypes' /\ faults' \in Nat
    BY <1>0, <1>6 DEF Commit, StreamTypes, streamVars
  <2> QED BY <2>1, <2>2, <2>3, <2>4 DEF EventTypeOK, TxTypes, StreamTypes
<1>7. CASE AfterCommit(s)
  <2>1. TxTypes'
    BY <1>0, <1>7 DEF TxTypes, AfterCommit
  <2>2. TableTypes' /\ StreamTypes' /\ faults' \in Nat
    BY <1>0, <1>7, NotifyTypes DEF AfterCommit, TableTypes, tableVars
  <2> QED BY <2>1, <2>2 DEF EventTypeOK, TableTypes, TxTypes, StreamTypes
<1> QED BY <1>1, <1>2, <1>3, <1>4, <1>5, <1>6, <1>7 DEF SessionStep, FinishStep

LEMMA ClientTypes ==
  ASSUME EventTypeOK, NEW c \in Clients, StreamStep(c)
  PROVE  EventTypeOK'
<1>0. TableTypes /\ TxTypes /\ StreamTypes /\ faults \in Nat
  BY TypeParts
<1>1. StreamTypes' => EventTypeOK'
  <2>1. UNCHANGED <<tableVars, txVars, faults>>
    BY DEF StreamStep, Connect, ReplayAll, YieldNext, EndBatch, ReadVersion, Replay,
           WaitForEvent, WaitTimeout
  <2> QED
    BY <1>0, <2>1 DEF EventTypeOK, TableTypes, TxTypes, StreamTypes, tableVars, txVars
<1> USE <1>0 DEF StreamTypes
<1>2. CASE Connect(c)
  <2>1. LastEventId(c) \in {0} \cup Numbers
    BY DEF LastEventId
  <2>2. StreamTypes'
    BY <1>2, <2>1 DEF Connect
  <2> QED BY <1>1, <2>2
<1>3. CASE ReplayAll(c) \/ Replay(c)
  <2>1. Unread(c) \subseteq Rows
    BY DEF Unread, TableTypes
  <2>2. StreamTypes'
    BY <1>3, <2>1 DEF ReplayAll, Replay
  <2> QED BY <1>1, <2>2
<1>4. CASE YieldNext(c)
  <2>1. PICK e \in batch[c] :
          /\ last' = [last EXCEPT ![c] = Advanced(c, e)]
          /\ batch' = [batch EXCEPT ![c] = @ \ {e}]
          /\ received' = [received EXCEPT ![c] =
               IF e.teacher THEN Append(@, e.sequence) ELSE @]
    BY <1>4 DEF YieldNext
  <2>2. e.sequence \in Numbers /\ Advanced(c, e) \in {0} \cup Numbers
    BY DEF Rows, Advanced
  <2>3. received' \in [Clients -> Seq(Numbers)]
    <3>1. Append(received[c], e.sequence) \in Seq(Numbers)
      BY <2>2
    <3> QED BY <2>1, <3>1
  <2>4. StreamTypes'
    BY <1>4, <2>1, <2>2, <2>3 DEF YieldNext
  <2> QED BY <1>1, <2>4
<1>5. CASE EndBatch(c) \/ ReadVersion(c)
  <2>1. StreamTypes'
    BY <1>5 DEF EndBatch, ReadVersion
  <2> QED BY <1>1, <2>1
<1>6. CASE WaitForEvent(c) \/ WaitTimeout(c)
  <2>1. StreamTypes'
    BY <1>6 DEF WaitForEvent, WaitTimeout
  <2> QED BY <1>1, <2>1
<1> QED BY <1>2, <1>3, <1>4, <1>5, <1>6 DEF StreamStep

LEMMA TypeStep == EventTypeOK /\ [LogNext]_vars => EventTypeOK'
<1> SUFFICES ASSUME EventTypeOK, [LogNext]_vars PROVE EventTypeOK'
  OBVIOUS
<1>0. TableTypes /\ TxTypes /\ StreamTypes /\ faults \in Nat
  BY TypeParts
<1>1. ASSUME NEW c \in Clients, Disconnect(c) PROVE EventTypeOK'
  <2>1. StreamTypes'
    BY <1>0, <1>1, DropTypes DEF Disconnect
  <2>2. TableTypes' /\ TxTypes' /\ faults' \in Nat
    BY <1>0, <1>1 DEF Disconnect, TableTypes, TxTypes, tableVars, txVars
  <2> QED BY <2>1, <2>2 DEF EventTypeOK, TableTypes, TxTypes, StreamTypes
<1>2. CASE DelayElapses
  <2>1. TableTypes'
    BY <1>0, <1>2 DEF DelayElapses, TableTypes
  <2>2. TxTypes' /\ StreamTypes' /\ faults' \in Nat
    BY <1>0, <1>2 DEF DelayElapses, TxTypes, StreamTypes, txVars, streamVars
  <2> QED BY <2>1, <2>2 DEF EventTypeOK, TableTypes, TxTypes, StreamTypes
<1>3. ASSUME NEW p \in Procs, Crash(p) PROVE EventTypeOK'
  <2>1. TxTypes'
    <3>1. txRows' \in [Sessions -> SUBSET Rows]
      BY <1>0, <1>3 DEF Crash, TxTypes
    <3> QED BY <1>0, <1>3, <3>1, EndTypes DEF Crash
  <2>2. StreamTypes'
    BY <1>0, <1>3, DropTypes DEF Crash
  <2>3. TableTypes' /\ faults' \in Nat
    BY <1>0, <1>3 DEF Crash, TableTypes, tableVars
  <2> QED BY <2>1, <2>2, <2>3 DEF EventTypeOK, TableTypes, TxTypes, StreamTypes
<1>4. CASE UNCHANGED vars
  BY <1>4 DEF vars, EventTypeOK, tableVars, txVars, streamVars
<1> QED BY <1>1, <1>2, <1>3, <1>4, SessionTypes, ClientTypes DEF LogNext

-----------------------------------------------------------------------------
(* Transactions.                                                           *)

LEMMA TxInit == LogInit => TxInv
BY DEF LogInit, TxInv, WritersInv, NumbersInv, ByInv

\* The committed rows change with a commit only, and a commit puts its rows
\* after all others.
LEMMA LedgerStep ==
  ASSUME TxInv, [LogNext]_vars
  PROVE  \/ ledger' = ledger
         \/ \E s \in Sessions :
              /\ Commit(s)
              /\ \A e \in ledger' : e \in ledger \/ e \in txRows[s]
              /\ \A e \in ledger' \ ledger, f \in ledger : f.sequence < e.sequence
<1>1. ASSUME NEW s \in Sessions, Commit(s)
      PROVE  /\ \A e \in ledger' : e \in ledger \/ e \in txRows[s]
             /\ \A e \in ledger' \ ledger, f \in ledger : f.sequence < e.sequence
  BY <1>1 DEF Commit, TxInv, WritersInv, Writing
<1>2. CASE UNCHANGED vars
  BY <1>2 DEF vars, tableVars
<1> QED
  BY <1>1, <1>2
  DEF LogNext, SessionStep, FinishStep, StreamStep, WriteEvent, ClaimBatch, PublishItem,
      PublishFails, AfterCommit, Rollback, Crash, Disconnect, DelayElapses, Connect,
      ReplayAll, YieldNext, EndBatch, ReadVersion, Replay, WaitForEvent, WaitTimeout,
      tableVars

\* The locals of the transactions that end.
LEMMA EndedTx ==
  ASSUME TxTypes, TxInv, NEW S \in SUBSET Sessions, EndTx(S, "idle"), UNCHANGED ledger,
         txRows' = [s \in Sessions |-> IF s \in S THEN {} ELSE txRows[s]]
  PROVE  TxInv'
<1>1. /\ \A s \in S : txRows'[s] = {}
      /\ \A s \in Sessions \ S : /\ txRows'[s] = txRows[s] /\ txPc'[s] = txPc[s]
                                 /\ lock = s => lock' = s
  BY DEF EndTx, TxTypes
<1> QED BY <1>1 DEF TxInv, WritersInv, NumbersInv, ByInv, Writing

LEMMA SessionTx ==
  ASSUME EventTypeOK, TxInv, NEW s \in Sessions, SessionStep(s)
  PROVE  TxInv'
<1>0. TableTypes /\ TxTypes
  BY TypeParts
<1>1. ASSUME NEW teacher \in BOOLEAN, WriteEvent(s, teacher) PROVE TxInv'
  <2>1. PICK n \in Numbers :
          /\ NextSequence(s, n)
          /\ txRows' = [txRows EXCEPT ![s] = @ \cup
               {[sequence |-> n, teacher |-> teacher, by |-> ProcOf[s]]}]
    BY <1>1 DEF WriteEvent
  <2> DEFINE r == [sequence |-> n, teacher |-> teacher, by |-> ProcOf[s]]
  <2>2. r.sequence = n /\ r.by = ProcOf[s]
    OBVIOUS
  <2>3. \A e \in ledger \cup txRows[s] : e.sequence < n
    BY <2>1 DEF NextSequence, NumbersOf
  <2>4. txRows'[s] = txRows[s] \cup {r}
    BY <1>0, <2>1 DEF TxTypes
  <2> HIDE DEF r
  <2>5. \A t \in Sessions \ {s} : txRows'[t] = txRows[t] /\ txPc'[t] = txPc[t]
    BY <1>0, <1>1, <2>1 DEF TxTypes, WriteEvent
  <2>6. \A t \in Sessions \ {s} : ~(Writing(t) /\ txRows[t] # {})
    <3>1. lock \in {NoSession, s} /\ NoSession \notin Sessions
      BY <1>1, LogAssumption DEF WriteEvent, LockFree, LogAssumption
    <3> QED BY <3>1 DEF TxInv, WritersInv
  <2>7. txPc'[s] = "open" /\ lock' = s /\ ledger' = ledger /\ txPc[s] \in {"idle", "open"}
    BY <1>0, <1>1 DEF TxTypes, WriteEvent, tableVars
  <2>8. \A e \in txRows[s], f \in ledger : f.sequence < e.sequence
    BY <2>7 DEF TxInv, WritersInv, Writing
  <2>9. WritersInv'
    <3> SUFFICES ASSUME NEW t \in Sessions
                 PROVE  /\ txPc'[t] = "idle" => txRows'[t] = {}
                        /\ Writing(t)' /\ txRows'[t] # {} =>
                             /\ lock' = t
                             /\ \A e \in txRows'[t], f \in ledger' : f.sequence < e.sequence
      BY DEF WritersInv
    <3>1. CASE t = s
      BY <2>2, <2>3, <2>4, <2>7, <2>8, <3>1
    <3>2. CASE t # s
      BY <2>5, <2>6, <3>2 DEF TxInv, WritersInv, Writing
    <3> QED BY <3>1, <3>2
  <2>10. NumbersInv'
    <3>1. \A e \in txRows[s] : e.sequence # n
      BY <1>0, <2>3 DEF TxTypes, Rows, Numbers
    <3> QED BY <2>2, <2>4, <2>5, <2>7, <3>1 DEF TxInv, NumbersInv
  <2>11. ByInv'
    BY <2>2, <2>4, <2>5 DEF TxInv, ByInv
  <2> QED BY <2>9, <2>10, <2>11 DEF TxInv
<1>2. CASE ClaimBatch(s) \/ PublishItem(s) \/ PublishFails(s)
  <2>1. /\ UNCHANGED <<ledger, lock, txRows>>
        /\ \A t \in Sessions \ {s} : txPc'[t] = txPc[t]
        /\ txPc'[s] \in {"open", "publishing"} /\ txPc[s] \in {"idle", "open", "publishing"}
    BY <1>0, <1>2
    DEF TxTypes, ClaimBatch, PublishItem, PublishFails, HandledRow, tableVars
  <2> QED BY <2>1 DEF TxInv, WritersInv, NumbersInv, ByInv, Writing
<1>3. CASE Rollback(s)
  <2>1. txRows' = [t \in Sessions |-> IF t \in {s} THEN {} ELSE txRows[t]]
    BY <1>0, <1>3 DEF Rollback, TxTypes
  <2>2. EndTx({s}, "idle") /\ UNCHANGED ledger
    BY <1>3 DEF Rollback, tableVars
  <2> QED BY <1>0, <2>1, <2>2, EndedTx
<1>4. CASE Commit(s)
  <2>1. /\ txPc[s] = "open" /\ txRows' = txRows /\ ledger' = ledger \cup txRows[s]
        /\ txPc'[s] = IF txRows[s] = {} THEN "idle" ELSE "committed"
        /\ \A t \in Sessions \ {s} : txPc'[t] = txPc[t] /\ (lock = t => lock' = t)
    BY <1>0, <1>4 DEF TxTypes, Commit, EndTx
  <2>2. ASSUME NEW t \in Sessions, Writing(t)', txRows[t] # {}
        PROVE  t # s /\ lock = t /\ txRows[s] = {}
    BY <2>1, <2>2 DEF TxInv, WritersInv, Writing
  <2>3. WritersInv'
    <3> SUFFICES ASSUME NEW t \in Sessions
                 PROVE  /\ txPc'[t] = "idle" => txRows'[t] = {}
                        /\ Writing(t)' /\ txRows'[t] # {} =>
                             /\ lock' = t
                             /\ \A e \in txRows'[t], f \in ledger' : f.sequence < e.sequence
      BY DEF WritersInv
    <3>1. txPc'[t] = "idle" => txRows'[t] = {}
      BY <2>1 DEF TxInv, WritersInv
    <3>2. ASSUME Writing(t)', txRows'[t] # {}
          PROVE  lock' = t /\ \A e \in txRows'[t], f \in ledger' : f.sequence < e.sequence
      <4>1. t # s /\ lock = t /\ txRows[s] = {} /\ txPc'[t] = txPc[t]
        BY <2>1, <2>2, <3>2
      <4> QED BY <2>1, <3>2, <4>1 DEF TxInv, WritersInv, Writing
    <3> QED BY <3>1, <3>2
  <2>4. NumbersInv'
    <3>1. \A e \in txRows[s], f \in ledger : f.sequence < e.sequence
      BY <2>1 DEF TxInv, WritersInv, Writing
    <3>2. \A e \in txRows[s], f \in ledger : f.sequence # e.sequence
      BY <1>0, <3>1 DEF TableTypes, TxTypes, Rows, Numbers
    <3> QED BY <2>1, <3>2 DEF TxInv, NumbersInv
  <2>5. ByInv'
    BY <2>1 DEF TxInv, ByInv
  <2> QED BY <2>3, <2>4, <2>5 DEF TxInv
<1>5. CASE AfterCommit(s)
  <2>1. /\ txPc[s] = "committed" /\ txRows'[s] = {} /\ txPc'[s] = "idle"
        /\ UNCHANGED <<ledger, lock>>
        /\ \A t \in Sessions \ {s} : txPc'[t] = txPc[t] /\ txRows'[t] = txRows[t]
    BY <1>0, <1>5 DEF TxTypes, AfterCommit, tableVars
  <2> QED BY <2>1 DEF TxInv, WritersInv, NumbersInv, ByInv, Writing
<1> QED BY <1>1, <1>2, <1>3, <1>4, <1>5 DEF SessionStep, FinishStep

LEMMA TxStep ==
  ASSUME EventTypeOK, TxInv, [LogNext]_vars
  PROVE  TxInv'
<1>1. ASSUME UNCHANGED <<ledger, txVars>> PROVE TxInv'
  BY <1>1 DEF TxInv, WritersInv, NumbersInv, ByInv, Writing, txVars
<1>2. ASSUME NEW p \in Procs, Crash(p) PROVE TxInv'
  <2> DEFINE S == {s \in Sessions : ProcOf[s] = p}
  <2>1. EndTx(S, "idle") /\ UNCHANGED ledger
    BY <1>2 DEF Crash, tableVars
  <2>2. txRows' = [s \in Sessions |-> IF s \in S THEN {} ELSE txRows[s]]
    BY <1>2 DEF Crash
  <2> HIDE DEF S
  <2>3. S \in SUBSET Sessions
    BY DEF S
  <2> QED BY <2>1, <2>2, <2>3, EndedTx, TypeParts
<1>3. CASE UNCHANGED vars
  BY <1>1, <1>3 DEF vars, tableVars
<1> QED
  BY <1>1, <1>2, <1>3, SessionTx
  DEF LogNext, StreamStep, Disconnect, DelayElapses, Connect, ReplayAll, YieldNext,
      EndBatch, ReadVersion, Replay, WaitForEvent, WaitTimeout, tableVars

-----------------------------------------------------------------------------
(* Wake-ups.                                                               *)

Waiting(c) == pc[c] = "parked" \/ (pc[c] = "wait" /\ fresh[c])

\* The commit whose wake-up is still to come.
Pending(e) == \E s \in Sessions : txPc[s] = "committed" /\ e \in txRows[s]

LEMMA WakeupInit == LogInit => WakeupInv
BY DEF LogInit, WakeupInv

\* A step that wakes nobody keeps the wake-ups that are due.
LEMMA PendingKept ==
  ASSUME \A s \in Sessions : txPc[s] = "committed" =>
           txPc'[s] = "committed" /\ txRows'[s] = txRows[s],
         NEW e, Pending(e)
  PROVE  Pending(e)'
BY DEF Pending

LEMMA WakeupStep ==
  ASSUME EventTypeOK, TxInv, WakeupInv, [LogNext]_vars
  PROVE  WakeupInv'
<1>t. TxTypes /\ StreamTypes
  BY TypeParts
<1> SUFFICES ASSUME NEW c \in Clients, NEW e \in ledger',
                    Waiting(c)', e.sequence > last'[c], e.by = ProcOf[c]
             PROVE  Pending(e)'
  BY DEF WakeupInv, Waiting, Pending
<1>i. ASSUME e \in ledger, Waiting(c), last'[c] = last[c] PROVE Pending(e)
  BY <1>i DEF WakeupInv, Waiting, Pending
<1> DEFINE Kept == \A s \in Sessions : txPc[s] = "committed" =>
                     txPc'[s] = "committed" /\ txRows'[s] = txRows[s]
<1>k. ASSUME Kept, Pending(e) PROVE Pending(e)'
  BY <1>k, PendingKept
<1>n. ASSUME NEW p, NEW W, Notify(p, W)
      PROVE  Waiting(c) /\ ProcOf[c] # p /\ last'[c] = last[c]
  BY <1>n DEF Notify, Waiting
<1> HIDE DEF Kept
<1>1. ASSUME UNCHANGED <<ledger, txPc, txRows, pc, fresh, last>> PROVE Pending(e)'
  <2>1. Kept /\ Waiting(c) /\ last'[c] = last[c] /\ e \in ledger
    BY <1>1 DEF Kept, Waiting
  <2> QED BY <1>i, <1>k, <2>1
<1>2. ASSUME NEW s \in Sessions, SessionStep(s) PROVE Pending(e)'
  <2>1. ASSUME NEW teacher \in BOOLEAN, WriteEvent(s, teacher) PROVE Pending(e)'
    <3>1. Kept
      BY <1>t, <2>1 DEF Kept, WriteEvent, TxTypes
    <3>2. Waiting(c) /\ last'[c] = last[c] /\ e \in ledger
      BY <2>1 DEF WriteEvent, Waiting, streamVars, tableVars
    <3> QED BY <1>i, <1>k, <3>1, <3>2
  <2>2. CASE ClaimBatch(s) \/ Rollback(s)
    <3>1. Kept
      BY <1>t, <2>2 DEF Kept, ClaimBatch, Rollback, EndTx, TxTypes
    <3>2. Waiting(c) /\ last'[c] = last[c] /\ e \in ledger
      BY <2>2 DEF ClaimBatch, Rollback, Waiting, streamVars, tableVars
    <3> QED BY <1>i, <1>k, <3>1, <3>2
  <2>3. CASE PublishItem(s) \/ PublishFails(s)
    <3>1. Kept /\ e \in ledger
      BY <1>t, <2>3 DEF Kept, PublishItem, PublishFails, HandledRow, TxTypes, tableVars
    <3>2. Waiting(c) /\ last'[c] = last[c]
      BY <1>n, <2>3 DEF PublishItem, PublishFails
    <3> QED BY <1>i, <1>k, <3>1, <3>2
  <2>4. CASE Commit(s)
    <3>1. Waiting(c) /\ last'[c] = last[c]
      BY <2>4 DEF Commit, Waiting, streamVars
    <3>2. Kept
      BY <1>t, <2>4 DEF Kept, Commit, EndTx, TxTypes
    <3>3. CASE e \in ledger
      BY <1>i, <1>k, <3>1, <3>2, <3>3
    <3>4. CASE e \notin ledger
      <4>1. e \in txRows'[s] /\ txPc'[s] = "committed"
        BY <1>t, <2>4, <3>4 DEF Commit, EndTx, TxTypes
      <4> QED BY <4>1 DEF Pending
    <3> QED BY <3>3, <3>4
  <2>5. CASE AfterCommit(s)
    <3>1. Waiting(c) /\ ProcOf[c] # ProcOf[s] /\ last'[c] = last[c] /\ e \in ledger
      BY <1>n, <2>5 DEF AfterCommit, tableVars
    <3>2. PICK t \in Sessions : txPc[t] = "committed" /\ e \in txRows[t]
      BY <1>i, <3>1 DEF Pending
    <3>3. t # s
      BY <3>1, <3>2 DEF TxInv, ByInv
    <3>4. txPc'[t] = txPc[t] /\ txRows'[t] = txRows[t]
      BY <1>t, <2>5, <3>3 DEF AfterCommit, TxTypes
    <3> QED BY <3>2, <3>4 DEF Pending
  <2> QED BY <1>2, <2>1, <2>2, <2>3, <2>4, <2>5 DEF SessionStep, FinishStep
<1>3. ASSUME NEW d \in Clients, StreamStep(d) PROVE Pending(e)'
  <2>1. Kept /\ e \in ledger
    BY <1>3
    DEF Kept, StreamStep, Connect, ReplayAll, YieldNext, EndBatch, ReadVersion, Replay,
        WaitForEvent, WaitTimeout, tableVars, txVars
  <2>2. CASE Replay(d)
    <3>1. d = c /\ pc'[c] = "wait" => Unread(c) = {} /\ last'[c] = last[c]
      BY <1>t, <2>2 DEF Replay, StreamTypes
    <3>2. Waiting(c) /\ last'[c] = last[c]
      BY <1>t, <2>1, <2>2, <3>1 DEF Replay, StreamTypes, Waiting, Unread
    <3> QED BY <1>i, <1>k, <2>1, <3>2
  <2>3. CASE ~Replay(d)
    <3>1. Waiting(c) /\ last'[c] = last[c]
      <4>1. CASE Connect(d) \/ ReplayAll(d) \/ EndBatch(d) \/ ReadVersion(d)
        BY <1>t, <4>1 DEF Connect, ReplayAll, EndBatch, ReadVersion, StreamTypes, Waiting
      <4>2. CASE YieldNext(d)
        BY <1>t, <4>2 DEF YieldNext, StreamTypes, Waiting
      <4>3. CASE WaitForEvent(d) \/ WaitTimeout(d)
        BY <1>t, <4>3 DEF WaitForEvent, WaitTimeout, MustPark, StreamTypes, Waiting
      <4> QED BY <1>3, <2>3, <4>1, <4>2, <4>3 DEF StreamStep
    <3> QED BY <1>i, <1>k, <2>1, <3>1
  <2> QED BY <2>2, <2>3
<1>4. ASSUME NEW d \in Clients, Disconnect(d) PROVE Pending(e)'
  <2>1. Kept /\ e \in ledger
    BY <1>4 DEF Kept, Disconnect, tableVars, txVars
  <2>2. Waiting(c) /\ last'[c] = last[c]
    BY <1>4 DEF Disconnect, Drop, Waiting
  <2> QED BY <1>i, <1>k, <2>1, <2>2
<1>5. CASE DelayElapses
  BY <1>1, <1>5 DEF DelayElapses, txVars, streamVars
<1>6. ASSUME NEW p \in Procs, Crash(p) PROVE Pending(e)'
  <2>1. /\ Waiting(c) /\ last'[c] = last[c] /\ ProcOf[c] # p /\ e \in ledger
    BY <1>6 DEF Crash, Drop, Waiting, tableVars
  <2>2. PICK t \in Sessions : txPc[t] = "committed" /\ e \in txRows[t]
    BY <1>i, <2>1 DEF Pending
  <2>3. ProcOf[t] # p
    BY <2>1, <2>2 DEF TxInv, ByInv
  <2>4. txPc'[t] = txPc[t] /\ txRows'[t] = txRows[t]
    BY <1>6, <2>3 DEF Crash, EndTx
  <2> QED BY <2>2, <2>4 DEF Pending
<1>7. CASE UNCHANGED vars
  BY <1>1, <1>7 DEF vars, tableVars, txVars, streamVars
<1> QED BY <1>2, <1>3, <1>4, <1>5, <1>6, <1>7 DEF LogNext

-----------------------------------------------------------------------------
(* Streams.                                                                *)

\* What one more event does to the list a client has received.
LEMMA Received ==
  ASSUME NEW s \in Seq(Numbers), NEW n \in Numbers
  PROVE  /\ Feed!Elements(Append(s, n)) = Feed!Elements(s) \cup {n}
         /\ Append(s, n) # << >>
         /\ Append(s, n)[Len(Append(s, n))] = n
<1>1. /\ Append(s, n) \in Seq(Numbers) /\ Len(s) \in Nat
      /\ Len(Append(s, n)) = Len(s) + 1
      /\ \A i \in 1..Len(s) : Append(s, n)[i] = s[i]
      /\ Append(s, n)[Len(s) + 1] = n
  OBVIOUS
<1>2. DOMAIN s = 1..Len(s) /\ DOMAIN Append(s, n) = 1..(Len(s) + 1)
  BY <1>1
<1>3. Feed!Elements(Append(s, n)) \subseteq Feed!Elements(s) \cup {n}
  BY <1>1, <1>2 DEF Feed!Elements
<1>4. Feed!Elements(s) \cup {n} \subseteq Feed!Elements(Append(s, n))
  BY <1>1, <1>2 DEF Feed!Elements
<1> QED BY <1>1, <1>3, <1>4

LEMMA NothingReceived == Feed!Elements(<< >>) = {}
BY DEF Feed!Elements

\* The last id a client received is one of those it received.
LEMMA LastReceived ==
  ASSUME StreamTypes, NEW c \in Clients
  PROVE  LastEventId(c) = 0 \/ LastEventId(c) \in Got(c)
<1>1. received[c] \in Seq(Numbers)
  BY DEF StreamTypes
<1>2. CASE received[c] # << >>
  <2>1. Len(received[c]) \in DOMAIN received[c]
    BY <1>1, <1>2
  <2> QED BY <1>2, <2>1 DEF LastEventId, Got, Feed!Elements
<1> QED BY <1>2 DEF LastEventId

LEMMA StreamsInit == LogInit => StreamsInv
BY NothingReceived DEF LogInit, StreamsInv, StreamInv, Got

\* A stream that neither reads nor yields.
SameStream(c) ==
  /\ last'[c] = last[c] /\ batch'[c] = batch[c] /\ received'[c] = received[c]
  /\ pc'[c] # "yield" => batch[c] = {}

LEMMA StreamKept ==
  ASSUME NEW c \in Clients, StreamInv(c), ledger' = ledger, SameStream(c)
  PROVE  StreamInv(c)'
<1>1. Got(c)' = Got(c) /\ LastEventId(c)' = LastEventId(c)
  BY DEF SameStream, Got, LastEventId
<1> QED BY <1>1 DEF SameStream, StreamInv, NumbersOf

\* A commit adds rows that come after everything a stream has seen.
LEMMA StreamGrows ==
  ASSUME EventTypeOK, NEW c \in Clients, StreamInv(c), SameStream(c), ledger \subseteq ledger',
         ledger' \in SUBSET Rows,
         \A e \in ledger' \ ledger, f \in ledger : f.sequence < e.sequence
  PROVE  StreamInv(c)'
<1>0. /\ ledger \in SUBSET Rows /\ \A e \in ledger' : e.sequence \in Nat /\ e.sequence >= 1
      /\ \A e \in ledger : e.sequence \in Nat
  BY DEF EventTypeOK, Rows, Numbers
<1>1. Got(c)' = Got(c) /\ LastEventId(c)' = LastEventId(c)
  BY DEF SameStream, Got, LastEventId
<1>2. last'[c] = last[c] /\ batch'[c] = batch[c]
  BY DEF SameStream
<1>3. ASSUME NEW e \in ledger' \ ledger PROVE e.sequence > last[c]
  <2>1. CASE last[c] = 0
    BY <1>0, <2>1
  <2>2. CASE last[c] # 0
    BY <1>0, <2>2 DEF StreamInv, NumbersOf
  <2> QED BY <2>1, <2>2
<1>4. (last[c] = 0 \/ last[c] \in NumbersOf(ledger))'
  BY <1>2 DEF StreamInv, NumbersOf
<1>5. \A e \in ledger' : e.teacher /\ e.sequence <= last[c] => e.sequence \in Got(c)
  <2>1. last[c] \in Nat
    BY DEF EventTypeOK, Numbers
  <2> QED BY <1>0, <1>3, <2>1 DEF StreamInv
<1>6. ASSUME NEW e \in ledger' \ batch[c], NEW f \in batch[c], e.teacher, e.sequence > last[c]
      PROVE  e.sequence > f.sequence
  <2>1. f \in ledger
    BY DEF StreamInv
  <2>2. CASE e \in ledger
    BY <1>6, <2>2 DEF StreamInv
  <2>3. CASE e \notin ledger
    BY <1>0, <2>1, <2>3
  <2> QED BY <2>2, <2>3
<1>7. \A n \in Got(c) : /\ n <= last[c] /\ n <= LastEventId(c)
                       /\ \E e \in ledger' : e.teacher /\ e.sequence = n
  BY DEF StreamInv
<1>8. /\ batch[c] \subseteq ledger' /\ (pc'[c] # "yield" => batch[c] = {})
      /\ \A e \in batch[c] : e.sequence > last[c]
  BY DEF StreamInv, SameStream
<1> QED BY <1>1, <1>2, <1>4, <1>5, <1>6, <1>7, <1>8 DEF StreamInv

\* A stream that takes up the rows it has not read.
LEMMA StreamReads ==
  ASSUME NEW c \in Clients, StreamInv(c), ledger' = ledger, received'[c] = received[c],
         last'[c] = last[c], batch'[c] = Unread(c), pc'[c] # "yield" => Unread(c) = {}
  PROVE  StreamInv(c)'
<1>1. Got(c)' = Got(c) /\ LastEventId(c)' = LastEventId(c)
  BY DEF Got, LastEventId
<1> QED BY <1>1 DEF StreamInv, Unread, NumbersOf

\* A browser that comes back asks for what follows the last id it received.
LEMMA StreamConnects ==
  ASSUME EventTypeOK, NEW c \in Clients, StreamInv(c), Connect(c)
  PROVE  StreamInv(c)'
<1>1. /\ ledger' = ledger /\ received' = received /\ batch' = batch /\ batch[c] = {}
      /\ last'[c] = LastEventId(c) /\ pc'[c] = "first"
  BY DEF Connect, EventTypeOK, StreamInv, tableVars
<1>2. Got(c)' = Got(c) /\ LastEventId(c)' = LastEventId(c)
  BY <1>1 DEF Got, LastEventId
<1>3. LastEventId(c) = 0 \/ LastEventId(c) \in Got(c)
  BY LastReceived, TypeParts
<1>4. /\ LastEventId(c) = 0 \/ LastEventId(c) \in NumbersOf(ledger)
      /\ LastEventId(c) <= last[c] \/ LastEventId(c) = 0
  BY <1>3 DEF StreamInv, NumbersOf
<1>5. \A e \in ledger : e.sequence \in Nat /\ e.sequence >= 1
  BY DEF EventTypeOK, Rows, Numbers
<1>6. last[c] \in Nat /\ LastEventId(c) \in Nat
  <2>1. last[c] \in Nat
    BY DEF EventTypeOK, Numbers
  <2> QED BY <1>4, <1>5, <2>1 DEF NumbersOf
<1>7. \A e \in ledger : e.teacher /\ e.sequence <= LastEventId(c) => e.sequence \in Got(c)
  BY <1>4, <1>5, <1>6 DEF StreamInv
<1> QED BY <1>1, <1>2, <1>4, <1>7 DEF StreamInv, NumbersOf

\* The row a stream yields next.
Next(c, e) ==
  /\ e \in batch[c] /\ \A f \in batch[c] : e.sequence <= f.sequence
  /\ last' = [last EXCEPT ![c] = Advanced(c, e)]
  /\ batch' = [batch EXCEPT ![c] = batch[c] \ {e}]
  /\ received' = [received EXCEPT ![c] =
       IF e.teacher THEN Append(received[c], e.sequence) ELSE received[c]]

\* Every teacher event below the one yielded has been received, and it has not.
LEMMA NextFacts ==
  ASSUME EventTypeOK, TxInv, NEW c \in Clients, StreamInv(c), NEW e, Next(c, e)
  PROVE  /\ e \in ledger /\ e.sequence \in Numbers /\ e.sequence > last[c]
         /\ \A n \in Got(c) : n < e.sequence
         /\ \A f \in ledger : f.teacher /\ f.sequence < e.sequence => f.sequence \in Got(c)
<1>1. e \in ledger /\ e.sequence > last[c] /\ ledger \in SUBSET Rows
  BY DEF Next, StreamInv, EventTypeOK
<1>2. \A f \in ledger : f.sequence \in Nat /\ f.sequence \in Numbers
  BY <1>1 DEF Rows, Numbers
<1>3. last[c] \in Nat
  BY DEF EventTypeOK, Numbers
<1>4. \A n \in Got(c) : n < e.sequence
  BY <1>1, <1>2, <1>3 DEF StreamInv
<1>5. ASSUME NEW f \in ledger, f.teacher, f.sequence < e.sequence
      PROVE  f.sequence \in Got(c)
  <2>1. CASE f.sequence <= last[c]
    BY <1>5, <2>1 DEF StreamInv
  <2>2. CASE f.sequence > last[c]
    <3>1. f \notin batch[c]
      BY <1>1, <1>2, <1>5 DEF Next
    <3>2. f.sequence > e.sequence
      BY <1>5, <2>2, <3>1 DEF StreamInv, Next
    <3> QED BY <1>1, <1>2, <1>5, <3>2
  <2> QED BY <1>2, <1>3, <2>1, <2>2
<1> QED BY <1>1, <1>2, <1>4, <1>5

LEMMA StreamYields ==
  ASSUME EventTypeOK, TxInv, NEW c \in Clients, StreamInv(c), NEW e, Next(c, e),
         ledger' = ledger, pc'[c] = "yield"
  PROVE  StreamInv(c)'
<1> USE DEF EventTypeOK
<1>0. /\ received[c] \in Seq(Numbers) /\ last[c] \in Nat
      /\ \A f \in ledger : f.sequence \in Nat /\ f.sequence \in Numbers
      /\ \A f, g \in ledger : f.sequence = g.sequence => f = g
      /\ batch[c] \subseteq ledger
  BY DEF Rows, Numbers, TxInv, NumbersInv, StreamInv
<1>1. /\ last'[c] = Advanced(c, e) /\ batch'[c] = batch[c] \ {e}
      /\ received'[c] = IF e.teacher THEN Append(received[c], e.sequence) ELSE received[c]
  BY DEF Next
<1>2. /\ e \in ledger /\ e.sequence \in Numbers /\ e.sequence > last[c]
      /\ \A n \in Got(c) : n < e.sequence
      /\ \A f \in ledger : f.teacher /\ f.sequence < e.sequence => f.sequence \in Got(c)
  BY NextFacts
<1>3. \A f \in batch[c] \ {e} : f.sequence > e.sequence
  BY <1>0, <1>2 DEF Next
<1> HIDE DEF EventTypeOK
<1>4. CASE e.teacher
  <2>1. last'[c] = e.sequence
    BY <1>1, <1>2, <1>4 DEF Advanced
  <2>2. Got(c)' = Got(c) \cup {e.sequence} /\ LastEventId(c)' = e.sequence
    BY <1>0, <1>1, <1>2, <1>4, Received DEF Got, LastEventId
  <2>3. \A n \in Got(c)' : n <= e.sequence /\ \E f \in ledger : f.teacher /\ f.sequence = n
    <3>1. \A n \in Got(c) : n \in Nat
      BY <1>0 DEF StreamInv
    <3> QED BY <1>0, <1>2, <1>4, <2>2, <3>1 DEF StreamInv
  <2>4. \A f \in ledger : f.teacher /\ f.sequence <= e.sequence => f.sequence \in Got(c)'
    BY <1>0, <1>2, <2>2
  <2>5. \A f \in ledger \ batch'[c], g \in batch'[c] :
          f.teacher /\ f.sequence > e.sequence => f.sequence > g.sequence
    <3> SUFFICES ASSUME NEW f \in ledger \ batch'[c], NEW g \in batch'[c],
                        f.teacher, f.sequence > e.sequence
                 PROVE  f.sequence > g.sequence
      OBVIOUS
    <3>1. f \notin batch[c] /\ g \in batch[c] /\ f.sequence > last[c]
      BY <1>0, <1>1, <1>2
    <3> QED BY <3>1 DEF StreamInv
  <2> QED BY <1>0, <1>1, <1>2, <1>3, <2>1, <2>2, <2>3, <2>4, <2>5 DEF StreamInv, NumbersOf
<1>5. CASE ~e.teacher
  <2>1. /\ received'[c] = received[c]
        /\ last'[c] = IF first[c] THEN last[c] ELSE e.sequence
    BY <1>1, <1>2, <1>5 DEF Advanced
  <2>2. Got(c)' = Got(c) /\ LastEventId(c)' = LastEventId(c)
    BY <2>1 DEF Got, LastEventId
  <2>3. \A n \in Got(c) : /\ n <= last'[c] /\ n <= LastEventId(c)
                         /\ \E f \in ledger : f.teacher /\ f.sequence = n
    <3>1. \A n \in Got(c) : n \in Nat
      BY <1>0 DEF StreamInv
    <3> QED BY <1>0, <1>2, <2>1, <3>1 DEF StreamInv
  <2>4. \A f \in ledger : f.teacher /\ f.sequence <= last'[c] => f.sequence \in Got(c)
    <3> SUFFICES ASSUME NEW f \in ledger, f.teacher, f.sequence <= last'[c]
                 PROVE  f.sequence \in Got(c)
      OBVIOUS
    <3>1. f # e
      BY <1>5
    <3>2. f.sequence # e.sequence
      BY <1>0, <1>2, <3>1
    <3>3. f.sequence <= last[c] \/ f.sequence < e.sequence
      BY <1>0, <1>2, <2>1, <3>2
    <3> QED BY <1>2, <3>3 DEF StreamInv
  <2>5. \A f \in ledger \ batch'[c], g \in batch'[c] :
          f.teacher /\ f.sequence > last'[c] => f.sequence > g.sequence
    <3> SUFFICES ASSUME NEW f \in ledger \ batch'[c], NEW g \in batch'[c],
                        f.teacher, f.sequence > last'[c]
                 PROVE  f.sequence > g.sequence
      OBVIOUS
    <3>1. f \notin batch[c] /\ g \in batch[c] /\ f.sequence > last[c]
      BY <1>0, <1>1, <1>2, <1>5, <2>1
    <3> QED BY <3>1 DEF StreamInv
  <2>6. \A f \in batch'[c] : f.sequence > last'[c]
    BY <1>1, <1>3, <2>1 DEF StreamInv
  <2>7. last'[c] = 0 \/ last'[c] \in NumbersOf(ledger)
    BY <1>2, <2>1 DEF StreamInv, NumbersOf
  <2> QED BY <1>0, <1>1, <2>2, <2>3, <2>4, <2>5, <2>6, <2>7 DEF StreamInv, NumbersOf
<1> QED BY <1>4, <1>5

LEMMA StreamsStep ==
  ASSUME EventTypeOK, TxInv, StreamsInv, [LogNext]_vars
  PROVE  StreamsInv'
<1> SUFFICES ASSUME NEW c \in Clients PROVE StreamInv(c)'
  BY DEF StreamsInv
<1>0. StreamTypes /\ StreamInv(c) /\ ledger' \in SUBSET Rows
  BY TypeParts, TypeStep DEF StreamsInv, EventTypeOK
<1>s. ASSUME SameStream(c) PROVE StreamInv(c)'
  <2>1. CASE ledger' = ledger
    BY <1>0, <1>s, <2>1, StreamKept
  <2>2. CASE ledger' # ledger
    <3>1. /\ ledger \subseteq ledger'
          /\ \A e \in ledger' \ ledger, f \in ledger : f.sequence < e.sequence
      BY <2>2, LedgerStep DEF Commit
    <3> QED BY <1>0, <1>s, <3>1, StreamGrows
  <2> QED BY <2>1, <2>2
<1>u. ASSUME UNCHANGED streamVars PROVE SameStream(c)
  BY <1>0, <1>u DEF SameStream, streamVars, StreamInv
<1>n. ASSUME NEW p, NEW W, Notify(p, W) PROVE SameStream(c)
  BY <1>0, <1>n DEF SameStream, Notify, StreamInv
<1>1. ASSUME NEW s \in Sessions, SessionStep(s) PROVE SameStream(c)
  BY <1>1, <1>n, <1>u
  DEF SessionStep, FinishStep, WriteEvent, ClaimBatch, PublishItem, PublishFails, AfterCommit,
      Commit, Rollback
<1>2. ASSUME NEW C, Drop(C), UNCHANGED ledger PROVE StreamInv(c)'
  <2>1. CASE c \in C
    <3>1. /\ last'[c] = last[c] /\ batch'[c] = {} /\ received' = received /\ pc'[c] = "off"
      BY <1>2, <2>1 DEF Drop
    <3>2. Got(c)' = Got(c) /\ LastEventId(c)' = LastEventId(c)
      BY <3>1 DEF Got, LastEventId
    <3> QED BY <1>0, <1>2, <3>1, <3>2 DEF StreamInv, NumbersOf
  <2>2. CASE c \notin C
    <3>1. SameStream(c)
      BY <1>0, <1>2, <2>2 DEF Drop, SameStream, StreamInv
    <3> QED BY <1>s, <3>1
  <2> QED BY <2>1, <2>2
<1>3. ASSUME NEW d \in Clients, StreamStep(d), d # c PROVE SameStream(c)
  BY <1>0, <1>3
  DEF StreamTypes, SameStream, StreamInv, StreamStep, Connect, ReplayAll, YieldNext, EndBatch,
      ReadVersion, Replay, WaitForEvent, WaitTimeout
<1>4. ASSUME StreamStep(c) PROVE StreamInv(c)'
  <2>1. ledger' = ledger
    BY <1>4
    DEF StreamStep, Connect, ReplayAll, YieldNext, EndBatch, ReadVersion, Replay,
        WaitForEvent, WaitTimeout, tableVars
  <2>2. CASE Connect(c)
    BY <1>0, <2>2, StreamConnects
  <2>3. CASE ReplayAll(c) \/ Replay(c)
    <3>1. /\ received' = received /\ last' = last /\ batch'[c] = Unread(c)
          /\ pc'[c] # "yield" => Unread(c) = {}
      BY <1>0, <2>3 DEF ReplayAll, Replay, StreamTypes
    <3> QED BY <1>0, <2>1, <3>1, StreamReads
  <2>4. CASE YieldNext(c)
    <3>1. PICK e : Next(c, e)
      BY <2>4 DEF YieldNext, Next
    <3>2. pc'[c] = "yield"
      BY <2>4 DEF YieldNext
    <3> QED BY <1>0, <2>1, <3>1, <3>2, StreamYields
  <2>5. CASE EndBatch(c) \/ ReadVersion(c) \/ WaitForEvent(c) \/ WaitTimeout(c)
    <3>1. SameStream(c)
      BY <1>0, <2>5
      DEF EndBatch, ReadVersion, WaitForEvent, WaitTimeout, Expires, SameStream, StreamInv,
          StreamTypes
    <3> QED BY <1>s, <3>1
  <2> QED BY <1>4, <2>2, <2>3, <2>4, <2>5 DEF StreamStep
<1>5. CASE UNCHANGED vars
  BY <1>s, <1>u, <1>5 DEF vars
<1>6. ASSUME DelayElapses PROVE SameStream(c)
  BY <1>6, <1>u DEF DelayElapses
<1> QED
  BY <1>s, <1>1, <1>2, <1>3, <1>4, <1>5, <1>6 DEF LogNext, Disconnect, Crash, tableVars

-----------------------------------------------------------------------------
(* The ledger and its streams implement EventFeed.                         *)

TeacherNumbers == NumbersOf({e \in ledger : e.teacher})

LEMMA FeedInitial == LogInit => Feed!FeedInit
BY DEF LogInit, Feed!FeedInit, NumbersOf

LEMMA FeedStep ==
  ASSUME EventTypeOK, TxInv, StreamsInv, [LogNext]_vars
  PROVE  Feed!FeedNext \/ UNCHANGED <<TeacherNumbers, received>>
<1>1. ASSUME NEW s \in Sessions, Commit(s) PROVE Feed!Publish
  <2>1. received' = received
    BY <1>1 DEF Commit, streamVars
  <2>2. ledger \subseteq ledger'
    BY <1>1 DEF Commit
  <2>3. \A e \in ledger' \ ledger, f \in ledger : f.sequence < e.sequence
    BY <2>2, LedgerStep
  <2>4. TeacherNumbers \subseteq TeacherNumbers'
    BY <2>2 DEF TeacherNumbers, NumbersOf
  <2>5. \A n \in TeacherNumbers' \ TeacherNumbers, m \in TeacherNumbers : m < n
    BY <2>3 DEF TeacherNumbers, NumbersOf
  <2> QED BY <2>1, <2>4, <2>5 DEF Feed!Publish, TeacherNumbers
<1>2. ASSUME NEW c \in Clients, YieldNext(c)
      PROVE  Feed!FeedNext \/ UNCHANGED <<TeacherNumbers, received>>
  <2>1. PICK e : Next(c, e)
    BY <1>2 DEF YieldNext, Next
  <2>2. StreamInv(c) /\ ledger' = ledger
    BY <1>2 DEF StreamsInv, YieldNext, tableVars
  <2>3. /\ e \in ledger /\ \A n \in Got(c) : n < e.sequence
        /\ \A f \in ledger : f.teacher /\ f.sequence < e.sequence => f.sequence \in Got(c)
        /\ e.sequence \in Numbers
    BY <2>1, <2>2, NextFacts
  <2>4. CASE e.teacher
    <3>1. e.sequence \in TeacherNumbers
      BY <2>3, <2>4 DEF TeacherNumbers, NumbersOf
    <3>2. e.sequence \notin Got(c)
      BY <2>3 DEF Numbers
    <3>3. \A m \in TeacherNumbers : m < e.sequence => m \in Got(c)
      BY <2>3 DEF TeacherNumbers, NumbersOf
    <3>4. received' = [received EXCEPT ![c] = Append(received[c], e.sequence)]
      BY <2>1, <2>4 DEF Next
    <3>5. TeacherNumbers' = TeacherNumbers
      BY <2>2 DEF TeacherNumbers, NumbersOf
    <3>6. Feed!Receive(c, e.sequence)
      BY <3>1, <3>2, <3>3, <3>4, <3>5 DEF Feed!Receive, TeacherNumbers, Got
    <3> QED BY <3>1, <3>6 DEF Feed!FeedNext, TeacherNumbers
  <2>5. CASE ~e.teacher
    <3>1. received' = received
      BY <2>1, <2>5 DEF Next, EventTypeOK
    <3> QED BY <2>2, <3>1 DEF TeacherNumbers, NumbersOf
  <2> QED BY <2>4, <2>5
<1>3. ASSUME UNCHANGED <<ledger, received>> PROVE UNCHANGED <<TeacherNumbers, received>>
  BY <1>3 DEF TeacherNumbers, NumbersOf
<1>4. CASE UNCHANGED vars
  BY <1>3, <1>4 DEF vars, tableVars, streamVars
<1>5. ASSUME NEW s \in Sessions, SessionStep(s), ~Commit(s)
      PROVE  UNCHANGED <<TeacherNumbers, received>>
  BY <1>3, <1>5
  DEF SessionStep, FinishStep, WriteEvent, ClaimBatch, PublishItem, PublishFails, AfterCommit,
      Rollback, Notify, tableVars, streamVars
<1>6. ASSUME NEW c \in Clients, StreamStep(c), ~YieldNext(c)
      PROVE  UNCHANGED <<TeacherNumbers, received>>
  BY <1>3, <1>6
  DEF StreamStep, Connect, ReplayAll, EndBatch, ReadVersion, Replay, WaitForEvent,
      WaitTimeout, tableVars
<1>7. ASSUME NEW c \in Clients, Disconnect(c) PROVE UNCHANGED <<TeacherNumbers, received>>
  BY <1>3, <1>7 DEF Disconnect, Drop, tableVars
<1>8. ASSUME NEW p \in Procs, Crash(p) PROVE UNCHANGED <<TeacherNumbers, received>>
  BY <1>3, <1>8 DEF Crash, Drop, tableVars
<1>9. ASSUME DelayElapses PROVE UNCHANGED <<TeacherNumbers, received>>
  BY <1>3, <1>9 DEF DelayElapses, streamVars
<1> QED
  BY <1>1, <1>2, <1>4, <1>5, <1>6, <1>7, <1>8, <1>9 DEF LogNext, Feed!FeedNext

-----------------------------------------------------------------------------
(* The theorems.                                                           *)

LEMMA LogInvariant == LogSpec => []LogInv
<1>1. LogInit => LogInv
  BY TypeInit, TxInit, WakeupInit, StreamsInit DEF LogInv
<1>2. LogInv /\ [LogNext]_vars => LogInv'
  BY TypeStep, TxStep, WakeupStep, StreamsStep DEF LogInv
<1> QED BY <1>1, <1>2, PTL DEF LogSpec, LogSafety

\* Every reachable state of the ledger, the transactions and the streams is
\* well typed (teaching_pack_store.py, teaching_pack_stream.py).
THEOREM EventTypeCorrect == LogSpec => []EventTypeOK
<1>1. LogInv => EventTypeOK
  BY DEF LogInv
<1> QED BY <1>1, LogInvariant, PTL

\* A parked stream has not missed a wake-up of its own process, for any number
\* of sessions, streams and processes: wait_for_run_event compares the version
\* it read before the replay under the lock that puts it on the list.
THEOREM WakeupsAreNotLost == LogSpec => []NoLostWakeup
<1>1. LogInv => NoLostWakeup
  BY DEF LogInv, WakeupInv, NoLostWakeup
<1> QED BY <1>1, LogInvariant, PTL

\* The ledger, the advisory lock of write_event and the Last-Event-ID replay of
\* the status stream implement EventFeed: every client receives a prefix of the
\* teacher events in the ledger's order, without gap or repetition over all its
\* connections, whatever is rolled back, crashes or disconnects.
THEOREM LogImplementsFeed == LogSpec => FeedImplemented
<1>1. LogInit => Feed!FeedInit
  BY FeedInitial
<1>2. LogInv /\ [LogNext]_vars => [Feed!FeedNext]_<<TeacherNumbers, received>>
  BY FeedStep DEF LogInv
<1> QED
  BY <1>1, <1>2, LogInvariant, PTL
  DEF LogSpec, LogSafety, FeedImplemented, Feed!FeedSpec, TeacherNumbers

=============================================================================
