--------------------------- MODULE TeachingSession ---------------------------
(***************************************************************************)
(* A live teaching session: its event log, the response counter, the       *)
(* pinned snapshot, the hot state in Redis and the event streams           *)
(* (services/gateway: teaching_session/event_log.py, live_sync.py,         *)
(* events.py, responses.py, routers/teaching_session_live.py,              *)
(* routers/slide_deck_live_publication.py).                                *)
(*                                                                         *)
(* A request is one HTTP request with its database transaction.  The       *)
(* advisory lock of the session is held from its first use to the end of   *)
(* the transaction, so taking it, looking a key up and numbering a row     *)
(* are one step each.  The payload of an event is identified with the      *)
(* event: a slide or a branch is the number of the event that selected it. *)
(* Redis is external: any call to it may fail, its keys may vanish.        *)
(***************************************************************************)
EXTENDS Naturals, Sequences, FiniteSets

CONSTANTS
  Requests,      \* concurrent requests
  Clients,       \* browsers with an event stream
  Keys,          \* Idempotency-Key values of the students
  Snapshots,     \* approved snapshots of the deck, numbered in order
  NoRequest, NoKey,
  RecoveryLimit, \* DEFAULT_RECOVERY_EVENT_LIMIT (500)
  MaxSeq,        \* bound: events of the session
  MaxFaults      \* bound: failing Redis calls, dying requests, disconnects

ASSUME SessionAssumption ==
  /\ NoRequest \notin Requests
  /\ NoKey \notin Keys
  /\ Snapshots \subseteq Nat /\ 1 \in Snapshots
  /\ RecoveryLimit \in Nat \ {0}
  /\ MaxSeq \in Nat
  /\ MaxFaults \in Nat

VARIABLES
  log,       \* committed rows of teaching_session_events
  attempts,  \* committed attempt_count of the interaction
  pin,       \* committed teaching_sessions.snapshot_id
  head,      \* latest approved snapshot of the deck
  lock,      \* holder of the session's advisory lock
  pc,        \* where a request is
  key,       \* its idempotency key
  seenHead,  \* the head a republish has read
  row,       \* the row its transaction inserted, as a set
  model,     \* read_model of its RecordedEvent
  hot,       \* the read model in Redis, as a set
  stream,    \* where a client's stream is
  last,      \* its last_sequence
  upto,      \* highest number in the rows it is replaying
  inbox,     \* Pub/Sub messages waiting for it
  received,  \* history: ids the client received, over all connections
  faults     \* how much of MaxFaults is used

tableVars   == <<log, attempts, pin, head>>
requestVars == <<lock, pc, key, seenHead, row, model>>
streamVars  == <<stream, last, upto, inbox, received>>
vars        == <<tableVars, requestVars, hot, streamVars, faults>>

Numbers == 1..MaxSeq
Kinds   == {"slide", "branch", "tally", "pin"}
Rows    == [sequence : Numbers, kind : Kinds, key : Keys \cup {NoKey}, value : Nat]
Models  == [slide : 0..MaxSeq, branch : 0..MaxSeq, tally : Nat, last : 0..MaxSeq]

\* Types of the tables, the requests, the hot state and the streams.
SessionTypeOK ==
  /\ log \in SUBSET Rows
  /\ attempts \in Nat
  /\ pin \in Snapshots /\ head \in Snapshots
  /\ lock \in Requests \cup {NoRequest}
  /\ pc \in [Requests -> {"idle", "checked", "republish", "open", "committed", "hot"}]
  /\ key \in [Requests -> Keys \cup {NoKey}]
  /\ seenHead \in [Requests -> Snapshots]
  /\ row \in [Requests -> SUBSET Rows]
  /\ model \in [Requests -> Models]
  /\ hot \in SUBSET Models
  /\ stream \in [Clients -> {"off", "replay", "subscribe", "live", "poll", "polled"}]
  /\ last \in [Clients -> 0..MaxSeq]
  /\ upto \in [Clients -> 0..MaxSeq]
  /\ inbox \in [Clients -> Seq(Numbers)]
  /\ received \in [Clients -> Seq(Numbers)]
  /\ faults \in Nat

EmptyModel == [slide |-> 0, branch |-> 0, tally |-> 0, last |-> 0]

SessionInit ==
  /\ log = {} /\ attempts = 0 /\ pin = 1 /\ head = 1
  /\ lock = NoRequest
  /\ pc = [w \in Requests |-> "idle"]
  /\ key = [w \in Requests |-> NoKey]
  /\ seenHead = [w \in Requests |-> 1]
  /\ row = [w \in Requests |-> {}]
  /\ model = [w \in Requests |-> EmptyModel]
  /\ hot = {}
  /\ stream = [c \in Clients |-> "off"]
  /\ last = [c \in Clients |-> 0]
  /\ upto = [c \in Clients |-> 0]
  /\ inbox = [c \in Clients |-> << >>]
  /\ received = [c \in Clients |-> << >>]
  /\ faults = 0

\* A step that may fail by a fault.
MayFail(failed) ==
  /\ failed => faults < MaxFaults
  /\ faults' = IF failed THEN faults + 1 ELSE faults

-----------------------------------------------------------------------------
(* The derived state.                                                      *)

NumbersOf(R) == {e.sequence : e \in R}

\* The highest number of a row of one of the kinds K, 0 if there is none.
LatestOf(R, K) ==
  LET N == NumbersOf({e \in R : e.kind \in K})
  IN  IF N = {} THEN 0 ELSE CHOOSE n \in N : \A m \in N : m <= n

\* apply_event: last write wins per field.
ApplyEvent(m, e) ==
  [slide  |-> IF e.kind \in {"slide", "branch"} THEN e.sequence ELSE m.slide,
   branch |-> IF e.kind = "branch" THEN e.sequence ELSE m.branch,
   tally  |-> IF e.kind = "tally" THEN e.value ELSE m.tally,
   last   |-> IF e.sequence > m.last THEN e.sequence ELSE m.last]

\* The rows recover_read_model reads, and their fold.
Recent(R) == {e \in R : e.sequence + RecoveryLimit > LatestOf(R, Kinds)}

RecoverReadModel(R) ==
  [slide  |-> LatestOf(Recent(R), {"slide", "branch"}),
   branch |-> LatestOf(Recent(R), {"branch"}),
   tally  |-> LET n == LatestOf(Recent(R), {"tally"})
              IN  IF n = 0 THEN 0 ELSE (CHOOSE e \in R : e.sequence = n).value,
   last   |-> LatestOf(R, Kinds)]

\* current_state: the hot state, or the recovery when Redis has none or fails.
CurrentState(R, failed) ==
  IF hot = {} \/ failed THEN RecoverReadModel(R) ELSE CHOOSE m \in hot : TRUE

-----------------------------------------------------------------------------
(* Recording an event.                                                     *)

\* The request is over, and with it its transaction and its locals.
EndRequest(w) ==
  /\ pc' = [pc EXCEPT ![w] = "idle"]
  /\ key' = [key EXCEPT ![w] = NoKey]
  /\ seenHead' = [seenHead EXCEPT ![w] = 1]
  /\ row' = [row EXCEPT ![w] = {}]
  /\ model' = [model EXCEPT ![w] = EmptyModel]
  /\ lock' = IF lock = w THEN NoRequest ELSE lock

LockFree(w) == lock \in {NoRequest, w}

\* append_event and record_event: number and insert the row under the lock and
\* compute the next read model from the current one.  The transaction stays
\* open.
RecordEvent(w, kind, k, value) ==
  LET n == LatestOf(log, Kinds) + 1
      e == [sequence |-> n, kind |-> kind, key |-> k, value |-> value]
  IN  /\ n \in Numbers
      /\ LockFree(w)
      /\ lock' = w
      /\ row' = [row EXCEPT ![w] = {e}]
      /\ \E failed \in BOOLEAN :
           /\ MayFail(failed)
           /\ model' = [model EXCEPT ![w] =
                ApplyEvent(CurrentState(log \cup {e}, failed), e)]
      /\ pc' = [pc EXCEPT ![w] = "open"]
      /\ UNCHANGED <<tableVars, hot, streamVars>>

\* advance_slide, select_branch and the recording part of
\* apply_branch_suggestion.
Navigate(w, kind) ==
  /\ pc[w] = "idle"
  /\ RecordEvent(w, kind, NoKey, 0)
  /\ UNCHANGED <<key, seenHead>>

\* Mutation of LockForCheck: only append_event takes the lock.
LockForCheck_Late(w) == UNCHANGED lock

\* submit_response takes the lock before it looks the key up.
LockForCheck(w) == LockFree(w) /\ lock' = w

\* submit_response: a known key ends the request (nothing changes), a new one
\* goes on under the lock.
SubmitCheck(w, k) ==
  /\ pc[w] = "idle"
  /\ LockForCheck(w)
  /\ \A e \in log : e.key # k
  /\ key' = [key EXCEPT ![w] = k]
  /\ pc' = [pc EXCEPT ![w] = "checked"]
  /\ UNCHANGED <<tableVars, seenHead, row, model, hot, streamVars, faults>>

\* record_response accepts: the counter that was read is written back plus
\* one, and the new tallies are the payload of the event.
SubmitRecord(w) ==
  /\ pc[w] = "checked"
  /\ RecordEvent(w, "tally", key[w], attempts + 1)
  /\ UNCHANGED <<key, seenHead>>

\* record_response rejects the payload: rollback and 422.
SubmitReject(w) ==
  /\ pc[w] = "checked"
  /\ EndRequest(w)
  /\ UNCHANGED <<tableVars, hot, streamVars, faults>>

\* A newer version of the deck is approved (another route).
ApproveHead ==
  /\ head + 1 \in Snapshots
  /\ head' = head + 1
  /\ UNCHANGED <<log, attempts, pin, requestVars, hot, streamVars, faults>>

\* republish_approved_slide_deck_to_live_session: read the approved head ...
RepublishRead(w) ==
  /\ pc[w] = "idle"
  /\ head # pin
  /\ seenHead' = [seenHead EXCEPT ![w] = head]
  /\ pc' = [pc EXCEPT ![w] = "republish"]
  /\ UNCHANGED <<tableVars, lock, key, row, model, hot, streamVars, faults>>

\* ... then pin it and record the event in one transaction.
RepublishRecord(w) ==
  /\ pc[w] = "republish"
  /\ RecordEvent(w, "pin", NoKey, seenHead[w])
  /\ UNCHANGED <<key, seenHead>>

-----------------------------------------------------------------------------
(* Commit, then broadcast.                                                 *)

\* Mutation of Announceable: _finish broadcasts before it commits.
Announceable_Early(w) == pc[w] = "open"

Announceable(w) == pc[w] = "committed"

\* Mutation of PinAfter: the event is recorded and the assignment is lost.
PinAfter_Lost(w) == IF w \in Requests THEN pin ELSE head

\* teaching_sessions.snapshot_id after the request's transaction.
PinAfter(w) == IF \E e \in row[w] : e.kind = "pin" THEN seenHead[w] ELSE pin

\* attempt_count after it: what the event's tallies say.
AttemptsAfter(w) ==
  IF \E e \in row[w] : e.kind = "tally"
  THEN (CHOOSE e \in row[w] : TRUE).value ELSE attempts

Commit(w) ==
  /\ pc[w] = "open"
  /\ log' = log \cup row[w]
  /\ attempts' = AttemptsAfter(w)
  /\ pin' = PinAfter(w)
  /\ lock' = NoRequest
  /\ pc' = [pc EXCEPT ![w] = "committed"]
  /\ UNCHANGED <<head, key, seenHead, row, model, hot, streamVars, faults>>

\* set_hot_state, best effort.
SetHot(w) ==
  /\ Announceable(w)
  /\ \E failed \in BOOLEAN :
       /\ MayFail(failed)
       /\ hot' = IF failed THEN hot ELSE {model[w]}
  /\ pc' = [pc EXCEPT ![w] = "hot"]
  /\ UNCHANGED <<tableVars, lock, key, seenHead, row, model, streamVars>>

\* publish_event, best effort: every subscriber's connection gets the message.
PublishEvent(w) ==
  /\ pc[w] = "hot"
  /\ \E failed \in BOOLEAN :
       /\ MayFail(failed)
       /\ inbox' = [c \in Clients |->
            IF failed \/ stream[c] # "live" THEN inbox[c]
            ELSE Append(inbox[c], (CHOOSE e \in row[w] : TRUE).sequence)]
  /\ EndRequest(w)
  /\ UNCHANGED <<tableVars, hot, stream, last, upto, received>>

\* The request dies: an open transaction is rolled back, a committed one stays
\* and is not broadcast.
RequestDies(w) ==
  /\ pc[w] # "idle"
  /\ MayFail(TRUE)
  /\ EndRequest(w)
  /\ UNCHANGED <<tableVars, hot, streamVars>>

\* The key of the hot state expires, or Redis restarts empty.
HotExpires ==
  /\ hot # {}
  /\ MayFail(TRUE)
  /\ hot' = {}
  /\ UNCHANGED <<tableVars, requestVars, streamVars>>

-----------------------------------------------------------------------------
(* The event streams.                                                      *)

LastEventId(c) == IF received[c] = << >> THEN 0 ELSE received[c][Len(received[c])]

\* The stream route: read the rows after Last-Event-ID.
Connect(c) ==
  /\ stream[c] = "off"
  /\ stream' = [stream EXCEPT ![c] = "replay"]
  /\ last' = [last EXCEPT ![c] = LastEventId(c)]
  /\ upto' = [upto EXCEPT ![c] = LatestOf(log, Kinds)]
  /\ UNCHANGED <<tableVars, requestVars, hot, inbox, received, faults>>

\* Send row n to the client.
Yield(c, n) ==
  /\ last' = [last EXCEPT ![c] = IF n > @ THEN n ELSE @]
  /\ received' = [received EXCEPT ![c] = Append(@, n)]

\* The next row of the replayed or polled batch.
YieldRow(c) ==
  /\ stream[c] \in {"replay", "polled"}
  /\ \E n \in NumbersOf(log) :
       /\ last[c] < n /\ n <= upto[c]
       /\ \A m \in NumbersOf(log) : last[c] < m => n <= m
       /\ Yield(c, n)
  /\ UNCHANGED <<tableVars, requestVars, hot, stream, upto, inbox, faults>>

BatchDone(c) == \A n \in NumbersOf(log) : ~(last[c] < n /\ n <= upto[c])

\* The replay is over; the stream subscribes, or polls when Redis is down.
Subscribe(c) ==
  /\ stream[c] = "replay"
  /\ BatchDone(c)
  /\ \E failed \in BOOLEAN :
       /\ MayFail(failed)
       /\ stream' = [stream EXCEPT ![c] = IF failed THEN "poll" ELSE "live"]
  /\ inbox' = [inbox EXCEPT ![c] = << >>]
  /\ UNCHANGED <<tableVars, requestVars, hot, last, upto, received>>

\* Mutation of AlreadySent: the comparison is off by one.
AlreadySent_OffByOne(c, n) == n < last[c]

AlreadySent(c, n) == n <= last[c]

\* One message of the live subscription: skipped or sent.
Relay(c) ==
  /\ stream[c] = "live"
  /\ inbox[c] # << >>
  /\ inbox' = [inbox EXCEPT ![c] = Tail(@)]
  /\ LET n == Head(inbox[c]) IN
       IF AlreadySent(c, n) THEN UNCHANGED <<last, received>> ELSE Yield(c, n)
  /\ UNCHANGED <<tableVars, requestVars, hot, stream, upto, faults>>

\* The subscription breaks: the stream goes on by polling Postgres.
RedisLost(c) ==
  /\ stream[c] = "live"
  /\ MayFail(TRUE)
  /\ stream' = [stream EXCEPT ![c] = "poll"]
  /\ inbox' = [inbox EXCEPT ![c] = << >>]
  /\ UNCHANGED <<tableVars, requestVars, hot, last, upto, received>>

\* Mutation of HasNew: off by one.
HasNew_OffByOne(c) == LatestOf(log, Kinds) > last[c] + 1

HasNew(c) == LatestOf(log, Kinds) > last[c]

\* _poll_relay: read what is new, wait when there is nothing.
Poll(c) ==
  /\ stream[c] = "poll"
  /\ HasNew(c)
  /\ upto' = [upto EXCEPT ![c] = LatestOf(log, Kinds)]
  /\ stream' = [stream EXCEPT ![c] = "polled"]
  /\ UNCHANGED <<tableVars, requestVars, hot, last, inbox, received, faults>>

PollAgain(c) ==
  /\ stream[c] = "polled"
  /\ BatchDone(c)
  /\ stream' = [stream EXCEPT ![c] = "poll"]
  /\ UNCHANGED <<tableVars, requestVars, hot, last, upto, inbox, received, faults>>

Disconnect(c) ==
  /\ stream[c] # "off"
  /\ MayFail(TRUE)
  /\ stream' = [stream EXCEPT ![c] = "off"]
  /\ inbox' = [inbox EXCEPT ![c] = << >>]
  /\ UNCHANGED <<tableVars, requestVars, hot, last, upto, received>>

-----------------------------------------------------------------------------

FinishStep(w) == Commit(w) \/ SetHot(w) \/ PublishEvent(w)

RequestStep(w) ==
  \/ Navigate(w, "slide") \/ Navigate(w, "branch")
  \/ \E k \in Keys : SubmitCheck(w, k)
  \/ SubmitRecord(w) \/ SubmitReject(w)
  \/ RepublishRead(w) \/ RepublishRecord(w)
  \/ FinishStep(w)
  \/ RequestDies(w)

StreamStep(c) ==
  \/ Connect(c) \/ YieldRow(c) \/ Subscribe(c) \/ Relay(c)
  \/ Poll(c) \/ PollAgain(c)

SessionNext ==
  \/ \E w \in Requests : RequestStep(w)
  \/ \E c \in Clients : StreamStep(c) \/ RedisLost(c) \/ Disconnect(c)
  \/ ApproveHead
  \/ HotExpires

SessionSafety == SessionInit /\ [][SessionNext]_vars

\* A connected stream's generator keeps running: it is driven by its replay,
\* by the two-second poll or by the Pub/Sub connection.
SessionSpec == SessionSafety /\ \A c \in Clients : WF_vars(StreamStep(c))

-----------------------------------------------------------------------------
(* Properties.                                                             *)

\* However requests with the same Idempotency-Key race, retry or die, each key
\* is counted once: the tallies of an aggregate_updated event are its rank
\* among them, and the counter is the rank of the last
\* (lock_session_events before find_by_idempotency_key).
CountedOnce ==
  LET T == {e \in log : e.kind = "tally"} IN
    /\ attempts = Cardinality(T)
    /\ \A e \in T : e.value = Cardinality({f \in T : f.sequence <= e.sequence})
    /\ \A e, f \in T : e.key = f.key => e = f

\* The pinned snapshot is the one the last content_republished event of the
\* log announced, so that a client that follows the event finds that content.
PinAnnounced ==
  LET n == LatestOf(log, {"pin"}) IN
    pin = IF n = 0 THEN 1 ELSE (CHOOSE e \in log : e.sequence = n).value

\* Neither a stream nor the hot state ever shows an event that is not
\* committed: the "commit, then broadcast" order of _finish.
OnlyCommittedShown ==
  /\ \A c \in Clients : \A i \in DOMAIN received[c] : received[c][i] \in NumbersOf(log)
  /\ \A m \in hot : {m.slide, m.branch, m.last} \subseteq {0} \cup NumbersOf(log)

\* A client never receives an id twice or out of order, over all reconnects
\* and the change from the live relay to polling.
StreamInOrder ==
  \A c \in Clients : \A i, j \in DOMAIN received[c] :
    i < j => received[c][i] < received[c][j]

\* A stream that has degraded to polling delivers every committed event unless
\* the client disconnects ("live sync degrades, it never just stops").
PollingCatchesUp ==
  \A c \in Clients, n \in Numbers :
    (stream[c] \in {"poll", "polled"} /\ n \in NumbersOf(log) /\ n > last[c])
      ~> (last[c] >= n \/ stream[c] = "off")

==============================================================================
