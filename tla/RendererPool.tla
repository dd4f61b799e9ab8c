---------------------------- MODULE RendererPool ----------------------------
(* The pool of long-lived renderer processes the gateway keeps              *)
(* (services/gateway/renderer_pool.py) and the loop each process runs       *)
(* (packages/renderer/src/agent-worker.ts).                                 *)
(*                                                                          *)
(* Coroutines of one event loop call render.  Each takes a unit of the      *)
(* capacity semaphore, borrows a process in round-robin order, writes its   *)
(* request line under the process' lock, waits without a limit while the    *)
(* line does not fit the buffers, and reads one line back within a timeout. *)
(* The lines carry no identity the pool compares: the reader believes       *)
(* whatever comes next.  A retryable error makes the caller replace the process and  *)
(* try again.  A slot stands for a process; a slot nobody refers to is used *)
(* for the next process started.                                            *)
EXTENDS Naturals, Sequences, FiniteSets, SequencesExt

CONSTANTS
    Requests,       \* the calls of render
    MaxSlots,       \* bound: names for processes, enough for all referred to
    NoOne,          \* nobody holds the lock, no process, no reply
    PoolSize,       \* RendererConfig.pool_size
    MaxConcurrent,  \* RendererConfig.max_concurrent_renders
    MaxRetries,     \* RendererConfig.max_retries
    MaxExits        \* bound: processes that die by themselves

ASSUME PoolAssumption ==
    /\ PoolSize \in Nat \ {0} /\ MaxConcurrent \in Nat \ {0}
    /\ MaxRetries \in Nat /\ MaxExits \in Nat
    /\ MaxSlots \in Nat /\ MaxSlots >= PoolSize + MaxConcurrent
    /\ NoOne \notin Requests \cup Nat

Slots == 1..MaxSlots

VARIABLES
    phase,      \* where each call is
    attempt,    \* the iteration of its retry loop, from 0
    worker,     \* the process it borrowed
    reply,      \* the request whose HTML it returned
    workers,    \* RendererPool._workers
    nextWorker, \* RendererPool._next_worker, modulo the length of the list
    poolLock,   \* the holder of RendererPool._pool_lock
    lock,       \* the holder of each RendererWorker.lock
    alive,      \* the processes that run
    stdin,      \* requests written to a process and not yet rendered
    stdout,     \* responses written by a process and not yet read
    outOfStep,  \* history: processes a call left before its line came, or with
                \* the rest of a line still in the pipe
    exits       \* how many processes died by themselves

callVars == <<phase, attempt, worker, reply>>
poolVars == <<workers, nextWorker, poolLock>>
procVars == <<lock, alive, stdin, stdout, outOfStep>>
vars == <<phase, attempt, worker, reply, workers, nextWorker, poolLock,
          lock, alive, stdin, stdout, outOfStep, exits>>

Inside == {"borrow", "spawning", "lock", "drain", "read", "replace"}
Finished == {"done", "failed", "cancelled"}
\* "fragment": the rest of a line whose beginning readline threw away
Responses == Requests \X {"html", "retryable", "permanent", "fragment"}

PoolInit ==
    /\ phase = [r \in Requests |-> "idle"]
    /\ attempt = [r \in Requests |-> 0]
    /\ worker = [r \in Requests |-> NoOne]
    /\ reply = [r \in Requests |-> NoOne]
    /\ workers = <<>> /\ nextWorker = 0 /\ poolLock = NoOne
    /\ lock = [w \in Slots |-> NoOne]
    /\ alive = {} /\ exits = 0 /\ outOfStep = {}
    /\ stdin = [w \in Slots |-> <<>>]
    /\ stdout = [w \in Slots |-> <<>>]

-----------------------------------------------------------------------------
(* _render_request and _borrow_worker *)

\* async with self._capacity
Enter(r) ==
    /\ phase[r] = "idle"
    /\ Cardinality({q \in Requests : phase[q] \in Inside}) < MaxConcurrent
    /\ phase' = [phase EXCEPT ![r] = "borrow"]
    /\ UNCHANGED <<attempt, worker, reply, poolVars, procVars, exits>>

\* Mutation of CanHold: _pool_lock is not taken.
CanHold_Unlocked(r) == r \in Requests

\* async with self._pool_lock: the holder keeps it while it starts processes
CanHold(r) == poolLock \in {r, NoOne}

\* Processes some call or the list refers to.
InUse == Range(workers) \cup {worker[r] : r \in Requests}

\* await start_worker, which suspends between the length test and the append
SpawnWorker(r) ==
    /\ phase[r] = "borrow"
    /\ CanHold(r)
    /\ Len(workers) < PoolSize
    /\ poolLock' = r
    /\ phase' = [phase EXCEPT ![r] = "spawning"]
    /\ UNCHANGED <<attempt, worker, reply, workers, nextWorker, procVars, exits>>

\* The new process has new pipes.
WorkerStarted(r) ==
    /\ phase[r] = "spawning"
    /\ LET w == Min(Slots \ InUse) IN
          /\ workers' = Append(workers, w)
          /\ alive' = alive \cup {w}
          /\ stdout' = [stdout EXCEPT ![w] = <<>>]
          /\ outOfStep' = outOfStep \ {w}
    /\ phase' = [phase EXCEPT ![r] = "borrow"]
    /\ UNCHANGED <<attempt, worker, reply, nextWorker, poolLock, lock, stdin, exits>>

\* start_worker raises outside the try of _render_request: no retry
StartFails(r) ==
    /\ phase[r] = "spawning"
    /\ phase' = [phase EXCEPT ![r] = "failed"]
    /\ poolLock' = NoOne
    /\ UNCHANGED <<attempt, worker, reply, workers, nextWorker, procVars, exits>>

BorrowWorker(r) ==
    /\ phase[r] = "borrow"
    /\ CanHold(r)
    /\ Len(workers) >= PoolSize
    /\ worker' = [worker EXCEPT ![r] = workers[(nextWorker % Len(workers)) + 1]]
    /\ nextWorker' = (nextWorker + 1) % Len(workers)
    /\ phase' = [phase EXCEPT ![r] = "lock"]
    /\ poolLock' = NoOne
    /\ UNCHANGED <<attempt, reply, workers, procVars, exits>>

-----------------------------------------------------------------------------
(* _render_with_worker *)

\* Mutation of LockIsFree: a process may serve two calls at once.
LockIsFree_Shared(w) == w \in Slots

\* async with worker.lock
LockIsFree(w) == lock[w] = NoOne

\* stdin.write and the call of drain: a line below the high-water mark is
\* taken at once, a longer one keeps the call in drain, which is outside the
\* wait_for of readline.  The pipe of a process that died takes it unread.
WriteRequest(r) ==
    LET w == worker[r] IN
    /\ phase[r] = "lock"
    /\ LockIsFree(w)
    /\ lock' = [lock EXCEPT ![w] = r]
    /\ stdin' = IF w \in alive THEN [stdin EXCEPT ![w] = Append(@, r)] ELSE stdin
    /\ \E next \in IF w \in alive THEN {"drain", "read"} ELSE {"read"} :
          phase' = [phase EXCEPT ![r] = next]
    /\ UNCHANGED <<attempt, worker, reply, poolVars, alive, stdout, outOfStep, exits>>

\* The process leaves the list and is killed in one stretch without an await.
\* What it wrote can still be read by the calls that wait for its lock.
Killed(w) ==
    /\ workers' = RemoveFirst(workers, w)
    /\ alive' = alive \ {w}
    /\ stdin' = [stdin EXCEPT ![w] = <<>>]

\* for _ in range(max_retries + 1)
MayRetry(r) == attempt[r] < MaxRetries

\* _replace_worker, then the next iteration of the loop or last_error
Replaced(r) ==
    /\ Killed(worker[r])
    /\ worker' = [worker EXCEPT ![r] = NoOne]
    /\ IF MayRetry(r)
          THEN /\ attempt' = [attempt EXCEPT ![r] = @ + 1]
               /\ phase' = [phase EXCEPT ![r] = "borrow"]
          ELSE /\ phase' = [phase EXCEPT ![r] = "failed"]
               /\ UNCHANGED attempt

\* A retryable RendererAdapterError: nothing suspends before _replace_worker
\* unless another call holds the pool lock.
Retry(r) ==
    IF CanHold(r)
      THEN Replaced(r)
      ELSE /\ phase' = [phase EXCEPT ![r] = "replace"]
           /\ UNCHANGED <<attempt, worker, workers, alive, stdin>>

ReplaceWorker(r) ==
    /\ phase[r] = "replace"
    /\ CanHold(r)
    /\ Replaced(r)
    /\ UNCHANGED <<reply, nextWorker, poolLock, lock, stdout, outOfStep, exits>>

\* BrokenPipeError, ConnectionResetError or a closed transport, at the write
\* or while the call drains
PipeFails(r) ==
    LET w == worker[r] IN
    /\ phase[r] = "drain" \/ (phase[r] = "lock" /\ LockIsFree(w))
    /\ w \notin alive
    /\ lock' = [lock EXCEPT ![w] = NoOne]
    /\ Retry(r)
    /\ UNCHANGED <<reply, nextWorker, poolLock, stdout, outOfStep, exits>>

\* What parse_worker_response makes of a line.  A fragment is no JSON, which
\* is retryable, or no UTF-8, which is not even a RendererAdapterError.
Outcomes(response) ==
    IF response[2] = "fragment" THEN {"retryable", "permanent"} ELSE {response[2]}

\* HTML ends the call, a permanent error too, any other error goes to the
\* retry loop.
ReadResponse(r) ==
    LET w == worker[r]
        response == Head(stdout[w]) IN
    /\ phase[r] = "read"
    /\ stdout[w] # <<>>
    /\ lock' = [lock EXCEPT ![w] = NoOne]
    /\ stdout' = [stdout EXCEPT ![w] = Tail(@)]
    /\ \E outcome \in Outcomes(response) :
          IF outcome = "retryable"
          THEN Retry(r) /\ UNCHANGED reply
          ELSE /\ worker' = [worker EXCEPT ![r] = NoOne]
               /\ IF outcome = "html"
                     THEN /\ phase' = [phase EXCEPT ![r] = "done"]
                          /\ reply' = [reply EXCEPT ![r] = response[1]]
                     ELSE /\ phase' = [phase EXCEPT ![r] = "failed"]
                          /\ UNCHANGED reply
               /\ UNCHANGED <<attempt, workers, alive, stdin>>
    /\ UNCHANGED <<nextWorker, poolLock, outOfStep, exits>>

\* readline of a line above the limit of the StreamReader, which start_worker
\* leaves at its default: the ValueError is caught nowhere, so the call raises
\* and the process stays in the list.  readline drops the line when all of it
\* came, and else only what came: the rest stays in the pipe.
LineTooLong(r) ==
    LET w == worker[r]
        rest == <<Head(stdout[w])[1], "fragment">> IN
    /\ phase[r] = "read"
    /\ stdout[w] # <<>>
    /\ lock' = [lock EXCEPT ![w] = NoOne]
    /\ phase' = [phase EXCEPT ![r] = "failed"]
    /\ worker' = [worker EXCEPT ![r] = NoOne]
    /\ \/ /\ stdout' = [stdout EXCEPT ![w] = Tail(@)]
          /\ UNCHANGED outOfStep
       \/ /\ stdout' = [stdout EXCEPT ![w] = <<rest>> \o Tail(@)]
          /\ outOfStep' = outOfStep \cup {w}
    /\ UNCHANGED <<attempt, reply, poolVars, alive, stdin, exits>>

\* readline returns no bytes; reading stderr suspends before the retry
ReadEof(r) ==
    LET w == worker[r] IN
    /\ phase[r] = "read"
    /\ w \notin alive /\ stdout[w] = <<>>
    /\ lock' = [lock EXCEPT ![w] = NoOne]
    /\ phase' = [phase EXCEPT ![r] = "replace"]
    /\ UNCHANGED <<attempt, worker, reply, poolVars, alive, stdin, stdout, outOfStep, exits>>

\* Mutation of ReadTimeout: readline without wait_for.
ReadTimeout_Never(r) == FALSE /\ UNCHANGED vars

\* asyncio.wait_for expires, possibly with the line already in the pipe
ReadTimeout(r) ==
    LET w == worker[r] IN
    /\ phase[r] = "read"
    /\ lock' = [lock EXCEPT ![w] = NoOne]
    /\ Retry(r)
    /\ outOfStep' = outOfStep \cup {w}
    /\ UNCHANGED <<reply, nextWorker, poolLock, stdout, exits>>

\* The caller's task is cancelled: the context managers release what it holds,
\* nobody replaces the process.
CallerCancelled(r) ==
    LET w == worker[r] IN
    /\ phase[r] \in Inside
    /\ phase' = [phase EXCEPT ![r] = "cancelled"]
    /\ worker' = [worker EXCEPT ![r] = NoOne]
    /\ poolLock' = IF poolLock = r THEN NoOne ELSE poolLock
    /\ lock' = [v \in Slots |-> IF lock[v] = r THEN NoOne ELSE lock[v]]
    /\ outOfStep' = IF phase[r] \in {"drain", "read"} THEN outOfStep \cup {w} ELSE outOfStep
    /\ UNCHANGED <<attempt, reply, workers, nextWorker, alive, stdin, stdout, exits>>

-----------------------------------------------------------------------------
(* runWorkerLoop: one line in, one line out, in order *)

\* The process has read so much of its input that the writer's drain returns.
TakesInput(w) ==
    /\ w \in alive
    /\ \E r \in Requests :
          /\ phase[r] = "drain" /\ worker[r] = w
          /\ phase' = [phase EXCEPT ![r] = "read"]
    /\ UNCHANGED <<attempt, worker, reply, poolVars, procVars, exits>>

\* A line is answered when all of it was written.
Respond(w) ==
    /\ w \in alive /\ stdin[w] # <<>>
    /\ phase[Head(stdin[w])] # "drain"
    /\ \E kind \in {"html", "retryable", "permanent"} :
          stdout' = [stdout EXCEPT ![w] = Append(@, <<Head(stdin[w]), kind>>)]
    /\ stdin' = [stdin EXCEPT ![w] = Tail(@)]
    /\ UNCHANGED <<callVars, poolVars, lock, alive, outOfStep, exits>>

ProcessExits(w) ==
    /\ w \in alive /\ exits < MaxExits
    /\ exits' = exits + 1
    /\ alive' = alive \ {w}
    /\ stdin' = [stdin EXCEPT ![w] = <<>>]
    /\ UNCHANGED <<callVars, poolVars, lock, stdout, outOfStep>>

-----------------------------------------------------------------------------
CallStep(r) ==
    \/ SpawnWorker(r) \/ WorkerStarted(r) \/ StartFails(r) \/ BorrowWorker(r)
    \/ WriteRequest(r) \/ PipeFails(r)
    \/ ReadResponse(r) \/ LineTooLong(r) \/ ReadEof(r) \/ ReadTimeout(r)
    \/ ReplaceWorker(r)

AllFinished ==
    /\ \A r \in Requests : phase[r] \in Finished
    /\ UNCHANGED vars

PoolNext ==
    \/ \E r \in Requests : Enter(r) \/ CallStep(r) \/ CallerCancelled(r)
    \/ \E w \in Slots : TakesInput(w) \/ Respond(w) \/ ProcessExits(w)
    \/ AllFinished

\* The event loop runs a coroutine that can go on, the asyncio locks and the
\* semaphore wake their waiters in turn; nothing makes a process read or answer.
PoolFairness ==
    \A r \in Requests : SF_vars(CallStep(r)) /\ SF_vars(Enter(r))

PoolSpec == PoolInit /\ [][PoolNext]_vars /\ PoolFairness

-----------------------------------------------------------------------------
(* Properties *)

\* Types of the calls, the pool and the processes.
PoolTypeOK ==
    /\ phase \in [Requests -> Inside \cup Finished \cup {"idle"}]
    /\ attempt \in [Requests -> 0..MaxRetries]
    /\ worker \in [Requests -> Slots \cup {NoOne}]
    /\ reply \in [Requests -> Requests \cup {NoOne}]
    /\ workers \in Seq(Slots) /\ IsInjective(workers)
    /\ nextWorker \in Nat
    /\ poolLock \in Requests \cup {NoOne}
    /\ lock \in [Slots -> Requests \cup {NoOne}]
    /\ alive \subseteq Slots /\ outOfStep \subseteq Slots
    /\ stdin \in [Slots -> Seq(Requests)]
    /\ stdout \in [Slots -> Seq(Responses)]
    /\ exits \in 0..MaxExits

\* The gateway never runs more renderer processes than pool_size, and it runs
\* none that _workers no longer lists: close_renderer_pools would not find it.
\* Concurrent first calls, retries and cancelled calls must not start a second
\* set or leave one behind.
NoProcessLeaked ==
    /\ Cardinality(alive) <= PoolSize
    /\ alive \subseteq Range(workers)

\* While no call has left a process early, one line at most is in its pipes
\* and it is the one of the call that holds its lock; and as long as no call
\* was cancelled, failed or had to try again, a call gets the HTML of its own
\* artifact, although _render_with_worker compares no request id.  A call
\* leaves early when its read times out, when it is cancelled between write
\* and answer, and when readline gives up in the middle of an over-long line.
InStep ==
    /\ \A w \in alive \ outOfStep :
          LET queued == stdin[w] \o [i \in DOMAIN stdout[w] |-> stdout[w][i][1]] IN
          queued = <<>> \/ queued = <<lock[w]>>
    /\ (\A r \in Requests : attempt[r] = 0 /\ phase[r] \notin {"cancelled", "replace", "failed"})
          => \A r \in Requests : reply[r] \in {r, NoOne}

\* A call that waits for a process to read its input, itself or behind the
\* call that holds the lock of the process: no timeout covers that wait.
Blocked(r) ==
    \/ phase[r] = "drain"
    \/ phase[r] = "lock" /\ \E q \in Requests : lock[worker[r]] = q /\ phase[q] = "drain"

\* A call that entered the pool returns HTML, raises or is cancelled, also
\* when the renderer never answers, dies or cannot be started, and although it
\* may wait for the pool lock and a process lock in turn.  The one exception is
\* the one the code has: the process stops reading its input for ever while a
\* line above the buffers is written to it (renderer_pool.py:125), and the
\* call that writes, or waits for that process' lock, never ends.
EveryRenderReturns ==
    \A r \in Requests :
       \/ <>[]Blocked(r)
       \/ phase[r] \in Inside ~> phase[r] \in Finished

=============================================================================
