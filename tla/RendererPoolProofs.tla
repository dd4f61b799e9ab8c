------------------------- MODULE RendererPoolProofs -------------------------
(***************************************************************************)
(* Proofs about RendererPool.                                              *)
(***************************************************************************)
EXTENDS RendererPool, FiniteSetTheorems, SequenceTheorems, WellFoundedInduction, TLAPS

-----------------------------------------------------------------------------
(* The inductive invariant.                                                *)

\* A call has a process exactly from borrow to release, and the call that
\* starts one holds the pool lock while the list is short.
BorrowInv ==
  \A r \in Requests : worker[r] # NoOne <=> phase[r] \in {"lock", "drain", "read", "replace"}

SpawnInv ==
  /\ \A r \in Requests : phase[r] = "spawning" => poolLock = r /\ Len(workers) < PoolSize
  /\ Len(workers) <= PoolSize

\* The semaphore.
Calls == {r \in Requests : phase[r] \in Inside}

CallsInv == IsFiniteSet(Calls) /\ Cardinality(Calls) <= MaxConcurrent

\* A process that runs is listed; one that does not has lost its input.
AliveInv ==
  /\ alive \subseteq Range(workers)
  /\ \A w \in Slots : w \notin alive => stdin[w] = << >>

\* The lock of a process and the call that writes to it and reads from it.
Holding == {"drain", "read"}

LockInv ==
  /\ \A w \in Slots : lock[w] # NoOne => phase[lock[w]] \in Holding /\ worker[lock[w]] = w
  /\ \A r \in Requests : phase[r] \in Holding => lock[worker[r]] = r

Kinds == {"html", "retryable", "permanent"}

\* The pipes of w are empty, hold the request of the holder of its lock, or
\* the response to it.
Queued(w) ==
  \/ stdin[w] = << >> /\ stdout[w] = << >>
  \/ lock[w] \in Requests /\ stdin[w] = << lock[w] >> /\ stdout[w] = << >>
  \/ /\ lock[w] \in Requests /\ stdin[w] = << >>
     /\ \E kind \in Kinds : stdout[w] = << <<lock[w], kind>> >>

QueueInv == \A w \in Slots : w \notin outOfStep => Queued(w)

\* A line is not answered while it is still being written.
DrainInv ==
  \A r \in Requests : phase[r] = "drain" /\ worker[r] \notin outOfStep => stdout[worker[r]] = << >>

\* Nothing has gone wrong yet.
Calm == \A r \in Requests : attempt[r] = 0 /\ phase[r] \notin {"cancelled", "replace", "failed"}

ReplyInv == Calm => outOfStep = {} /\ \A r \in Requests : reply[r] \in {r, NoOne}

PoolInv ==
  /\ PoolTypeOK /\ BorrowInv /\ SpawnInv /\ CallsInv /\ AliveInv /\ LockInv
  /\ QueueInv /\ DrainInv /\ ReplyInv

-----------------------------------------------------------------------------
(* Constants, minima and list.remove.                                      *)

LEMMA Constant ==
  /\ PoolSize \in Nat \ {0} /\ MaxConcurrent \in Nat \ {0}
  /\ MaxRetries \in Nat /\ MaxExits \in Nat
  /\ MaxSlots \in Nat /\ MaxSlots >= PoolSize + MaxConcurrent
  /\ NoOne \notin Requests \cup Nat
BY PoolAssumption DEF PoolAssumption

LEMMA MinIsIn ==
  ASSUME NEW S, S \subseteq Nat, S # {}
  PROVE  Min(S) \in S /\ \A n \in S : Min(S) <= n
<1> DEFINE R == OpToRel(<, Nat)
<1>1. IsWellFoundedOn(R, Nat)
  BY NatLessThanWellFounded
<1>2. \A x, y \in Nat : <<x, y>> \in R <=> x < y
  BY DEF OpToRel
<1> HIDE DEF R
<1>3. PICK x \in S : \A y \in S : ~(<<y, x>> \in R)
  BY <1>1, WFMin
<1>4. ASSUME NEW y \in S PROVE x <= y
  <2>1. x \in Nat /\ y \in Nat
    BY <1>3
  <2>2. ~(y < x)
    BY <1>2, <1>3, <2>1
  <2> QED BY <2>1, <2>2
<1> QED BY <1>3, <1>4 DEF Min

\* What list.remove leaves of a list without duplicates.
LEMMA RemoveFacts ==
  ASSUME NEW s \in Seq(Slots), IsInjective(s), NEW w
  PROVE  /\ RemoveFirst(s, w) \in Seq(Slots) /\ IsInjective(RemoveFirst(s, w))
         /\ Range(RemoveFirst(s, w)) = Range(s) \ {w}
         /\ Len(RemoveFirst(s, w)) <= Len(s)
<1>0. Len(s) \in Nat /\ DOMAIN s = 1..Len(s) /\ \A i \in 1..Len(s) : s[i] \in Slots
  OBVIOUS
<1>1. CASE ~\E i \in 1..Len(s) : s[i] = w
  BY <1>0, <1>1 DEF RemoveFirst, Range
<1>2. CASE \E i \in 1..Len(s) : s[i] = w
  <2> DEFINE I == {i \in 1..Len(s) : s[i] = w}
             k == Min(I)
             t == RemoveAt(s, k)
  <2>1. k \in 1..Len(s) /\ s[k] = w
    <3>1. I \subseteq Nat /\ I # {}
      BY <1>2
    <3> QED BY <3>1, MinIsIn
  <2>2. RemoveFirst(s, w) = t
    BY <1>2 DEF RemoveFirst, SelectInSeq
  <2> HIDE DEF I, k
  <2>3. /\ t \in Seq(Slots) /\ Len(t) = Len(s) - 1
        /\ \A i \in 1..Len(t) : t[i] = IF i < k THEN s[i] ELSE s[i + 1]
    <3> DEFINE a == SubSeq(s, 1, k - 1)
               b == SubSeq(s, k + 1, Len(s))
    <3>1. /\ a \in Seq(Slots) /\ Len(a) = k - 1 /\ \A i \in 1..k - 1 : a[i] = s[i]
      BY <1>0, <2>1
    <3>2. /\ b \in Seq(Slots) /\ Len(b) = Len(s) - k
          /\ \A i \in 1..Len(s) - k : b[i] = s[k + i]
      <4>1. /\ k + 1 \in Int /\ Len(s) \in Int /\ k + 1 <= Len(s) + 1
            /\ \A i \in k + 1..Len(s) : s[i] \in Slots
        BY <1>0, <2>1
      <4>2. /\ b \in Seq(Slots) /\ Len(b) = IF k + 1 <= Len(s) THEN Len(s) - (k + 1) + 1 ELSE 0
            /\ \A i \in 1..Len(s) - (k + 1) + 1 : b[i] = s[k + 1 + i - 1]
        BY <4>1, SubSeqProperties
      <4> HIDE DEF b
      <4>3. Len(s) - (k + 1) + 1 = Len(s) - k
        BY <1>0, <2>1
      <4>4. Len(b) = Len(s) - k
        <5>1. k \in Int /\ Len(s) \in Int /\ k <= Len(s)
          BY <1>0, <2>1
        <5>2. CASE k + 1 <= Len(s)
          <6>1. Len(b) = Len(s) - (k + 1) + 1
            BY <4>2, <5>2
          <6> QED BY <4>3, <6>1
        <5>3. CASE ~(k + 1 <= Len(s))
          <6>1. Len(b) = 0
            BY <4>2, <5>3
          <6> QED BY <5>1, <5>3, <6>1
        <5> QED BY <5>2, <5>3
      <4>5. ASSUME NEW i \in 1..Len(s) - k PROVE b[i] = s[k + i]
        <5>1. b[i] = s[k + 1 + i - 1]
          BY <4>2, <4>3
        <5>2. k + 1 + i - 1 = k + i
          BY <2>1
        <5> QED BY <5>1, <5>2
      <4> QED BY <4>2, <4>4, <4>5
    <3>3. t = a \o b
      BY DEF RemoveAt
    <3> HIDE DEF a, b, t
    <3>4. t \in Seq(Slots) /\ Len(t) = Len(s) - 1
      <4>1. t \in Seq(Slots) /\ Len(t) = Len(a) + Len(b)
        BY <3>1, <3>2, <3>3, ConcatProperties
      <4> QED BY <1>0, <2>1, <3>1, <3>2, <4>1
    <3>5. ASSUME NEW i \in 1..Len(t) PROVE t[i] = IF i < k THEN s[i] ELSE s[i + 1]
      <4>1. CASE i < k
        BY <1>0, <2>1, <3>1, <3>2, <3>3, <3>4, <4>1
      <4>2. CASE i >= k
        <5>1. t[i] = b[i - (k - 1)] /\ i - (k - 1) \in 1..Len(s) - k
          BY <1>0, <2>1, <3>1, <3>2, <3>3, <3>4, <4>2
        <5>2. b[i - (k - 1)] = s[k + (i - (k - 1))]
          BY <3>2, <5>1
        <5>3. k + (i - (k - 1)) = i + 1
          BY <2>1, <3>4
        <5> QED BY <4>2, <5>1, <5>2, <5>3, <2>1, <3>4
      <4> QED BY <2>1, <3>4, <4>1, <4>2
    <3> QED BY <3>4, <3>5
  <2> HIDE DEF t
  <2>4. DOMAIN t = 1..Len(t) /\ \A i, j \in 1..Len(s) : s[i] = s[j] => i = j
    BY <1>0, <2>3 DEF IsInjective
  <2>5. IsInjective(t)
    BY <1>0, <2>1, <2>3, <2>4 DEF IsInjective
  <2>6. Range(t) = Range(s) \ {w}
    <3>1. ASSUME NEW i \in 1..Len(t) PROVE t[i] \in Range(s) \ {w}
      BY <1>0, <2>1, <2>3, <2>4, <3>1 DEF Range
    <3>2. ASSUME NEW i \in 1..Len(s), i # k PROVE s[i] \in Range(t)
      <4>1. CASE i < k
        BY <1>0, <2>1, <2>3, <2>4, <4>1 DEF Range
      <4>2. CASE i > k
        <5>1. i - 1 \in 1..Len(t) /\ t[i - 1] = s[i]
          BY <1>0, <2>1, <2>3, <4>2
        <5> QED BY <2>4, <5>1 DEF Range
      <4> QED BY <1>0, <2>1, <3>2, <4>1, <4>2
    <3> QED BY <1>0, <2>1, <2>4, <3>1, <3>2 DEF Range
  <2> QED BY <1>0, <2>2, <2>3, <2>5, <2>6
<1> QED BY <1>1, <1>2

\* A list has as many elements as places, at most.
LEMMA RangeFacts ==
  ASSUME NEW s \in Seq(Slots)
  PROVE  IsFiniteSet(Range(s)) /\ Cardinality(Range(s)) <= Len(s) /\ Range(s) \subseteq Slots
<1>1. Len(s) \in Nat /\ DOMAIN s = 1..Len(s) /\ s \in [1..Len(s) -> Slots]
  OBVIOUS
<1>2. s \in Surjection(1..Len(s), Range(s))
  BY <1>1 DEF Surjection, Range
<1>3. IsFiniteSet(1..Len(s)) /\ Cardinality(1..Len(s)) = Len(s)
  BY <1>1, FS_Interval
<1>4. Range(s) \subseteq Slots
  BY <1>1 DEF Range
<1> QED BY <1>2, <1>3, <1>4, FS_Surjection

-----------------------------------------------------------------------------
(* Types.                                                                  *)

Phases == Inside \cup Finished \cup {"idle"}

CallTypes ==
  /\ phase \in [Requests -> Phases]
  /\ attempt \in [Requests -> 0..MaxRetries]
  /\ worker \in [Requests -> Slots \cup {NoOne}]
  /\ reply \in [Requests -> Requests \cup {NoOne}]

ListTypes ==
  /\ workers \in Seq(Slots) /\ IsInjective(workers)
  /\ nextWorker \in Nat
  /\ poolLock \in Requests \cup {NoOne}

ProcessTypes ==
  /\ lock \in [Slots -> Requests \cup {NoOne}]
  /\ alive \subseteq Slots /\ outOfStep \subseteq Slots
  /\ stdin \in [Slots -> Seq(Requests)]
  /\ stdout \in [Slots -> Seq(Responses)]

LEMMA TypeParts ==
  PoolTypeOK <=> CallTypes /\ ListTypes /\ ProcessTypes /\ exits \in 0..MaxExits
BY DEF PoolTypeOK, CallTypes, ListTypes, ProcessTypes, Phases

LEMMA TypePartsNext ==
  ASSUME CallTypes', ListTypes', ProcessTypes', exits' \in 0..MaxExits
  PROVE  PoolTypeOK'
BY DEF PoolTypeOK, CallTypes, ListTypes, ProcessTypes, Phases

LEMMA SlotsFacts == Slots \subseteq Nat /\ NoOne \notin Slots /\ NoOne \notin Requests
BY Constant DEF Slots

\* There is a name for the process a call starts: the list is short and the
\* semaphore bounds the calls that refer to another one.
LEMMA FreshSlot ==
  ASSUME PoolTypeOK, BorrowInv, SpawnInv, CallsInv,
         NEW r \in Requests, phase[r] = "spawning"
  PROVE  Min(Slots \ InUse) \in Slots \ InUse
<1> DEFINE B == {q \in Requests : worker[q] # NoOne}
           W == {worker[q] : q \in B}
           U == Range(workers) \cup W
<1>0. CallTypes /\ ListTypes
  BY TypeParts
<1>1. r \in Calls /\ B \subseteq Calls \ {r}
  BY DEF Calls, BorrowInv, Inside
<1>2. IsFiniteSet(B) /\ Cardinality(B) <= MaxConcurrent - 1 /\ Cardinality(B) \in Nat
  <2>1. /\ IsFiniteSet(Calls \ {r})
        /\ Cardinality(Calls \ {r}) = Cardinality(Calls) - 1
    BY <1>1, FS_RemoveElement DEF CallsInv
  <2>2. IsFiniteSet(B) /\ Cardinality(B) <= Cardinality(Calls \ {r})
    BY <1>1, <2>1, FS_Subset
  <2> HIDE DEF B
  <2>3. Cardinality(B) \in Nat /\ Cardinality(Calls) \in Nat
    BY <2>2, FS_CardinalityType DEF CallsInv
  <2> QED BY <2>1, <2>2, <2>3, Constant DEF CallsInv
<1>3. IsFiniteSet(W) /\ Cardinality(W) <= Cardinality(B)
  <2> DEFINE f == [q \in B |-> worker[q]]
  <2>1. f \in Surjection(B, W)
    BY DEF Surjection
  <2> HIDE DEF f, B, W
  <2> QED BY <1>2, <2>1, FS_Surjection
<1>4. IsFiniteSet(Range(workers)) /\ Cardinality(Range(workers)) <= PoolSize - 1
  <2>1. IsFiniteSet(Range(workers)) /\ Cardinality(Range(workers)) <= Len(workers)
    BY <1>0, RangeFacts DEF ListTypes
  <2>2. Len(workers) < PoolSize /\ Len(workers) \in Nat
    BY <1>0 DEF SpawnInv, ListTypes
  <2>3. Cardinality(Range(workers)) \in Nat
    BY <2>1, FS_CardinalityType
  <2> QED BY <2>1, <2>2, <2>3, Constant
<1>5. IsFiniteSet(U) /\ Cardinality(U) < MaxSlots
  <2> HIDE DEF W, B
  <2>1. /\ IsFiniteSet(U)
        /\ Cardinality(U) <= Cardinality(Range(workers)) + Cardinality(W)
    <3>0. IsFiniteSet(Range(workers) \cap W)
      BY <1>3, FS_Subset
    <3>1. /\ IsFiniteSet(U)
          /\ Cardinality(U) = Cardinality(Range(workers)) + Cardinality(W)
                              - Cardinality(Range(workers) \cap W)
      BY <1>3, <1>4, FS_Union
    <3>2. /\ Cardinality(Range(workers) \cap W) \in Nat /\ Cardinality(W) \in Nat
          /\ Cardinality(Range(workers)) \in Nat
      BY <1>3, <1>4, <3>0, FS_CardinalityType
    <3> QED BY <3>1, <3>2
  <2>2. /\ Cardinality(W) \in Nat /\ Cardinality(Range(workers)) \in Nat
        /\ Cardinality(U) \in Nat
    BY <1>3, <1>4, <2>1, FS_CardinalityType
  <2> QED BY <1>2, <1>3, <1>4, <2>1, <2>2, Constant
<1>6. Slots \ InUse # {}
  <2>1. SUFFICES ASSUME Slots \subseteq InUse PROVE FALSE
    OBVIOUS
  <2>2. Slots \subseteq U
    BY <2>1, SlotsFacts DEF InUse
  <2> HIDE DEF U
  <2>3. Cardinality(Slots) <= Cardinality(U)
    BY <1>5, <2>2, FS_Subset
  <2>4. Cardinality(Slots) = MaxSlots
    BY Constant, FS_Interval DEF Slots
  <2>5. Cardinality(U) \in Nat
    BY <1>5, FS_CardinalityType
  <2> QED BY <1>5, <2>3, <2>4, <2>5, Constant
<1>7. Slots \ InUse \subseteq Nat
  BY SlotsFacts
<1> QED BY <1>6, <1>7, MinIsIn

-----------------------------------------------------------------------------
(* What a call that replaces its process, or waits to, does.               *)

\* The calls after r gave up this attempt.
GivesUp(r) ==
  /\ phase' \in [Requests -> Phases] /\ attempt' \in [Requests -> 0..MaxRetries]
  /\ worker' \in [Requests -> Slots \cup {NoOne}]
  /\ \A q \in Requests : q # r => /\ phase'[q] = phase[q] /\ worker'[q] = worker[q]
                                  /\ attempt'[q] = attempt[q]
  /\ phase'[r] \in {"borrow", "failed", "replace"}
  /\ worker'[r] = IF phase'[r] = "replace" THEN worker[r] ELSE NoOne
  /\ attempt'[r] \in {attempt[r], attempt[r] + 1}
  /\ phase'[r] = "borrow" => attempt'[r] = attempt[r] + 1

\* The processes after it.
Shrinks ==
  /\ workers' \in Seq(Slots) /\ IsInjective(workers') /\ Len(workers') <= Len(workers)
  /\ alive' \subseteq alive
  /\ alive \subseteq Range(workers) => alive' \subseteq Range(workers')
  /\ stdin' \in [Slots -> Seq(Requests)]
  /\ \A w \in Slots : stdin'[w] = stdin[w] \/ stdin'[w] = << >>
  /\ \A w \in Slots : w \in alive /\ w \notin alive' => stdin'[w] = << >>

LEMMA ReplacedFacts ==
  ASSUME PoolTypeOK, NEW r \in Requests, worker[r] \in Slots, Replaced(r)
  PROVE  GivesUp(r) /\ Shrinks
<1>0. CallTypes /\ ListTypes /\ ProcessTypes
  BY TypeParts
<1>1. /\ worker' = [worker EXCEPT ![r] = NoOne]
      /\ \/ /\ MayRetry(r)
            /\ attempt' = [attempt EXCEPT ![r] = @ + 1]
            /\ phase' = [phase EXCEPT ![r] = "borrow"]
         \/ /\ phase' = [phase EXCEPT ![r] = "failed"]
            /\ attempt' = attempt
  BY DEF Replaced
<1>2. attempt[r] \in 0..MaxRetries
  BY <1>0 DEF CallTypes
<1>3. MayRetry(r) => attempt[r] + 1 \in 0..MaxRetries
  BY <1>2, Constant DEF MayRetry
<1>4. GivesUp(r)
  BY <1>0, <1>1, <1>3 DEF GivesUp, CallTypes, Phases, Inside, Finished
<1> DEFINE w == worker[r]
<1>5. /\ workers' = RemoveFirst(workers, w) /\ alive' = alive \ {w}
      /\ stdin' = [stdin EXCEPT ![w] = << >>]
  BY DEF Replaced, Killed
<1>6. /\ workers' \in Seq(Slots) /\ IsInjective(workers') /\ Len(workers') <= Len(workers)
      /\ Range(workers') = Range(workers) \ {w}
  BY <1>0, <1>5, RemoveFacts DEF ListTypes
<1> HIDE DEF w
<1>7. << >> \in Seq(Requests)
  OBVIOUS
<1>8. /\ stdin' \in [Slots -> Seq(Requests)]
      /\ \A v \in Slots : stdin'[v] = stdin[v] \/ stdin'[v] = << >>
      /\ \A v \in Slots : v \in alive /\ v \notin alive' => stdin'[v] = << >>
  BY <1>0, <1>5, <1>7 DEF ProcessTypes
<1>9. Shrinks
  BY <1>5, <1>6, <1>8 DEF Shrinks
<1> QED BY <1>4, <1>9

LEMMA RetryFacts ==
  ASSUME PoolTypeOK, NEW r \in Requests, worker[r] \in Slots, Retry(r)
  PROVE  GivesUp(r) /\ Shrinks
<1>1. CASE CanHold(r)
  BY <1>1, ReplacedFacts DEF Retry
<1>2. CASE ~CanHold(r)
  <2>0. CallTypes /\ ListTypes /\ ProcessTypes
    BY TypeParts
  <2>1. /\ phase' = [phase EXCEPT ![r] = "replace"]
        /\ UNCHANGED <<attempt, worker, workers, alive, stdin>>
    BY <1>2 DEF Retry
  <2>2. GivesUp(r)
    BY <2>0, <2>1 DEF GivesUp, CallTypes, Phases, Inside
  <2>3. Len(workers) \in Nat
    BY <2>0 DEF ListTypes
  <2>4. Shrinks
    BY <2>0, <2>1, <2>3 DEF Shrinks, ListTypes, ProcessTypes
  <2> QED BY <2>2, <2>4
<1> QED BY <1>1, <1>2

\* A response that is not tried again for ends the call.
TriesAgain(r) == ReadResponse(r) /\ Retry(r) /\ UNCHANGED reply

Retries(r) ==
  ReplaceWorker(r) \/ PipeFails(r) \/ ReadTimeout(r) \/ TriesAgain(r)

Ends(r) == ReadResponse(r) /\ ~TriesAgain(r)

LEMMA HasWorker ==
  ASSUME PoolTypeOK, BorrowInv, NEW r \in Requests,
         phase[r] \in {"lock", "drain", "read", "replace"}
  PROVE  worker[r] \in Slots
BY DEF BorrowInv, PoolTypeOK

LEMMA RetriesFacts ==
  ASSUME PoolTypeOK, BorrowInv, NEW r \in Requests, Retries(r)
  PROVE  /\ GivesUp(r) /\ Shrinks
         /\ phase[r] \in {"lock", "drain", "read", "replace"} /\ worker[r] \in Slots
         /\ UNCHANGED <<reply, nextWorker, poolLock, exits>>
<1>1. phase[r] \in {"lock", "drain", "read", "replace"} /\ worker[r] \in Slots
  BY HasWorker DEF Retries, TriesAgain, ReplaceWorker, PipeFails, ReadTimeout, ReadResponse
<1>2. Replaced(r) \/ Retry(r)
  BY DEF Retries, TriesAgain, ReplaceWorker, PipeFails, ReadTimeout
<1>3. UNCHANGED <<reply, nextWorker, poolLock, exits>>
  BY DEF Retries, TriesAgain, ReplaceWorker, PipeFails, ReadTimeout, ReadResponse
<1> QED BY <1>1, <1>2, <1>3, ReplacedFacts, RetryFacts

\* What the four retries and the end of a call do to the pipes and the locks.
LEMMA RetriesPipes ==
  ASSUME PoolTypeOK, BorrowInv, NEW r \in Requests, Retries(r)
  PROVE  \/ UNCHANGED <<lock, stdout, outOfStep>> /\ phase[r] \notin Holding
         \/ /\ phase[r] = "drain" /\ worker[r] \notin alive
            /\ lock' = [lock EXCEPT ![worker[r]] = NoOne]
            /\ UNCHANGED <<stdout, outOfStep>>
         \/ /\ phase[r] = "read" /\ stdout' = stdout
            /\ lock' = [lock EXCEPT ![worker[r]] = NoOne]
            /\ outOfStep' = outOfStep \cup {worker[r]}
         \/ /\ phase[r] = "read" /\ stdout[worker[r]] # << >>
            /\ lock' = [lock EXCEPT ![worker[r]] = NoOne]
            /\ outOfStep' = outOfStep
            /\ stdout' = [stdout EXCEPT ![worker[r]] = Tail(@)]
<1>1. CASE PipeFails(r)
  <2>1. /\ phase[r] = "drain" \/ (phase[r] = "lock" /\ lock[worker[r]] = NoOne)
        /\ worker[r] \notin alive /\ UNCHANGED <<stdout, outOfStep>>
        /\ lock' = [lock EXCEPT ![worker[r]] = NoOne]
    BY <1>1 DEF PipeFails, LockIsFree
  <2>2. phase[r] = "lock" /\ lock[worker[r]] = NoOne => lock' = lock
    BY <2>1 DEF PoolTypeOK
  <2> QED BY <2>1, <2>2 DEF Holding
<1>2. CASE ReplaceWorker(r) \/ ReadTimeout(r) \/ TriesAgain(r)
  BY <1>2 DEF TriesAgain, ReplaceWorker, ReadTimeout, ReadResponse, Holding
<1> QED BY <1>1, <1>2 DEF Retries

LEMMA EndsFacts ==
  ASSUME NEW r \in Requests, Ends(r)
  PROVE  /\ phase[r] = "read" /\ stdout[worker[r]] # << >>
         /\ lock' = [lock EXCEPT ![worker[r]] = NoOne]
         /\ stdout' = [stdout EXCEPT ![worker[r]] = Tail(@)]
         /\ worker' = [worker EXCEPT ![r] = NoOne]
         /\ \/ /\ phase' = [phase EXCEPT ![r] = "done"]
               /\ reply' = [reply EXCEPT ![r] = Head(stdout[worker[r]])[1]]
            \/ phase' = [phase EXCEPT ![r] = "failed"] /\ reply' = reply
         /\ UNCHANGED <<attempt, workers, alive, stdin, nextWorker, poolLock, outOfStep, exits>>
<1>1. ReadResponse(r) /\ ~(Retry(r) /\ UNCHANGED reply)
  BY DEF Ends, TriesAgain
<1> QED BY <1>1 DEF ReadResponse

LEMMA TailType ==
  ASSUME NEW S, NEW s \in Seq(S), s # << >>
  PROVE  Tail(s) \in Seq(S) /\ Head(s) \in S
OBVIOUS

LEMMA TypeInit == PoolInit => PoolTypeOK
<1> SUFFICES ASSUME PoolInit PROVE PoolTypeOK
  OBVIOUS
<1>1. CallTypes
  BY Constant DEF PoolInit, CallTypes, Phases
<1>2. ListTypes
  BY DEF PoolInit, ListTypes, IsInjective
<1>3. ProcessTypes
  <2>1. << >> \in Seq(Requests) /\ << >> \in Seq(Responses)
    OBVIOUS
  <2> QED BY <2>1 DEF PoolInit, ProcessTypes
<1> QED BY <1>1, <1>2, <1>3, TypeParts, Constant DEF PoolInit

LEMMA TypeStep ==
  ASSUME PoolTypeOK, BorrowInv, SpawnInv, CallsInv, [PoolNext]_vars
  PROVE  PoolTypeOK'
<1>0. CallTypes /\ ListTypes /\ ProcessTypes /\ exits \in 0..MaxExits
  BY TypeParts
<1>c. UNCHANGED callVars => CallTypes'
  BY <1>0 DEF callVars, CallTypes
<1>l. UNCHANGED poolVars => ListTypes'
  BY <1>0 DEF poolVars, ListTypes
<1>p. UNCHANGED procVars => ProcessTypes'
  BY <1>0 DEF procVars, ProcessTypes
<1>e. << >> \in Seq(Requests) /\ << >> \in Seq(Responses)
  OBVIOUS
<1>1. ASSUME NEW r \in Requests, Enter(r) PROVE PoolTypeOK'
  <2>1. CallTypes'
    BY <1>0, <1>1 DEF Enter, CallTypes, Phases, Inside
  <2> QED BY <1>0, <1>1, <1>l, <1>p, <2>1, TypePartsNext DEF Enter
<1>2. ASSUME NEW r \in Requests, SpawnWorker(r) \/ StartFails(r) PROVE PoolTypeOK'
  <2>1. CallTypes' /\ ListTypes' /\ UNCHANGED procVars /\ exits' = exits
    BY <1>0, <1>2 DEF SpawnWorker, StartFails, CallTypes, ListTypes, Phases, Inside, Finished
  <2> QED BY <1>0, <1>p, <2>1, TypePartsNext
<1>3. ASSUME NEW r \in Requests, WorkerStarted(r) PROVE PoolTypeOK'
  <2> DEFINE w == Min(Slots \ InUse)
  <2>1. w \in Slots /\ w \notin Range(workers)
    BY <1>3, FreshSlot DEF WorkerStarted, InUse
  <2>2. /\ workers' = Append(workers, w) /\ alive' = alive \cup {w}
        /\ stdout' = [stdout EXCEPT ![w] = << >>] /\ outOfStep' = outOfStep \ {w}
    BY <1>3 DEF WorkerStarted
  <2> HIDE DEF w
  <2>3. workers' \in Seq(Slots) /\ IsInjective(workers')
    <3>1. /\ Len(workers) \in Nat /\ DOMAIN workers = 1..Len(workers)
          /\ workers' \in Seq(Slots) /\ DOMAIN workers' = 1..Len(workers) + 1
          /\ workers'[Len(workers) + 1] = w
          /\ \A i \in 1..Len(workers) : workers'[i] = workers[i]
      BY <1>0, <2>1, <2>2 DEF ListTypes
    <3>2. \A i \in 1..Len(workers) : workers[i] # w
      BY <2>1, <3>1 DEF Range
    <3>3. \A i, j \in 1..Len(workers) : workers[i] = workers[j] => i = j
      BY <1>0, <3>1 DEF ListTypes, IsInjective
    <3> QED BY <3>1, <3>2, <3>3 DEF IsInjective
  <2>4. CallTypes' /\ ListTypes'
    BY <1>0, <1>3, <2>3 DEF WorkerStarted, CallTypes, ListTypes, Phases, Inside
  <2>5. ProcessTypes' /\ exits' = exits
    BY <1>0, <1>3, <1>e, <2>1, <2>2 DEF WorkerStarted, ProcessTypes
  <2> QED BY <1>0, <2>4, <2>5, TypePartsNext
<1>4. ASSUME NEW r \in Requests, BorrowWorker(r) PROVE PoolTypeOK'
  <2> DEFINE n == Len(workers)
  <2>1. n \in Nat /\ n > 0
    BY <1>0, <1>4, Constant DEF BorrowWorker, ListTypes
  <2>2. nextWorker % n \in 0..n - 1 /\ (nextWorker + 1) % n \in Nat
    BY <1>0, <2>1 DEF ListTypes
  <2>3. workers[(nextWorker % n) + 1] \in Slots
    BY <1>0, <2>1, <2>2 DEF ListTypes
  <2>4. /\ worker' = [worker EXCEPT ![r] = workers[(nextWorker % n) + 1]]
        /\ nextWorker' = (nextWorker + 1) % n
        /\ phase' = [phase EXCEPT ![r] = "lock"] /\ poolLock' = NoOne
        /\ UNCHANGED <<attempt, reply, workers, procVars, exits>>
    BY <1>4 DEF BorrowWorker
  <2> HIDE DEF n
  <2>5. CallTypes'
    BY <1>0, <2>3, <2>4 DEF CallTypes, Phases, Inside
  <2>6. ListTypes'
    BY <1>0, <2>2, <2>4 DEF ListTypes
  <2> QED BY <1>0, <1>p, <2>4, <2>5, <2>6, TypePartsNext
<1>5. ASSUME NEW r \in Requests, WriteRequest(r) PROVE PoolTypeOK'
  <2>1. worker[r] \in Slots
    BY <1>5, HasWorker DEF WriteRequest
  <2>2. stdin[worker[r]] \in Seq(Requests)
    BY <1>0, <2>1 DEF ProcessTypes
  <2>3. Append(stdin[worker[r]], r) \in Seq(Requests)
    BY <2>2
  <2>4. ProcessTypes'
    BY <1>0, <1>5, <2>1, <2>3 DEF WriteRequest, ProcessTypes
  <2>5. CallTypes'
    BY <1>0, <1>5 DEF WriteRequest, CallTypes, Phases, Inside
  <2> QED BY <1>0, <1>5, <1>l, <2>4, <2>5, TypePartsNext DEF WriteRequest
<1>6. ASSUME NEW r \in Requests, Retries(r) PROVE PoolTypeOK'
  <2>1. /\ GivesUp(r) /\ Shrinks /\ worker[r] \in Slots
        /\ UNCHANGED <<reply, nextWorker, poolLock, exits>>
    BY <1>6, RetriesFacts
  <2>2. CallTypes' /\ ListTypes'
    BY <1>0, <2>1 DEF CallTypes, ListTypes, GivesUp, Shrinks
  <2>3. stdout[worker[r]] # << >> => Tail(stdout[worker[r]]) \in Seq(Responses)
    BY <1>0, <2>1, TailType DEF ProcessTypes
  <2>4. /\ lock' \in [Slots -> Requests \cup {NoOne}]
        /\ outOfStep' \subseteq Slots /\ stdout' \in [Slots -> Seq(Responses)]
    BY <1>0, <1>6, <2>1, <2>3, RetriesPipes DEF ProcessTypes
  <2>5. ProcessTypes'
    BY <1>0, <2>1, <2>4 DEF ProcessTypes, Shrinks
  <2> QED BY <1>0, <2>1, <2>2, <2>5, TypePartsNext
<1>7. ASSUME NEW r \in Requests, Ends(r) PROVE PoolTypeOK'
  <2>0. worker[r] \in Slots
    BY <1>7, EndsFacts, HasWorker
  <2>1. stdout[worker[r]] \in Seq(Responses) /\ stdout[worker[r]] # << >>
    BY <1>0, <1>7, <2>0, EndsFacts DEF ProcessTypes
  <2>2. /\ Tail(stdout[worker[r]]) \in Seq(Responses)
        /\ Head(stdout[worker[r]])[1] \in Requests
    BY <2>1, TailType DEF Responses
  <2>3. CallTypes'
    BY <1>0, <1>7, <2>2, EndsFacts DEF CallTypes, Phases, Finished
  <2>4. ListTypes'
    BY <1>0, <1>7, EndsFacts DEF ListTypes
  <2>5. ProcessTypes' /\ exits' = exits
    BY <1>0, <1>7, <2>2, EndsFacts DEF ProcessTypes
  <2> QED BY <1>0, <2>3, <2>4, <2>5, TypePartsNext
<1>8. ASSUME NEW r \in Requests, ReadEof(r) PROVE PoolTypeOK'
  <2>1. CallTypes'
    BY <1>0, <1>8 DEF ReadEof, CallTypes, Phases, Inside
  <2>2. ProcessTypes' /\ UNCHANGED poolVars /\ exits' = exits
    BY <1>0, <1>8 DEF ReadEof, ProcessTypes
  <2> QED BY <1>0, <1>l, <2>1, <2>2, TypePartsNext
<1>9. ASSUME NEW r \in Requests, CallerCancelled(r) PROVE PoolTypeOK'
  <2>1. CallTypes' /\ ListTypes'
    BY <1>0, <1>9 DEF CallerCancelled, CallTypes, ListTypes, Phases, Finished
  <2>2. phase[r] \in Holding => worker[r] \in Slots
    BY HasWorker DEF Holding
  <2>3. ProcessTypes' /\ exits' = exits
    BY <1>0, <1>9, <2>2 DEF CallerCancelled, ProcessTypes, Holding
  <2> QED BY <1>0, <2>1, <2>3, TypePartsNext
<1>f. ASSUME NEW r \in Requests, LineTooLong(r) PROVE PoolTypeOK'
  <2> DEFINE w == worker[r]
             rest == <<Head(stdout[w])[1], "fragment">>
  <2>1. /\ w \in Slots /\ phase[r] = "read" /\ stdout[w] # << >>
        /\ lock' = [lock EXCEPT ![w] = NoOne]
        /\ phase' = [phase EXCEPT ![r] = "failed"] /\ worker' = [worker EXCEPT ![r] = NoOne]
        /\ \/ stdout' = [stdout EXCEPT ![w] = Tail(@)] /\ outOfStep' = outOfStep
           \/ /\ stdout' = [stdout EXCEPT ![w] = <<rest>> \o Tail(@)]
              /\ outOfStep' = outOfStep \cup {w}
        /\ UNCHANGED <<attempt, reply, poolVars, alive, stdin, exits>>
    BY <1>f, HasWorker DEF LineTooLong
  <2> HIDE DEF w
  <2>2. stdout[w] \in Seq(Responses)
    BY <1>0, <2>1 DEF ProcessTypes
  <2>3. Tail(stdout[w]) \in Seq(Responses) /\ rest \in Responses
    BY <2>1, <2>2, TailType DEF Responses
  <2> HIDE DEF rest
  <2>4. <<rest>> \o Tail(stdout[w]) \in Seq(Responses)
    BY <2>3
  <2>5. CallTypes'
    BY <1>0, <2>1 DEF CallTypes, Phases, Finished
  <2>6. ProcessTypes'
    BY <1>0, <2>1, <2>3, <2>4 DEF ProcessTypes
  <2> QED BY <1>0, <1>l, <2>1, <2>5, <2>6, TypePartsNext
<1>t. ASSUME NEW w \in Slots, TakesInput(w) PROVE PoolTypeOK'
  <2>1. CallTypes' /\ UNCHANGED <<poolVars, procVars, exits>>
    BY <1>0, <1>t DEF TakesInput, CallTypes, Phases, Inside
  <2> QED BY <1>0, <1>l, <1>p, <2>1, TypePartsNext
<1>10. ASSUME NEW w \in Slots, Respond(w) PROVE PoolTypeOK'
  <2>1. PICK kind \in Kinds :
          stdout' = [stdout EXCEPT ![w] = Append(@, <<Head(stdin[w]), kind>>)]
    BY <1>10 DEF Respond, Kinds
  <2>2. Tail(stdin[w]) \in Seq(Requests) /\ Head(stdin[w]) \in Requests
    BY <1>0, <1>10, TailType DEF Respond, ProcessTypes
  <2>3. <<Head(stdin[w]), kind>> \in Responses /\ stdout[w] \in Seq(Responses)
    BY <1>0, <2>2 DEF Responses, Kinds, ProcessTypes
  <2>4. Append(stdout[w], <<Head(stdin[w]), kind>>) \in Seq(Responses)
    BY <2>3
  <2>5. ProcessTypes'
    BY <1>0, <1>10, <2>1, <2>2, <2>4 DEF Respond, ProcessTypes
  <2> QED BY <1>0, <1>10, <1>c, <1>l, <2>5, TypePartsNext DEF Respond
<1>11. ASSUME NEW w \in Slots, ProcessExits(w) PROVE PoolTypeOK'
  <2>1. ProcessTypes' /\ exits' \in 0..MaxExits
    BY <1>0, <1>11, <1>e, Constant DEF ProcessExits, ProcessTypes
  <2> QED BY <1>11, <1>c, <1>l, <2>1, TypePartsNext DEF ProcessExits
<1>12. CASE UNCHANGED vars
  BY <1>0, <1>12, <1>c, <1>l, <1>p, TypePartsNext
  DEF vars, callVars, poolVars, procVars
<1> QED
  BY <1>1, <1>2, <1>3, <1>4, <1>5, <1>6, <1>7, <1>f, <1>8, <1>9, <1>t, <1>10, <1>11, <1>12
  DEF PoolNext, CallStep, AllFinished, Retries, Ends

-----------------------------------------------------------------------------
(* The calls and the list.                                                 *)

LEMMA NextCases ==
  ASSUME [PoolNext]_vars
  PROVE  \/ \E r \in Requests :
              \/ Enter(r) \/ SpawnWorker(r) \/ WorkerStarted(r) \/ StartFails(r)
              \/ BorrowWorker(r) \/ WriteRequest(r) \/ Retries(r) \/ Ends(r)
              \/ LineTooLong(r) \/ ReadEof(r) \/ CallerCancelled(r)
         \/ \E w \in Slots : TakesInput(w) \/ Respond(w) \/ ProcessExits(w)
         \/ UNCHANGED vars
BY DEF PoolNext, CallStep, AllFinished, Retries, Ends

LEMMA BorrowStep ==
  ASSUME PoolTypeOK, PoolTypeOK', BorrowInv, [PoolNext]_vars
  PROVE  BorrowInv'
<1>0. CallTypes /\ ListTypes
  BY TypeParts
<1>1. ASSUME NEW r \in Requests,
             Enter(r) \/ SpawnWorker(r) \/ WorkerStarted(r) \/ StartFails(r)
      PROVE  BorrowInv'
  BY <1>0, <1>1 DEF Enter, SpawnWorker, WorkerStarted, StartFails, BorrowInv, CallTypes
<1>2. ASSUME NEW r \in Requests, WriteRequest(r) \/ LineTooLong(r) \/ ReadEof(r)
      PROVE  BorrowInv'
  BY <1>0, <1>2 DEF WriteRequest, LineTooLong, ReadEof, BorrowInv, CallTypes
<1>3. ASSUME NEW r \in Requests, BorrowWorker(r) PROVE BorrowInv'
  <2>1. Len(workers) \in Nat /\ Len(workers) > 0 /\ nextWorker \in Nat
    BY <1>0, <1>3, Constant DEF BorrowWorker, ListTypes
  <2>2. nextWorker % Len(workers) \in 0..Len(workers) - 1
    BY <2>1
  <2>3. workers[(nextWorker % Len(workers)) + 1] \in Slots
    BY <1>0, <2>1, <2>2 DEF ListTypes
  <2> QED BY <1>0, <1>3, <2>3, SlotsFacts DEF BorrowWorker, BorrowInv, CallTypes
<1>4. ASSUME NEW r \in Requests, Retries(r) PROVE BorrowInv'
  <2>1. GivesUp(r) /\ worker[r] \in Slots
    BY <1>4, RetriesFacts
  <2> QED BY <2>1, SlotsFacts DEF GivesUp, BorrowInv
<1>5. ASSUME NEW r \in Requests, Ends(r) PROVE BorrowInv'
  BY <1>0, <1>5, EndsFacts DEF BorrowInv, CallTypes
<1>6. ASSUME NEW r \in Requests, CallerCancelled(r) PROVE BorrowInv'
  BY <1>0, <1>6 DEF CallerCancelled, BorrowInv, CallTypes
<1>7. ASSUME NEW w \in Slots, TakesInput(w) \/ Respond(w) \/ ProcessExits(w)
      PROVE  BorrowInv'
  BY <1>0, <1>7 DEF TakesInput, Respond, ProcessExits, BorrowInv, callVars, CallTypes
<1>8. CASE UNCHANGED vars
  BY <1>8 DEF vars, BorrowInv
<1> QED BY <1>1, <1>2, <1>3, <1>4, <1>5, <1>6, <1>7, <1>8, NextCases

LEMMA SpawnStep ==
  ASSUME PoolTypeOK, BorrowInv, SpawnInv, [PoolNext]_vars
  PROVE  SpawnInv'
<1>0. CallTypes /\ ListTypes /\ Len(workers) \in Nat
  BY TypeParts DEF ListTypes
<1>1. ASSUME NEW r \in Requests,
             Enter(r) \/ WriteRequest(r) \/ LineTooLong(r) \/ ReadEof(r)
      PROVE  SpawnInv'
  BY <1>0, <1>1 DEF Enter, WriteRequest, LineTooLong, ReadEof, SpawnInv, CallTypes, poolVars
<1>2. ASSUME NEW r \in Requests, SpawnWorker(r) PROVE SpawnInv'
  BY <1>0, <1>2, SlotsFacts DEF SpawnWorker, CanHold, SpawnInv, CallTypes
<1>3. ASSUME NEW r \in Requests, WorkerStarted(r) PROVE SpawnInv'
  <2> DEFINE w == Min(Slots \ InUse)
  <2>1. workers' = Append(workers, w) /\ phase' = [phase EXCEPT ![r] = "borrow"]
        /\ phase[r] = "spawning" /\ poolLock' = poolLock
    BY <1>3 DEF WorkerStarted
  <2> HIDE DEF w
  <2>2. Len(workers') = Len(workers) + 1
    BY <1>0, <2>1 DEF ListTypes
  <2>3. \A q \in Requests : phase'[q] = "spawning" => q # r /\ phase[q] = "spawning"
    BY <1>0, <2>1 DEF CallTypes
  <2>4. \A q \in Requests : phase'[q] # "spawning"
    BY <2>1, <2>3 DEF SpawnInv
  <2>5. Len(workers) < PoolSize
    BY <2>1 DEF SpawnInv
  <2> QED BY <1>0, <2>2, <2>4, <2>5, Constant DEF SpawnInv
<1>4. ASSUME NEW r \in Requests, StartFails(r) \/ BorrowWorker(r) PROVE SpawnInv'
  <2>1. \A q \in Requests : q # r => phase[q] # "spawning"
    BY <1>4, SlotsFacts DEF StartFails, BorrowWorker, CanHold, SpawnInv
  <2>2. \A q \in Requests : phase'[q] # "spawning"
    BY <1>0, <1>4, <2>1 DEF StartFails, BorrowWorker, CallTypes
  <2> QED BY <1>4, <2>2 DEF StartFails, BorrowWorker, SpawnInv
<1>5. ASSUME NEW r \in Requests, Retries(r) PROVE SpawnInv'
  <2>1. GivesUp(r) /\ Shrinks /\ poolLock' = poolLock
    BY <1>5, RetriesFacts
  <2>2. Len(workers') <= Len(workers) /\ Len(workers') \in Nat
    BY <2>1 DEF Shrinks
  <2>3. \A q \in Requests : phase'[q] = "spawning" => phase[q] = "spawning"
    BY <2>1 DEF GivesUp
  <2> QED BY <1>0, <2>1, <2>2, <2>3, Constant DEF SpawnInv
<1>6. ASSUME NEW r \in Requests, Ends(r) PROVE SpawnInv'
  BY <1>0, <1>6, EndsFacts DEF SpawnInv, CallTypes
<1>7. ASSUME NEW r \in Requests, CallerCancelled(r) PROVE SpawnInv'
  BY <1>0, <1>7 DEF CallerCancelled, SpawnInv, CallTypes
<1>8. ASSUME NEW w \in Slots, TakesInput(w) \/ Respond(w) \/ ProcessExits(w)
      PROVE  SpawnInv'
  BY <1>0, <1>8 DEF TakesInput, Respond, ProcessExits, SpawnInv, callVars, poolVars, CallTypes
<1>9. CASE UNCHANGED vars
  BY <1>9 DEF vars, SpawnInv
<1> QED BY <1>1, <1>2, <1>3, <1>4, <1>5, <1>6, <1>7, <1>8, <1>9, NextCases

LEMMA CallsStep ==
  ASSUME PoolTypeOK, BorrowInv, CallsInv, [PoolNext]_vars
  PROVE  CallsInv'
<1>0. CallTypes
  BY TypeParts
<1>1. ASSUME NEW r \in Requests, Enter(r) PROVE CallsInv'
  <2>1. Calls' = Calls \cup {r}
    BY <1>0, <1>1 DEF Enter, Calls, CallTypes, Inside
  <2>2. Cardinality(Calls) < MaxConcurrent /\ r \notin Calls
    BY <1>1 DEF Enter, Calls, Inside
  <2>3. Cardinality(Calls) \in Nat
    BY FS_CardinalityType DEF CallsInv
  <2>4. IsFiniteSet(Calls') /\ Cardinality(Calls') = Cardinality(Calls) + 1
    BY <2>1, <2>2, FS_AddElement DEF CallsInv
  <2> QED BY <2>2, <2>3, <2>4, Constant DEF CallsInv
<1>2. ASSUME \A q \in Requests : phase'[q] \in Inside => phase[q] \in Inside
      PROVE  CallsInv'
  <2>1. Calls' \subseteq Calls
    BY <1>2 DEF Calls
  <2>2. /\ IsFiniteSet(Calls') /\ Cardinality(Calls') <= Cardinality(Calls)
    BY <2>1, FS_Subset DEF CallsInv
  <2>3. Cardinality(Calls') \in Nat /\ Cardinality(Calls) \in Nat
    BY <2>2, FS_CardinalityType DEF CallsInv
  <2> QED BY <2>2, <2>3, Constant DEF CallsInv
<1>3. ASSUME NEW r \in Requests,
             \/ SpawnWorker(r) \/ WorkerStarted(r) \/ StartFails(r)
             \/ BorrowWorker(r) \/ WriteRequest(r) \/ LineTooLong(r) \/ ReadEof(r)
             \/ CallerCancelled(r)
      PROVE  CallsInv'
  <2>1. \A q \in Requests : phase'[q] \in Inside => phase[q] \in Inside
    BY <1>0, <1>3 DEF SpawnWorker, WorkerStarted, StartFails, BorrowWorker, WriteRequest,
       LineTooLong, ReadEof, CallerCancelled, Inside, CallTypes
  <2> QED BY <1>2, <2>1
<1>4. ASSUME NEW r \in Requests, Retries(r) PROVE CallsInv'
  <2>1. \A q \in Requests : phase'[q] \in Inside => phase[q] \in Inside
    BY <1>4, RetriesFacts DEF GivesUp, Inside
  <2> QED BY <1>2, <2>1
<1>5. ASSUME NEW r \in Requests, Ends(r) PROVE CallsInv'
  <2>1. \A q \in Requests : phase'[q] \in Inside => phase[q] \in Inside
    BY <1>0, <1>5, EndsFacts DEF CallTypes, Inside
  <2> QED BY <1>2, <2>1
<1>6. ASSUME phase' = phase PROVE CallsInv'
  BY <1>2, <1>6
<1>7. ASSUME NEW w \in Slots, TakesInput(w) PROVE CallsInv'
  <2>1. \A q \in Requests : phase'[q] \in Inside => phase[q] \in Inside
    BY <1>0, <1>7 DEF TakesInput, CallTypes, Inside
  <2> QED BY <1>2, <2>1
<1> QED
  BY <1>1, <1>3, <1>4, <1>5, <1>6, <1>7, NextCases
  DEF Respond, ProcessExits, callVars, vars

LEMMA AliveStep ==
  ASSUME PoolTypeOK, BorrowInv, SpawnInv, CallsInv, AliveInv, [PoolNext]_vars
  PROVE  AliveInv'
<1>0. ProcessTypes /\ ListTypes
  BY TypeParts
<1>1. ASSUME UNCHANGED <<workers, alive, stdin>> PROVE AliveInv'
  BY <1>1 DEF AliveInv
<1>2. ASSUME NEW r \in Requests,
             \/ Enter(r) \/ SpawnWorker(r) \/ StartFails(r) \/ BorrowWorker(r)
             \/ LineTooLong(r) \/ ReadEof(r) \/ CallerCancelled(r)
      PROVE  AliveInv'
  <2>1. UNCHANGED <<workers, alive, stdin>>
    BY <1>2 DEF Enter, SpawnWorker, StartFails, BorrowWorker, LineTooLong, ReadEof, CallerCancelled,
       poolVars, procVars
  <2> QED BY <1>1, <2>1
<1>3. ASSUME NEW r \in Requests, WorkerStarted(r) PROVE AliveInv'
  <2> DEFINE w == Min(Slots \ InUse)
  <2>1. workers' = Append(workers, w) /\ alive' = alive \cup {w} /\ stdin' = stdin
    BY <1>3 DEF WorkerStarted
  <2> HIDE DEF w
  <2>2. Range(workers') = Range(workers) \cup {w}
    <3>1. /\ Len(workers) \in Nat /\ DOMAIN workers = 1..Len(workers)
          /\ DOMAIN workers' = 1..Len(workers) + 1
          /\ workers'[Len(workers) + 1] = w
          /\ \A i \in 1..Len(workers) : workers'[i] = workers[i]
      BY <1>0, <2>1 DEF ListTypes
    <3> QED BY <3>1 DEF Range
  <2> QED BY <2>1, <2>2 DEF AliveInv
<1>4. ASSUME NEW r \in Requests, WriteRequest(r) PROVE AliveInv'
  <2>1. worker[r] \in Slots
    BY <1>4, HasWorker DEF WriteRequest
  <2> QED BY <1>0, <1>4, <2>1 DEF WriteRequest, AliveInv, ProcessTypes, poolVars
<1>5. ASSUME NEW r \in Requests, Retries(r) PROVE AliveInv'
  <2>1. Shrinks
    BY <1>5, RetriesFacts
  <2> QED BY <2>1 DEF Shrinks, AliveInv
<1>6. ASSUME NEW r \in Requests, Ends(r) PROVE AliveInv'
  BY <1>1, <1>6, EndsFacts
<1>7. ASSUME NEW w \in Slots, Respond(w) PROVE AliveInv'
  BY <1>0, <1>7 DEF Respond, AliveInv, ProcessTypes, poolVars
<1>8. ASSUME NEW w \in Slots, ProcessExits(w) PROVE AliveInv'
  BY <1>0, <1>8 DEF ProcessExits, AliveInv, ProcessTypes, poolVars
<1>9. CASE UNCHANGED vars
  BY <1>1, <1>9 DEF vars
<1>10. ASSUME NEW w \in Slots, TakesInput(w) PROVE AliveInv'
  BY <1>1, <1>10 DEF TakesInput, poolVars, procVars
<1> QED BY <1>2, <1>3, <1>4, <1>5, <1>6, <1>7, <1>8, <1>9, <1>10, NextCases

-----------------------------------------------------------------------------
(* The locks of the processes.                                             *)

\* The other calls stay where they are.
OthersStay(r) ==
  \A q \in Requests : q # r => phase'[q] = phase[q] /\ worker'[q] = worker[q]

LEMMA LockKept ==
  ASSUME PoolTypeOK, LockInv, NEW r \in Requests, OthersStay(r), lock' = lock,
         phase[r] \notin Holding, phase'[r] \notin Holding
  PROVE  LockInv'
BY SlotsFacts DEF LockInv, OthersStay, PoolTypeOK

LEMMA LockReleased ==
  ASSUME PoolTypeOK, BorrowInv, LockInv, NEW r \in Requests, OthersStay(r),
         phase[r] \in Holding, phase'[r] \notin Holding,
         lock' = [lock EXCEPT ![worker[r]] = NoOne]
  PROVE  LockInv'
<1> DEFINE w == worker[r]
<1>1. w \in Slots /\ lock[w] = r
  BY HasWorker DEF LockInv, Holding
<1>2. ASSUME NEW v \in Slots, lock'[v] # NoOne
      PROVE  phase'[lock'[v]] \in Holding /\ worker'[lock'[v]] = v
  <2>1. v # w /\ lock'[v] = lock[v]
    BY <1>1, <1>2 DEF PoolTypeOK
  <2>2. lock[v] \in Requests /\ phase[lock[v]] \in Holding /\ worker[lock[v]] = v
    BY <1>2, <2>1 DEF LockInv, PoolTypeOK
  <2>3. lock[v] # r
    BY <2>1, <2>2
  <2> QED BY <2>1, <2>2, <2>3 DEF OthersStay
<1>3. ASSUME NEW q \in Requests, phase'[q] \in Holding PROVE lock'[worker'[q]] = q
  <2>1. q # r /\ phase[q] \in Holding /\ worker'[q] = worker[q]
    BY <1>3 DEF OthersStay
  <2>2. lock[worker[q]] = q /\ worker[q] \in Slots
    BY <2>1, HasWorker DEF LockInv, Holding
  <2>3. worker[q] # w
    BY <1>1, <2>1, <2>2
  <2>4. lock'[worker[q]] = lock[worker[q]]
    BY <2>2, <2>3 DEF PoolTypeOK
  <2> QED BY <2>1, <2>2, <2>4
<1> QED BY <1>2, <1>3 DEF LockInv

LEMMA LockStep ==
  ASSUME PoolTypeOK, BorrowInv, LockInv, [PoolNext]_vars
  PROVE  LockInv'
<1>0. CallTypes /\ ProcessTypes
  BY TypeParts
<1>1. ASSUME NEW r \in Requests,
             \/ Enter(r) \/ SpawnWorker(r) \/ WorkerStarted(r) \/ StartFails(r)
             \/ BorrowWorker(r)
      PROVE  LockInv'
  <2>1. OthersStay(r) /\ lock' = lock /\ phase[r] \notin Holding /\ phase'[r] \notin Holding
    BY <1>0, <1>1 DEF Enter, SpawnWorker, WorkerStarted, StartFails, BorrowWorker,
       OthersStay, CallTypes, procVars, Holding
  <2> QED BY <2>1, LockKept
<1>2. ASSUME NEW r \in Requests, WriteRequest(r) PROVE LockInv'
  <2> DEFINE w == worker[r]
  <2>1. /\ w \in Slots /\ lock[w] = NoOne /\ phase[r] = "lock"
        /\ lock' = [lock EXCEPT ![w] = r] /\ worker' = worker
        /\ \E next \in Holding : phase' = [phase EXCEPT ![r] = next]
    BY <1>2, HasWorker DEF WriteRequest, LockIsFree, Holding
  <2>2. phase'[r] \in Holding /\ lock'[w] = r
    BY <1>0, <2>1 DEF CallTypes, ProcessTypes
  <2>3. ASSUME NEW v \in Slots, lock'[v] # NoOne, v # w
        PROVE  phase'[lock'[v]] \in Holding /\ worker'[lock'[v]] = v
    <3>1. lock'[v] = lock[v]
      BY <1>0, <2>1, <2>3 DEF ProcessTypes
    <3>2. lock[v] \in Requests /\ phase[lock[v]] \in Holding /\ worker[lock[v]] = v
      BY <1>0, <2>3, <3>1 DEF LockInv, ProcessTypes
    <3> QED BY <1>0, <2>1, <3>1, <3>2 DEF CallTypes
  <2>4. ASSUME NEW q \in Requests, phase'[q] \in Holding, q # r PROVE lock'[worker'[q]] = q
    <3>1. phase[q] \in Holding
      BY <1>0, <2>1, <2>4 DEF CallTypes
    <3>2. lock[worker[q]] = q /\ worker[q] \in Slots
      BY <3>1, HasWorker DEF LockInv, Holding
    <3>3. worker[q] # w
      BY <2>1, <3>2, SlotsFacts
    <3>4. lock'[worker[q]] = lock[worker[q]]
      BY <1>0, <2>1, <3>2, <3>3 DEF ProcessTypes
    <3> QED BY <2>1, <3>2, <3>4
  <2> QED BY <2>1, <2>2, <2>3, <2>4 DEF LockInv
<1>3. ASSUME NEW r \in Requests, Retries(r) PROVE LockInv'
  <2>1. GivesUp(r)
    BY <1>3, RetriesFacts
  <2>2. OthersStay(r) /\ phase'[r] \notin Holding
    BY <2>1 DEF GivesUp, OthersStay, Holding
  <2>3. \/ lock' = lock /\ phase[r] \notin Holding
        \/ phase[r] \in Holding /\ lock' = [lock EXCEPT ![worker[r]] = NoOne]
    BY <1>3, RetriesPipes DEF Holding
  <2> QED BY <2>2, <2>3, LockKept, LockReleased
<1>4. ASSUME NEW r \in Requests, Ends(r) \/ LineTooLong(r) \/ ReadEof(r)
      PROVE  LockInv'
  <2>1. /\ OthersStay(r) /\ phase[r] \in Holding /\ phase'[r] \notin Holding
        /\ lock' = [lock EXCEPT ![worker[r]] = NoOne]
    <3>1. CASE Ends(r)
      BY <1>0, <3>1, EndsFacts DEF OthersStay, CallTypes, Holding
    <3>2. CASE LineTooLong(r) \/ ReadEof(r)
      BY <1>0, <3>2 DEF LineTooLong, ReadEof, OthersStay, CallTypes, Holding
    <3> QED BY <1>4, <3>1, <3>2
  <2> QED BY <2>1, LockReleased
<1>5. ASSUME NEW r \in Requests, CallerCancelled(r) PROVE LockInv'
  <2>1. OthersStay(r) /\ phase'[r] \notin Holding
    BY <1>0, <1>5 DEF CallerCancelled, OthersStay, CallTypes, Holding
  <2>2. lock' = [v \in Slots |-> IF lock[v] = r THEN NoOne ELSE lock[v]]
    BY <1>5 DEF CallerCancelled
  <2>3. CASE phase[r] \in Holding
    <3>1. lock[worker[r]] = r /\ worker[r] \in Slots
      BY <2>3, HasWorker DEF LockInv, Holding
    <3>2. \A v \in Slots : lock[v] = r => v = worker[r]
      BY SlotsFacts DEF LockInv
    <3>3. lock' = [lock EXCEPT ![worker[r]] = NoOne]
      BY <1>0, <2>2, <3>1, <3>2 DEF ProcessTypes
    <3> QED BY <2>1, <2>3, <3>3, LockReleased
  <2>4. CASE phase[r] \notin Holding
    <3>1. \A v \in Slots : lock[v] # r
      BY <2>4, SlotsFacts DEF LockInv
    <3>2. lock' = lock
      BY <1>0, <2>2, <3>1 DEF ProcessTypes
    <3> QED BY <2>1, <2>4, <3>2, LockKept
  <2> QED BY <2>3, <2>4
<1>6. ASSUME UNCHANGED <<phase, worker, lock>> PROVE LockInv'
  BY <1>6 DEF LockInv
<1>7. ASSUME NEW w \in Slots, TakesInput(w) PROVE LockInv'
  <2>1. /\ UNCHANGED <<worker, lock>>
        /\ \A q \in Requests : phase'[q] \in Holding <=> phase[q] \in Holding
    BY <1>0, <1>7 DEF TakesInput, CallTypes, Holding, procVars
  <2> QED BY <1>0, <2>1 DEF LockInv, ProcessTypes
<1> QED
  BY <1>1, <1>2, <1>3, <1>4, <1>5, <1>6, <1>7, NextCases
  DEF Respond, ProcessExits, callVars, vars

-----------------------------------------------------------------------------
(* The pipes.                                                              *)

\* The pipes of a process stay in step when its input is lost.
LEMMA QueuedDrop ==
  ASSUME NEW w \in Slots, Queued(w), stdin'[w] = stdin[w] \/ stdin'[w] = << >>,
         stdout'[w] = stdout[w], lock'[w] = lock[w]
  PROVE  Queued(w)'
<1>1. CASE stdin'[w] = stdin[w]
  BY <1>1 DEF Queued
<1>2. CASE stdin'[w] = << >>
  BY <1>2 DEF Queued
<1> QED BY <1>1, <1>2

\* They are empty when the line was read.
LEMMA QueuedRead ==
  ASSUME NEW w \in Slots, Queued(w), stdin'[w] = stdin[w] \/ stdin'[w] = << >>,
         stdout[w] # << >>, stdout'[w] = Tail(stdout[w])
  PROVE  Queued(w)' /\ lock[w] \in Requests /\ Head(stdout[w])[1] = lock[w]
<1>1. /\ stdin[w] = << >> /\ lock[w] \in Requests
      /\ \E kind \in Kinds : stdout[w] = << <<lock[w], kind>> >>
  BY DEF Queued
<1>2. PICK kind \in Kinds : stdout[w] = << <<lock[w], kind>> >>
  BY <1>1
<1>3. Head(stdout[w]) = <<lock[w], kind>> /\ Tail(stdout[w]) = << >>
  BY <1>2
<1> QED BY <1>1, <1>3 DEF Queued

LEMMA QueueStep ==
  ASSUME PoolTypeOK, BorrowInv, SpawnInv, CallsInv, AliveInv, LockInv, QueueInv, DrainInv,
         [PoolNext]_vars
  PROVE  QueueInv'
<1>0. CallTypes /\ ProcessTypes
  BY TypeParts
<1>1. ASSUME NEW v \in Slots, v \notin outOfStep, stdout'[v] = stdout[v], lock'[v] = lock[v],
             stdin'[v] = stdin[v] \/ stdin'[v] = << >>
      PROVE  Queued(v)'
  BY <1>1, QueuedDrop DEF QueueInv
<1>2. ASSUME outOfStep \subseteq outOfStep', UNCHANGED <<lock, stdin, stdout>> PROVE QueueInv'
  BY <1>1, <1>2 DEF QueueInv
<1>3. ASSUME NEW r \in Requests,
             Enter(r) \/ SpawnWorker(r) \/ StartFails(r) \/ BorrowWorker(r)
      PROVE  QueueInv'
  <2>1. UNCHANGED <<lock, stdin, stdout, outOfStep>>
    BY <1>3 DEF Enter, SpawnWorker, StartFails, BorrowWorker, procVars
  <2> QED BY <1>2, <2>1
<1>4. ASSUME NEW r \in Requests, WorkerStarted(r) PROVE QueueInv'
  <2> DEFINE w == Min(Slots \ InUse)
  <2>1. w \in Slots /\ w \notin Range(workers)
    BY <1>4, FreshSlot DEF WorkerStarted, InUse
  <2>2. /\ stdout' = [stdout EXCEPT ![w] = << >>] /\ outOfStep' = outOfStep \ {w}
        /\ UNCHANGED <<lock, stdin>>
    BY <1>4 DEF WorkerStarted
  <2> HIDE DEF w
  <2>3. stdin[w] = << >>
    BY <2>1 DEF AliveInv
  <2>4. ASSUME NEW v \in Slots, v = w PROVE Queued(v)'
    BY <1>0, <2>1, <2>2, <2>3, <2>4 DEF Queued, ProcessTypes
  <2>5. ASSUME NEW v \in Slots, v # w, v \notin outOfStep' PROVE Queued(v)'
    BY <1>0, <1>1, <2>1, <2>2, <2>5 DEF ProcessTypes
  <2> QED BY <2>4, <2>5 DEF QueueInv
<1>5. ASSUME NEW r \in Requests, WriteRequest(r) PROVE QueueInv'
  <2> DEFINE w == worker[r]
  <2>1. /\ w \in Slots /\ lock[w] = NoOne /\ lock' = [lock EXCEPT ![w] = r]
        /\ UNCHANGED <<stdout, outOfStep>>
        /\ stdin' = IF w \in alive THEN [stdin EXCEPT ![w] = Append(@, r)] ELSE stdin
    BY <1>5, HasWorker DEF WriteRequest, LockIsFree
  <2>2. lock'[w] = r
    BY <1>0, <2>1 DEF ProcessTypes
  <2>3. ASSUME NEW v \in Slots, v = w, v \notin outOfStep PROVE Queued(v)'
    <3>2. stdin[v] = << >> /\ stdout[v] = << >>
      BY <2>1, <2>3, SlotsFacts DEF QueueInv, Queued
    <3>3. stdin'[v] = << >> \/ stdin'[v] = << r >>
      BY <1>0, <2>1, <2>3, <3>2 DEF ProcessTypes
    <3> QED BY <2>1, <2>2, <2>3, <3>2, <3>3 DEF Queued
  <2>4. ASSUME NEW v \in Slots, v # w, v \notin outOfStep PROVE Queued(v)'
    BY <1>0, <1>1, <2>1, <2>4 DEF ProcessTypes
  <2> QED BY <2>1, <2>3, <2>4 DEF QueueInv
<1>6. ASSUME NEW r \in Requests, worker[r] \in Slots, phase[r] = "read",
             lock' = [lock EXCEPT ![worker[r]] = NoOne],
             stdout[worker[r]] # << >>, outOfStep' = outOfStep,
             stdout' = [stdout EXCEPT ![worker[r]] = Tail(@)],
             \A v \in Slots : stdin'[v] = stdin[v] \/ stdin'[v] = << >>
      PROVE  QueueInv'
  <2> DEFINE w == worker[r]
  <2>1. stdout'[w] = Tail(stdout[w])
    BY <1>0, <1>6 DEF ProcessTypes
  <2>2. ASSUME NEW v \in Slots, v = w, v \notin outOfStep PROVE Queued(v)'
    BY <1>6, <2>1, <2>2, QueuedRead DEF QueueInv
  <2>3. ASSUME NEW v \in Slots, v # w, v \notin outOfStep PROVE Queued(v)'
    <3>1. lock'[v] = lock[v] /\ stdout'[v] = stdout[v]
      BY <1>0, <1>6, <2>3 DEF ProcessTypes
    <3> QED BY <1>1, <1>6, <2>3, <3>1
  <2> QED BY <1>6, <2>2, <2>3 DEF QueueInv
<1>7. ASSUME NEW r \in Requests, Retries(r) PROVE QueueInv'
  <2>1. worker[r] \in Slots /\ Shrinks
    BY <1>7, RetriesFacts
  <2>2. \A v \in Slots : stdin'[v] = stdin[v] \/ stdin'[v] = << >>
    BY <2>1 DEF Shrinks
  <2>3. CASE UNCHANGED <<lock, stdout, outOfStep>>
    BY <1>1, <2>2, <2>3 DEF QueueInv
  <2>d. CASE /\ phase[r] = "drain" /\ worker[r] \notin alive
             /\ lock' = [lock EXCEPT ![worker[r]] = NoOne]
             /\ UNCHANGED <<stdout, outOfStep>>
    <3>1. ASSUME NEW v \in Slots, v = worker[r], v \notin outOfStep PROVE Queued(v)'
      <4>1. stdin[v] = << >> /\ stdout[v] = << >>
        BY <2>d, <3>1 DEF AliveInv, DrainInv
      <4>2. stdin'[v] = << >> /\ stdout'[v] = << >>
        BY <2>2, <2>d, <4>1
      <4> QED BY <4>2 DEF Queued
    <3>2. ASSUME NEW v \in Slots, v # worker[r], v \notin outOfStep PROVE Queued(v)'
      <4>1. lock'[v] = lock[v]
        BY <1>0, <2>d, <3>2 DEF ProcessTypes
      <4> QED BY <1>1, <2>2, <2>d, <3>2, <4>1
    <3> QED BY <2>d, <3>1, <3>2 DEF QueueInv
  <2>4. CASE /\ phase[r] = "read" /\ stdout' = stdout
             /\ lock' = [lock EXCEPT ![worker[r]] = NoOne]
             /\ outOfStep' = outOfStep \cup {worker[r]}
    <3>1. ASSUME NEW v \in Slots, v \notin outOfStep' PROVE Queued(v)'
      <4>1. v # worker[r] /\ lock'[v] = lock[v]
        BY <1>0, <2>1, <2>4, <3>1 DEF ProcessTypes
      <4> QED BY <1>1, <2>2, <2>4, <3>1, <4>1
    <3> QED BY <3>1 DEF QueueInv
  <2>5. CASE /\ phase[r] = "read" /\ stdout[worker[r]] # << >>
             /\ lock' = [lock EXCEPT ![worker[r]] = NoOne]
             /\ outOfStep' = outOfStep
             /\ stdout' = [stdout EXCEPT ![worker[r]] = Tail(@)]
    BY <1>6, <2>1, <2>2, <2>5
  <2> QED BY <1>7, <2>3, <2>d, <2>4, <2>5, RetriesPipes
<1>8. ASSUME NEW r \in Requests, Ends(r) PROVE QueueInv'
  <2>1. worker[r] \in Slots
    BY <1>8, EndsFacts, HasWorker
  <2> QED BY <1>6, <1>8, <2>1, EndsFacts
<1>f. ASSUME NEW r \in Requests, LineTooLong(r) PROVE QueueInv'
  <2> DEFINE w == worker[r]
             rest == <<Head(stdout[w])[1], "fragment">>
  <2>1. /\ w \in Slots /\ phase[r] = "read" /\ stdout[w] # << >>
        /\ lock' = [lock EXCEPT ![w] = NoOne] /\ stdin' = stdin
        /\ \/ stdout' = [stdout EXCEPT ![w] = Tail(@)] /\ outOfStep' = outOfStep
           \/ /\ stdout' = [stdout EXCEPT ![w] = <<rest>> \o Tail(@)]
              /\ outOfStep' = outOfStep \cup {w}
    BY <1>f, HasWorker DEF LineTooLong
  <2> HIDE DEF rest
  <2>2. CASE stdout' = [stdout EXCEPT ![w] = Tail(@)] /\ outOfStep' = outOfStep
    BY <1>6, <2>1, <2>2
  <2> HIDE DEF w
  <2>3. CASE /\ stdout' = [stdout EXCEPT ![w] = <<rest>> \o Tail(@)]
             /\ outOfStep' = outOfStep \cup {w}
    <3>1. ASSUME NEW v \in Slots, v \notin outOfStep' PROVE Queued(v)'
      <4>1. v # w /\ lock'[v] = lock[v] /\ stdout'[v] = stdout[v]
        BY <1>0, <2>1, <2>3, <3>1 DEF ProcessTypes
      <4> QED BY <1>1, <2>1, <2>3, <3>1, <4>1
    <3> QED BY <3>1 DEF QueueInv
  <2> QED BY <2>1, <2>2, <2>3
<1>9. ASSUME NEW r \in Requests, ReadEof(r) PROVE QueueInv'
  <2> DEFINE w == worker[r]
  <2>1. /\ w \in Slots /\ w \notin alive /\ stdout[w] = << >>
        /\ lock' = [lock EXCEPT ![w] = NoOne]
        /\ UNCHANGED <<stdin, stdout, outOfStep>>
    BY <1>9, HasWorker DEF ReadEof
  <2>2. ASSUME NEW v \in Slots, v = w PROVE Queued(v)'
    BY <2>1, <2>2 DEF AliveInv, Queued
  <2>3. ASSUME NEW v \in Slots, v # w, v \notin outOfStep PROVE Queued(v)'
    BY <1>0, <1>1, <2>1, <2>3 DEF ProcessTypes
  <2> QED BY <2>1, <2>2, <2>3 DEF QueueInv
<1>10. ASSUME NEW r \in Requests, CallerCancelled(r) PROVE QueueInv'
  <2>1. /\ lock' = [v \in Slots |-> IF lock[v] = r THEN NoOne ELSE lock[v]]
        /\ outOfStep' = IF phase[r] \in Holding THEN outOfStep \cup {worker[r]} ELSE outOfStep
        /\ UNCHANGED <<stdin, stdout>>
    BY <1>10 DEF CallerCancelled, Holding
  <2>2. ASSUME NEW v \in Slots, v \notin outOfStep' PROVE Queued(v)'
    <3>1. lock[v] # r
      BY <2>1, <2>2, SlotsFacts DEF LockInv
    <3> QED BY <1>1, <2>1, <2>2, <3>1
  <2> QED BY <2>2 DEF QueueInv
<1>11. ASSUME NEW w \in Slots, Respond(w) PROVE QueueInv'
  <2>1. PICK kind \in Kinds :
          stdout' = [stdout EXCEPT ![w] = Append(@, <<Head(stdin[w]), kind>>)]
    BY <1>11 DEF Respond, Kinds
  <2>2. /\ stdin[w] # << >> /\ stdin' = [stdin EXCEPT ![w] = Tail(@)]
        /\ UNCHANGED <<lock, outOfStep>>
    BY <1>11 DEF Respond
  <2>3. w \notin outOfStep => Queued(w)'
    <3>1. SUFFICES ASSUME w \notin outOfStep PROVE Queued(w)'
      OBVIOUS
    <3>2. lock[w] \in Requests /\ stdin[w] = << lock[w] >> /\ stdout[w] = << >>
      BY <2>2, <3>1 DEF QueueInv, Queued
    <3>3. Head(stdin[w]) = lock[w] /\ Tail(stdin[w]) = << >>
      BY <3>2
    <3>4. stdin'[w] = << >> /\ stdout'[w] = << <<lock[w], kind>> >>
      BY <1>0, <2>1, <2>2, <3>2, <3>3 DEF ProcessTypes
    <3> QED BY <2>2, <3>2, <3>4 DEF Queued
  <2>4. ASSUME NEW v \in Slots, v # w, v \notin outOfStep PROVE Queued(v)'
    <3>1. stdin'[v] = stdin[v] /\ stdout'[v] = stdout[v]
      BY <1>0, <2>1, <2>2, <2>4 DEF ProcessTypes
    <3> QED BY <1>1, <2>2, <2>4, <3>1
  <2> QED BY <2>2, <2>3, <2>4 DEF QueueInv
<1>12. ASSUME NEW w \in Slots, ProcessExits(w) PROVE QueueInv'
  <2>1. /\ stdin' = [stdin EXCEPT ![w] = << >>] /\ UNCHANGED <<lock, stdout, outOfStep>>
    BY <1>12 DEF ProcessExits
  <2>2. \A v \in Slots : stdin'[v] = stdin[v] \/ stdin'[v] = << >>
    BY <1>0, <2>1 DEF ProcessTypes
  <2> QED BY <1>1, <2>1, <2>2 DEF QueueInv
<1>13. CASE UNCHANGED vars
  BY <1>2, <1>13 DEF vars
<1>14. ASSUME NEW w \in Slots, TakesInput(w) PROVE QueueInv'
  BY <1>2, <1>14 DEF TakesInput, procVars
<1> QED
  BY <1>3, <1>4, <1>5, <1>7, <1>8, <1>f, <1>9, <1>10, <1>11, <1>12, <1>13, <1>14, NextCases

\* A step of r that does not end in drain, and touches a pipe only when r reads.
LEMMA DrainKept ==
  ASSUME PoolTypeOK, BorrowInv, LockInv, DrainInv, NEW r \in Requests,
         OthersStay(r), phase'[r] # "drain", outOfStep \subseteq outOfStep',
         \A v \in Slots : stdout'[v] = stdout[v] \/ (phase[r] = "read" /\ v = worker[r])
  PROVE  DrainInv'
<1> SUFFICES ASSUME NEW q \in Requests, phase'[q] = "drain", worker'[q] \notin outOfStep'
             PROVE  stdout'[worker'[q]] = << >>
  BY DEF DrainInv
<1>1. q # r /\ phase[q] = "drain" /\ worker'[q] = worker[q]
  BY DEF OthersStay
<1>2. worker[q] \in Slots /\ lock[worker[q]] = q
  BY <1>1, HasWorker DEF LockInv, Holding
<1>3. phase[r] = "read" => lock[worker[r]] = r
  BY DEF LockInv, Holding
<1>4. stdout'[worker[q]] = stdout[worker[q]]
  BY <1>1, <1>2, <1>3
<1> QED BY <1>1, <1>4 DEF DrainInv

LEMMA DrainStep ==
  ASSUME PoolTypeOK, BorrowInv, SpawnInv, CallsInv, LockInv, QueueInv, DrainInv,
         [PoolNext]_vars
  PROVE  DrainInv'
<1>0. CallTypes /\ ProcessTypes
  BY TypeParts
<1>1. ASSUME NEW r \in Requests,
             \/ Enter(r) \/ SpawnWorker(r) \/ StartFails(r) \/ BorrowWorker(r)
             \/ ReadEof(r) \/ CallerCancelled(r)
      PROVE  DrainInv'
  <2>1. /\ OthersStay(r) /\ phase'[r] # "drain" /\ outOfStep \subseteq outOfStep'
        /\ stdout' = stdout
    BY <1>0, <1>1 DEF Enter, SpawnWorker, StartFails, BorrowWorker, ReadEof, CallerCancelled,
       OthersStay, CallTypes, procVars
  <2> QED BY <2>1, DrainKept
<1>2. ASSUME NEW r \in Requests, WorkerStarted(r) PROVE DrainInv'
  <2> DEFINE w == Min(Slots \ InUse)
  <2>1. w \in Slots /\ \A q \in Requests : worker[q] # w
    BY <1>2, FreshSlot DEF WorkerStarted, InUse
  <2>2. /\ stdout' = [stdout EXCEPT ![w] = << >>] /\ outOfStep' = outOfStep \ {w}
        /\ phase' = [phase EXCEPT ![r] = "borrow"] /\ worker' = worker
    BY <1>2 DEF WorkerStarted
  <2> HIDE DEF w
  <2>3. ASSUME NEW q \in Requests, phase'[q] = "drain", worker'[q] \notin outOfStep'
        PROVE  stdout'[worker'[q]] = << >>
    <3>1. phase[q] = "drain" /\ worker[q] # w /\ worker[q] \notin outOfStep
      BY <1>0, <2>1, <2>2, <2>3 DEF CallTypes
    <3>2. worker[q] \in Slots
      BY <3>1, HasWorker
    <3>3. stdout'[worker[q]] = stdout[worker[q]]
      BY <1>0, <2>2, <3>1, <3>2 DEF ProcessTypes
    <3> QED BY <2>2, <3>1, <3>3 DEF DrainInv
  <2> QED BY <2>3 DEF DrainInv
<1>3. ASSUME NEW r \in Requests, WriteRequest(r) PROVE DrainInv'
  <2>1. /\ worker[r] \in Slots /\ lock[worker[r]] = NoOne
        /\ OthersStay(r) /\ UNCHANGED <<worker, stdout, outOfStep>>
    BY <1>0, <1>3, HasWorker DEF WriteRequest, LockIsFree, OthersStay, CallTypes
  <2>2. worker[r] \notin outOfStep => stdout[worker[r]] = << >>
    BY <2>1, SlotsFacts DEF QueueInv, Queued
  <2> QED BY <2>1, <2>2 DEF DrainInv, OthersStay
<1>4. ASSUME NEW r \in Requests, Retries(r) PROVE DrainInv'
  <2>1. OthersStay(r) /\ phase'[r] # "drain" /\ worker[r] \in Slots
    BY <1>4, RetriesFacts DEF GivesUp, OthersStay
  <2>2. /\ outOfStep \subseteq outOfStep'
        /\ \A v \in Slots : stdout'[v] = stdout[v] \/ (phase[r] = "read" /\ v = worker[r])
    BY <1>0, <1>4, RetriesPipes DEF ProcessTypes
  <2> QED BY <2>1, <2>2, DrainKept
<1>5. ASSUME NEW r \in Requests, Ends(r) \/ LineTooLong(r) PROVE DrainInv'
  <2>1. /\ OthersStay(r) /\ phase'[r] # "drain" /\ outOfStep \subseteq outOfStep'
        /\ \A v \in Slots : stdout'[v] = stdout[v] \/ (phase[r] = "read" /\ v = worker[r])
    <3>1. CASE Ends(r)
      BY <1>0, <3>1, EndsFacts DEF OthersStay, CallTypes, ProcessTypes
    <3>2. CASE LineTooLong(r)
      BY <1>0, <3>2 DEF LineTooLong, OthersStay, CallTypes, ProcessTypes
    <3> QED BY <1>5, <3>1, <3>2
  <2> QED BY <2>1, DrainKept
<1>6. ASSUME NEW w \in Slots, TakesInput(w) PROVE DrainInv'
  BY <1>0, <1>6 DEF TakesInput, DrainInv, CallTypes, procVars
<1>7. ASSUME NEW w \in Slots, Respond(w) PROVE DrainInv'
  <2>1. /\ UNCHANGED <<phase, worker, outOfStep>> /\ phase[Head(stdin[w])] # "drain"
        /\ stdin[w] # << >> /\ \A v \in Slots : v # w => stdout'[v] = stdout[v]
    BY <1>0, <1>7 DEF Respond, callVars, ProcessTypes
  <2>2. ASSUME NEW q \in Requests, phase[q] = "drain", worker[q] \notin outOfStep
        PROVE  stdout'[worker[q]] = << >>
    <3>1. worker[q] \in Slots /\ lock[worker[q]] = q /\ stdout[worker[q]] = << >>
      BY <2>2, HasWorker DEF LockInv, DrainInv, Holding
    <3>2. worker[q] # w
      <4>1. SUFFICES ASSUME worker[q] = w PROVE FALSE
        OBVIOUS
      <4>2. stdin[w] = << q >>
        BY <2>1, <2>2, <3>1, <4>1 DEF QueueInv, Queued
      <4>3. Head(stdin[w]) = q
        BY <4>2
      <4> QED BY <2>1, <2>2, <4>3
    <3> QED BY <2>1, <3>1, <3>2
  <2> QED BY <2>1, <2>2 DEF DrainInv
<1>8. ASSUME UNCHANGED <<phase, worker, stdout, outOfStep>> PROVE DrainInv'
  BY <1>8 DEF DrainInv
<1> QED
  BY <1>1, <1>2, <1>3, <1>4, <1>5, <1>6, <1>7, <1>8, NextCases
  DEF ProcessExits, callVars, vars

-----------------------------------------------------------------------------
(* The replies.                                                            *)

LEMMA CalmBefore ==
  ASSUME PoolTypeOK, BorrowInv, [PoolNext]_vars, Calm'
  PROVE  /\ Calm
         /\ \A r \in Requests : ~StartFails(r) /\ ~Retries(r) /\ ~ReadEof(r)
                                /\ ~LineTooLong(r) /\ ~CallerCancelled(r)
<1>0. CallTypes
  BY TypeParts
<1>1. ASSUME NEW r \in Requests,
             StartFails(r) \/ LineTooLong(r) \/ ReadEof(r) \/ CallerCancelled(r)
      PROVE  FALSE
  <2>1. phase'[r] \in {"failed", "replace", "cancelled"}
    BY <1>0, <1>1 DEF StartFails, LineTooLong, ReadEof, CallerCancelled, CallTypes
  <2> QED BY <2>1 DEF Calm
<1>2. ASSUME NEW r \in Requests, Retries(r) PROVE FALSE
  <2>1. GivesUp(r) /\ attempt[r] \in Nat
    BY <1>0, <1>2, RetriesFacts, Constant DEF CallTypes
  <2>2. phase'[r] = "borrow" /\ attempt'[r] = attempt[r] + 1 /\ attempt'[r] = 0
    BY <2>1 DEF GivesUp, Calm
  <2> QED BY <2>1, <2>2
<1>3. ASSUME \A q \in Requests : /\ attempt'[q] = attempt[q]
                                 /\ phase[q] \in {"cancelled", "replace", "failed"} => phase'[q] = phase[q]
      PROVE  Calm
  BY <1>3 DEF Calm
<1>4. ASSUME NEW r \in Requests,
             \/ Enter(r) \/ SpawnWorker(r) \/ WorkerStarted(r)
             \/ BorrowWorker(r) \/ WriteRequest(r)
      PROVE  Calm
  <2>1. \A q \in Requests : /\ attempt'[q] = attempt[q]
                            /\ phase[q] \in {"cancelled", "replace", "failed"} => phase'[q] = phase[q]
    BY <1>0, <1>4 DEF Enter, SpawnWorker, WorkerStarted, BorrowWorker, WriteRequest, CallTypes
  <2> QED BY <1>3, <2>1
<1>5. ASSUME NEW r \in Requests, Ends(r) PROVE Calm
  <2>1. \A q \in Requests : /\ attempt'[q] = attempt[q]
                            /\ phase[q] \in {"cancelled", "replace", "failed"} => phase'[q] = phase[q]
    BY <1>0, <1>5, EndsFacts DEF CallTypes
  <2> QED BY <1>3, <2>1
<1>6. ASSUME UNCHANGED <<phase, attempt>> PROVE Calm
  BY <1>6 DEF Calm
<1>t. ASSUME NEW w \in Slots, TakesInput(w) PROVE Calm
  BY <1>0, <1>t DEF TakesInput, Calm, CallTypes
<1>7. Calm
  BY <1>1, <1>2, <1>4, <1>5, <1>6, <1>t, NextCases DEF Respond, ProcessExits, callVars, vars
<1> QED BY <1>1, <1>2, <1>7

LEMMA ReplyStep ==
  ASSUME PoolTypeOK, BorrowInv, LockInv, QueueInv, ReplyInv, [PoolNext]_vars
  PROVE  ReplyInv'
<1>0. CallTypes
  BY TypeParts
<1>1. SUFFICES ASSUME Calm'
               PROVE  outOfStep' = {} /\ \A q \in Requests : reply'[q] \in {q, NoOne}
  BY DEF ReplyInv
<1>2. /\ outOfStep = {} /\ \A q \in Requests : reply[q] \in {q, NoOne}
      /\ \A r \in Requests : /\ ~StartFails(r) /\ ~Retries(r) /\ ~ReadEof(r)
                             /\ ~LineTooLong(r) /\ ~CallerCancelled(r)
  BY <1>1, CalmBefore DEF ReplyInv
<1>3. ASSUME NEW r \in Requests,
             \/ Enter(r) \/ SpawnWorker(r) \/ WorkerStarted(r)
             \/ BorrowWorker(r) \/ WriteRequest(r)
      PROVE  outOfStep' = {} /\ reply' = reply
  BY <1>2, <1>3 DEF Enter, SpawnWorker, WorkerStarted, BorrowWorker, WriteRequest, procVars
<1>4. ASSUME NEW r \in Requests, Ends(r)
      PROVE  outOfStep' = {} /\ \A q \in Requests : reply'[q] \in {q, NoOne}
  <2>1. /\ phase[r] = "read" /\ stdout[worker[r]] # << >>
        /\ \/ reply' = [reply EXCEPT ![r] = Head(stdout[worker[r]])[1]]
           \/ reply' = reply
        /\ outOfStep' = outOfStep
    BY <1>4, EndsFacts
  <2>2. worker[r] \in Slots /\ lock[worker[r]] = r
    BY <2>1, HasWorker DEF LockInv, Holding
  <2>3. Queued(worker[r])
    BY <1>2, <2>2 DEF QueueInv
  <2>4. PICK kind \in Kinds : stdout[worker[r]] = << <<r, kind>> >>
    BY <2>1, <2>2, <2>3 DEF Queued
  <2>5. Head(stdout[worker[r]])[1] = r
    BY <2>4
  <2> QED BY <1>0, <1>2, <2>1, <2>5 DEF CallTypes
<1>5. ASSUME NEW w \in Slots, TakesInput(w) \/ Respond(w) \/ ProcessExits(w)
      PROVE  outOfStep' = {} /\ reply' = reply
  BY <1>2, <1>5 DEF TakesInput, Respond, ProcessExits, callVars, procVars
<1>6. CASE UNCHANGED vars
  BY <1>2, <1>6 DEF vars
<1> QED BY <1>2, <1>3, <1>4, <1>5, <1>6, NextCases

-----------------------------------------------------------------------------
(* The invariant.                                                          *)

LEMMA InvInit == PoolInit => PoolInv
<1> SUFFICES ASSUME PoolInit PROVE PoolInv
  OBVIOUS
<1>1. PoolTypeOK
  BY TypeInit
<1>2. BorrowInv /\ AliveInv /\ LockInv /\ QueueInv /\ DrainInv /\ ReplyInv
  BY DEF PoolInit, BorrowInv, AliveInv, LockInv, Holding, QueueInv, Queued, DrainInv, ReplyInv
<1>3. SpawnInv
  BY Constant DEF PoolInit, SpawnInv
<1>4. CallsInv
  <2>1. Calls = {}
    BY DEF PoolInit, Calls, Inside
  <2> QED BY <2>1, FS_EmptySet, Constant DEF CallsInv
<1> QED BY <1>1, <1>2, <1>3, <1>4 DEF PoolInv

LEMMA InvStep == PoolInv /\ [PoolNext]_vars => PoolInv'
<1> SUFFICES ASSUME PoolInv, [PoolNext]_vars PROVE PoolInv'
  OBVIOUS
<1>0. /\ PoolTypeOK /\ BorrowInv /\ SpawnInv /\ CallsInv /\ AliveInv /\ LockInv
      /\ QueueInv /\ DrainInv /\ ReplyInv
  BY DEF PoolInv
<1>1. PoolTypeOK'
  BY <1>0, TypeStep
<1>2. BorrowInv' /\ SpawnInv' /\ CallsInv' /\ AliveInv'
  BY <1>0, <1>1, BorrowStep, SpawnStep, CallsStep, AliveStep
<1>3. LockInv' /\ QueueInv' /\ DrainInv' /\ ReplyInv'
  BY <1>0, LockStep, QueueStep, DrainStep, ReplyStep
<1> QED BY <1>1, <1>2, <1>3 DEF PoolInv

THEOREM PoolInvariant == PoolSpec => []PoolInv
<1>1. PoolSpec => PoolInit /\ [][PoolNext]_vars
  BY PTL DEF PoolSpec
<1> QED BY <1>1, InvInit, InvStep, PTL

\* The calls, the list, the locks and the pipes have the values of their types,
\* and a process is listed once.
THEOREM PoolTypeCorrect == PoolSpec => []PoolTypeOK
<1>1. PoolInv => PoolTypeOK
  BY DEF PoolInv
<1> QED BY <1>1, PoolInvariant, PTL

LEMMA NoLeakHere == PoolInv => NoProcessLeaked
<1> SUFFICES ASSUME PoolInv PROVE NoProcessLeaked
  OBVIOUS
<1>1. workers \in Seq(Slots) /\ Len(workers) <= PoolSize /\ alive \subseteq Range(workers)
  BY DEF PoolInv, PoolTypeOK, SpawnInv, AliveInv
<1>2. IsFiniteSet(Range(workers)) /\ Cardinality(Range(workers)) <= Len(workers)
  BY <1>1, RangeFacts
<1>3. IsFiniteSet(alive) /\ Cardinality(alive) <= Cardinality(Range(workers))
  BY <1>1, <1>2, FS_Subset
<1>4. /\ Cardinality(alive) \in Nat /\ Cardinality(Range(workers)) \in Nat
      /\ Len(workers) \in Nat
  BY <1>1, <1>2, <1>3, FS_CardinalityType
<1> QED BY <1>1, <1>2, <1>3, <1>4, Constant DEF NoProcessLeaked

\* However first calls, retries, cancelled calls and dying processes interleave
\* in _borrow_worker and _replace_worker, at most pool_size processes run and
\* close_renderer_pools finds each of them in _workers.
THEOREM NoProcessIsLeaked == PoolSpec => []NoProcessLeaked
BY NoLeakHere, PoolInvariant, PTL

\* The requests of the lines a process has written.
Lines(s) == [i \in DOMAIN s |-> s[i][1]]

LEMMA LinesFacts ==
  ASSUME NEW x, NEW kind, x \in Requests
  PROVE  /\ << >> \o Lines(<< >>) = << >>
         /\ << x >> \o Lines(<< >>) = << x >>
         /\ << >> \o Lines(<< <<x, kind>> >>) = << x >>
<1>1. Lines(<< >>) = << >>
  BY DEF Lines
<1>2. Lines(<< <<x, kind>> >>) = << x >>
  BY DEF Lines
<1>3. << >> \in Seq(Requests) /\ << x >> \in Seq(Requests)
  OBVIOUS
<1> QED BY <1>1, <1>2, <1>3, ConcatEmptySeq

LEMMA InStepHere == PoolInv => InStep
<1> SUFFICES ASSUME PoolInv PROVE InStep
  OBVIOUS
<1>1. ASSUME NEW w \in alive \ outOfStep
      PROVE  \/ stdin[w] \o Lines(stdout[w]) = << >>
             \/ stdin[w] \o Lines(stdout[w]) = << lock[w] >>
  <2>1. Queued(w)
    BY DEF PoolInv, PoolTypeOK, QueueInv
  <2>2. << >> \o Lines(<< >>) = << >>
    BY ConcatEmptySeq DEF Lines
  <2> QED BY <2>1, <2>2, LinesFacts DEF Queued
<1>2. ReplyInv
  BY DEF PoolInv
<1> QED BY <1>1, <1>2 DEF InStep, Lines, ReplyInv, Calm

\* While no call has left a process early (by a timeout, a cancellation or a line
\* above the limit of readline), its pipes hold at most the line of the call
\* that holds its lock, and while no call failed, was cancelled or tried again,
\* each gets the HTML of its own artifact, although no request id is compared.
THEOREM RendersAreInStep == PoolSpec => []InStep
BY InStepHere, PoolInvariant, PTL
-----------------------------------------------------------------------------
(* Waiting and progress.                                                   *)

\* Whom a call inside the pool waits for: the holder of the pool lock or of
\* the lock of its process.
WaitsFor(r) ==
  {q \in Requests : \/ phase[r] \in {"borrow", "replace"} /\ poolLock = q /\ q # r
                    \/ phase[r] = "lock" /\ lock[worker[r]] = q}

\* Whoever is waited for is inside and waits for nobody.
WaitsAreShort ==
  \A r \in Requests : \A q \in WaitsFor(r) : phase[q] \in Inside /\ WaitsFor(q) = {}

\* The pool lock is held from the length test to the borrowed process.
HolderInv == poolLock # NoOne => phase[poolLock] \in {"borrow", "spawning"}

\* The steps one iteration of the retry loop still takes at most.  The holder of
\* the pool lock starts as many processes as the list lacks.
Stage(r) ==
  CASE phase[r] = "idle" -> 2 * PoolSize + 7
    [] phase[r] = "borrow" -> IF poolLock = r THEN 2 * (PoolSize - Len(workers)) + 5
                                              ELSE 2 * PoolSize + 6
    [] phase[r] = "spawning" -> 2 * (PoolSize - Len(workers)) + 4
    [] phase[r] = "lock" -> 4
    [] phase[r] = "drain" -> 3
    [] phase[r] = "read" -> 2
    [] phase[r] = "replace" -> 1
    [] phase[r] \in Finished -> 0

\* The steps a call still takes at most, all its iterations together.
StepsLeft(r) ==
  IF phase[r] \in Finished THEN 0
  ELSE (MaxRetries - attempt[r]) * (2 * PoolSize + 7) + Stage(r)

\* Every step of a call brings it closer to its end, and no other call, no
\* process and no cancellation takes it back.  (Whether a call that drains takes
\* another step is up to the process, see EveryRenderReturns.)
CallsRunOut ==
  [][\A r \in Requests : /\ StepsLeft(r)' <= StepsLeft(r)
                         /\ CallStep(r) => StepsLeft(r)' < StepsLeft(r)]_vars

LEMMA HolderStep ==
  ASSUME PoolTypeOK, BorrowInv, HolderInv, [PoolNext]_vars
  PROVE  HolderInv'
<1>0. CallTypes /\ ListTypes /\ NoOne \notin Requests
  BY TypeParts, SlotsFacts
<1>1. ASSUME NEW r \in Requests,
             \/ Enter(r) \/ SpawnWorker(r) \/ WorkerStarted(r) \/ StartFails(r)
             \/ BorrowWorker(r) \/ WriteRequest(r) \/ LineTooLong(r) \/ ReadEof(r)
      PROVE  HolderInv'
  BY <1>0, <1>1 DEF Enter, SpawnWorker, WorkerStarted, StartFails, BorrowWorker, WriteRequest,
     LineTooLong, ReadEof, HolderInv, CallTypes, ListTypes, poolVars
<1>2. ASSUME NEW r \in Requests, Retries(r) PROVE HolderInv'
  <2>1. GivesUp(r) /\ poolLock' = poolLock /\ phase[r] \notin {"borrow", "spawning"}
    BY <1>2, RetriesFacts
  <2> QED BY <1>0, <2>1 DEF GivesUp, HolderInv, ListTypes
<1>3. ASSUME NEW r \in Requests, Ends(r) PROVE HolderInv'
  <2>1. poolLock' = poolLock /\ phase[r] = "read"
    BY <1>3, EndsFacts
  <2>2. \A q \in Requests : q # r => phase'[q] = phase[q]
    BY <1>0, <1>3, EndsFacts DEF CallTypes
  <2> QED BY <1>0, <2>1, <2>2 DEF HolderInv, ListTypes
<1>4. ASSUME NEW r \in Requests, CallerCancelled(r) PROVE HolderInv'
  BY <1>0, <1>4 DEF CallerCancelled, HolderInv, CallTypes, ListTypes
<1>5. ASSUME NEW w \in Slots, TakesInput(w) \/ Respond(w) \/ ProcessExits(w)
      PROVE  HolderInv'
  BY <1>0, <1>5 DEF TakesInput, Respond, ProcessExits, HolderInv, callVars, poolVars, CallTypes, ListTypes
<1>6. CASE UNCHANGED vars
  BY <1>6 DEF vars, HolderInv
<1> QED BY <1>1, <1>2, <1>3, <1>4, <1>5, <1>6, NextCases

LEMMA HolderInvariant == PoolSpec => []HolderInv
<1>1. PoolInit => HolderInv
  BY DEF PoolInit, HolderInv
<1>2. PoolInv /\ HolderInv /\ [PoolNext]_vars => HolderInv'
  BY HolderStep DEF PoolInv
<1>3. PoolSpec => PoolInit /\ [][PoolNext]_vars
  BY PTL DEF PoolSpec
<1> QED BY <1>1, <1>2, <1>3, PoolInvariant, PTL

\* Calls wait for each other for the pool lock (_borrow_worker, _replace_worker)
\* and for the lock of a process (_render_with_worker), but never in a chain:
\* the call that holds either waits for no other, so no order of acquisition
\* can leave the calls inside the semaphore waiting for one another.  (The
\* holder of a process lock may wait for the process, in drain.)
THEOREM CallsDoNotDeadlock == PoolSpec => []WaitsAreShort
<1>1. PoolInv /\ HolderInv => WaitsAreShort
  <2> SUFFICES ASSUME PoolInv, HolderInv, NEW r \in Requests, NEW q \in WaitsFor(r)
               PROVE  phase[q] \in Inside /\ WaitsFor(q) = {}
    BY DEF WaitsAreShort
  <2>0. CallTypes /\ NoOne \notin Requests /\ q \in Requests
    BY TypeParts, SlotsFacts DEF PoolInv, WaitsFor
  <2>1. CASE poolLock = q
    <3>1. phase[q] \in {"borrow", "spawning"}
      BY <2>0, <2>1 DEF HolderInv
    <3> QED BY <2>0, <2>1, <3>1 DEF WaitsFor, Inside
  <2>2. CASE phase[r] = "lock" /\ lock[worker[r]] = q
    <3>1. worker[r] \in Slots
      BY <2>2, HasWorker DEF PoolInv
    <3>2. phase[q] \in Holding
      BY <2>0, <2>2, <3>1 DEF PoolInv, LockInv
    <3> QED BY <3>2 DEF WaitsFor, Inside, Holding
  <2> QED BY <2>1, <2>2 DEF WaitsFor
<1> QED BY <1>1, PoolInvariant, HolderInvariant, PTL

\* What is left of an iteration, and what another call cannot change of it.
LEMMA StageType ==
  ASSUME PoolInv, NEW r \in Requests
  PROVE  /\ Stage(r) \in Nat /\ Len(workers) \in Nat /\ PoolSize \in Nat
         /\ phase[r] \notin Finished => Stage(r) > 0
         /\ attempt[r] \in 0..MaxRetries /\ MaxRetries \in Nat
<1>1. /\ Len(workers) \in Nat /\ Len(workers) <= PoolSize /\ PoolSize \in Nat
      /\ attempt[r] \in 0..MaxRetries /\ MaxRetries \in Nat
      /\ phase[r] \in Phases
  <2>1. CallTypes /\ ListTypes
    BY TypeParts DEF PoolInv
  <2> QED BY <2>1, Constant DEF PoolInv, CallTypes, ListTypes, SpawnInv
<1>2. PoolSize - Len(workers) \in Nat
  BY <1>1
<1> DEFINE d == PoolSize - Len(workers)
<1>3. /\ phase[r] \in Finished => Stage(r) = 0
      /\ phase[r] \notin Finished =>
           Stage(r) \in {2 * PoolSize + 7, 2 * d + 5, 2 * PoolSize + 6, 2 * d + 4, 4, 3, 2, 1}
  BY <1>1 DEF Stage, Phases, Inside, Finished
<1> HIDE DEF d
<1>4. Stage(r) \in Nat /\ (phase[r] \notin Finished => Stage(r) > 0)
  BY <1>1, <1>2, <1>3 DEF d
<1> QED BY <1>1, <1>4

LEMMA StepsKept ==
  ASSUME PoolInv, NEW r \in Requests,
         phase'[r] = phase[r], attempt'[r] = attempt[r],
         poolLock' = r <=> poolLock = r,
         poolLock = r => workers' = workers
  PROVE  StepsLeft(r)' = StepsLeft(r)
<1>1. Stage(r)' = Stage(r)
  <2>1. CASE poolLock = r
    BY <2>1 DEF Stage
  <2>2. CASE poolLock # r
    <3>1. phase[r] # "spawning"
      BY <2>2 DEF PoolInv, SpawnInv
    <3> QED BY <2>2, <3>1 DEF Stage
  <2> QED BY <2>1, <2>2
<1> QED BY <1>1 DEF StepsLeft

\* The steps left after a step within an iteration, into the next one, and out
\* of the loop.
Lower(r) == StepsLeft(r)' \in Nat /\ StepsLeft(r)' < StepsLeft(r)

LEMMA Product ==
  ASSUME NEW m \in Nat, NEW k \in Nat
  PROVE  /\ m * k \in Nat
         /\ m > 0 => (m - 1) * k \in Nat /\ m * k = (m - 1) * k + k
OBVIOUS

LEMMA StepsLower ==
  ASSUME PoolInv, NEW r \in Requests, phase[r] \notin Finished,
         \/ phase'[r] \in Finished
         \/ /\ phase'[r] \notin Finished /\ attempt'[r] = attempt[r]
            /\ Stage(r)' \in Nat /\ Stage(r)' < Stage(r)
         \/ /\ phase'[r] \notin Finished /\ attempt'[r] = attempt[r] + 1
            /\ attempt[r] < MaxRetries
            /\ Stage(r)' = 2 * PoolSize + 6
  PROVE  Lower(r)
<1> DEFINE m == MaxRetries - attempt[r]
           k == 2 * PoolSize + 7
<1>1. /\ m \in Nat /\ k \in Nat /\ Stage(r) \in Nat /\ Stage(r) > 0
      /\ PoolSize \in Nat /\ attempt[r] \in Nat /\ MaxRetries \in Nat
  <2>1. /\ Stage(r) \in Nat /\ Stage(r) > 0 /\ PoolSize \in Nat
        /\ attempt[r] \in 0..MaxRetries /\ MaxRetries \in Nat
    BY StageType
  <2> QED BY <2>1
<1>2. StepsLeft(r) = m * k + Stage(r)
  BY DEF StepsLeft
<1>3. CASE phase'[r] \in Finished
  <2>1. StepsLeft(r)' = 0
    BY <1>3 DEF StepsLeft
  <2>2. m * k \in Nat
    BY <1>1, Product
  <2> QED BY <1>1, <1>2, <2>1, <2>2 DEF Lower
<1>4. CASE /\ phase'[r] \notin Finished /\ attempt'[r] = attempt[r]
           /\ Stage(r)' \in Nat /\ Stage(r)' < Stage(r)
  <2>1. StepsLeft(r)' = m * k + Stage(r)'
    BY <1>4 DEF StepsLeft
  <2>2. m * k \in Nat
    BY <1>1, Product
  <2> HIDE DEF m, k
  <2> QED BY <1>1, <1>2, <1>4, <2>1, <2>2 DEF Lower
<1>5. CASE /\ phase'[r] \notin Finished /\ attempt'[r] = attempt[r] + 1
           /\ attempt[r] < MaxRetries
           /\ Stage(r)' = 2 * PoolSize + 6
  <2>1. StepsLeft(r)' = (MaxRetries - (attempt[r] + 1)) * k + Stage(r)'
    BY <1>5 DEF StepsLeft
  <2>2. MaxRetries - (attempt[r] + 1) = m - 1 /\ m > 0 /\ Stage(r)' = k - 1
    BY <1>1, <1>5
  <2>3. (m - 1) * k \in Nat /\ m * k = (m - 1) * k + k
    BY <1>1, <2>2, Product
  <2>4. k > 0
    BY <1>1
  <2> HIDE DEF m, k
  <2>5. StepsLeft(r)' = (m - 1) * k + (k - 1)
    BY <2>1, <2>2
  <2> QED BY <1>1, <1>2, <2>3, <2>4, <2>5 DEF Lower
<1> QED BY <1>3, <1>4, <1>5

LEMMA StepsStep ==
  ASSUME PoolInv, HolderInv, [PoolNext]_vars, NEW r \in Requests
  PROVE  /\ CallStep(r) \/ Enter(r) => Lower(r)
         /\ Lower(r) \/ StepsLeft(r)' = StepsLeft(r)
<1>0. /\ CallTypes /\ ListTypes /\ PoolTypeOK /\ BorrowInv
      /\ NoOne \notin Requests /\ PoolSize \in Nat \ {0} /\ MaxRetries \in Nat
      /\ Len(workers) \in Nat /\ Len(workers) <= PoolSize
  BY TypeParts, Constant DEF PoolInv, SpawnInv, ListTypes
<1> DEFINE Frame == /\ phase'[r] = phase[r] /\ attempt'[r] = attempt[r]
                    /\ poolLock' = r <=> poolLock = r
                    /\ poolLock = r => workers' = workers
<1>1. ASSUME NEW q \in Requests, Enter(q) PROVE IF q = r THEN Lower(r) ELSE Frame
  <2>1. CASE q = r
    <3>1. /\ phase[r] = "idle" /\ phase'[r] = "borrow" /\ attempt'[r] = attempt[r]
          /\ poolLock' = poolLock /\ poolLock # r
      BY <1>0, <1>1, <2>1 DEF Enter, poolVars, CallTypes, HolderInv
    <3>2. Stage(r) = 2 * PoolSize + 7 /\ Stage(r)' = 2 * PoolSize + 6
      BY <3>1 DEF Stage, Finished
    <3> QED BY <1>0, <2>1, <3>1, <3>2, StepsLower DEF Finished
  <2>2. CASE q # r
    BY <1>0, <1>1, <2>2 DEF Enter, poolVars, CallTypes
  <2> QED BY <2>1, <2>2
<1>2. ASSUME NEW q \in Requests, SpawnWorker(q) PROVE IF q = r THEN Lower(r) ELSE Frame
  <2>1. CASE q = r
    <3>1. /\ phase[r] = "borrow" /\ phase'[r] = "spawning" /\ attempt'[r] = attempt[r]
          /\ workers' = workers
      BY <1>0, <1>2, <2>1 DEF SpawnWorker, CallTypes
    <3>2. /\ Stage(r)' = 2 * (PoolSize - Len(workers)) + 4
          /\ Stage(r) \in {2 * (PoolSize - Len(workers)) + 5, 2 * PoolSize + 6}
      BY <3>1 DEF Stage, Finished
    <3>3. Stage(r)' \in Nat /\ Stage(r)' < Stage(r)
      BY <1>0, <3>2
    <3> QED BY <2>1, <3>1, <3>3, StepsLower DEF Finished
  <2>2. CASE q # r
    BY <1>0, <1>2, <2>2 DEF SpawnWorker, CanHold, CallTypes
  <2> QED BY <2>1, <2>2
<1>3. ASSUME NEW q \in Requests, WorkerStarted(q) PROVE IF q = r THEN Lower(r) ELSE Frame
  <2>0. /\ phase[q] = "spawning" /\ poolLock = q /\ poolLock' = poolLock
        /\ Len(workers) < PoolSize /\ Len(workers') = Len(workers) + 1
    <3>1. phase[q] = "spawning" /\ poolLock' = poolLock
          /\ workers' = Append(workers, Min(Slots \ InUse))
      BY <1>3 DEF WorkerStarted
    <3>2. Len(Append(workers, Min(Slots \ InUse))) = Len(workers) + 1
      BY <1>0 DEF ListTypes
    <3> QED BY <3>1, <3>2 DEF PoolInv, SpawnInv
  <2>1. CASE q = r
    <3>1. phase'[r] = "borrow" /\ attempt'[r] = attempt[r]
      BY <1>0, <1>3, <2>1 DEF WorkerStarted, CallTypes
    <3>2. /\ Stage(r)' = 2 * (PoolSize - (Len(workers) + 1)) + 5
          /\ Stage(r) = 2 * (PoolSize - Len(workers)) + 4
      BY <2>0, <2>1, <3>1 DEF Stage, Finished
    <3>3. Stage(r)' \in Nat /\ Stage(r)' < Stage(r)
      BY <1>0, <2>0, <3>2
    <3> QED BY <2>0, <2>1, <3>1, <3>3, StepsLower DEF Finished
  <2>2. CASE q # r
    BY <1>0, <1>3, <2>0, <2>2 DEF WorkerStarted, CallTypes
  <2> QED BY <2>1, <2>2
<1>4. ASSUME NEW q \in Requests, StartFails(q) PROVE IF q = r THEN Lower(r) ELSE Frame
  <2>1. CASE q = r
    BY <1>0, <1>4, <2>1, StepsLower DEF StartFails, CallTypes, Finished
  <2>2. CASE q # r
    BY <1>0, <1>4, <2>2 DEF StartFails, CallTypes, PoolInv, SpawnInv
  <2> QED BY <2>1, <2>2
<1>5. ASSUME NEW q \in Requests, BorrowWorker(q) PROVE IF q = r THEN Lower(r) ELSE Frame
  <2>1. CASE q = r
    <3>1. phase[r] = "borrow" /\ phase'[r] = "lock" /\ attempt'[r] = attempt[r]
      BY <1>0, <1>5, <2>1 DEF BorrowWorker, CallTypes
    <3>2. /\ Stage(r)' = 4
          /\ Stage(r) \in {2 * (PoolSize - Len(workers)) + 5, 2 * PoolSize + 6}
      BY <3>1 DEF Stage, Finished
    <3>3. Stage(r)' \in Nat /\ Stage(r)' < Stage(r)
      BY <1>0, <3>2
    <3> QED BY <2>1, <3>1, <3>3, StepsLower DEF Finished
  <2>2. CASE q # r
    BY <1>0, <1>5, <2>2 DEF BorrowWorker, CanHold, CallTypes
  <2> QED BY <2>1, <2>2
<1>6. ASSUME NEW q \in Requests, WriteRequest(q) \/ ReadEof(q)
      PROVE  IF q = r THEN Lower(r) ELSE Frame
  <2>1. CASE q = r
    <3>1. /\ attempt'[r] = attempt[r]
          /\ <<phase[r], phase'[r]>> \in
               {<<"lock", "drain">>, <<"lock", "read">>, <<"read", "replace">>}
      BY <1>0, <1>6, <2>1 DEF WriteRequest, ReadEof, CallTypes
    <3>2. <<Stage(r), Stage(r)'>> \in {<<4, 3>>, <<4, 2>>, <<2, 1>>}
      BY <3>1 DEF Stage, Finished
    <3>3. Stage(r)' \in Nat /\ Stage(r)' < Stage(r)
      BY <3>2
    <3> QED BY <2>1, <3>1, <3>3, StepsLower DEF Finished
  <2>2. CASE q # r
    BY <1>0, <1>6, <2>2 DEF WriteRequest, ReadEof, CallTypes, poolVars
  <2> QED BY <2>1, <2>2
<1>7. ASSUME NEW q \in Requests, Retries(q) PROVE IF q = r THEN Lower(r) ELSE Frame
  <2>0. /\ GivesUp(q) /\ poolLock' = poolLock /\ phase[q] \in {"lock", "drain", "read", "replace"}
        /\ \/ Replaced(q) /\ CanHold(q)
           \/ /\ phase[q] \in {"lock", "drain", "read"} /\ phase' = [phase EXCEPT ![q] = "replace"]
              /\ attempt' = attempt /\ workers' = workers
    <3>1. GivesUp(q) /\ poolLock' = poolLock /\ phase[q] \in {"lock", "drain", "read", "replace"}
      BY <1>0, <1>7, RetriesFacts
    <3>2. CASE ReplaceWorker(q)
      BY <3>1, <3>2 DEF ReplaceWorker
    <3>3. CASE ~ReplaceWorker(q)
      <4>1. phase[q] \in {"lock", "drain", "read"} /\ Retry(q)
        BY <1>7, <3>3 DEF Retries, TriesAgain, PipeFails, ReadTimeout, ReadResponse
      <4> QED BY <3>1, <4>1 DEF Retry
    <3> QED BY <3>2, <3>3
  <2>h. poolLock # q
    BY <1>0, <2>0 DEF HolderInv
  <2>1. CASE q = r
    <3>1. CASE phase'[r] = "replace"
      <4>1. phase[r] \in {"lock", "drain", "read"} /\ attempt'[r] = attempt[r]
        BY <1>0, <2>0, <2>1, <3>1 DEF Replaced, CallTypes
      <4>2. Stage(r)' = 1 /\ Stage(r) \in {2, 3, 4}
        BY <3>1, <4>1 DEF Stage, Finished
      <4> QED BY <2>1, <3>1, <4>1, <4>2, StepsLower DEF Finished
    <3>2. CASE phase'[r] = "failed"
      BY <2>0, <2>1, <3>2, StepsLower DEF Finished
    <3>3. CASE phase'[r] = "borrow"
      <4>1. attempt'[r] = attempt[r] + 1 /\ attempt[r] < MaxRetries
        BY <1>0, <2>0, <2>1, <3>3 DEF Replaced, MayRetry, GivesUp, CallTypes
      <4>2. Stage(r)' = 2 * PoolSize + 6
        BY <2>0, <2>1, <2>h, <3>3 DEF Stage, Finished
      <4> QED BY <2>0, <2>1, <3>3, <4>1, <4>2, StepsLower DEF Finished
    <3> QED BY <2>0, <2>1, <3>1, <3>2, <3>3 DEF GivesUp
  <2>2. CASE q # r
    BY <1>0, <2>0, <2>2 DEF GivesUp, CanHold
  <2> QED BY <2>1, <2>2
<1>8. ASSUME NEW q \in Requests, Ends(q) PROVE IF q = r THEN Lower(r) ELSE Frame
  <2>1. CASE q = r
    BY <1>0, <1>8, <2>1, EndsFacts, StepsLower DEF Finished, CallTypes
  <2>2. CASE q # r
    BY <1>0, <1>8, <2>2, EndsFacts DEF CallTypes
  <2> QED BY <2>1, <2>2
<1>f. ASSUME NEW q \in Requests, LineTooLong(q) PROVE IF q = r THEN Lower(r) ELSE Frame
  <2>1. CASE q = r
    BY <1>0, <1>f, <2>1, StepsLower DEF LineTooLong, CallTypes, Finished
  <2>2. CASE q # r
    BY <1>0, <1>f, <2>2 DEF LineTooLong, CallTypes, poolVars
  <2> QED BY <2>1, <2>2
<1>t. ASSUME NEW w \in Slots, TakesInput(w) PROVE Lower(r) \/ Frame
  <2>1. /\ UNCHANGED <<attempt, workers, poolLock>>
        /\ phase'[r] = phase[r] \/ (phase[r] = "drain" /\ phase'[r] = "read")
    BY <1>0, <1>t DEF TakesInput, CallTypes, poolVars
  <2>2. CASE phase[r] = "drain" /\ phase'[r] = "read"
    <3>1. Stage(r) = 3 /\ Stage(r)' = 2
      BY <2>2 DEF Stage, Finished
    <3> QED BY <2>1, <2>2, <3>1, StepsLower DEF Finished
  <2> QED BY <2>1, <2>2
<1>9. ASSUME NEW q \in Requests, CallerCancelled(q) PROVE IF q = r THEN Lower(r) ELSE Frame
  <2>1. CASE q = r
    BY <1>0, <1>9, <2>1, StepsLower DEF CallerCancelled, CallTypes, Finished, Inside
  <2>2. CASE q # r
    BY <1>0, <1>9, <2>2 DEF CallerCancelled, CallTypes
  <2> QED BY <2>1, <2>2
<1>10. ASSUME NEW w \in Slots, Respond(w) \/ ProcessExits(w) PROVE Frame
  BY <1>10 DEF Respond, ProcessExits, callVars, poolVars
<1>11. ASSUME UNCHANGED vars PROVE Frame
  BY <1>11 DEF vars
<1>12. Frame => StepsLeft(r)' = StepsLeft(r)
  BY StepsKept
<1> HIDE DEF Frame
<1>13. CallStep(r) \/ Enter(r) => Lower(r)
  BY <1>1, <1>2, <1>3, <1>4, <1>5, <1>6, <1>7, <1>8, <1>f DEF CallStep, Retries, Ends
<1>14. Lower(r) \/ Frame
  BY <1>1, <1>2, <1>3, <1>4, <1>5, <1>6, <1>7, <1>8, <1>f, <1>t, <1>9, <1>10, <1>11, NextCases
<1> QED BY <1>12, <1>13, <1>14

\* A call takes at most max_retries + 1 times as many steps as it takes to
\* start pool_size processes, borrow one, write, drain, read and replace it.  Each of
\* its steps lowers what is left and neither another call nor a process that
\* dies raises it: while it holds the pool lock nobody takes processes away
\* (_render_request, _borrow_worker, _replace_worker).
THEOREM CallsRunOutOfSteps == PoolSpec => CallsRunOut
<1>1. PoolInv /\ HolderInv /\ [PoolNext]_vars =>
        [\A r \in Requests : /\ StepsLeft(r)' <= StepsLeft(r)
                             /\ CallStep(r) => StepsLeft(r)' < StepsLeft(r)]_vars
  <2> SUFFICES ASSUME PoolInv, HolderInv, [PoolNext]_vars, NEW r \in Requests
               PROVE  /\ StepsLeft(r)' <= StepsLeft(r)
                      /\ CallStep(r) => StepsLeft(r)' < StepsLeft(r)
    OBVIOUS
  <2>1. StepsLeft(r) \in Nat
    <3> DEFINE m == MaxRetries - attempt[r]
               k == 2 * PoolSize + 7
    <3>1. /\ Stage(r) \in Nat /\ PoolSize \in Nat /\ attempt[r] \in 0..MaxRetries
          /\ MaxRetries \in Nat
      BY StageType
    <3>2. m \in Nat /\ k \in Nat
      BY <3>1
    <3>3. StepsLeft(r) = IF phase[r] \in Finished THEN 0 ELSE m * k + Stage(r)
      BY DEF StepsLeft
    <3> HIDE DEF m, k
    <3>4. m * k \in Nat
      BY <3>2, Product
    <3> QED BY <3>1, <3>3, <3>4
  <2> QED BY <2>1, StepsStep DEF Lower
<1>2. PoolSpec => PoolInit /\ [][PoolNext]_vars
  BY PTL DEF PoolSpec
<1> QED BY <1>1, <1>2, PoolInvariant, HolderInvariant, PTL DEF CallsRunOut

=============================================================================
