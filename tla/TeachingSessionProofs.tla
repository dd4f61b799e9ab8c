------------------------ MODULE TeachingSessionProofs ------------------------
(***************************************************************************)
(* Proofs about TeachingSession.                                           *)
(***************************************************************************)
EXTENDS TeachingSession, FiniteSetTheorems, WellFoundedInduction, TLAPS

-----------------------------------------------------------------------------
(* The inductive invariant.                                                *)

Tallies(R) == {e \in R : e.kind = "tally"}

\* Rows have their own numbers and there are finitely many.
LogOK ==
  /\ IsFiniteSet(log)
  /\ \A e, f \in log : e.sequence = f.sequence => e = f

\* What the row e of an open transaction, which holds the lock, says.
NewRow(w, e) ==
  /\ \A f \in log : f.sequence < e.sequence
  /\ e.kind = "pin" => e.value = seenHead[w]
  /\ e.kind = "tally" => /\ e.value = attempts + 1
                         /\ \A f \in log : f.key # e.key
                         /\ e.key \in Keys

\* The events a read model refers to.
Refers(m, R) == {m.slide, m.branch, m.last} \subseteq {0} \cup NumbersOf(R)

\* What each request has in hand.
RequestOK(w) ==
  /\ pc[w] \in {"checked", "open"} => lock = w
  /\ pc[w] \in {"idle", "republish", "checked"} => row[w] = {}
  /\ pc[w] = "checked" => key[w] \in Keys /\ \A f \in log : f.key # key[w]
  /\ pc[w] = "open" => /\ \E e \in row[w] : row[w] = {e} /\ NewRow(w, e)
                       /\ Refers(model[w], log \cup row[w])
  /\ pc[w] \in {"committed", "hot"} => /\ \E e \in row[w] : row[w] = {e} /\ e \in log
                                       /\ Refers(model[w], log)

RequestsOK == \A w \in Requests : RequestOK(w)

\* What is on its way to a client, and what it has.
InboxOK == \A c \in Clients : \A i \in DOMAIN inbox[c] : inbox[c][i] \in NumbersOf(log)
LastOK == \A c \in Clients : \A i \in DOMAIN received[c] : received[c][i] <= last[c]

SessionInv ==
  /\ SessionTypeOK /\ LogOK /\ RequestsOK /\ InboxOK /\ LastOK
  /\ CountedOnce /\ PinAnnounced /\ OnlyCommittedShown /\ StreamInOrder

-----------------------------------------------------------------------------
(* The greatest number of a set, and of the rows of some kinds.            *)

LEMMA GreatestExists ==
  ASSUME NEW m \in Nat, NEW S, S \subseteq 0..m, S # {}
  PROVE  \E n \in S : \A k \in S : k <= n
<1> DEFINE T == {m - n : n \in S}
           R == OpToRel(<, Nat)
<1>1. T \subseteq Nat /\ T # {}
  <2>1. PICK n \in S : TRUE
    OBVIOUS
  <2>2. m - n \in T
    OBVIOUS
  <2>3. \A k \in 0..m : m - k \in Nat
    OBVIOUS
  <2> QED BY <2>2, <2>3
<1>2. IsWellFoundedOn(R, Nat)
  BY NatLessThanWellFounded
<1>3. \A x, y \in Nat : <<x, y>> \in R <=> x < y
  BY DEF OpToRel
<1> HIDE DEF R, T
<1>4. PICK x \in T : \A y \in T : ~(<<y, x>> \in R)
  BY <1>1, <1>2, WFMin
<1>5. \A y \in T : ~(y < x)
  BY <1>1, <1>3, <1>4
<1>6. PICK n \in S : x = m - n
  BY <1>4 DEF T
<1>7. ASSUME NEW k \in S PROVE k <= n
  <2>1. m - k \in T
    BY DEF T
  <2> QED BY <1>5, <1>6, <2>1
<1> QED BY <1>7

LEMMA LatestFacts ==
  ASSUME NEW R \in SUBSET Rows, NEW K
  PROVE  /\ LatestOf(R, K) \in 0..MaxSeq
         /\ LatestOf(R, K) = 0 \/ \E e \in R : e.kind \in K /\ e.sequence = LatestOf(R, K)
         /\ \A e \in R : e.kind \in K => e.sequence <= LatestOf(R, K)
<1> DEFINE N == NumbersOf({e \in R : e.kind \in K})
<1>0. MaxSeq \in Nat
  BY SessionAssumption DEF SessionAssumption
<1>1. N \subseteq 1..MaxSeq /\ N \subseteq 0..MaxSeq
  BY <1>0 DEF NumbersOf, Rows, Numbers
<1>2. \A e \in R : e.kind \in K => e.sequence \in N
  BY DEF NumbersOf
<1>3. \A n \in N : \E e \in R : e.kind \in K /\ e.sequence = n
  BY DEF NumbersOf
<1>4. LatestOf(R, K) = IF N = {} THEN 0 ELSE CHOOSE n \in N : \A m \in N : m <= n
  BY DEF LatestOf
<1> HIDE DEF N
<1>5. CASE N = {}
  BY <1>0, <1>2, <1>4, <1>5
<1>6. CASE N # {}
  <2>1. \E n \in N : \A m \in N : m <= n
    BY <1>0, <1>1, <1>6, GreatestExists
  <2>2. LatestOf(R, K) \in N /\ \A m \in N : m <= LatestOf(R, K)
    BY <1>4, <1>6, <2>1
  <2> QED BY <1>1, <1>2, <1>3, <2>2
<1> QED BY <1>5, <1>6

\* The latest row is known by its place.
LEMMA LatestIs ==
  ASSUME NEW R \in SUBSET Rows, NEW K, NEW e \in R, e.kind \in K,
         \A f \in R : f.kind \in K => f.sequence <= e.sequence
  PROVE  LatestOf(R, K) = e.sequence
<1>1. \A f \in R : f.sequence \in Nat /\ f.sequence >= 1
  BY DEF Rows, Numbers
<1>2. MaxSeq \in Nat
  BY SessionAssumption DEF SessionAssumption
<1>3. /\ LatestOf(R, K) \in 0..MaxSeq /\ e.sequence <= LatestOf(R, K)
      /\ LatestOf(R, K) = 0 \/ \E f \in R : f.kind \in K /\ f.sequence = LatestOf(R, K)
  BY LatestFacts
<1> QED BY <1>1, <1>2, <1>3

\* The greatest number of a set, 0 if it is empty.
Greatest(N) == IF N = {} THEN 0 ELSE CHOOSE n \in N : \A m \in N : m <= n

LEMMA LatestGreatest ==
  ASSUME NEW R, NEW K
  PROVE  LatestOf(R, K) = Greatest(NumbersOf({e \in R : e.kind \in K}))
BY DEF LatestOf, Greatest

\* A row of another kind does not change it.
LEMMA LatestOther ==
  ASSUME NEW R, NEW K, NEW e, e.kind \notin K
  PROVE  LatestOf(R \cup {e}, K) = LatestOf(R, K)
<1>1. {f \in R \cup {e} : f.kind \in K} = {f \in R : f.kind \in K}
  OBVIOUS
<1>2. /\ LatestOf(R, K) = Greatest(NumbersOf({f \in R : f.kind \in K}))
      /\ LatestOf(R \cup {e}, K) = Greatest(NumbersOf({f \in R \cup {e} : f.kind \in K}))
  BY LatestGreatest
<1> QED BY <1>1, <1>2

-----------------------------------------------------------------------------
(* Read models.                                                            *)

LEMMA Constant ==
  /\ MaxSeq \in Nat /\ RecoveryLimit \in Nat \ {0} /\ NoRequest \notin Requests
  /\ NoKey \notin Keys /\ 1 \in Snapshots /\ Snapshots \subseteq Nat
BY SessionAssumption DEF SessionAssumption

LEMMA LatestRefers ==
  ASSUME NEW R \in SUBSET Rows, NEW K
  PROVE  LatestOf(R, K) \in {0} \cup NumbersOf(R)
BY LatestFacts DEF NumbersOf

LEMMA RecoverFacts ==
  ASSUME NEW R \in SUBSET Rows
  PROVE  RecoverReadModel(R) \in Models /\ Refers(RecoverReadModel(R), R)
<1>0. Recent(R) \in SUBSET Rows /\ Recent(R) \subseteq R
  BY DEF Recent
<1>1. \A K : /\ LatestOf(Recent(R), K) \in 0..MaxSeq /\ LatestOf(R, K) \in 0..MaxSeq
             /\ LatestOf(Recent(R), K) \in {0} \cup NumbersOf(R)
             /\ LatestOf(R, K) \in {0} \cup NumbersOf(R)
  BY <1>0, LatestFacts, LatestRefers DEF NumbersOf
<1> DEFINE n == LatestOf(Recent(R), {"tally"})
           t == IF n = 0 THEN 0 ELSE (CHOOSE e \in R : e.sequence = n).value
<1>2. t \in Nat
  <2>1. CASE n = 0
    BY <2>1
  <2>2. CASE n # 0
    <3>1. \E e \in R : e.sequence = n
      BY <1>1, <2>2 DEF NumbersOf
    <3>2. (CHOOSE e \in R : e.sequence = n) \in R
      BY <3>1
    <3> QED BY <2>2, <3>2 DEF Rows
  <2> QED BY <2>1, <2>2
<1> DEFINE m == RecoverReadModel(R)
<1>3. m = [slide |-> LatestOf(Recent(R), {"slide", "branch"}),
           branch |-> LatestOf(Recent(R), {"branch"}), tally |-> t,
           last |-> LatestOf(R, Kinds)]
  BY DEF RecoverReadModel
<1> HIDE DEF t, n, m
<1>4. m \in Models
  BY <1>1, <1>2, <1>3 DEF Models
<1>5. Refers(m, R)
  BY <1>1, <1>3 DEF Refers
<1> QED BY <1>4, <1>5 DEF m

LEMMA ApplyFacts ==
  ASSUME NEW m \in Models, NEW e \in Rows, NEW R, e \in R, Refers(m, R)
  PROVE  ApplyEvent(m, e) \in Models /\ Refers(ApplyEvent(m, e), R)
<1>1. e.sequence \in 0..MaxSeq /\ e.value \in Nat /\ e.sequence \in NumbersOf(R)
  BY Constant DEF Rows, Numbers, NumbersOf
<1>2. /\ m.slide \in 0..MaxSeq /\ m.branch \in 0..MaxSeq /\ m.tally \in Nat
      /\ m.last \in 0..MaxSeq
  BY DEF Models
<1>3. ApplyEvent(m, e) \in Models
  BY <1>1, <1>2 DEF ApplyEvent, Models
<1>4. Refers(ApplyEvent(m, e), R)
  BY <1>1 DEF ApplyEvent, Refers
<1> QED BY <1>3, <1>4

LEMMA CurrentFacts ==
  ASSUME SessionTypeOK, NEW R \in SUBSET Rows, \A m \in hot : Refers(m, R), NEW failed
  PROVE  CurrentState(R, failed) \in Models /\ Refers(CurrentState(R, failed), R)
<1>1. CASE hot = {} \/ failed
  BY <1>1, RecoverFacts DEF CurrentState
<1>2. CASE ~(hot = {} \/ failed)
  <2>1. CurrentState(R, failed) \in hot
    BY <1>2 DEF CurrentState
  <2> QED BY <2>1 DEF SessionTypeOK
<1> QED BY <1>1, <1>2

\* A read model refers to the rows of a longer log as well.
LEMMA RefersMore ==
  ASSUME NEW m, NEW R, NEW S, R \subseteq S, Refers(m, R)
  PROVE  Refers(m, S)
BY DEF Refers, NumbersOf

-----------------------------------------------------------------------------
(* Recording an event.                                                     *)

\* What record_event leaves behind: the row e and its read model, the lock.
Recorded(w, e) ==
  /\ LockFree(w) /\ lock' = w
  /\ row' = [row EXCEPT ![w] = {e}]
  /\ \A f \in log : f.sequence < e.sequence
  /\ \E m \in Models : /\ model' = [model EXCEPT ![w] = m]
                       /\ Refers(m, log \cup {e})
  /\ pc' = [pc EXCEPT ![w] = "open"]
  /\ UNCHANGED <<tableVars, hot, streamVars, key, seenHead>>
  /\ faults' \in Nat

LEMMA FaultType ==
  ASSUME faults \in Nat, NEW failed, MayFail(failed)
  PROVE  faults' \in Nat
BY DEF MayFail

LEMMA RecordFacts ==
  ASSUME SessionTypeOK, \A m \in hot : Refers(m, log), NEW w \in Requests,
         NEW kind \in Kinds, NEW k \in Keys \cup {NoKey}, NEW value \in Nat,
         RecordEvent(w, kind, k, value), UNCHANGED <<key, seenHead>>
  PROVE  \E e \in Rows : /\ e.kind = kind /\ e.key = k /\ e.value = value
                         /\ Recorded(w, e)
<1> DEFINE n == LatestOf(log, Kinds) + 1
           e == [sequence |-> n, kind |-> kind, key |-> k, value |-> value]
<1>1. /\ n \in Numbers /\ LockFree(w) /\ lock' = w
      /\ row' = [row EXCEPT ![w] = {e}]
      /\ pc' = [pc EXCEPT ![w] = "open"]
      /\ UNCHANGED <<tableVars, hot, streamVars>>
  BY DEF RecordEvent
<1>2. PICK failed \in BOOLEAN :
        /\ MayFail(failed)
        /\ model' = [model EXCEPT ![w] = ApplyEvent(CurrentState(log \cup {e}, failed), e)]
  BY DEF RecordEvent
<1>3. log \in SUBSET Rows
  BY DEF SessionTypeOK
<1>4. \A f \in log : f.sequence < n
  <2>1. \A f \in log : f.sequence <= LatestOf(log, Kinds) /\ f.sequence \in Nat
    BY <1>3, LatestFacts DEF Rows, Numbers
  <2>2. LatestOf(log, Kinds) \in Nat
    BY <1>3, LatestFacts, Constant
  <2> QED BY <2>1, <2>2
<1>5. e.sequence = n /\ e.kind = kind /\ e.key = k /\ e.value = value /\ e \in Rows
  BY <1>1 DEF Rows
<1> HIDE DEF e, n
<1>6. log \cup {e} \in SUBSET Rows
  BY <1>3, <1>5
<1>7. \A m \in hot : Refers(m, log \cup {e})
  BY RefersMore
<1>8. /\ CurrentState(log \cup {e}, failed) \in Models
      /\ Refers(CurrentState(log \cup {e}, failed), log \cup {e})
  BY <1>6, <1>7, CurrentFacts
<1> DEFINE m == ApplyEvent(CurrentState(log \cup {e}, failed), e)
<1>9. m \in Models /\ Refers(m, log \cup {e})
  BY <1>5, <1>8, ApplyFacts
<1>10. model' = [model EXCEPT ![w] = m]
  BY <1>2
<1> HIDE DEF m
<1>11. faults' \in Nat
  BY <1>2, FaultType DEF SessionTypeOK
<1>12. Recorded(w, e)
  BY <1>1, <1>4, <1>5, <1>9, <1>10, <1>11 DEF Recorded
<1> QED BY <1>5, <1>12

\* What each recording action records.
LEMMA RecordSteps ==
  ASSUME SessionTypeOK, RequestsOK, OnlyCommittedShown, NEW w \in Requests,
         \/ Navigate(w, "slide") \/ Navigate(w, "branch")
         \/ SubmitRecord(w) \/ RepublishRecord(w)
  PROVE  \E e \in Rows : Recorded(w, e) /\ NewRow(w, e)
<1>a. \A m \in hot : Refers(m, log)
  BY DEF OnlyCommittedShown, Refers
<1>b. {"slide", "branch", "tally", "pin"} \subseteq Kinds
  BY DEF Kinds
<1>c. attempts \in Nat /\ attempts + 1 \in Nat
  BY DEF SessionTypeOK
<1>d. seenHead[w] \in Nat
  <2>1. seenHead[w] \in Snapshots
    BY DEF SessionTypeOK
  <2> QED BY <2>1, Constant
<1>0. /\ \A m \in hot : Refers(m, log)
      /\ {"slide", "branch", "tally", "pin"} \subseteq Kinds
      /\ attempts \in Nat /\ attempts + 1 \in Nat /\ seenHead[w] \in Nat
  BY <1>a, <1>b, <1>c, <1>d
<1>1. ASSUME NEW kind \in {"slide", "branch"}, Navigate(w, kind)
      PROVE  \E e \in Rows : Recorded(w, e) /\ NewRow(w, e)
  <2>1. PICK e \in Rows : e.kind = kind /\ Recorded(w, e)
    BY <1>0, <1>1, RecordFacts DEF Navigate, Kinds
  <2> QED BY <2>1 DEF NewRow, Recorded
<1>2. CASE SubmitRecord(w)
  <2>1. key[w] \in Keys /\ \A f \in log : f.key # key[w]
    BY <1>2 DEF SubmitRecord, RequestsOK, RequestOK
  <2>2. PICK e \in Rows : /\ e.kind = "tally" /\ e.key = key[w] /\ e.value = attempts + 1
                          /\ Recorded(w, e)
    BY <1>0, <1>2, <2>1, RecordFacts DEF SubmitRecord
  <2> QED BY <2>1, <2>2 DEF NewRow, Recorded
<1>3. CASE RepublishRecord(w)
  <2>1. PICK e \in Rows : e.kind = "pin" /\ e.value = seenHead[w] /\ Recorded(w, e)
    BY <1>0, <1>3, RecordFacts DEF RepublishRecord
  <2> QED BY <2>1 DEF NewRow, Recorded
<1> QED BY <1>1, <1>2, <1>3

-----------------------------------------------------------------------------
(* Types.                                                                  *)

TableTypes ==
  /\ log \in SUBSET Rows
  /\ attempts \in Nat
  /\ pin \in Snapshots /\ head \in Snapshots

RequestTypes ==
  /\ lock \in Requests \cup {NoRequest}
  /\ pc \in [Requests -> {"idle", "checked", "republish", "open", "committed", "hot"}]
  /\ key \in [Requests -> Keys \cup {NoKey}]
  /\ seenHead \in [Requests -> Snapshots]
  /\ row \in [Requests -> SUBSET Rows]
  /\ model \in [Requests -> Models]

StreamTypes ==
  /\ stream \in [Clients -> {"off", "replay", "subscribe", "live", "poll", "polled"}]
  /\ last \in [Clients -> 0..MaxSeq]
  /\ upto \in [Clients -> 0..MaxSeq]
  /\ inbox \in [Clients -> Seq(Numbers)]
  /\ received \in [Clients -> Seq(Numbers)]

LEMMA TypeParts ==
  SessionTypeOK <=>
    TableTypes /\ RequestTypes /\ StreamTypes /\ hot \in SUBSET Models /\ faults \in Nat
BY DEF SessionTypeOK, TableTypes, RequestTypes, StreamTypes

LEMMA TypePartsNext ==
  ASSUME TableTypes', RequestTypes', StreamTypes', hot' \in SUBSET Models, faults' \in Nat
  PROVE  SessionTypeOK'
BY DEF SessionTypeOK, TableTypes, RequestTypes, StreamTypes

LEMMA SameTables ==
  ASSUME TableTypes, UNCHANGED tableVars
  PROVE  TableTypes'
BY DEF TableTypes, tableVars

LEMMA SameRequests ==
  ASSUME RequestTypes, UNCHANGED requestVars
  PROVE  RequestTypes'
BY DEF RequestTypes, requestVars

LEMMA SameStreams ==
  ASSUME StreamTypes, UNCHANGED streamVars
  PROVE  StreamTypes'
BY DEF StreamTypes, streamVars

LEMMA EmptyModelType == EmptyModel \in Models
BY Constant DEF EmptyModel, Models

LEMMA TypeInit == SessionInit => SessionTypeOK
<1> SUFFICES ASSUME SessionInit PROVE SessionTypeOK
  OBVIOUS
<1> USE Constant
<1>1. TableTypes
  BY DEF SessionInit, TableTypes
<1>2. RequestTypes
  BY EmptyModelType DEF SessionInit, RequestTypes
<1>3. StreamTypes
  <2>1. << >> \in Seq(Numbers)
    OBVIOUS
  <2> QED BY <2>1 DEF SessionInit, StreamTypes
<1>4. hot \in SUBSET Models /\ faults \in Nat
  BY DEF SessionInit
<1> QED BY <1>1, <1>2, <1>3, <1>4, TypeParts

LEMMA EndTypes ==
  ASSUME RequestTypes, NEW w \in Requests, EndRequest(w)
  PROVE  RequestTypes'
<1> USE DEF RequestTypes, EndRequest
<1>1. model' \in [Requests -> Models]
  BY EmptyModelType
<1>2. /\ lock' \in Requests \cup {NoRequest}
      /\ pc' \in [Requests -> {"idle", "checked", "republish", "open", "committed", "hot"}]
      /\ key' \in [Requests -> Keys \cup {NoKey}]
      /\ row' \in [Requests -> SUBSET Rows]
  OBVIOUS
<1>3. seenHead' \in [Requests -> Snapshots]
  BY Constant
<1> QED BY <1>1, <1>2, <1>3

LEMMA RequestStepTypes ==
  ASSUME SessionTypeOK, RequestsOK, OnlyCommittedShown, NEW w \in Requests, RequestStep(w)
  PROVE  SessionTypeOK'
<1>0. TableTypes /\ RequestTypes /\ StreamTypes /\ hot \in SUBSET Models /\ faults \in Nat
  BY TypeParts
<1>f. \A failed : MayFail(failed) => faults' \in Nat
  BY <1>0, FaultType
<1>1. ASSUME NEW e \in Rows, Recorded(w, e) PROVE SessionTypeOK'
  <2>1. PICK m \in Models : model' = [model EXCEPT ![w] = m]
    BY <1>1 DEF Recorded
  <2>2. RequestTypes'
    BY <1>0, <1>1, <2>1 DEF RequestTypes, Recorded
  <2>3. TableTypes' /\ StreamTypes'
    BY <1>0, <1>1, SameTables, SameStreams DEF Recorded
  <2> QED BY <1>0, <1>1, <2>2, <2>3, TypePartsNext DEF Recorded
<1>2. ASSUME EndRequest(w), UNCHANGED <<tableVars, hot, streamVars>>, faults' \in Nat
      PROVE  SessionTypeOK'
  BY <1>0, <1>2, EndTypes, SameTables, SameStreams, TypePartsNext
<1>3. ASSUME NEW k \in Keys, SubmitCheck(w, k) PROVE SessionTypeOK'
  <2>1. RequestTypes'
    BY <1>0, <1>3 DEF RequestTypes, SubmitCheck, LockForCheck
  <2>2. UNCHANGED <<tableVars, hot, streamVars, faults>>
    BY <1>3 DEF SubmitCheck
  <2> QED BY <1>0, <2>1, <2>2, SameTables, SameStreams, TypePartsNext
<1>4. CASE RepublishRead(w)
  <2>1. RequestTypes'
    BY <1>0, <1>4 DEF TableTypes, RequestTypes, RepublishRead
  <2>2. UNCHANGED <<tableVars, hot, streamVars, faults>>
    BY <1>4 DEF RepublishRead
  <2> QED BY <1>0, <2>1, <2>2, SameTables, SameStreams, TypePartsNext
<1>5. CASE Commit(w)
  <2>1. PICK e \in row[w] : row[w] = {e}
    BY <1>5 DEF Commit, RequestsOK, RequestOK
  <2>2. e \in Rows /\ (CHOOSE f \in row[w] : TRUE) = e
    BY <1>0, <2>1 DEF RequestTypes
  <2>3. AttemptsAfter(w) \in Nat /\ PinAfter(w) \in Snapshots
    BY <1>0, <2>2 DEF AttemptsAfter, PinAfter, Rows, RequestTypes, TableTypes
  <2>4. TableTypes'
    BY <1>0, <1>5, <2>3 DEF Commit, TableTypes, RequestTypes
  <2>5. RequestTypes'
    BY <1>0, <1>5 DEF Commit, RequestTypes
  <2>6. UNCHANGED <<hot, streamVars, faults>>
    BY <1>5 DEF Commit
  <2> QED BY <1>0, <2>4, <2>5, <2>6, SameStreams, TypePartsNext
<1>6. CASE SetHot(w)
  <2>1. RequestTypes' /\ hot' \in SUBSET Models
    BY <1>0, <1>6 DEF SetHot, RequestTypes
  <2>2. UNCHANGED <<tableVars, streamVars>> /\ faults' \in Nat
    BY <1>f, <1>6 DEF SetHot
  <2> QED BY <1>0, <2>1, <2>2, SameTables, SameStreams, TypePartsNext
<1>7. CASE PublishEvent(w)
  <2>1. PICK e \in row[w] : row[w] = {e}
    BY <1>7 DEF PublishEvent, RequestsOK, RequestOK
  <2>2. (CHOOSE f \in row[w] : TRUE).sequence \in Numbers
    BY <1>0, <2>1 DEF RequestTypes, Rows
  <2>3. inbox' \in [Clients -> Seq(Numbers)] /\ faults' \in Nat
    <3>1. PICK failed \in BOOLEAN :
            /\ MayFail(failed)
            /\ inbox' = [c \in Clients |->
                 IF failed \/ stream[c] # "live" THEN inbox[c]
                 ELSE Append(inbox[c], (CHOOSE f \in row[w] : TRUE).sequence)]
      BY <1>7 DEF PublishEvent
    <3>2. \A c \in Clients :
            Append(inbox[c], (CHOOSE f \in row[w] : TRUE).sequence) \in Seq(Numbers)
      BY <1>0, <2>2 DEF StreamTypes
    <3> QED BY <1>0, <1>f, <3>1, <3>2 DEF StreamTypes
  <2>4. StreamTypes'
    BY <1>0, <1>7, <2>3 DEF PublishEvent, StreamTypes
  <2>5. RequestTypes'
    BY <1>0, <1>7, EndTypes DEF PublishEvent
  <2>6. UNCHANGED <<tableVars, hot>>
    BY <1>7 DEF PublishEvent
  <2> QED BY <1>0, <2>3, <2>4, <2>5, <2>6, SameTables, TypePartsNext
<1>8. CASE \/ Navigate(w, "slide") \/ Navigate(w, "branch")
           \/ SubmitRecord(w) \/ RepublishRecord(w)
  BY <1>1, <1>8, RecordSteps
<1> QED
  BY <1>0, <1>f, <1>2, <1>3, <1>4, <1>5, <1>6, <1>7, <1>8
  DEF RequestStep, FinishStep, SubmitReject, RequestDies

LEMMA ClientTypes ==
  ASSUME SessionTypeOK, NEW c \in Clients, StreamStep(c) \/ RedisLost(c) \/ Disconnect(c)
  PROVE  SessionTypeOK'
<1>0. TableTypes /\ RequestTypes /\ StreamTypes /\ hot \in SUBSET Models /\ faults \in Nat
  BY TypeParts
<1>1. ASSUME StreamTypes', UNCHANGED <<tableVars, requestVars, hot>>, faults' \in Nat
      PROVE  SessionTypeOK'
  BY <1>0, <1>1, SameTables, SameRequests, TypePartsNext
<1>f. \A failed : MayFail(failed) => faults' \in Nat
  BY <1>0, FaultType
<1>l. LatestOf(log, Kinds) \in 0..MaxSeq /\ << >> \in Seq(Numbers)
  BY <1>0, LatestFacts DEF TableTypes
<1>2. CASE Connect(c)
  <2>1. LastEventId(c) \in 0..MaxSeq
    BY <1>0, Constant DEF LastEventId, StreamTypes, Numbers
  <2>2. StreamTypes'
    BY <1>0, <1>l, <1>2, <2>1 DEF Connect, StreamTypes
  <2> QED BY <1>0, <1>1, <1>2, <2>2 DEF Connect
<1>3. ASSUME NEW n \in Numbers, Yield(c, n), UNCHANGED <<stream, upto>>,
             inbox' \in [Clients -> Seq(Numbers)]
      PROVE  StreamTypes'
  <2>1. Append(received[c], n) \in Seq(Numbers)
    BY <1>0 DEF StreamTypes
  <2>2. received' \in [Clients -> Seq(Numbers)]
    BY <1>0, <1>3, <2>1 DEF StreamTypes, Yield
  <2>3. last' \in [Clients -> 0..MaxSeq]
    BY <1>0, <1>3, Constant DEF StreamTypes, Yield, Numbers
  <2> QED BY <1>0, <1>3, <2>2, <2>3 DEF StreamTypes
<1>4. CASE YieldRow(c)
  <2>1. PICK n \in NumbersOf(log) : Yield(c, n)
    BY <1>4 DEF YieldRow
  <2>2. n \in Numbers
    BY <1>0, <2>1 DEF NumbersOf, TableTypes, Rows
  <2>3. UNCHANGED <<stream, upto, inbox>> /\ UNCHANGED <<tableVars, requestVars, hot>>
        /\ faults' = faults
    BY <1>4 DEF YieldRow
  <2>4. StreamTypes'
    BY <1>0, <1>3, <2>1, <2>2, <2>3 DEF StreamTypes
  <2> QED BY <1>0, <1>1, <2>3, <2>4
<1>5. CASE Relay(c)
  <2> DEFINE n == Head(inbox[c])
  <2>1. n \in Numbers /\ Tail(inbox[c]) \in Seq(Numbers)
    BY <1>0, <1>5 DEF Relay, StreamTypes
  <2>2. inbox' \in [Clients -> Seq(Numbers)]
    BY <1>0, <1>5, <2>1 DEF Relay, StreamTypes
  <2>3. /\ UNCHANGED <<stream, upto, faults>> /\ UNCHANGED <<tableVars, requestVars, hot>>
        /\ UNCHANGED <<last, received>> \/ Yield(c, n)
    BY <1>5 DEF Relay
  <2> HIDE DEF n
  <2>4. StreamTypes'
    BY <1>0, <1>3, <2>1, <2>2, <2>3 DEF StreamTypes
  <2> QED BY <1>0, <1>1, <2>3, <2>4
<1>6. CASE Subscribe(c)
  <2>1. StreamTypes'
    BY <1>0, <1>l, <1>6 DEF Subscribe, StreamTypes
  <2> QED BY <1>1, <1>f, <1>6, <2>1 DEF Subscribe
<1>7. CASE RedisLost(c) \/ Disconnect(c)
  <2>1. StreamTypes'
    BY <1>0, <1>l, <1>7 DEF RedisLost, Disconnect, StreamTypes
  <2> QED BY <1>1, <1>f, <1>7, <2>1 DEF RedisLost, Disconnect
<1>8. CASE Poll(c) \/ PollAgain(c)
  <2>1. StreamTypes'
    BY <1>0, <1>l, <1>8 DEF Poll, PollAgain, StreamTypes
  <2> QED BY <1>0, <1>1, <1>8, <2>1 DEF Poll, PollAgain
<1> QED BY <1>2, <1>4, <1>5, <1>6, <1>7, <1>8 DEF StreamStep

LEMMA TypeStep ==
  ASSUME SessionTypeOK, RequestsOK, OnlyCommittedShown, [SessionNext]_vars
  PROVE  SessionTypeOK'
<1>0. TableTypes /\ RequestTypes /\ StreamTypes /\ hot \in SUBSET Models /\ faults \in Nat
  BY TypeParts
<1>1. CASE ApproveHead
  <2>1. TableTypes'
    BY <1>0, <1>1 DEF TableTypes, ApproveHead
  <2> QED
    BY <1>0, <1>1, <2>1, SameRequests, SameStreams, TypePartsNext DEF ApproveHead
<1>2. CASE HotExpires
  <2>1. faults' \in Nat
    BY <1>0, <1>2, FaultType DEF HotExpires
  <2> QED
    BY <1>0, <1>2, <2>1, SameTables, SameRequests, SameStreams, TypePartsNext DEF HotExpires
<1>3. CASE UNCHANGED vars
  BY <1>0, <1>3, SameTables, SameRequests, SameStreams, TypePartsNext DEF vars
<1> QED BY <1>1, <1>2, <1>3, RequestStepTypes, ClientTypes DEF SessionNext

-----------------------------------------------------------------------------
(* The requests.                                                           *)

\* What a step of w leaves to another request.
Others(w, v) ==
  /\ pc'[v] = pc[v] /\ key'[v] = key[v] /\ seenHead'[v] = seenHead[v]
  /\ row'[v] = row[v] /\ model'[v] = model[v]
  /\ lock = v => lock' = v

LEMMA OthersKept ==
  ASSUME SessionTypeOK, RequestsOK, OnlyCommittedShown,
         NEW w \in Requests, RequestStep(w), NEW v \in Requests, v # w
  PROVE  Others(w, v)
<1>0. RequestTypes
  BY TypeParts
<1>1. ASSUME NEW e \in Rows, Recorded(w, e) PROVE Others(w, v)
  BY <1>0, <1>1, Constant DEF Recorded, RequestTypes, Others, LockFree
<1>2. ASSUME EndRequest(w) PROVE Others(w, v)
  BY <1>0, <1>2 DEF EndRequest, RequestTypes, Others
<1>3. CASE \/ Navigate(w, "slide") \/ Navigate(w, "branch")
           \/ SubmitRecord(w) \/ RepublishRecord(w)
  BY <1>1, <1>3, RecordSteps
<1>4. ASSUME NEW k \in Keys, SubmitCheck(w, k) PROVE Others(w, v)
  BY <1>0, <1>4, Constant DEF SubmitCheck, LockForCheck, LockFree, RequestTypes, Others
<1>5. CASE RepublishRead(w)
  BY <1>0, <1>5 DEF RepublishRead, RequestTypes, Others
<1>6. CASE Commit(w)
  <2>1. lock = w
    BY <1>6 DEF Commit, RequestsOK, RequestOK
  <2> QED BY <1>0, <1>6, <2>1 DEF Commit, RequestTypes, Others
<1>7. CASE SetHot(w)
  BY <1>0, <1>7 DEF SetHot, RequestTypes, Others
<1>8. CASE PublishEvent(w) \/ SubmitReject(w) \/ RequestDies(w)
  BY <1>2, <1>8 DEF PublishEvent, SubmitReject, RequestDies
<1> QED BY <1>3, <1>4, <1>5, <1>6, <1>7, <1>8 DEF RequestStep, FinishStep

\* Only a commit changes what the transactions read, and it grows the log.
LEMMA TablesChange ==
  ASSUME [SessionNext]_vars
  PROVE  UNCHANGED <<log, attempts, pin>> \/ \E w \in Requests : Commit(w)
<1>1. ASSUME NEW w \in Requests, RequestStep(w), ~Commit(w)
      PROVE  UNCHANGED <<log, attempts, pin>>
  BY <1>1 DEF RequestStep, FinishStep, Navigate, RecordEvent, SubmitCheck, SubmitRecord,
     SubmitReject, RepublishRead, RepublishRecord, SetHot, PublishEvent, RequestDies,
     tableVars
<1>2. ASSUME NEW c \in Clients, StreamStep(c) \/ RedisLost(c) \/ Disconnect(c)
      PROVE  UNCHANGED <<log, attempts, pin>>
  BY <1>2 DEF StreamStep, Connect, YieldRow, Subscribe, Relay, Poll, PollAgain, RedisLost,
     Disconnect, tableVars
<1>3. CASE ApproveHead \/ HotExpires \/ UNCHANGED vars
  BY <1>3 DEF ApproveHead, HotExpires, vars, tableVars
<1> QED BY <1>1, <1>2, <1>3 DEF SessionNext

LEMMA LogGrows ==
  ASSUME [SessionNext]_vars
  PROVE  log \subseteq log' /\ NumbersOf(log) \subseteq NumbersOf(log')
<1>1. log \subseteq log'
  BY TablesChange DEF Commit
<1> QED BY <1>1 DEF NumbersOf

\* A request keeps what it has in hand unless it moves itself.
LEMMA RequestKept ==
  ASSUME NEW v \in Requests, RequestOK(v), log \subseteq log',
         pc'[v] = pc[v], key'[v] = key[v], seenHead'[v] = seenHead[v],
         row'[v] = row[v], model'[v] = model[v], lock = v => lock' = v,
         pc[v] \in {"checked", "open"} => log' = log /\ attempts' = attempts
  PROVE  RequestOK(v)'
<1>1. Refers(model[v], log) => Refers(model[v], log')
  BY RefersMore
<1>2. CASE pc[v] \in {"checked", "open"}
  BY <1>2 DEF RequestOK, NewRow
<1>3. CASE pc[v] \notin {"checked", "open"}
  BY <1>1, <1>3 DEF RequestOK
<1> QED BY <1>2, <1>3

LEMMA RequestMoves ==
  ASSUME SessionTypeOK, RequestsOK, OnlyCommittedShown, NEW w \in Requests, RequestStep(w)
  PROVE  RequestOK(w)'
<1>0. RequestTypes /\ RequestOK(w)
  BY TypeParts DEF RequestsOK
<1>1. ASSUME NEW e \in Rows, Recorded(w, e), NewRow(w, e) PROVE RequestOK(w)'
  <2>1. /\ pc'[w] = "open" /\ lock' = w /\ row'[w] = {e}
        /\ log' = log /\ attempts' = attempts /\ seenHead' = seenHead
    BY <1>0, <1>1 DEF Recorded, RequestTypes, tableVars
  <2>2. Refers(model'[w], log' \cup row'[w])
    <3>1. PICK m \in Models : model' = [model EXCEPT ![w] = m] /\ Refers(m, log \cup {e})
      BY <1>1 DEF Recorded
    <3> QED BY <1>0, <2>1, <3>1 DEF RequestTypes
  <2>3. NewRow(w, e)'
    BY <1>1, <2>1 DEF NewRow
  <2> QED BY <2>1, <2>2, <2>3 DEF RequestOK
<1>2. ASSUME EndRequest(w) PROVE RequestOK(w)'
  BY <1>0, <1>2 DEF EndRequest, RequestTypes, RequestOK
<1>3. CASE \/ Navigate(w, "slide") \/ Navigate(w, "branch")
           \/ SubmitRecord(w) \/ RepublishRecord(w)
  BY <1>1, <1>3, RecordSteps
<1>4. ASSUME NEW k \in Keys, SubmitCheck(w, k) PROVE RequestOK(w)'
  <2>1. /\ pc'[w] = "checked" /\ lock' = w /\ row'[w] = {} /\ key'[w] = k
        /\ \A f \in log : f.key # k /\ log' = log
    BY <1>0, <1>4 DEF SubmitCheck, LockForCheck, RequestTypes, RequestOK, tableVars
  <2> QED BY <2>1, <1>4 DEF RequestOK, SubmitCheck, tableVars
<1>5. CASE RepublishRead(w)
  BY <1>0, <1>5 DEF RepublishRead, RequestTypes, RequestOK
<1>6. CASE Commit(w)
  <2>1. PICK e \in row[w] : row[w] = {e}
    BY <1>0, <1>6 DEF Commit, RequestOK
  <2>2. pc'[w] = "committed" /\ row' = row /\ model' = model /\ log' = log \cup row[w]
    BY <1>0, <1>6 DEF Commit, RequestTypes
  <2>3. Refers(model[w], log \cup row[w])
    BY <1>0, <1>6 DEF Commit, RequestOK
  <2> QED BY <2>1, <2>2, <2>3 DEF RequestOK
<1>7. CASE SetHot(w)
  BY <1>0, <1>7 DEF SetHot, Announceable, RequestTypes, RequestOK, tableVars
<1>8. CASE PublishEvent(w) \/ SubmitReject(w) \/ RequestDies(w)
  BY <1>2, <1>8 DEF PublishEvent, SubmitReject, RequestDies
<1> QED BY <1>3, <1>4, <1>5, <1>6, <1>7, <1>8 DEF RequestStep, FinishStep

LEMMA RequestsStep ==
  ASSUME SessionTypeOK, RequestsOK, OnlyCommittedShown, [SessionNext]_vars
  PROVE  RequestsOK'
<1>1. ASSUME UNCHANGED requestVars, UNCHANGED <<log, attempts>> PROVE RequestsOK'
  <2>1. ASSUME NEW v \in Requests PROVE RequestOK(v)'
    BY <1>1, RequestKept DEF requestVars, RequestsOK
  <2> QED BY <2>1 DEF RequestsOK
<1>2. ASSUME NEW w \in Requests, RequestStep(w) PROVE RequestsOK'
  <2>1. RequestOK(w)'
    BY <1>2, RequestMoves
  <2>2. ASSUME NEW v \in Requests, v # w PROVE RequestOK(v)'
    <3>1. Others(w, v)
      BY <1>2, <2>2, OthersKept
    <3>2. pc[v] \in {"checked", "open"} => log' = log /\ attempts' = attempts
      <4>1. SUFFICES ASSUME pc[v] \in {"checked", "open"}, NEW u \in Requests, Commit(u)
                     PROVE  FALSE
        BY TablesChange
      <4>2. lock = v /\ lock = u
        BY <4>1 DEF RequestsOK, RequestOK, Commit
      <4>3. pc'[v] = "committed"
        BY <4>1, <4>2 DEF Commit, SessionTypeOK
      <4> QED BY <3>1, <4>1, <4>3 DEF Others
    <3>3. log \subseteq log' /\ RequestOK(v)
      BY LogGrows DEF RequestsOK
    <3> QED BY <3>1, <3>2, <3>3, RequestKept DEF Others
  <2> QED BY <2>1, <2>2 DEF RequestsOK
<1>3. ASSUME NEW c \in Clients, StreamStep(c) \/ RedisLost(c) \/ Disconnect(c)
      PROVE  UNCHANGED requestVars /\ UNCHANGED <<log, attempts>>
  BY <1>3 DEF StreamStep, Connect, YieldRow, Subscribe, Relay, Poll, PollAgain, RedisLost,
     Disconnect, tableVars
<1>4. CASE ApproveHead \/ HotExpires \/ UNCHANGED vars
  BY <1>1, <1>4 DEF ApproveHead, HotExpires, vars, tableVars
<1> QED BY <1>1, <1>2, <1>3, <1>4 DEF SessionNext

-----------------------------------------------------------------------------
(* The streams and the hot state.                                          *)

InOrder(s) == \A i, j \in DOMAIN s : i < j => s[i] < s[j]

LEMMA NumberAt ==
  ASSUME NEW s \in Seq(Numbers), NEW i \in DOMAIN s
  PROVE  s[i] \in Nat
<1>1. DOMAIN s = 1..Len(s) /\ s \in [1..Len(s) -> Numbers]
  OBVIOUS
<1>2. s[i] \in Numbers
  BY <1>1
<1> QED BY <1>2, Constant DEF Numbers

\* What a client has and what is on its way to it.
ClientOK(c) ==
  /\ \A i \in DOMAIN inbox[c] : inbox[c][i] \in NumbersOf(log)
  /\ \A i \in DOMAIN received[c] : received[c][i] \in NumbersOf(log)
  /\ \A i \in DOMAIN received[c] : received[c][i] <= last[c]
  /\ InOrder(received[c])

HotOK == \A m \in hot : Refers(m, log)

ShownOK == HotOK /\ \A c \in Clients : ClientOK(c)

LEMMA ShownParts ==
  ShownOK <=> InboxOK /\ LastOK /\ OnlyCommittedShown /\ StreamInOrder
BY DEF ShownOK, ClientOK, HotOK, InOrder, InboxOK, LastOK, OnlyCommittedShown, StreamInOrder,
   Refers

LEMMA ClientKept ==
  ASSUME NEW c \in Clients, ClientOK(c), NumbersOf(log) \subseteq NumbersOf(log'),
         received'[c] = received[c], last'[c] = last[c],
         \A i \in DOMAIN inbox'[c] : inbox'[c][i] \in NumbersOf(log')
  PROVE  ClientOK(c)'
BY DEF ClientOK

\* A client that gets a row later than all it has got has them in order.
LEMMA YieldKeeps ==
  ASSUME SessionTypeOK, NEW c \in Clients, ClientOK(c), log' = log,
         NEW n \in NumbersOf(log), last[c] < n, Yield(c, n),
         \A i \in DOMAIN inbox'[c] : inbox'[c][i] \in NumbersOf(log')
  PROVE  ClientOK(c)'
<1>0. StreamTypes /\ TableTypes
  BY TypeParts
<1>1. /\ received[c] \in Seq(Numbers) /\ last[c] \in 0..MaxSeq
      /\ received' = [received EXCEPT ![c] = Append(received[c], n)]
      /\ last' = [last EXCEPT ![c] = n]
  BY <1>0 DEF StreamTypes, Yield
<1>2. /\ received'[c] = Append(received[c], n) /\ last'[c] = n
  BY <1>0, <1>1 DEF StreamTypes
<1>3. n \in Nat /\ last[c] \in Nat
  BY <1>0, <1>1, Constant DEF NumbersOf, TableTypes, Rows, Numbers
<1> DEFINE s == received[c]
           t == Append(received[c], n)
<1>4. /\ Len(t) = Len(s) + 1 /\ DOMAIN t = 1..Len(s) + 1 /\ DOMAIN s = 1..Len(s)
      /\ t[Len(s) + 1] = n /\ \A i \in 1..Len(s) : t[i] = s[i]
      /\ Len(s) \in Nat
  BY <1>1
<1>5. \A i \in DOMAIN s : s[i] \in Nat /\ s[i] <= last[c] /\ s[i] \in NumbersOf(log)
  BY <1>1, NumberAt DEF ClientOK
<1>6. InOrder(s)
  BY DEF ClientOK
<1> HIDE DEF s, t
<1>7. \A i \in DOMAIN t : t[i] \in NumbersOf(log) /\ t[i] <= n
  BY <1>3, <1>4, <1>5
<1>8. InOrder(t)
  <2>1. ASSUME NEW i \in DOMAIN t, NEW j \in DOMAIN t, i < j PROVE t[i] < t[j]
    <3>1. i \in 1..Len(s) /\ t[i] = s[i]
      BY <1>4, <2>1
    <3>2. CASE j = Len(s) + 1
      BY <1>3, <1>4, <1>5, <3>1, <3>2
    <3>3. CASE j \in 1..Len(s)
      BY <1>4, <1>6, <2>1, <3>1, <3>3 DEF InOrder
    <3> QED BY <1>4, <3>2, <3>3
  <2> QED BY <2>1 DEF InOrder
<1>9. received'[c] = t
  BY <1>2 DEF t
<1> QED BY <1>2, <1>7, <1>8, <1>9 DEF ClientOK

LEMMA ClientMoves ==
  ASSUME SessionTypeOK, NEW c \in Clients, ClientOK(c),
         StreamStep(c) \/ RedisLost(c) \/ Disconnect(c)
  PROVE  ClientOK(c)'
<1>0. StreamTypes
  BY TypeParts
<1>t. /\ received[c] \in Seq(Numbers) /\ inbox[c] \in Seq(Numbers) /\ last[c] \in 0..MaxSeq
  BY <1>0 DEF StreamTypes
<1>1. log' = log
  BY DEF StreamStep, Connect, YieldRow, Subscribe, Relay, Poll, PollAgain, RedisLost,
     Disconnect, tableVars
<1>2. \A i \in DOMAIN inbox[c] : inbox[c][i] \in NumbersOf(log)
  BY DEF ClientOK
<1>3. CASE Connect(c)
  <2>1. /\ received' = received /\ inbox' = inbox /\ last'[c] = LastEventId(c)
    BY <1>0, <1>3 DEF Connect, StreamTypes
  <2>2. ASSUME NEW i \in DOMAIN received[c] PROVE received[c][i] <= LastEventId(c)
    <3>1. /\ received[c] # << >> /\ Len(received[c]) \in DOMAIN received[c]
          /\ DOMAIN received[c] = 1..Len(received[c])
          /\ \A j \in DOMAIN received[c] : received[c][j] \in Nat
      BY <1>t, <2>2, NumberAt
    <3>2. LastEventId(c) = received[c][Len(received[c])]
      BY <3>1 DEF LastEventId
    <3> QED BY <3>1, <3>2 DEF ClientOK, InOrder
  <2> QED BY <1>1, <2>1, <2>2 DEF ClientOK
<1>4. CASE YieldRow(c)
  <2>1. PICK n \in NumbersOf(log) : last[c] < n /\ Yield(c, n)
    BY <1>4 DEF YieldRow
  <2>2. inbox' = inbox
    BY <1>4 DEF YieldRow
  <2> QED BY <1>1, <1>2, <2>1, <2>2, YieldKeeps
<1>5. CASE Relay(c)
  <2> DEFINE n == Head(inbox[c])
  <2>1. /\ inbox[c] # << >> /\ inbox'[c] = Tail(inbox[c])
        /\ IF AlreadySent(c, n) THEN UNCHANGED <<last, received>> ELSE Yield(c, n)
    BY <1>0, <1>5 DEF Relay, StreamTypes
  <2>2. n = inbox[c][1] /\ 1 \in DOMAIN inbox[c]
    BY <1>t, <2>1
  <2>3. \A i \in DOMAIN inbox'[c] : inbox'[c][i] = inbox[c][i + 1] /\ i + 1 \in DOMAIN inbox[c]
    BY <1>t, <2>1
  <2> HIDE DEF n
  <2>4. n \in NumbersOf(log) /\ n \in Nat
    BY <1>t, <1>2, <2>2, NumberAt
  <2>5. \A i \in DOMAIN inbox'[c] : inbox'[c][i] \in NumbersOf(log')
    BY <1>1, <1>2, <2>3
  <2>6. CASE AlreadySent(c, n)
    BY <1>1, <2>1, <2>5, <2>6, ClientKept
  <2>7. CASE ~AlreadySent(c, n)
    <3>1. last[c] < n
      BY <1>t, <2>4, <2>7, Constant DEF AlreadySent
    <3> QED BY <1>1, <2>1, <2>4, <2>5, <2>7, <3>1, YieldKeeps
  <2> QED BY <2>6, <2>7
<1>6. CASE Subscribe(c) \/ RedisLost(c) \/ Disconnect(c)
  <2>1. received' = received /\ last' = last /\ inbox'[c] = << >>
    BY <1>0, <1>6 DEF Subscribe, RedisLost, Disconnect, StreamTypes
  <2>2. DOMAIN inbox'[c] = {}
    BY <2>1
  <2> QED BY <1>1, <2>1, <2>2, ClientKept
<1>7. CASE Poll(c) \/ PollAgain(c)
  <2>1. received' = received /\ last' = last /\ inbox' = inbox
    BY <1>7 DEF Poll, PollAgain
  <2> QED BY <1>1, <1>2, <2>1, ClientKept
<1> QED BY <1>3, <1>4, <1>5, <1>6, <1>7 DEF StreamStep

LEMMA ShownStep ==
  ASSUME SessionTypeOK, RequestsOK, ShownOK, [SessionNext]_vars
  PROVE  ShownOK'
<1>0. StreamTypes /\ RequestTypes
  BY TypeParts
<1>1. NumbersOf(log) \subseteq NumbersOf(log') /\ log \subseteq log'
  BY LogGrows
<1>2. \A m : Refers(m, log) => Refers(m, log')
  BY <1>1, RefersMore
<1>3. ASSUME hot' \subseteq hot PROVE HotOK'
  BY <1>2, <1>3 DEF HotOK, ShownOK
<1>4. ASSUME NEW c \in Clients PROVE \A i \in DOMAIN inbox[c] : inbox[c][i] \in NumbersOf(log')
  BY <1>1 DEF ShownOK, ClientOK
<1>5. ASSUME UNCHANGED streamVars PROVE \A c \in Clients : ClientOK(c)'
  <2>1. ASSUME NEW c \in Clients PROVE ClientOK(c)'
    BY <1>1, <1>4, <1>5, ClientKept DEF streamVars, ShownOK
  <2> QED BY <2>1
<1>6. ASSUME NEW w \in Requests, SetHot(w) PROVE ShownOK'
  <2>1. Refers(model[w], log)
    BY <1>6 DEF SetHot, Announceable, RequestsOK, RequestOK
  <2>2. HotOK'
    BY <1>2, <1>6, <2>1 DEF SetHot, HotOK, ShownOK
  <2> QED BY <1>5, <1>6, <2>2 DEF SetHot, ShownOK
<1>7. ASSUME NEW w \in Requests, PublishEvent(w) PROVE ShownOK'
  <2>1. PICK e \in log : row[w] = {e}
    BY <1>7 DEF PublishEvent, RequestsOK, RequestOK
  <2>2. (CHOOSE f \in row[w] : TRUE).sequence \in NumbersOf(log)
    BY <2>1 DEF NumbersOf
  <2> DEFINE n == (CHOOSE f \in row[w] : TRUE).sequence
  <2>3. PICK failed \in BOOLEAN :
          inbox' = [c \in Clients |-> IF failed \/ stream[c] # "live" THEN inbox[c]
                                      ELSE Append(inbox[c], n)]
    BY <1>7 DEF PublishEvent
  <2> HIDE DEF n
  <2>4. ASSUME NEW c \in Clients PROVE ClientOK(c)'
    <3>1. inbox[c] \in Seq(Numbers) /\ n \in NumbersOf(log')
      BY <1>0, <1>1, <2>2 DEF StreamTypes, n
    <3>2. inbox'[c] = inbox[c] \/ inbox'[c] = Append(inbox[c], n)
      BY <2>3
    <3>3. \A i \in DOMAIN inbox'[c] : inbox'[c][i] \in NumbersOf(log')
      <4>1. CASE inbox'[c] = inbox[c]
        BY <1>4, <4>1
      <4>2. CASE inbox'[c] = Append(inbox[c], n)
        BY <1>4, <3>1, <4>2
      <4> QED BY <3>2, <4>1, <4>2
    <3> QED BY <1>1, <1>7, <3>3, ClientKept DEF PublishEvent, ShownOK
  <2> QED BY <1>3, <1>7, <2>4 DEF PublishEvent, ShownOK
<1>8. ASSUME NEW w \in Requests, RequestStep(w), ~SetHot(w), ~PublishEvent(w)
      PROVE  ShownOK'
  <2>1. UNCHANGED streamVars /\ hot' = hot
    BY <1>8 DEF RequestStep, FinishStep, Navigate, RecordEvent, SubmitCheck, SubmitRecord,
       SubmitReject, RepublishRead, RepublishRecord, Commit, RequestDies, streamVars
  <2> QED BY <1>3, <1>5, <2>1 DEF ShownOK
<1>9. ASSUME NEW c \in Clients, StreamStep(c) \/ RedisLost(c) \/ Disconnect(c)
      PROVE  ShownOK'
  <2>1. ClientOK(c)'
    BY <1>9, ClientMoves DEF ShownOK
  <2>2. ASSUME NEW d \in Clients, d # c PROVE ClientOK(d)'
    <3>1. received'[d] = received[d] /\ last'[d] = last[d] /\ inbox'[d] = inbox[d]
      BY <1>0, <1>9, <2>2 DEF StreamStep, Connect, YieldRow, Subscribe, Relay, Poll,
         PollAgain, RedisLost, Disconnect, Yield, StreamTypes
    <3> QED BY <1>1, <1>4, <3>1, ClientKept DEF ShownOK
  <2>3. hot' = hot
    BY <1>9 DEF StreamStep, Connect, YieldRow, Subscribe, Relay, Poll, PollAgain, RedisLost,
       Disconnect
  <2> QED BY <1>3, <2>1, <2>2, <2>3 DEF ShownOK
<1>10. CASE ApproveHead \/ HotExpires \/ UNCHANGED vars
  <2>1. UNCHANGED streamVars /\ hot' \subseteq hot
    BY <1>10 DEF ApproveHead, HotExpires, vars, streamVars
  <2> QED BY <1>3, <1>5, <2>1 DEF ShownOK
<1> QED BY <1>6, <1>7, <1>8, <1>9, <1>10 DEF SessionNext

-----------------------------------------------------------------------------
(* The commit: the log, the counter and the pin.                           *)

\* The new row of a commit: the latest, and what the counter and the pin follow.
LEMMA CommitFacts ==
  ASSUME SessionTypeOK, RequestsOK, NEW w \in Requests, Commit(w)
  PROVE  \E e \in Rows : /\ NewRow(w, e) /\ e \notin log /\ log' = log \cup {e}
                         /\ attempts' = IF e.kind = "tally" THEN e.value ELSE attempts
                         /\ pin' = IF e.kind = "pin" THEN e.value ELSE pin
<1>0. RequestTypes /\ TableTypes
  BY TypeParts
<1>1. PICK e \in row[w] : row[w] = {e} /\ NewRow(w, e)
  BY DEF Commit, RequestsOK, RequestOK
<1>2. e \in Rows /\ (CHOOSE f \in row[w] : TRUE) = e
  BY <1>0, <1>1 DEF RequestTypes
<1>3. e \notin log
  BY <1>0, <1>1, <1>2 DEF NewRow, TableTypes, Rows, Numbers
<1>4. attempts' = IF e.kind = "tally" THEN e.value ELSE attempts
  BY <1>1, <1>2 DEF Commit, AttemptsAfter
<1>5. pin' = IF e.kind = "pin" THEN e.value ELSE pin
  BY <1>1, <1>2 DEF Commit, PinAfter, NewRow
<1> QED BY <1>1, <1>2, <1>3, <1>4, <1>5 DEF Commit

LEMMA CommitLog ==
  ASSUME TableTypes, LogOK, NEW w, NEW e \in Rows, NewRow(w, e), log' = log \cup {e}
  PROVE  LogOK'
<1>1. IsFiniteSet(log')
  BY FS_AddElement DEF LogOK
<1>2. \A f \in log : f.sequence < e.sequence /\ f.sequence \in Nat
  BY Constant DEF NewRow, TableTypes, Rows, Numbers
<1>3. e.sequence \in Nat
  BY DEF Rows, Numbers
<1> QED BY <1>1, <1>2, <1>3 DEF LogOK

\* The rank of a row among the tallies R.
Rank(R, e) == Cardinality({f \in R : f.sequence <= e.sequence})

LEMMA CountedParts ==
  CountedOnce <=> /\ attempts = Cardinality(Tallies(log))
                  /\ \A e \in Tallies(log) : e.value = Rank(Tallies(log), e)
                  /\ \A e, f \in Tallies(log) : e.key = f.key => e = f
BY DEF CountedOnce, Tallies, Rank

LEMMA CommitCount ==
  ASSUME TableTypes, LogOK, CountedOnce, NEW w, NEW e \in Rows, NewRow(w, e), e \notin log,
         log' = log \cup {e}, attempts' = IF e.kind = "tally" THEN e.value ELSE attempts
  PROVE  CountedOnce'
<1> DEFINE T == Tallies(log)
           U == Tallies(log')
<1>1. /\ attempts = Cardinality(T)
      /\ \A f \in T : f.value = Rank(T, f)
      /\ \A f, g \in T : f.key = g.key => f = g
  BY CountedParts
<1>2. IsFiniteSet(T) /\ e \notin T /\ T \subseteq log
  <2>1. T \subseteq log
    BY DEF Tallies
  <2> QED BY <2>1, FS_Subset DEF LogOK
<1>3. \A f \in T : f.sequence < e.sequence /\ f.sequence \in Nat /\ e.sequence \in Nat
  BY <1>2 DEF NewRow, TableTypes, Rows, Numbers
<1>4. SUFFICES /\ attempts' = Cardinality(U)
               /\ \A f \in U : f.value = Rank(U, f)
               /\ \A f, g \in U : f.key = g.key => f = g
  <2>1. CountedOnce' <=> /\ attempts' = Cardinality(Tallies(log'))
                         /\ \A f \in Tallies(log') : f.value = Rank(Tallies(log'), f)
                         /\ \A f, g \in Tallies(log') : f.key = g.key => f = g
    BY DEF CountedOnce, Tallies, Rank
  <2> QED BY <2>1
<1>5. CASE e.kind # "tally"
  <2>1. U = T
    BY <1>5 DEF Tallies
  <2> HIDE DEF U, T
  <2> QED BY <1>1, <1>5, <2>1
<1>6. CASE e.kind = "tally"
  <2>1. U = T \cup {e}
    BY <1>6 DEF Tallies
  <2>2. /\ attempts' = attempts + 1 /\ e.value = attempts + 1
        /\ \A f \in T : f.key # e.key
    BY <1>2, <1>6 DEF NewRow
  <2> HIDE DEF U, T
  <2>3. Cardinality(U) = Cardinality(T) + 1
    BY <1>2, <2>1, FS_AddElement
  <2>4. ASSUME NEW f \in T PROVE f.value = Rank(U, f)
    <3>1. {g \in U : g.sequence <= f.sequence} = {g \in T : g.sequence <= f.sequence}
      BY <1>3, <2>1, <2>4
    <3>2. Rank(U, f) = Rank(T, f)
      BY <3>1 DEF Rank
    <3> QED BY <1>1, <3>2
  <2>5. e.value = Rank(U, e)
    <3>1. e.sequence <= e.sequence
      BY DEF Rows, Numbers
    <3>2. {g \in U : g.sequence <= e.sequence} = U
      BY <1>3, <2>1, <3>1
    <3>3. Rank(U, e) = Cardinality(U)
      BY <3>2 DEF Rank
    <3> QED BY <1>1, <2>2, <2>3, <3>3
  <2>6. \A f, g \in U : f.key = g.key => f = g
    BY <1>1, <2>1, <2>2
  <2>7. \A f \in U : f.value = Rank(U, f)
    BY <2>1, <2>4, <2>5
  <2>8. attempts' = Cardinality(U)
    BY <1>1, <2>2, <2>3
  <2> QED BY <2>6, <2>7, <2>8
<1> QED BY <1>5, <1>6

LEMMA CommitPin ==
  ASSUME TableTypes, TableTypes', LogOK, LogOK', PinAnnounced,
         NEW w, NEW e \in Rows, NewRow(w, e), log' = log \cup {e},
         pin' = IF e.kind = "pin" THEN e.value ELSE pin
  PROVE  PinAnnounced'
<1> DEFINE n == LatestOf(log, {"pin"})
           k == LatestOf(log', {"pin"})
<1>1. pin = IF n = 0 THEN 1 ELSE (CHOOSE f \in log : f.sequence = n).value
  BY DEF PinAnnounced
<1>2. SUFFICES pin' = IF k = 0 THEN 1 ELSE (CHOOSE f \in log' : f.sequence = k).value
  BY DEF PinAnnounced
<1>3. \A f, g \in log' : f.sequence = g.sequence => f = g
  BY DEF LogOK
<1>4. ASSUME NEW f \in log' PROVE (CHOOSE g \in log' : g.sequence = f.sequence) = f
  BY <1>3
<1>5. CASE e.kind = "pin"
  <2>1. log' \in SUBSET Rows /\ e \in log'
    BY DEF TableTypes
  <2>2. \A f \in log' : f.sequence <= e.sequence
    BY DEF NewRow, TableTypes, Rows, Numbers
  <2>3. k = e.sequence
    BY <1>5, <2>1, <2>2, LatestIs
  <2>4. k # 0
    BY <2>3 DEF Rows, Numbers
  <2> HIDE DEF n, k
  <2>5. (CHOOSE f \in log' : f.sequence = k) = e
    BY <1>4, <2>1, <2>3
  <2> QED BY <1>5, <2>4, <2>5
<1>6. CASE e.kind # "pin"
  <2>1. k = n
    BY <1>6, LatestOther
  <2>2. n = 0 \/ \E f \in log : f.sequence = n
    BY LatestFacts DEF TableTypes
  <2> HIDE DEF n, k
  <2>3. CASE n = 0
    BY <1>1, <1>6, <2>1, <2>3
  <2>4. CASE n # 0
    <3>1. PICK f \in log : f.sequence = n
      BY <2>2, <2>4
    <3>2. (CHOOSE g \in log' : g.sequence = k) = f
      BY <1>4, <2>1, <3>1
    <3>3. (CHOOSE g \in log : g.sequence = n) = f
      BY <1>3, <3>1
    <3>4. pin = f.value
      BY <1>1, <2>4, <3>3
    <3>5. pin' = pin /\ k # 0
      BY <1>6, <2>1, <2>4
    <3> QED BY <3>2, <3>4, <3>5
  <2> QED BY <2>3, <2>4
<1> QED BY <1>5, <1>6

-----------------------------------------------------------------------------
(* The invariant.                                                          *)

LEMMA InvInit == SessionInit => SessionInv
<1> SUFFICES ASSUME SessionInit PROVE SessionInv
  OBVIOUS
<1>1. SessionTypeOK
  BY TypeInit
<1>2. LogOK /\ RequestsOK
  BY FS_EmptySet DEF SessionInit, LogOK, RequestsOK, RequestOK
<1>3. ShownOK
  BY DEF SessionInit, ShownOK, HotOK, ClientOK, InOrder
<1>4. CountedOnce
  <2>1. Tallies(log) = {}
    BY DEF SessionInit, Tallies
  <2>2. attempts = 0
    BY DEF SessionInit
  <2> QED BY <2>1, <2>2, CountedParts, FS_EmptySet
<1>5. PinAnnounced
  <2>1. LatestOf(log, {"pin"}) = 0
    BY DEF SessionInit, LatestOf, NumbersOf
  <2> QED BY <2>1 DEF SessionInit, PinAnnounced
<1> QED BY <1>1, <1>2, <1>3, <1>4, <1>5, ShownParts DEF SessionInv

LEMMA InvStep == SessionInv /\ [SessionNext]_vars => SessionInv'
<1> SUFFICES ASSUME SessionInv, [SessionNext]_vars PROVE SessionInv'
  OBVIOUS
<1>0. /\ SessionTypeOK /\ LogOK /\ RequestsOK /\ OnlyCommittedShown /\ ShownOK
      /\ CountedOnce /\ PinAnnounced /\ TableTypes
  BY ShownParts, TypeParts DEF SessionInv
<1>1. SessionTypeOK' /\ RequestsOK' /\ ShownOK'
  BY <1>0, TypeStep, RequestsStep, ShownStep
<1>2. TableTypes'
  BY <1>1 DEF SessionTypeOK, TableTypes
<1>3. (LogOK /\ CountedOnce /\ PinAnnounced)'
  <2>1. CASE UNCHANGED <<log, attempts, pin>>
    BY <1>0, <2>1 DEF LogOK, CountedOnce, PinAnnounced
  <2>2. ASSUME NEW w \in Requests, Commit(w) PROVE (LogOK /\ CountedOnce /\ PinAnnounced)'
    BY <1>0, <1>2, <2>2, CommitFacts, CommitLog, CommitCount, CommitPin
  <2> QED BY <2>1, <2>2, TablesChange
<1>4. (InboxOK /\ LastOK /\ OnlyCommittedShown /\ StreamInOrder)'
  BY <1>1, ShownParts, PTL
<1> QED BY <1>1, <1>3, <1>4 DEF SessionInv

THEOREM SessionInvariant == SessionSpec => []SessionInv
<1>1. SessionSpec => SessionInit /\ [][SessionNext]_vars
  BY PTL DEF SessionSpec, SessionSafety
<1> QED BY <1>1, InvInit, InvStep, PTL

\* The tables, the transactions in flight, the hot state and the streams have
\* the values of their types.
THEOREM SessionTypeCorrect == SessionSpec => []SessionTypeOK
<1>1. SessionInv => SessionTypeOK
  BY DEF SessionInv
<1> QED BY <1>1, SessionInvariant, PTL

\* Each Idempotency-Key of submit_response is counted once, and each
\* aggregate_updated event carries its rank, for any number of concurrent
\* submissions, retries and dying requests.
THEOREM KeysAreCountedOnce == SessionSpec => []CountedOnce
<1>1. SessionInv => CountedOnce
  BY DEF SessionInv
<1> QED BY <1>1, SessionInvariant, PTL

\* The pinned snapshot is the one the last content_republished event announced,
\* whatever republishes race.
THEOREM PinIsAnnounced == SessionSpec => []PinAnnounced
<1>1. SessionInv => PinAnnounced
  BY DEF SessionInv
<1> QED BY <1>1, SessionInvariant, PTL

\* _finish commits before it broadcasts: no stream and no hot state shows an
\* event that is not in the log.
THEOREM OnlyCommittedIsShown == SessionSpec => []OnlyCommittedShown
<1>1. SessionInv => OnlyCommittedShown
  BY DEF SessionInv
<1> QED BY <1>1, SessionInvariant, PTL

\* A client receives ids in increasing order, each once, over reconnects, the
\* live relay and polling.
THEOREM StreamsAreInOrder == SessionSpec => []StreamInOrder
<1>1. SessionInv => StreamInOrder
  BY DEF SessionInv
<1> QED BY <1>1, SessionInvariant, PTL
=============================================================================
