----------------------- MODULE UnitOrchestratorProofs -----------------------
(* Proofs about UnitOrchestrator.                                           *)
EXTENDS UnitOrchestrator, FiniteSetTheorems, TLAPS

-----------------------------------------------------------------------------
(* The inductive invariant.                                                 *)

\* A row is in one open transaction at most, and has no committed child: the
\* insert waits for the others and fails on a committed row.
Uncommitted ==
    /\ \A a \in Actors : \A w \in tx[a] : child[w] = "none"
    /\ \A a, b \in Actors : a # b => tx[a] \cap tx[b] = {}

\* A child and its START job are committed together.
JobsMatch ==
    \A w \in Rows :
        IF child[w] = "none" THEN \A k \in Keys : <<w, k>> \notin jobs
        ELSE \E k \in Keys : \A j \in Keys : <<w, j>> \in jobs <=> j = k

Done(w) == PrereqsDone(w[1], w[2])

\* What a sweeper has decided, inserted or committed stays justified.
DecidedDone == \A g \in Sweepers, w \in Rows : target[g] = w => Done(w)
InsertedDone == \A g \in Sweepers : \A w \in tx[g] : Done(w)
StartedDone == \A w \in Rows : <<w, "unit-session-start">> \in jobs => Done(w)
Justified == DecidedDone /\ InsertedDone /\ StartedDone

UnitInv == UnitTypeOK /\ Uncommitted /\ JobsMatch /\ Justified

-----------------------------------------------------------------------------
(* Rows and decisions.                                                      *)

LEMMA RowShape ==
    ASSUME NEW w \in Rows
    PROVE  /\ w[1] \in Units /\ w[2] \in Sessions(w[1]) /\ w = <<w[1], w[2]>>
           /\ \A p \in Prereq[w[1]][w[2]] : <<w[1], p>> \in Rows
<1>1. PICK u \in Units : w \in {u} \X Sessions(u)
  BY DEF Rows
<1>2. w[1] = u /\ w[2] \in Sessions(u) /\ w = <<w[1], w[2]>>
  BY <1>1
<1>3. Prereq[u][w[2]] \subseteq Sessions(u)
  BY <1>2, UnitAssumption DEF UnitAssumption
<1>4. \A p \in Sessions(u) : <<u, p>> \in Rows
  BY DEF Rows
<1> QED BY <1>2, <1>3, <1>4

LEMMA RowIs ==
    ASSUME NEW u \in Units, NEW s \in Sessions(u)
    PROVE  <<u, s>> \in Rows
BY DEF Rows

LEMMA DecisionFacts ==
    ASSUME NEW u \in Units, NEW s \in Decision(u)
    PROVE  s \in Sessions(u) /\ <<u, s>> \in Rows /\ PrereqsDone(u, s)
BY RowIs DEF Decision, Ready

-----------------------------------------------------------------------------
(* Types.                                                                   *)

\* The part of the type invariant that says what a transaction holds.
TxOK ==
    \A a \in Actors :
        /\ pc[a] \in {"insert", "announce"} <=> target[a] # NoTarget
        /\ tx[a] # {} => pc[a] \in {"react", "insert", "announce", "commit"}

LEMMA TypeInit == UnitInit => UnitTypeOK
BY UnitAssumption DEF UnitInit, UnitTypeOK, ChildStates, Phases, UnitAssumption

LEMMA RollbackTypes ==
    ASSUME UnitTypeOK, NEW a \in Actors, NEW p \in {"done", "ended", "down"}, RolledBack(a, p)
    PROVE  /\ pc' \in [Actors -> Phases]
           /\ todo' \in [Actors -> SUBSET Units]
           /\ target' \in [Actors -> Rows \cup {NoTarget}]
           /\ tx' \in [Actors -> SUBSET Rows]
           /\ TxOK'
<1> USE DEF UnitTypeOK, RolledBack, Phases
<1>1. pc' \in [Actors -> Phases] /\ todo' \in [Actors -> SUBSET Units]
  OBVIOUS
<1>2. target' \in [Actors -> Rows \cup {NoTarget}] /\ tx' \in [Actors -> SUBSET Rows]
  OBVIOUS
<1>3. TxOK'
  BY DEF TxOK
<1> QED BY <1>1, <1>2, <1>3

LEMMA TypeStep == UnitTypeOK /\ [UnitNext]_vars => UnitTypeOK'
<1> SUFFICES ASSUME UnitTypeOK, [UnitNext]_vars PROVE UnitTypeOK'
  OBVIOUS
<1>0. NoTarget \notin Rows /\ Sweepers \subseteq Actors /\ Requests \subseteq Actors
      /\ Sweepers \cap Requests = {} /\ MaxRestarts \in Nat
  BY UnitAssumption DEF UnitAssumption, Actors
<1> USE <1>0 DEF UnitTypeOK
<1>1. ASSUME NEW a \in Actors, NEW p \in {"done", "ended", "down"}, RolledBack(a, p),
             UNCHANGED restarts
      PROVE  UnitTypeOK'
  <2>1. UNCHANGED <<child, jobs, restarts>>
    BY <1>1 DEF RolledBack
  <2> QED BY <1>1, <2>1, RollbackTypes DEF TxOK
<1>2. ASSUME NEW a \in Actors, Insert(a) PROVE UnitTypeOK'
  <2>1. target[a] \in Rows
    BY <1>2 DEF Insert
  <2> QED BY <1>2, <2>1 DEF Insert, Phases
<1>3. ASSUME NEW a \in Actors, Commit(a) PROVE UnitTypeOK'
  <2>1. KeyOf(a) \in Keys
    BY DEF KeyOf, Keys
  <2>2. tx[a] \subseteq Rows
    OBVIOUS
  <2>3. jobs' \subseteq Rows \X Keys
    BY <1>3, <2>1, <2>2 DEF Commit
  <2>4. child' \in [Rows -> ChildStates]
    BY <1>3 DEF Commit, ChildStates
  <2>5. pc' \in [Actors -> Phases] /\ tx' \in [Actors -> SUBSET Rows] /\ TxOK'
    BY <1>3 DEF Commit, Phases, TxOK
  <2> QED BY <1>3, <2>3, <2>4, <2>5 DEF Commit, TxOK
<1>4. ASSUME NEW g \in Sweepers, SweepStart(g) PROVE UnitTypeOK'
  BY <1>4 DEF SweepStart, Phases
<1>5. ASSUME NEW g \in Sweepers, Announce(g) PROVE UnitTypeOK'
  BY <1>5 DEF Announce, Phases
<1>6. ASSUME NEW g \in Sweepers, SweepDone(g) PROVE UnitTypeOK'
  BY <1>6 DEF SweepDone, Phases
<1>7. ASSUME NEW g \in Sweepers, Restart(g) PROVE UnitTypeOK'
  BY <1>7 DEF Restart, Phases
<1>8. ASSUME NEW g \in Sweepers, NEW u \in Units, React(g, u) PROVE UnitTypeOK'
  <2>1. CASE pc' = pc /\ target' = target
    BY <1>8, <2>1 DEF React
  <2>2. ASSUME NEW s \in Decision(u), target' = [target EXCEPT ![g] = <<u, s>>],
               pc' = [pc EXCEPT ![g] = "insert"]
        PROVE  UnitTypeOK'
    <3>1. <<u, s>> \in Rows
      BY DecisionFacts
    <3> QED BY <1>8, <2>2, <3>1 DEF React, Phases
  <2> QED BY <1>8, <2>1, <2>2 DEF React
<1>9. ASSUME NEW q \in Requests, NEW w \in Rows, SpawnAnyway(q, w[1], w[2])
      PROVE  UnitTypeOK'
  <2>1. <<w[1], w[2]>> \in Rows
    BY RowShape
  <2> QED BY <1>9, <2>1 DEF SpawnAnyway, Phases
<1>10. ASSUME NEW w \in Rows, NEW st \in {"completed", "failed"}, ChildSettles(w, st)
       PROVE  UnitTypeOK'
  BY <1>10 DEF ChildSettles, ChildStates
<1>11. CASE UNCHANGED vars
  BY <1>11 DEF vars
<1> HIDE DEF UnitTypeOK
<1> QED
  BY <1>1, <1>2, <1>3, <1>4, <1>5, <1>6, <1>7, <1>8, <1>9, <1>10, <1>11
  DEF UnitNext, InsertFails, DeadlockVictim, AfterError, Crash, RequestLost

-----------------------------------------------------------------------------
(* Rows and jobs.                                                           *)

\* The actions that leave the rows, the jobs and the transactions' rows alone.
Quiet == UNCHANGED <<child, jobs, tx>>

\* What a step does to the rows of the transactions.
LEMMA StepKinds ==
    ASSUME UnitTypeOK, [UnitNext]_vars
    PROVE  \/ Quiet
           \/ \E a \in Actors : Insert(a)
           \/ \E a \in Actors : Commit(a)
           \/ \E a \in Actors : tx' = [tx EXCEPT ![a] = {}] /\ UNCHANGED <<child, jobs>>
           \/ \E w \in Rows, st \in {"completed", "failed"} : ChildSettles(w, st)
<1>1. Sweepers \subseteq Actors /\ Requests \subseteq Actors
  BY DEF Actors
<1>2. CASE UNCHANGED vars
  BY <1>2 DEF vars, Quiet
<1> QED
  BY <1>1, <1>2
  DEF UnitNext, SweepStart, Announce, SweepDone, Restart, React, SpawnAnyway, RolledBack,
      InsertFails, DeadlockVictim, Crash, RequestLost, Quiet

LEMMA UncommittedStep ==
    ASSUME UnitTypeOK, Uncommitted, [UnitNext]_vars
    PROVE  Uncommitted'
<1>0. /\ tx \in [Actors -> SUBSET Rows] /\ child \in [Rows -> ChildStates]
      /\ Uncommitted
  BY DEF UnitTypeOK
<1>1. CASE Quiet
  BY <1>1 DEF Quiet, Uncommitted
<1>2. ASSUME NEW a \in Actors, Insert(a) PROVE Uncommitted'
  <2>1. child[target[a]] = "none" /\ child' = child
    BY <1>2 DEF Insert, Duplicate
  <2>2. \A b \in Actors \ {a} : target[a] \notin tx[b]
    BY <1>2 DEF Insert, WaitsFor
  <2>3. /\ tx'[a] = tx[a] \cup {target[a]}
        /\ \A b \in Actors \ {a} : tx'[b] = tx[b]
    BY <1>0, <1>2 DEF Insert
  <2> QED BY <2>1, <2>2, <2>3 DEF Uncommitted
<1>3. ASSUME NEW a \in Actors, Commit(a) PROVE Uncommitted'
  <2>1. /\ tx'[a] = {}
        /\ \A b \in Actors \ {a} : tx'[b] = tx[b]
        /\ \A w \in Rows \ tx[a] : child'[w] = child[w]
    BY <1>0, <1>3 DEF Commit
  <2>2. ASSUME NEW b \in Actors \ {a}, NEW w \in tx[b] PROVE child'[w] = "none"
    <3>1. w \in Rows \ tx[a] /\ child[w] = "none"
      BY <1>0 DEF Uncommitted
    <3> QED BY <2>1, <3>1
  <2> QED BY <2>1, <2>2 DEF Uncommitted
<1>4. ASSUME NEW a \in Actors, tx' = [tx EXCEPT ![a] = {}], UNCHANGED child
      PROVE  Uncommitted'
  <2>1. tx'[a] = {} /\ \A b \in Actors \ {a} : tx'[b] = tx[b]
    BY <1>0, <1>4
  <2> QED BY <1>4, <2>1 DEF Uncommitted
<1>5. ASSUME NEW w \in Rows, NEW st \in {"completed", "failed"}, ChildSettles(w, st)
      PROVE  Uncommitted'
  <2>1. /\ child[w] = "open" /\ tx' = tx
        /\ \A v \in Rows \ {w} : child'[v] = child[v]
    BY <1>0, <1>5 DEF ChildSettles
  <2> QED BY <1>0, <2>1 DEF Uncommitted
<1> QED BY <1>1, <1>2, <1>3, <1>4, <1>5, StepKinds

LEMMA JobsStep ==
    ASSUME UnitTypeOK, Uncommitted, JobsMatch, [UnitNext]_vars
    PROVE  JobsMatch'
<1>0. tx \in [Actors -> SUBSET Rows] /\ child \in [Rows -> ChildStates]
  BY DEF UnitTypeOK
<1>1. ASSUME UNCHANGED <<child, jobs>> PROVE JobsMatch'
  BY <1>1 DEF JobsMatch
<1>2. ASSUME NEW a \in Actors, Commit(a) PROVE JobsMatch'
  <2> SUFFICES ASSUME NEW w \in Rows
               PROVE  IF child'[w] = "none" THEN \A k \in Keys : <<w, k>> \notin jobs'
                      ELSE \E k \in Keys : \A j \in Keys : <<w, j>> \in jobs' <=> j = k
    BY DEF JobsMatch
  <2>1. /\ child'[w] = IF w \in tx[a] THEN "open" ELSE child[w]
        /\ jobs' = jobs \cup {<<v, KeyOf(a)>> : v \in tx[a]}
    BY <1>2 DEF Commit
  <2>2. \A j : <<w, j>> \in jobs' <=> <<w, j>> \in jobs \/ (w \in tx[a] /\ j = KeyOf(a))
    BY <2>1
  <2>3. CASE w \in tx[a]
    <3>1. child[w] = "none" /\ KeyOf(a) \in Keys
      BY <2>3 DEF Uncommitted, KeyOf, Keys
    <3>2. \A k \in Keys : <<w, k>> \notin jobs
      BY <3>1 DEF JobsMatch
    <3> QED BY <2>1, <2>2, <2>3, <3>1, <3>2
  <2>4. CASE w \notin tx[a]
    BY <2>1, <2>2, <2>4 DEF JobsMatch
  <2> QED BY <2>3, <2>4
<1>3. ASSUME NEW w \in Rows, NEW st \in {"completed", "failed"}, ChildSettles(w, st)
      PROVE  JobsMatch'
  <2>1. /\ child[w] = "open" /\ child'[w] = st /\ jobs' = jobs
        /\ \A v \in Rows \ {w} : child'[v] = child[v]
    BY <1>0, <1>3 DEF ChildSettles
  <2>2. \A v \in Rows : child'[v] = "none" <=> child[v] = "none"
    BY <2>1
  <2> QED BY <2>1, <2>2 DEF JobsMatch
<1> QED BY <1>1, <1>2, <1>3, StepKinds DEF Insert, Quiet

-----------------------------------------------------------------------------
(* Prerequisites.                                                           *)

\* A completed child stays completed: only an open one settles, and a commit
\* writes rows that had no child.
LEMMA CompletedStays ==
    ASSUME UnitTypeOK, Uncommitted, [UnitNext]_vars,
           NEW w \in Rows, child[w] = "completed"
    PROVE  child'[w] = "completed"
<1>0. tx \in [Actors -> SUBSET Rows] /\ child \in [Rows -> ChildStates]
  BY DEF UnitTypeOK
<1>1. ASSUME NEW a \in Actors, Commit(a) PROVE child'[w] = "completed"
  <2>1. w \notin tx[a]
    BY DEF Uncommitted
  <2> QED BY <1>1, <2>1 DEF Commit
<1>2. ASSUME NEW v \in Rows, NEW st \in {"completed", "failed"}, ChildSettles(v, st)
      PROVE  child'[w] = "completed"
  BY <1>0, <1>2 DEF ChildSettles
<1> QED BY <1>1, <1>2, StepKinds DEF Insert, Quiet

LEMMA DoneStays ==
    ASSUME UnitTypeOK, Uncommitted, [UnitNext]_vars, NEW w \in Rows, Done(w)
    PROVE  Done(w)'
BY CompletedStays, RowShape DEF Done, PrereqsDone

LEMMA JustifiedStep ==
    ASSUME UnitTypeOK, Uncommitted, Justified, [UnitNext]_vars
    PROVE  Justified'
<1>0. /\ tx \in [Actors -> SUBSET Rows] /\ target \in [Actors -> Rows \cup {NoTarget}]
      /\ jobs \subseteq Rows \X Keys /\ NoTarget \notin Rows
      /\ \A a \in Actors : pc[a] \in {"insert", "announce"} => target[a] # NoTarget
      /\ Sweepers \subseteq Actors /\ Requests \subseteq Actors
      /\ Sweepers \cap Requests = {}
  BY UnitAssumption DEF UnitAssumption, UnitTypeOK, Actors
<1>1. \A w \in Rows : Done(w) => Done(w)'
  BY DoneStays
<1> DEFINE Targets == \A g \in Sweepers : target'[g] = target[g] \/ target'[g] = NoTarget
           Held == \A g \in Sweepers : tx'[g] \subseteq tx[g]
<1>2. ASSUME Targets PROVE DecidedDone'
  BY <1>0, <1>1, <1>2 DEF Justified, DecidedDone
<1>3. ASSUME Held PROVE InsertedDone'
  BY <1>0, <1>1, <1>3 DEF Justified, InsertedDone
<1>4. ASSUME UNCHANGED jobs PROVE StartedDone'
  BY <1>1, <1>4 DEF Justified, StartedDone
<1>5. ASSUME Targets, Held, UNCHANGED jobs PROVE Justified'
  BY <1>2, <1>3, <1>4, <1>5 DEF Justified
<1>6. ASSUME NEW a \in Actors, Insert(a) PROVE Justified'
  <2>1. UNCHANGED jobs /\ Targets
    BY <1>0, <1>6 DEF Insert
  <2>2. ASSUME NEW g \in Sweepers, NEW w \in tx'[g] PROVE Done(w)'
    <3>1. w \in tx[g] \/ (g = a /\ w = target[a])
      BY <1>0, <1>6, <2>2 DEF Insert
    <3>2. w \in Rows /\ Done(w)
      BY <1>0, <1>6, <3>1 DEF Insert, Justified, DecidedDone, InsertedDone
    <3> QED BY <1>1, <3>2
  <2> HIDE DEF Targets
  <2> QED BY <1>2, <1>4, <2>1, <2>2 DEF Justified, InsertedDone
<1>7. ASSUME NEW a \in Actors, Commit(a) PROVE Justified'
  <2>1. Targets /\ Held
    BY <1>0, <1>7 DEF Commit
  <2>2. ASSUME NEW w \in Rows, <<w, "unit-session-start">> \in jobs' PROVE Done(w)'
    <3>1. \/ <<w, "unit-session-start">> \in jobs
          \/ w \in tx[a] /\ KeyOf(a) = "unit-session-start"
      BY <1>7, <2>2 DEF Commit
    <3>2. Done(w)
      BY <3>1 DEF Justified, InsertedDone, StartedDone, KeyOf
    <3> QED BY <1>1, <3>2
  <2> HIDE DEF Targets, Held
  <2> QED BY <1>2, <1>3, <2>1, <2>2 DEF Justified, StartedDone
<1>8. ASSUME NEW g \in Sweepers, NEW u \in Units, React(g, u) PROVE Justified'
  <2>1. Held /\ UNCHANGED jobs
    BY <1>8 DEF React
  <2>2. CASE target' = target
    <3>1. Targets
      BY <2>2
    <3> HIDE DEF Targets, Held
    <3> QED BY <1>5, <2>1, <3>1
  <2>3. ASSUME NEW s \in Decision(u), target' = [target EXCEPT ![g] = <<u, s>>]
        PROVE  Justified'
    <3>1. <<u, s>> \in Rows /\ Done(<<u, s>>)
      BY DecisionFacts DEF Done
    <3>2. ASSUME NEW h \in Sweepers, NEW w \in Rows, target'[h] = w PROVE Done(w)'
      <4>1. Done(w)
        BY <1>0, <2>3, <3>1, <3>2 DEF Justified, DecidedDone
      <4> QED BY <1>1, <4>1
    <3> HIDE DEF Held
    <3> QED BY <1>3, <1>4, <2>1, <3>2 DEF Justified, DecidedDone
  <2> QED BY <1>8, <2>2, <2>3 DEF React
<1>9. ASSUME NEW q \in Requests, NEW w \in Rows, SpawnAnyway(q, w[1], w[2])
      PROVE  Justified'
  <2>1. Targets /\ Held /\ UNCHANGED jobs
    BY <1>0, <1>9 DEF SpawnAnyway
  <2> HIDE DEF Targets, Held
  <2> QED BY <1>5, <2>1
<1>10. ASSUME NEW a \in Actors, NEW p \in Phases, RolledBack(a, p) PROVE Justified'
  <2>1. Targets /\ Held /\ UNCHANGED jobs
    BY <1>0, <1>10 DEF RolledBack
  <2> HIDE DEF Targets, Held
  <2> QED BY <1>5, <2>1
<1>11. ASSUME NEW g \in Sweepers,
              SweepStart(g) \/ Announce(g) \/ SweepDone(g) \/ Restart(g)
       PROVE  Justified'
  <2>1. Targets /\ Held /\ UNCHANGED jobs
    BY <1>0, <1>11 DEF SweepStart, Announce, SweepDone, Restart
  <2> HIDE DEF Targets, Held
  <2> QED BY <1>5, <2>1
<1>12. ASSUME UNCHANGED <<target, tx, jobs>> PROVE Justified'
  BY <1>5, <1>12
<1>13. ASSUME NEW w \in Rows, NEW st \in {"completed", "failed"}, ChildSettles(w, st)
       PROVE  Justified'
  BY <1>12, <1>13 DEF ChildSettles
<1>14. ASSUME UNCHANGED vars PROVE Justified'
  BY <1>12, <1>14 DEF vars
<1>15. "done" \in Phases /\ "ended" \in Phases /\ "down" \in Phases
  BY DEF Phases
<1> QED
  BY <1>0, <1>6, <1>7, <1>8, <1>9, <1>10, <1>11, <1>13, <1>14, <1>15
  DEF UnitNext, InsertFails, DeadlockVictim, AfterError, Crash, RequestLost

-----------------------------------------------------------------------------
(* The theorems.                                                            *)

LEMMA InvInit == UnitInit => UnitInv
<1> SUFFICES ASSUME UnitInit PROVE UnitInv
  OBVIOUS
<1>1. Uncommitted /\ JobsMatch
  BY DEF UnitInit, Uncommitted, JobsMatch
<1>2. Justified
  BY UnitAssumption
  DEF UnitInit, Justified, DecidedDone, InsertedDone, StartedDone, Actors, UnitAssumption
<1> QED BY TypeInit, <1>1, <1>2 DEF UnitInv

LEMMA InvStep == UnitInv /\ [UnitNext]_vars => UnitInv'
BY TypeStep, UncommittedStep, JobsStep, JustifiedStep DEF UnitInv

LEMMA UnitInvariant == UnitSpec => []UnitInv
BY InvInit, InvStep, PTL DEF UnitSpec, UnitSafety

\* Every reachable state is well typed, and an actor holds a decision and rows
\* only where its transaction is open (react, spawn_anyway).
THEOREM UnitTypeCorrect == UnitSpec => []UnitTypeOK
<1>1. UnitInv => UnitTypeOK
  BY DEF UnitInv
<1> QED BY <1>1, UnitInvariant, PTL

\* For any number of units, sessions, gateways and requests a session has one
\* START job exactly when it has a child run: the unique constraint and the
\* single transaction of react and spawn_anyway are enough.
THEOREM OneStart == UnitSpec => []OneStartPerChild
<1>1. UnitInv => OneStartPerChild
  <2> SUFFICES ASSUME UnitInv, NEW w \in Rows
               PROVE  Cardinality({k \in Keys : <<w, k>> \in jobs})
                        = IF child[w] = "none" THEN 0 ELSE 1
    BY DEF OneStartPerChild
  <2>1. CASE child[w] = "none"
    <3>1. {k \in Keys : <<w, k>> \in jobs} = {}
      BY <2>1 DEF UnitInv, JobsMatch
    <3> QED BY <2>1, <3>1, FS_EmptySet
  <2>2. CASE child[w] # "none"
    <3>1. PICK k \in Keys : \A j \in Keys : <<w, j>> \in jobs <=> j = k
      BY <2>2 DEF UnitInv, JobsMatch
    <3>2. {j \in Keys : <<w, j>> \in jobs} = {k}
      BY <3>1
    <3> QED BY <2>2, <3>2, FS_Singleton
  <2> QED BY <2>1, <2>2
<1> QED BY <1>1, UnitInvariant, PTL

\* A session the orchestrator started had all its prerequisites completed when
\* it was decided, and they are completed for good, whatever was inserted,
\* committed or settled between the decision and the commit (decide, react).
THEOREM StartsAreJustified == UnitSpec => []SweptAfterPrerequisites
<1>1. UnitInv => SweptAfterPrerequisites
  BY DEF UnitInv, Justified, StartedDone, Done, SweptAfterPrerequisites
<1> QED BY <1>1, UnitInvariant, PTL

-----------------------------------------------------------------------------
(* Waiting and losing races.                                                *)

\* Every member of C waits for one of C: what the database aborts.
Circle(C) == C # {} /\ \A b \in C : WaitsFor(b) \cap C # {}

\* A circle of waits goes through two sweepers at least.
CirclesAreOfSweepers ==
    \A C \in SUBSET Actors : Circle(C) => \E g, h \in C \cap Sweepers : g # h

\* A request holds its row only where nothing makes it wait any more, and it
\* takes no event lock.
RequestInv ==
    \A q \in Requests :
        /\ tx[q] # {} => pc[q] = "commit"
        /\ pc[q] # "announce"

\* What one gateway with no request beside it knows while it inserts: the
\* session it decided on has no child yet.
LoneInv ==
    /\ LostRaceIsNoOp
    /\ \A g \in Sweepers : pc[g] = "insert" => child[target[g]] = "none"

LEMMA RequestStep ==
    ASSUME UnitTypeOK, RequestInv, [UnitNext]_vars
    PROVE  RequestInv'
<1>0. /\ pc \in [Actors -> Phases] /\ tx \in [Actors -> SUBSET Rows]
      /\ \A q \in Requests : tx[q] # {} => pc[q] = "commit"
      /\ \A q \in Requests : pc[q] # "announce"
      /\ Sweepers \subseteq Actors /\ Requests \subseteq Actors
      /\ Sweepers \cap Requests = {}
  BY UnitAssumption DEF UnitAssumption, UnitTypeOK, RequestInv, Actors
<1>1. ASSUME NEW a \in Actors, Insert(a) PROVE RequestInv'
  BY <1>0, <1>1 DEF Insert, RequestInv
<1>2. ASSUME NEW a \in Actors, Commit(a) PROVE RequestInv'
  BY <1>0, <1>2 DEF Commit, RequestInv
<1>3. ASSUME NEW a \in Actors, NEW p \in {"done", "ended", "down"}, RolledBack(a, p)
      PROVE  RequestInv'
  BY <1>0, <1>3 DEF RolledBack, RequestInv
<1>4. ASSUME NEW g \in Sweepers,
             SweepStart(g) \/ Announce(g) \/ SweepDone(g) \/ Restart(g)
      PROVE  RequestInv'
  BY <1>0, <1>4 DEF SweepStart, Announce, SweepDone, Restart, RequestInv
<1>5. ASSUME NEW g \in Sweepers, NEW u \in Units, React(g, u) PROVE RequestInv'
  BY <1>0, <1>5 DEF React, RequestInv
<1>6. ASSUME NEW q \in Requests, NEW w \in Rows, SpawnAnyway(q, w[1], w[2])
      PROVE  RequestInv'
  BY <1>0, <1>6 DEF SpawnAnyway, RequestInv
<1>7. ASSUME UNCHANGED <<pc, tx>> PROVE RequestInv'
  BY <1>7 DEF RequestInv
<1> QED
  BY <1>0, <1>1, <1>2, <1>3, <1>4, <1>5, <1>6, <1>7
  DEF UnitNext, InsertFails, DeadlockVictim, AfterError, Crash, RequestLost,
      ChildSettles, vars

LEMMA RequestInvariant == UnitSpec => []RequestInv
<1>1. UnitInit => RequestInv
  BY UnitAssumption DEF UnitInit, RequestInv, Actors
<1>2. UnitInv /\ RequestInv /\ [UnitNext]_vars => RequestInv'
  BY RequestStep DEF UnitInv
<1> QED BY <1>1, <1>2, UnitInvariant, PTL DEF UnitSpec, UnitSafety

\* Whoever is waited for and waits is a sweeper.
LEMMA WaitedForWaiters ==
    ASSUME RequestInv, NEW a \in Actors, NEW b \in WaitsFor(a), WaitsFor(b) # {}
    PROVE  b \in Sweepers \ {a}
<1>1. b \in Actors \ {a} /\ (tx[b] # {} \/ EventLocks(b) # {})
  BY DEF WaitsFor
<1>2. pc[b] \in {"insert", "announce"}
  BY DEF WaitsFor
<1>3. ASSUME b \in Requests PROVE FALSE
  BY <1>1, <1>2, <1>3 DEF RequestInv, EventLocks
<1> QED BY <1>1, <1>3 DEF Actors

\* A database deadlock is between sweeps of two gateways at least: spawn-anyway
\* alone, or beside one sweeper, can be kept waiting but never be in a circle
\* (react 224-276, spawn_anyway 283-303).
THEOREM DeadlocksAreBetweenSweepers == UnitSpec => []CirclesAreOfSweepers
<1>1. RequestInv => CirclesAreOfSweepers
  <2> SUFFICES ASSUME RequestInv, NEW C \in SUBSET Actors, Circle(C)
               PROVE  \E g, h \in C \cap Sweepers : g # h
    BY DEF CirclesAreOfSweepers
  <2>1. PICK a \in C : TRUE
    BY DEF Circle
  <2>2. PICK b \in C : b \in WaitsFor(a)
    BY DEF Circle
  <2>3. PICK c \in C : c \in WaitsFor(b)
    BY DEF Circle
  <2>4. PICK d \in C : d \in WaitsFor(c)
    BY DEF Circle
  <2>5. b \in Sweepers /\ c \in Sweepers \ {b}
    BY <2>2, <2>3, <2>4, WaitedForWaiters
  <2> QED BY <2>5
<1> QED BY <1>1, RequestInvariant, PTL

LEMMA LoneStep ==
    ASSUME NEW g, Sweepers = {g}, Requests = {},
           UnitTypeOK, RequestInv, LoneInv, [UnitNext]_vars
    PROVE  LoneInv'
<1>0. /\ pc \in [{g} -> Phases] /\ child \in [Rows -> ChildStates]
      /\ target \in [{g} -> Rows \cup {NoTarget}] /\ Actors = {g}
      /\ pc[g] # "ended" /\ (pc[g] = "insert" => child[target[g]] = "none")
      /\ pc[g] = "insert" => target[g] \in Rows
  BY DEF Actors, UnitTypeOK, LoneInv, LostRaceIsNoOp
<1> USE DEF LoneInv, LostRaceIsNoOp
<1>1. ~Deadlocked(g)
  <2>1. WaitsFor(g) = {}
    BY <1>0 DEF WaitsFor
  <2> QED BY <2>1 DEF Deadlocked
<1>2. ~InsertFails(g)
  BY <1>0 DEF InsertFails, Duplicate
<1>3. CASE Insert(g) \/ Commit(g)
  BY <1>0, <1>3 DEF Insert, Commit
<1>4. CASE SweepStart(g) \/ Announce(g) \/ SweepDone(g) \/ Crash(g) \/ Restart(g)
  BY <1>0, <1>4 DEF SweepStart, Announce, SweepDone, Crash, Restart, RolledBack
<1>5. ASSUME NEW u \in Units, React(g, u) PROVE LoneInv'
  <2>1. ASSUME NEW s \in Decision(u), target' = [target EXCEPT ![g] = <<u, s>>],
               pc' = [pc EXCEPT ![g] = "insert"]
        PROVE  LoneInv'
    <3>1. child[<<u, s>>] = "none"
      BY DEF Decision, Ready, Spawned
    <3> QED BY <1>0, <1>5, <2>1, <3>1 DEF React
  <2>2. CASE UNCHANGED <<pc, target>>
    BY <1>0, <1>5, <2>2 DEF React
  <2> QED BY <1>5, <2>1, <2>2 DEF React
<1>6. ASSUME NEW w \in Rows, NEW st \in {"completed", "failed"}, ChildSettles(w, st)
      PROVE  LoneInv'
  <2>1. \A v \in Rows : child[v] = "none" => child'[v] = "none"
    BY <1>0, <1>6 DEF ChildSettles
  <2> QED BY <1>0, <1>6, <2>1 DEF ChildSettles
<1>7. CASE UNCHANGED vars
  BY <1>0, <1>7 DEF vars
<1> QED
  BY <1>0, <1>1, <1>2, <1>3, <1>4, <1>5, <1>6, <1>7 DEF UnitNext, DeadlockVictim

\* With one gateway and nobody using spawn-anyway no sweep ends by an
\* exception: every session it decides on is free until it commits.  What the
\* sweeper does not survive (LostRaceIsNoOp is violated in general) needs a
\* second writer.
THEOREM LoneSweeperEndures ==
    ASSUME NEW g, Sweepers = {g}, Requests = {}
    PROVE  UnitSpec => []LostRaceIsNoOp
<1>1. UnitInit => LoneInv
  BY DEF UnitInit, LoneInv, LostRaceIsNoOp, Actors
<1>2. UnitInv /\ RequestInv /\ LoneInv /\ [UnitNext]_vars => LoneInv'
  BY LoneStep DEF UnitInv
<1>3. LoneInv => LostRaceIsNoOp
  BY DEF LoneInv
<1> QED BY <1>1, <1>2, <1>3, UnitInvariant, RequestInvariant, PTL DEF UnitSpec, UnitSafety

=============================================================================
