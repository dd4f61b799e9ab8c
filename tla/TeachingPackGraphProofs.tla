----------------------- MODULE TeachingPackGraphProofs -----------------------
(* Proofs about the teaching-pack graph: generation in dependency order,    *)
(* judgement of whole generations, exports that are due, one verdict per    *)
(* artifact, and invocations that run out of steps.                         *)
EXTENDS TeachingPackGraph, FiniteSetTheorems, WellFoundedInduction, TLAPS

-----------------------------------------------------------------------------
(* The inductive invariant                                                  *)

Stages == PlainStages \cup
    {"planning_blueprint", "unit_approval", "artifact_workflow", "render_quality",
     "compliance_gate", "teacher_approval", "export_finalize"}

\* Where the graph is: the branches run in the fan-out only, and a stage that
\* waits for its edge is completed, except the artifact stage between waves.
NodeInv ==
    /\ node \in Stages \cup {"generate", "end", "raised"}
    /\ completed \subseteq Stages /\ rejected \subseteq Requested
    /\ routing => node \in Stages /\ (node # "artifact_workflow" => node \in completed)
    /\ node # "generate" => sent = {}
    /\ fanoutDone => "artifact_workflow" \in completed

\* What the stages after the fan-out know when they run.
RouteInv ==
    /\ route = "planning_blueprint" =>
          \/ node = "render_quality" /\ routing
          \/ node = "planning_blueprint" /\ ~routing
    /\ route = "teacher_approval" => failCount > 0
    /\ node \in {"render_quality", "compliance_gate", "teacher_approval",
                 "export_finalize"} => fanoutDone
    /\ node \in {"compliance_gate", "teacher_approval"} => "render_quality" \in completed
    /\ node = "compliance_gate" => route = "none" \/ (routing /\ compliance = "failed")
    /\ node = "teacher_approval" =>
          \/ route = "teacher_approval"
          \/ route = "none" /\ compliance = "passed" /\ "compliance_gate" \in completed

\* The types the generation makes, those of one wave, and those that reported.
Current == IF scope # {} THEN scope ELSE Requested
Part(i) == ToSet(Waves[i]) \cap Current
Reported == OfGeneration(revision, Terminal)

\* A generation that is not over: the waves before the current one have
\* reported and no failure among them blocks anything, the later ones have not.
Progress ==
    /\ wave # 0 => Part(wave) # {}
    /\ \A k \in DOMAIN Waves : k < wave => Part(k) \subseteq Reported
    /\ \A k \in DOMAIN Waves : k > wave =>
          \A t \in ToSet(Waves[k]) : workflow[t].generation # revision
    /\ \A k \in DOMAIN Waves : k < wave =>
          \A d \in ToSet(Waves[k]), t \in Current :
             workflow[d] = [generation |-> revision, status |-> "failed"] => d \notin Deps[t]
    /\ \A t \in Types :
          workflow[t].generation = revision => workflow[t].status \in {"passed", "failed"}

FanoutInv ==
    /\ \A t \in Types : workflow[t].generation <= revision
    /\ fanoutDone =>
          Current \subseteq Reported \/ OfGeneration(revision, {"skipped"}) # {}
    /\ ~fanoutDone => Progress
    /\ node = "artifact_workflow" /\ routing /\ ~fanoutDone =>
          wave # 0 /\ ~(Part(wave) \subseteq Reported)
    /\ node = "generate" => ~routing /\ ~fanoutDone /\ wave # 0 /\ sent \subseteq Part(wave)

\* A rejection that has no scope yet came when the generation was over.  If it
\* names no document, nothing is generated again: every stage is skipped.
Pending == answer = "reject_selected" /\ rejected # {}
Idle ==
    /\ {"artifact_workflow", "render_quality", "teacher_approval"} \subseteq completed
    /\ \/ /\ node \in {"teacher_approval", "artifact_workflow", "render_quality"}
          /\ route = "teacher_approval"
       \/ /\ node \in {"teacher_approval", "artifact_workflow", "render_quality",
                       "compliance_gate"}
          /\ route = "none" /\ compliance = "passed" /\ "compliance_gate" \in completed
RejectionInv ==
    /\ answer = "reject_selected" => ~approved
    /\ Pending /\ scope = {} => fanoutDone /\ (Rejections = {} => Idle)

\* A document has the documents it was made from, and what a scope leaves as
\* it is has been made.
Has(t) == \E d \in references : d[1] = t
DocumentInv ==
    /\ \A t \in Types : workflow[t].status = "passed" => Has(t)
    /\ \A t \in Types : Has(t) => workflow[t].status # "none"
    /\ \A t \in Types : Has(t) => \A d \in Deps[t] \cap Requested : Has(d)
    /\ \A t \in scope : \A d \in (Deps[t] \cap Requested) \ scope : Has(d)

\* Nothing follows an export.
ExportInv ==
    /\ node = "export_finalize" => compliance = "passed" \/ failCount > 0
    /\ exported # {} => node = "end" \/ (node = "export_finalize" /\ routing)
    /\ ExportIsDue

GraphInv ==
    /\ GraphTypeOK /\ NodeInv /\ RouteInv /\ FanoutInv /\ RejectionInv
    /\ DocumentInv /\ ExportInv

-----------------------------------------------------------------------------
(* Operators of the model                                                   *)

LEMMA LeastNat ==
  ASSUME NEW S, S \subseteq Nat, S # {}
  PROVE  \E x \in S : \A y \in S : x <= y
<1>1. IsWellFoundedOn(OpToRel(<, Nat), Nat)
  BY NatLessThanWellFounded
<1>2. PICK x \in S : \A y \in S : ~(<<y, x>> \in OpToRel(<, Nat))
  BY <1>1, WFMin
<1>3. ASSUME NEW y \in S PROVE x <= y
  <2>1. <<y, x>> \in OpToRel(<, Nat) <=> <<y, x>> \in Nat \X Nat /\ y < x
    BY SMT DEF OpToRel
  <2>2. <<y, x>> \in Nat \X Nat
    OBVIOUS
  <2>3. ~(<<y, x>> \in OpToRel(<, Nat))
    BY <1>2, Zenon
  <2>4. ~(y < x)
    BY <2>1, <2>2, <2>3, Zenon
  <2> QED BY <2>4
<1> QED BY <1>3

LEMMA MinIsLeast ==
  ASSUME NEW S, S \subseteq Nat, S # {}
  PROVE  Min(S) \in S /\ \A y \in S : Min(S) <= y
<1>1. \E x \in S : \A y \in S : x =< y
  BY LeastNat
<1> QED BY <1>1, Zenon DEF Min

\* The waves share no type, and every type is in one.
LEMMA PlanFacts ==
  /\ DOMAIN Waves = 1..Len(Waves) /\ Len(Waves) \in Nat
  /\ \A i \in DOMAIN Waves : ToSet(Waves[i]) \subseteq Types
  /\ \A t \in Types : \E i \in DOMAIN Waves : t \in ToSet(Waves[i])
  /\ \A i, k \in DOMAIN Waves : \A t : t \in ToSet(Waves[i]) /\ t \in ToSet(Waves[k]) => i = k
<1>1. DOMAIN Waves = 1..Len(Waves) /\ Len(Waves) \in Nat
  BY PlanAssumption
<1>2. \A i \in DOMAIN Waves : ToSet(Waves[i]) \subseteq Types
  BY Zenon DEF Types
<1>3. \A t \in Types : \E i \in DOMAIN Waves : t \in ToSet(Waves[i])
  BY Zenon DEF Types
<1>4. ASSUME NEW i \in DOMAIN Waves, NEW k \in DOMAIN Waves, NEW t,
             t \in ToSet(Waves[i]), t \in ToSet(Waves[k])
      PROVE  i = k
  <2>1. PICK m \in DOMAIN Waves[i] : Waves[i][m] = t
    BY <1>4, Zenon DEF ToSet
  <2>2. PICK n \in DOMAIN Waves[k] : Waves[k][n] = t
    BY <1>4, Zenon DEF ToSet
  <2> QED BY <2>1, <2>2, PlanAssumption
<1> QED BY <1>1, <1>2, <1>3, <1>4

\* Dependencies are in earlier waves.
LEMMA DepsEarlier ==
  ASSUME NEW i \in DOMAIN Waves, NEW t \in ToSet(Waves[i]), NEW d \in Deps[t]
  PROVE  d \in Types /\ \E k \in DOMAIN Waves : k < i /\ d \in ToSet(Waves[k])
BY PlanAssumption, PlanFacts

\* What with_dependents returns: a closed set that holds the seed, the least.
LEMMA WithDependentsClosed ==
  ASSUME NEW seed \in SUBSET Requested
  PROVE  /\ WithDependents[seed] \subseteq Requested
         /\ seed \subseteq WithDependents[seed]
         /\ Closed(WithDependents[seed])
BY Zenon DEF WithDependents, Closed

LEMMA WithDependentsLeast ==
  ASSUME NEW seed \in SUBSET Requested, NEW A \in SUBSET Requested,
         seed \subseteq A, Closed(A)
  PROVE  WithDependents[seed] \subseteq A
BY Zenon DEF WithDependents

LEMMA NoRejectionNoScope == WithDependents[{}] = {}
<1>1. Closed({})
  BY DEF Closed
<1> QED BY <1>1, WithDependentsLeast

\* What is sent out is a part of the open types, and not empty if they are not.
LEMMA FirstOfOpen ==
  ASSUME NEW i \in DOMAIN Waves, NEW open \in SUBSET ToSet(Waves[i])
  PROVE  FirstOf(open) \subseteq open /\ (open # {} => FirstOf(open) # {})
<1>1. ASSUME open # {} PROVE \E t \in open : open \cap Before[t] = {}
  <2> DEFINE S == {m \in DOMAIN Waves[i] : Waves[i][m] \in open}
  <2>1. S \subseteq Nat /\ Waves[i] \in Seq(Types)
    BY PlanAssumption
  <2>2. S # {}
    BY <1>1 DEF ToSet
  <2>3. PICK m \in S : \A n \in S : m <= n
    BY <2>1, <2>2, LeastNat
  <2>4. ASSUME NEW u \in open \cap Before[Waves[i][m]] PROVE FALSE
    <3>0. Waves[i][m] \in Types
      BY PlanFacts DEF ToSet
    <3>1. PICK k \in DOMAIN Waves : \E a, b \in DOMAIN Waves[k] :
             a < b /\ Waves[k][a] = u /\ Waves[k][b] = Waves[i][m]
      BY <3>0, <2>4 DEF Before
    <3>2. PICK a \in DOMAIN Waves[k], b \in DOMAIN Waves[k] :
             a < b /\ Waves[k][a] = u /\ Waves[k][b] = Waves[i][m]
      BY <3>1
    <3>3. k = i /\ b = m
      BY <3>2, PlanAssumption
    <3>4. a \in S /\ a < m
      BY <3>2, <3>3, <2>4
    <3> QED BY <3>4, <2>1, <2>3
  <2> QED BY <2>3, <2>4
<1>2. Cardinality({}) < Parallelism
  BY FS_EmptySet, GraphAssumption
<1>3. open # {} => FirstOf(open) # {}
  BY <1>1, <1>2 DEF FirstOf
<1> QED BY <1>3 DEF FirstOf

LEMMA WaveFinite == ASSUME NEW i \in DOMAIN Waves PROVE IsFiniteSet(ToSet(Waves[i]))
<1>1. Waves[i] \in Seq(Types)
  BY PlanAssumption
<1>2. Waves[i] \in Surjection(1..Len(Waves[i]), ToSet(Waves[i]))
  BY <1>1 DEF Surjection, ToSet
<1> QED BY <1>1, <1>2, FS_Interval, FS_Surjection

LEMMA FirstOfBounded ==
  ASSUME NEW i \in DOMAIN Waves, NEW open \in SUBSET ToSet(Waves[i])
  PROVE  Cardinality(FirstOf(open)) <= Parallelism
<1> DEFINE F == FirstOf(open)
<1>0. Waves[i] \in Seq(Types) /\ F \subseteq open
  BY PlanAssumption DEF FirstOf
<1>1. IsFiniteSet(open) /\ IsFiniteSet(F)
  BY <1>0, WaveFinite, FS_Subset
<1>2. CASE F = {}
  BY <1>2, FS_EmptySet, GraphAssumption
<1>3. CASE F # {}
  <2> DEFINE S == {Len(Waves[i]) - m : m \in {n \in DOMAIN Waves[i] : Waves[i][n] \in F}}
  <2>1. S \subseteq Nat /\ S # {}
    BY <1>0, <1>3 DEF ToSet
  <2>2. PICK x \in S : \A y \in S : x <= y
    BY <2>1, LeastNat
  <2>3. PICK m \in DOMAIN Waves[i] : Waves[i][m] \in F /\ x = Len(Waves[i]) - m
    BY <2>2
  <2>4. ASSUME NEW n \in DOMAIN Waves[i], Waves[i][n] \in F PROVE n <= m
    <3>1. Len(Waves[i]) - n \in S
      BY <2>4
    <3>2. x <= Len(Waves[i]) - n
      BY <2>2, <3>1
    <3>3. n \in Nat /\ m \in Nat /\ Len(Waves[i]) \in Nat
      BY <1>0
    <3> QED BY <2>3, <3>2, <3>3
  <2>5. F \ {Waves[i][m]} \subseteq open \cap Before[Waves[i][m]]
    <3> SUFFICES ASSUME NEW u \in F \ {Waves[i][m]}
                 PROVE  u \in open \cap Before[Waves[i][m]]
      OBVIOUS
    <3>1. PICK n \in DOMAIN Waves[i] : Waves[i][n] = u
      BY <1>0 DEF ToSet
    <3>2. n < m
      BY <1>0, <2>4, <3>1
    <3>3. u \in Types /\ Waves[i][m] \in Types
      BY <1>0, <3>1
    <3>4. \E k \in DOMAIN Waves : \E a, b \in DOMAIN Waves[k] :
             a < b /\ Waves[k][a] = u /\ Waves[k][b] = Waves[i][m]
      BY <3>1, <3>2
    <3> QED BY <1>0, <3>3, <3>4 DEF Before
  <2>6. Cardinality(open \cap Before[Waves[i][m]]) < Parallelism
    BY <2>3 DEF FirstOf
  <2>7. IsFiniteSet(open \cap Before[Waves[i][m]])
    BY <1>1, FS_Subset
  <2>8. Cardinality(F \ {Waves[i][m]}) <= Cardinality(open \cap Before[Waves[i][m]])
    BY <2>5, <2>7, FS_Subset
  <2>9. Cardinality(F \ {Waves[i][m]}) = Cardinality(F) - 1
    BY <1>1, <2>3, FS_RemoveElement
  <2>10. Cardinality(F) \in Nat /\ Cardinality(open \cap Before[Waves[i][m]]) \in Nat
    BY <1>1, <2>7, FS_CardinalityType
  <2>11. Parallelism \in Nat
    BY GraphAssumption
  <2> HIDE DEF F
  <2>12. Cardinality(F) <= Parallelism
    BY <2>6, <2>8, <2>9, <2>10, <2>11
  <2> QED BY <2>12 DEF F
<1> QED BY <1>2, <1>3

-----------------------------------------------------------------------------
(* What the fan-out computes in a state                                     *)

LEMMA ScopeFacts ==
  ASSUME GraphTypeOK, NodeInv
  PROVE  /\ Rejections \subseteq Requested
         /\ RequestedNow \subseteq Current /\ RequestedNow # {}
         /\ Current \subseteq Requested /\ Requested \subseteq Types
         /\ scope # {} \/ Rejections = {} => ScopedTypes = scope /\ RequestedNow = Current
         /\ ScopedTypes \subseteq Requested
         /\ ScopedTypes # {} => RequestedNow = ScopedTypes
<1>1. Rejections \subseteq Requested
  BY DEF Rejections, NodeInv
<1>2. scope \subseteq Requested /\ Requested # {} /\ Requested \subseteq Types
  BY GraphAssumption DEF GraphTypeOK
<1>3. WithDependents[Rejections] \subseteq Requested
  BY <1>1, WithDependentsClosed
<1> QED BY <1>1, <1>2, <1>3, NoRejectionNoScope DEF RequestedNow, ScopedTypes, Current

LEMMA ScopeWhileMaking ==
  ASSUME GraphTypeOK, NodeInv, RejectionInv, ~fanoutDone
  PROVE  ScopedTypes = scope /\ RequestedNow = Current /\ ~NeedsNewCycle
<1>1. scope # {} \/ Rejections = {}
  BY DEF RejectionInv, Pending, Rejections
<1> QED BY <1>1, ScopeFacts DEF NeedsNewCycle

\* _next_wave_index, for any first index.
LEMMA NextWave ==
  ASSUME NEW n \in Nat, Occupied(n) # {}
  PROVE  /\ Min(Occupied(n)) \in DOMAIN Waves /\ Min(Occupied(n)) >= n
         /\ WaveAt(Min(Occupied(n))) # {}
         /\ \A k \in DOMAIN Waves : n <= k /\ k < Min(Occupied(n)) => WaveAt(k) = {}
<1>1. Occupied(n) \subseteq Nat
  BY PlanFacts DEF Occupied
<1>2. /\ Min(Occupied(n)) \in Occupied(n)
      /\ \A y \in Occupied(n) : Min(Occupied(n)) <= y
  BY <1>1, MinIsLeast
<1>3. \A k \in Nat : k < Min(Occupied(n)) => k \notin Occupied(n)
  BY <1>1, <1>2
<1>4. ASSUME NEW k \in DOMAIN Waves, n <= k, k < Min(Occupied(n)) PROVE WaveAt(k) = {}
  <2>1. k \in Nat
    BY PlanFacts
  <2> QED BY <1>3, <1>4, <2>1 DEF Occupied
<1> QED BY <1>2, <1>4 DEF Occupied

LEMMA FirstWave == ASSUME GraphTypeOK, NodeInv PROVE Occupied(1) # {}
<1>1. PICK t \in RequestedNow : t \in Types
  BY ScopeFacts
<1>2. PICK k \in DOMAIN Waves : t \in ToSet(Waves[k])
  BY <1>1, PlanFacts
<1> QED BY <1>1, <1>2, PlanFacts DEF Occupied, WaveAt

LEMMA WaveWhileMaking ==
  ASSUME GraphTypeOK, NodeInv, RejectionInv, ~fanoutDone, NEW k \in DOMAIN Waves
  PROVE  WaveAt(k) = Part(k)
BY ScopeWhileMaking DEF WaveAt, Part

LEMMA CurrentWaveFacts ==
  ASSUME GraphTypeOK, NodeInv, RejectionInv, FanoutInv, ~fanoutDone,
         NEW i, i = CurrentWave
  PROVE  /\ i \in DOMAIN Waves /\ Part(i) # {} /\ (wave # 0 => i = wave)
         /\ \A k \in DOMAIN Waves : k < i => Part(k) \subseteq Reported
         /\ \A k \in DOMAIN Waves : k > i =>
               \A t \in ToSet(Waves[k]) : workflow[t].generation # revision
         /\ \A k \in DOMAIN Waves : k < i =>
               \A d \in ToSet(Waves[k]), t \in Current :
                  workflow[d] = [generation |-> revision, status |-> "failed"] => d \notin Deps[t]
<1>1. Progress /\ ~NeedsNewCycle /\ wave \in 0..Len(Waves)
  BY ScopeWhileMaking DEF FanoutInv, GraphTypeOK
<1>2. CASE wave # 0
  <2>1. i = wave /\ i \in DOMAIN Waves
    BY <1>1, <1>2, PlanFacts DEF CurrentWave
  <2> QED BY <1>1, <1>2, <2>1 DEF Progress
<1>3. CASE wave = 0
  <2>1. i = Min(Occupied(1)) /\ Occupied(1) # {}
    BY <1>3, FirstWave DEF CurrentWave
  <2>2. /\ i \in DOMAIN Waves /\ WaveAt(i) # {}
        /\ \A k \in DOMAIN Waves : 1 <= k /\ k < i => WaveAt(k) = {}
    BY <2>1, NextWave
  <2>3. \A k \in DOMAIN Waves : k > wave /\ k >= 1
    BY <1>3, PlanFacts
  <2>4. \A k \in DOMAIN Waves : \A t \in ToSet(Waves[k]) : workflow[t].generation # revision
    BY <1>1, <2>3 DEF Progress
  <2>5. /\ Part(i) # {}
        /\ \A k \in DOMAIN Waves : k < i => Part(k) = {}
    BY <2>2, <2>3, WaveWhileMaking
  <2> QED BY <1>3, <2>2, <2>4, <2>5
<1> QED BY <1>2, <1>3

-----------------------------------------------------------------------------
(* What a step of the coordinator does: it opens a new generation, it stays *)
(* at a wave or goes on to the next, or it ends the generation.             *)

NewCycle ==
    /\ fanoutDone /\ fanoutDone' = FALSE /\ revision' = revision + 1
    /\ scope' = ScopedTypes /\ UNCHANGED <<workflow, completed>>
    /\ wave' \in DOMAIN Waves
    /\ ToSet(Waves[wave']) \cap RequestedNow # {}
    /\ \A k \in DOMAIN Waves : k < wave' => ToSet(Waves[k]) \cap RequestedNow = {}

GoesOn ==
    /\ ~fanoutDone /\ fanoutDone' = FALSE /\ UNCHANGED <<revision, scope, workflow, completed>>
    /\ wave' \in DOMAIN Waves /\ Part(wave') # {} /\ ~(Part(wave') \subseteq Reported)
    /\ \A k \in DOMAIN Waves : k < wave' => Part(k) \subseteq Reported
    /\ \A k \in DOMAIN Waves : k > wave' =>
          \A t \in ToSet(Waves[k]) : workflow[t].generation # revision
    /\ \A k \in DOMAIN Waves : k < wave' =>
          \A d \in ToSet(Waves[k]), t \in Current :
             workflow[d] = [generation |-> revision, status |-> "failed"] => d \notin Deps[t]

Finishes ==
    /\ ~fanoutDone /\ fanoutDone' = TRUE /\ UNCHANGED <<revision, scope>>
    /\ completed' = completed \cup {"artifact_workflow"} /\ wave' \in DOMAIN Waves
    /\ workflow' = [t \in Types |->
                      IF t \in SkippedBy(OfGeneration(revision, {"failed"}))
                        THEN [generation |-> revision, status |-> "skipped"]
                        ELSE workflow[t]]
    /\ \/ Current \subseteq Reported
       \/ SkippedBy(OfGeneration(revision, {"failed"})) # {}

\* The artifact stage is re-entered for a new generation or to go on with one.
LEMMA CoordinatorRuns ==
  ASSUME NodeInv, RouteInv, Coordinate
  PROVE  node = "artifact_workflow" /\ ~routing /\ (NeedsNewCycle \/ ~fanoutDone)
<1>1. node = "artifact_workflow" /\ ~routing
  BY DEF Coordinate, Runs
<1>2. "artifact_workflow" \notin completed \/ CanReenter("artifact_workflow")
  BY DEF Coordinate, Runs
<1>3. CanReenter("artifact_workflow") =>
         \/ ~fanoutDone \/ Rejections # {}
         \/ route \in {"artifact_workflow", "planning_blueprint"}
  BY DEF CanReenter
<1> QED BY <1>1, <1>2, <1>3 DEF NodeInv, RouteInv, NeedsNewCycle

LEMMA CoordinateNew ==
  ASSUME GraphTypeOK, NodeInv, FanoutInv, Coordinate, NeedsNewCycle
  PROVE  NewCycle
<1> DEFINE g == revision + 1
<1>1. revision \in Nat \ {0} /\ fanoutDone
  BY DEF GraphTypeOK, NeedsNewCycle
<1>2. /\ CurrentWave \in DOMAIN Waves /\ WaveAt(CurrentWave) # {}
      /\ \A k \in DOMAIN Waves : k < CurrentWave => WaveAt(k) = {}
  <2>1. CurrentWave = Min(Occupied(1)) /\ Occupied(1) # {}
    BY FirstWave DEF CurrentWave
  <2>2. \A k \in DOMAIN Waves : 1 <= k
    BY PlanFacts
  <2> QED BY <2>1, <2>2, NextWave
<1>3. OfGeneration(g, Terminal) = {} /\ OfGeneration(g, {"failed"}) = {}
  <2>1. \A t \in Types : workflow[t].generation \in Nat /\ workflow[t].generation <= revision
    BY DEF GraphTypeOK, FanoutInv
  <2>2. \A t \in Types : workflow[t].generation # g
    BY <1>1, <2>1
  <2> QED BY <2>2 DEF OfGeneration
<1>4. ~WaveOver(g, CurrentWave)
  BY <1>2, <1>3 DEF WaveOver
<1>5. /\ revision' = g /\ scope' = ScopedTypes /\ fanoutDone' = FALSE
      /\ wave' = CurrentWave /\ completed' = completed
      /\ workflow' = [t \in Types |-> workflow[t]]
  BY <1>2, <1>4 DEF Coordinate
<1>6. workflow' = workflow
  BY <1>5 DEF GraphTypeOK
<1> QED BY <1>1, <1>2, <1>5, <1>6 DEF NewCycle, WaveAt

LEMMA CoordinateMaking ==
  ASSUME GraphTypeOK, NodeInv, RouteInv, RejectionInv, FanoutInv, Coordinate, ~fanoutDone
  PROVE  GoesOn \/ Finishes
<1> DEFINE i == CurrentWave
           skipped == SkippedBy(OfGeneration(revision, {"failed"}))
           next == Occupied(i + 1)
           over == WaveAt(i) # {} /\ WaveOver(revision, i)
           done == WaveAt(i) = {} \/ (over /\ (skipped # {} \/ next = {}))
<1>1. ~NeedsNewCycle /\ ScopedTypes = scope /\ RequestedNow = Current
  BY ScopeWhileMaking
<1>2. /\ revision' = revision /\ scope' = scope /\ fanoutDone' = done
      /\ wave' = IF over /\ skipped = {} /\ next # {} THEN Min(next) ELSE i
      /\ workflow' = [t \in Types |->
                        IF over /\ t \in skipped
                          THEN [generation |-> revision, status |-> "skipped"]
                          ELSE workflow[t]]
      /\ completed' = IF done THEN completed \cup {"artifact_workflow"} ELSE completed
  BY <1>1, CoordinatorRuns DEF Coordinate
<1>3. /\ i \in DOMAIN Waves /\ Part(i) # {} /\ WaveAt(i) = Part(i)
      /\ \A k \in DOMAIN Waves : k < i => Part(k) \subseteq Reported
      /\ \A k \in DOMAIN Waves : k > i =>
            \A t \in ToSet(Waves[k]) : workflow[t].generation # revision
      /\ \A k \in DOMAIN Waves : k < i =>
            \A d \in ToSet(Waves[k]), t \in Current :
               workflow[d] = [generation |-> revision, status |-> "failed"] => d \notin Deps[t]
  BY CurrentWaveFacts, WaveWhileMaking
<1>4. workflow = [t \in Types |-> workflow[t]]
  BY DEF GraphTypeOK
<1>5. over <=> Part(i) \subseteq Reported
  BY <1>3 DEF WaveOver, Reported
<1>6. i \in Nat /\ i + 1 \in Nat
  BY <1>3, PlanFacts
<1> HIDE DEF i, skipped, next
<1>7. CASE ~over
  <2>1. fanoutDone' = FALSE /\ wave' = i /\ workflow' = workflow /\ completed' = completed
    BY <1>2, <1>3, <1>4, <1>7
  <2> QED BY <1>2, <1>3, <1>5, <1>7, <2>1 DEF GoesOn
<1>8. CASE over /\ skipped = {} /\ next # {}
  <2>1. fanoutDone' = FALSE /\ wave' = Min(next) /\ workflow' = workflow /\ completed' = completed
    BY <1>2, <1>3, <1>4, <1>8
  <2>2. /\ wave' \in DOMAIN Waves /\ wave' >= i + 1 /\ WaveAt(wave') # {}
        /\ \A k \in DOMAIN Waves : i + 1 <= k /\ k < wave' => WaveAt(k) = {}
    BY <1>6, <1>8, <2>1, NextWave DEF next
  <2>3. \A k \in DOMAIN Waves : WaveAt(k) = Part(k)
    BY WaveWhileMaking
  <2>4. \A k \in DOMAIN Waves : k \in Nat /\ (k < wave' => k < i \/ k = i \/ i + 1 <= k)
    BY <1>6, PlanFacts
  <2>5. \A k \in DOMAIN Waves : k < wave' => Part(k) \subseteq Reported
    BY <1>3, <1>5, <1>8, <2>2, <2>3, <2>4
  <2>6. \A k \in DOMAIN Waves : k >= wave' =>
           \A t \in ToSet(Waves[k]) : workflow[t].generation # revision
    <3>1. \A k \in DOMAIN Waves : k >= wave' => k > i
      BY <1>6, <2>2, <2>4
    <3> QED BY <1>3, <3>1
  <2>7. ~(Part(wave') \subseteq Reported)
    <3>1. PICK t \in Part(wave') : TRUE
      BY <2>2, <2>3
    <3>2. t \in ToSet(Waves[wave']) /\ wave' >= wave'
      BY <2>2, <2>4, <3>1 DEF Part
    <3>3. t \notin Reported
      BY <2>2, <2>6, <3>2 DEF Reported, OfGeneration
    <3> QED BY <3>1, <3>3
  <2>8. \A d \in Types, t \in Current :
           workflow[d] = [generation |-> revision, status |-> "failed"] => d \notin Deps[t]
    <3> SUFFICES ASSUME NEW d \in Types, NEW t \in Current,
                        workflow[d] = [generation |-> revision, status |-> "failed"]
                 PROVE  d \notin Deps[t]
      OBVIOUS
    <3>1. d \in OfGeneration(revision, {"failed"})
      BY DEF OfGeneration
    <3> QED BY <1>1, <1>8, <3>1 DEF skipped, SkippedBy
  <2>9. \A k \in DOMAIN Waves : k > wave' => k >= wave'
    BY <2>2, <2>4
  <2> QED BY <1>2, <2>1, <2>2, <2>3, <2>5, <2>6, <2>7, <2>8, <2>9, PlanFacts DEF GoesOn
<1>9. CASE over /\ (skipped # {} \/ next = {})
  <2>1. /\ fanoutDone' = TRUE /\ wave' = i
        /\ completed' = completed \cup {"artifact_workflow"}
        /\ workflow' = [t \in Types |->
                          IF t \in skipped
                            THEN [generation |-> revision, status |-> "skipped"]
                            ELSE workflow[t]]
    BY <1>2, <1>9
  <2>2. ASSUME skipped = {} PROVE Current \subseteq Reported
    <3> SUFFICES ASSUME NEW t \in Current PROVE t \in Reported
      OBVIOUS
    <3>1. PICK k \in DOMAIN Waves : t \in ToSet(Waves[k])
      BY ScopeFacts, PlanFacts
    <3>2. t \in Part(k) /\ WaveAt(k) = Part(k)
      BY <3>1, WaveWhileMaking DEF Part
    <3>3. ~(k >= i + 1)
      BY <1>9, <2>2, <3>2 DEF next, Occupied
    <3>4. k < i \/ k = i
      BY <1>6, <3>3, PlanFacts
    <3> QED BY <1>3, <1>5, <1>9, <3>2, <3>4
  <2> QED BY <1>2, <1>3, <2>1, <2>2 DEF Finishes, skipped
<1> QED BY <1>7, <1>8, <1>9

-----------------------------------------------------------------------------
(* The steps by what they do to the stages                                  *)

\* A stage other than the fan-out runs and completes.
Works(s) == Runs(s) /\ Complete(s) /\ UNCHANGED genVars

LEMMA StagesWork ==
  /\ RunPlainStage => \E s \in PlainStages : Works(s)
  /\ PlanningBlueprint => Works("planning_blueprint")
  /\ RenderQualityPasses \/ RenderQualityUnhealed \/ RenderQualityHealed
       => Works("render_quality")
  /\ ComplianceGate => Works("compliance_gate")
  /\ TeacherAnswers => Works("teacher_approval")
  /\ UnitAnswers => Works("unit_approval")
  /\ ExportFinalize => Works("export_finalize")
BY DEF RunPlainStage, PlanningBlueprint, RenderQualityPasses, RenderQualityUnhealed,
       RenderQualityHealed, ComplianceGate, TeacherAnswers, UnitAnswers, ExportFinalize, Works

WorkSteps ==
    \/ RunPlainStage \/ PlanningBlueprint \/ RenderQualityPasses \/ RenderQualityUnhealed
    \/ RenderQualityHealed \/ ComplianceGate \/ ExportFinalize \/ TeacherAnswers \/ UnitAnswers

LEMMA SomeStageWorks ==
  ASSUME WorkSteps
  PROVE  \E s \in Stages \ {"artifact_workflow"} : Works(s)
BY StagesWork DEF WorkSteps, Stages, PlainStages

LEMMA NextCases ==
  ASSUME [GraphNext]_vars
  PROVE  \/ Skip \/ FollowEdge \/ WorkSteps \/ Coordinate \/ RenderQualityRaises
         \/ \E t \in Types : GenerateOne(t) \/ GenerateRaises(t)
         \/ UNCHANGED vars
BY DEF GraphNext, GraphStep, WorkSteps, Ended

\* The gate error of render_quality ends the invocation and leaves the rest.
LEMMA RaiseFacts ==
  ASSUME RenderQualityRaises
  PROVE  /\ Runs("render_quality") /\ node = "render_quality" /\ node' = "raised"
         /\ ~routing /\ routing' = FALSE
         /\ UNCHANGED <<mode, completed, exported, compliance>>
         /\ UNCHANGED <<route, failCount, breaker, escalate, snapshots>>
         /\ UNCHANGED <<revision, wave, fanoutDone, scope, sent, workflow, references>>
         /\ UNCHANGED <<answer, rejected, approved, approvedIds>>
BY DEF RenderQualityRaises, Runs, genVars, qualityVars, gateVars

\* A stage is skipped when it has run; the fan-out only when it is over.
LEMMA SkipFacts ==
  ASSUME NodeInv, Skip
  PROVE  /\ ~routing /\ routing' = TRUE /\ node' = node /\ node \in completed \cap Stages
         /\ node = "artifact_workflow" => fanoutDone
         /\ node # "generate"
         /\ ~CanReenter(node)
BY DEF NodeInv, Skip, CanReenter, Stages, PlainStages

\* While the fan-out is not over there is something to send out.
LEMMA SendsWhileMaking ==
  ASSUME GraphTypeOK, NodeInv, RejectionInv, FanoutInv, routing, node = "artifact_workflow"
  PROVE  /\ ToSend = {} => fanoutDone
         /\ fanoutDone => ToSend = {}
         /\ ~fanoutDone => wave # 0 /\ ToSend \subseteq Part(wave)
         /\ ToSend \subseteq Types
         /\ Cardinality(ToSend) <= Parallelism
<1>1. CASE fanoutDone
  BY <1>1, FS_EmptySet, GraphAssumption DEF ToSend
<1>2. CASE ~fanoutDone
  <2>1. wave # 0 /\ ~(Part(wave) \subseteq Reported)
    BY <1>2 DEF FanoutInv
  <2>2. CurrentWave = wave /\ wave \in DOMAIN Waves /\ WaveAt(wave) = Part(wave)
    BY <1>2, <2>1, CurrentWaveFacts, WaveWhileMaking
  <2> DEFINE open == Part(wave) \ Reported
  <2>3. ToSend = FirstOf(open)
    BY <1>2, <2>2 DEF ToSend, Reported
  <2>4. open \subseteq ToSet(Waves[wave]) /\ open # {} /\ open \subseteq Types
    BY <2>1, <2>2, PlanFacts DEF Part
  <2>5. FirstOf(open) \subseteq open /\ FirstOf(open) # {} /\ Cardinality(FirstOf(open)) <= Parallelism
    BY <2>2, <2>4, FirstOfOpen, FirstOfBounded
  <2> QED BY <1>2, <2>1, <2>3, <2>4, <2>5
<1> QED BY <1>1, <1>2

\* Where an edge leads, from the fan-out and from the other stages.
LEMMA FanoutEdge ==
  ASSUME GraphTypeOK, NodeInv, RejectionInv, FanoutInv, FollowEdge, node = "artifact_workflow"
  PROVE  \/ fanoutDone /\ node' = "render_quality" /\ sent' = {}
         \/ /\ ~fanoutDone /\ node' = "generate" /\ wave # 0 /\ sent' \subseteq Part(wave)
            /\ sent' \subseteq Types /\ Cardinality(sent') <= Parallelism
<1>1. routing /\ sent' = ToSend /\ node' = IF ToSend = {} THEN "render_quality" ELSE "generate"
  BY DEF FollowEdge, Edge
<1> QED BY <1>1, SendsWhileMaking

LEMMA StageEdge ==
  ASSUME GraphTypeOK, NodeInv, FollowEdge, node # "artifact_workflow"
  PROVE  /\ sent' = {} /\ node' \in (Stages \ {"render_quality"}) \cup {"end"}
         /\ node' = "planning_blueprint" <=>
               \/ node = "preplanning_search"
               \/ node = "render_quality" /\ route = "planning_blueprint"
         /\ node' = "compliance_gate" <=> node = "render_quality" /\ route = "none"
         /\ node' = "teacher_approval" <=>
               \/ node = "render_quality" /\ route = "teacher_approval"
               \/ node = "compliance_gate" /\ compliance = "passed"
         /\ node' = "export_finalize" => node = "teacher_approval"
         /\ node = "export_finalize" => node' = "end"
         /\ node = "teacher_approval" /\ ~approved /\ answer = "reject_selected"
               => node' = "artifact_workflow"
<1>1. node \in Stages /\ node' = Edge(node) /\ sent' = {}
  BY DEF FollowEdge, NodeInv
<1>2. CASE node = "render_quality"
  <2>1. node' = AfterRenderQuality
    BY <1>1, <1>2 DEF Edge
  <2>2. /\ route = "none" => node' = "compliance_gate"
        /\ route = "" => node' = "artifact_workflow"
        /\ route \notin {"none", ""} => node' = route
    BY <2>1 DEF AfterRenderQuality
  <2> QED BY <1>1, <1>2, <2>2 DEF GraphTypeOK, Stages, PlainStages
<1>3. CASE node = "compliance_gate"
  BY <1>1, <1>3 DEF Edge, AfterCompliance, Stages, PlainStages
<1>4. CASE node = "teacher_approval"
  BY <1>1, <1>4 DEF Edge, AfterTeacher, Stages, PlainStages
<1>5. CASE node \in {"setup_contract", "triage", "preplanning_search", "planning_blueprint",
                     "post_blueprint_research", "export_finalize"}
  BY <1>1, <1>5 DEF Edge, AfterTriage, Stages, PlainStages
<1>6. CASE node \in {"unit_planning", "unit_approval", "unit_prep"}
  BY <1>1, <1>6 DEF Edge, AfterUnitApproval, Stages, PlainStages
<1> QED BY <1>1, <1>2, <1>3, <1>4, <1>5, <1>6 DEF Stages, PlainStages

-----------------------------------------------------------------------------
(* Types                                                                    *)

LEMMA GraphTypeInit == GraphInit => GraphTypeOK
<1> SUFFICES ASSUME GraphInit PROVE GraphTypeOK
  OBVIOUS
<1>1. Cardinality(sent) <= Parallelism /\ sent \subseteq Types
  BY FS_EmptySet, GraphAssumption DEF GraphInit
<1>2. wave \in 0..Len(Waves)
  BY PlanFacts DEF GraphInit
<1>3. workflow \in [Types -> [generation : Nat, status : Terminal \cup {"none"}]]
  BY DEF GraphInit
<1>4. failCount \in 0..(MaxHealing + 1) /\ breaker \in 0..(MaxHealing + 1)
  BY GraphAssumption DEF GraphInit
<1>5. /\ mode \in {"pack", "plan_unit"} /\ keepsAll \in BOOLEAN /\ routing = FALSE
      /\ route = "none" /\ revision = 1 /\ fanoutDone = FALSE /\ scope = {}
      /\ escalate = FALSE /\ approved = FALSE /\ compliance = "unset"
      /\ references = {} /\ snapshots = {} /\ approvedIds = {} /\ exported = {}
  BY DEF GraphInit
<1>6. /\ route \in {"none", "", "artifact_workflow", "planning_blueprint",
                   "post_blueprint_research", "teacher_approval"}
      /\ routing \in BOOLEAN /\ fanoutDone \in BOOLEAN
      /\ scope \subseteq Requested /\ escalate \in BOOLEAN /\ approved \in BOOLEAN
      /\ compliance \in {"unset", "passed", "failed"}
  BY <1>5, Zenon
<1>7. revision \in Nat \ {0}
  BY <1>5
<1>8. /\ references \cup snapshots \subseteq Documents
      /\ approvedIds \cup exported \subseteq Documents
  BY <1>5, Zenon
<1> QED BY <1>1, <1>2, <1>3, <1>4, <1>5, <1>6, <1>7, <1>8, Zenon DEF GraphTypeOK

LEMMA WorkTypes ==
  ASSUME GraphTypeOK, WorkSteps
  PROVE  GraphTypeOK'
<1>1. UNCHANGED <<revision, wave, fanoutDone, scope, sent, workflow, references, mode, keepsAll>>
      /\ routing' = TRUE
  BY SomeStageWorks DEF Works, Complete, genVars
<1>2. MaxHealing \in Nat \ {0}
  BY GraphAssumption
<1>3. /\ route' \in {"none", "", "artifact_workflow", "planning_blueprint",
                     "post_blueprint_research", "teacher_approval"}
      /\ escalate' \in BOOLEAN /\ approved' \in BOOLEAN
      /\ failCount' \in 0..(MaxHealing + 1) /\ breaker' \in 0..(MaxHealing + 1)
      /\ compliance' \in {"unset", "passed", "failed"}
      /\ snapshots' \subseteq Documents
      /\ approvedIds' \cup exported' \subseteq Documents
  <2>1. CASE RunPlainStage \/ PlanningBlueprint
    BY <2>1 DEF RunPlainStage, PlanningBlueprint, qualityVars, gateVars, GraphTypeOK
  <2>2. CASE RenderQualityPasses \/ RenderQualityUnhealed
    BY <2>2 DEF RenderQualityPasses, RenderQualityUnhealed, gateVars, GraphTypeOK
  <2>3. CASE RenderQualityHealed
    <3>1. PICK seen \in {0, breaker} :
             /\ failCount' = IF failCount > MaxHealing THEN failCount ELSE failCount + 1
             /\ breaker' = IF Exhausted(seen) THEN MaxHealing + 1 ELSE seen + 2
             /\ route' \in {"teacher_approval", "planning_blueprint", "artifact_workflow"}
             /\ escalate' \in {TRUE, escalate} /\ snapshots' \in {{}, snapshots}
             /\ UNCHANGED <<compliance, approved, approvedIds, exported>>
      BY <2>3 DEF RenderQualityHealed, gateVars
    <3>0. failCount \in 0..(MaxHealing + 1) /\ breaker \in 0..(MaxHealing + 1)
      BY DEF GraphTypeOK
    <3>2. breaker' \in 0..(MaxHealing + 1)
      BY <1>2, <3>0, <3>1 DEF Exhausted
    <3>3. failCount' \in 0..(MaxHealing + 1)
      BY <1>2, <3>0, <3>1
    <3> QED BY <3>1, <3>2, <3>3 DEF GraphTypeOK
  <2>4. CASE ComplianceGate \/ ExportFinalize
    BY <2>4 DEF ComplianceGate, ExportFinalize, gateVars, GraphTypeOK
  <2>5. CASE TeacherAnswers \/ UnitAnswers
    BY <2>5 DEF TeacherAnswers, UnitAnswers, qualityVars, GraphTypeOK
  <2> QED BY <2>1, <2>2, <2>3, <2>4, <2>5 DEF WorkSteps
<1> QED BY <1>1, <1>3 DEF GraphTypeOK

LEMMA GraphTypeStep ==
  ASSUME GraphTypeOK, NodeInv, RouteInv, RejectionInv, FanoutInv, [GraphNext]_vars
  PROVE  GraphTypeOK'
<1>1. CASE Skip
  BY <1>1 DEF Skip, genVars, qualityVars, gateVars, GraphTypeOK
<1>2. CASE FollowEdge
  <2>1. sent' \subseteq Types /\ Cardinality(sent') <= Parallelism
    BY <1>2, FanoutEdge, StageEdge, FS_EmptySet, GraphAssumption
  <2>2. UNCHANGED <<mode, keepsAll, revision, wave, fanoutDone, scope, workflow, references,
                    route, failCount, breaker, escalate, snapshots, compliance, approved,
                    approvedIds, exported>> /\ routing' = FALSE
    BY <1>2 DEF FollowEdge, qualityVars, gateVars
  <2> QED BY <2>1, <2>2 DEF GraphTypeOK
<1>3. CASE WorkSteps
  BY <1>3, WorkTypes
<1>4. CASE Coordinate
  <2>1. UNCHANGED <<mode, keepsAll, sent, references, route, failCount, breaker, escalate,
                    snapshots, compliance, approved, approvedIds, exported>>
        /\ routing' = TRUE
    BY <1>4 DEF Coordinate, qualityVars, gateVars
  <2>2. /\ revision' \in Nat \ {0} /\ wave' \in 0..Len(Waves) /\ fanoutDone' \in BOOLEAN
        /\ scope' \subseteq Requested
        /\ workflow' \in [Types -> [generation : Nat, status : Terminal \cup {"none"}]]
    <3>0. /\ revision \in Nat \ {0} /\ scope \subseteq Requested
          /\ workflow \in [Types -> [generation : Nat, status : Terminal \cup {"none"}]]
      BY DEF GraphTypeOK
    <3>4. DOMAIN Waves \subseteq 0..Len(Waves)
      BY PlanFacts
    <3>1. CASE NewCycle
      <4>1. ScopedTypes \subseteq Requested
        BY ScopeFacts
      <4>2. /\ revision' = revision + 1 /\ wave' \in DOMAIN Waves /\ fanoutDone' = FALSE
            /\ scope' = ScopedTypes /\ workflow' = workflow
        BY <3>1, Zenon DEF NewCycle
      <4>3. revision + 1 \in Nat \ {0}
        BY <3>0
      <4> QED BY <3>0, <3>4, <4>1, <4>2, <4>3
    <3>2. CASE GoesOn
      BY <3>0, <3>2, <3>4 DEF GoesOn
    <3>3. CASE Finishes
      BY <3>0, <3>3, <3>4 DEF Finishes, Terminal
    <3> QED BY <1>4, <3>1, <3>2, <3>3, CoordinatorRuns, CoordinateNew, CoordinateMaking
  <2> QED BY <2>1, <2>2 DEF GraphTypeOK
<1>5. ASSUME NEW t \in Types, GenerateOne(t) PROVE GraphTypeOK'
  <2>1. /\ UNCHANGED <<mode, keepsAll, routing, revision, wave, fanoutDone, scope, route,
                    failCount, breaker, escalate, snapshots, compliance, approved,
                    approvedIds, exported>>
        /\ sent' = sent \ {t} /\ t \in sent
        /\ \E x \in {"passed", "failed"} : workflow' = [workflow EXCEPT ![t] =
                            [generation |-> revision, status |-> x]]
        /\ references' \in {references, references \cup {<<t, revision>>}}
    BY <1>5 DEF GenerateOne, qualityVars, gateVars
  <2>0. /\ revision \in Nat \ {0} /\ wave \in 0..Len(Waves)
        /\ sent \subseteq Types /\ Cardinality(sent) <= Parallelism
        /\ workflow \in [Types -> [generation : Nat, status : Terminal \cup {"none"}]]
        /\ references \subseteq Documents
    BY DEF GraphTypeOK
  <2>2. references' \subseteq Documents
    BY <2>0, <2>1 DEF Documents
  <2>3. workflow' \in [Types -> [generation : Nat, status : Terminal \cup {"none"}]]
    BY <2>0, <2>1 DEF Terminal
  <2>4. sent' \subseteq Types /\ Cardinality(sent') <= Parallelism
    <3>1. IsFiniteSet(sent)
      <4>1. sent \subseteq Part(wave) /\ wave \in DOMAIN Waves
        <5>1. node = "generate"
          BY <1>5 DEF GenerateOne
        <5> QED BY <2>0, <5>1, PlanFacts DEF FanoutInv
      <4>2. Waves[wave] \in Seq(Types)
        BY <4>1, PlanAssumption
      <4>3. Waves[wave] \in Surjection(1..Len(Waves[wave]), ToSet(Waves[wave]))
        BY <4>2 DEF Surjection, ToSet
      <4>4. IsFiniteSet(ToSet(Waves[wave]))
        BY <4>2, <4>3, FS_Interval, FS_Surjection
      <4> QED BY <4>1, <4>4, FS_Subset DEF Part
    <3>2. Cardinality(sent') \in Nat /\ Cardinality(sent) \in Nat /\ Cardinality(sent') <= Cardinality(sent)
      BY <2>1, <3>1, FS_Subset, FS_CardinalityType
    <3> QED BY <2>0, <2>1, <3>2, GraphAssumption
  <2> QED BY <2>1, <2>2, <2>3, <2>4 DEF GraphTypeOK
<1>6. ASSUME NEW t \in Types, GenerateRaises(t) PROVE GraphTypeOK'
  <2>1. Cardinality({}) <= Parallelism
    BY FS_EmptySet, GraphAssumption
  <2> QED BY <1>6, <2>1 DEF GenerateRaises, qualityVars, gateVars, GraphTypeOK
<1>7. CASE UNCHANGED vars
  BY <1>7 DEF vars, GraphTypeOK
<1>r. CASE RenderQualityRaises
  BY <1>r, RaiseFacts DEF RenderQualityRaises, GraphTypeOK
<1> QED BY <1>1, <1>2, <1>3, <1>4, <1>5, <1>6, <1>7, <1>r, NextCases

-----------------------------------------------------------------------------
(* Where the graph is                                                       *)

LEMMA NodeStep ==
  ASSUME GraphTypeOK, NodeInv, RouteInv, RejectionInv, FanoutInv, [GraphNext]_vars
  PROVE  NodeInv'
<1>1. CASE Skip
  <2>1. UNCHANGED <<node, completed, rejected, sent, fanoutDone>> /\ routing' = TRUE
    BY <1>1 DEF Skip, genVars, gateVars
  <2> QED BY <1>1, <2>1, SkipFacts DEF NodeInv
<1>2. CASE FollowEdge
  <2>1. UNCHANGED <<completed, rejected, fanoutDone>> /\ routing' = FALSE
    BY <1>2 DEF FollowEdge, gateVars
  <2>2. node' \in Stages \cup {"generate", "end"} /\ (node' # "generate" => sent' = {})
    BY <1>2, FanoutEdge, StageEdge DEF Stages, PlainStages
  <2> QED BY <2>1, <2>2 DEF NodeInv
<1>3. CASE WorkSteps
  <2>1. PICK s \in Stages \ {"artifact_workflow"} : Works(s)
    BY <1>3, SomeStageWorks
  <2>2. /\ node = s /\ node' = s /\ routing' = TRUE /\ completed' = completed \cup {s}
        /\ UNCHANGED <<sent, fanoutDone>>
    BY <2>1 DEF Works, Runs, Complete, genVars
  <2>3. rejected' \subseteq Requested
    BY <1>3 DEF WorkSteps, NodeInv, RunPlainStage, PlanningBlueprint, RenderQualityPasses,
       RenderQualityUnhealed, RenderQualityHealed, ComplianceGate, ExportFinalize,
       TeacherAnswers, UnitAnswers, gateVars
  <2>4. s # "generate"
    BY DEF Stages, PlainStages
  <2> QED BY <2>1, <2>2, <2>3, <2>4 DEF NodeInv
<1>4. CASE Coordinate
  <2>1. /\ node = "artifact_workflow" /\ UNCHANGED <<node, sent, rejected>>
        /\ routing' = TRUE
    BY <1>4, CoordinatorRuns DEF Coordinate, gateVars
  <2>2. \/ completed' = completed /\ fanoutDone' = FALSE
        \/ completed' = completed \cup {"artifact_workflow"}
    BY <1>4, CoordinatorRuns, CoordinateNew, CoordinateMaking DEF NewCycle, GoesOn, Finishes
  <2>3. "artifact_workflow" \in Stages /\ "artifact_workflow" # "generate"
    BY DEF Stages
  <2> QED BY <2>1, <2>2, <2>3 DEF NodeInv
<1>5. ASSUME NEW t \in Types, GenerateOne(t) PROVE NodeInv'
  <2>1. /\ node = "generate" /\ UNCHANGED <<completed, rejected, fanoutDone, routing>>
        /\ sent' = sent \ {t}
        /\ node' = IF sent = {t} THEN "artifact_workflow" ELSE node
    BY <1>5 DEF GenerateOne, gateVars
  <2>2. ~routing
    BY <2>1 DEF FanoutInv
  <2> QED BY <2>1, <2>2 DEF NodeInv, Stages
<1>6. ASSUME NEW t \in Types, GenerateRaises(t) PROVE NodeInv'
  <2>1. /\ node = "generate" /\ UNCHANGED <<completed, rejected, fanoutDone, routing>>
        /\ sent' = {} /\ node' = "raised"
    BY <1>6 DEF GenerateRaises, gateVars
  <2>2. ~routing
    BY <2>1 DEF FanoutInv
  <2> QED BY <2>1, <2>2 DEF NodeInv
<1>7. CASE UNCHANGED vars
  BY <1>7 DEF vars, NodeInv
<1>r. CASE RenderQualityRaises
  BY <1>r, RaiseFacts DEF NodeInv
<1> QED BY <1>1, <1>2, <1>3, <1>4, <1>5, <1>6, <1>7, <1>r, NextCases

LEMMA RouteStep ==
  ASSUME GraphTypeOK, NodeInv, RouteInv, RejectionInv, FanoutInv, [GraphNext]_vars
  PROVE  RouteInv'
<1>0. failCount \in Nat
  <2>1. failCount \in 0..(MaxHealing + 1)
    BY DEF GraphTypeOK
  <2> QED BY <2>1, GraphAssumption
<1>1. CASE Skip
  <2>1. /\ UNCHANGED <<node, completed, route, failCount, fanoutDone, compliance>>
        /\ routing' = TRUE /\ ~routing
    BY <1>1, SkipFacts DEF Skip, genVars, qualityVars
  <2>2. ~(node = "planning_blueprint" /\ route = "planning_blueprint")
    BY <1>1, SkipFacts DEF CanReenter
  <2> QED BY <2>1, <2>2 DEF RouteInv
<1>2. CASE FollowEdge
  <2>1. /\ UNCHANGED <<completed, route, failCount, fanoutDone, compliance>>
        /\ routing' = FALSE /\ routing
    BY <1>2 DEF FollowEdge, qualityVars
  <2>2. CASE node = "artifact_workflow"
    BY <1>2, <2>1, <2>2, FanoutEdge DEF RouteInv
  <2>3. CASE node # "artifact_workflow"
    <3>1. node \in completed
      BY <2>1, <2>3 DEF NodeInv
    <3> QED BY <1>2, <2>1, <2>3, <3>1, StageEdge DEF RouteInv
  <2> QED BY <2>2, <2>3
<1>3. CASE RunPlainStage
  <2>1. PICK s \in PlainStages : Works(s)
    BY <1>3, StagesWork
  <2>2. /\ node = s /\ node' = s /\ ~routing
        /\ UNCHANGED <<route, failCount, fanoutDone, compliance>>
    BY <1>3, <2>1 DEF Works, Runs, Complete, genVars, qualityVars, RunPlainStage
  <2> QED BY <2>2 DEF RouteInv, PlainStages
<1>4. CASE PlanningBlueprint
  <2>1. /\ node' = "planning_blueprint" /\ route' = "artifact_workflow"
    BY <1>4 DEF PlanningBlueprint, Runs, Complete
  <2> QED BY <2>1 DEF RouteInv
<1>5. CASE RenderQualityPasses \/ RenderQualityUnhealed \/ RenderQualityHealed
  <2>1. /\ node = "render_quality" /\ node' = "render_quality" /\ routing' = TRUE
        /\ UNCHANGED fanoutDone
    BY <1>5, StagesWork DEF Works, Runs, Complete, genVars
  <2>2. route' = "teacher_approval" => failCount' > 0
    <3>1. RenderQualityPasses \/ RenderQualityUnhealed => route' # "teacher_approval"
      BY DEF RenderQualityPasses, RenderQualityUnhealed
    <3>2. RenderQualityHealed => failCount' = IF failCount > MaxHealing THEN failCount ELSE failCount + 1
      BY DEF RenderQualityHealed
    <3> QED BY <1>0, <1>5, <3>1, <3>2, GraphAssumption
  <2> QED BY <2>1, <2>2 DEF RouteInv
<1>6. CASE ComplianceGate
  <2>1. /\ node = "compliance_gate" /\ node' = node /\ routing' = TRUE /\ ~routing
        /\ completed' = completed \cup {"compliance_gate"} /\ UNCHANGED <<fanoutDone, failCount>>
        /\ \/ route' = route
           \/ compliance' = "failed" /\ route' = "artifact_workflow"
    BY <1>6 DEF ComplianceGate, Runs, Complete, genVars
  <2> QED BY <2>1 DEF RouteInv
<1>7. CASE TeacherAnswers
  <2>1. /\ node = "teacher_approval" /\ node' = node
        /\ completed' = completed \cup {"teacher_approval"}
        /\ UNCHANGED <<fanoutDone, failCount, route, compliance>>
    BY <1>7 DEF TeacherAnswers, Runs, Complete, genVars, qualityVars
  <2> QED BY <2>1 DEF RouteInv
<1>8. CASE UnitAnswers
  <2>1. /\ node = "unit_approval" /\ node' = node /\ UNCHANGED <<failCount, route>>
    BY <1>8 DEF UnitAnswers, Runs, Complete, qualityVars
  <2> QED BY <2>1 DEF RouteInv
<1>9. CASE ExportFinalize
  <2>1. /\ node = "export_finalize" /\ node' = node /\ UNCHANGED <<failCount, fanoutDone>>
        /\ route' \in {"", route}
    BY <1>9 DEF ExportFinalize, Runs, Complete, genVars
  <2> QED BY <2>1 DEF RouteInv
<1>10. CASE Coordinate
  <2>1. /\ node = "artifact_workflow" /\ UNCHANGED <<node, route, failCount>>
    BY <1>10, CoordinatorRuns DEF Coordinate, qualityVars
  <2> QED BY <2>1 DEF RouteInv
<1>11. ASSUME NEW t \in Types, GenerateOne(t) \/ GenerateRaises(t) PROVE RouteInv'
  <2>1. /\ node = "generate" /\ node' \in {"generate", "artifact_workflow", "raised"}
        /\ UNCHANGED <<route, failCount>>
    BY <1>11 DEF GenerateOne, GenerateRaises, qualityVars
  <2> QED BY <2>1 DEF RouteInv
<1>12. CASE UNCHANGED vars
  BY <1>12 DEF vars, RouteInv
<1>r. CASE RenderQualityRaises
  BY <1>r, RaiseFacts DEF RouteInv
<1> QED
  BY <1>1, <1>2, <1>3, <1>4, <1>5, <1>6, <1>7, <1>8, <1>9, <1>10, <1>11, <1>12, <1>r, NextCases
  DEF WorkSteps

-----------------------------------------------------------------------------
(* The fan-out                                                              *)

\* A branch that is running has not reported, nor has a later wave.
LEMMA BranchFacts ==
  ASSUME GraphTypeOK, NodeInv, RejectionInv, FanoutInv, NEW t \in sent
  PROVE  /\ node = "generate" /\ ~routing /\ ~fanoutDone /\ Progress
         /\ wave \in DOMAIN Waves /\ t \in ToSet(Waves[wave]) /\ t \in Current
         /\ t \in Types
         /\ \A k \in DOMAIN Waves : k # wave => t \notin ToSet(Waves[k])
<1>1. node = "generate"
  BY DEF NodeInv
<1>2. ~routing /\ ~fanoutDone /\ Progress /\ wave # 0 /\ sent \subseteq Part(wave)
  BY <1>1 DEF FanoutInv
<1>3. wave \in 0..Len(Waves)
  BY DEF GraphTypeOK
<1> QED BY <1>1, <1>2, <1>3, PlanFacts DEF Part

LEMMA FanoutByCoordinate ==
  ASSUME GraphTypeOK, NodeInv, RouteInv, RejectionInv, FanoutInv, Coordinate
  PROVE  FanoutInv'
<1>0. /\ node' = "artifact_workflow" /\ sent' = sent
      /\ revision \in Nat \ {0}
      /\ \A t \in Types : workflow[t].generation \in Nat /\ workflow[t].generation <= revision
  <2>1. workflow \in [Types -> [generation : Nat, status : Terminal \cup {"none"}]]
        /\ revision \in Nat \ {0}
    BY DEF GraphTypeOK
  <2> QED BY <2>1, CoordinatorRuns DEF Coordinate, FanoutInv
<1>1. CASE NewCycle
  <2>1. Current' = RequestedNow
    <3>1. scope' = ScopedTypes
      BY <1>1 DEF NewCycle
    <3> QED BY <3>1 DEF Current, RequestedNow
  <2>2. /\ revision' = revision + 1 /\ workflow' = workflow /\ fanoutDone' = FALSE
        /\ wave' \in DOMAIN Waves /\ ToSet(Waves[wave']) \cap Current' # {}
        /\ \A k \in DOMAIN Waves : k < wave' => ToSet(Waves[k]) \cap Current' = {}
    BY <1>1, <2>1 DEF NewCycle
  <2>3. \A t \in Types : workflow'[t].generation # revision'
    BY <1>0, <2>2
  <2>4. Reported' = {}
    BY <2>3 DEF Reported, OfGeneration
  <2>5. wave' # 0
    BY <2>2, PlanFacts
  <2>6. Progress'
    BY <2>2, <2>3, <2>4, PlanFacts DEF Progress, Part
  <2>7. \A t \in Types : workflow'[t].generation <= revision'
    BY <1>0, <2>2
  <2> QED BY <1>0, <2>2, <2>4, <2>5, <2>6, <2>7 DEF FanoutInv, Part
<1>2. CASE GoesOn
  <2>1. /\ Current' = Current /\ Reported' = Reported /\ fanoutDone' = FALSE /\ ~fanoutDone
        /\ revision' = revision /\ workflow' = workflow /\ wave' \in DOMAIN Waves
    BY <1>2 DEF GoesOn, Current, Reported, OfGeneration
  <2>2. \A k : Part(k)' = Part(k)
    BY <2>1 DEF Part
  <2>3. Progress
    BY <2>1 DEF FanoutInv
  <2>4. wave' # 0
    BY <2>1, PlanFacts
  <2>5. Progress'
    BY <1>2, <2>1, <2>3 DEF GoesOn, Progress, Part
  <2>6. ~((Part(wave) \subseteq Reported)')
    BY <1>2, <2>1 DEF GoesOn, Part
  <2> QED BY <1>0, <2>1, <2>4, <2>5, <2>6 DEF FanoutInv
<1>3. CASE Finishes
  <2> DEFINE skipped == SkippedBy(OfGeneration(revision, {"failed"}))
  <2>1. /\ Current' = Current /\ fanoutDone' = TRUE /\ revision' = revision
        /\ workflow' = [t \in Types |->
                          IF t \in skipped
                            THEN [generation |-> revision, status |-> "skipped"]
                            ELSE workflow[t]]
        /\ Current \subseteq Reported \/ skipped # {}
    BY <1>3 DEF Finishes, Current
  <2>2. skipped \subseteq Types
    BY ScopeFacts DEF SkippedBy
  <2> HIDE DEF skipped
  <2>3. \A t \in Types : workflow'[t].generation <= revision'
    BY <1>0, <2>1
  <2>4. skipped \subseteq OfGeneration(revision, {"skipped"})'
    BY <2>1, <2>2 DEF OfGeneration
  <2>5. Reported \subseteq Reported'
    BY <2>1 DEF Reported, OfGeneration, Terminal
  <2> QED BY <1>0, <2>1, <2>3, <2>4, <2>5 DEF FanoutInv
<1> QED BY <1>1, <1>2, <1>3, CoordinatorRuns, CoordinateNew, CoordinateMaking

LEMMA FanoutByBranch ==
  ASSUME GraphTypeOK, NodeInv, RejectionInv, FanoutInv, NEW t \in Types, GenerateOne(t)
  PROVE  FanoutInv'
<1>1. PICK x \in {"passed", "failed"} :
         workflow' = [workflow EXCEPT ![t] = [generation |-> revision, status |-> x]]
  BY DEF GenerateOne
<1>2. /\ UNCHANGED <<revision, wave, fanoutDone, scope, routing>>
      /\ t \in sent /\ sent' \subseteq sent /\ node' \in {"generate", "artifact_workflow"}
  BY DEF GenerateOne
<1>3. /\ ~routing /\ ~fanoutDone /\ Progress /\ node = "generate"
      /\ wave \in DOMAIN Waves /\ t \in ToSet(Waves[wave])
      /\ \A k \in DOMAIN Waves : k # wave => t \notin ToSet(Waves[k])
  BY <1>2, BranchFacts
<1>4. /\ workflow \in [Types -> [generation : Nat, status : Terminal \cup {"none"}]]
      /\ revision \in Nat \ {0}
  BY DEF GraphTypeOK
<1>5. /\ \A u \in Types \ {t} : workflow'[u] = workflow[u]
      /\ workflow'[t] = [generation |-> revision, status |-> x]
  BY <1>1, <1>4
<1>6. Current' = Current /\ \A k : Part(k)' = Part(k)
  BY <1>2 DEF Current, Part
<1>7. Reported \subseteq Reported'
  BY <1>2, <1>5 DEF Reported, OfGeneration, Terminal
<1>8. \A u \in Types : workflow'[u].generation <= revision'
  BY <1>2, <1>4, <1>5 DEF FanoutInv
<1>9. Progress'
  <2>1. wave # 0 => Part(wave) # {}
    BY <1>3 DEF Progress
  <2>2. \A k \in DOMAIN Waves : k < wave => Part(k) \subseteq Reported'
    BY <1>3, <1>7 DEF Progress
  <2>3. \A k \in DOMAIN Waves : k < wave \/ k > wave => k # wave
    BY PlanFacts, <1>3
  <2>4. \A k \in DOMAIN Waves : k < wave \/ k > wave =>
           \A u \in ToSet(Waves[k]) : workflow'[u] = workflow[u]
    BY <1>3, <1>5, <2>3, PlanFacts
  <2>5. \A k \in DOMAIN Waves : k > wave =>
           \A u \in ToSet(Waves[k]) : workflow'[u].generation # revision
    BY <1>3, <2>4 DEF Progress
  <2>6. \A k \in DOMAIN Waves : k < wave =>
           \A d \in ToSet(Waves[k]), u \in Current :
              workflow'[d] = [generation |-> revision, status |-> "failed"] => d \notin Deps[u]
    BY <1>3, <2>4 DEF Progress
  <2>7. \A u \in Types :
           workflow'[u].generation = revision => workflow'[u].status \in {"passed", "failed"}
    BY <1>3, <1>5 DEF Progress
  <2> QED BY <1>2, <1>6, <2>1, <2>2, <2>5, <2>6, <2>7 DEF Progress, Part
<1>10. node' = "generate" => sent' \subseteq Part(wave) /\ wave # 0
  BY <1>2, <1>3 DEF FanoutInv
<1> QED BY <1>2, <1>3, <1>6, <1>8, <1>9, <1>10 DEF FanoutInv, Part

LEMMA FanoutStep ==
  ASSUME GraphTypeOK, NodeInv, RouteInv, RejectionInv, FanoutInv, [GraphNext]_vars
  PROVE  FanoutInv'
<1>0. ASSUME UNCHANGED <<revision, wave, fanoutDone, scope, workflow>>
      PROVE  /\ (\A t \in Types : workflow[t].generation <= revision)'
             /\ (fanoutDone =>
                   Current \subseteq Reported \/ OfGeneration(revision, {"skipped"}) # {})'
             /\ (~fanoutDone => Progress)'
             /\ \A k : Part(k)' = Part(k) /\ Reported' = Reported
  BY <1>0 DEF FanoutInv, Current, Reported, OfGeneration, Progress, Part
<1>1. CASE Skip
  <2>1. /\ UNCHANGED <<revision, wave, fanoutDone, scope, workflow>>
        /\ node' = "artifact_workflow" => fanoutDone'
        /\ node' # "generate"
    BY <1>1, SkipFacts DEF Skip, genVars
  <2> QED BY <1>0, <2>1 DEF FanoutInv
<1>2. CASE FollowEdge
  <2>1. UNCHANGED <<revision, wave, fanoutDone, scope, workflow>> /\ routing' = FALSE
    BY <1>2 DEF FollowEdge
  <2>2. node' = "generate" => ~fanoutDone /\ wave # 0 /\ sent' \subseteq Part(wave)
    BY <1>2, FanoutEdge, StageEdge DEF Stages, PlainStages
  <2> QED BY <1>0, <2>1, <2>2 DEF FanoutInv, Part
<1>3. CASE WorkSteps
  <2>1. PICK s \in Stages \ {"artifact_workflow"} : Works(s)
    BY <1>3, SomeStageWorks
  <2>2. /\ UNCHANGED <<revision, wave, fanoutDone, scope, workflow>>
        /\ node' \notin {"artifact_workflow", "generate"}
    BY <2>1 DEF Works, Runs, Complete, genVars, Stages, PlainStages
  <2> QED BY <1>0, <2>2 DEF FanoutInv
<1>4. CASE Coordinate
  BY <1>4, FanoutByCoordinate
<1>5. ASSUME NEW t \in Types, GenerateOne(t) PROVE FanoutInv'
  BY <1>5, FanoutByBranch
<1>6. ASSUME NEW t \in Types, GenerateRaises(t) PROVE FanoutInv'
  <2>1. UNCHANGED <<revision, wave, fanoutDone, scope, workflow>> /\ node' = "raised"
    BY <1>6 DEF GenerateRaises
  <2> QED BY <1>0, <2>1 DEF FanoutInv
<1>7. CASE UNCHANGED vars
  <2>1. UNCHANGED <<revision, wave, fanoutDone, scope, workflow, node, routing, sent>>
    BY <1>7 DEF vars
  <2> QED BY <1>0, <2>1 DEF FanoutInv, Part
<1>r. CASE RenderQualityRaises
  BY <1>0, <1>r, RaiseFacts DEF FanoutInv
<1> QED BY <1>1, <1>2, <1>3, <1>4, <1>5, <1>6, <1>7, <1>r, NextCases

-----------------------------------------------------------------------------
(* Rejections                                                               *)

\* Without anything to generate again every stage of the loop is skipped.
LEMMA IdleOnlySkips ==
  ASSUME Idle, fanoutDone, Rejections = {}, NEW s, Runs(s)
  PROVE  FALSE
<1>1. node \in completed /\ CanReenter(node)
  BY DEF Runs, Idle
<1> QED BY <1>1 DEF Idle, CanReenter

LEMMA MoreRejections ==
  ASSUME UNCHANGED <<answer, rejected>>, references \subseteq references'
  PROVE  (Rejections' = {} => Rejections = {}) /\ (Pending' <=> Pending)
BY DEF Rejections, Pending

LEMMA RejectionStep ==
  ASSUME GraphTypeOK, NodeInv, RouteInv, RejectionInv, FanoutInv, [GraphNext]_vars
  PROVE  RejectionInv'
<1>1. CASE Skip
  <2>1. /\ UNCHANGED <<node, completed, route, compliance, fanoutDone, scope>>
        /\ UNCHANGED <<answer, rejected, approved, references>>
    BY <1>1, SkipFacts DEF Skip, genVars, qualityVars, gateVars
  <2>2. Idle' <=> Idle
    BY <2>1 DEF Idle
  <2> QED BY <2>1, <2>2, MoreRejections DEF RejectionInv
<1>2. CASE FollowEdge
  <2>1. /\ UNCHANGED <<completed, route, compliance, fanoutDone, scope>>
        /\ UNCHANGED <<answer, rejected, approved, references>>
    BY <1>2 DEF FollowEdge, qualityVars, gateVars
  <2>2. ASSUME Idle, fanoutDone, answer = "reject_selected" PROVE Idle'
    <3>1. CASE node = "artifact_workflow"
      BY <1>2, <2>1, <2>2, <3>1, FanoutEdge DEF Idle
    <3>2. CASE node # "artifact_workflow"
      <4>1. ~approved
        BY <2>2 DEF RejectionInv
      <4> QED BY <1>2, <2>1, <2>2, <3>2, <4>1, StageEdge DEF Idle
    <3> QED BY <3>1, <3>2
  <2> QED BY <2>1, <2>2, MoreRejections DEF RejectionInv, Pending
<1>3. ASSUME WorkSteps, UNCHANGED <<answer, rejected, approved>> PROVE RejectionInv'
  <2>1. PICK s \in Stages \ {"artifact_workflow"} : Works(s)
    BY <1>3, SomeStageWorks
  <2>2. Runs(s) /\ UNCHANGED <<fanoutDone, scope, references>>
    BY <2>1 DEF Works, genVars
  <2>3. Pending /\ scope = {} => Rejections # {}
    BY <2>2, IdleOnlySkips DEF RejectionInv
  <2> QED BY <1>3, <2>2, <2>3, MoreRejections DEF RejectionInv
<1>4. CASE TeacherAnswers
  <2>1. /\ node = "teacher_approval" /\ node' = node
        /\ completed' = completed \cup {"teacher_approval"}
        /\ UNCHANGED <<fanoutDone, scope, route, compliance>>
        /\ answer' = "reject_selected" => ~approved'
    BY <1>4 DEF TeacherAnswers, Runs, Complete, genVars, qualityVars
  <2>2. fanoutDone' /\ Idle'
    BY <2>1 DEF RouteInv, NodeInv, Idle
  <2> QED BY <2>1, <2>2 DEF RejectionInv
<1>5. CASE UnitAnswers
  <2>1. answer' # "reject_selected"
    BY <1>5 DEF UnitAnswers
  <2> QED BY <2>1 DEF RejectionInv, Pending
<1>6. CASE Coordinate
  <2>1. /\ UNCHANGED <<answer, rejected, approved, references>> /\ Runs("artifact_workflow")
    BY <1>6, CoordinatorRuns DEF Coordinate, gateVars
  <2>2. ASSUME Pending, scope = {} PROVE scope' # {}
    <3>1. fanoutDone /\ Rejections # {}
      BY <2>1, <2>2, IdleOnlySkips DEF RejectionInv
    <3>2. NewCycle
      BY <1>6, <3>1, CoordinatorRuns, CoordinateNew
    <3>3. Rejections \subseteq ScopedTypes
      BY <2>2, ScopeFacts, WithDependentsClosed DEF ScopedTypes
    <3> QED BY <3>1, <3>2, <3>3 DEF NewCycle
  <2>3. scope # {} => scope' # {}
    BY <1>6, ScopeFacts, CoordinatorRuns, CoordinateNew, CoordinateMaking
    DEF NewCycle, GoesOn, Finishes
  <2> QED BY <2>1, <2>2, <2>3, MoreRejections DEF RejectionInv
<1>7. ASSUME NEW t \in Types, GenerateOne(t) \/ GenerateRaises(t) PROVE RejectionInv'
  <2>1. /\ t \in sent /\ UNCHANGED <<answer, rejected, approved, scope>>
        /\ references \subseteq references'
    BY <1>7 DEF GenerateOne, GenerateRaises, gateVars
  <2>2. ~(Pending /\ scope = {})
    BY <2>1, BranchFacts DEF RejectionInv
  <2> QED BY <2>1, <2>2, MoreRejections DEF RejectionInv
<1>8. CASE UNCHANGED vars
  <2>1. /\ UNCHANGED <<node, completed, route, compliance, fanoutDone, scope>>
        /\ UNCHANGED <<answer, rejected, approved, references>>
    BY <1>8 DEF vars
  <2> QED BY <2>1, MoreRejections DEF RejectionInv, Idle
<1>9. WorkSteps => TeacherAnswers \/ UnitAnswers \/ UNCHANGED <<answer, rejected, approved>>
  BY DEF WorkSteps, RunPlainStage, PlanningBlueprint, RenderQualityPasses,
     RenderQualityUnhealed, RenderQualityHealed, ComplianceGate, ExportFinalize, gateVars
<1>r. CASE RenderQualityRaises
  <2>1. /\ Runs("render_quality") /\ "render_quality" \in Stages \ {"artifact_workflow"}
        /\ UNCHANGED <<fanoutDone, scope, references, answer, rejected, approved>>
    BY <1>r, RaiseFacts DEF Stages
  <2>2. Pending /\ scope = {} => Rejections # {}
    BY <2>1, IdleOnlySkips DEF RejectionInv
  <2> QED BY <2>1, <2>2, MoreRejections DEF RejectionInv
<1> QED BY <1>1, <1>2, <1>3, <1>4, <1>5, <1>6, <1>7, <1>8, <1>9, <1>r, NextCases

-----------------------------------------------------------------------------
(* Documents                                                                *)

\* No artifact is sent out before its dependencies.
LEMMA BranchInOrder ==
  ASSUME GraphTypeOK, NodeInv, RejectionInv, FanoutInv, DocumentInv,
         NEW t \in sent, NEW d \in Deps[t] \cap Requested
  PROVE  \/ workflow[d] = [generation |-> revision, status |-> "passed"]
         \/ d \notin RequestedNow /\ Has(d)
<1>1. /\ ~fanoutDone /\ Progress /\ wave \in DOMAIN Waves
      /\ t \in ToSet(Waves[wave]) /\ t \in Current
  BY BranchFacts
<1>2. RequestedNow = Current
  BY <1>1, ScopeWhileMaking
<1>3. CASE d \in Current
  <2>1. PICK k \in DOMAIN Waves : k < wave /\ d \in ToSet(Waves[k])
    BY <1>1, DepsEarlier
  <2>2. d \in Reported /\ d \in Types
    BY <1>1, <1>3, <2>1, PlanFacts DEF Progress, Part
  <2>3. workflow[d].generation = revision /\ workflow[d].status \in {"passed", "failed"}
    BY <1>1, <2>2 DEF Reported, OfGeneration, Progress
  <2>4. workflow[d] \in [generation : Nat, status : Terminal \cup {"none"}]
    BY <2>2 DEF GraphTypeOK
  <2>5. workflow[d] # [generation |-> revision, status |-> "failed"]
    BY <1>1, <2>1 DEF Progress
  <2> QED BY <2>3, <2>4, <2>5
<1>4. CASE d \notin Current
  <2>1. scope # {} /\ t \in scope /\ d \notin scope
    BY <1>1, <1>4 DEF Current
  <2> QED BY <1>2, <1>4, <2>1 DEF DocumentInv
<1> QED BY <1>3, <1>4

\* What a new scope leaves as it is has been made: a type in the scope depends
\* on a rejected one, and whatever else it depends on, that one depends on it
\* or it is in the scope too.
LEMMA ScopeLeavesMade ==
  ASSUME GraphTypeOK, NodeInv, DocumentInv,
         NEW t \in WithDependents[Rejections],
         NEW d \in (Deps[t] \cap Requested) \ WithDependents[Rejections]
  PROVE  Has(d)
<1> DEFINE S == WithDependents[Rejections]
           A == {u \in S : \A e \in (Deps[u] \cap Requested) \ S : Has(e)}
<1>1. Rejections \in SUBSET Requested /\ Requested \subseteq Types
  BY ScopeFacts
<1>2. S \subseteq Requested /\ Rejections \subseteq S /\ Closed(S)
  BY <1>1, WithDependentsClosed
<1>3. \A r \in Rejections : Has(r)
  BY DEF Rejections, Has
<1>4. Rejections \subseteq A
  BY <1>1, <1>2, <1>3 DEF DocumentInv
<1>5. Closed(A)
  <2> SUFFICES ASSUME NEW u \in Requested, NEW v \in Deps[u], v \in A
               PROVE  u \in A
    BY DEF Closed
  <2>1. u \in S
    BY <1>2 DEF Closed
  <2>2. ASSUME NEW e \in (Deps[u] \cap Requested) \ S PROVE Has(e)
    <3>1. v \in S /\ e # v /\ u \in Types
      BY <1>1
    <3>2. v \in Deps[e] \/ e \in Deps[v]
      BY <3>1, PlanAssumption
    <3>3. v \notin Deps[e]
      BY <1>2, <3>1 DEF Closed
    <3> QED BY <3>2, <3>3
  <2> QED BY <2>1, <2>2
<1>6. S \subseteq A
  <2>1. A \in SUBSET Requested
    BY <1>2
  <2> HIDE DEF A
  <2> QED BY <1>1, <1>4, <1>5, <2>1, WithDependentsLeast
<1> QED BY <1>6

LEMMA DocumentStep ==
  ASSUME GraphTypeOK, NodeInv, RouteInv, RejectionInv, FanoutInv, DocumentInv,
         [GraphNext]_vars
  PROVE  DocumentInv'
<1>1. ASSUME UNCHANGED <<scope, workflow, references>> PROVE DocumentInv'
  BY <1>1 DEF DocumentInv, Has
<1>2. CASE Skip \/ FollowEdge \/ WorkSteps \/ UNCHANGED vars
  <2>1. Skip \/ FollowEdge \/ UNCHANGED vars => UNCHANGED <<scope, workflow, references>>
    BY DEF Skip, FollowEdge, vars, genVars
  <2>2. WorkSteps => UNCHANGED <<scope, workflow, references>>
    BY SomeStageWorks DEF Works, genVars
  <2> QED BY <1>1, <1>2, <2>1, <2>2
<1>3. ASSUME NEW t \in Types, GenerateRaises(t) PROVE DocumentInv'
  BY <1>1, <1>3 DEF GenerateRaises
<1>4. ASSUME NEW t \in Types, GenerateOne(t) PROVE DocumentInv'
  <2>1. /\ scope' = scope /\ t \in sent
        /\ workflow \in [Types -> [generation : Nat, status : Terminal \cup {"none"}]]
    BY <1>4 DEF GenerateOne, GraphTypeOK
  <2>2. \A u : Has(u) => Has(u)'
    BY <1>4 DEF GenerateOne, Has
  <2>3. CASE /\ references' = references \cup {<<t, revision>>}
             /\ workflow' = [workflow EXCEPT ![t] =
                               [generation |-> revision, status |-> "passed"]]
    <3>0. Has(t)'
      <4>1. <<t, revision>> \in references' /\ <<t, revision>>[1] = t
        BY <2>3
      <4> QED BY <4>1, Zenon DEF Has
    <3>1. /\ Has(t)' /\ workflow'[t].status = "passed"
          /\ \A u \in Types \ {t} : workflow'[u] = workflow[u]
      BY <2>1, <2>3, <3>0
    <3>2. \A u : Has(u)' => Has(u) \/ u = t
      BY <2>3 DEF Has
    <3>3. ASSUME NEW d \in Deps[t] \cap Requested PROVE Has(d)
      <4>1. d \in Types
        BY GraphAssumption
      <4> QED BY <2>1, <4>1, BranchInOrder DEF DocumentInv
    <3> QED BY <2>1, <2>2, <3>1, <3>2, <3>3 DEF DocumentInv
  <2>4. CASE /\ references' = references
             /\ workflow' = [workflow EXCEPT ![t] =
                               [generation |-> revision, status |-> "failed"]]
    <3>1. /\ workflow'[t].status = "failed" /\ \A u : Has(u)' <=> Has(u)
          /\ \A u \in Types \ {t} : workflow'[u] = workflow[u]
      BY <2>1, <2>4 DEF Has
    <3> QED BY <2>1, <3>1 DEF DocumentInv
  <2> QED BY <1>4, <2>3, <2>4 DEF GenerateOne
<1>5. CASE Coordinate
  <2>1. \A u : Has(u)' <=> Has(u)
    BY <1>5 DEF Coordinate, Has
  <2>2. CASE NewCycle
    <3>1. workflow' = workflow /\ scope' = ScopedTypes
      BY <2>2 DEF NewCycle
    <3>2. \A t \in scope' : \A d \in (Deps[t] \cap Requested) \ scope' : Has(d)
      BY <3>1, ScopeLeavesMade DEF ScopedTypes, DocumentInv
    <3> QED BY <2>1, <3>1, <3>2 DEF DocumentInv
  <2>3. CASE GoesOn
    <3>1. workflow' = workflow /\ scope' = scope
      BY <2>3 DEF GoesOn
    <3> QED BY <2>1, <3>1 DEF DocumentInv
  <2>4. CASE Finishes
    <3>1. /\ scope' = scope
          /\ \A t \in Types : workflow'[t] = workflow[t] \/ workflow'[t].status = "skipped"
      BY <2>4 DEF Finishes
    <3> QED BY <2>1, <3>1 DEF DocumentInv
  <2> QED BY <1>5, <2>2, <2>3, <2>4, CoordinatorRuns, CoordinateNew, CoordinateMaking
<1>r. CASE RenderQualityRaises
  BY <1>1, <1>r, RaiseFacts
<1> QED BY <1>2, <1>3, <1>4, <1>5, <1>r, NextCases

-----------------------------------------------------------------------------
(* Exports                                                                  *)

LEMMA ExportStep ==
  ASSUME GraphTypeOK, NodeInv, RouteInv, RejectionInv, FanoutInv, DocumentInv, ExportInv,
         [GraphNext]_vars
  PROVE  ExportInv'
<1>0. failCount \in Nat /\ MaxHealing \in Nat \ {0}
  <2>1. failCount \in 0..(MaxHealing + 1)
    BY DEF GraphTypeOK
  <2> QED BY <2>1, GraphAssumption
<1>1. CASE Skip
  <2>1. /\ UNCHANGED <<node, compliance, failCount, exported, approved, approvedIds, workflow>>
        /\ ~routing /\ node \in Stages
    BY <1>1, SkipFacts DEF Skip, genVars, qualityVars, gateVars
  <2>2. exported = {}
    BY <2>1 DEF ExportInv, Stages, PlainStages
  <2> QED BY <2>1, <2>2 DEF ExportInv, ExportIsDue
<1>2. CASE FollowEdge
  <2>1. /\ UNCHANGED <<compliance, failCount, exported, approved, approvedIds, workflow>>
        /\ routing
    BY <1>2 DEF FollowEdge, qualityVars, gateVars
  <2>2. node' = "export_finalize" => compliance = "passed" \/ failCount > 0
    <3>1. node' = "export_finalize" => node = "teacher_approval"
      BY <1>2, FanoutEdge, StageEdge
    <3> QED BY <3>1 DEF RouteInv
  <2>3. exported # {} => node' = "end"
    <3>1. exported # {} => node = "export_finalize"
      BY <2>1 DEF ExportInv, NodeInv, Stages, PlainStages
    <3> QED BY <1>2, <3>1, StageEdge
  <2> QED BY <2>1, <2>2, <2>3 DEF ExportInv, ExportIsDue
<1>3. ASSUME WorkSteps, UNCHANGED exported, ~ExportFinalize PROVE ExportInv'
  <2>1. PICK s \in Stages \ {"artifact_workflow"} : Works(s)
    BY <1>3, SomeStageWorks
  <2>2. node = s /\ node' = s /\ ~routing
    BY <2>1 DEF Works, Runs, Complete
  <2>3. exported' = {}
    BY <1>3, <2>2 DEF ExportInv, Stages, PlainStages
  <2>4. node # "export_finalize"
    BY <1>3, StagesWork
    DEF WorkSteps, Works, Runs, RunPlainStage, PlainStages, PlanningBlueprint,
        RenderQualityPasses, RenderQualityUnhealed, RenderQualityHealed, ComplianceGate,
        TeacherAnswers, UnitAnswers
  <2> QED BY <2>2, <2>3, <2>4 DEF ExportInv, ExportIsDue
<1>4. CASE ExportFinalize
  <2>1. /\ node = "export_finalize" /\ ~routing /\ node' = node /\ routing' = TRUE
        /\ UNCHANGED <<compliance, failCount, approved, approvedIds, workflow>>
        /\ \/ approved /\ Unavailable = {} /\ exported' = snapshots \cap approvedIds
           \/ exported' = exported
    BY <1>4 DEF ExportFinalize, Runs, Complete, genVars, gateVars
  <2>2. exported = {}
    BY <2>1 DEF ExportInv
  <2>3. compliance = "passed" \/ failCount > 0
    BY <2>1 DEF ExportInv
  <2>4. Unavailable = {} => \A t \in Requested : workflow[t].status = "passed"
    <3> SUFFICES ASSUME Unavailable = {}, NEW t \in Requested
                 PROVE  workflow[t].status = "passed"
      OBVIOUS
    <3>1. workflow[t].status = "passed" \/ (workflow[t].status = "none" /\ Has(t))
      BY DEF Unavailable, Has
    <3>2. t \in Types
      BY GraphAssumption
    <3> QED BY <3>1, <3>2 DEF DocumentInv
  <2> QED BY <2>1, <2>2, <2>3, <2>4 DEF ExportInv, ExportIsDue
<1>5. CASE Coordinate
  <2>1. node = "artifact_workflow" /\ node' = node /\ UNCHANGED exported
    BY <1>5, CoordinatorRuns DEF Coordinate
  <2> QED BY <2>1 DEF ExportInv, ExportIsDue
<1>6. ASSUME NEW t \in Types, GenerateOne(t) \/ GenerateRaises(t) PROVE ExportInv'
  <2>1. /\ node = "generate" /\ node' \in {"generate", "artifact_workflow", "raised"}
        /\ UNCHANGED exported
    BY <1>6 DEF GenerateOne, GenerateRaises
  <2> QED BY <2>1 DEF ExportInv, ExportIsDue
<1>7. CASE UNCHANGED vars
  BY <1>7 DEF vars, ExportInv, ExportIsDue
<1>8. WorkSteps => ExportFinalize \/ (UNCHANGED exported /\ ~ExportFinalize)
  BY DEF WorkSteps, RunPlainStage, PlanningBlueprint, RenderQualityPasses,
     RenderQualityUnhealed, RenderQualityHealed, ComplianceGate, TeacherAnswers, UnitAnswers
<1>r. CASE RenderQualityRaises
  <2>1. node = "render_quality" /\ node' = "raised" /\ exported' = exported
    BY <1>r, RaiseFacts
  <2> QED BY <2>1 DEF ExportInv, ExportIsDue
<1> QED BY <1>1, <1>2, <1>3, <1>4, <1>5, <1>6, <1>7, <1>8, <1>r, NextCases

-----------------------------------------------------------------------------
(* The theorems                                                             *)

LEMMA GraphInvInit == GraphInit => GraphInv
<1> SUFFICES ASSUME GraphInit PROVE GraphInv
  OBVIOUS
<1>1. /\ node = "setup_contract" /\ routing = FALSE /\ completed = {} /\ route = "none"
      /\ fanoutDone = FALSE /\ sent = {} /\ scope = {} /\ references = {} /\ rejected = {}
      /\ answer = "none" /\ exported = {} /\ revision = 1 /\ wave = 0
      /\ \A t \in Types : workflow[t] = [generation |-> 0, status |-> "none"]
  BY DEF GraphInit
<1>2. NodeInv /\ RouteInv
  BY <1>1 DEF NodeInv, RouteInv, Stages, PlainStages
<1>3. FanoutInv
  <2>1. \A k \in DOMAIN Waves : ~(k < 0)
    BY PlanFacts
  <2> QED BY <1>1, <2>1, PlanFacts DEF FanoutInv, Progress
<1>4. RejectionInv /\ DocumentInv /\ ExportInv
  BY <1>1 DEF RejectionInv, Pending, DocumentInv, Has, ExportInv, ExportIsDue
<1> QED BY <1>2, <1>3, <1>4, GraphTypeInit DEF GraphInv

LEMMA GraphInvStep == GraphInv /\ [GraphNext]_vars => GraphInv'
BY GraphTypeStep, NodeStep, RouteStep, FanoutStep, RejectionStep, DocumentStep, ExportStep
DEF GraphInv

LEMMA GraphInvariant == GraphSpec => []GraphInv
<1>1. GraphInit => GraphInv
  BY GraphInvInit
<1>2. GraphInv /\ [GraphNext]_vars => GraphInv'
  BY GraphInvStep
<1> QED BY <1>1, <1>2, PTL DEF GraphSpec

\* The channels of the graph keep their types, and at most
\* default_artifact_parallelism branches are sent out together.
THEOREM GraphTypeCorrect == GraphSpec => []GraphTypeOK
<1>1. GraphInv => GraphTypeOK
  BY DEF GraphInv
<1> QED BY <1>1, GraphInvariant, PTL

\* coordinate_artifact_fanout and route_after_artifact_workflow send no
\* artifact out before its dependencies, also in a scoped regeneration.
THEOREM DependenciesComeFirst == GraphSpec => []DependenciesFirst
<1>1. GraphInv => DependenciesFirst
  BY BranchInOrder DEF GraphInv, DependenciesFirst, Has
<1> QED BY <1>1, GraphInvariant, PTL

\* render_quality judges a generation that is over: route_after_artifact_workflow
\* leads there only when the last wave has reported or a failure blocked it.
THEOREM WholeGenerationsJudged == GraphSpec => []JudgedWhole
<1>1. ASSUME GraphInv, Runs("render_quality")
      PROVE  \/ RequestedNow \subseteq OfGeneration(revision, Terminal)
             \/ OfGeneration(revision, {"skipped"}) # {}
  <2>1. fanoutDone
    BY <1>1 DEF GraphInv, RouteInv, Runs
  <2>2. RequestedNow \subseteq Current
    BY <1>1, ScopeFacts DEF GraphInv
  <2> QED BY <1>1, <2>1, <2>2 DEF GraphInv, FanoutInv, Reported
<1>2. GraphInv => JudgedWhole
  BY <1>1 DEF JudgedWhole
<1> QED BY <1>2, GraphInvariant, PTL

\* export_finalize writes files only for an approved pack, complete in its
\* newest generation, that passed compliance or was escalated to the teacher.
THEOREM ExportsAreDue == GraphSpec => []ExportIsDue
<1>1. GraphInv => ExportIsDue
  BY DEF GraphInv, ExportInv
<1> QED BY <1>1, GraphInvariant, PTL

-----------------------------------------------------------------------------
(* One verdict per artifact and generation                                  *)

\* A branch that is sent out has not reported in this generation.
SentOpen == \A t \in sent : workflow[t].generation # revision

\* An artifact is reported or skipped at most once in a generation, always in
\* the newest, and generations are numbered one by one.
VerdictIsNew(t) ==
    workflow'[t] # workflow[t] =>
       /\ revision' = revision /\ workflow[t].generation < revision
       /\ workflow'[t].generation = revision /\ workflow'[t].status \in Terminal
VerdictsAreFinal ==
    [][/\ revision' \in {revision, revision + 1}
       /\ \A t \in Types : VerdictIsNew(t)]_vars

LEMMA ChannelTypes ==
  ASSUME GraphTypeOK
  PROVE  /\ workflow \in [Types -> [generation : Nat, status : Terminal \cup {"none"}]]
         /\ revision \in Nat \ {0} /\ sent \subseteq Types
BY Zenon DEF GraphTypeOK

\* What route_after_artifact_workflow sends out has not reported.
LEMMA SendsOpen ==
  ASSUME GraphTypeOK, NodeInv, RejectionInv, FanoutInv, NEW t \in ToSend,
         routing, node = "artifact_workflow"
  PROVE  workflow[t].generation # revision
<1>1. ~fanoutDone /\ t \in FirstOf(WaveAt(CurrentWave) \ Reported)
  BY DEF ToSend, Reported
<1>2. t \notin Reported
  BY <1>1 DEF FirstOf
<1>3. t \in Types
  BY SendsWhileMaking
<1>4. Progress
  BY <1>1 DEF FanoutInv
<1> QED BY <1>2, <1>3, <1>4 DEF Progress, Reported, OfGeneration, Terminal

\* A dependent of a failure is in a wave after the current one, because the
\* failure is in the current one: no branch of it has been sent out.
LEMMA SkippedAreOpen ==
  ASSUME GraphTypeOK, NodeInv, RejectionInv, FanoutInv, ~fanoutDone,
         NEW t \in SkippedBy(OfGeneration(revision, {"failed"}))
  PROVE  t \in Types /\ workflow[t].generation # revision
<1> DEFINE i == CurrentWave
<1>1. PICK d \in Deps[t] : d \in OfGeneration(revision, {"failed"})
  BY DEF SkippedBy
<1>2. t \in Current /\ t \in Types
  BY ScopeFacts DEF SkippedBy
<1>3. d \in Types /\ workflow[d] = [generation |-> revision, status |-> "failed"]
  <2>1. workflow \in [Types -> [generation : Nat, status : Terminal \cup {"none"}]]
    BY ChannelTypes
  <2> QED BY <1>1, <2>1 DEF OfGeneration
<1>4. PICK j \in DOMAIN Waves : t \in ToSet(Waves[j])
  BY <1>2, PlanFacts
<1>5. PICK k \in DOMAIN Waves : k < j /\ d \in ToSet(Waves[k])
  BY <1>1, <1>4, DepsEarlier
<1>6. /\ i \in DOMAIN Waves
      /\ ~(k < i) /\ ~(k > i)
      /\ j > i => workflow[t].generation # revision
  BY <1>1, <1>2, <1>3, <1>4, <1>5, CurrentWaveFacts
<1>7. j > i
  <2>1. i \in Nat /\ j \in Nat /\ k \in Nat
    BY <1>6, PlanFacts
  <2> HIDE DEF i
  <2> QED BY <1>5, <1>6, <2>1
<1> QED BY <1>2, <1>6, <1>7

LEMMA SentOpenStep ==
  ASSUME GraphTypeOK, NodeInv, RouteInv, RejectionInv, FanoutInv, SentOpen,
         [GraphNext]_vars
  PROVE  SentOpen'
<1>1. CASE Skip
  BY <1>1 DEF Skip, genVars, SentOpen
<1>2. CASE FollowEdge
  <2>1. UNCHANGED <<workflow, revision>> /\ routing
    BY <1>2 DEF FollowEdge
  <2>2. sent' = IF node = "artifact_workflow" THEN ToSend ELSE {}
    BY <1>2 DEF FollowEdge
  <2> QED BY <2>1, <2>2, SendsOpen DEF SentOpen
<1>3. CASE WorkSteps
  <2>1. UNCHANGED genVars
    BY <1>3, SomeStageWorks DEF Works
  <2> QED BY <2>1 DEF genVars, SentOpen
<1>4. CASE Coordinate
  <2>1. sent' = sent /\ node = "artifact_workflow"
    BY <1>4, CoordinatorRuns DEF Coordinate
  <2>2. sent = {}
    BY <2>1, BranchFacts
  <2> QED BY <2>1, <2>2 DEF SentOpen
<1>5. ASSUME NEW t \in Types, GenerateOne(t) PROVE SentOpen'
  <2>1. sent' = sent \ {t} /\ revision' = revision
    BY <1>5 DEF GenerateOne
  <2>2. \A u \in Types \ {t} : workflow'[u] = workflow[u]
    <3>1. workflow \in [Types -> [generation : Nat, status : Terminal \cup {"none"}]]
      BY ChannelTypes
    <3> QED BY <1>5, <3>1 DEF GenerateOne
  <2>3. sent \subseteq Types
    BY ChannelTypes
  <2> QED BY <2>1, <2>2, <2>3 DEF SentOpen
<1>6. ASSUME NEW t \in Types, GenerateRaises(t) PROVE SentOpen'
  BY <1>6 DEF GenerateRaises, SentOpen
<1>7. CASE UNCHANGED vars
  BY <1>7 DEF vars, genVars, SentOpen
<1>r. CASE RenderQualityRaises
  BY <1>r, RaiseFacts DEF SentOpen
<1> QED BY <1>1, <1>2, <1>3, <1>4, <1>5, <1>6, <1>7, <1>r, NextCases

LEMMA VerdictsStep ==
  ASSUME GraphTypeOK, NodeInv, RouteInv, RejectionInv, FanoutInv, SentOpen,
         [GraphNext]_vars
  PROVE  /\ revision' \in {revision, revision + 1}
         /\ \A t \in Types : VerdictIsNew(t)
<1>1. /\ workflow \in [Types -> [generation : Nat, status : Terminal \cup {"none"}]]
      /\ revision \in Nat \ {0}
  BY ChannelTypes
<1>0. \A t \in Types : workflow[t].generation \in Nat /\ workflow[t].generation <= revision
  BY <1>1 DEF FanoutInv
<1>2. UNCHANGED <<workflow, revision>> =>
         /\ revision' \in {revision, revision + 1}
         /\ \A t \in Types : VerdictIsNew(t)
  BY DEF VerdictIsNew
<1>3. CASE Skip \/ FollowEdge \/ UNCHANGED vars
  BY <1>2, <1>3 DEF Skip, FollowEdge, genVars, vars
<1>4. CASE WorkSteps
  <2>1. UNCHANGED genVars
    BY <1>4, SomeStageWorks DEF Works
  <2> QED BY <1>2, <2>1 DEF genVars
<1>5. ASSUME NEW t \in Types, GenerateRaises(t)
      PROVE  UNCHANGED <<workflow, revision>>
  BY <1>5 DEF GenerateRaises
<1>6. ASSUME NEW t \in Types, GenerateOne(t)
      PROVE  /\ revision' = revision
             /\ \A u \in Types : VerdictIsNew(u)
  <2>1. PICK x \in {"passed", "failed"} :
           workflow' = [workflow EXCEPT ![t] = [generation |-> revision, status |-> x]]
    BY <1>6 DEF GenerateOne
  <2>2. t \in sent /\ revision' = revision
    BY <1>6 DEF GenerateOne
  <2>3. /\ \A u \in Types \ {t} : workflow'[u] = workflow[u]
        /\ workflow'[t] = [generation |-> revision, status |-> x]
    BY <1>1, <2>1
  <2>4. workflow[t].generation < revision
    BY <1>0, <1>1, <2>2 DEF SentOpen
  <2> QED BY <2>2, <2>3, <2>4 DEF VerdictIsNew, Terminal
<1>7. CASE Coordinate /\ fanoutDone
  <2>1. revision' = revision + 1 /\ workflow' = workflow
    BY <1>7, CoordinatorRuns, CoordinateNew DEF NewCycle
  <2> QED BY <2>1 DEF VerdictIsNew
<1>8. CASE Coordinate /\ ~fanoutDone
  <2>1. CASE GoesOn
    BY <1>2, <2>1 DEF GoesOn
  <2>2. CASE Finishes
    <3> DEFINE skipped == SkippedBy(OfGeneration(revision, {"failed"}))
    <3>1. /\ revision' = revision
          /\ workflow' = [t \in Types |->
                            IF t \in skipped
                              THEN [generation |-> revision, status |-> "skipped"]
                              ELSE workflow[t]]
      BY <2>2 DEF Finishes
    <3>2. \A t \in skipped : t \in Types /\ workflow[t].generation # revision
      BY <1>8, SkippedAreOpen
    <3> HIDE DEF skipped
    <3>3. \A t \in skipped : workflow[t].generation < revision
      BY <1>0, <1>1, <3>2
    <3> QED BY <3>1, <3>3 DEF VerdictIsNew, Terminal
  <2> QED BY <1>8, <2>1, <2>2, CoordinateMaking
<1>r. CASE RenderQualityRaises
  BY <1>2, <1>r, RaiseFacts
<1> QED BY <1>2, <1>3, <1>4, <1>5, <1>6, <1>7, <1>8, <1>r, NextCases

\* generate_one_artifact and the skips of coordinate_artifact_fanout give an
\* artifact one verdict in a generation: what has reported is not generated
\* again, a blocked dependent was never sent out, and no verdict is about an
\* older generation.
THEOREM VerdictsOncePerGeneration == GraphSpec => VerdictsAreFinal
<1>1. GraphInit => SentOpen
  BY DEF GraphInit, SentOpen
<1>2. GraphInv /\ SentOpen /\ [GraphNext]_vars => SentOpen'
  BY SentOpenStep DEF GraphInv
<1>3. GraphInv /\ SentOpen /\ [GraphNext]_vars =>
         /\ revision' \in {revision, revision + 1}
         /\ \A t \in Types : VerdictIsNew(t)
  BY VerdictsStep DEF GraphInv
<1> QED BY <1>1, <1>2, <1>3, GraphInvariant, PTL DEF GraphSpec, VerdictsAreFinal

-----------------------------------------------------------------------------
(* Invocations run out of steps                                             *)

\* What the skipped stages know: the answer of unit_approval, the verdict of
\* compliance_gate, and that the empty route is the one of export_finalize.
UnitStages == {"unit_planning", "unit_approval", "unit_prep"}
AnsweredInv ==
    /\ node \in UnitStages => mode = "plan_unit"
    /\ node \notin UnitStages \cup {"setup_contract", "triage", "end"} => mode = "pack"
    /\ "unit_approval" \in completed =>
          /\ mode = "plan_unit" /\ answer \in {"approve", "edit", "reject"}
          /\ answer = "approve" => approved
    /\ "compliance_gate" \in completed => compliance # "unset"

EmptyRoute == route = ""
EmptyRouteInv == EmptyRoute => node = "end" \/ (node = "export_finalize" /\ routing)

\* The order of the stages, the end last.  The artifact stage has two places:
\* before a generation is opened and while it is made.
Order(s) ==
    CASE s = "setup_contract" -> 11
      [] s = "triage" -> 10
      [] s = "preplanning_search" -> 9
      [] s = "planning_blueprint" -> 8
      [] s = "post_blueprint_research" -> 7
      [] s = "artifact_workflow" -> IF fanoutDone THEN 6 ELSE 5
      [] s = "generate" -> 5
      [] s = "render_quality" -> 4
      [] s \in {"compliance_gate", "unit_planning"} -> 3
      [] s \in {"teacher_approval", "unit_approval"} -> 2
      [] s \in {"export_finalize", "unit_prep"} -> 1
      [] s \in {"end", "raised"} -> 0

\* A generation is being made.
Making == node \in {"artifact_workflow", "generate"} /\ ~fanoutDone

\* How far the invocation is from its end; an edge counts as a step.
Distance ==
    IF Making THEN 10
    ELSE IF routing THEN 2 * Order(Edge(node)) + 1
    ELSE 2 * Order(node)

\* What is left of the wave, and of the turn that sends a part of it out.
Left == {t \in Types : wave # 0 /\ t \in Part(wave) \ Reported}
Turn == IF node = "generate" THEN 0 ELSE IF routing THEN 1 ELSE 2

\* The measure: healings left, the distance, the waves left, what is left of
\* the wave, and the turn, the first difference deciding.
Lower ==
    \/ failCount' > failCount
    \/ failCount' = failCount /\ Distance' < Distance
    \/ /\ failCount' = failCount /\ Making /\ Making'
       /\ \/ wave' > wave
          \/ /\ wave' = wave
             /\ \/ Cardinality(Left') < Cardinality(Left)
                \/ Left' = Left /\ Turn' < Turn

\* Every step of an invocation lowers the measure, unless it is a failure of
\* quality that is not counted or leaves the graph in one of the four loops of
\* Stuck; and the measure has a floor.
MeasureOK ==
    /\ Distance \in Nat /\ IsFiniteSet(Left) /\ Turn \in 0..2
    /\ failCount <= MaxHealing + 1 /\ wave <= Len(Waves)
InvocationsRunOut ==
    [][GraphStep => Lower \/ RenderQualityUnhealed \/ Stuck']_vars

LEMMA LeftFinite == ASSUME GraphTypeOK PROVE IsFiniteSet(Left) /\ Cardinality(Left) \in Nat
<1>1. wave \in 0..Len(Waves)
  BY Zenon DEF GraphTypeOK
<1>2. CASE wave = 0
  <2>1. Left = {}
    BY <1>2 DEF Left
  <2> QED BY <2>1, FS_EmptySet
<1>3. CASE wave # 0
  <2>1. wave \in DOMAIN Waves
    BY <1>1, <1>3, PlanFacts
  <2>2. IsFiniteSet(ToSet(Waves[wave]))
    BY <2>1, WaveFinite
  <2>3. Left \subseteq ToSet(Waves[wave])
    BY DEF Left, Part
  <2> QED BY <2>2, <2>3, FS_Subset, FS_CardinalityType
<1> QED BY <1>2, <1>3

LEMMA Orders ==
  /\ Order("setup_contract") = 11 /\ Order("triage") = 10 /\ Order("preplanning_search") = 9
  /\ Order("planning_blueprint") = 8 /\ Order("post_blueprint_research") = 7
  /\ Order("artifact_workflow") = IF fanoutDone THEN 6 ELSE 5
  /\ Order("generate") = 5 /\ Order("render_quality") = 4
  /\ Order("compliance_gate") = 3 /\ Order("unit_planning") = 3
  /\ Order("teacher_approval") = 2 /\ Order("unit_approval") = 2
  /\ Order("export_finalize") = 1 /\ Order("unit_prep") = 1
  /\ Order("end") = 0 /\ Order("raised") = 0
BY DEF Order

\* A stage passes the work on, not back.
Forward ==
    /\ node = "render_quality" => route \in {"none", "teacher_approval"}
    /\ node = "compliance_gate" => compliance = "passed"
    /\ node = "teacher_approval" => approved \/ answer \notin {"reject_selected", "edit_section"}
    /\ node = "unit_approval" => approved

LEMMA ForwardEdges ==
  node \in Stages \ {"artifact_workflow"} /\ Forward =>
    Order(Edge(node)) \in Nat /\ Order(Edge(node)) < Order(node)
<1> SUFFICES ASSUME node \in Stages \ {"artifact_workflow"}, Forward
             PROVE  Order(Edge(node)) \in Nat /\ Order(Edge(node)) < Order(node)
  OBVIOUS
<1>1. CASE node = "render_quality"
  <2>1. route \in {"none", "teacher_approval"}
    BY <1>1 DEF Forward
  <2>2. AfterRenderQuality \in {"compliance_gate", "teacher_approval"}
    BY <2>1, Zenon DEF AfterRenderQuality
  <2>3. Edge(node) = AfterRenderQuality
    BY <1>1, Zenon DEF Edge
  <2> QED BY <1>1, <2>2, <2>3, Orders
<1>2. CASE node = "compliance_gate"
  <2>1. Edge(node) = "teacher_approval"
    BY <1>2 DEF Edge, Forward, AfterCompliance
  <2> QED BY <1>2, <2>1, Orders
<1>3. CASE node = "teacher_approval"
  <2>1. Edge(node) = "export_finalize"
    BY <1>3 DEF Edge, Forward, AfterTeacher
  <2> QED BY <1>3, <2>1, Orders
<1>4. CASE node = "unit_approval"
  <2>1. Edge(node) = "unit_prep"
    BY <1>4 DEF Edge, Forward, AfterUnitApproval
  <2> QED BY <1>4, <2>1, Orders
<1>5. CASE node = "triage"
  <2>1. Edge(node) \in {"unit_planning", "preplanning_search"}
    BY <1>5 DEF Edge, AfterTriage
  <2> QED BY <1>5, <2>1, Orders
<1>6. CASE node \in {"setup_contract", "unit_planning", "unit_prep", "preplanning_search",
                     "planning_blueprint", "post_blueprint_research", "export_finalize"}
  <2>1. /\ node = "setup_contract" => Edge(node) = "triage"
        /\ node = "unit_planning" => Edge(node) = "unit_approval"
        /\ node = "preplanning_search" => Edge(node) = "planning_blueprint"
        /\ node = "planning_blueprint" => Edge(node) = "post_blueprint_research"
        /\ node = "post_blueprint_research" => Edge(node) = "artifact_workflow"
        /\ node \in {"unit_prep", "export_finalize"} => Edge(node) = "end"
    BY <1>6 DEF Edge
  <2> QED BY <1>6, <2>1, Orders
<1> QED BY <1>1, <1>2, <1>3, <1>4, <1>5, <1>6 DEF Stages, PlainStages

LEMMA ForwardLowers ==
  ASSUME ~routing, routing' = TRUE, node' = node, fanoutDone' = fanoutDone,
         node \in Stages \ {"artifact_workflow"}, Forward'
  PROVE  Distance' < Distance
<1>1. (Order(Edge(node)) \in Nat /\ Order(Edge(node)) < Order(node))'
  <2>1. (node \in Stages \ {"artifact_workflow"} /\ Forward =>
           Order(Edge(node)) \in Nat /\ Order(Edge(node)) < Order(node))'
    BY ForwardEdges, PTL
  <2>2. (node \in Stages \ {"artifact_workflow"})'
    BY DEF Stages, PlainStages
  <2> QED BY <2>1, <2>2
<1>2. Order(node)' = Order(node) /\ Order(node) \in Nat
  BY DEF Order, Stages, PlainStages
<1>3. ~Making /\ ~Making'
  BY DEF Making, Stages, PlainStages
<1> QED BY <1>1, <1>2, <1>3 DEF Distance

\* The edge of render_quality, without the empty route.
LEMMA RenderQualityEdge ==
  ASSUME GraphTypeOK, ~EmptyRoute
  PROVE  /\ route \in {"none", "artifact_workflow", "planning_blueprint",
                       "post_blueprint_research", "teacher_approval"}
         /\ AfterRenderQuality = IF route = "none" THEN "compliance_gate" ELSE route
<1>1. route \in {"none", "artifact_workflow", "planning_blueprint",
                 "post_blueprint_research", "teacher_approval"}
  BY Zenon DEF GraphTypeOK, EmptyRoute
<1>2. AfterRenderQuality = IF route = "none" THEN "compliance_gate" ELSE route
  BY Zenon DEF AfterRenderQuality, EmptyRoute
<1> QED BY <1>1, <1>2

LEMMA EmptyRouteStep ==
  ASSUME GraphTypeOK, NodeInv, EmptyRouteInv, [GraphNext]_vars
  PROVE  EmptyRouteInv'
<1>0. route' = route => (EmptyRoute' <=> EmptyRoute)
  BY Zenon DEF EmptyRoute
<1>1. ASSUME EmptyRoute, routing, node = "export_finalize", FollowEdge PROVE EmptyRouteInv'
  <2>1. node' = "end"
    BY <1>1, StageEdge
  <2> QED BY <2>1 DEF EmptyRouteInv
<1>2. CASE FollowEdge
  <2>1. EmptyRoute' = EmptyRoute /\ routing
    BY <1>2 DEF FollowEdge, qualityVars, EmptyRoute
  <2>2. routing /\ node = "end" => FALSE
    BY DEF NodeInv, Stages, PlainStages
  <2> QED BY <1>1, <1>2, <2>1, <2>2 DEF EmptyRouteInv
<1>3. CASE ExportFinalize
  <2>1. node' = "export_finalize" /\ routing' = TRUE
    BY <1>3, StagesWork DEF Works, Runs, Complete
  <2> QED BY <2>1 DEF EmptyRouteInv
<1>4. CASE \/ PlanningBlueprint \/ RenderQualityPasses \/ RenderQualityUnhealed
           \/ RenderQualityHealed
  <2>1. ~EmptyRoute'
    BY <1>4, Zenon DEF PlanningBlueprint, RenderQualityPasses, RenderQualityUnhealed,
       RenderQualityHealed, EmptyRoute
  <2> QED BY <2>1 DEF EmptyRouteInv
<1>5. CASE ComplianceGate
  <2>1. route' = "artifact_workflow" \/ route' = route
    BY <1>5 DEF ComplianceGate
  <2>2. node = "compliance_gate"
    BY <1>5 DEF ComplianceGate, Runs
  <2>3. ~EmptyRoute
    BY <2>2 DEF EmptyRouteInv
  <2>4. ~EmptyRoute'
    BY <2>1, <2>3, Zenon DEF EmptyRoute
  <2> QED BY <2>4 DEF EmptyRouteInv
<1>6. CASE Skip \/ Coordinate \/ RunPlainStage \/ TeacherAnswers \/ UnitAnswers
  <2>1. ~routing /\ node \in Stages
    BY <1>6, SkipFacts DEF Coordinate, RunPlainStage, TeacherAnswers, UnitAnswers, Runs, Stages
  <2>2. route' = route
    BY <1>6, Zenon DEF Skip, Coordinate, RunPlainStage, TeacherAnswers, UnitAnswers, qualityVars
  <2>3. ~EmptyRoute
    BY <2>1 DEF EmptyRouteInv, Stages, PlainStages
  <2> QED BY <1>0, <2>2, <2>3 DEF EmptyRouteInv
<1>7. ASSUME NEW t \in Types, GenerateOne(t) \/ GenerateRaises(t) PROVE EmptyRouteInv'
  <2>1. route' = route /\ node = "generate"
    BY <1>7 DEF GenerateOne, GenerateRaises, qualityVars
  <2> QED BY <1>0, <2>1 DEF EmptyRouteInv
<1>8. CASE UNCHANGED vars
  BY <1>0, <1>8 DEF vars, qualityVars, EmptyRouteInv
<1>r. CASE RenderQualityRaises
  <2>1. route' = route /\ node = "render_quality"
    BY <1>r, RaiseFacts
  <2> QED BY <1>0, <2>1 DEF EmptyRouteInv
<1> QED BY <1>2, <1>3, <1>4, <1>5, <1>6, <1>7, <1>8, <1>r, NextCases DEF WorkSteps

LEMMA AnsweredStep ==
  ASSUME GraphTypeOK, NodeInv, EmptyRouteInv, AnsweredInv, [GraphNext]_vars
  PROVE  AnsweredInv'
<1>0. mode \in {"pack", "plan_unit"} /\ mode' = mode
  <2>1. mode \in {"pack", "plan_unit"}
    BY Zenon DEF GraphTypeOK
  <2>2. mode' = mode
    BY NextCases, SomeStageWorks, RaiseFacts
    DEF Skip, FollowEdge, Coordinate, GenerateOne, GenerateRaises, Works, Complete, vars
  <2> QED BY <2>1, <2>2
<1>1. CASE Skip \/ UNCHANGED vars
  BY <1>1 DEF Skip, vars, gateVars, AnsweredInv
<1>2. CASE FollowEdge
  <2>1. /\ UNCHANGED <<completed, answer, approved, compliance>>
        /\ routing /\ node \in Stages /\ node' = Edge(node)
    BY <1>2 DEF FollowEdge, gateVars, NodeInv
  <2>2. CASE node = "render_quality"
    <3>1. ~EmptyRoute
      BY <2>2 DEF EmptyRouteInv
    <3>2. node' = AfterRenderQuality
      BY <2>1, <2>2, Zenon DEF Edge
    <3> QED BY <1>0, <2>1, <2>2, <3>1, <3>2, RenderQualityEdge DEF AnsweredInv, UnitStages
  <2>3. CASE node = "artifact_workflow"
    <3>1. node' \in {"generate", "render_quality"}
      BY <2>1, <2>3 DEF Edge
    <3> QED BY <1>0, <2>1, <2>3, <3>1 DEF AnsweredInv, UnitStages
  <2>4. CASE node \in {"compliance_gate", "teacher_approval", "preplanning_search",
                       "planning_blueprint", "post_blueprint_research", "export_finalize"}
    <3>1. node' \in {"teacher_approval", "artifact_workflow", "export_finalize", "end",
                     "planning_blueprint", "post_blueprint_research"}
      BY <2>1, <2>4 DEF Edge, AfterCompliance, AfterTeacher
    <3> QED BY <1>0, <2>1, <2>4, <3>1 DEF AnsweredInv, UnitStages
  <2>5. CASE node \in {"unit_planning", "unit_approval", "unit_prep"}
    <3>1. node' \in {"unit_approval", "unit_prep", "unit_planning", "end"}
      BY <2>1, <2>5 DEF Edge, AfterUnitApproval
    <3> QED BY <1>0, <2>1, <2>5, <3>1 DEF AnsweredInv, UnitStages
  <2>6. CASE node \in {"setup_contract", "triage"}
    <3>1. node = "setup_contract" => node' = "triage"
      BY <2>1 DEF Edge
    <3>2. node = "triage" => node' = AfterTriage
      BY <2>1, Zenon DEF Edge
    <3> QED BY <1>0, <2>1, <2>6, <3>1, <3>2 DEF AfterTriage, AnsweredInv, UnitStages
  <2> QED BY <2>1, <2>2, <2>3, <2>4, <2>5, <2>6 DEF Stages, PlainStages
<1>3. CASE \/ RunPlainStage \/ PlanningBlueprint \/ RenderQualityPasses
           \/ RenderQualityUnhealed \/ RenderQualityHealed \/ ExportFinalize
  <2>1. /\ node' = node /\ completed' = completed \cup {node}
        /\ node \notin {"unit_approval", "compliance_gate"}
        /\ UNCHANGED <<answer, approved, compliance>>
    BY <1>3, Zenon DEF RunPlainStage, PlanningBlueprint, RenderQualityPasses,
       RenderQualityUnhealed, RenderQualityHealed, ExportFinalize, Complete, Runs,
       PlainStages, gateVars
  <2> QED BY <1>0, <2>1 DEF AnsweredInv
<1>4. CASE ComplianceGate
  <2>1. /\ node' = node /\ completed' = completed \cup {node} /\ node = "compliance_gate"
        /\ UNCHANGED <<answer, approved>> /\ compliance' \in {"passed", "failed"}
    BY <1>4 DEF ComplianceGate, Complete, Runs, gateVars
  <2> QED BY <1>0, <2>1 DEF AnsweredInv
<1>5. CASE TeacherAnswers
  <2>1. /\ node' = node /\ completed' = completed \cup {node} /\ node = "teacher_approval"
        /\ UNCHANGED compliance
    BY <1>5 DEF TeacherAnswers, Complete, Runs
  <2> QED BY <1>0, <2>1 DEF AnsweredInv, UnitStages
<1>6. CASE UnitAnswers
  <2>1. /\ node' = node /\ completed' = completed \cup {node} /\ node = "unit_approval"
        /\ UNCHANGED compliance
        /\ answer' \in {"approve", "edit", "reject"} /\ (answer' = "approve" => approved')
    BY <1>6, Zenon DEF UnitAnswers, Complete, Runs
  <2> QED BY <1>0, <2>1 DEF AnsweredInv, UnitStages
<1>7. CASE Coordinate
  <2>1. /\ node' = node /\ completed' \subseteq completed \cup {"artifact_workflow"}
        /\ UNCHANGED <<answer, approved, compliance>>
    BY <1>7 DEF Coordinate, Runs, gateVars
  <2> QED BY <1>0, <2>1 DEF AnsweredInv
<1>8. ASSUME NEW t \in Types, GenerateOne(t) \/ GenerateRaises(t) PROVE AnsweredInv'
  <2>1. /\ node = "generate" /\ node' \in {"generate", "artifact_workflow", "raised"}
        /\ UNCHANGED <<completed, answer, approved, compliance>>
    BY <1>8 DEF GenerateOne, GenerateRaises, gateVars
  <2> QED BY <1>0, <2>1 DEF AnsweredInv, UnitStages
<1>r. CASE RenderQualityRaises
  <2>1. /\ node = "render_quality" /\ node' = "raised"
        /\ UNCHANGED <<completed, answer, approved, compliance>>
    BY <1>r, RaiseFacts
  <2> QED BY <1>0, <2>1 DEF AnsweredInv, UnitStages
<1> QED BY <1>1, <1>2, <1>3, <1>4, <1>5, <1>6, <1>7, <1>8, <1>r, NextCases DEF WorkSteps

\* When the fan-out is over, its edge leads to render_quality.
LEMMA OverLeadsOn ==
  node = "artifact_workflow" /\ routing /\ fanoutDone => Distance = 9
<1> SUFFICES ASSUME node = "artifact_workflow", routing, fanoutDone PROVE Distance = 9
  OBVIOUS
<1>1. ToSend = {}
  BY DEF ToSend
<1>2. Edge(node) = "render_quality"
  BY <1>1 DEF Edge
<1> QED BY <1>2, Orders DEF Distance, Making

\* A stage that is skipped passes the work on, or the graph is in a loop.
LEMMA SkipsForward ==
  ASSUME GraphTypeOK, NodeInv, RouteInv, EmptyRouteInv, AnsweredInv, Skip,
         node # "artifact_workflow"
  PROVE  Forward \/ Stuck
<1>1. ~routing /\ node \in completed \cap Stages /\ ~CanReenter(node)
  BY SkipFacts
<1>2. CASE node = "render_quality"
  <2>1. ~EmptyRoute
    BY <1>2 DEF EmptyRouteInv
  <2>2. route \notin {"artifact_workflow", "planning_blueprint"}
    BY <1>1, <1>2 DEF CanReenter, RouteInv
  <2>3. route \in {"none", "teacher_approval", "post_blueprint_research"}
    BY <2>1, <2>2, RenderQualityEdge
  <2> QED BY <1>2, <2>3 DEF Forward, Stuck
<1>3. CASE node = "compliance_gate"
  <2>1. compliance \in {"unset", "passed", "failed"}
    BY Zenon DEF GraphTypeOK
  <2>2. compliance \in {"passed", "failed"}
    BY <1>1, <1>3, <2>1 DEF AnsweredInv
  <2> QED BY <1>3, <2>2 DEF Forward, Stuck
<1>4. CASE node = "teacher_approval"
  <2>1. Rejections = {}
    BY <1>1, <1>4 DEF CanReenter
  <2> QED BY <1>4, <2>1 DEF Forward, Stuck
<1>5. CASE node = "unit_approval"
  <2>1. /\ mode = "plan_unit" /\ answer \in {"approve", "edit", "reject"}
        /\ answer = "approve" => approved
    BY <1>1, <1>5 DEF AnsweredInv
  <2> QED BY <1>5, <2>1 DEF Forward, Stuck
<1> QED BY <1>2, <1>3, <1>4, <1>5 DEF Forward

LEMMA SkipLowers ==
  ASSUME GraphTypeOK, NodeInv, RouteInv, EmptyRouteInv, AnsweredInv, Skip
  PROVE  Lower \/ Stuck'
<1>1. /\ ~routing /\ routing' = TRUE /\ node' = node /\ node \in Stages
      /\ node = "artifact_workflow" => fanoutDone
  BY SkipFacts
<1>2. UNCHANGED <<fanoutDone, failCount>>
  BY DEF Skip, genVars, qualityVars
<1>3. CASE node = "artifact_workflow"
  <2>1. Distance' = 9
    <3>1. (node = "artifact_workflow" /\ routing /\ fanoutDone => Distance = 9)'
      BY OverLeadsOn, PTL
    <3> QED BY <1>1, <1>2, <1>3, <3>1
  <2>2. Distance = 12
    BY <1>1, <1>3, Orders DEF Distance, Making
  <2> QED BY <1>2, <2>1, <2>2 DEF Lower
<1>4. CASE node # "artifact_workflow"
  <2>1. (Forward' <=> Forward) /\ (Stuck' <=> Stuck)
    BY DEF Skip, genVars, qualityVars, gateVars, Forward, Stuck, Rejections
  <2>2. Forward' => Distance' < Distance
    BY <1>1, <1>2, <1>4, ForwardLowers
  <2> QED BY <1>2, <1>4, <2>1, <2>2, SkipsForward DEF Lower
<1> QED BY <1>3, <1>4

LEMMA EdgeLowers ==
  ASSUME GraphTypeOK, NodeInv, RejectionInv, FanoutInv, FollowEdge
  PROVE  Lower
<1>1. routing /\ routing' = FALSE /\ node \in Stages /\ node' = Edge(node)
  BY DEF FollowEdge, NodeInv
<1>2. UNCHANGED <<fanoutDone, failCount, wave, workflow, revision, scope>>
  BY DEF FollowEdge, qualityVars
<1>3. Order(node)' = Order(node') /\ Order(node') = Order(Edge(node))
  BY <1>1, <1>2 DEF Order
<1>4. CASE node = "artifact_workflow" /\ fanoutDone
  <2>1. node' = "render_quality"
    BY <1>4, FanoutEdge
  <2>2. Distance = 9
    BY <1>1, <1>4, OverLeadsOn
  <2>3. Order(node)' = 4
    BY <1>3, <2>1, Orders
  <2>4. Distance' = 8
    BY <1>1, <2>1, <2>3 DEF Distance, Making
  <2> QED BY <1>2, <2>2, <2>4 DEF Lower
<1>5. CASE node = "artifact_workflow" /\ ~fanoutDone
  <2>1. node' = "generate"
    BY <1>5, FanoutEdge
  <2>2. Making /\ Making' /\ Turn = 1 /\ Turn' = 0
    BY <1>1, <1>2, <1>5, <2>1 DEF Making, Turn
  <2>3. Left' = Left
    BY <1>2 DEF Left, Part, Current, Reported, OfGeneration
  <2> QED BY <1>2, <2>2, <2>3 DEF Lower
<1>6. CASE node # "artifact_workflow"
  <2>1. node' \in (Stages \ {"render_quality"}) \cup {"end"}
    BY <1>6, StageEdge
  <2>2. Order(node') \in Nat
    BY <2>1, Orders DEF Stages, PlainStages
  <2>3. Distance = 2 * Order(node') + 1
    BY <1>1, <1>3, <1>6 DEF Distance, Making, Stages, PlainStages
  <2>4. Distance' = 2 * Order(node')
    <3>1. CASE Making'
      <4>1. node' = "artifact_workflow" /\ ~fanoutDone
        BY <1>2, <2>1, <3>1 DEF Making, Stages, PlainStages
      <4> QED BY <3>1, <4>1, Orders DEF Distance
    <3>2. CASE ~Making'
      BY <1>1, <1>3, <3>2 DEF Distance
    <3> QED BY <3>1, <3>2
  <2> QED BY <1>2, <2>2, <2>3, <2>4 DEF Lower
<1> QED BY <1>4, <1>5, <1>6

\* The stages: only render_quality and compliance_gate may send the work back.
LEMMA StageLowers ==
  ASSUME GraphTypeOK,
         \/ RunPlainStage \/ PlanningBlueprint \/ RenderQualityPasses \/ RenderQualityHealed
         \/ ComplianceGate \/ ExportFinalize
  PROVE  Lower \/ Stuck'
<1>1. PICK s \in Stages \ {"artifact_workflow"} : Works(s)
  BY SomeStageWorks DEF WorkSteps
<1>2. /\ ~routing /\ routing' = TRUE /\ node = s /\ node' = node /\ fanoutDone' = fanoutDone
  BY <1>1 DEF Works, Runs, Complete, genVars
<1>3. Forward' => Distance' < Distance
  BY <1>1, <1>2, ForwardLowers
<1>4. CASE RunPlainStage \/ PlanningBlueprint
  <2>1. /\ node \notin {"render_quality", "compliance_gate", "teacher_approval", "unit_approval"}
        /\ failCount' = failCount
    BY <1>4 DEF RunPlainStage, PlanningBlueprint, PlainStages, Runs, qualityVars
  <2> QED BY <1>2, <1>3, <2>1 DEF Forward, Lower
<1>5. CASE ExportFinalize
  <2>1. node = "export_finalize" /\ failCount' = failCount
    BY <1>5, Zenon DEF ExportFinalize, Runs
  <2> QED BY <1>2, <1>3, <2>1 DEF Forward, Lower
<1>6. CASE RenderQualityPasses
  <2>1. node = "render_quality" /\ route' = "none" /\ failCount' = failCount
    BY <1>6 DEF RenderQualityPasses, Runs
  <2> QED BY <1>2, <1>3, <2>1 DEF Forward, Lower
<1>7. CASE ComplianceGate
  <2>1. /\ node = "compliance_gate" /\ failCount' = failCount
        /\ compliance' \in {"passed", "failed"}
    BY <1>7 DEF ComplianceGate, Runs
  <2> QED BY <1>2, <1>3, <2>1 DEF Forward, Lower, Stuck
<1>8. CASE RenderQualityHealed
  <2>1. failCount \in 0..(MaxHealing + 1) /\ MaxHealing \in Nat
    BY GraphAssumption, Zenon DEF GraphTypeOK
  <2>2. /\ node = "render_quality"
        /\ failCount' = IF failCount > MaxHealing THEN failCount ELSE failCount + 1
        /\ failCount + 1 > MaxHealing => route' = "teacher_approval"
    BY <1>8 DEF RenderQualityHealed, Runs, Escalates
  <2>3. CASE failCount > MaxHealing
    <3>1. failCount + 1 > MaxHealing
      BY <2>1, <2>3
    <3> QED BY <1>2, <1>3, <2>2, <2>3, <3>1 DEF Forward, Lower
  <2>4. CASE ~(failCount > MaxHealing)
    BY <2>1, <2>2, <2>4 DEF Lower
  <2> QED BY <2>3, <2>4
<1> QED BY <1>4, <1>5, <1>6, <1>7, <1>8

LEMMA CoordinateLowers ==
  ASSUME GraphTypeOK, NodeInv, RouteInv, RejectionInv, FanoutInv, Coordinate
  PROVE  Lower
<1>1. /\ node = "artifact_workflow" /\ node' = node /\ ~routing /\ routing' = TRUE
      /\ failCount' = failCount /\ (NeedsNewCycle \/ ~fanoutDone)
  BY CoordinatorRuns DEF Coordinate, qualityVars
<1>2. CASE fanoutDone
  <2>1. fanoutDone' = FALSE
    BY <1>1, <1>2, CoordinateNew DEF NewCycle
  <2>2. Distance = 12 /\ Distance' = 10
    BY <1>1, <1>2, <2>1, Orders DEF Distance, Making
  <2> QED BY <1>1, <2>2 DEF Lower
<1>3. CASE ~fanoutDone /\ Finishes
  <2>1. Distance' = 9
    <3>1. (node = "artifact_workflow" /\ routing /\ fanoutDone => Distance = 9)'
      BY OverLeadsOn, PTL
    <3> QED BY <1>1, <1>3, <3>1 DEF Finishes
  <2>2. Distance = 10
    BY <1>1, <1>3 DEF Distance, Making
  <2> QED BY <1>1, <2>1, <2>2 DEF Lower
<1>4. CASE ~fanoutDone /\ GoesOn
  <2>1. /\ Making /\ Making' /\ Turn = 2 /\ Turn' = 1
    BY <1>1, <1>4 DEF GoesOn, Making, Turn
  <2>2. wave \in 0..Len(Waves) /\ wave' \in DOMAIN Waves
    BY <1>4, Zenon DEF GoesOn, GraphTypeOK
  <2>3. ~(wave' < wave)
    <3> SUFFICES ASSUME wave' < wave PROVE FALSE
      OBVIOUS
    <3>1. Progress
      BY <1>4 DEF FanoutInv
    <3>2. Part(wave') \subseteq Reported
      BY <2>2, <3>1 DEF Progress
    <3> QED BY <1>4, <3>2 DEF GoesOn
  <2>4. CASE wave' = wave
    <3>1. Left' = Left
      BY <1>4, <2>4 DEF GoesOn, Left, Part, Current, Reported, OfGeneration
    <3> QED BY <1>1, <2>1, <2>4, <3>1 DEF Lower
  <2>5. CASE wave' > wave
    BY <1>1, <2>1, <2>5 DEF Lower
  <2> QED BY <2>2, <2>3, <2>4, <2>5, PlanFacts
<1> QED BY <1>2, <1>3, <1>4, CoordinateMaking

LEMMA BranchLowers ==
  ASSUME GraphTypeOK, NodeInv, RejectionInv, FanoutInv, SentOpen,
         NEW t \in Types, GenerateOne(t) \/ GenerateRaises(t)
  PROVE  Lower
<1>1. /\ t \in sent /\ node = "generate"
      /\ UNCHANGED <<failCount, fanoutDone, wave, revision, scope, routing>>
  BY DEF GenerateOne, GenerateRaises, qualityVars
<1>2. ~routing /\ ~fanoutDone /\ wave \in DOMAIN Waves /\ t \in ToSet(Waves[wave]) /\ t \in Current
  BY <1>1, BranchFacts
<1>3. Distance = 10 /\ Making
  BY <1>1, <1>2 DEF Distance, Making
<1>4. CASE GenerateRaises(t)
  <2>1. node' = "raised"
    BY <1>4 DEF GenerateRaises
  <2>2. Order(node)' = 0
    BY <2>1 DEF Order
  <2>3. Distance' = 0
    BY <1>1, <1>2, <2>1, <2>2 DEF Distance, Making
  <2> QED BY <1>1, <1>3, <2>3 DEF Lower
<1>5. CASE GenerateOne(t)
  <2>1. PICK x \in {"passed", "failed"} :
           workflow' = [workflow EXCEPT ![t] = [generation |-> revision, status |-> x]]
    BY <1>5 DEF GenerateOne
  <2>2. /\ \A u \in Types \ {t} : workflow'[u] = workflow[u]
        /\ workflow'[t] = [generation |-> revision, status |-> x]
    BY <2>1, ChannelTypes
  <2>3. t \notin Reported /\ Reported' = Reported \cup {t}
    BY <1>1, <2>2 DEF SentOpen, Reported, OfGeneration, Terminal
  <2>4. wave # 0
    BY <1>2, PlanFacts
  <2>5. t \in Left /\ Left' = Left \ {t}
    BY <1>1, <1>2, <2>3, <2>4 DEF Left, Part, Current
  <2>6. Cardinality(Left') = Cardinality(Left) - 1 /\ Cardinality(Left) \in Nat
    BY <2>5, LeftFinite, FS_RemoveElement
  <2>7. Making'
    BY <1>1, <1>2, <1>5 DEF GenerateOne, Making
  <2> QED BY <1>1, <1>3, <2>6, <2>7 DEF Lower
<1> QED BY <1>4, <1>5

LEMMA RaiseLowers ==
  ASSUME RenderQualityRaises
  PROVE  Lower
<1>1. node = "render_quality" /\ ~routing /\ node' = "raised" /\ ~routing' /\ failCount' = failCount
  BY RaiseFacts
<1>2. Distance = 8
  BY <1>1, Orders DEF Distance, Making
<1>3. Order(node)' = 0
  BY <1>1 DEF Order
<1>4. Distance' = 0
  BY <1>1, <1>3 DEF Distance, Making
<1> QED BY <1>1, <1>2, <1>4 DEF Lower

DistanceInv == GraphInv /\ SentOpen /\ EmptyRouteInv /\ AnsweredInv

LEMMA DistanceInvariant == GraphSpec => []DistanceInv
<1>1. GraphInit => SentOpen /\ EmptyRouteInv /\ AnsweredInv
  <2> SUFFICES ASSUME GraphInit PROVE SentOpen /\ EmptyRouteInv /\ AnsweredInv
    OBVIOUS
  <2>1. ~EmptyRoute
    BY Zenon DEF GraphInit, EmptyRoute
  <2>2. node = "setup_contract" /\ completed = {} /\ sent = {}
    BY DEF GraphInit
  <2> QED BY <2>1, <2>2 DEF SentOpen, EmptyRouteInv, AnsweredInv, UnitStages
<1>2. GraphInv /\ SentOpen /\ [GraphNext]_vars => SentOpen'
  BY SentOpenStep DEF GraphInv
<1>3. GraphInv /\ EmptyRouteInv /\ AnsweredInv /\ [GraphNext]_vars
        => EmptyRouteInv' /\ AnsweredInv'
  BY EmptyRouteStep, AnsweredStep DEF GraphInv
<1> QED BY <1>1, <1>2, <1>3, GraphInvariant, PTL DEF GraphSpec, DistanceInv

LEMMA DistanceIsNat == ASSUME GraphTypeOK, NodeInv PROVE Distance \in Nat
<1>1. node \in Stages \cup {"generate", "end", "raised"} => Order(node) \in Nat
  BY Orders DEF Stages, PlainStages
<1>2. ASSUME routing PROVE Order(Edge(node)) \in Nat
  <2>1. node \in Stages
    BY <1>2 DEF NodeInv
  <2>2. CASE node = "render_quality"
    <3>1. AfterRenderQuality \in {"compliance_gate", "artifact_workflow", "planning_blueprint",
                                  "post_blueprint_research", "teacher_approval"}
      <4>1. EmptyRoute => AfterRenderQuality = "artifact_workflow"
        BY Zenon DEF AfterRenderQuality, EmptyRoute
      <4> QED BY <4>1, RenderQualityEdge
    <3>2. Edge(node) = AfterRenderQuality
      BY <2>2, Zenon DEF Edge
    <3> QED BY <3>1, <3>2, Orders
  <2>3. CASE node = "artifact_workflow"
    <3>1. Edge(node) \in {"generate", "render_quality"}
      BY <2>3 DEF Edge
    <3> QED BY <3>1, Orders
  <2>4. CASE node \in {"compliance_gate", "teacher_approval", "unit_approval", "triage"}
    <3>1. Edge(node) \in {"teacher_approval", "artifact_workflow", "export_finalize",
                          "unit_prep", "unit_planning", "preplanning_search"}
      BY <2>4 DEF Edge, AfterCompliance, AfterTeacher, AfterUnitApproval, AfterTriage
    <3> QED BY <3>1, Orders
  <2>5. CASE node \in Stages \ {"render_quality", "artifact_workflow", "compliance_gate",
                                "teacher_approval", "unit_approval", "triage"}
    <3>1. Forward
      BY <2>5 DEF Forward
    <3> QED BY <2>5, <3>1, ForwardEdges
  <2> QED BY <2>1, <2>2, <2>3, <2>4, <2>5
<1> QED BY <1>1, <1>2 DEF Distance, NodeInv

\* An invocation of the graph runs out of steps: each of them heals once more,
\* of which heal allows max_healing_attempts, or brings the run closer to an
\* interrupt or the end, or takes a generation further; what can keep it going
\* for ever are failures of quality that heal_quality_failure never sees and the
\* loops of Stuck (make_stage_node, the edges of build_teaching_pack_graph).
THEOREM InvocationsEnd == GraphSpec => InvocationsRunOut /\ []MeasureOK
<1>1. DistanceInv /\ [GraphNext]_vars =>
        [GraphStep => Lower \/ RenderQualityUnhealed \/ Stuck']_vars
  <2> SUFFICES ASSUME DistanceInv, GraphStep
               PROVE  Lower \/ RenderQualityUnhealed \/ Stuck'
    OBVIOUS
  <2> USE DEF DistanceInv, GraphInv
  <2>1. CASE Skip
    BY <2>1, SkipLowers
  <2>2. CASE FollowEdge
    BY <2>2, EdgeLowers
  <2>3. CASE Coordinate
    BY <2>3, CoordinateLowers
  <2>4. CASE \E t \in Types : GenerateOne(t) \/ GenerateRaises(t)
    BY <2>4, BranchLowers
  <2>5. CASE \/ RunPlainStage \/ PlanningBlueprint \/ RenderQualityPasses
             \/ RenderQualityHealed \/ ComplianceGate \/ ExportFinalize
    BY <2>5, StageLowers
  <2>6. CASE RenderQualityRaises
    BY <2>6, RaiseLowers
  <2> QED BY <2>1, <2>2, <2>3, <2>4, <2>5, <2>6 DEF GraphStep
<1>2. DistanceInv => MeasureOK
  <2> SUFFICES ASSUME GraphTypeOK, NodeInv PROVE MeasureOK
    BY DEF DistanceInv, GraphInv
  <2>1. failCount \in 0..(MaxHealing + 1) /\ wave \in 0..Len(Waves) /\ MaxHealing \in Nat
    BY GraphAssumption, Zenon DEF GraphTypeOK
  <2>2. failCount <= MaxHealing + 1 /\ wave <= Len(Waves)
    BY <2>1
  <2>3. Turn \in 0..2
    BY DEF Turn
  <2> QED BY <2>2, <2>3, LeftFinite, DistanceIsNat DEF MeasureOK
<1> QED BY <1>1, <1>2, DistanceInvariant, PTL DEF GraphSpec, InvocationsRunOut

==============================================================================
