-------------------------- MODULE TeachingPackGraph --------------------------
(* The LangGraph state machine that makes a teaching pack                   *)
(* (packages/agents/teaching_pack: graph, nodes, artifact_fanout,           *)
(* quality_runtime, healing_runtime, compliance, artifact_status).          *)
(*                                                                          *)
(* The graph runs one stage, then the stage's edge function reads the state *)
(* and names the next one.  A stage that is in completed_stages returns the *)
(* state unchanged unless _can_reenter_stage lets it run again.  The        *)
(* artifact stage fans out: it plans waves, a Send per artifact runs        *)
(* generate_one_artifact in parallel, and it plans again when all are back. *)
(* teacher_approval and unit_approval interrupt until a teacher answers.    *)
(* A document is a pair of an artifact type and the generation that made    *)
(* it; what is in it is left out, the verdicts on it are choices.           *)
(* The graph is handed a content store.  The in-memory and the LangGraph    *)
(* store keep every generation; the gateway's store refuses the second      *)
(* document of a type (module ArtifactDocuments, GenerateAgain) and its     *)
(* error leaves generate_one_artifact and the graph.                        *)
EXTENDS Naturals, Sequences, FiniteSets, SequencesExt

CONSTANTS
    Waves,          \* DependencyPlan.waves, sequences of artifact types
    Deps,           \* DependencyPlan.dependencies, a set for every type
    Requested,      \* contract.artifact_types
    Parallelism,    \* default_artifact_parallelism
    MaxHealing,     \* max_healing_attempts
    MaxRejections,  \* bound: answers that send the pack back
    MaxGenFailures, \* bound: artifacts whose generation fails
    MaxUnhealed,    \* bound: quality failures outside the injected gate
    MaxRevision     \* bound: generations of the pack

Types == UNION {ToSet(Waves[i]) : i \in DOMAIN Waves}

ASSUME GraphAssumption ==
    /\ Requested \subseteq Types /\ Requested # {}
    /\ Deps \in [Types -> SUBSET Types]
    /\ Parallelism \in Nat \ {0} /\ MaxHealing \in Nat \ {0}
    /\ MaxRejections \in Nat /\ MaxGenFailures \in Nat /\ MaxUnhealed \in Nat
    /\ MaxRevision \in Nat \ {0}

\* What holds of DEFAULT_DEPENDENCY_PLAN, the only plan there is.  A type is in
\* one place of one wave; its dependencies are in earlier waves, which is all
\* that DependencyPlan validates; and of two dependencies of a type one depends
\* on the other.  DependenciesFirst needs the last: otherwise, after one of them
\* failed, a scoped rejection of the other would send the type out without it.
ASSUME PlanAssumption ==
    /\ Waves \in Seq(Seq(Types))
    /\ \A i, k \in DOMAIN Waves : \A m \in DOMAIN Waves[i], n \in DOMAIN Waves[k] :
          Waves[i][m] = Waves[k][n] => i = k /\ m = n
    /\ \A i \in DOMAIN Waves : \A t \in ToSet(Waves[i]) : \A d \in Deps[t] :
          \E k \in DOMAIN Waves : k < i /\ d \in ToSet(Waves[k])
    /\ \A t \in Types : \A a, b \in Deps[t] : a = b \/ a \in Deps[b] \/ b \in Deps[a]

VARIABLES
    mode,       \* contract.mode: "pack" or "plan_unit"
    keepsAll,   \* content_store accepts every generation of a type
    node,       \* the stage that runs, "generate", "end" or "raised"
    routing,    \* the stage is done and its edge function is to be evaluated
    completed,  \* completed_stages
    route,      \* quality_recovery_route, "none" for None
    revision,   \* artifact_generation_revision
    wave,       \* artifact_wave_index counted from 1, 0 while unset
    fanoutDone, \* artifact_fanout_complete
    scope,      \* artifact_regeneration_scope.artifact_types
    sent,       \* artifacts whose Send branch runs
    workflow,   \* artifact_workflow_states: the newest entry of each type
    references, \* artifact_references
    failCount,  \* fail_count
    breaker,    \* failures of the run's circuit breaker in Redis
    escalate,   \* escalate
    compliance, \* compliance_passed: "unset", "passed" or "failed"
    snapshots,  \* rendered_snapshots, each named by its document
    answer,     \* gate_payload: what the teacher answered last
    rejected,   \* gate_payload.artifact_rejections, as types
    approved,   \* teacher_approved
    approvedIds,\* approved_snapshot_ids
    exported,   \* the snapshots export_finalize turned into files
    budget      \* what is left of the three bounds

genVars == <<revision, wave, fanoutDone, scope, sent, workflow, references>>
qualityVars == <<route, failCount, breaker, escalate, snapshots>>
gateVars == <<answer, rejected, approved, approvedIds>>
vars == <<mode, keepsAll, node, routing, completed, route, revision, wave, fanoutDone,
          scope, sent, workflow, references, failCount, breaker, escalate,
          compliance, snapshots, answer, rejected, approved, approvedIds,
          exported, budget>>

Terminal == {"passed", "failed", "skipped"}

GraphInit ==
    /\ mode \in {"pack", "plan_unit"} /\ keepsAll \in BOOLEAN
    /\ node = "setup_contract" /\ routing = FALSE /\ completed = {}
    /\ route = "none" /\ revision = 1 /\ wave = 0 /\ fanoutDone = FALSE
    /\ scope = {} /\ sent = {} /\ references = {}
    /\ workflow = [t \in Types |-> [generation |-> 0, status |-> "none"]]
    /\ failCount = 0 /\ breaker = 0 /\ escalate = FALSE
    /\ compliance = "unset" /\ snapshots = {}
    /\ answer = "none" /\ rejected = {} /\ approved = FALSE
    /\ approvedIds = {} /\ exported = {}
    /\ budget = [rejections |-> MaxRejections, genFailures |-> MaxGenFailures,
                 unhealed |-> MaxUnhealed]

-----------------------------------------------------------------------------
(* make_stage_node *)

\* scoped_rejections: the rejections that name an artifact there is
Rejections ==
    IF answer = "reject_selected"
      THEN {t \in rejected : \E d \in references : d[1] = t} ELSE {}

\* _can_reenter_stage
CanReenter(s) ==
    CASE s = "artifact_workflow" ->
            \/ ~fanoutDone
            \/ route \in {"artifact_workflow", "planning_blueprint"}
            \/ Rejections # {}
      [] s \in {"render_quality", "teacher_approval"} ->
            route = "artifact_workflow" \/ Rejections # {}
      [] s = "planning_blueprint" -> route = "planning_blueprint"
      [] s = "post_blueprint_research" ->
            route \in {"planning_blueprint", "post_blueprint_research"}
      [] OTHER -> FALSE

Runs(s) == node = s /\ ~routing /\ (s \notin completed \/ CanReenter(s))

Skip ==
    /\ ~routing /\ node \in completed /\ ~CanReenter(node)
    /\ routing' = TRUE
    /\ UNCHANGED <<mode, keepsAll, node, completed, genVars, qualityVars, compliance,
                   gateVars, exported, budget>>

\* _complete_stage
Complete(s) ==
    /\ completed' = completed \cup {s}
    /\ routing' = TRUE
    /\ UNCHANGED <<mode, keepsAll, node>>

\* setup_contract, triage, unit_planning, unit_prep, preplanning_search and
\* post_blueprint_research write contents no later branch looks at.
PlainStages == {"setup_contract", "triage", "unit_planning", "unit_prep",
                "preplanning_search", "post_blueprint_research"}
RunPlainStage ==
    \E s \in PlainStages :
       /\ Runs(s)
       /\ Complete(s)
       /\ UNCHANGED <<genVars, qualityVars, compliance, gateVars, exported, budget>>

\* _planning_blueprint asks the artifact stage for a fresh generation
PlanningBlueprint ==
    /\ Runs("planning_blueprint")
    /\ route' = "artifact_workflow"
    /\ Complete("planning_blueprint")
    /\ UNCHANGED <<genVars, failCount, breaker, escalate, snapshots, compliance,
                   gateVars, exported, budget>>

-----------------------------------------------------------------------------
(* artifact_fanout *)

\* with_dependents adds to the seed every requested type that depends on a
\* member, until nothing changes: the least set that holds the seed and is
\* closed.
Closed(affected) ==
    \A t \in Requested : Deps[t] \cap affected # {} => t \in affected
WithDependents ==
    [seed \in SUBSET Requested |->
       {t \in Requested : \A affected \in SUBSET Requested :
                             seed \subseteq affected /\ Closed(affected) => t \in affected}]

\* _scoped_generation_types: a scope once recorded stays
ScopedTypes == IF scope # {} THEN scope ELSE WithDependents[Rejections]

\* _requested_types
RequestedNow == IF ScopedTypes # {} THEN ScopedTypes ELSE Requested

\* _needs_new_generation_cycle
NeedsNewCycle == fanoutDone /\ (Rejections # {} \/ route = "artifact_workflow")

\* _wave_at, _next_wave_index
WaveAt(i) ==
    IF i \in DOMAIN Waves THEN ToSet(Waves[i]) \cap RequestedNow ELSE {}
Occupied(from) == {i \in DOMAIN Waves : i >= from /\ WaveAt(i) # {}}

\* _current_wave_index
CurrentWave ==
    IF (NeedsNewCycle \/ wave = 0) /\ Occupied(1) # {} THEN Min(Occupied(1))
    ELSE wave

\* _completed_types, _failed_types of one generation
OfGeneration(g, statuses) ==
    {t \in Types : workflow[t].generation = g /\ workflow[t].status \in statuses}

\* Mutation of WaveOver: the first report ends the wave.
WaveOver_Any(g, i) == WaveAt(i) \cap OfGeneration(g, Terminal) # {}

\* The wave is over when all its branches have reported.
WaveOver(g, i) == WaveAt(i) \subseteq OfGeneration(g, Terminal)

\* skipped_dependents
SkippedBy(failed) == {t \in RequestedNow : Deps[t] \cap failed # {}}

\* coordinate_artifact_fanout.  The references it returns are merged into the
\* channel by document id (stable_merge_artifact_references): none leaves it.
Coordinate ==
    LET g == IF NeedsNewCycle THEN revision + 1 ELSE revision
        i == CurrentWave
        over == WaveAt(i) # {} /\ WaveOver(g, i)
        skipped == SkippedBy(OfGeneration(g, {"failed"}))
        next == Occupied(i + 1)
        done == WaveAt(i) = {} \/ (over /\ (skipped # {} \/ next = {})) IN
    /\ Runs("artifact_workflow")
    /\ g <= MaxRevision
    /\ revision' = g
    /\ scope' = ScopedTypes
    /\ fanoutDone' = done
    /\ wave' = IF over /\ skipped = {} /\ next # {} THEN Min(next) ELSE i
    /\ workflow' = [t \in Types |->
                      IF over /\ t \in skipped
                        THEN [generation |-> g, status |-> "skipped"]
                        ELSE workflow[t]]
    /\ completed' = IF done THEN completed \cup {node} ELSE completed
    /\ routing' = TRUE
    /\ UNCHANGED <<mode, keepsAll, node, sent, references, qualityVars, compliance,
                   gateVars, exported, budget>>

\* The types that precede t in its wave
Before ==
    [t \in Types |-> {u \in Types : \E i \in DOMAIN Waves : \E m, n \in DOMAIN Waves[i] :
                                      m < n /\ Waves[i][m] = u /\ Waves[i][n] = t}]

\* The first Parallelism types of a part of a wave
FirstOf(open) == {t \in open : Cardinality(open \cap Before[t]) < Parallelism}

\* Mutation of ToSend: a wave is sent out once.
ToSend_OncePerWave ==
    IF fanoutDone \/ WaveAt(CurrentWave) \cap OfGeneration(revision, Terminal) # {}
      THEN {} ELSE FirstOf(WaveAt(CurrentWave))

\* route_after_artifact_workflow: the first branches of the wave still open
ToSend ==
    IF fanoutDone THEN {}
    ELSE FirstOf(WaveAt(CurrentWave) \ OfGeneration(revision, Terminal))

\* persist_result accepts the document
Stores(t) == keepsAll \/ ~\E d \in references : d[1] = t

\* generate_one_artifact: passed with a reference, or failed without one; the
\* branches report in any order and the artifact stage waits for all.
GenerateOne(t) ==
    /\ node = "generate" /\ t \in sent
    /\ sent' = sent \ {t}
    /\ node' = IF sent = {t} THEN "artifact_workflow" ELSE node
    /\ \/ /\ Stores(t)
          /\ references' = references \cup {<<t, revision>>}
          /\ workflow' = [workflow EXCEPT ![t] =
                            [generation |-> revision, status |-> "passed"]]
          /\ UNCHANGED budget
       \/ /\ budget.genFailures > 0
          /\ budget' = [budget EXCEPT !.genFailures = @ - 1]
          /\ workflow' = [workflow EXCEPT ![t] =
                            [generation |-> revision, status |-> "failed"]]
          /\ UNCHANGED references
    /\ UNCHANGED <<mode, keepsAll, routing, completed, revision, wave, fanoutDone, scope,
                   qualityVars, compliance, gateVars, exported>>

\* persist_result is called outside the try: its error ends the invocation.
GenerateRaises(t) ==
    /\ node = "generate" /\ t \in sent /\ ~Stores(t)
    /\ node' = "raised" /\ sent' = {}
    /\ UNCHANGED <<mode, keepsAll, routing, completed, revision, wave,
                   fanoutDone, scope, workflow, references, qualityVars,
                   compliance, gateVars, exported, budget>>

-----------------------------------------------------------------------------
(* render_quality and healing *)

RenderQualityPasses ==
    /\ Runs("render_quality")
    /\ snapshots' = references
    /\ route' = "none"
    /\ Complete("render_quality")
    /\ UNCHANGED <<genVars, failCount, breaker, escalate, compliance, gateVars,
                   exported, budget>>

\* Coherence, strategy, reviewer and judge failures go back by their wording
\* (quality_recovery_route) and are not counted.
RenderQualityUnhealed ==
    /\ Runs("render_quality")
    /\ budget.unhealed > 0
    /\ budget' = [budget EXCEPT !.unhealed = @ - 1]
    /\ route' \in {"artifact_workflow", "planning_blueprint",
                   "post_blueprint_research"}
    /\ Complete("render_quality")
    /\ UNCHANGED <<genVars, failCount, breaker, escalate, snapshots, compliance,
                   gateVars, exported>>

\* heal_quality_failure runs once for the log line and once for the update.
\* Each run counts in the breaker, whose threshold is MaxHealing + 1.
Exhausted(seen) == seen + 2 > MaxHealing

\* Mutation of Escalates: healing goes on for ever.
Escalates_Unbounded(seen) == seen < 0

\* heal escalates at the ceiling, and when its three strategies are used up.
Escalates(seen) ==
    Exhausted(seen) \/ failCount + 1 > MaxHealing \/ failCount + 1 > 3

\* HealingOrchestrator.heal and _route_for_healing: the failure classes of a
\* planning problem, and the third strategy, go back to the blueprint; the
\* third strategy also drops the rendered snapshots.  The breaker's entry in
\* Redis may have expired, or Redis may be away.
RenderQualityHealed ==
    \E seen \in {0, breaker} :
       /\ Runs("render_quality")
       /\ failCount' = IF failCount > MaxHealing THEN failCount ELSE failCount + 1
       /\ breaker' = IF Exhausted(seen) THEN MaxHealing + 1 ELSE seen + 2
       /\ \/ /\ Escalates(seen)
             /\ route' = "teacher_approval" /\ escalate' = TRUE
             /\ UNCHANGED snapshots
          \/ /\ ~Escalates(seen) /\ failCount + 1 = 3
             /\ route' = "planning_blueprint" /\ snapshots' = {}
             /\ UNCHANGED escalate
          \/ /\ ~Escalates(seen) /\ failCount + 1 # 3
             /\ route' \in {"artifact_workflow", "planning_blueprint"}
             /\ UNCHANGED <<escalate, snapshots>>
       /\ Complete("render_quality")
       /\ UNCHANGED <<genVars, compliance, gateVars, exported, budget>>

\* Layer-1 issues other than incoherence raise TeachingPackQualityGateError,
\* which nothing catches: the invocation ends at this node.
RenderQualityRaises ==
    /\ Runs("render_quality")
    /\ node' = "raised"
    /\ UNCHANGED <<mode, keepsAll, routing, completed, genVars, qualityVars,
                   compliance, gateVars, exported, budget>>

-----------------------------------------------------------------------------
(* compliance_gate, teacher_approval, export_finalize *)

ComplianceGate ==
    /\ Runs("compliance_gate")
    /\ \/ compliance' = "passed" /\ UNCHANGED route
       \/ compliance' = "failed" /\ route' = "artifact_workflow"
    /\ Complete("compliance_gate")
    /\ UNCHANGED <<genVars, failCount, breaker, escalate, snapshots, gateVars,
                   exported, budget>>

\* The interrupt returns with the teacher's answer.  An edit of a section and
\* a rejection that names unknown artifacts keep no rejection that counts.
TeacherAnswers ==
    /\ Runs("teacher_approval")
    /\ \/ /\ answer' = "approve" /\ approved' = TRUE
          /\ approvedIds' = snapshots /\ rejected' = {}
          /\ UNCHANGED budget
       \/ /\ answer' = "reject" /\ rejected' = {}
          /\ approved' = FALSE /\ approvedIds' = {}
          /\ UNCHANGED budget
       \/ /\ budget.rejections > 0
          /\ budget' = [budget EXCEPT !.rejections = @ - 1]
          /\ answer' \in {"reject_selected", "edit_section"}
          /\ rejected' \in {{}} \cup {{t} : t \in Requested}
          /\ (answer' = "edit_section" => rejected' = {})
          /\ approved' = FALSE /\ approvedIds' = {}
    /\ Complete("teacher_approval")
    /\ UNCHANGED <<genVars, qualityVars, compliance, exported>>

UnitAnswers ==
    /\ Runs("unit_approval")
    /\ answer' \in {"approve", "edit", "reject"}
    /\ approved' = (answer' = "approve")
    /\ Complete("unit_approval")
    /\ UNCHANGED <<genVars, qualityVars, compliance, rejected, approvedIds,
                   exported, budget>>

\* unavailable_required_artifact_statuses: a type whose newest workflow entry
\* is not passed; without an entry a reference is enough.
Unavailable ==
    {t \in Requested :
       /\ workflow[t].status # "passed"
       /\ ~(workflow[t].status = "none" /\ \E d \in references : d[1] = t)}

ExportFinalize ==
    /\ Runs("export_finalize")
    /\ IF approved /\ Unavailable = {}
         THEN /\ exported' = snapshots \cap approvedIds
              /\ route' = "" /\ escalate' = FALSE
         ELSE UNCHANGED <<exported, route, escalate>>
    /\ Complete("export_finalize")
    /\ UNCHANGED <<genVars, failCount, breaker, snapshots, compliance, gateVars, budget>>

-----------------------------------------------------------------------------
(* The edges of build_teaching_pack_graph *)

AfterTriage == IF mode = "plan_unit" THEN "unit_planning" ELSE "preplanning_search"

AfterRenderQuality ==
    CASE route = "none" -> "compliance_gate"
      [] route = "" -> "artifact_workflow"
      [] OTHER -> route

\* Mutation of AfterCompliance: the verdict is not looked at.
AfterCompliance_Open == "teacher_approval"

AfterCompliance ==
    IF compliance = "passed" THEN "teacher_approval" ELSE "artifact_workflow"

AfterTeacher ==
    IF ~approved /\ answer \in {"reject_selected", "edit_section"}
      THEN "artifact_workflow" ELSE "export_finalize"

AfterUnitApproval == IF approved THEN "unit_prep" ELSE "unit_planning"

Edge(s) ==
    CASE s = "setup_contract" -> "triage"
      [] s = "triage" -> AfterTriage
      [] s = "unit_planning" -> "unit_approval"
      [] s = "unit_approval" -> AfterUnitApproval
      [] s = "preplanning_search" -> "planning_blueprint"
      [] s = "planning_blueprint" -> "post_blueprint_research"
      [] s = "post_blueprint_research" -> "artifact_workflow"
      [] s = "artifact_workflow" ->
            IF ToSend = {} THEN "render_quality" ELSE "generate"
      [] s = "render_quality" -> AfterRenderQuality
      [] s = "compliance_gate" -> AfterCompliance
      [] s = "teacher_approval" -> AfterTeacher
      [] s \in {"unit_prep", "export_finalize"} -> "end"

FollowEdge ==
    /\ routing
    /\ node' = Edge(node)
    /\ routing' = FALSE
    /\ sent' = IF node = "artifact_workflow" THEN ToSend ELSE {}
    /\ UNCHANGED <<mode, keepsAll, completed, revision, wave, fanoutDone, scope, workflow,
                   references, qualityVars, compliance, gateVars, exported, budget>>

-----------------------------------------------------------------------------
GraphStep ==
    \/ Skip \/ FollowEdge \/ RunPlainStage \/ PlanningBlueprint \/ Coordinate
    \/ \E t \in Types : GenerateOne(t) \/ GenerateRaises(t)
    \/ RenderQualityPasses \/ RenderQualityUnhealed \/ RenderQualityHealed
    \/ RenderQualityRaises
    \/ ComplianceGate \/ ExportFinalize

Paused == Runs("teacher_approval") \/ Runs("unit_approval")

\* The run of the graph is over, or the next generation is past the bound.
Ended ==
    /\ \/ node \in {"end", "raised"}
       \/ Runs("artifact_workflow") /\ NeedsNewCycle /\ revision = MaxRevision
    /\ UNCHANGED vars

GraphNext == GraphStep \/ TeacherAnswers \/ UnitAnswers \/ Ended

\* ainvoke runs the graph to an interrupt or to the end; nobody has to answer.
GraphSpec == GraphInit /\ [][GraphNext]_vars /\ WF_vars(GraphStep)

-----------------------------------------------------------------------------
(* Properties *)

Documents == Types \X (Nat \ {0})

\* Types of the channels of the graph.
GraphTypeOK ==
    /\ mode \in {"pack", "plan_unit"} /\ keepsAll \in BOOLEAN
    /\ routing \in BOOLEAN
    /\ route \in {"none", "", "artifact_workflow", "planning_blueprint",
                  "post_blueprint_research", "teacher_approval"}
    /\ revision \in Nat \ {0} /\ wave \in 0..Len(Waves)
    /\ fanoutDone \in BOOLEAN /\ escalate \in BOOLEAN /\ approved \in BOOLEAN
    /\ scope \subseteq Requested /\ sent \subseteq Types
    /\ Cardinality(sent) <= Parallelism
    /\ workflow \in [Types -> [generation : Nat, status : Terminal \cup {"none"}]]
    /\ failCount \in 0..(MaxHealing + 1) /\ breaker \in 0..(MaxHealing + 1)
    /\ compliance \in {"unset", "passed", "failed"}
    /\ references \cup snapshots \subseteq Documents
    /\ approvedIds \cup exported \subseteq Documents

\* No artifact is generated from a dependency that is missing or still being
\* made: a dependency of a running Send branch has passed in this generation,
\* or this generation leaves it as it is and its document exists.
DependenciesFirst ==
    \A t \in sent : \A d \in Deps[t] \cap Requested :
       \/ workflow[d] = [generation |-> revision, status |-> "passed"]
       \/ d \notin RequestedNow /\ \E doc \in references : doc[1] = d

\* Quality is judged on a whole generation: when render_quality runs, every
\* type this generation was to make has reported, unless a failure blocked the
\* later waves, and then the dependents of the failure are skipped.
JudgedWhole ==
    Runs("render_quality") =>
       \/ RequestedNow \subseteq OfGeneration(revision, Terminal)
       \/ OfGeneration(revision, {"skipped"}) # {}

\* Files appear only for a pack the teacher approved, with every requested
\* artifact available in its newest version, and that passed the compliance
\* gate or was shown to the teacher as escalated.
ExportIsDue ==
    exported # {} =>
       /\ approved /\ exported \subseteq approvedIds
       /\ \A t \in Requested : workflow[t].status = "passed"
       /\ compliance = "passed" \/ failCount > 0

\* The runs of the graph that no quality verdict and no answer can end:
\* compliance_gate and unit_approval are never re-entered after they said no,
\* an uncounted factual doubt re-runs research and then skips the rest, and an
\* edit or an unmatched rejection finds every stage completed.
Stuck ==
    \/ compliance = "failed"
    \/ mode = "plan_unit" /\ answer \in {"edit", "reject"}
    \/ route = "post_blueprint_research"
    \/ answer \in {"reject_selected", "edit_section"} /\ Rejections = {}

\* Every invocation of the graph reaches an interrupt, the end or an error,
\* healing and regeneration included, except in those four situations.
StopsUnlessStuck ==
    []<>(Paused \/ node \in {"end", "raised"}) \/ <>[]Stuck

==============================================================================
