------------------------- MODULE MCTeachingPackGraph -------------------------
(* The default dependency plan cut down to four artifact types. *)
EXTENDS TeachingPackGraph

PlanWaves == << <<"lesson">>, <<"worksheet", "quiz">>, <<"recap">> >>
PlanDeps ==
    ("lesson" :> {}) @@ ("worksheet" :> {"lesson"}) @@ ("quiz" :> {"lesson"})
    @@ ("recap" :> {"lesson", "quiz"})
AllTypes == {"lesson", "worksheet", "quiz", "recap"}

\* The closure and the order are constant functions; TLC tabulates them here.
ASSUME WithDependents \in [SUBSET AllTypes -> SUBSET AllTypes]
ASSUME Before \in [AllTypes -> SUBSET AllTypes]
=============================================================================
