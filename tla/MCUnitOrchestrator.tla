------------------------- MODULE MCUnitOrchestrator -------------------------
(* A unit of two sessions, the second after the first, and a unit of one.   *)
EXTENDS UnitOrchestrator, TLC

CONSTANTS Long, Short

BothUnits == {Long, Short}
PlanOrder == (Long :> <<"S1", "S2">>) @@ (Short :> <<"S1">>)
PlanPrereq ==
    (Long :> (("S1" :> {}) @@ ("S2" :> {"S1"}))) @@ (Short :> ("S1" :> {}))
=============================================================================
