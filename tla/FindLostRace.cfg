SPECIFICATION UnitSafety
CONSTANTS
    Long = Long
    Short = Short
    Units <- BothUnits
    Order <- PlanOrder
    Prereq <- PlanPrereq
    Sweepers = {g1, g2}
    Requests = {q1}
    MaxRestarts = 1
    NoTarget = NoTarget
INVARIANT LostRaceIsNoOp
CHECK_DEADLOCK FALSE
