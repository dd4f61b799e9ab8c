SPECIFICATION UnitSpec
CONSTANTS
    Long = Long
    Short = Short
    Units <- BothUnits
    Order <- PlanOrder
    Prereq <- PlanPrereq
    Sweepers = {g1, g2}
    Requests = {q1}
    MaxRestarts = 1
    NoTarget = NoTarget
INVARIANTS OneStartPerChild SweptAfterPrerequisites
PROPERTIES ReadyIsStarted
CHECK_DEADLOCK FALSE
