SPECIFICATION GraphSpec
CONSTANTS
    Waves <- PlanWaves
    Deps <- PlanDeps
    Requested <- AllTypes
    Parallelism = 1
    MaxHealing = 3
    MaxRejections = 1
    MaxGenFailures = 1
    MaxUnhealed = 1
    MaxRevision = 6
INVARIANTS DependenciesFirst JudgedWhole ExportIsDue
PROPERTIES StopsUnlessStuck
