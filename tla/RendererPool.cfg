SPECIFICATION PoolSpec
CONSTANTS
    Requests = {r1, r2}
    MaxSlots = 4
    NoOne = NoOne
    PoolSize = 2
    MaxConcurrent = 2
    MaxRetries = 1
    MaxExits = 1
INVARIANTS NoProcessLeaked InStep
PROPERTIES EveryRenderReturns
