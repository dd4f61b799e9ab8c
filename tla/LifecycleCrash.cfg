SPECIFICATION RunSpec
CONSTANTS
  t1 = t1
  t2 = t2
  wA = wA
  q1 = q1
  q2 = q2
  wB = wA
  WorkerOf <- MCWorkerOf
  Jobs = {1, 2}
  Runs = {r1}
  Tasks = {t1, t2}
  WorkerIds = {wA}
  NoWorker = NoWorker
  NoRun = NoRun
  MaxAttempts = 1
  MaxFaults = 1
  MaxOps = 0
  MaxAdmin = 0
  Gates = {1, 2}
  Requests = {q1}
  MaxPauses = 2
INVARIANTS CompletionRecorded NoStrandedRun
PROPERTY PromiseKept
SYMMETRY TaskSymmetry
\* A run at a gate nobody answers, or a finished one, is where the system rests.
CHECK_DEADLOCK FALSE
