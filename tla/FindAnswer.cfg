SPECIFICATION RunSpec
CONSTANTS
  t1 = t1
  t2 = t2
  wA = wA
  q1 = q1
  q2 = q2
  wB = wB
  WorkerOf <- MCWorkerOf
  Jobs = {1, 2}
  Runs = {r1}
  Tasks = {t1}
  WorkerIds = {wA, wB}
  NoWorker = NoWorker
  NoRun = NoRun
  MaxAttempts = 2
  MaxFaults = 1
  MaxOps = 0
  MaxAdmin = 0
  Gates = {1, 2}
  Requests = {q1}
  MaxPauses = 2
INVARIANT AnswerReachesOnlyItsGate
\* A run at a gate nobody answers, or a finished one, is where the system rests.
CHECK_DEADLOCK FALSE
