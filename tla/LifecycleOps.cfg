SPECIFICATION RunSpec
CONSTANTS
  t1 = t1
  t2 = t2
  wA = wA
  q1 = q1
  q2 = q2
  wB = wB
  WorkerOf <- MCWorkerOf
  Jobs = {1, 2}
  Runs = {r1}
  Tasks = {t1}
  WorkerIds = {wA, wB}
  NoWorker = NoWorker
  NoRun = NoRun
  MaxAttempts = 2
  MaxFaults = 0
  MaxOps = 1
  MaxAdmin = 1
  Gates = {1, 2}
  Requests = {q1, q2}
  MaxPauses = 1
INVARIANTS RunTypeOK OneJobPerAnswer NoStrandedRun
SYMMETRY RequestSymmetry
\* A run at a gate nobody answers, or a finished one, is where the system rests.
CHECK_DEADLOCK FALSE
