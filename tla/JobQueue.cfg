SPECIFICATION QueueSpec
CONSTANTS
  t1 = t1
  t2 = t2
  wA = wA
  wB = wB
  WorkerOf <- MCWorkerOf
  Jobs = {1, 2}
  Runs = {r1}
  Tasks = {t1, t2}
  WorkerIds = {wA, wB}
  NoWorker = NoWorker
  NoRun = NoRun
  MaxAttempts = 2
  MaxFaults = 1
  MaxOps = 1
INVARIANTS TypeOK LeaseDiscipline ExclusiveClaim
PROPERTIES OnlyStaleSweepUnsettles EveryJobSettles
\* A queue whose jobs are settled is where the system rests.
CHECK_DEADLOCK FALSE
