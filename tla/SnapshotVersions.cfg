SPECIFICATION SnapshotSpec
CONSTANTS
  Requests = {q1, q2, q3}
  Worker = Worker
  Blocks = {b1, b2}
  Texts = {0, 1}
  NoOne = NoOne
  MaxFaults = 1
SYMMETRY SnapshotSymmetry
INVARIANTS NoLostUpdate RestoreIsAVersion RecordedHtmlKept LiveWasApproved
\* Every request is made once.
CHECK_DEADLOCK FALSE
