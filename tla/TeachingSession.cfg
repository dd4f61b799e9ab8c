SPECIFICATION SessionSpec
CONSTANTS
  Requests = {w1, w2}
  Clients = {c1}
  Keys = {k1, k2}
  Snapshots = {1, 2}
  NoRequest = NoRequest
  NoKey = NoKey
  RecoveryLimit = 2
  MaxSeq = 2
  MaxFaults = 1
INVARIANTS CountedOnce PinAnnounced OnlyCommittedShown StreamInOrder
PROPERTY PollingCatchesUp
\* A session nobody acts on is where the system rests.
CHECK_DEADLOCK FALSE
