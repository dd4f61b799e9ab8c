SPECIFICATION LogSpec
CONSTANTS
  s1 = s1
  s2 = s2
  gateway = gateway
  worker = worker
  ProcOf <- MCProcOf
  Sessions = {s1, s2}
  Clients = {c1}
  Procs = {gateway, worker}
  NoSession = NoSession
  MaxSeq = 2
  MaxFaults = 1
INVARIANTS EventTypeOK NoLostWakeup
PROPERTIES FeedImplemented EveryEventDelivered OutboxDrained
\* A run whose events are delivered and published is where the system rests.
CHECK_DEADLOCK FALSE
