----------------------------- MODULE MCEventLog -----------------------------
(***************************************************************************)
(* A small instance of EventLog: a request and a worker task in the        *)
(* gateway's process or in a process of their own, and one client served   *)
(* by the gateway.                                                         *)
(***************************************************************************)
EXTENDS EventLog

CONSTANTS s1, s2, gateway, worker

MCProcOf == [x \in Sessions \cup Clients |-> IF x = s2 THEN worker ELSE gateway]

=============================================================================
