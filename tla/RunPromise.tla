----------------------------- MODULE RunPromise -----------------------------
(***************************************************************************)
(* What the gateway promises about one teaching-pack run, whatever happens *)
(* in the queue, the graph and the gates: an accepted run is open until it *)
(* is completed, failed or cancelled; a completed or cancelled run never   *)
(* changes again; a failed run can only be cancelled by an administrator;  *)
(* and completion is announced exactly once.                               *)
(***************************************************************************)
EXTENDS Naturals

CONSTANT Runs

VARIABLES
  outcome,    \* what the run has come to
  announced   \* number of teaching_pack.run.completed events

Outcomes == {"none", "open", "completed", "failed", "cancelled"}

PromiseInit ==
  /\ outcome = [r \in Runs |-> "none"]
  /\ announced = [r \in Runs |-> 0]

Accept(r) ==
  /\ outcome[r] = "none"
  /\ outcome' = [outcome EXCEPT ![r] = "open"]
  /\ UNCHANGED announced

Complete(r) ==
  /\ outcome[r] = "open"
  /\ outcome' = [outcome EXCEPT ![r] = "completed"]
  /\ announced' = [announced EXCEPT ![r] = @ + 1]

Fail(r) ==
  /\ outcome[r] = "open"
  /\ outcome' = [outcome EXCEPT ![r] = "failed"]
  /\ UNCHANGED announced

Cancel(r) ==
  /\ outcome[r] \in {"open", "failed"}
  /\ outcome' = [outcome EXCEPT ![r] = "cancelled"]
  /\ UNCHANGED announced

PromiseNext == \E r \in Runs : Accept(r) \/ Complete(r) \/ Fail(r) \/ Cancel(r)

PromiseSpec == PromiseInit /\ [][PromiseNext]_<<outcome, announced>>

=============================================================================
