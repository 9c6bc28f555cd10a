----------------------------- MODULE JobLedger ------------------------------
(***************************************************************************)
(* What the job queue promises its users, without leases, slots or crashes: *)
(* at-least-once delivery with a limited number of tries.  An open job may  *)
(* be delivered any number of times; a settled one is not delivered.  A job *)
(* is settled only by someone it was delivered to, and it is given up only  *)
(* after MaxAttempts deliveries.  Settling is not final: an earlier receiver *)
(* may report late, and its report counts.                                  *)
(***************************************************************************)
EXTENDS Naturals

CONSTANTS Jobs, MaxAttempts

VARIABLES
  state,       \* "absent", "open", "done" or "dead"
  deliveries   \* how often the job was handed out

ledgerVars == <<state, deliveries>>

Init ==
  /\ state = [j \in Jobs |-> "absent"]
  /\ deliveries = [j \in Jobs |-> 0]

Submit(j) ==
  /\ state[j] = "absent"
  /\ state' = [state EXCEPT ![j] = "open"]
  /\ UNCHANGED deliveries

Deliver(j) ==
  /\ state[j] = "open"
  /\ deliveries' = [deliveries EXCEPT ![j] = @ + 1]
  /\ UNCHANGED state

ReportDone(j) ==
  /\ deliveries[j] > 0
  /\ state' = [state EXCEPT ![j] = "done"]
  /\ UNCHANGED deliveries

ReportFailed(j) ==
  /\ deliveries[j] > 0
  /\ state' = [state EXCEPT ![j] = IF deliveries[j] >= MaxAttempts THEN "dead" ELSE "open"]
  /\ UNCHANGED deliveries

Next ==
  \E j \in Jobs : Submit(j) \/ Deliver(j) \/ ReportDone(j) \/ ReportFailed(j)

Spec == Init /\ [][Next]_ledgerVars
=============================================================================
