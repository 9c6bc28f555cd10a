---------------------------- MODULE RetryPolicy ----------------------------
(***************************************************************************)
(* How long a slot waits after a failed attempt, in seconds.  The code     *)
(* saturates at u64::MAX before it takes the minimum with a u64: exact     *)
(* arithmetic gives the same.                                              *)
(***************************************************************************)
EXTENDS Naturals

CONSTANTS
  Strategy,            \* "None", "Fixed", "Linear" or "Exponential"
  InitialDelay, MaxDelay

ASSUME RetryPolicyAssumption ==
  /\ Strategy \in {"None", "Fixed", "Linear", "Exponential"}
  /\ InitialDelay \in Nat /\ MaxDelay \in Nat

AtMost(a, b) == IF a <= b THEN a ELSE b

\* The attempts start at 1.  Exponential is the attempt-th power of the initial
\* delay, which is 1 for every attempt when the initial delay is 1.
delay_secs(attempt) ==
  CASE Strategy = "None" -> 0
    [] Strategy = "Fixed" -> AtMost(InitialDelay, MaxDelay)
    [] Strategy = "Linear" -> AtMost(InitialDelay * attempt, MaxDelay)
    [] Strategy = "Exponential" -> AtMost(InitialDelay ^ AtMost(attempt, 10), MaxDelay)
=============================================================================
