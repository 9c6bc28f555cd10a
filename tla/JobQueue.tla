------------------------------ MODULE JobQueue ------------------------------
(***************************************************************************)
(* The `jobs' table and the worker pools that drain it.                    *)
(*                                                                         *)
(* Producers insert rows; every slot of every worker process loops over    *)
(* dequeue, handler, complete or fail (crates/worker/src/pool.rs).  Each   *)
(* queue call is one SQL statement and hence one atomic step; the handler  *)
(* runs between two of them, so slots of different processes interleave    *)
(* there.  A slot works from the job it was handed by dequeue: `attempts'  *)
(* in a slot is that snapshot, `attempts' in a row is the current column.  *)
(*                                                                         *)
(* Wall-clock time is abstracted: a lease is live until an action expires  *)
(* it.  Expiry under a handler that is still at work, a process crash, a   *)
(* lost SQL write and a stop signal are faults, at most MaxFaults of them  *)
(* in a behaviour; the expiry of a lease nobody holds any more is not.     *)
(***************************************************************************)
EXTENDS Naturals, FiniteSets, RetryPolicy

CONSTANTS
  Jobs,          \* job ids (Uuid::now_v7, fresh per enqueue)
  Workers,       \* worker processes
  Concurrency,   \* slots per process
  MaxAttempts,   \* retry::MAX_ATTEMPTS, shared by RetryPolicy and the fail SQL
  Stamps,        \* the values enqueued_at takes
  MaxFaults,     \* bound on faults
  NoJob          \* the job of a slot that holds none

ASSUME JobQueueAssumption ==
  /\ Concurrency \in Nat \ {0}
  /\ MaxAttempts \in Nat \ {0}
  /\ Stamps \subseteq Nat
  /\ MaxFaults \in Nat
  /\ NoJob \notin Jobs

VARIABLES
  rows,    \* the jobs table: one record per id, status "absent" if not inserted
  slots,   \* the slot tasks: where they are in run_into's loop, what they hold
  stop,    \* the stop flag of each process
  dlq,     \* per job, the attempts for which a DlqEntry was pushed
  faults   \* faults so far

vars == <<rows, slots, stop, dlq, faults>>

Slots == Workers \X (1..Concurrency)
SlotsOf(w) == {w} \X (1..Concurrency)

Row == [status: {"absent", "pending", "running", "succeeded", "dead"},
        attempts: Nat,
        lease: {"none", "live", "expired"},
        at: Stamps \cup {0}]

\* `lease' in a slot is history: whether the lease period of the claim it
\* works on has run out.  The code does not look at it.
Slot == [pc: {"idle", "sleeping", "backoff", "running", "failing", "stopped", "down"},
         job: Jobs \cup {NoJob},
         attempts: Nat,
         lease: {"none", "live", "expired"}]

At(pc) == [pc |-> pc, job |-> NoJob, attempts |-> 0, lease |-> "none"]

Init ==
  /\ rows = [j \in Jobs |->
               [status |-> "absent", attempts |-> 0, lease |-> "none", at |-> 0]]
  /\ slots = [s \in Slots |-> At("idle")]
  /\ stop = [w \in Workers |-> FALSE]
  /\ dlq = [j \in Jobs |-> {}]
  /\ faults = 0

-----------------------------------------------------------------------------
(* What the SQL statements do to a row.                                    *)

\* INSERT ... ON CONFLICT (id) DO NOTHING
InsertOrReplace(row, t) ==
  [status |-> "pending", attempts |-> 0, lease |-> "none", at |-> t]
InsertOrIgnore(row, t) ==
  IF row.status = "absent" THEN InsertOrReplace(row, t) ELSE row

\* WHERE status = 'pending' OR (status = 'running' AND lease NULL or past)
ClaimableIgnoringLease(row) == row.status \in {"pending", "running"}
ClaimablePendingOnly(row) == row.status = "pending"
Claimable(row) ==
  \/ row.status = "pending"
  \/ row.status = "running" /\ row.lease # "live"

\* SET status = 'running', attempts = attempts + 1, lease_expires_at = ...
ClaimedWithoutCount(row) ==
  [row EXCEPT !.status = "running", !.lease = "live"]
Claimed(row) ==
  [status |-> "running", attempts |-> row.attempts + 1, lease |-> "live", at |-> row.at]

\* complete: SET status = 'succeeded', lease_expires_at = NULL WHERE id = ...
Completed(row) == [row EXCEPT !.status = "succeeded", !.lease = "none"]

\* fail: CASE WHEN attempts >= MAX_ATTEMPTS THEN 'dead' ELSE 'pending' END
FailedOffByOne(row) ==
  [row EXCEPT !.status = IF row.attempts > MaxAttempts THEN "dead" ELSE "pending",
              !.lease = "none"]
Failed(row) ==
  [row EXCEPT !.status = IF row.attempts >= MaxAttempts THEN "dead" ELSE "pending",
              !.lease = "none"]

\* ORDER BY enqueued_at LIMIT 1; ties in any order
Oldest ==
  {j \in Jobs : /\ Claimable(rows[j])
                /\ \A k \in Jobs : Claimable(rows[k]) => rows[j].at <= rows[k].at}

-----------------------------------------------------------------------------
(* Steps of the slots.                                                     *)

Fault == faults < MaxFaults /\ faults' = faults + 1

Busy(s) == slots[s].pc \in {"running", "failing"}
Goto(s, pc) == slots' = [slots EXCEPT ![s] = At(pc)]

\* policy.max_attempts against the snapshot
ExhaustedOneLate(n) == n > MaxAttempts
Exhausted(n) == n >= MaxAttempts

Enqueue(j, t) ==
  /\ rows' = [rows EXCEPT ![j] = InsertOrIgnore(@, t)]
  /\ UNCHANGED <<slots, stop, dlq, faults>>

MayDequeueIgnoringStop(s) == slots[s].pc = "idle"
MayDequeue(s) == slots[s].pc = "idle" /\ ~stop[s[1]]

Dequeue(s) ==
  /\ MayDequeue(s)
  /\ \E j \in Oldest :
       /\ rows' = [rows EXCEPT ![j] = Claimed(@)]
       /\ slots' = [slots EXCEPT ![s] =
                      [pc |-> "running", job |-> j,
                       attempts |-> Claimed(rows[j]).attempts, lease |-> "live"]]
  /\ UNCHANGED <<stop, dlq, faults>>

\* Ok(None): sleep 200 ms
DequeueEmpty(s) ==
  /\ MayDequeue(s)
  /\ Oldest = {}
  /\ Goto(s, "sleeping")
  /\ UNCHANGED <<rows, stop, dlq, faults>>

\* Err: sleep 1 s.  The claim may have committed all the same: its answer was
\* lost, or the row did not parse into a Job.
DequeueErr(s) ==
  /\ MayDequeue(s)
  /\ Fault
  /\ \/ \E j \in Oldest : rows' = [rows EXCEPT ![j] = Claimed(@)]
     \/ UNCHANGED rows
  /\ Goto(s, "sleeping")
  /\ UNCHANGED <<stop, dlq>>

\* The handler returned Ok.
Complete(s) ==
  /\ slots[s].pc = "running"
  /\ rows' = [rows EXCEPT ![slots[s].job] = Completed(@)]
  /\ Goto(s, "idle")
  /\ UNCHANGED <<stop, dlq, faults>>

\* ... and complete() failed or panicked: logged, the row stays as it is.
CompleteLost(s) ==
  /\ slots[s].pc = "running"
  /\ Fault
  /\ Goto(s, "idle")
  /\ UNCHANGED <<rows, stop, dlq>>

\* The handler returned Err or panicked, on an exhausted attempt.  Both sinks of
\* the repository accept every push.
PushDlq(s) ==
  /\ slots[s].pc = "running"
  /\ Exhausted(slots[s].attempts)
  /\ dlq' = [dlq EXCEPT ![slots[s].job] = @ \cup {slots[s].attempts}]
  /\ slots' = [slots EXCEPT ![s].pc = "failing"]
  /\ UNCHANGED <<rows, stop, faults>>

Failing(s) ==
  \/ slots[s].pc = "failing"
  \/ slots[s].pc = "running" /\ ~Exhausted(slots[s].attempts)

\* Back off after a failure unless the job is exhausted: the slot sleeps, the
\* row it gave back is pending all the while.
BackingOff(j) == [pc |-> "backoff", job |-> j, attempts |-> 0, lease |-> "none"]
AfterFail(s) ==
  IF Exhausted(slots[s].attempts) \/ delay_secs(slots[s].attempts) = 0
  THEN Goto(s, "idle")
  ELSE slots' = [slots EXCEPT ![s] = BackingOff(slots[s].job)]

Fail(s) ==
  /\ Failing(s)
  /\ rows' = [rows EXCEPT ![slots[s].job] = Failed(@)]
  /\ AfterFail(s)
  /\ UNCHANGED <<stop, dlq, faults>>

FailLost(s) ==
  /\ Failing(s)
  /\ Fault
  /\ AfterFail(s)
  /\ UNCHANGED <<rows, stop, dlq>>

Wake(s) ==
  /\ slots[s].pc \in {"sleeping", "backoff"}
  /\ Goto(s, "idle")
  /\ UNCHANGED <<rows, stop, dlq, faults>>

\* if stop.load() { break; }
SlotStops(s) ==
  /\ slots[s].pc = "idle"
  /\ stop[s[1]]
  /\ Goto(s, "stopped")
  /\ UNCHANGED <<rows, stop, dlq, faults>>

-----------------------------------------------------------------------------
(* Time and processes.                                                     *)

Holds(s, j) == Busy(s) /\ slots[s].job = j /\ slots[s].attempts = rows[j].attempts

\* The lease of a claim nobody works on runs out.
LeaseExpires(j) ==
  /\ rows[j].status = "running" /\ rows[j].lease = "live"
  /\ \A s \in Slots : ~Holds(s, j)
  /\ rows' = [rows EXCEPT ![j].lease = "expired"]
  /\ UNCHANGED <<slots, stop, dlq, faults>>

\* The lease runs out while the claimant is still at work (nothing renews it).
LeaseOverrun(s) ==
  LET j == slots[s].job IN
  /\ Busy(s)
  /\ Holds(s, j)
  /\ rows[j].status = "running" /\ rows[j].lease = "live"
  /\ Fault
  /\ rows' = [rows EXCEPT ![j].lease = "expired"]
  /\ slots' = [slots EXCEPT ![s].lease = "expired"]
  /\ UNCHANGED <<stop, dlq>>

\* run_until: the stop signal sets the flag; slots see it at the loop head.
Stop(w) ==
  /\ ~stop[w]
  /\ Fault
  /\ stop' = [stop EXCEPT ![w] = TRUE]
  /\ UNCHANGED <<rows, slots, dlq>>

\* The process dies; its claims stay in the table.
Crash(w) ==
  /\ \E s \in SlotsOf(w) : slots[s].pc # "down"
  /\ Fault
  /\ slots' = [s \in Slots |-> IF s[1] = w THEN At("down") ELSE slots[s]]
  /\ UNCHANGED <<rows, stop, dlq>>

\* A process that exited or died is started again.
Restart(w) ==
  /\ \A s \in SlotsOf(w) : slots[s].pc \in {"stopped", "down"}
  /\ slots' = [s \in Slots |-> IF s[1] = w THEN At("idle") ELSE slots[s]]
  /\ stop' = [stop EXCEPT ![w] = FALSE]
  /\ UNCHANGED <<rows, dlq, faults>>

-----------------------------------------------------------------------------
SlotStep(s) ==
  \/ Dequeue(s) \/ DequeueEmpty(s) \/ Complete(s) \/ PushDlq(s) \/ Fail(s)
  \/ Wake(s) \/ SlotStops(s)

SlotFault(s) == DequeueErr(s) \/ CompleteLost(s) \/ FailLost(s) \/ LeaseOverrun(s)

Next ==
  \/ \E j \in Jobs, t \in Stamps : Enqueue(j, t)
  \/ \E s \in Slots : SlotStep(s) \/ SlotFault(s)
  \/ \E j \in Jobs : LeaseExpires(j)
  \/ \E w \in Workers : Stop(w) \/ Crash(w) \/ Restart(w)

Spec == Init /\ [][Next]_vars

\* Slots are tokio tasks that keep running, handlers return, abandoned leases
\* run out with time, and a supervisor restarts a worker that is gone.
Fairness ==
  /\ \A s \in Slots : WF_vars(SlotStep(s))
  /\ \A j \in Jobs : WF_vars(LeaseExpires(j))
  /\ \A w \in Workers : WF_vars(Restart(w))

FairSpec == Spec /\ Fairness

-----------------------------------------------------------------------------
(* Properties.                                                             *)

\* Types of the table, of the slot tasks and of the histories.
TypeOK ==
  /\ rows \in [Jobs -> Row]
  /\ slots \in [Slots -> Slot]
  /\ stop \in [Workers -> BOOLEAN]
  /\ dlq \in [Jobs -> SUBSET Nat]
  /\ faults \in 0..MaxFaults

\* Two slots never work on the same claim of a job, whatever leases lapse,
\* processes die or writes get lost: dequeue hands out a fresh attempt number
\* each time and no operation lowers it.
ClaimUnique ==
  \A s1, s2 \in Slots :
    /\ Busy(s1) /\ Busy(s2) /\ s1 # s2
    /\ slots[s1].job = slots[s2].job
    => slots[s1].attempts # slots[s2].attempts

\* A row carries a lease exactly while it is running, so that a job taken back
\* by fail or complete is never mistaken for one under a live lease, and a
\* running job is never without an expiry that lets others reclaim it.
LeaseIffRunning ==
  \A j \in Jobs : (rows[j].status = "running") <=> (rows[j].lease # "none")

\* A dead job stays out of the queue: neither a late fail of a superseded
\* claimant nor a repeated enqueue of its id makes it claimable again.  Only a
\* late complete may still turn it into a success.
DeadNotRetried ==
  [][\A j \in Jobs : rows[j].status = "dead" => rows'[j].status \in {"dead", "succeeded"}]_vars

\* A job is taken from its claimant only after its lease ran out or the row was
\* given back: under a live lease dequeue passes it over.
LiveLeaseNotClaimed ==
  [][\A j \in Jobs :
       rows'[j].attempts # rows[j].attempts =>
         /\ rows'[j].attempts = rows[j].attempts + 1
         /\ rows[j].status \in {"pending", "running"}
         /\ rows[j].lease # "live"]_vars

\* Every DLQ entry stands for an exhausted attempt that was really made, and a
\* slot past its DLQ push has its entry.
DlqHonest ==
  /\ \A j \in Jobs : \A n \in dlq[j] : MaxAttempts <= n /\ n <= rows[j].attempts
  /\ \A s \in Slots : slots[s].pc = "failing" => slots[s].attempts \in dlq[slots[s].job]

\* Until the first fault the DLQ and the dead state agree (retry.rs:34-37): one
\* entry per dead job, made on attempt MaxAttempts, and no entry for a job that
\* is not dead or about to be; a running row has one worker and no other row
\* has any.
AgreeUntilFault ==
  faults = 0 =>
    \A j \in Jobs :
      LET holders == {s \in Slots : Busy(s) /\ slots[s].job = j} IN
      /\ rows[j].attempts <= MaxAttempts
      /\ rows[j].status = "dead" => dlq[j] = {MaxAttempts}
      /\ dlq[j] # {} => \/ rows[j].status = "dead"
                        \/ \E s \in holders : slots[s].pc = "failing"
      /\ Cardinality(holders) = IF rows[j].status = "running" THEN 1 ELSE 0

\* Every enqueued job ends up succeeded or dead for good: no job is stranded by
\* a dead worker, a lost write or a stop.
EventuallySettled ==
  <>[](\A j \in Jobs : rows[j].status \in {"absent", "succeeded", "dead"})

\* A stop signal is honoured: the slots of the process finish what they hold
\* and leave, unless the process dies first and is started afresh.
StopCompletes ==
  \A w \in Workers :
    stop[w] ~> (~stop[w] \/ \A s \in SlotsOf(w) : slots[s].pc = "stopped")

LedgerState(row) ==
  CASE row.status = "absent" -> "absent"
    [] row.status \in {"pending", "running"} -> "open"
    [] row.status = "succeeded" -> "done"
    [] row.status = "dead" -> "dead"

Ledger == INSTANCE JobLedger WITH
  state <- [j \in Jobs |-> LedgerState(rows[j])],
  deliveries <- [j \in Jobs |-> rows[j].attempts]

\* The queue implements the ledger: leases, slots and faults only ever show as
\* deliveries and late reports, never as a delivery of a settled job, a report
\* nobody was handed the job for, or a job given up before its attempts are spent.
ImplementsLedger == Ledger!Spec

-----------------------------------------------------------------------------
(* What comments and documents say of the queue and the code does not keep. *)

\* pool.rs:95-98: a failing job is not retried before its back-off is over.
NotRetriedInstantly ==
  [][\A j \in Jobs, s \in Slots :
       slots[s].pc = "backoff" /\ slots[s].job = j /\ slots'[s] = slots[s]
         => rows'[j].attempts = rows[j].attempts]_vars

\* db_queue.rs:24-25: a claimed job stays exclusively its claimant's for the
\* length of the lease.
LeaseExclusive ==
  \A s1, s2 \in Slots :
    /\ Busy(s1) /\ Busy(s2) /\ s1 # s2
    /\ slots[s1].job = slots[s2].job
    => ~(slots[s1].lease = "live" /\ slots[s2].lease = "live")

\* retry.rs:34-37: every dead job reaches the DLQ (or a slot may still push it).
DeadReachesDlq ==
  \A j \in Jobs :
    rows[j].status = "dead" =>
      dlq[j] # {} \/ \E s \in Slots : Busy(s) /\ slots[s].job = j

\* docs/adr/0006-image-pipeline.md:46: at most MaxAttempts attempts.
AttemptsBounded == \A j \in Jobs : rows[j].attempts <= MaxAttempts
=============================================================================
