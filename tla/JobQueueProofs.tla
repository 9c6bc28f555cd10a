--------------------------- MODULE JobQueueProofs ---------------------------
(***************************************************************************)
(* Safety of the job queue for any number of jobs, workers, slots, attempts *)
(* and faults.  The inductive invariant says what ties a slot's snapshot to *)
(* the row it came from: it is never ahead of the row, and no two slots     *)
(* share one.                                                               *)
(***************************************************************************)
EXTENDS JobQueue, FiniteSetTheorems, TLAPS

\* A leaf is tried with Zenon; one that needs records or arithmetic cites SMT.
USE Zenon

\* What the snapshot of a busy slot says of the row, and a slot past its DLQ push
\* of the attempt it reports.
SnapshotInv ==
  \A s \in Slots :
    Busy(s) => /\ slots[s].job \in Jobs
               /\ slots[s].attempts > 0
               /\ slots[s].attempts <= rows[slots[s].job].attempts
               /\ slots[s].pc = "failing" => Exhausted(slots[s].attempts)

\* A row that was never claimed cannot be settled, a dead row is exhausted.
RowInv ==
  \A j \in Jobs :
    /\ rows[j].status = "dead" => rows[j].attempts >= MaxAttempts
    /\ rows[j].status = "absent" => rows[j].attempts = 0

IInv ==
  /\ TypeOK
  /\ LeaseIffRunning
  /\ SnapshotInv
  /\ RowInv
  /\ ClaimUnique
  /\ DlqHonest

-----------------------------------------------------------------------------
(* The SQL statements, field by field.                                     *)

\* enqueue (ON CONFLICT DO NOTHING): a new row is pending and untried, an existing one
\* stays as it is.
LEMMA InsertFields ==
  ASSUME NEW row \in Row, NEW t \in Stamps
  PROVE  LET r == InsertOrIgnore(row, t) IN
         /\ r \in Row
         /\ row.status # "absent" => r = row
         /\ row.status = "absent" =>
              r.status = "pending" /\ r.attempts = 0 /\ r.lease = "none"
BY JobQueueAssumption DEF InsertOrIgnore, InsertOrReplace, Row

\* dequeue's UPDATE: the row runs under a live lease and counts one more attempt.
LEMMA ClaimedFields ==
  ASSUME NEW row \in Row
  PROVE  LET r == Claimed(row) IN
         /\ r \in Row
         /\ r.status = "running" /\ r.lease = "live"
         /\ r.attempts = row.attempts + 1
BY SMT DEF Claimed, Row

\* complete's UPDATE: succeeded, no lease, attempts kept.
LEMMA CompletedFields ==
  ASSUME NEW row \in Row
  PROVE  LET r == Completed(row) IN
         /\ r \in Row
         /\ r.status = "succeeded" /\ r.lease = "none"
         /\ r.attempts = row.attempts
BY DEF Completed, Row

\* fail's UPDATE: dead or pending by the attempts column, no lease, attempts kept.
LEMMA FailedFields ==
  ASSUME NEW row \in Row
  PROVE  LET r == Failed(row) IN
         /\ r \in Row
         /\ r.status = IF row.attempts >= MaxAttempts THEN "dead" ELSE "pending"
         /\ r.lease = "none"
         /\ r.attempts = row.attempts
BY DEF Failed, Row

\* A lease that ran out changes nothing else in the row.
LEMMA ExpiredFields ==
  ASSUME NEW row \in Row
  PROVE  LET r == [row EXCEPT !.lease = "expired"] IN
         /\ r \in Row
         /\ r.status = row.status /\ r.lease = "expired"
         /\ r.attempts = row.attempts
BY DEF Row

\* A slot between two jobs holds none.
LEMMA AtFields ==
  ASSUME NEW pc \in {"idle", "sleeping", "stopped", "down"}
  PROVE  /\ At(pc) \in Slot
         /\ At(pc).pc = pc
         /\ At(pc).job = NoJob
BY DEF At, Slot

-----------------------------------------------------------------------------
(* Most steps hand out no claim: slots keep their snapshot or drop it, and  *)
(* each row stays sound on its own.                                         *)

SoundRow(r, old) ==
  /\ r.attempts >= old.attempts
  /\ (r.status = "running") <=> (r.lease # "none")
  /\ r.status = "dead" => r.attempts >= MaxAttempts
  /\ r.status = "absent" => r.attempts = 0

KeepsOrDrops(new, old) ==
  \/ new.pc \notin {"running", "failing"}
  \/ new.pc = old.pc /\ new.job = old.job /\ new.attempts = old.attempts

\* A step of the pool that hands out no claim and pushes nothing to the DLQ keeps
\* the invariant, if every row it leaves is sound.
LEMMA QuietStep ==
  ASSUME IInv,
         TypeOK',
         dlq' = dlq,
         \A j \in Jobs : SoundRow(rows'[j], rows[j]),
         \A s \in Slots : KeepsOrDrops(slots'[s], slots[s])
  PROVE  IInv'
<1>1. LeaseIffRunning' /\ RowInv'
  BY DEF LeaseIffRunning, RowInv, SoundRow
<1>2. ASSUME NEW s \in Slots, Busy(s)'
      PROVE  /\ Busy(s)
             /\ slots'[s].pc = slots[s].pc
             /\ slots'[s].job = slots[s].job
             /\ slots'[s].attempts = slots[s].attempts
  BY <1>2 DEF Busy, KeepsOrDrops
<1>3. SnapshotInv'
  <2> SUFFICES ASSUME NEW s \in Slots, Busy(s)'
               PROVE  /\ slots'[s].job \in Jobs
                      /\ slots'[s].attempts > 0
                      /\ slots'[s].attempts <= rows'[slots'[s].job].attempts
                      /\ slots'[s].pc = "failing" => Exhausted(slots'[s].attempts)
    BY DEF SnapshotInv, Exhausted
  <2>1. /\ slots[s].job \in Jobs
        /\ slots[s].attempts > 0
        /\ slots[s].attempts <= rows[slots[s].job].attempts
        /\ slots[s].pc = "failing" => Exhausted(slots[s].attempts)
    BY <1>2 DEF IInv, SnapshotInv
  <2>2. rows'[slots[s].job].attempts >= rows[slots[s].job].attempts
    BY <2>1 DEF SoundRow
  <2>3. /\ rows[slots[s].job].attempts \in Nat
        /\ rows'[slots[s].job].attempts \in Nat
        /\ slots[s].attempts \in Nat
    BY <2>1 DEF IInv, TypeOK, Row, Slot
  <2> QED
    BY SMT, <1>2, <2>1, <2>2, <2>3
<1>4. ClaimUnique'
  BY SMT, <1>2 DEF IInv, ClaimUnique
<1>5. DlqHonest'
  <2>1. ASSUME NEW j \in Jobs, NEW n \in dlq'[j]
        PROVE  MaxAttempts <= n /\ n <= rows'[j].attempts
    <3>1. MaxAttempts <= n /\ n <= rows[j].attempts
      BY <2>1 DEF IInv, DlqHonest
    <3>2. rows'[j].attempts >= rows[j].attempts
      BY DEF SoundRow
    <3>3. n \in Nat /\ rows[j].attempts \in Nat /\ rows'[j].attempts \in Nat
      BY DEF IInv, TypeOK, Row
    <3> QED
      BY SMT, <3>1, <3>2, <3>3
  <2>2. ASSUME NEW s \in Slots, slots'[s].pc = "failing"
        PROVE  slots'[s].attempts \in dlq'[slots'[s].job]
    BY <1>2, <2>2 DEF Busy, IInv, DlqHonest
  <2> QED
    BY <2>1, <2>2 DEF DlqHonest
<1> QED
  BY <1>1, <1>3, <1>4, <1>5 DEF IInv

\* A row no statement touched is sound.
LEMMA SameRowSound ==
  ASSUME IInv, NEW j \in Jobs
  PROVE  SoundRow(rows[j], rows[j])
BY SMT DEF IInv, TypeOK, Row, LeaseIffRunning, RowInv, SoundRow

\* Whatever enqueue, dequeue, complete, fail or the clock writes is a sound row.
LEMMA WrittenRowSound ==
  ASSUME IInv, NEW j \in Jobs
  PROVE  /\ \A t \in Stamps : SoundRow(InsertOrIgnore(rows[j], t), rows[j])
         /\ SoundRow(Claimed(rows[j]), rows[j])
         /\ SoundRow(Completed(rows[j]), rows[j])
         /\ SoundRow(Failed(rows[j]), rows[j])
         /\ rows[j].status = "running" =>
              SoundRow([rows[j] EXCEPT !.lease = "expired"], rows[j])
<1>1. rows[j] \in Row /\ rows[j].attempts \in Nat
  BY DEF IInv, TypeOK, Row
<1>2. SoundRow(rows[j], rows[j])
  BY SameRowSound
<1>3. ASSUME NEW t \in Stamps
      PROVE  SoundRow(InsertOrIgnore(rows[j], t), rows[j])
  BY SMT, <1>1, <1>2, InsertFields, JobQueueAssumption DEF IInv, RowInv, SoundRow
<1>4. SoundRow(Claimed(rows[j]), rows[j])
  BY SMT, <1>1, ClaimedFields DEF SoundRow
<1>5. SoundRow(Completed(rows[j]), rows[j])
  BY SMT, <1>1, CompletedFields DEF SoundRow
<1>6. SoundRow(Failed(rows[j]), rows[j])
  BY SMT, <1>1, FailedFields, JobQueueAssumption DEF SoundRow
<1>7. rows[j].status = "running" =>
        SoundRow([rows[j] EXCEPT !.lease = "expired"], rows[j])
  BY SMT, <1>1, ExpiredFields DEF SoundRow
<1> QED
  BY <1>3, <1>4, <1>5, <1>6, <1>7

\* dequeue by an idle slot keeps the invariant: the attempt it is handed is new.
LEMMA DequeueStep ==
  ASSUME IInv, NEW s \in Slots, Dequeue(s)
  PROVE  IInv'
<1>1. PICK j \in Jobs :
        /\ rows' = [rows EXCEPT ![j] = Claimed(rows[j])]
        /\ slots' = [slots EXCEPT ![s] =
                       [pc |-> "running", job |-> j,
                        attempts |-> Claimed(rows[j]).attempts, lease |-> "live"]]
  BY DEF Dequeue, Oldest
<1>2. stop' = stop /\ dlq' = dlq /\ faults' = faults
  BY DEF Dequeue
<1>3. /\ rows \in [Jobs -> Row] /\ rows[j] \in Row /\ rows[j].attempts \in Nat
      /\ slots \in [Slots -> Slot]
  BY DEF IInv, TypeOK, Row
<1>4. /\ Claimed(rows[j]) \in Row
      /\ Claimed(rows[j]).attempts = rows[j].attempts + 1
      /\ SoundRow(Claimed(rows[j]), rows[j])
  BY <1>3, ClaimedFields, WrittenRowSound
<1>5. TypeOK'
  <2>1. rows' \in [Jobs -> Row]
    BY <1>1, <1>3, <1>4
  <2>2. slots' \in [Slots -> Slot]
    BY SMT, <1>1, <1>3, <1>4 DEF Slot
  <2> QED
    BY <1>2, <2>1, <2>2 DEF IInv, TypeOK
<1>6. \A k \in Jobs : SoundRow(rows'[k], rows[k])
  BY <1>1, <1>3, <1>4, SameRowSound
<1>7. /\ slots'[s].pc = "running" /\ slots'[s].job = j
      /\ slots'[s].attempts = rows[j].attempts + 1
      /\ rows'[j].attempts = rows[j].attempts + 1
      /\ \A r \in Slots \ {s} : slots'[r] = slots[r]
  BY <1>1, <1>3, <1>4
<1>8. \A r \in Slots \ {s} : Busy(r)' => /\ Busy(r)
                                         /\ slots[r].job \in Jobs
                                         /\ slots[r].attempts \in Nat
                                         /\ slots[r].attempts <= rows[slots[r].job].attempts
  BY <1>3, <1>7 DEF Busy, IInv, SnapshotInv, Slot
<1>9. LeaseIffRunning' /\ RowInv'
  BY <1>6 DEF LeaseIffRunning, RowInv, SoundRow
<1>10. \A k \in Jobs : /\ rows[k].attempts \in Nat /\ rows'[k].attempts \in Nat
                       /\ rows'[k].attempts >= rows[k].attempts
  BY <1>5, <1>6 DEF IInv, TypeOK, Row, SoundRow
<1>11. SnapshotInv'
  <2> SUFFICES ASSUME NEW r \in Slots, Busy(r)'
               PROVE  /\ slots'[r].job \in Jobs
                      /\ slots'[r].attempts > 0
                      /\ slots'[r].attempts <= rows'[slots'[r].job].attempts
                      /\ slots'[r].pc = "failing" => Exhausted(slots'[r].attempts)
    BY DEF SnapshotInv, Exhausted
  <2>1. CASE r = s
    BY SMT, <2>1, <1>3, <1>7
  <2>2. CASE r # s
    <3>1. slots'[r] = slots[r] /\ Busy(r)
      BY <2>2, <1>7, <1>8
    <3> QED
      BY SMT, <2>2, <3>1, <1>8, <1>10 DEF IInv, SnapshotInv
  <2> QED
    BY <2>1, <2>2
<1>12. ClaimUnique'
  <2> SUFFICES ASSUME NEW s1 \in Slots, NEW s2 \in Slots, s1 # s2,
                      Busy(s1)', Busy(s2)', slots'[s1].job = slots'[s2].job
               PROVE  slots'[s1].attempts # slots'[s2].attempts
    BY DEF ClaimUnique
  <2>1. CASE s1 = s
    BY SMT, <2>1, <1>3, <1>7, <1>8
  <2>2. CASE s2 = s
    BY SMT, <2>2, <1>3, <1>7, <1>8
  <2>3. CASE s1 # s /\ s2 # s
    BY <2>3, <1>7, <1>8 DEF IInv, ClaimUnique
  <2> QED
    BY <2>1, <2>2, <2>3
<1>13. DlqHonest'
  <2>1. ASSUME NEW k \in Jobs, NEW n \in dlq'[k]
        PROVE  MaxAttempts <= n /\ n <= rows'[k].attempts
    <3>1. n \in Nat /\ MaxAttempts <= n /\ n <= rows[k].attempts
      BY <2>1, <1>2 DEF IInv, DlqHonest, TypeOK
    <3> QED
      BY SMT, <3>1, <1>10
  <2>2. \A r \in Slots : slots'[r].pc = "failing" => slots'[r].attempts \in dlq'[slots'[r].job]
    BY <1>2, <1>7 DEF IInv, DlqHonest
  <2> QED
    BY <2>1, <2>2 DEF DlqHonest
<1> QED
  BY <1>5, <1>9, <1>11, <1>12, <1>13 DEF IInv

\* dlq.push by a slot on an exhausted attempt (pool.rs:86-93) keeps the invariant.
LEMMA PushDlqStep ==
  ASSUME IInv, NEW s \in Slots, PushDlq(s)
  PROVE  IInv'
<1> DEFINE j == slots[s].job
           n == slots[s].attempts
<1>1. /\ slots[s].pc = "running" /\ Exhausted(n)
      /\ dlq' = [dlq EXCEPT ![j] = @ \cup {n}]
      /\ slots' = [slots EXCEPT ![s].pc = "failing"]
      /\ rows' = rows /\ stop' = stop /\ faults' = faults
  BY DEF PushDlq
<1>2. Busy(s) /\ j \in Jobs /\ n \in Nat /\ n > 0 /\ n <= rows[j].attempts
  BY <1>1 DEF Busy, IInv, SnapshotInv, TypeOK, Slot
<1>3. /\ slots \in [Slots -> Slot] /\ slots[s] \in Slot
      /\ dlq \in [Jobs -> SUBSET Nat]
  BY DEF IInv, TypeOK
<1>4. [slots[s] EXCEPT !.pc = "failing"] \in Slot
  BY <1>3 DEF Slot
<1>5. TypeOK'
  BY <1>1, <1>2, <1>3, <1>4 DEF IInv, TypeOK
<1>6. /\ slots'[s].pc = "failing" /\ slots'[s].job = j /\ slots'[s].attempts = n
      /\ \A r \in Slots \ {s} : slots'[r] = slots[r]
  BY <1>1, <1>3 DEF Slot
<1>7. \A r \in Slots : /\ Busy(r)' <=> Busy(r)
                       /\ slots'[r].job = slots[r].job
                       /\ slots'[r].attempts = slots[r].attempts
  BY <1>2, <1>6 DEF Busy
<1>8. LeaseIffRunning' /\ RowInv'
  BY <1>1 DEF IInv, LeaseIffRunning, RowInv
<1>9. SnapshotInv'
  BY SMT, <1>1, <1>2, <1>6, <1>7 DEF IInv, SnapshotInv, Exhausted
<1>10. ClaimUnique'
  BY SMT, <1>7 DEF IInv, ClaimUnique
<1>11. DlqHonest'
  <2>1. ASSUME NEW k \in Jobs, NEW m \in dlq'[k]
        PROVE  MaxAttempts <= m /\ m <= rows'[k].attempts
    <3>1. CASE m \in dlq[k]
      BY <3>1, <1>1 DEF IInv, DlqHonest
    <3>2. CASE m \notin dlq[k]
      <4>1. k = j /\ m = n
        BY <2>1, <3>2, <1>1, <1>3
      <4> QED
        BY <4>1, <1>1, <1>2 DEF Exhausted
    <3> QED
      BY <3>1, <3>2
  <2>2. \A r \in Slots : slots'[r].pc = "failing" => slots'[r].attempts \in dlq'[slots'[r].job]
    <3> SUFFICES ASSUME NEW r \in Slots, slots'[r].pc = "failing"
                 PROVE  slots'[r].attempts \in dlq'[slots'[r].job]
      OBVIOUS
    <3>1. CASE r = s
      BY SMT, <3>1, <1>1, <1>2, <1>3, <1>6
    <3>2. CASE r # s
      <4>1. slots[r].attempts \in dlq[slots[r].job] /\ slots[r].job \in Jobs
        BY <3>2, <1>6 DEF IInv, DlqHonest, SnapshotInv, Busy
      <4> QED
        BY SMT, <4>1, <1>1, <1>3, <1>7
    <3> QED
      BY <3>1, <3>2
  <2> QED
    BY <2>1, <2>2 DEF DlqHonest
<1> QED
  BY <1>5, <1>8, <1>9, <1>10, <1>11 DEF IInv

\* One statement rewrites one row: the other rows stay sound.
LEMMA RowWritten ==
  ASSUME IInv, NEW j \in Jobs, NEW r \in Row, SoundRow(r, rows[j]),
         rows' = [rows EXCEPT ![j] = r]
  PROVE  /\ rows' \in [Jobs -> Row]
         /\ \A k \in Jobs : SoundRow(rows'[k], rows[k])
<1>1. rows \in [Jobs -> Row]
  BY DEF IInv, TypeOK
<1> QED
  BY <1>1, SameRowSound

\* Steps of the pool that do not reach the table leave the rows sound.
LEMMA RowsSame ==
  ASSUME IInv, rows' = rows
  PROVE  /\ rows' \in [Jobs -> Row]
         /\ \A k \in Jobs : SoundRow(rows'[k], rows[k])
BY SameRowSound DEF IInv, TypeOK

\* A slot that goes back to its loop head, to sleep or out drops its snapshot.
LEMMA SlotReset ==
  ASSUME IInv, NEW s \in Slots,
         NEW pc \in {"idle", "sleeping", "stopped", "down"},
         Goto(s, pc)
  PROVE  /\ slots' \in [Slots -> Slot]
         /\ \A r \in Slots : KeepsOrDrops(slots'[r], slots[r])
<1>1. slots \in [Slots -> Slot]
  BY DEF IInv, TypeOK
<1>2. At(pc) \in Slot /\ At(pc).pc = pc
  BY AtFields
<1> QED
  BY <1>1, <1>2 DEF Goto, KeepsOrDrops

\* After a failed attempt a slot drops its snapshot too, though it remembers the
\* job while it backs off.
LEMMA FailReset ==
  ASSUME IInv, NEW s \in Slots, slots[s].job \in Jobs, AfterFail(s)
  PROVE  /\ slots' \in [Slots -> Slot]
         /\ \A r \in Slots : KeepsOrDrops(slots'[r], slots[r])
<1>1. slots \in [Slots -> Slot]
  BY DEF IInv, TypeOK
<1>2. CASE Goto(s, "idle")
  BY <1>2, SlotReset
<1>3. CASE slots' = [slots EXCEPT ![s] = BackingOff(slots[s].job)]
  <2>1. /\ BackingOff(slots[s].job) \in Slot
        /\ BackingOff(slots[s].job).pc = "backoff"
    BY DEF BackingOff, Slot
  <2> QED
    BY <1>1, <1>3, <2>1 DEF KeepsOrDrops
<1> QED
  BY <1>2, <1>3 DEF AfterFail

\* Steps outside the pool leave the slots' snapshots alone.
LEMMA SlotsSame ==
  ASSUME IInv, slots' = slots
  PROVE  /\ slots' \in [Slots -> Slot]
         /\ \A r \in Slots : KeepsOrDrops(slots'[r], slots[r])
BY DEF IInv, TypeOK, KeepsOrDrops

\* A crash or a restart drops the snapshots of one process and no other.
LEMMA ProcessReset ==
  ASSUME IInv, NEW w \in Workers, NEW pc \in {"idle", "down"},
         slots' = [s \in Slots |-> IF s[1] = w THEN At(pc) ELSE slots[s]]
  PROVE  /\ slots' \in [Slots -> Slot]
         /\ \A r \in Slots : KeepsOrDrops(slots'[r], slots[r])
<1>1. slots \in [Slots -> Slot]
  BY DEF IInv, TypeOK
<1>2. At(pc) \in Slot /\ At(pc).pc = pc
  BY AtFields
<1> QED
  BY <1>1, <1>2 DEF KeepsOrDrops

\* The fault counter stays within its bound.
LEMMA FaultType ==
  ASSUME IInv, Fault
  PROVE  faults' \in 0..MaxFaults
BY SMT, JobQueueAssumption DEF IInv, TypeOK, Fault

\* A slot at work has a job, and the job has a row.
LEMMA HeldRow ==
  ASSUME IInv, NEW s \in Slots, Busy(s)
  PROVE  /\ slots[s].job \in Jobs
         /\ rows[slots[s].job] \in Row
BY DEF IInv, SnapshotInv, TypeOK

\* An empty table with idle slots satisfies the invariant.
LEMMA InitIInv == Init => IInv
<1> SUFFICES ASSUME Init PROVE IInv
  OBVIOUS
<1>1. TypeOK
  <2>1. rows \in [Jobs -> Row]
    BY DEF Init, Row
  <2>2. slots \in [Slots -> Slot]
    BY AtFields DEF Init
  <2> QED
    BY SMT, <2>1, <2>2, JobQueueAssumption DEF Init, TypeOK
<1>2. \A s \in Slots : ~Busy(s) /\ slots[s].pc # "failing"
  BY AtFields DEF Init, Busy
<1>3. LeaseIffRunning /\ RowInv
  BY DEF Init, LeaseIffRunning, RowInv
<1>4. SnapshotInv /\ ClaimUnique
  BY <1>2 DEF SnapshotInv, ClaimUnique
<1>5. DlqHonest
  BY <1>2 DEF Init, DlqHonest
<1> QED
  BY <1>1, <1>3, <1>4, <1>5 DEF IInv

\* Every step of producers, slots, clock and processes keeps the invariant.
LEMMA NextIInv == IInv /\ [Next]_vars => IInv'
<1> SUFFICES ASSUME IInv, [Next]_vars PROVE IInv'
  OBVIOUS
<1>0. stop \in [Workers -> BOOLEAN] /\ dlq \in [Jobs -> SUBSET Nat] /\ faults \in 0..MaxFaults
  BY DEF IInv, TypeOK
<1>1. ASSUME NEW j \in Jobs, NEW t \in Stamps, Enqueue(j, t) PROVE IInv'
  <2>1. rows' = [rows EXCEPT ![j] = InsertOrIgnore(rows[j], t)] /\ slots' = slots
        /\ stop' = stop /\ dlq' = dlq /\ faults' = faults
    BY <1>1 DEF Enqueue
  <2>2. rows[j] \in Row
    BY DEF IInv, TypeOK
  <2>3. InsertOrIgnore(rows[j], t) \in Row /\ SoundRow(InsertOrIgnore(rows[j], t), rows[j])
    BY <2>2, InsertFields, WrittenRowSound
  <2>4. /\ rows' \in [Jobs -> Row]
        /\ \A k \in Jobs : SoundRow(rows'[k], rows[k])
    BY <2>1, <2>3, RowWritten
  <2>5. TypeOK'
    BY <1>0, <2>1, <2>4, SlotsSame DEF TypeOK
  <2> QED
    BY <2>1, <2>4, <2>5, SlotsSame, QuietStep
<1>2. ASSUME NEW s \in Slots, Dequeue(s) PROVE IInv'
  BY <1>2, DequeueStep
<1>3. ASSUME NEW s \in Slots, DequeueEmpty(s) \/ Wake(s) \/ SlotStops(s) PROVE IInv'
  <2>1. /\ rows' = rows /\ stop' = stop /\ dlq' = dlq /\ faults' = faults
        /\ \E pc \in {"idle", "sleeping", "stopped", "down"} : Goto(s, pc)
    BY <1>3 DEF DequeueEmpty, Wake, SlotStops
  <2>2. /\ slots' \in [Slots -> Slot]
        /\ \A r \in Slots : KeepsOrDrops(slots'[r], slots[r])
    BY <2>1, SlotReset
  <2>3. TypeOK'
    BY <1>0, <2>1, <2>2, RowsSame DEF TypeOK
  <2> QED
    BY <2>1, <2>2, <2>3, RowsSame, QuietStep
<1>4. ASSUME NEW s \in Slots, DequeueErr(s) PROVE IInv'
  <2>1. stop' = stop /\ dlq' = dlq /\ Fault /\ Goto(s, "sleeping")
    BY <1>4 DEF DequeueErr
  <2>2. /\ slots' \in [Slots -> Slot]
        /\ \A r \in Slots : KeepsOrDrops(slots'[r], slots[r])
    BY <2>1, SlotReset
  <2>3. /\ rows' \in [Jobs -> Row]
        /\ \A k \in Jobs : SoundRow(rows'[k], rows[k])
    <3>1. CASE rows' = rows
      BY <3>1, RowsSame
    <3>2. CASE \E j \in Jobs : rows' = [rows EXCEPT ![j] = Claimed(rows[j])]
      <4>1. PICK j \in Jobs : rows' = [rows EXCEPT ![j] = Claimed(rows[j])]
        BY <3>2
      <4>2. rows[j] \in Row
        BY DEF IInv, TypeOK
      <4>3. Claimed(rows[j]) \in Row /\ SoundRow(Claimed(rows[j]), rows[j])
        BY <4>2, ClaimedFields, WrittenRowSound
      <4> QED
        BY <4>1, <4>3, RowWritten
    <3> QED
      BY <1>4, <3>1, <3>2 DEF DequeueErr, Oldest
  <2>4. TypeOK'
    BY <1>0, <2>1, <2>2, <2>3, FaultType DEF TypeOK
  <2> QED
    BY <2>1, <2>2, <2>3, <2>4, QuietStep
<1>5. ASSUME NEW s \in Slots, Complete(s) PROVE IInv'
  <2> DEFINE j == slots[s].job
  <2>1. /\ rows' = [rows EXCEPT ![j] = Completed(rows[j])] /\ Goto(s, "idle")
        /\ stop' = stop /\ dlq' = dlq /\ faults' = faults
    BY <1>5 DEF Complete
  <2>2. j \in Jobs /\ rows[j] \in Row
    BY <1>5, HeldRow DEF Complete, Busy
  <2>3. Completed(rows[j]) \in Row /\ SoundRow(Completed(rows[j]), rows[j])
    BY <2>2, CompletedFields, WrittenRowSound
  <2>4. /\ rows' \in [Jobs -> Row]
        /\ \A k \in Jobs : SoundRow(rows'[k], rows[k])
    BY <2>1, <2>2, <2>3, RowWritten
  <2>5. /\ slots' \in [Slots -> Slot]
        /\ \A r \in Slots : KeepsOrDrops(slots'[r], slots[r])
    BY <2>1, SlotReset
  <2>6. TypeOK'
    BY <1>0, <2>1, <2>4, <2>5 DEF TypeOK
  <2> QED
    BY <2>1, <2>4, <2>5, <2>6, QuietStep
<1>6. ASSUME NEW s \in Slots, CompleteLost(s) \/ FailLost(s) PROVE IInv'
  <2>1. /\ rows' = rows /\ stop' = stop /\ dlq' = dlq /\ Fault
        /\ Goto(s, "idle") \/ (Busy(s) /\ AfterFail(s))
    BY <1>6 DEF CompleteLost, FailLost, Failing, Busy
  <2>2. /\ slots' \in [Slots -> Slot]
        /\ \A r \in Slots : KeepsOrDrops(slots'[r], slots[r])
    BY <2>1, SlotReset, FailReset, HeldRow
  <2>3. TypeOK'
    BY <1>0, <2>1, <2>2, RowsSame, FaultType DEF TypeOK
  <2> QED
    BY <2>1, <2>2, <2>3, RowsSame, QuietStep
<1>7. ASSUME NEW s \in Slots, PushDlq(s) PROVE IInv'
  BY <1>7, PushDlqStep
<1>8. ASSUME NEW s \in Slots, Fail(s) PROVE IInv'
  <2> DEFINE j == slots[s].job
  <2>1. /\ rows' = [rows EXCEPT ![j] = Failed(rows[j])]
        /\ AfterFail(s)
        /\ stop' = stop /\ dlq' = dlq /\ faults' = faults
    BY <1>8 DEF Fail
  <2>2. j \in Jobs /\ rows[j] \in Row
    BY <1>8, HeldRow DEF Fail, Failing, Busy
  <2>3. Failed(rows[j]) \in Row /\ SoundRow(Failed(rows[j]), rows[j])
    BY <2>2, FailedFields, WrittenRowSound
  <2>4. /\ rows' \in [Jobs -> Row]
        /\ \A k \in Jobs : SoundRow(rows'[k], rows[k])
    BY <2>1, <2>2, <2>3, RowWritten
  <2>5. /\ slots' \in [Slots -> Slot]
        /\ \A r \in Slots : KeepsOrDrops(slots'[r], slots[r])
    BY <2>1, <2>2, FailReset
  <2>6. TypeOK'
    BY <1>0, <2>1, <2>4, <2>5 DEF TypeOK
  <2> QED
    BY <2>1, <2>4, <2>5, <2>6, QuietStep
<1>9. ASSUME NEW j \in Jobs, LeaseExpires(j) PROVE IInv'
  <2>1. /\ rows' = [rows EXCEPT ![j] = [rows[j] EXCEPT !.lease = "expired"]]
        /\ slots' = slots /\ stop' = stop /\ dlq' = dlq /\ faults' = faults
    BY <1>9 DEF LeaseExpires
  <2>2. rows[j] \in Row /\ rows[j].status = "running"
    BY <1>9 DEF IInv, TypeOK, LeaseExpires
  <2>3. /\ [rows[j] EXCEPT !.lease = "expired"] \in Row
        /\ SoundRow([rows[j] EXCEPT !.lease = "expired"], rows[j])
    BY <2>2, ExpiredFields, WrittenRowSound
  <2>4. /\ rows' \in [Jobs -> Row]
        /\ \A k \in Jobs : SoundRow(rows'[k], rows[k])
    BY <2>1, <2>3, RowWritten
  <2>5. TypeOK'
    BY <1>0, <2>1, <2>4, SlotsSame DEF TypeOK
  <2> QED
    BY <2>1, <2>4, <2>5, SlotsSame, QuietStep
<1>10. ASSUME NEW s \in Slots, LeaseOverrun(s) PROVE IInv'
  <2> DEFINE j == slots[s].job
  <2>1. /\ rows' = [rows EXCEPT ![j] = [rows[j] EXCEPT !.lease = "expired"]]
        /\ slots' = [slots EXCEPT ![s] = [slots[s] EXCEPT !.lease = "expired"]]
        /\ rows[j].status = "running"
        /\ Busy(s) /\ Fault /\ stop' = stop /\ dlq' = dlq
    BY <1>10 DEF LeaseOverrun
  <2>2. j \in Jobs /\ rows[j] \in Row
    BY <2>1, HeldRow
  <2>3. /\ [rows[j] EXCEPT !.lease = "expired"] \in Row
        /\ SoundRow([rows[j] EXCEPT !.lease = "expired"], rows[j])
    BY <2>1, <2>2, ExpiredFields, WrittenRowSound
  <2>4. /\ rows' \in [Jobs -> Row]
        /\ \A k \in Jobs : SoundRow(rows'[k], rows[k])
    BY <2>1, <2>2, <2>3, RowWritten
  <2>5. /\ slots' \in [Slots -> Slot]
        /\ \A r \in Slots : KeepsOrDrops(slots'[r], slots[r])
    <3>1. slots \in [Slots -> Slot] /\ slots[s] \in Slot
      BY DEF IInv, TypeOK
    <3>2. LET new == [slots[s] EXCEPT !.lease = "expired"]
          IN  /\ new \in Slot /\ new.pc = slots[s].pc
              /\ new.job = slots[s].job /\ new.attempts = slots[s].attempts
      BY <3>1 DEF Slot
    <3> QED
      BY <2>1, <3>1, <3>2 DEF KeepsOrDrops
  <2>6. TypeOK'
    BY <1>0, <2>1, <2>4, <2>5, FaultType DEF TypeOK
  <2> QED
    BY <2>1, <2>4, <2>5, <2>6, QuietStep
<1>11. ASSUME NEW w \in Workers, Stop(w) PROVE IInv'
  <2>1. rows' = rows /\ slots' = slots /\ dlq' = dlq /\ Fault
        /\ stop' \in [Workers -> BOOLEAN]
    BY <1>0, <1>11 DEF Stop
  <2>2. TypeOK'
    BY <1>0, <2>1, RowsSame, SlotsSame, FaultType DEF TypeOK
  <2> QED
    BY <2>1, <2>2, RowsSame, SlotsSame, QuietStep
<1>12. ASSUME NEW w \in Workers, Crash(w) PROVE IInv'
  <2>1. rows' = rows /\ dlq' = dlq /\ Fault /\ stop' = stop
    BY <1>12 DEF Crash
  <2>2. /\ slots' \in [Slots -> Slot]
        /\ \A r \in Slots : KeepsOrDrops(slots'[r], slots[r])
    BY <1>12, ProcessReset DEF Crash
  <2>3. TypeOK'
    BY <1>0, <2>1, <2>2, RowsSame, FaultType DEF TypeOK
  <2> QED
    BY <2>1, <2>2, <2>3, RowsSame, QuietStep
<1>13. ASSUME NEW w \in Workers, Restart(w) PROVE IInv'
  <2>1. rows' = rows /\ dlq' = dlq /\ faults' = faults /\ stop' \in [Workers -> BOOLEAN]
    BY <1>0, <1>13 DEF Restart
  <2>2. /\ slots' \in [Slots -> Slot]
        /\ \A r \in Slots : KeepsOrDrops(slots'[r], slots[r])
    BY <1>13, ProcessReset DEF Restart
  <2>3. TypeOK'
    BY <1>0, <2>1, <2>2, RowsSame DEF TypeOK
  <2> QED
    BY <2>1, <2>2, <2>3, RowsSame, QuietStep
<1>14. CASE UNCHANGED vars
  <2>1. /\ rows' = rows /\ slots' = slots /\ dlq' = dlq
        /\ stop' = stop /\ faults' = faults
    BY <1>14 DEF vars
  <2>2. TypeOK'
    BY <1>0, <2>1, RowsSame, SlotsSame DEF TypeOK
  <2> QED
    BY <2>1, <2>2, RowsSame, SlotsSame, QuietStep
<1> QED
  BY <1>1, <1>2, <1>3, <1>4, <1>5, <1>6, <1>7, <1>8, <1>9, <1>10, <1>11, <1>12, <1>13, <1>14
  DEF Next, SlotStep, SlotFault
-----------------------------------------------------------------------------
(* The theorems.                                                           *)

\* Every reachable state satisfies the inductive invariant.
THEOREM Invariance == Spec => []IInv
<1>1. Init => IInv
  BY InitIInv
<1>2. IInv /\ [Next]_vars => IInv'
  BY NextIInv
<1> QED
  BY <1>1, <1>2, PTL DEF Spec

\* The table, the slots and the histories keep their types.
THEOREM TypeCorrect == Spec => []TypeOK
<1>1. IInv => TypeOK
  BY DEF IInv
<1> QED
  BY <1>1, Invariance, PTL

\* No two slots of any worker process ever work on the same claim of a job,
\* whatever leases lapse, processes die or writes get lost.
THEOREM ClaimsAreUnique == Spec => []ClaimUnique
<1>1. IInv => ClaimUnique
  BY DEF IInv
<1> QED
  BY <1>1, Invariance, PTL

\* A row has a lease exactly while it is running, after every dequeue, complete,
\* fail and enqueue.
THEOREM LeasesMatchStatus == Spec => []LeaseIffRunning
<1>1. IInv => LeaseIffRunning
  BY DEF IInv
<1> QED
  BY <1>1, Invariance, PTL

\* The pool pushes to the DLQ only attempts that were made and were exhausted.
THEOREM DlqIsHonest == Spec => []DlqHonest
<1>1. IInv => DlqHonest
  BY DEF IInv
<1> QED
  BY <1>1, Invariance, PTL

-----------------------------------------------------------------------------
(* What a step may do to a row.                                            *)

RowStep(old, new) ==
  \/ new = old
  \/ old.status = "absent" /\ new.status = "pending" /\ new.attempts = old.attempts
  \/ Claimable(old) /\ new = Claimed(old)
  \/ /\ old.attempts > 0
     /\ new = Completed(old) \/ new = Failed(old)
  \/ old.status = "running" /\ new = [old EXCEPT !.lease = "expired"]

\* At most one row changes in a step, and only in one of the ways the statements
\* change it: inserted, claimed while claimable, settled or given back by a slot
\* that was handed it, or its lease run out.
LEMMA RowSteps ==
  ASSUME IInv, [Next]_vars
  PROVE  \/ rows' = rows
         \/ \E j \in Jobs : \E r \in Row :
              RowStep(rows[j], r) /\ rows' = [rows EXCEPT ![j] = r]
<1> DEFINE Goal == \/ rows' = rows
                   \/ \E j \in Jobs : \E r \in Row :
                        RowStep(rows[j], r) /\ rows' = [rows EXCEPT ![j] = r]
<1>0. \A j \in Jobs : rows[j] \in Row /\ rows[j].attempts \in Nat
  BY DEF IInv, TypeOK, Row
<1>1. ASSUME NEW j \in Jobs, NEW t \in Stamps, Enqueue(j, t) PROVE Goal
  <2>1. rows' = [rows EXCEPT ![j] = InsertOrIgnore(rows[j], t)]
    BY <1>1 DEF Enqueue
  <2>2. InsertOrIgnore(rows[j], t) \in Row /\ RowStep(rows[j], InsertOrIgnore(rows[j], t))
    BY SMT, <1>0, InsertFields DEF RowStep, IInv, RowInv
  <2> QED
    BY <2>1, <2>2
<1>2. ASSUME NEW s \in Slots, Dequeue(s) \/ DequeueErr(s) PROVE Goal
  <2>1. CASE rows' = rows
    BY <2>1
  <2>2. CASE \E j \in Jobs : Claimable(rows[j]) /\ rows' = [rows EXCEPT ![j] = Claimed(rows[j])]
    BY <2>2, <1>0, ClaimedFields DEF RowStep
  <2> QED
    BY <1>2, <2>1, <2>2 DEF Dequeue, DequeueErr, Oldest
<1>3. ASSUME NEW s \in Slots, Complete(s) PROVE Goal
  <2>1. /\ slots[s].job \in Jobs /\ rows[slots[s].job].attempts > 0
        /\ rows' = [rows EXCEPT ![slots[s].job] = Completed(rows[slots[s].job])]
    <3>1. Busy(s)
      BY <1>3 DEF Complete, Busy
    <3>2. slots[s].attempts \in Nat
      BY DEF IInv, TypeOK, Slot
    <3> QED
      BY SMT, <1>0, <1>3, <3>1, <3>2 DEF Complete, IInv, SnapshotInv
  <2> QED
    BY <2>1, <1>0, CompletedFields DEF RowStep
<1>4. ASSUME NEW s \in Slots, Fail(s) PROVE Goal
  <2>1. /\ slots[s].job \in Jobs /\ rows[slots[s].job].attempts > 0
        /\ rows' = [rows EXCEPT ![slots[s].job] = Failed(rows[slots[s].job])]
    <3>1. Busy(s)
      BY <1>4 DEF Fail, Failing, Busy
    <3>2. slots[s].attempts \in Nat
      BY DEF IInv, TypeOK, Slot
    <3> QED
      BY SMT, <1>0, <1>4, <3>1, <3>2 DEF Fail, IInv, SnapshotInv
  <2> QED
    BY <2>1, <1>0, FailedFields DEF RowStep
<1>5. ASSUME NEW j \in Jobs, LeaseExpires(j) PROVE Goal
  BY <1>0, <1>5, ExpiredFields DEF LeaseExpires, RowStep
<1>6. ASSUME NEW s \in Slots, LeaseOverrun(s) PROVE Goal
  <2>1. slots[s].job \in Jobs
    BY <1>6, HeldRow DEF LeaseOverrun
  <2> QED
    BY <1>0, <1>6, <2>1, ExpiredFields DEF LeaseOverrun, RowStep
<1>7. ASSUME NEW s \in Slots,
             \/ DequeueEmpty(s) \/ PushDlq(s) \/ Wake(s) \/ SlotStops(s)
             \/ CompleteLost(s) \/ FailLost(s)
      PROVE  Goal
  BY <1>7 DEF DequeueEmpty, PushDlq, Wake, SlotStops, CompleteLost, FailLost
<1>8. ASSUME NEW w \in Workers, Stop(w) \/ Crash(w) \/ Restart(w) PROVE Goal
  BY <1>8 DEF Stop, Crash, Restart
<1>9. CASE UNCHANGED vars
  BY <1>9 DEF vars
<1> QED
  BY <1>1, <1>2, <1>3, <1>4, <1>5, <1>6, <1>7, <1>8, <1>9 DEF Next, SlotStep, SlotFault

\* A dead job is never made claimable again by a late fail or a repeated enqueue.
THEOREM DeadIsNotRetried == Spec => DeadNotRetried
<1>1. IInv /\ [Next]_vars =>
        [\A j \in Jobs : rows[j].status = "dead" => rows'[j].status \in {"dead", "succeeded"}]_vars
  <2> SUFFICES ASSUME IInv, [Next]_vars, NEW j \in Jobs, rows[j].status = "dead"
               PROVE  rows'[j].status \in {"dead", "succeeded"}
    OBVIOUS
  <2>1. rows \in [Jobs -> Row] /\ rows[j] \in Row /\ rows[j].attempts \in Nat
    BY DEF IInv, TypeOK, Row
  <2>2. ASSUME NEW r \in Row, RowStep(rows[j], r)
        PROVE  r.status \in {"dead", "succeeded"}
    <3>1. rows[j].attempts >= MaxAttempts
      BY DEF IInv, RowInv
    <3>2. ~Claimable(rows[j])
      BY DEF Claimable
    <3> QED
      BY SMT, <2>1, <2>2, <3>1, <3>2, CompletedFields, FailedFields DEF RowStep
  <2>3. CASE rows' = rows
    BY <2>3
  <2>4. CASE \E k \in Jobs : \E r \in Row : RowStep(rows[k], r) /\ rows' = [rows EXCEPT ![k] = r]
    BY <2>1, <2>2, <2>4
  <2> QED
    BY <2>3, <2>4, RowSteps
<1> QED
  BY <1>1, Invariance, PTL DEF Spec, DeadNotRetried

\* Dequeue passes over a job under a live lease: an attempt is counted only for a
\* pending row or one whose lease ran out, one at a time.
THEOREM LiveLeaseIsNotClaimed == Spec => LiveLeaseNotClaimed
<1> DEFINE Counted(j) ==
      rows'[j].attempts # rows[j].attempts =>
        /\ rows'[j].attempts = rows[j].attempts + 1
        /\ rows[j].status \in {"pending", "running"}
        /\ rows[j].lease # "live"
<1>1. IInv /\ [Next]_vars => [\A j \in Jobs : Counted(j)]_vars
  <2> SUFFICES ASSUME IInv, [Next]_vars, NEW j \in Jobs
               PROVE  Counted(j)
    OBVIOUS
  <2>1. rows \in [Jobs -> Row] /\ rows[j] \in Row
    BY DEF IInv, TypeOK
  <2>2. ASSUME NEW r \in Row, RowStep(rows[j], r), r.attempts # rows[j].attempts
        PROVE  /\ r.attempts = rows[j].attempts + 1
               /\ Claimable(rows[j])
    <3>1. /\ Completed(rows[j]).attempts = rows[j].attempts
          /\ Failed(rows[j]).attempts = rows[j].attempts
          /\ [rows[j] EXCEPT !.lease = "expired"].attempts = rows[j].attempts
      BY <2>1, CompletedFields, FailedFields, ExpiredFields
    <3>2. Claimable(rows[j]) /\ r = Claimed(rows[j])
      BY <2>2, <3>1 DEF RowStep
    <3> QED
      BY <2>1, <3>2, ClaimedFields
  <2>3. Claimable(rows[j]) => /\ rows[j].status \in {"pending", "running"}
                              /\ rows[j].lease # "live"
    BY DEF Claimable, IInv, LeaseIffRunning
  <2>4. CASE rows' = rows
    BY <2>4
  <2>5. CASE \E k \in Jobs : \E r \in Row : RowStep(rows[k], r) /\ rows' = [rows EXCEPT ![k] = r]
    BY <2>1, <2>2, <2>3, <2>5
  <2> QED
    BY <2>4, <2>5, RowSteps
<1> QED
  BY <1>1, Invariance, PTL DEF Spec, LiveLeaseNotClaimed

\* One row changed by a RowStep is one ledger step or none.
LEMMA LedgerStep ==
  ASSUME IInv, NEW j \in Jobs, NEW r \in Row, RowStep(rows[j], r),
         rows' = [rows EXCEPT ![j] = r]
  PROVE  [Ledger!Next]_(Ledger!ledgerVars)
<1> DEFINE state == [k \in Jobs |-> LedgerState(rows[k])]
           deliveries == [k \in Jobs |-> rows[k].attempts]
<1>1. /\ rows \in [Jobs -> Row] /\ rows[j] \in Row
      /\ rows[j].attempts \in Nat /\ r.attempts \in Nat
  BY DEF IInv, TypeOK, Row
<1>2. /\ state' = [state EXCEPT ![j] = LedgerState(r)]
      /\ deliveries' = [deliveries EXCEPT ![j] = r.attempts]
  BY <1>1
<1>3. state[j] = LedgerState(rows[j]) /\ deliveries[j] = rows[j].attempts
  OBVIOUS
<1>4. CASE LedgerState(r) = LedgerState(rows[j]) /\ r.attempts = rows[j].attempts
  <2>1. state' = state /\ deliveries' = deliveries
    BY SMT, <1>2, <1>3, <1>4
  <2> QED
    BY <2>1 DEF Ledger!ledgerVars
<1>5. CASE /\ rows[j].status = "absent" /\ r.status = "pending"
           /\ r.attempts = rows[j].attempts
  <2>1. /\ state[j] = "absent" /\ state' = [state EXCEPT ![j] = "open"]
        /\ deliveries' = deliveries
    <3>1. LedgerState(rows[j]) = "absent" /\ LedgerState(r) = "open"
      BY <1>5 DEF LedgerState
    <3> QED
      BY SMT, <1>2, <1>3, <1>5, <3>1
  <2> QED
    BY <2>1 DEF Ledger!Next, Ledger!Submit
<1>6. CASE Claimable(rows[j]) /\ r = Claimed(rows[j])
  <2>1. /\ state[j] = "open" /\ state' = state
        /\ deliveries' = [deliveries EXCEPT ![j] = deliveries[j] + 1]
    BY ZenonT(40), <1>1, <1>2, <1>3, <1>6, ClaimedFields DEF LedgerState, Claimable
  <2> QED
    BY <2>1 DEF Ledger!Next, Ledger!Deliver
<1>7. CASE rows[j].attempts > 0 /\ r = Completed(rows[j])
  <2>1. /\ deliveries[j] > 0 /\ deliveries' = deliveries
        /\ state' = [state EXCEPT ![j] = "done"]
    <3>1. LedgerState(r) = "done" /\ r.attempts = rows[j].attempts
      BY <1>1, <1>7, CompletedFields DEF LedgerState
    <3> QED
      BY SMT, <1>2, <1>3, <1>7, <3>1
  <2> QED
    BY <2>1 DEF Ledger!Next, Ledger!ReportDone
<1>8. CASE rows[j].attempts > 0 /\ r = Failed(rows[j])
  <2>1. /\ deliveries[j] > 0 /\ deliveries' = deliveries
        /\ state' = [state EXCEPT ![j] = IF deliveries[j] >= MaxAttempts THEN "dead" ELSE "open"]
    <3>1. /\ LedgerState(r) = IF rows[j].attempts >= MaxAttempts THEN "dead" ELSE "open"
          /\ r.attempts = rows[j].attempts
      BY <1>1, <1>8, FailedFields DEF LedgerState
    <3> QED
      BY SMT, <1>2, <1>3, <1>8, <3>1
  <2> QED
    BY <2>1 DEF Ledger!Next, Ledger!ReportFailed
<1>9. CASE \/ r = rows[j]
           \/ rows[j].status = "running" /\ r = [rows[j] EXCEPT !.lease = "expired"]
  <2>1. LedgerState(r) = LedgerState(rows[j]) /\ r.attempts = rows[j].attempts
    BY <1>1, <1>9, ExpiredFields DEF LedgerState
  <2> QED
    BY <1>4, <2>1
<1> QED
  <2>1. \/ /\ rows[j].status = "absent" /\ r.status = "pending"
           /\ r.attempts = rows[j].attempts
        \/ Claimable(rows[j]) /\ r = Claimed(rows[j])
        \/ rows[j].attempts > 0 /\ r = Completed(rows[j])
        \/ rows[j].attempts > 0 /\ r = Failed(rows[j])
        \/ r = rows[j]
        \/ rows[j].status = "running" /\ r = [rows[j] EXCEPT !.lease = "expired"]
    BY Zenon DEF RowStep
  <2> QED
    BY <1>5, <1>6, <1>7, <1>8, <1>9, <2>1, Zenon

\* The queue with its leases, slots, crashes and lost writes implements the
\* at-least-once ledger.
THEOREM QueueImplementsLedger == Spec => ImplementsLedger
<1>1. Init => Ledger!Init
  BY SMT DEF Init, Ledger!Init, LedgerState
<1>2. IInv /\ [Next]_vars => [Ledger!Next]_(Ledger!ledgerVars)
  <2> SUFFICES ASSUME IInv, [Next]_vars PROVE [Ledger!Next]_(Ledger!ledgerVars)
    OBVIOUS
  <2>1. CASE rows' = rows
    BY <2>1 DEF Ledger!ledgerVars
  <2> QED
    BY <2>1, RowSteps, LedgerStep
<1> QED
  BY <1>1, <1>2, Invariance, PTL DEF Spec, ImplementsLedger, Ledger!Spec

-----------------------------------------------------------------------------
(* Before the first fault.                                                 *)

\* No attempt beyond the last, a running row has a claimant under a live lease,
\* and the DLQ has an entry for a row that is dead or being failed, for no other.
CalmRow(j) ==
  /\ rows[j].attempts <= MaxAttempts
  /\ rows[j].status = "pending" => rows[j].attempts < MaxAttempts
  /\ rows[j].status = "running" =>
       rows[j].lease = "live" /\ \E s \in Slots : Busy(s) /\ slots[s].job = j
  /\ rows[j].status = "dead" => dlq[j] # {}
  /\ dlq[j] # {} => \/ rows[j].status = "dead"
                    \/ \E s \in Slots : slots[s].pc = "failing" /\ slots[s].job = j

\* The snapshot of a busy slot is the row it was taken from, which is running.
CalmSlot(s) ==
  Busy(s) => /\ rows[slots[s].job].status = "running"
             /\ slots[s].attempts = rows[slots[s].job].attempts

Calm == faults = 0 => (\A j \in Jobs : CalmRow(j)) /\ (\A s \in Slots : CalmSlot(s))

\* Before the first fault a claim has one claimant: dequeue hands out an attempt once.
LEMMA CalmAlone ==
  ASSUME IInv, Calm, faults = 0, NEW s \in Slots, Busy(s)
  PROVE  /\ slots[s].job \in Jobs
         /\ rows[slots[s].job].status = "running"
         /\ slots[s].attempts = rows[slots[s].job].attempts
         /\ \A r \in Slots \ {s} : Busy(r) => slots[r].job # slots[s].job
<1>1. \A r \in Slots : Busy(r) => slots[r].attempts = rows[slots[r].job].attempts
  BY DEF Calm, CalmSlot
<1>2. slots[s].job \in Jobs /\ rows[slots[s].job].status = "running"
  BY DEF IInv, SnapshotInv, Calm, CalmSlot
<1>3. \A r \in Slots \ {s} : Busy(r) => slots[r].job # slots[s].job
  <2> SUFFICES ASSUME NEW r \in Slots, r # s, Busy(r), slots[r].job = slots[s].job PROVE FALSE
    OBVIOUS
  <2>1. slots[r].attempts = slots[s].attempts
    BY <1>1
  <2> QED
    BY <2>1 DEF IInv, ClaimUnique
<1> QED
  BY <1>1, <1>2, <1>3

\* A step of slot s on its job j leaves the other slots and rows as calm as they were.
LEMMA CalmFrame ==
  ASSUME Calm, faults = 0, NEW s \in Slots, NEW j \in Jobs, IInv,
         \A k \in Jobs \ {j} : rows'[k] = rows[k] /\ dlq'[k] = dlq[k],
         \A r \in Slots \ {s} : slots'[r] = slots[r],
         \A r \in Slots \ {s} : Busy(r) => slots[r].job # j,
         Busy(s) => slots[s].job = j,
         CalmRow(j)', CalmSlot(s)'
  PROVE  Calm'
<1>1. ASSUME NEW k \in Jobs, k # j PROVE CalmRow(k)'
  <2>1. rows'[k] = rows[k] /\ dlq'[k] = dlq[k] /\ CalmRow(k)
    BY <1>1 DEF Calm
  <2>2. ASSUME NEW r \in Slots, Busy(r), slots[r].job = k
        PROVE  slots'[r] = slots[r]
    BY <1>1, <2>2
  <2>3. rows[k].status = "running" => \E r \in Slots : Busy(r)' /\ slots'[r].job = k
    BY <2>1, <2>2 DEF CalmRow, Busy
  <2>4. (\E r \in Slots : slots[r].pc = "failing" /\ slots[r].job = k)
          => \E r \in Slots : slots'[r].pc = "failing" /\ slots'[r].job = k
    BY <2>2 DEF Busy
  <2> QED
    BY <2>1, <2>3, <2>4 DEF CalmRow
<1>2. ASSUME NEW r \in Slots, r # s PROVE CalmSlot(r)'
  <2> SUFFICES ASSUME Busy(r)'
               PROVE  /\ rows'[slots'[r].job].status = "running"
                      /\ slots'[r].attempts = rows'[slots'[r].job].attempts
    BY DEF CalmSlot
  <2>1. slots'[r] = slots[r] /\ Busy(r) /\ CalmSlot(r)
    BY <1>2 DEF Busy, Calm
  <2>2. slots[r].job \in Jobs \ {j}
    BY <1>2, <2>1 DEF IInv, SnapshotInv
  <2> QED
    BY <2>1, <2>2 DEF CalmSlot
<1> QED
  BY <1>1, <1>2 DEF Calm

\* A step that changes neither rows nor DLQ nor a slot at work keeps the calm.
LEMMA CalmQuiet ==
  ASSUME Calm, faults = 0, rows' = rows, dlq' = dlq,
         \A r \in Slots : Busy(r) \/ Busy(r)' => slots'[r] = slots[r]
  PROVE  Calm'
<1>1. ASSUME NEW r \in Slots PROVE CalmSlot(r)'
  BY DEF Calm, CalmSlot, Busy
<1>2. ASSUME NEW k \in Jobs PROVE CalmRow(k)'
  <2>1. CalmRow(k)
    BY DEF Calm
  <2>2. rows[k].status = "running" => \E r \in Slots : Busy(r)' /\ slots'[r].job = k
    BY <2>1 DEF CalmRow, Busy
  <2>3. (\E r \in Slots : slots[r].pc = "failing" /\ slots[r].job = k)
          => \E r \in Slots : slots'[r].pc = "failing" /\ slots'[r].job = k
    BY DEF Busy
  <2> QED
    BY <2>1, <2>2, <2>3 DEF CalmRow
<1> QED
  BY <1>1, <1>2 DEF Calm

\* The entries of the DLQ are for the last attempt.
LEMMA CalmDlq ==
  ASSUME IInv, Calm, faults = 0, NEW j \in Jobs
  PROVE  /\ dlq[j] \subseteq {MaxAttempts}
         /\ rows[j].attempts < MaxAttempts => dlq[j] = {}
<1>1. rows[j].attempts \in Nat /\ rows[j].attempts <= MaxAttempts
  BY DEF IInv, TypeOK, Row, Calm, CalmRow
<1>2. \A n \in dlq[j] : n \in Nat /\ MaxAttempts <= n /\ n <= rows[j].attempts
  BY DEF IInv, TypeOK, DlqHonest
<1> QED
  BY SMT, <1>1, <1>2, JobQueueAssumption

\* enqueue keeps the calm: a new row has neither claimant nor DLQ entry.
LEMMA CalmEnqueue ==
  ASSUME IInv, Calm, faults = 0, NEW j \in Jobs, NEW t \in Stamps, Enqueue(j, t)
  PROVE  Calm'
<1>1. /\ rows' = [rows EXCEPT ![j] = InsertOrIgnore(rows[j], t)]
      /\ slots' = slots /\ dlq' = dlq /\ rows \in [Jobs -> Row]
  BY DEF Enqueue, IInv, TypeOK
<1>2. CASE rows[j].status # "absent"
  <2>1. rows' = rows
    BY SMT, <1>1, <1>2 DEF InsertOrIgnore
  <2> QED
    BY <1>1, <2>1, CalmQuiet
<1>3. CASE rows[j].status = "absent"
  <2>1. rows'[j].status = "pending" /\ rows'[j].attempts = 0
    BY SMT, <1>1, <1>3 DEF InsertOrIgnore, InsertOrReplace
  <2>2. dlq[j] = {}
    <3>1. rows[j].attempts < MaxAttempts
      BY SMT, <1>3, JobQueueAssumption DEF IInv, RowInv
    <3> QED
      BY <3>1, CalmDlq
  <2>3. CalmRow(j)'
    <3>1. 0 < MaxAttempts /\ 0 <= MaxAttempts
      BY SMT, JobQueueAssumption
    <3> QED
      BY <1>1, <2>1, <2>2, <3>1 DEF CalmRow
  <2>4. \A k \in Jobs \ {j} : rows'[k] = rows[k]
    BY <1>1
  <2>5. ASSUME NEW k \in Jobs, k # j PROVE CalmRow(k)'
    <3>1. rows'[k] = rows[k] /\ dlq'[k] = dlq[k] /\ slots' = slots /\ CalmRow(k)
      BY <1>1, <2>4, <2>5 DEF Calm
    <3> QED
      BY <3>1 DEF CalmRow, Busy
  <2>6. ASSUME NEW s \in Slots PROVE CalmSlot(s)'
    <3> SUFFICES ASSUME Busy(s) PROVE /\ rows'[slots[s].job].status = "running"
                                      /\ slots[s].attempts = rows'[slots[s].job].attempts
      BY <1>1 DEF CalmSlot, Busy
    <3>1. slots[s].job \in Jobs \ {j}
      BY <1>3, CalmAlone
    <3> QED
      BY <2>4, <3>1, CalmAlone
  <2> QED
    BY <2>3, <2>5, <2>6 DEF Calm
<1> QED
  BY <1>2, <1>3

\* dequeue keeps the calm: it finds pending rows only, none of them exhausted.
LEMMA CalmDequeue ==
  ASSUME IInv, Calm, faults = 0, NEW s \in Slots, Dequeue(s)
  PROVE  Calm'
<1>1. PICK j \in Jobs :
        /\ Claimable(rows[j])
        /\ rows' = [rows EXCEPT ![j] = Claimed(rows[j])]
        /\ slots' = [slots EXCEPT ![s] =
                       [pc |-> "running", job |-> j,
                        attempts |-> Claimed(rows[j]).attempts, lease |-> "live"]]
  BY DEF Dequeue, Oldest
<1>2. /\ rows \in [Jobs -> Row] /\ rows[j] \in Row /\ rows[j].attempts \in Nat
      /\ slots \in [Slots -> Slot] /\ dlq' = dlq /\ ~Busy(s)
  BY DEF IInv, TypeOK, Row, Dequeue, MayDequeue, Busy
<1>3. rows[j].status = "pending" /\ rows[j].attempts < MaxAttempts
  BY <1>1 DEF Claimable, Calm, CalmRow
<1>4. /\ rows'[j].status = "running" /\ rows'[j].lease = "live"
      /\ rows'[j].attempts = rows[j].attempts + 1
      /\ slots'[s].pc = "running" /\ slots'[s].job = j
      /\ slots'[s].attempts = rows'[j].attempts
  BY <1>1, <1>2, ClaimedFields
<1>5. /\ \A k \in Jobs \ {j} : rows'[k] = rows[k] /\ dlq'[k] = dlq[k]
      /\ \A r \in Slots \ {s} : slots'[r] = slots[r]
  BY <1>1, <1>2
<1>6. \A r \in Slots \ {s} : Busy(r) => slots[r].job # j
  BY <1>3, CalmAlone
<1>7. dlq[j] = {}
  BY <1>3, CalmDlq
<1>8. CalmRow(j)'
  <2>1. rows'[j].attempts <= MaxAttempts
    BY SMT, <1>2, <1>3, <1>4, JobQueueAssumption
  <2>2. Busy(s)'
    BY <1>4 DEF Busy
  <2> QED
    BY <1>2, <1>4, <1>7, <2>1, <2>2 DEF CalmRow
<1>9. CalmSlot(s)'
  BY <1>4 DEF CalmSlot
<1> QED
  BY <1>2, <1>5, <1>6, <1>8, <1>9, CalmFrame

\* complete keeps the calm: the slot it came from was the only one at work on the
\* row, and had pushed nothing to the DLQ.
LEMMA CalmComplete ==
  ASSUME IInv, Calm, faults = 0, NEW s \in Slots, Complete(s)
  PROVE  Calm'
<1>0. PICK j : j = slots[s].job
  OBVIOUS
<1>1. /\ rows' = [rows EXCEPT ![j] = Completed(rows[j])] /\ Goto(s, "idle")
      /\ dlq' = dlq /\ Busy(s) /\ slots[s].pc = "running"
  BY <1>0 DEF Complete, Busy
<1>2. /\ j \in Jobs /\ rows[j].status = "running"
      /\ \A r \in Slots \ {s} : Busy(r) => slots[r].job # j
  BY <1>0, <1>1, CalmAlone
<1>3. /\ rows \in [Jobs -> Row] /\ rows[j] \in Row /\ slots \in [Slots -> Slot]
  BY <1>2 DEF IInv, TypeOK
<1>4. /\ rows'[j].status = "succeeded" /\ rows'[j].attempts = rows[j].attempts
      /\ slots'[s].pc = "idle"
  BY <1>1, <1>2, <1>3, CompletedFields, AtFields DEF Goto
<1>5. /\ \A k \in Jobs \ {j} : rows'[k] = rows[k] /\ dlq'[k] = dlq[k]
      /\ \A r \in Slots \ {s} : slots'[r] = slots[r]
  BY <1>1, <1>3 DEF Goto
<1>6. dlq[j] = {}
  <2>1. ~\E r \in Slots : slots[r].pc = "failing" /\ slots[r].job = j
    BY <1>0, <1>1, <1>2 DEF Busy
  <2> QED
    BY <1>2, <2>1 DEF Calm, CalmRow
<1>7. CalmRow(j)'
  <2>1. rows[j].attempts <= MaxAttempts
    BY <1>2 DEF Calm, CalmRow
  <2> QED
    BY <1>1, <1>4, <1>6, <2>1 DEF CalmRow
<1>8. CalmSlot(s)'
  BY <1>4 DEF CalmSlot, Busy
<1> QED
  BY <1>0, <1>2, <1>5, <1>7, <1>8, CalmFrame

\* fail keeps the calm: the snapshot and the row agree on whether the job is
\* exhausted, so that the pool's push and the row's death go together.
LEMMA CalmFail ==
  ASSUME IInv, Calm, faults = 0, NEW s \in Slots, Fail(s)
  PROVE  Calm'
<1>0. PICK j : j = slots[s].job
  OBVIOUS
<1>1. /\ rows' = [rows EXCEPT ![j] = Failed(rows[j])] /\ AfterFail(s)
      /\ dlq' = dlq /\ Busy(s) /\ Failing(s)
  BY <1>0 DEF Fail, Failing, Busy
<1>2. /\ j \in Jobs /\ rows[j].status = "running"
      /\ slots[s].attempts = rows[j].attempts
      /\ \A r \in Slots \ {s} : Busy(r) => slots[r].job # j
  BY <1>0, <1>1, CalmAlone
<1>3. /\ rows \in [Jobs -> Row] /\ rows[j] \in Row /\ rows[j].attempts \in Nat
      /\ slots \in [Slots -> Slot]
  BY <1>2 DEF IInv, TypeOK, Row
<1>4. /\ rows'[j].status = IF rows[j].attempts >= MaxAttempts THEN "dead" ELSE "pending"
      /\ rows'[j].attempts = rows[j].attempts
  BY <1>1, <1>2, <1>3, FailedFields
<1>5. /\ slots'[s].pc \in {"idle", "backoff"}
      /\ \A r \in Slots \ {s} : slots'[r] = slots[r]
  <2>1. CASE Goto(s, "idle")
    BY <1>3, <2>1, AtFields DEF Goto
  <2>2. CASE slots' = [slots EXCEPT ![s] = BackingOff(slots[s].job)]
    BY <1>3, <2>2 DEF BackingOff
  <2> QED
    BY <1>1, <2>1, <2>2 DEF AfterFail
<1>6. \A k \in Jobs \ {j} : rows'[k] = rows[k] /\ dlq'[k] = dlq[k]
  BY <1>1, <1>3
<1>7. rows[j].attempts >= MaxAttempts <=> dlq[j] # {}
  <2>1. CASE slots[s].pc = "failing"
    BY <1>0, <1>2, <2>1 DEF IInv, DlqHonest, SnapshotInv, Busy, Exhausted
  <2>2. CASE slots[s].pc = "running" /\ ~Exhausted(slots[s].attempts)
    <3>1. ~(rows[j].attempts >= MaxAttempts)
      BY <1>0, <1>2, <2>2 DEF Exhausted
    <3>2. rows[j].attempts < MaxAttempts
      BY SMT, <1>3, <3>1, JobQueueAssumption
    <3> QED
      BY <1>2, <3>1, <3>2, CalmDlq
  <2> QED
    BY <1>1, <2>1, <2>2 DEF Failing
<1>8. CalmRow(j)'
  <2>1. rows[j].attempts <= MaxAttempts
    BY <1>2 DEF Calm, CalmRow
  <2>2. ~(rows[j].attempts >= MaxAttempts) => rows[j].attempts < MaxAttempts
    BY SMT, <1>3, JobQueueAssumption
  <2>3. CASE rows[j].attempts >= MaxAttempts
    <3>1. rows'[j].status = "dead" /\ dlq'[j] # {} /\ rows'[j].attempts <= MaxAttempts
      BY <1>1, <1>4, <1>7, <2>1, <2>3
    <3> QED
      BY <3>1 DEF CalmRow
  <2>4. CASE ~(rows[j].attempts >= MaxAttempts)
    <3>1. /\ rows'[j].status = "pending" /\ dlq'[j] = {}
          /\ rows'[j].attempts <= MaxAttempts /\ rows'[j].attempts < MaxAttempts
      BY <1>1, <1>4, <1>7, <2>1, <2>2, <2>4
    <3> QED
      BY <3>1 DEF CalmRow
  <2> QED
    BY <2>3, <2>4
<1>9. CalmSlot(s)'
  BY <1>5 DEF CalmSlot, Busy
<1> QED
  BY <1>0, <1>2, <1>5, <1>6, <1>8, <1>9, CalmFrame

\* dlq.push keeps the calm: the slot that pushed will fail the row.
LEMMA CalmPush ==
  ASSUME IInv, Calm, faults = 0, NEW s \in Slots, PushDlq(s)
  PROVE  Calm'
<1>0. PICK j : j = slots[s].job
  OBVIOUS
<1>1. /\ dlq' = [dlq EXCEPT ![j] = @ \cup {slots[s].attempts}]
      /\ slots' = [slots EXCEPT ![s].pc = "failing"]
      /\ rows' = rows /\ Busy(s)
  BY <1>0 DEF PushDlq, Busy
<1>2. /\ j \in Jobs /\ rows[j].status = "running"
      /\ slots[s].attempts = rows[j].attempts
      /\ \A r \in Slots \ {s} : Busy(r) => slots[r].job # j
  BY <1>0, <1>1, CalmAlone
<1>3. dlq \in [Jobs -> SUBSET Nat] /\ slots \in [Slots -> Slot] /\ slots[s] \in Slot
  BY DEF IInv, TypeOK
<1>4. /\ slots'[s].pc = "failing" /\ slots'[s].job = j
      /\ slots'[s].attempts = slots[s].attempts
      /\ \A r \in Slots \ {s} : slots'[r] = slots[r]
  BY <1>0, <1>1, <1>3 DEF Slot
<1>5. \A k \in Jobs \ {j} : rows'[k] = rows[k] /\ dlq'[k] = dlq[k]
  BY <1>1, <1>3
<1>6. CalmRow(j)'
  <2>1. CalmRow(j)
    BY <1>2 DEF Calm
  <2>2. Busy(s)'
    BY <1>4 DEF Busy
  <2> QED
    BY <1>1, <1>2, <1>4, <2>1, <2>2 DEF CalmRow
<1>7. CalmSlot(s)'
  BY <1>0, <1>1, <1>2, <1>4 DEF CalmSlot
<1> QED
  BY <1>0, <1>2, <1>4, <1>5, <1>6, <1>7, CalmFrame

\* Until the first fault every step keeps rows, slots and DLQ in accord.
LEMMA NextCalm == IInv /\ Calm /\ [Next]_vars => Calm'
<1> SUFFICES ASSUME IInv, Calm, [Next]_vars, faults' = 0 PROVE Calm'
  BY DEF Calm
<1>0. ~Fault
  BY SMT DEF Fault, IInv, TypeOK
<1>1. faults = 0
  <2>1. CASE faults' = faults
    BY <2>1
  <2>2. CASE faults' # faults
    BY <1>0, <2>2 DEF Next, SlotStep, SlotFault, Enqueue, Dequeue, DequeueEmpty, Complete, PushDlq,
      Fail, Wake, SlotStops, DequeueErr, CompleteLost, FailLost, LeaseOverrun, LeaseExpires, Stop,
      Crash, Restart, vars
  <2> QED
    BY <2>1, <2>2
<1>2. ASSUME NEW j \in Jobs, NEW t \in Stamps, Enqueue(j, t) PROVE Calm'
  BY <1>1, <1>2, CalmEnqueue
<1>3. ASSUME NEW s \in Slots, Dequeue(s) PROVE Calm'
  BY <1>1, <1>3, CalmDequeue
<1>4. ASSUME NEW s \in Slots, Complete(s) PROVE Calm'
  BY <1>1, <1>4, CalmComplete
<1>5. ASSUME NEW s \in Slots, Fail(s) PROVE Calm'
  BY <1>1, <1>5, CalmFail
<1>6. ASSUME NEW s \in Slots, PushDlq(s) PROVE Calm'
  BY <1>1, <1>6, CalmPush
<1>7. ASSUME NEW s \in Slots, DequeueEmpty(s) \/ Wake(s) \/ SlotStops(s) PROVE Calm'
  <2>1. /\ rows' = rows /\ dlq' = dlq /\ ~Busy(s)
        /\ \E pc \in {"idle", "sleeping", "stopped", "down"} : Goto(s, pc)
    BY <1>7 DEF DequeueEmpty, Wake, SlotStops, MayDequeue, Busy
  <2>2. slots \in [Slots -> Slot]
    BY DEF IInv, TypeOK
  <2>3. ~Busy(s)' /\ \A r \in Slots \ {s} : slots'[r] = slots[r]
    BY <2>1, <2>2, AtFields DEF Goto, Busy
  <2> QED
    BY <1>1, <2>1, <2>3, CalmQuiet
<1>8. ASSUME NEW j \in Jobs, LeaseExpires(j) PROVE Calm'
  <2>1. rows[j].status = "running" /\ \A s \in Slots : ~Holds(s, j)
    BY <1>8 DEF LeaseExpires
  <2>2. PICK s \in Slots : Busy(s) /\ slots[s].job = j
    BY <1>1, <2>1 DEF Calm, CalmRow
  <2>3. Holds(s, j)
    BY <1>1, <2>2, CalmAlone DEF Holds
  <2> QED
    BY <2>1, <2>3
<1>9. ASSUME NEW w \in Workers, Restart(w) PROVE Calm'
  <2>1. /\ rows' = rows /\ dlq' = dlq
        /\ slots' = [s \in Slots |-> IF s[1] = w THEN At("idle") ELSE slots[s]]
        /\ \A s \in SlotsOf(w) : slots[s].pc \in {"stopped", "down"}
    BY <1>9 DEF Restart
  <2>2. ASSUME NEW s \in Slots, s[1] = w PROVE ~Busy(s) /\ ~Busy(s)'
    <3>1. s \in SlotsOf(w)
      BY SMT, <2>2 DEF Slots, SlotsOf
    <3>2. slots'[s].pc = "idle"
      BY <2>1, <2>2, AtFields
    <3> QED
      BY <2>1, <3>1, <3>2 DEF Busy
  <2>3. ASSUME NEW s \in Slots, s[1] # w PROVE slots'[s] = slots[s]
    BY <2>1, <2>3
  <2> QED
    BY <1>1, <2>1, <2>2, <2>3, CalmQuiet
<1>10. CASE UNCHANGED vars
  <2>1. rows' = rows /\ dlq' = dlq /\ slots' = slots
    BY <1>10 DEF vars
  <2> QED
    BY <1>1, <2>1, CalmQuiet
<1>11. ~\E s \in Slots : SlotFault(s)
  BY <1>0 DEF SlotFault, DequeueErr, CompleteLost, FailLost, LeaseOverrun
<1>12. ~\E w \in Workers : Stop(w) \/ Crash(w)
  BY <1>0 DEF Stop, Crash
<1> QED
  BY <1>2, <1>3, <1>4, <1>5, <1>6, <1>7, <1>8, <1>9, <1>10, <1>11, <1>12 DEF Next, SlotStep

\* Until a lease lapses under its claimant, a process dies or a write is lost, the
\* DLQ and the dead state agree, one entry to a dead job, and a running job has one
\* worker: for any number of workers and slots.
THEOREM AgreesUntilFault == Spec => []AgreeUntilFault
<1>1. Init => Calm
  <2> SUFFICES ASSUME Init PROVE Calm
    OBVIOUS
  <2>1. \A s \in Slots : ~Busy(s)
    BY AtFields DEF Init, Busy
  <2>2. \A j \in Jobs : rows[j].status = "absent" /\ rows[j].attempts = 0 /\ dlq[j] = {}
    BY DEF Init
  <2>3. 0 <= MaxAttempts
    BY SMT, JobQueueAssumption
  <2> QED
    BY <2>1, <2>2, <2>3 DEF Calm, CalmRow, CalmSlot
<1>2. IInv /\ Calm => AgreeUntilFault
  <2> SUFFICES ASSUME IInv, Calm, faults = 0, NEW j \in Jobs
               PROVE  LET holders == {s \in Slots : Busy(s) /\ slots[s].job = j} IN
                      /\ rows[j].attempts <= MaxAttempts
                      /\ rows[j].status = "dead" => dlq[j] = {MaxAttempts}
                      /\ dlq[j] # {} => \/ rows[j].status = "dead"
                                        \/ \E s \in holders : slots[s].pc = "failing"
                      /\ Cardinality(holders) = IF rows[j].status = "running" THEN 1 ELSE 0
    BY DEF AgreeUntilFault
  <2> DEFINE holders == {s \in Slots : Busy(s) /\ slots[s].job = j}
  <2>1. CalmRow(j)
    BY DEF Calm
  <2>2. rows[j].status = "dead" => dlq[j] = {MaxAttempts}
    BY <2>1, CalmDlq DEF CalmRow
  <2>3. dlq[j] # {} => \/ rows[j].status = "dead"
                       \/ \E s \in holders : slots[s].pc = "failing"
    BY <2>1 DEF CalmRow, Busy
  <2>4. CASE rows[j].status = "running"
    <3>1. PICK s \in Slots : Busy(s) /\ slots[s].job = j
      BY <2>1, <2>4 DEF CalmRow
    <3>2. holders = {s}
      BY <3>1, CalmAlone
    <3> QED
      BY <2>1, <2>2, <2>3, <2>4, <3>2, FS_Singleton DEF CalmRow
  <2>5. CASE rows[j].status # "running"
    <3>1. holders = {}
      BY <2>5, CalmAlone
    <3> QED
      BY <2>1, <2>2, <2>3, <2>5, <3>1, FS_EmptySet DEF CalmRow
  <2> QED
    BY <2>4, <2>5
<1> QED
  BY <1>1, <1>2, NextCalm, Invariance, PTL DEF Spec
=============================================================================
