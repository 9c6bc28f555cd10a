--------------------------- MODULE ImageLifecycle ---------------------------
(***************************************************************************)
(* The life of an image across its four stores: the object storage, the    *)
(* `images' and `image_variants' tables, the job queue and the audit log.  *)
(* No transaction spans them.  Upload handlers, delete handlers and worker *)
(* jobs are sequences of awaited calls, each an atomic step here, and      *)
(* interleave between them; any call may fail or lose its answer and any   *)
(* handler may be dropped (process death, client gone).                    *)
(*                                                                         *)
(* The deployment is the PostgreSQL one: image, variant and delete         *)
(* repositories are configured.  Authorisation is left to its own          *)
(* component: the requests here are the authorised ones.  The job queue    *)
(* is its abstract ledger (JobLedger), which JobQueue implements.          *)
(***************************************************************************)
EXTENDS Naturals, FiniteSets, FiniteSetsExt

CONSTANTS
  Images,       \* image ids, one per upload request (Uuid::now_v7)
  Users, Teams, NoTeam,
  Sizes,        \* payload sizes
  UserCap, TeamCap,   \* quotas.max_bytes, team_quotas.max_bytes or the default
  NKinds,       \* variant jobs per upload: avif, webp, thumbnails
  Runners,      \* worker slots
  Deleters,     \* delete requests in progress at a time
  MaxAttempts,  \* retry::MAX_ATTEMPTS
  MaxFaults,    \* bound on faults
  NoImage, NoOwner, NoWork

Jobs == Images \X (1..NKinds)

ASSUME ImageLifecycleAssumption ==
  /\ IsFiniteSet(Images)
  /\ Sizes \subseteq Nat \ {0}
  /\ UserCap \in Nat /\ TeamCap \in Nat /\ NKinds \in Nat
  /\ MaxAttempts \in Nat \ {0} /\ MaxFaults \in Nat
  /\ NoTeam \notin Teams /\ NoImage \notin Images /\ NoOwner \notin Users
  /\ NoWork \notin Jobs /\ Images \cap Jobs = {}

VARIABLES
  req,         \* the upload handler of each image
  meta,        \* the images row: "none", "live" or "deleted" (soft delete)
  blobs,       \* keys in storage: an image (its original) or a job (its variant)
  vrows,       \* image_variants rows
  state, deliveries,   \* the job ledger
  del,         \* delete handlers
  run,         \* worker slots
  audit,       \* recorded events
  hit,         \* per image, the kinds of fault that struck its handlers
  faults

handlers == <<req, del, run>>
stores == <<meta, blobs, vrows, audit>>
queue == <<state, deliveries>>
history == <<hit, faults>>
vars == <<handlers, stores, queue, history>>

Queue == INSTANCE JobLedger

Request == [pc: {"idle", "rejected", "team_check", "checked", "stored", "staged",
                 "cleanup", "inserted", "done", "failed", "aborted"},
            owner: Users \cup {NoOwner}, team: Teams \cup {NoTeam},
            bytes: Sizes \cup {0}, next: 1..(NKinds + 1),
            overlaps: SUBSET {"user", "team"}]   \* history, see Overlap

FaultKinds == {"put", "audit", "insert", "cleanup", "enqueue", "drop_upload",
               "unlink", "row", "delete_audit", "drop_delete", "overrun", "work", "drop_work"}

Init ==
  /\ req = [i \in Images |-> [pc |-> "idle", owner |-> NoOwner, team |-> NoTeam,
                              bytes |-> 0, next |-> 1, overlaps |-> {}]]
  /\ meta = [i \in Images |-> "none"]
  /\ blobs = {} /\ vrows = {} /\ audit = {}
  /\ Queue!Init
  /\ del = [d \in Deleters |-> [pc |-> "idle", image |-> NoImage]]
  /\ run = [r \in Runners |-> [pc |-> "idle", job |-> NoWork]]
  /\ hit = [i \in Images |-> {}]
  /\ faults = 0

Strike(i, kind) ==
  /\ faults < MaxFaults
  /\ faults' = faults + 1
  /\ hit' = [hit EXCEPT ![i] = @ \cup {kind}]

-----------------------------------------------------------------------------
(* Quotas: the sum over live rows, read before anything is stored.         *)

Live == {i \in Images : meta[i] = "live"}
Bytes(i) == req[i].bytes
UsedByUser(u) == MapThenSumSet(Bytes, {i \in Live : req[i].owner = u})
UsedByTeam(t) == MapThenSumSet(Bytes, {i \in Live : req[i].team = t})

RemainingPlusOne(cap, used) == IF cap + 1 >= used THEN cap + 1 - used ELSE 0
Remaining(cap, used) == IF cap >= used THEN cap - used ELSE 0

\* Past its user check and without its row.
InFlight(i) == req[i].pc \in {"team_check", "checked", "stored", "staged"}
TeamChecked(i) == req[i].pc \in {"checked", "stored", "staged"}

\* History: the upload was measured while another one of its owner or team was
\* under way.
UserOverlap(i, u) ==
  IF \E k \in Images \ {i} : InFlight(k) /\ req[k].owner = u THEN {"user"} ELSE {}
TeamOverlap(i) ==
  IF \E k \in Images \ {i} : TeamChecked(k) /\ req[k].team = req[i].team
  THEN {"team"} ELSE {}

-----------------------------------------------------------------------------
(* POST /images: stage, insert, enqueue_variants.                          *)

At(i, pc) == req' = [req EXCEPT ![i].pc = pc]

CheckUser(i, u, t, n) ==
  /\ req[i].pc = "idle"
  /\ req' = [req EXCEPT ![i] =
       [pc |-> IF n > Remaining(UserCap, UsedByUser(u)) THEN "rejected"
               ELSE IF t = NoTeam THEN "checked" ELSE "team_check",
        owner |-> u, team |-> t, bytes |-> n, next |-> 1,
        overlaps |-> UserOverlap(i, u)]]
  /\ UNCHANGED <<del, run, stores, queue, history>>

CheckTeam(i) ==
  /\ req[i].pc = "team_check"
  /\ req' = [req EXCEPT
       ![i].pc = IF Bytes(i) > Remaining(TeamCap, UsedByTeam(req[i].team))
                 THEN "rejected" ELSE "checked",
       ![i].overlaps = @ \cup TeamOverlap(i)]
  /\ UNCHANGED <<del, run, stores, queue, history>>

\* MIME gate, probe, or a quota query that failed: nothing was stored.
Refuse(i) ==
  /\ req[i].pc \in {"team_check", "checked"}
  /\ At(i, "rejected")
  /\ UNCHANGED <<del, run, stores, queue, history>>

Put(i) ==
  /\ req[i].pc = "checked"
  /\ blobs' = blobs \cup {i}
  /\ At(i, "stored")
  /\ UNCHANGED <<del, run, meta, vrows, audit, queue, history>>

PutFails(i) ==
  /\ req[i].pc = "checked"
  /\ Strike(i, "put")
  /\ blobs' \in {blobs, blobs \cup {i}}
  /\ At(i, "failed")
  /\ UNCHANGED <<del, run, meta, vrows, audit, queue>>

AuditUpload(i) ==
  /\ req[i].pc = "stored"
  /\ audit' = audit \cup {<<"upload", i>>}
  /\ At(i, "staged")
  /\ UNCHANGED <<del, run, meta, blobs, vrows, queue, history>>

\* stage returns the error; nothing removes the stored original.
AfterAuditFailedContinue == "staged"
AfterAuditFailed == "failed"

AuditUploadFails(i) ==
  /\ req[i].pc = "stored"
  /\ Strike(i, "audit")
  /\ At(i, AfterAuditFailed)
  /\ UNCHANGED <<del, run, stores, queue>>

InsertRow(i) ==
  /\ req[i].pc = "staged"
  /\ meta' = [meta EXCEPT ![i] = "live"]
  /\ At(i, "inserted")
  /\ UNCHANGED <<del, run, blobs, vrows, audit, queue, history>>

\* The insert failed, or committed and its answer was lost.
AfterInsertFailedGiveUp == "failed"
AfterInsertFailed == "cleanup"

InsertRowFails(i) ==
  /\ req[i].pc = "staged"
  /\ Strike(i, "insert")
  /\ meta' \in {meta, [meta EXCEPT ![i] = "live"]}
  /\ At(i, AfterInsertFailed)
  /\ UNCHANGED <<del, run, blobs, vrows, audit, queue>>

Cleanup(i) ==
  /\ req[i].pc = "cleanup"
  /\ blobs' = blobs \ {i}
  /\ At(i, "failed")
  /\ UNCHANGED <<del, run, meta, vrows, audit, queue, history>>

CleanupFails(i) ==
  /\ req[i].pc = "cleanup"
  /\ Strike(i, "cleanup")
  /\ At(i, "failed")
  /\ UNCHANGED <<del, run, stores, queue>>

\* The variant jobs go out one by one, only once the row is committed (R-04).
NextKindAgain(k) == k
NextKind(k) == k + 1
MayEnqueueStaged(i) == req[i].pc \in {"staged", "inserted"} /\ req[i].next <= NKinds
MayEnqueue(i) == req[i].pc = "inserted" /\ req[i].next <= NKinds

EnqueueVariant(i) ==
  /\ MayEnqueue(i)
  /\ Queue!Submit(<<i, req[i].next>>)
  /\ req' = [req EXCEPT ![i].next = NextKind(@)]
  /\ UNCHANGED <<del, run, stores, history>>

\* Logged and skipped.
AfterEnqueueFailedUndo(i) == "cleanup"
AfterEnqueueFailed(i) == req[i].pc

EnqueueVariantFails(i) ==
  /\ MayEnqueue(i)
  /\ Strike(i, "enqueue")
  /\ req' = [req EXCEPT ![i].pc = AfterEnqueueFailed(i), ![i].next = NextKind(@)]
  /\ UNCHANGED <<del, run, stores, queue>>

Respond(i) ==
  /\ req[i].pc = "inserted" /\ req[i].next > NKinds
  /\ At(i, "done")
  /\ UNCHANGED <<del, run, stores, queue, history>>

DropUpload(i) ==
  /\ InFlight(i) \/ req[i].pc \in {"cleanup", "inserted"}
  /\ Strike(i, "drop_upload")
  /\ At(i, "aborted")
  /\ UNCHANGED <<del, run, stores, queue>>

-----------------------------------------------------------------------------
(* DELETE /images/:id: load, unlink the original, soft-delete, audit.      *)

Deleting(d, i, pc) == del[d].pc = pc /\ del[d].image = i
DeleteAt(d, pc) == del' = [del EXCEPT ![d].pc = pc]
DeleteEnds(d) == del' = [del EXCEPT ![d] = [pc |-> "idle", image |-> NoImage]]

LoadForDelete(d, i) ==
  /\ del[d].pc = "idle"
  /\ meta[i] = "live"
  /\ del' = [del EXCEPT ![d] = [pc |-> "unlink", image |-> i]]
  /\ UNCHANGED <<req, run, stores, queue, history>>

Unlink(i) == blobs \ {i}

DeleteBlob(d) ==
  /\ del[d].pc = "unlink"
  /\ blobs' = Unlink(del[d].image)
  /\ DeleteAt(d, "row")
  /\ UNCHANGED <<req, run, meta, vrows, audit, queue, history>>

\* Best effort: logged, the delete goes on.
DeleteBlobFails(d) ==
  /\ del[d].pc = "unlink"
  /\ Strike(del[d].image, "unlink")
  /\ DeleteAt(d, "row")
  /\ UNCHANGED <<req, run, stores, queue>>

DeleteRow(d) ==
  /\ del[d].pc = "row"
  /\ meta' = [meta EXCEPT ![del[d].image] = "deleted"]
  /\ DeleteAt(d, "audit")
  /\ UNCHANGED <<req, run, blobs, vrows, audit, queue, history>>

DeleteRowFails(d) ==
  /\ del[d].pc = "row"
  /\ Strike(del[d].image, "row")
  /\ meta' \in {meta, [meta EXCEPT ![del[d].image] = "deleted"]}
  /\ DeleteEnds(d)
  /\ UNCHANGED <<req, run, blobs, vrows, audit, queue>>

AuditDelete(d) ==
  /\ del[d].pc = "audit"
  /\ audit' = audit \cup {<<"delete", del[d].image>>}
  /\ DeleteEnds(d)
  /\ UNCHANGED <<req, run, meta, blobs, vrows, queue, history>>

AuditDeleteFails(d) ==
  /\ del[d].pc = "audit"
  /\ Strike(del[d].image, "delete_audit")
  /\ DeleteEnds(d)
  /\ UNCHANGED <<req, run, stores, queue>>

DropDelete(d) ==
  /\ del[d].pc # "idle"
  /\ Strike(del[d].image, "drop_delete")
  /\ DeleteEnds(d)
  /\ UNCHANGED <<req, run, stores, queue>>

-----------------------------------------------------------------------------
(* A worker slot on a variant job (ImageProcessor::process).               *)

Working(r) == run[r].pc # "idle"
Job(r) == run[r].job
RunAt(r, pc) == run' = [run EXCEPT ![r].pc = pc]
RunEnds(r) == run' = [run EXCEPT ![r] = [pc |-> "idle", job |-> NoWork]]

\* The bound on deliveries lets every fault cost one.
MaxDeliveries == MaxAttempts + MaxFaults

\* A job is handed out again while someone still works on it only if a lease was
\* overrun.
Take(r, j) ==
  /\ run[r].pc = "idle"
  /\ deliveries[j] < MaxDeliveries
  /\ Queue!Deliver(j)
  /\ IF \E s \in Runners : Working(s) /\ Job(s) = j
     THEN Strike(j[1], "overrun")
     ELSE UNCHANGED history
  /\ run' = [run EXCEPT ![r] = [pc |-> "lookup", job |-> j]]
  /\ UNCHANGED <<req, del, stores>>

\* repo.get leaves out deleted rows.
Lookup(r) ==
  /\ run[r].pc = "lookup"
  /\ RunAt(r, IF meta[Job(r)[1]] = "live" THEN "fetch" ELSE "failing")
  /\ UNCHANGED <<req, del, stores, queue, history>>

Fetch(r) ==
  /\ run[r].pc = "fetch"
  /\ RunAt(r, IF Job(r)[1] \in blobs THEN "put" ELSE "failing")
  /\ UNCHANGED <<req, del, stores, queue, history>>

PutVariant(r) ==
  /\ run[r].pc = "put"
  /\ blobs' = blobs \cup {Job(r)}
  /\ RunAt(r, "insert")
  /\ UNCHANGED <<req, del, meta, vrows, audit, queue, history>>

InsertVariantMarksImage(r) ==
  /\ run[r].pc = "insert"
  /\ vrows' = vrows \cup {Job(r)}
  /\ meta' = [meta EXCEPT ![Job(r)[1]] = "live"]
  /\ RunAt(r, "succeeded")
  /\ UNCHANGED <<req, del, blobs, audit, queue, history>>
InsertVariant(r) ==
  /\ run[r].pc = "insert"
  /\ vrows' = vrows \cup {Job(r)}
  /\ RunAt(r, "succeeded")
  /\ UNCHANGED <<req, del, meta, blobs, audit, queue, history>>

\* Any step of the processor may fail; a failed insert_variant fails the job.
AfterWorkFailedLenient(pc) == IF pc = "insert" THEN "succeeded" ELSE "failing"
AfterWorkFailed(pc) == "failing"

WorkFails(r) ==
  /\ run[r].pc \in {"lookup", "fetch", "put", "insert"}
  /\ Strike(Job(r)[1], "work")
  /\ RunAt(r, AfterWorkFailed(run[r].pc))
  /\ UNCHANGED <<req, del, stores, queue>>

Report(r) ==
  /\ \/ run[r].pc = "succeeded" /\ Queue!ReportDone(Job(r))
     \/ run[r].pc = "failing" /\ Queue!ReportFailed(Job(r))
  /\ RunEnds(r)
  /\ UNCHANGED <<req, del, stores, history>>

DropWork(r) ==
  /\ Working(r)
  /\ Strike(Job(r)[1], "drop_work")
  /\ RunEnds(r)
  /\ UNCHANGED <<req, del, stores, queue>>

-----------------------------------------------------------------------------
UploadStep(i) ==
  \/ CheckTeam(i) \/ Refuse(i) \/ Put(i) \/ AuditUpload(i) \/ InsertRow(i)
  \/ Cleanup(i) \/ EnqueueVariant(i) \/ Respond(i)

UploadFault(i) ==
  \/ PutFails(i) \/ AuditUploadFails(i) \/ InsertRowFails(i) \/ CleanupFails(i)
  \/ EnqueueVariantFails(i) \/ DropUpload(i)

DeleteStep(d) == DeleteBlob(d) \/ DeleteRow(d) \/ AuditDelete(d)

DeleteFault(d) ==
  DeleteBlobFails(d) \/ DeleteRowFails(d) \/ AuditDeleteFails(d) \/ DropDelete(d)

RunStep(r) == Lookup(r) \/ Fetch(r) \/ PutVariant(r) \/ InsertVariant(r) \/ Report(r)
RunFault(r) == WorkFails(r) \/ DropWork(r)

Next ==
  \/ \E i \in Images, u \in Users, t \in Teams \cup {NoTeam}, n \in Sizes :
       CheckUser(i, u, t, n)
  \/ \E i \in Images : UploadStep(i) \/ UploadFault(i)
  \/ \E d \in Deleters, i \in Images : LoadForDelete(d, i)
  \/ \E d \in Deleters : DeleteStep(d) \/ DeleteFault(d)
  \/ \E r \in Runners, j \in Jobs : Take(r, j)
  \/ \E r \in Runners : RunStep(r) \/ RunFault(r)

Spec == Init /\ [][Next]_vars

\* Handlers are tasks the runtime keeps polling; an open job is handed to a free
\* slot sooner or later (JobQueue: EventuallySettled).
Fairness ==
  /\ \A i \in Images : WF_vars(UploadStep(i))
  /\ \A d \in Deleters : WF_vars(DeleteStep(d))
  /\ \A r \in Runners : WF_vars(RunStep(r))
  /\ \A j \in Jobs : SF_vars(\E r \in Runners : Take(r, j))

FairSpec == Spec /\ Fairness

-----------------------------------------------------------------------------
(* Properties.                                                             *)

\* Types of the handlers, the stores and the histories.
TypeOK ==
  /\ req \in [Images -> Request]
  /\ meta \in [Images -> {"none", "live", "deleted"}]
  /\ blobs \subseteq Images \cup Jobs
  /\ vrows \subseteq Jobs
  /\ state \in [Jobs -> {"absent", "open", "done", "dead"}]
  /\ deliveries \in [Jobs -> 0..MaxDeliveries]
  /\ del \in [Deleters -> [pc: {"idle", "unlink", "row", "audit"},
                           image: Images \cup {NoImage}]]
  /\ run \in [Runners -> [pc: {"idle", "lookup", "fetch", "put", "insert",
                               "succeeded", "failing"},
                          job: Jobs \cup {NoWork}]]
  /\ audit \subseteq {"upload", "delete"} \X Images
  /\ hit \in [Images -> SUBSET FaultKinds]
  /\ faults \in 0..MaxFaults

\* An image whose handlers met no fault loses a variant job to the dead state only
\* through a delete: a worker never finds the job before the row or the row
\* before the bytes (upload.rs:145-148, R-04).
ValidUploadNotDeadLettered ==
  \A j \in Jobs :
    state[j] = "dead" /\ hit[j[1]] = {} =>
      meta[j[1]] = "deleted" \/ \E d \in Deleters : Deleting(d, j[1], "row")

\* A job reported done has its bytes in storage and its image_variants row,
\* whatever failed on the way and however often it was delivered: no "success
\* that isn't" (processor.rs:183-185).
DoneHasVariant ==
  /\ \A j \in Jobs : state[j] = "done" => j \in vrows
  /\ vrows \subseteq blobs

\* A row that readers can load has its original in storage, except in the window
\* of a delete that unlinked first, and after an insert answer, a soft delete or
\* a delete handler was lost.
LiveHasBlob ==
  \A i \in Images :
    meta[i] = "live" /\ i \notin blobs =>
      \/ hit[i] \cap {"insert", "row", "drop_delete"} # {}
      \/ \E d \in Deleters : Deleting(d, i, "row")

\* A failed insert alone never leaves an original nobody can address: the handler
\* removes it (images.rs:116-126, R-19).  Orphans need a failure of the audit
\* write, of the put itself, of the cleanup, or a dropped handler.
InsertFailureLeavesNoOrphan ==
  \A i \in Images :
    /\ i \in blobs /\ meta[i] = "none"
    /\ req[i].pc \in {"rejected", "done", "failed", "aborted"}
    => hit[i] \cap {"put", "audit", "cleanup", "drop_upload"} # {}

\* A soft-deleted image has no original left unless unlinking it failed
\* (delete.rs:73-80): two deletes, a late upload step or a worker never put it
\* back.
DeletedIsUnlinked ==
  \A i \in Images : meta[i] = "deleted" /\ "unlink" \notin hit[i] => i \notin blobs

\* The audit log tells of no delete that did not happen, and every image row was
\* preceded by its upload event.
AuditHonest ==
  \A i \in Images :
    /\ meta[i] # "none" => <<"upload", i>> \in audit
    /\ <<"delete", i>> \in audit => meta[i] = "deleted"

\* A deleted image stays deleted and its original never comes back.
DeletedIsFinal ==
  [][\A i \in Images :
       meta[i] = "deleted" =>
         meta'[i] = "deleted" /\ (i \in blobs' => i \in blobs)]_vars

\* Uploads measured one after the other never exceed the cap of their user or
\* team together, whatever is deleted, fails or is dropped in between; only
\* uploads measured while another was under way can push the sum over it.
SerialUploadsFitQuota ==
  /\ \A u \in Users :
       MapThenSumSet(Bytes, {i \in Live : req[i].owner = u /\ "user" \notin req[i].overlaps})
         <= UserCap
  /\ \A t \in Teams :
       MapThenSumSet(Bytes, {i \in Live : req[i].team = t /\ "team" \notin req[i].overlaps})
         <= TeamCap

\* Every upload comes to an end, and so does every variant job it enqueued.
UploadsAndJobsEnd ==
  /\ \A i \in Images :
       req[i].pc # "idle" ~> req[i].pc \in {"rejected", "done", "failed", "aborted"}
  /\ \A j \in Jobs : [](state[j] = "open" => <>(state[j] \in {"done", "dead"}))

-----------------------------------------------------------------------------
(* What comments and documents say and the code does not keep.             *)

\* images.rs:116-118: an orphan blob does not survive a failed upload (a failed
\* or dropped cleanup apart).
FailedUploadLeavesNoBlob ==
  \A i \in Images :
    req[i].pc = "failed" /\ hit[i] \cap {"put", "cleanup"} = {} => i \notin blobs

\* docs/spec.md:1049-1053: the quota is a hard cap.
QuotaIsHardCap == \A u \in Users : UsedByUser(u) <= UserCap
=============================================================================
