------------------------ MODULE ImageLifecycleProofs ------------------------
(***************************************************************************)
(* Safety of the image life cycle for any number of images, uploads,       *)
(* deletes, worker slots, variant kinds and faults.  The inductive         *)
(* invariant says, for every place a handler can be at, what the stores    *)
(* hold of its image; the actions of uploads, deletes and workers each     *)
(* touch the stores in one narrow way (the three effects), and what holds  *)
(* of the other images, handlers and jobs survives any of them.  A second  *)
(* invariant, over sums of sizes, is about the quotas.                     *)
(***************************************************************************)
EXTENDS ImageLifecycle, FiniteSetTheorems, TLAPS

\* A leaf is tried with Zenon; one that needs records or arithmetic cites SMT.
USE Zenon

-----------------------------------------------------------------------------
(* The inductive invariant.                                                *)

Unlinked(i) == \E d \in Deleters : Deleting(d, i, "row")
Excused(i) == hit[i] # {} \/ meta[i] = "deleted" \/ Unlinked(i)

ImageInv(i) ==
  /\ req[i].pc \in {"idle", "rejected", "team_check", "checked", "stored", "staged"}
       => meta[i] = "none"
  /\ req[i].pc \in {"inserted", "done"} => meta[i] # "none"
  /\ req[i].pc \in {"idle", "rejected", "team_check", "checked"} => i \notin blobs
  /\ req[i].pc \in {"stored", "staged"} => i \in blobs
  /\ req[i].pc \in {"staged", "cleanup"} \/ meta[i] # "none" => <<"upload", i>> \in audit
  /\ req[i].pc = "cleanup" => "insert" \in hit[i]
  /\ meta[i] = "live" /\ i \notin blobs
       => hit[i] \cap {"insert", "row", "drop_delete"} # {} \/ Unlinked(i)
  /\ i \in blobs /\ meta[i] = "none" /\ req[i].pc \in {"rejected", "done", "failed", "aborted"}
       => hit[i] \cap {"put", "audit", "cleanup", "drop_upload"} # {}
  /\ meta[i] = "deleted" /\ "unlink" \notin hit[i] => i \notin blobs
  /\ <<"delete", i>> \in audit => meta[i] = "deleted"

DelInv(d) ==
  del[d].pc # "idle" =>
    /\ del[d].image \in Images
    /\ meta[del[d].image] # "none"
    /\ del[d].pc = "row" => del[d].image \notin blobs \/ "unlink" \in hit[del[d].image]
    /\ del[d].pc = "audit" => meta[del[d].image] = "deleted"

RunInv(r) ==
  run[r].pc # "idle" =>
    /\ run[r].job \in Jobs
    /\ meta[run[r].job[1]] # "none"
    /\ run[r].pc = "insert" => run[r].job \in blobs
    /\ run[r].pc = "succeeded" => run[r].job \in vrows
    /\ run[r].pc = "failing" => Excused(run[r].job[1])

JobInv(j) ==
  /\ state[j] # "absent" => meta[j[1]] # "none"
  /\ state[j] = "done" => j \in vrows
  /\ state[j] = "dead" => Excused(j[1])

StoreInv ==
  /\ \A i \in Images : ImageInv(i)
  /\ \A d \in Deleters : DelInv(d)
  /\ \A r \in Runners : RunInv(r)
  /\ \A j \in Jobs : JobInv(j)
  /\ vrows \subseteq blobs

IInv == TypeOK /\ StoreInv

-----------------------------------------------------------------------------
(* Effects: what a step of an upload, a delete or a worker slot leaves     *)
(* alone, and the one way in which it moves the stores.                    *)

\* A step of the upload of i.
UploadEffect(i) ==
  /\ del' = del /\ run' = run /\ vrows' = vrows
  /\ \A k \in Images \ {i} :
       /\ req'[k] = req[k] /\ meta'[k] = meta[k] /\ hit'[k] = hit[k]
       /\ k \in blobs' <=> k \in blobs
  /\ \A j \in Jobs : j \in blobs' <=> j \in blobs
  /\ \A e \in {"upload", "delete"} \X Images : e # <<"upload", i>> => (e \in audit' <=> e \in audit)
  /\ hit[i] \subseteq hit'[i]
  /\ meta'[i] = meta[i] \/ (meta[i] = "none" /\ meta'[i] = "live")
  /\ meta[i] # "none" /\ i \in blobs' => i \in blobs
  /\ \A j \in Jobs : state'[j] = state[j] \/ (j[1] = i /\ meta[i] # "none" /\ state'[j] = "open")

\* A step of delete handler d, which is on image i.
DeleteEffect(d, i) ==
  /\ req' = req /\ run' = run /\ vrows' = vrows /\ state' = state
  /\ \A e \in Deleters \ {d} : del'[e] = del[e]
  /\ \A k \in Images \ {i} :
       /\ meta'[k] = meta[k] /\ hit'[k] = hit[k]
       /\ k \in blobs' <=> k \in blobs
       /\ \A x \in {"upload", "delete"} : <<x, k>> \in audit' <=> <<x, k>> \in audit
       /\ ~Deleting(d, k, "row") /\ ~Deleting(d, k, "row")'
  /\ \A j \in Jobs : j \in blobs' <=> j \in blobs
  /\ hit[i] \subseteq hit'[i]
  /\ meta'[i] = meta[i] \/ (meta[i] # "none" /\ meta'[i] = "deleted")
  /\ i \in blobs' => i \in blobs
  /\ Excused(i) => Excused(i)'

\* A step of worker slot r.
RunEffect(r) ==
  /\ req' = req /\ del' = del /\ meta' = meta /\ audit' = audit
  /\ \A s \in Runners \ {r} : run'[s] = run[s]
  /\ \A i \in Images : (i \in blobs' <=> i \in blobs) /\ hit[i] \subseteq hit'[i]
  /\ blobs \subseteq blobs' /\ vrows \subseteq vrows'
-----------------------------------------------------------------------------
\* Jobs are pairs of an image and a kind, and their keys are no image's.
LEMMA JobParts ==
  ASSUME NEW j \in Jobs
  PROVE  j[1] \in Images /\ j \notin Images
BY ImageLifecycleAssumption DEF Jobs

\* An excuse for a job outlives every step that keeps faults, deletions and
\* delete handlers past their unlink.
LEMMA ExcuseKept ==
  ASSUME NEW i \in Images, Excused(i), hit[i] \subseteq hit'[i],
         meta[i] = "deleted" => meta'[i] = "deleted", del' = del
  PROVE  Excused(i)'
BY DEF Excused, Unlinked, Deleting

\* What holds of other images, of deletes, slots and jobs survives any step of an
\* upload.
LEMMA UploadKeeps ==
  ASSUME TypeOK, StoreInv, NEW i \in Images, UploadEffect(i), ImageInv(i)'
  PROVE  StoreInv'
<1>1. ASSUME NEW k \in Images PROVE ImageInv(k)'
  <2>1. CASE k = i
    BY <2>1
  <2>2. CASE k # i
    <3>1. req'[k] = req[k] /\ meta'[k] = meta[k] /\ hit'[k] = hit[k] /\ (k \in blobs' <=> k \in blobs)
      BY <2>2 DEF UploadEffect
    <3>2. (<<"upload", k>> \in audit' <=> <<"upload", k>> \in audit)
          /\ (<<"delete", k>> \in audit' <=> <<"delete", k>> \in audit)
      BY <2>2 DEF UploadEffect
    <3>3. Unlinked(k)' <=> Unlinked(k)
      BY DEF UploadEffect, Unlinked, Deleting
    <3>4. ImageInv(k)
      BY DEF StoreInv
    <3> QED BY <3>1, <3>2, <3>3, <3>4 DEF ImageInv
  <2> QED BY <2>1, <2>2
<1>2. ASSUME NEW k \in Images
      PROVE  /\ meta[k] # "none" => meta'[k] # "none"
             /\ meta[k] = "deleted" => meta'[k] = "deleted"
             /\ hit[k] \subseteq hit'[k]
             /\ meta[k] # "none" /\ k \in blobs' => k \in blobs
  BY DEF UploadEffect
<1>3. ASSUME NEW d \in Deleters PROVE DelInv(d)'
  BY <1>2 DEF DelInv, StoreInv, UploadEffect
<1>4. ASSUME NEW k \in Images, Excused(k) PROVE Excused(k)'
  BY <1>2, <1>4, ExcuseKept DEF UploadEffect
<1>5. ASSUME NEW r \in Runners PROVE RunInv(r)'
  <2> SUFFICES ASSUME run[r].pc # "idle" PROVE RunInv(r)'
    BY DEF RunInv, UploadEffect
  <2>1. RunInv(r) /\ run'[r] = run[r]
    BY DEF StoreInv, UploadEffect
  <2>2. run[r].job \in Jobs /\ run[r].job[1] \in Images
    BY <2>1, JobParts DEF RunInv
  <2> QED BY <2>1, <2>2, <1>2, <1>4 DEF RunInv, UploadEffect
<1>6. ASSUME NEW j \in Jobs PROVE JobInv(j)'
  <2>1. JobInv(j) /\ j[1] \in Images
    BY JobParts DEF StoreInv
  <2> QED BY <2>1, <1>2, <1>4 DEF JobInv, UploadEffect
<1>7. vrows' \subseteq blobs'
  BY DEF UploadEffect, StoreInv, TypeOK
<1> QED BY <1>1, <1>3, <1>5, <1>6, <1>7 DEF StoreInv

\* The same for a step of a delete.
LEMMA DeleteKeeps ==
  ASSUME TypeOK, StoreInv, NEW d \in Deleters, NEW i \in Images, DeleteEffect(d, i),
         ImageInv(i)', DelInv(d)'
  PROVE  StoreInv'
<1>1. ASSUME NEW k \in Images PROVE ImageInv(k)'
  <2>1. CASE k = i
    BY <2>1
  <2>2. CASE k # i
    <3>1. req'[k] = req[k] /\ meta'[k] = meta[k] /\ hit'[k] = hit[k] /\ (k \in blobs' <=> k \in blobs)
      BY <2>2 DEF DeleteEffect
    <3>2. (<<"upload", k>> \in audit' <=> <<"upload", k>> \in audit)
          /\ (<<"delete", k>> \in audit' <=> <<"delete", k>> \in audit)
      BY <2>2 DEF DeleteEffect
    <3>3. Unlinked(k)' <=> Unlinked(k)
      <4>1. ~Deleting(d, k, "row") /\ ~Deleting(d, k, "row")'
        BY <2>2 DEF DeleteEffect
      <4>2. ASSUME NEW e \in Deleters PROVE Deleting(e, k, "row")' <=> Deleting(e, k, "row")
        <5>1. CASE e = d
          BY <4>1, <5>1
        <5>2. CASE e # d
          BY <5>2 DEF DeleteEffect, Deleting
        <5> QED BY <5>1, <5>2
      <4> QED BY <4>2 DEF Unlinked
    <3>4. ImageInv(k)
      BY DEF StoreInv
    <3> QED BY <3>1, <3>2, <3>3, <3>4 DEF ImageInv
  <2> QED BY <2>1, <2>2
<1>2. ASSUME NEW k \in Images
      PROVE  /\ meta[k] # "none" => meta'[k] # "none"
             /\ meta[k] = "deleted" => meta'[k] = "deleted"
             /\ hit[k] \subseteq hit'[k]
             /\ k \in blobs' => k \in blobs
  BY DEF DeleteEffect
<1>3. ASSUME NEW e \in Deleters PROVE DelInv(e)'
  <2>1. CASE e = d
    BY <2>1
  <2>2. CASE e # d
    <3>1. del'[e] = del[e] /\ DelInv(e)
      BY <2>2 DEF DeleteEffect, StoreInv
    <3> QED BY <3>1, <1>2 DEF DelInv
  <2> QED BY <2>1, <2>2
<1>4. ASSUME NEW k \in Images, Excused(k) PROVE Excused(k)'
  <2>1. CASE k = i
    BY <1>4, <2>1 DEF DeleteEffect
  <2>2. CASE k # i
    <3>1. Unlinked(k) => Unlinked(k)'
      <4> SUFFICES ASSUME NEW e \in Deleters, Deleting(e, k, "row") PROVE Unlinked(k)'
        BY DEF Unlinked
      <4>1. e # d
        BY <2>2 DEF DeleteEffect
      <4> QED BY <4>1 DEF DeleteEffect, Deleting, Unlinked
    <3> QED BY <1>4, <3>1, <1>2 DEF Excused
  <2> QED BY <2>1, <2>2
<1>5. ASSUME NEW r \in Runners PROVE RunInv(r)'
  <2> SUFFICES ASSUME run[r].pc # "idle" PROVE RunInv(r)'
    BY DEF RunInv, DeleteEffect
  <2>1. RunInv(r) /\ run'[r] = run[r]
    BY DEF StoreInv, DeleteEffect
  <2>2. run[r].job \in Jobs /\ run[r].job[1] \in Images
    BY <2>1, JobParts DEF RunInv
  <2> QED BY <2>1, <2>2, <1>2, <1>4 DEF RunInv, DeleteEffect
<1>6. ASSUME NEW j \in Jobs PROVE JobInv(j)'
  <2>1. JobInv(j) /\ j[1] \in Images
    BY JobParts DEF StoreInv
  <2> QED BY <2>1, <1>2, <1>4 DEF JobInv, DeleteEffect
<1>7. vrows' \subseteq blobs'
  BY DEF DeleteEffect, StoreInv, TypeOK
<1> QED BY <1>1, <1>3, <1>5, <1>6, <1>7 DEF StoreInv

\* The same for a step of a worker slot.
LEMMA RunKeeps ==
  ASSUME TypeOK, StoreInv, NEW r \in Runners, RunEffect(r), RunInv(r)',
         \A j \in Jobs : JobInv(j)', vrows' \subseteq blobs'
  PROVE  StoreInv'
<1>1. ASSUME NEW k \in Images PROVE ImageInv(k)'
  <2>1. ImageInv(k)
    BY DEF StoreInv
  <2>2. Unlinked(k)' <=> Unlinked(k)
    BY DEF RunEffect, Unlinked, Deleting
  <2> QED BY <2>1, <2>2 DEF ImageInv, RunEffect
<1>2. ASSUME NEW d \in Deleters PROVE DelInv(d)'
  BY DEF DelInv, StoreInv, RunEffect
<1>3. ASSUME NEW k \in Images, Excused(k) PROVE Excused(k)'
  BY <1>3, ExcuseKept DEF RunEffect
<1>4. ASSUME NEW s \in Runners PROVE RunInv(s)'
  <2>1. CASE s = r
    BY <2>1
  <2>2. CASE s # r
    <3>1. run'[s] = run[s] /\ RunInv(s)
      BY <2>2 DEF RunEffect, StoreInv
    <3>2. run[s].pc # "idle" => run[s].job[1] \in Images
      BY <3>1, JobParts DEF RunInv
    <3> QED BY <3>1, <3>2, <1>3 DEF RunInv, RunEffect
  <2> QED BY <2>1, <2>2
<1> QED BY <1>1, <1>2, <1>4 DEF StoreInv

-----------------------------------------------------------------------------
(* Types.                                                                  *)

PCs == {"idle", "rejected", "team_check", "checked", "stored", "staged",
        "cleanup", "inserted", "done", "failed", "aborted"}

\* The handler's next await.
LEMMA AtFields ==
  ASSUME TypeOK, NEW i \in Images, NEW pc \in PCs, At(i, pc)
  PROVE  /\ req' \in [Images -> Request]
         /\ req'[i].pc = pc
         /\ \A k \in Images \ {i} : req'[k] = req[k]
<1> DEFINE new == [req[i] EXCEPT !.pc = pc]
<1>1. req \in [Images -> Request] /\ req[i] \in Request
  BY DEF TypeOK
<1>2. new \in Request /\ new.pc = pc
  BY <1>1 DEF Request, PCs
<1>3. req' = [req EXCEPT ![i] = new]
  BY DEF At
<1> HIDE DEF new
<1> QED BY <1>1, <1>2, <1>3

\* A fault is recorded with its image and nowhere else.
LEMMA StrikeFields ==
  ASSUME TypeOK, NEW i \in Images, NEW kind \in FaultKinds, Strike(i, kind)
  PROVE  /\ hit' \in [Images -> SUBSET FaultKinds]
         /\ faults' \in 0..MaxFaults
         /\ hit[i] \subseteq hit'[i] /\ kind \in hit'[i]
         /\ \A k \in Images \ {i} : hit'[k] = hit[k]
         /\ \A k \in Images : hit[k] \subseteq hit'[k]
<1>1. faults' \in 0..MaxFaults
  BY SMT, ImageLifecycleAssumption DEF TypeOK, Strike
<1>2. hit' = [hit EXCEPT ![i] = hit[i] \cup {kind}] /\ hit \in [Images -> SUBSET FaultKinds]
  BY DEF Strike, TypeOK
<1> QED BY <1>1, <1>2

\* The initial state satisfies the invariant.
LEMMA InitInv == Init => IInv
<1> SUFFICES ASSUME Init PROVE IInv
  OBVIOUS
<1>1. TypeOK
  <2>1. 0 \in 0..MaxDeliveries /\ 0 \in 0..MaxFaults /\ 1 \in 1..(NKinds + 1)
    BY SMT, ImageLifecycleAssumption DEF MaxDeliveries
  <2> QED BY <2>1 DEF Init, TypeOK, Request, Queue!Init
<1>2. StoreInv
  BY DEF Init, StoreInv, ImageInv, DelInv, RunInv, JobInv, Queue!Init
<1> QED BY <1>1, <1>2 DEF IInv

\* The parts of TypeOK.
StoreTypes ==
  /\ meta \in [Images -> {"none", "live", "deleted"}]
  /\ blobs \subseteq Images \cup Jobs
  /\ vrows \subseteq Jobs
  /\ audit \subseteq {"upload", "delete"} \X Images
QueueTypes ==
  /\ state \in [Jobs -> {"absent", "open", "done", "dead"}]
  /\ deliveries \in [Jobs -> 0..MaxDeliveries]
DelTypes == del \in [Deleters -> [pc: {"idle", "unlink", "row", "audit"}, image: Images \cup {NoImage}]]
RunTypes == run \in [Runners -> [pc: {"idle", "lookup", "fetch", "put", "insert", "succeeded", "failing"},
                                 job: Jobs \cup {NoWork}]]
HistoryTypes == hit \in [Images -> SUBSET FaultKinds] /\ faults \in 0..MaxFaults

\* TypeOK, by the component a step leaves alone.
LEMMA Types ==
  TypeOK <=> req \in [Images -> Request] /\ StoreTypes /\ QueueTypes /\ DelTypes /\ RunTypes /\ HistoryTypes
BY DEF TypeOK, StoreTypes, QueueTypes, DelTypes, RunTypes, HistoryTypes

-----------------------------------------------------------------------------
(* One step per action of an upload.                                       *)

\* Every step of an upload keeps the types, has the effect of an upload step and
\* keeps what the invariant says of its image.
LEMMA UploadStepInv ==
  ASSUME TypeOK, StoreInv, NEW i \in Images, UploadStep(i) \/ UploadFault(i)
  PROVE  TypeOK' /\ UploadEffect(i) /\ ImageInv(i)'
<1> USE DEF stores, queue, history
<1>0. ImageInv(i) /\ i \notin Jobs
  BY JobParts DEF StoreInv
<1>t. req \in [Images -> Request] /\ StoreTypes /\ QueueTypes /\ DelTypes /\ RunTypes /\ HistoryTypes
  BY Types
<1>u. del' = del => (Unlinked(i)' <=> Unlinked(i))
  BY DEF Unlinked, Deleting
<1>1. CASE CheckTeam(i)
  <2> DEFINE o == req[i].overlaps \cup TeamOverlap(i)
             pc == IF Bytes(i) > Remaining(TeamCap, UsedByTeam(req[i].team)) THEN "rejected" ELSE "checked"
             new == [req[i] EXCEPT !.pc = pc, !.overlaps = o]
  <2>1. pc \in {"rejected", "checked"} /\ o \in SUBSET {"user", "team"} /\ req[i] \in Request
    BY <1>t DEF TeamOverlap, Request
  <2>2. req' = [req EXCEPT ![i] = new]
    BY <1>1 DEF CheckTeam
  <2> HIDE DEF o, pc
  <2>3. new \in Request /\ new.pc = pc
    BY <2>1 DEF Request
  <2> HIDE DEF new
  <2>4. req' \in [Images -> Request] /\ req'[i].pc = pc /\ \A k \in Images \ {i} : req'[k] = req[k]
    BY <2>2, <2>3, <1>t
  <2>5. UNCHANGED <<del, run, meta, blobs, vrows, audit, state, deliveries, hit, faults>>
    BY <1>1 DEF CheckTeam
  <2>6. TypeOK'
    BY <2>4, <2>5, <1>t, Types DEF TypeOK
  <2>7. UploadEffect(i)
    BY <2>4, <2>5 DEF UploadEffect
  <2>8. ImageInv(i)'
    BY <2>1, <2>4, <2>5, <1>0, <1>1, <1>u DEF ImageInv, CheckTeam
  <2> QED BY <2>6, <2>7, <2>8
<1>2. CASE Refuse(i)
  <2>1. req' \in [Images -> Request] /\ req'[i].pc = "rejected" /\ \A k \in Images \ {i} : req'[k] = req[k]
    BY <1>2, AtFields DEF Refuse, PCs
  <2>2. UNCHANGED <<del, run, meta, blobs, vrows, audit, state, deliveries, hit, faults>>
    BY <1>2 DEF Refuse
  <2>4. TypeOK'
    BY <2>1, <2>2, <1>t DEF TypeOK, StoreTypes, QueueTypes, DelTypes, RunTypes, HistoryTypes
  <2>5. UploadEffect(i)
    BY <2>1, <2>2, <1>0, <1>t, <1>2 DEF UploadEffect, ImageInv, StoreTypes, Refuse
  <2>6. ImageInv(i)'
    BY <2>1, <2>2, <1>0, <1>u, <1>t, <1>2 DEF ImageInv, StoreTypes, Refuse
  <2> QED BY <2>4, <2>5, <2>6
<1>3. CASE Put(i)
  <2>1. req' \in [Images -> Request] /\ req'[i].pc = "stored" /\ \A k \in Images \ {i} : req'[k] = req[k]
    BY <1>3, AtFields DEF Put, PCs
  <2>2. blobs' = blobs \cup {i} /\ UNCHANGED <<del, run, meta, vrows, audit, state, deliveries, hit, faults>>
    BY <1>3 DEF Put
  <2>4. TypeOK'
    BY <2>1, <2>2, <1>t DEF TypeOK, StoreTypes, QueueTypes, DelTypes, RunTypes, HistoryTypes
  <2>5. UploadEffect(i)
    BY <2>1, <2>2, <1>0, <1>t, <1>3 DEF UploadEffect, ImageInv, StoreTypes, Put
  <2>6. ImageInv(i)'
    BY <2>1, <2>2, <1>0, <1>u, <1>t, <1>3 DEF ImageInv, StoreTypes, Put
  <2> QED BY <2>4, <2>5, <2>6
<1>4. CASE AuditUpload(i)
  <2>1. req' \in [Images -> Request] /\ req'[i].pc = "staged" /\ \A k \in Images \ {i} : req'[k] = req[k]
    BY <1>4, AtFields DEF AuditUpload, PCs
  <2>2. audit' = audit \cup {<<"upload", i>>} /\ UNCHANGED <<del, run, meta, blobs, vrows, state, deliveries, hit, faults>>
    BY <1>4 DEF AuditUpload
  <2>4. TypeOK'
    BY SMT, <2>1, <2>2, <1>t DEF TypeOK, StoreTypes, QueueTypes, DelTypes, RunTypes, HistoryTypes
  <2>5. UploadEffect(i)
    BY <2>1, <2>2, <1>0, <1>t, <1>4 DEF UploadEffect, ImageInv, StoreTypes, AuditUpload
  <2>6. ImageInv(i)'
    BY <2>1, <2>2, <1>0, <1>u, <1>t, <1>4 DEF ImageInv, StoreTypes, AuditUpload
  <2> QED BY <2>4, <2>5, <2>6
<1>5. CASE InsertRow(i)
  <2>1. req' \in [Images -> Request] /\ req'[i].pc = "inserted" /\ \A k \in Images \ {i} : req'[k] = req[k]
    BY <1>5, AtFields DEF InsertRow, PCs
  <2>2. meta' = [meta EXCEPT ![i] = "live"] /\ UNCHANGED <<del, run, blobs, vrows, audit, state, deliveries, hit, faults>>
    BY <1>5 DEF InsertRow
  <2>4. TypeOK'
    BY <2>1, <2>2, <1>t DEF TypeOK, StoreTypes, QueueTypes, DelTypes, RunTypes, HistoryTypes
  <2>5. UploadEffect(i)
    BY <2>1, <2>2, <1>0, <1>t, <1>5 DEF UploadEffect, ImageInv, StoreTypes, InsertRow
  <2>6. ImageInv(i)'
    BY <2>1, <2>2, <1>0, <1>u, <1>t, <1>5 DEF ImageInv, StoreTypes, InsertRow
  <2> QED BY <2>4, <2>5, <2>6
<1>6. CASE Cleanup(i)
  <2>1. req' \in [Images -> Request] /\ req'[i].pc = "failed" /\ \A k \in Images \ {i} : req'[k] = req[k]
    BY <1>6, AtFields DEF Cleanup, PCs
  <2>2. blobs' = blobs \ {i} /\ UNCHANGED <<del, run, meta, vrows, audit, state, deliveries, hit, faults>>
    BY <1>6 DEF Cleanup
  <2>4. TypeOK'
    BY <2>1, <2>2, <1>t DEF TypeOK, StoreTypes, QueueTypes, DelTypes, RunTypes, HistoryTypes
  <2>5. UploadEffect(i)
    BY <2>1, <2>2, <1>0, <1>t, <1>6 DEF UploadEffect, ImageInv, StoreTypes, Cleanup
  <2>6. ImageInv(i)'
    BY <2>1, <2>2, <1>0, <1>u, <1>t, <1>6 DEF ImageInv, StoreTypes, Cleanup
  <2> QED BY <2>4, <2>5, <2>6
<1>7. CASE Respond(i)
  <2>1. req' \in [Images -> Request] /\ req'[i].pc = "done" /\ \A k \in Images \ {i} : req'[k] = req[k]
    BY <1>7, AtFields DEF Respond, PCs
  <2>2. UNCHANGED <<del, run, meta, blobs, vrows, audit, state, deliveries, hit, faults>>
    BY <1>7 DEF Respond
  <2>4. TypeOK'
    BY <2>1, <2>2, <1>t DEF TypeOK, StoreTypes, QueueTypes, DelTypes, RunTypes, HistoryTypes
  <2>5. UploadEffect(i)
    BY <2>1, <2>2, <1>0, <1>t, <1>7 DEF UploadEffect, ImageInv, StoreTypes, Respond
  <2>6. ImageInv(i)'
    BY <2>1, <2>2, <1>0, <1>u, <1>t, <1>7 DEF ImageInv, StoreTypes, Respond
  <2> QED BY <2>4, <2>5, <2>6
<1>8. CASE PutFails(i)
  <2>1. req' \in [Images -> Request] /\ req'[i].pc = "failed" /\ \A k \in Images \ {i} : req'[k] = req[k]
    BY <1>8, AtFields DEF PutFails, PCs
  <2>2. blobs' \in {blobs, blobs \cup {i}} /\ UNCHANGED <<del, run, meta, vrows, audit, state, deliveries>>
    BY <1>8 DEF PutFails
  <2>3. HistoryTypes' /\ hit[i] \subseteq hit'[i] /\ "put" \in hit'[i] /\ \A k \in Images \ {i} : hit'[k] = hit[k]
    BY <1>8, StrikeFields DEF PutFails, FaultKinds, HistoryTypes
  <2>4. TypeOK'
    BY <2>1, <2>2, <2>3, <1>t DEF TypeOK, StoreTypes, QueueTypes, DelTypes, RunTypes, HistoryTypes
  <2>5. UploadEffect(i)
    BY <2>1, <2>2, <2>3, <1>0, <1>t, <1>8 DEF UploadEffect, ImageInv, StoreTypes, PutFails
  <2>6. ImageInv(i)'
    BY <2>1, <2>2, <2>3, <1>0, <1>u, <1>t, <1>8 DEF ImageInv, StoreTypes, PutFails
  <2> QED BY <2>4, <2>5, <2>6
<1>9. CASE AuditUploadFails(i)
  <2>1. req' \in [Images -> Request] /\ req'[i].pc = "failed" /\ \A k \in Images \ {i} : req'[k] = req[k]
    BY <1>9, AtFields DEF AuditUploadFails, PCs, AfterAuditFailed
  <2>2. UNCHANGED <<del, run, meta, blobs, vrows, audit, state, deliveries>>
    BY <1>9 DEF AuditUploadFails
  <2>3. HistoryTypes' /\ hit[i] \subseteq hit'[i] /\ "audit" \in hit'[i] /\ \A k \in Images \ {i} : hit'[k] = hit[k]
    BY <1>9, StrikeFields DEF AuditUploadFails, FaultKinds, HistoryTypes
  <2>4. TypeOK'
    BY <2>1, <2>2, <2>3, <1>t DEF TypeOK, StoreTypes, QueueTypes, DelTypes, RunTypes, HistoryTypes
  <2>5. UploadEffect(i)
    BY <2>1, <2>2, <2>3, <1>0, <1>t, <1>9 DEF UploadEffect, ImageInv, StoreTypes, AuditUploadFails, AfterAuditFailed
  <2>6. ImageInv(i)'
    BY <2>1, <2>2, <2>3, <1>0, <1>u, <1>t, <1>9 DEF ImageInv, StoreTypes, AuditUploadFails, AfterAuditFailed
  <2> QED BY <2>4, <2>5, <2>6
<1>10. CASE InsertRowFails(i)
  <2>1. req' \in [Images -> Request] /\ req'[i].pc = "cleanup" /\ \A k \in Images \ {i} : req'[k] = req[k]
    BY <1>10, AtFields DEF InsertRowFails, PCs, AfterInsertFailed
  <2>2. meta' \in {meta, [meta EXCEPT ![i] = "live"]} /\ UNCHANGED <<del, run, blobs, vrows, audit, state, deliveries>>
    BY <1>10 DEF InsertRowFails
  <2>3. HistoryTypes' /\ hit[i] \subseteq hit'[i] /\ "insert" \in hit'[i] /\ \A k \in Images \ {i} : hit'[k] = hit[k]
    BY <1>10, StrikeFields DEF InsertRowFails, FaultKinds, HistoryTypes
  <2>4. TypeOK'
    BY <2>1, <2>2, <2>3, <1>t DEF TypeOK, StoreTypes, QueueTypes, DelTypes, RunTypes, HistoryTypes
  <2>5. UploadEffect(i)
    BY <2>1, <2>2, <2>3, <1>0, <1>t, <1>10 DEF UploadEffect, ImageInv, StoreTypes, InsertRowFails, AfterInsertFailed
  <2>6. ImageInv(i)'
    BY <2>1, <2>2, <2>3, <1>0, <1>u, <1>t, <1>10 DEF ImageInv, StoreTypes, InsertRowFails, AfterInsertFailed
  <2> QED BY <2>4, <2>5, <2>6
<1>11. CASE CleanupFails(i)
  <2>1. req' \in [Images -> Request] /\ req'[i].pc = "failed" /\ \A k \in Images \ {i} : req'[k] = req[k]
    BY <1>11, AtFields DEF CleanupFails, PCs
  <2>2. UNCHANGED <<del, run, meta, blobs, vrows, audit, state, deliveries>>
    BY <1>11 DEF CleanupFails
  <2>3. HistoryTypes' /\ hit[i] \subseteq hit'[i] /\ "cleanup" \in hit'[i] /\ \A k \in Images \ {i} : hit'[k] = hit[k]
    BY <1>11, StrikeFields DEF CleanupFails, FaultKinds, HistoryTypes
  <2>4. TypeOK'
    BY <2>1, <2>2, <2>3, <1>t DEF TypeOK, StoreTypes, QueueTypes, DelTypes, RunTypes, HistoryTypes
  <2>5. UploadEffect(i)
    BY <2>1, <2>2, <2>3, <1>0, <1>t, <1>11 DEF UploadEffect, ImageInv, StoreTypes, CleanupFails
  <2>6. ImageInv(i)'
    BY <2>1, <2>2, <2>3, <1>0, <1>u, <1>t, <1>11 DEF ImageInv, StoreTypes, CleanupFails
  <2> QED BY <2>4, <2>5, <2>6
<1>12. CASE DropUpload(i)
  <2>1. req' \in [Images -> Request] /\ req'[i].pc = "aborted" /\ \A k \in Images \ {i} : req'[k] = req[k]
    BY <1>12, AtFields DEF DropUpload, PCs
  <2>2. UNCHANGED <<del, run, meta, blobs, vrows, audit, state, deliveries>>
    BY <1>12 DEF DropUpload
  <2>3. HistoryTypes' /\ hit[i] \subseteq hit'[i] /\ "drop_upload" \in hit'[i] /\ \A k \in Images \ {i} : hit'[k] = hit[k]
    BY <1>12, StrikeFields DEF DropUpload, FaultKinds, HistoryTypes
  <2>4. TypeOK'
    BY <2>1, <2>2, <2>3, <1>t DEF TypeOK, StoreTypes, QueueTypes, DelTypes, RunTypes, HistoryTypes
  <2>5. UploadEffect(i)
    BY <2>1, <2>2, <2>3, <1>0, <1>t, <1>12 DEF UploadEffect, ImageInv, StoreTypes, DropUpload, InFlight
  <2>6. ImageInv(i)'
    BY <2>1, <2>2, <2>3, <1>0, <1>u, <1>t, <1>12 DEF ImageInv, StoreTypes, DropUpload, InFlight
  <2> QED BY <2>4, <2>5, <2>6
<1>13. ASSUME MayEnqueue(i)
       PROVE  LET new == [req[i] EXCEPT !.next = NextKind(req[i].next)] IN
              /\ <<i, req[i].next>> \in Jobs
              /\ new \in Request /\ new.pc = req[i].pc
              /\ req[i].pc = "inserted"
  BY SMT, <1>13, <1>t, ImageLifecycleAssumption DEF MayEnqueue, NextKind, Request, Jobs
<1>14. CASE EnqueueVariant(i)
  <2> DEFINE new == [req[i] EXCEPT !.next = NextKind(req[i].next)]
             j == <<i, req[i].next>>
  <2>1. req' = [req EXCEPT ![i] = new] /\ new \in Request /\ new.pc = "inserted" /\ j \in Jobs
    BY <1>13, <1>14 DEF EnqueueVariant
  <2>2. state' = [state EXCEPT ![j] = "open"]
        /\ UNCHANGED <<deliveries, del, run, meta, blobs, vrows, audit, hit, faults>>
    BY <1>14 DEF EnqueueVariant, Queue!Submit
  <2>3. j[1] = i
    OBVIOUS
  <2> HIDE DEF new, j
  <2>4. TypeOK'
    BY <2>1, <2>2, <1>t DEF TypeOK, StoreTypes, QueueTypes, DelTypes, RunTypes, HistoryTypes
  <2>5. req'[i].pc = "inserted" /\ \A k \in Images \ {i} : req'[k] = req[k]
    BY <2>1, <1>t
  <2>6. req[i].pc = "inserted" /\ meta[i] # "none"
    BY <1>0, <1>13, <1>14 DEF EnqueueVariant, ImageInv
  <2>7. UploadEffect(i)
    BY <2>2, <2>3, <2>5, <2>6, <1>t DEF UploadEffect, QueueTypes
  <2>8. ImageInv(i)'
    BY <2>2, <2>5, <2>6, <1>0, <1>u DEF ImageInv
  <2> QED BY <2>4, <2>7, <2>8
<1>15. CASE EnqueueVariantFails(i)
  <2> DEFINE new == [req[i] EXCEPT !.next = NextKind(req[i].next)]
  <2>1. new \in Request /\ new.pc = "inserted" /\ req[i].pc = "inserted"
    BY <1>13, <1>15 DEF EnqueueVariantFails
  <2>2. req' = [req EXCEPT ![i] = new]
    BY <1>15, <1>t, <2>1 DEF EnqueueVariantFails, AfterEnqueueFailed, Request
  <2> HIDE DEF new
  <2>3. UNCHANGED <<state, deliveries, del, run, meta, blobs, vrows, audit>>
    BY <1>15 DEF EnqueueVariantFails
  <2>4. HistoryTypes' /\ hit[i] \subseteq hit'[i] /\ \A k \in Images \ {i} : hit'[k] = hit[k]
    BY <1>15, StrikeFields DEF EnqueueVariantFails, FaultKinds, HistoryTypes
  <2>5. TypeOK'
    BY <2>1, <2>2, <2>3, <2>4, <1>t DEF TypeOK, StoreTypes, QueueTypes, DelTypes, RunTypes, HistoryTypes
  <2>6. req'[i].pc = "inserted" /\ \A k \in Images \ {i} : req'[k] = req[k]
    BY <2>1, <2>2, <1>t
  <2>7. UploadEffect(i)
    BY <2>3, <2>4, <2>6 DEF UploadEffect
  <2>8. ImageInv(i)'
    BY <2>1, <2>3, <2>4, <2>6, <1>0, <1>u DEF ImageInv
  <2> QED BY <2>5, <2>7, <2>8
<1> QED
  BY <1>1, <1>2, <1>3, <1>4, <1>5, <1>6, <1>7, <1>8, <1>9, <1>10, <1>11, <1>12, <1>14, <1>15
     DEF UploadStep, UploadFault

\* The first step of an upload: quota and overlap are measured, nothing is stored.
LEMMA CheckUserInv ==
  ASSUME TypeOK, StoreInv, NEW i \in Images, NEW u \in Users, NEW t \in Teams \cup {NoTeam},
         NEW n \in Sizes, CheckUser(i, u, t, n)
  PROVE  TypeOK' /\ UploadEffect(i) /\ ImageInv(i)'
<1> DEFINE pc == IF n > Remaining(UserCap, UsedByUser(u)) THEN "rejected"
                 ELSE IF t = NoTeam THEN "checked" ELSE "team_check"
           new == [pc |-> pc, owner |-> u, team |-> t, bytes |-> n, next |-> 1,
                   overlaps |-> UserOverlap(i, u)]
<1>1. req' = [req EXCEPT ![i] = new]
  BY DEF CheckUser
<1>2. pc \in {"rejected", "checked", "team_check"} /\ UserOverlap(i, u) \in SUBSET {"user", "team"}
      /\ 1 \in 1..(NKinds + 1)
  BY SMT, ImageLifecycleAssumption DEF UserOverlap
<1> HIDE DEF pc
<1>3. new \in Request /\ new.pc = pc
  BY <1>2 DEF Request
<1> HIDE DEF new
<1>4. UNCHANGED <<del, run, meta, blobs, vrows, audit, state, deliveries, hit, faults>>
  BY DEF CheckUser, stores, queue, history
<1>5. TypeOK'
  BY <1>1, <1>3, <1>4 DEF TypeOK
<1>6. req'[i].pc = pc /\ \A k \in Images \ {i} : req'[k] = req[k]
  BY <1>1, <1>3 DEF TypeOK
<1>7. UploadEffect(i)
  BY <1>4, <1>6 DEF UploadEffect
<1>8. Unlinked(i)' <=> Unlinked(i)
  BY <1>4 DEF Unlinked, Deleting
<1>9. ImageInv(i) /\ req[i].pc = "idle"
  BY DEF StoreInv, CheckUser
<1>10. ImageInv(i)'
  BY <1>2, <1>4, <1>6, <1>8, <1>9 DEF ImageInv
<1> QED BY <1>5, <1>7, <1>10

-----------------------------------------------------------------------------
(* One step per action of a delete.                                        *)

\* Where the delete handler goes next; another handler is not moved.
LEMMA DeleteAtFields ==
  ASSUME TypeOK, NEW d \in Deleters, NEW pc \in {"unlink", "row", "audit"}, DeleteAt(d, pc)
  PROVE  /\ DelTypes'
         /\ del'[d].pc = pc /\ del'[d].image = del[d].image
         /\ \A e \in Deleters \ {d} : del'[e] = del[e]
<1> DEFINE new == [del[d] EXCEPT !.pc = pc]
<1>1. DelTypes
  BY Types
<1>2. new \in [pc: {"idle", "unlink", "row", "audit"}, image: Images \cup {NoImage}]
      /\ new.pc = pc /\ new.image = del[d].image
  BY <1>1 DEF DelTypes
<1>3. del' = [del EXCEPT ![d] = new]
  BY DEF DeleteAt
<1> HIDE DEF new
<1> QED BY <1>1, <1>2, <1>3 DEF DelTypes

\* A delete handler that answers or is dropped.
LEMMA DeleteEndsFields ==
  ASSUME TypeOK, NEW d \in Deleters, DeleteEnds(d)
  PROVE  /\ DelTypes'
         /\ del'[d].pc = "idle"
         /\ \A e \in Deleters \ {d} : del'[e] = del[e]
<1> DEFINE new == [pc |-> "idle", image |-> NoImage]
<1>1. DelTypes /\ del' = [del EXCEPT ![d] = new]
  BY Types DEF DeleteEnds
<1>2. new \in [pc: {"idle", "unlink", "row", "audit"}, image: Images \cup {NoImage}] /\ new.pc = "idle"
  OBVIOUS
<1> HIDE DEF new
<1> QED BY <1>1, <1>2 DEF DelTypes

\* Another image's row is not waited for by a handler that is on image i before and
\* after its step.
LEMMA OtherImages ==
  ASSUME NEW d \in Deleters, NEW i \in Images, NEW k \in Images \ {i},
         del[d].pc = "idle" \/ del[d].image = i, del'[d].pc = "idle" \/ del'[d].image = i
  PROVE  ~Deleting(d, k, "row") /\ ~Deleting(d, k, "row")'
BY DEF Deleting

\* While handlers other than d do not move, image i keeps its window after the unlink
\* if d does, and its excuse if d leaves a fault or a deleted row behind.
LEMMA WindowKept ==
  ASSUME NEW d \in Deleters, NEW i \in Images,
         \A e \in Deleters \ {d} : del'[e] = del[e]
  PROVE  /\ ~Deleting(d, i, "row") \/ Deleting(d, i, "row")' => (Unlinked(i) => Unlinked(i)')
         /\ Deleting(d, i, "row")' => Unlinked(i)'
BY DEF Unlinked, Deleting

\* A request for the delete of a live image.
LEMMA LoadForDeleteInv ==
  ASSUME TypeOK, StoreInv, NEW d \in Deleters, NEW i \in Images, LoadForDelete(d, i)
  PROVE  TypeOK' /\ DeleteEffect(d, i) /\ ImageInv(i)' /\ DelInv(d)'
<1> DEFINE new == [pc |-> "unlink", image |-> i]
<1>1. DelTypes /\ del' = [del EXCEPT ![d] = new]
  BY Types DEF LoadForDelete
<1>2. new \in [pc: {"idle", "unlink", "row", "audit"}, image: Images \cup {NoImage}]
      /\ new.pc = "unlink" /\ new.image = i
  OBVIOUS
<1> HIDE DEF new
<1>3. DelTypes' /\ del'[d].pc = "unlink" /\ del'[d].image = i /\ \A e \in Deleters \ {d} : del'[e] = del[e]
  BY <1>1, <1>2 DEF DelTypes
<1>4. UNCHANGED <<req, run, meta, blobs, vrows, audit, state, deliveries, hit, faults>>
      /\ del[d].pc = "idle" /\ meta[i] = "live"
  BY DEF LoadForDelete, stores, queue, history
<1>5. TypeOK'
  BY <1>3, <1>4 DEF TypeOK, DelTypes
<1>6. Unlinked(i) => Unlinked(i)'
  BY <1>3, <1>4, WindowKept DEF Deleting
<1>7. \A k \in Images \ {i} : ~Deleting(d, k, "row") /\ ~Deleting(d, k, "row")'
  BY <1>3, <1>4, OtherImages
<1>8. DeleteEffect(d, i)
  BY <1>3, <1>4, <1>6, <1>7 DEF DeleteEffect, Excused
<1>9. ImageInv(i)'
  BY <1>4, <1>6 DEF StoreInv, ImageInv
<1>10. DelInv(d)'
  BY <1>3, <1>4 DEF DelInv
<1> QED BY <1>5, <1>8, <1>9, <1>10

\* Every later step of a delete, faults included.
LEMMA DeleteStepInv ==
  ASSUME TypeOK, StoreInv, NEW d \in Deleters, DeleteStep(d) \/ DeleteFault(d)
  PROVE  \E i \in Images : TypeOK' /\ DeleteEffect(d, i) /\ ImageInv(i)' /\ DelInv(d)'
<1> USE DEF stores, queue, history
<1>0. del[d].pc # "idle" /\ DelInv(d) /\ del[d].image \in Images
  BY DEF StoreInv, DelInv, DeleteStep, DeleteFault, DeleteBlob, DeleteRow, AuditDelete, DeleteBlobFails,
         DeleteRowFails, AuditDeleteFails, DropDelete
<1>t. req \in [Images -> Request] /\ StoreTypes /\ QueueTypes /\ DelTypes /\ RunTypes /\ HistoryTypes
  BY Types
<1>p. PICK i \in Images : del[d].image = i
  BY <1>0
<1>i. ImageInv(i) /\ i \notin Jobs
  BY JobParts DEF StoreInv
<1> SUFFICES TypeOK' /\ DeleteEffect(d, i) /\ ImageInv(i)' /\ DelInv(d)'
  OBVIOUS
<1>1. CASE DeleteBlob(d)
  <2>1. DelTypes' /\ del'[d].pc = "row" /\ del'[d].image = i /\ \A e \in Deleters \ {d} : del'[e] = del[e]
    BY <1>1, <1>p, DeleteAtFields DEF DeleteBlob
  <2>2. del[d].pc = "unlink" /\ blobs' = blobs \ {i} /\ UNCHANGED <<req, run, meta, vrows, audit, state, deliveries, hit, faults>>
    BY <1>1, <1>p DEF DeleteBlob, Unlink
  <2>4. TypeOK'
    BY <2>1, <2>2, <1>0, <1>p, <1>t DEF TypeOK, StoreTypes, QueueTypes, DelTypes, RunTypes, HistoryTypes
  <2>5. \A k \in Images \ {i} : ~Deleting(d, k, "row") /\ ~Deleting(d, k, "row")'
    BY <2>1, <1>0, <1>p, OtherImages
  <2>6. Unlinked(i)'
    BY <2>1, <1>0, <1>p, WindowKept DEF Deleting
  <2>7. DeleteEffect(d, i)
    BY <2>1, <2>2, <2>5, <2>6, <1>0, <1>p, <1>i, <1>t DEF DeleteEffect, Excused, DelInv, StoreTypes, HistoryTypes
  <2>8. ImageInv(i)'
    BY <2>1, <2>2, <2>6, <1>0, <1>p, <1>i, <1>t DEF ImageInv, DelInv, StoreTypes
  <2>9. DelInv(d)'
    BY <2>1, <2>2, <1>0, <1>p, <1>t DEF DelInv, StoreTypes
  <2> QED BY <2>4, <2>7, <2>8, <2>9
<1>2. CASE DeleteRow(d)
  <2>1. DelTypes' /\ del'[d].pc = "audit" /\ del'[d].image = i /\ \A e \in Deleters \ {d} : del'[e] = del[e]
    BY <1>2, <1>p, DeleteAtFields DEF DeleteRow
  <2>2. del[d].pc = "row" /\ meta' = [meta EXCEPT ![i] = "deleted"] /\ UNCHANGED <<req, run, blobs, vrows, audit, state, deliveries, hit, faults>>
    BY <1>2, <1>p DEF DeleteRow
  <2>4. TypeOK'
    BY <2>1, <2>2, <1>0, <1>p, <1>t DEF TypeOK, StoreTypes, QueueTypes, DelTypes, RunTypes, HistoryTypes
  <2>5. \A k \in Images \ {i} : ~Deleting(d, k, "row") /\ ~Deleting(d, k, "row")'
    BY <2>1, <1>0, <1>p, OtherImages
  <2>6. meta'[i] = "deleted"
    BY <2>1, <2>2, <1>0, <1>p, <1>t DEF StoreTypes
  <2>7. DeleteEffect(d, i)
    BY <2>1, <2>2, <2>5, <2>6, <1>0, <1>p, <1>i, <1>t DEF DeleteEffect, Excused, DelInv, StoreTypes, HistoryTypes
  <2>8. ImageInv(i)'
    BY <2>1, <2>2, <2>6, <1>0, <1>p, <1>i, <1>t DEF ImageInv, DelInv, StoreTypes
  <2>9. DelInv(d)'
    BY <2>1, <2>2, <1>0, <1>p, <1>t DEF DelInv, StoreTypes
  <2> QED BY <2>4, <2>7, <2>8, <2>9
<1>3. CASE AuditDelete(d)
  <2>1. DelTypes' /\ del'[d].pc = "idle" /\ \A e \in Deleters \ {d} : del'[e] = del[e]
    BY <1>3, <1>p, DeleteEndsFields DEF AuditDelete
  <2>2. del[d].pc = "audit" /\ audit' = audit \cup {<<"delete", i>>} /\ UNCHANGED <<req, run, meta, blobs, vrows, state, deliveries, hit, faults>>
    BY <1>3, <1>p DEF AuditDelete
  <2>4. TypeOK'
    BY SMT, <2>1, <2>2, <1>0, <1>p, <1>t DEF TypeOK, StoreTypes, QueueTypes, DelTypes, RunTypes, HistoryTypes
  <2>5. \A k \in Images \ {i} : ~Deleting(d, k, "row") /\ ~Deleting(d, k, "row")'
    BY <2>1, <1>0, <1>p, OtherImages
  <2>6. Unlinked(i) => Unlinked(i)'
    BY <2>1, <2>2, <1>0, <1>p, WindowKept DEF Deleting
  <2>7. DeleteEffect(d, i)
    BY <2>1, <2>2, <2>5, <2>6, <1>0, <1>p, <1>i, <1>t DEF DeleteEffect, Excused, DelInv, StoreTypes, HistoryTypes
  <2>8. ImageInv(i)'
    BY <2>1, <2>2, <2>6, <1>0, <1>p, <1>i, <1>t DEF ImageInv, DelInv, StoreTypes
  <2>9. DelInv(d)'
    BY <2>1, <2>2, <1>0, <1>p, <1>t DEF DelInv, StoreTypes
  <2> QED BY <2>4, <2>7, <2>8, <2>9
<1>4. CASE DeleteBlobFails(d)
  <2>1. DelTypes' /\ del'[d].pc = "row" /\ del'[d].image = i /\ \A e \in Deleters \ {d} : del'[e] = del[e]
    BY <1>4, <1>p, DeleteAtFields DEF DeleteBlobFails
  <2>2. del[d].pc = "unlink" /\ UNCHANGED <<req, run, meta, blobs, vrows, audit, state, deliveries>>
    BY <1>4, <1>p DEF DeleteBlobFails
  <2>3. HistoryTypes' /\ hit[i] \subseteq hit'[i] /\ "unlink" \in hit'[i] /\ \A k \in Images \ {i} : hit'[k] = hit[k]
    BY <1>4, <1>0, <1>p, StrikeFields DEF DeleteBlobFails, FaultKinds, HistoryTypes
  <2>4. TypeOK'
    BY <2>1, <2>2, <2>3, <1>0, <1>p, <1>t DEF TypeOK, StoreTypes, QueueTypes, DelTypes, RunTypes, HistoryTypes
  <2>5. \A k \in Images \ {i} : ~Deleting(d, k, "row") /\ ~Deleting(d, k, "row")'
    BY <2>1, <1>0, <1>p, OtherImages
  <2>6. Unlinked(i)'
    BY <2>1, <1>0, <1>p, WindowKept DEF Deleting
  <2>7. DeleteEffect(d, i)
    BY <2>1, <2>2, <2>3, <2>5, <2>6, <1>0, <1>p, <1>i, <1>t DEF DeleteEffect, Excused, DelInv, StoreTypes, HistoryTypes
  <2>8. ImageInv(i)'
    BY <2>1, <2>2, <2>3, <2>6, <1>0, <1>p, <1>i, <1>t DEF ImageInv, DelInv, StoreTypes
  <2>9. DelInv(d)'
    BY <2>1, <2>2, <2>3, <1>0, <1>p, <1>t DEF DelInv, StoreTypes
  <2> QED BY <2>4, <2>7, <2>8, <2>9
<1>5. CASE DeleteRowFails(d)
  <2>1. DelTypes' /\ del'[d].pc = "idle" /\ \A e \in Deleters \ {d} : del'[e] = del[e]
    BY <1>5, <1>p, DeleteEndsFields DEF DeleteRowFails
  <2>2. del[d].pc = "row" /\ meta' \in {meta, [meta EXCEPT ![i] = "deleted"]} /\ UNCHANGED <<req, run, blobs, vrows, audit, state, deliveries>>
    BY <1>5, <1>p DEF DeleteRowFails
  <2>3. HistoryTypes' /\ hit[i] \subseteq hit'[i] /\ "row" \in hit'[i] /\ \A k \in Images \ {i} : hit'[k] = hit[k]
    BY <1>5, <1>0, <1>p, StrikeFields DEF DeleteRowFails, FaultKinds, HistoryTypes
  <2>4. TypeOK'
    BY <2>1, <2>2, <2>3, <1>0, <1>p, <1>t DEF TypeOK, StoreTypes, QueueTypes, DelTypes, RunTypes, HistoryTypes
  <2>5. \A k \in Images \ {i} : ~Deleting(d, k, "row") /\ ~Deleting(d, k, "row")'
    BY <2>1, <1>0, <1>p, OtherImages
  <2>6. hit'[i] # {}
    BY <2>1, <2>2, <2>3, <1>0, <1>p, <1>t DEF StoreTypes
  <2>7. DeleteEffect(d, i)
    BY <2>1, <2>2, <2>3, <2>5, <2>6, <1>0, <1>p, <1>i, <1>t DEF DeleteEffect, Excused, DelInv, StoreTypes, HistoryTypes
  <2>8. ImageInv(i)'
    BY <2>1, <2>2, <2>3, <2>6, <1>0, <1>p, <1>i, <1>t DEF ImageInv, DelInv, StoreTypes
  <2>9. DelInv(d)'
    BY <2>1, <2>2, <2>3, <1>0, <1>p, <1>t DEF DelInv, StoreTypes
  <2> QED BY <2>4, <2>7, <2>8, <2>9
<1>6. CASE AuditDeleteFails(d)
  <2>1. DelTypes' /\ del'[d].pc = "idle" /\ \A e \in Deleters \ {d} : del'[e] = del[e]
    BY <1>6, <1>p, DeleteEndsFields DEF AuditDeleteFails
  <2>2. del[d].pc = "audit" /\ UNCHANGED <<req, run, meta, blobs, vrows, audit, state, deliveries>>
    BY <1>6, <1>p DEF AuditDeleteFails
  <2>3. HistoryTypes' /\ hit[i] \subseteq hit'[i] /\ "delete_audit" \in hit'[i] /\ \A k \in Images \ {i} : hit'[k] = hit[k]
    BY <1>6, <1>0, <1>p, StrikeFields DEF AuditDeleteFails, FaultKinds, HistoryTypes
  <2>4. TypeOK'
    BY <2>1, <2>2, <2>3, <1>0, <1>p, <1>t DEF TypeOK, StoreTypes, QueueTypes, DelTypes, RunTypes, HistoryTypes
  <2>5. \A k \in Images \ {i} : ~Deleting(d, k, "row") /\ ~Deleting(d, k, "row")'
    BY <2>1, <1>0, <1>p, OtherImages
  <2>6. Unlinked(i) => Unlinked(i)'
    BY <2>1, <2>2, <1>0, <1>p, WindowKept DEF Deleting
  <2>7. DeleteEffect(d, i)
    BY <2>1, <2>2, <2>3, <2>5, <2>6, <1>0, <1>p, <1>i, <1>t DEF DeleteEffect, Excused, DelInv, StoreTypes, HistoryTypes
  <2>8. ImageInv(i)'
    BY <2>1, <2>2, <2>3, <2>6, <1>0, <1>p, <1>i, <1>t DEF ImageInv, DelInv, StoreTypes
  <2>9. DelInv(d)'
    BY <2>1, <2>2, <2>3, <1>0, <1>p, <1>t DEF DelInv, StoreTypes
  <2> QED BY <2>4, <2>7, <2>8, <2>9
<1>7. CASE DropDelete(d)
  <2>1. DelTypes' /\ del'[d].pc = "idle" /\ \A e \in Deleters \ {d} : del'[e] = del[e]
    BY <1>7, <1>p, DeleteEndsFields DEF DropDelete
  <2>2. UNCHANGED <<req, run, meta, blobs, vrows, audit, state, deliveries>>
    BY <1>7, <1>p DEF DropDelete
  <2>3. HistoryTypes' /\ hit[i] \subseteq hit'[i] /\ "drop_delete" \in hit'[i] /\ \A k \in Images \ {i} : hit'[k] = hit[k]
    BY <1>7, <1>0, <1>p, StrikeFields DEF DropDelete, FaultKinds, HistoryTypes
  <2>4. TypeOK'
    BY <2>1, <2>2, <2>3, <1>0, <1>p, <1>t DEF TypeOK, StoreTypes, QueueTypes, DelTypes, RunTypes, HistoryTypes
  <2>5. \A k \in Images \ {i} : ~Deleting(d, k, "row") /\ ~Deleting(d, k, "row")'
    BY <2>1, <1>0, <1>p, OtherImages
  <2>6. hit'[i] # {}
    BY <2>1, <2>2, <2>3, <1>0, <1>p, <1>t DEF StoreTypes
  <2>7. DeleteEffect(d, i)
    BY <2>1, <2>2, <2>3, <2>5, <2>6, <1>0, <1>p, <1>i, <1>t DEF DeleteEffect, Excused, DelInv, StoreTypes, HistoryTypes
  <2>8. ImageInv(i)'
    BY <2>1, <2>2, <2>3, <2>6, <1>0, <1>p, <1>i, <1>t DEF ImageInv, DelInv, StoreTypes
  <2>9. DelInv(d)'
    BY <2>1, <2>2, <2>3, <1>0, <1>p, <1>t DEF DelInv, StoreTypes
  <2> QED BY <2>4, <2>7, <2>8, <2>9
<1> QED BY <1>1, <1>2, <1>3, <1>4, <1>5, <1>6, <1>7 DEF DeleteStep, DeleteFault

-----------------------------------------------------------------------------
(* One step per action of a worker slot.                                   *)

\* Where the slot goes next with its job.
LEMMA RunAtFields ==
  ASSUME TypeOK, NEW r \in Runners,
         NEW pc \in {"fetch", "put", "insert", "succeeded", "failing"}, RunAt(r, pc)
  PROVE  /\ RunTypes'
         /\ run'[r].pc = pc /\ run'[r].job = run[r].job
         /\ \A s \in Runners \ {r} : run'[s] = run[s]
<1> DEFINE new == [run[r] EXCEPT !.pc = pc]
<1>1. RunTypes
  BY Types
<1>2. new \in [pc: {"idle", "lookup", "fetch", "put", "insert", "succeeded", "failing"},
               job: Jobs \cup {NoWork}]
      /\ new.pc = pc /\ new.job = run[r].job
  BY <1>1 DEF RunTypes
<1>3. run' = [run EXCEPT ![r] = new]
  BY DEF RunAt
<1> HIDE DEF new
<1> QED BY <1>1, <1>2, <1>3 DEF RunTypes

\* A slot that has reported, or whose process died.
LEMMA RunEndsFields ==
  ASSUME TypeOK, NEW r \in Runners, RunEnds(r)
  PROVE  /\ RunTypes'
         /\ run'[r].pc = "idle"
         /\ \A s \in Runners \ {r} : run'[s] = run[s]
<1> DEFINE new == [pc |-> "idle", job |-> NoWork]
<1>1. RunTypes /\ run' = [run EXCEPT ![r] = new]
  BY Types DEF RunEnds
<1>2. new \in [pc: {"idle", "lookup", "fetch", "put", "insert", "succeeded", "failing"},
               job: Jobs \cup {NoWork}] /\ new.pc = "idle"
  OBVIOUS
<1> HIDE DEF new
<1> QED BY <1>1, <1>2 DEF RunTypes

\* What the invariant says of a job survives a slot's step that does not report.
LEMMA JobsKept ==
  ASSUME TypeOK, StoreInv, NEW r \in Runners, RunEffect(r), NEW j \in Jobs, state'[j] = state[j]
  PROVE  JobInv(j)'
<1>1. JobInv(j) /\ j[1] \in Images
  BY JobParts DEF StoreInv
<1>2. Excused(j[1]) => Excused(j[1])'
  BY <1>1, ExcuseKept DEF RunEffect
<1> QED BY <1>1, <1>2 DEF JobInv, RunEffect

\* A slot is handed a job.
LEMMA TakeInv ==
  ASSUME TypeOK, StoreInv, NEW r \in Runners, NEW j \in Jobs, Take(r, j)
  PROVE  TypeOK' /\ StoreInv'
<1> DEFINE new == [pc |-> "lookup", job |-> j]
<1>t. req \in [Images -> Request] /\ StoreTypes /\ QueueTypes /\ DelTypes /\ RunTypes /\ HistoryTypes
  BY Types
<1>0. j[1] \in Images /\ JobInv(j)
  BY JobParts DEF StoreInv
<1>1. run' = [run EXCEPT ![r] = new] /\ UNCHANGED <<req, del, meta, blobs, vrows, audit, state>>
      /\ state[j] = "open"
  BY DEF Take, stores, Queue!Deliver
<1>2. new \in [pc: {"idle", "lookup", "fetch", "put", "insert", "succeeded", "failing"},
               job: Jobs \cup {NoWork}]
      /\ new.pc = "lookup" /\ new.job = j
  OBVIOUS
<1> HIDE DEF new
<1>3. RunTypes' /\ run'[r].pc = "lookup" /\ run'[r].job = j /\ \A s \in Runners \ {r} : run'[s] = run[s]
  BY <1>1, <1>2, <1>t DEF RunTypes
<1>4. deliveries' \in [Jobs -> 0..MaxDeliveries]
  <2>1. deliveries' = [deliveries EXCEPT ![j] = deliveries[j] + 1] /\ deliveries[j] < MaxDeliveries
    BY DEF Take, Queue!Deliver
  <2>2. deliveries[j] + 1 \in 0..MaxDeliveries
    BY SMT, <2>1, <1>t, ImageLifecycleAssumption DEF QueueTypes, MaxDeliveries
  <2> QED BY <2>1, <2>2, <1>t DEF QueueTypes
<1>5. HistoryTypes' /\ \A k \in Images : hit[k] \subseteq hit'[k]
  <2>1. CASE UNCHANGED history
    BY <2>1, <1>t DEF history, HistoryTypes
  <2>2. CASE Strike(j[1], "overrun")
    BY <2>2, <1>0, StrikeFields DEF FaultKinds, HistoryTypes
  <2> QED BY <2>1, <2>2 DEF Take
<1>6. TypeOK'
  BY <1>1, <1>3, <1>4, <1>5, <1>t DEF TypeOK, StoreTypes, QueueTypes, DelTypes, RunTypes, HistoryTypes
<1>7. RunEffect(r)
  BY <1>1, <1>3, <1>5 DEF RunEffect
<1>8. RunInv(r)'
  BY <1>0, <1>1, <1>3 DEF RunInv, JobInv
<1>9. \A k \in Jobs : JobInv(k)'
  BY <1>1, <1>7, JobsKept
<1>10. vrows' \subseteq blobs'
  BY <1>1 DEF StoreInv
<1> QED BY <1>6, <1>7, <1>8, <1>9, <1>10, RunKeeps

\* Every later step of a slot, faults included.
LEMMA RunStepInv ==
  ASSUME TypeOK, StoreInv, NEW r \in Runners, RunStep(r) \/ RunFault(r)
  PROVE  TypeOK' /\ StoreInv' /\ RunEffect(r)
<1> USE DEF stores, queue, history
<1>t. req \in [Images -> Request] /\ StoreTypes /\ QueueTypes /\ DelTypes /\ RunTypes /\ HistoryTypes
  BY Types
<1>0. run[r].pc # "idle" /\ RunInv(r) /\ run[r].job \in Jobs
  BY DEF StoreInv, RunInv, RunStep, RunFault, Lookup, Fetch, PutVariant, InsertVariant, Report,
         WorkFails, DropWork, Working
<1>p. PICK j \in Jobs : run[r].job = j
  BY <1>0
<1>j. j[1] \in Images /\ j \notin Images /\ ImageInv(j[1]) /\ Job(r) = j /\ vrows \subseteq blobs
  BY <1>p, JobParts DEF StoreInv, Job
<1>k. PICK i \in Images : j[1] = i
  BY <1>j
<1> SUFFICES TypeOK' /\ RunEffect(r) /\ RunInv(r)' /\ (\A k \in Jobs : JobInv(k)') /\ vrows' \subseteq blobs'
  BY RunKeeps
<1>1. CASE Lookup(r)
  <2>0. PICK pc \in {"fetch", "failing"} : pc = (IF meta[i] = "live" THEN "fetch" ELSE "failing") /\ RunAt(r, pc)
    BY <1>1, <1>j, <1>k DEF Lookup
  <2>1. RunTypes' /\ run'[r].pc = pc /\ run'[r].job = j /\ \A s \in Runners \ {r} : run'[s] = run[s]
    BY <2>0, <1>p, RunAtFields
  <2>2. run[r].pc = "lookup" /\ UNCHANGED <<req, del, meta, blobs, vrows, audit, state, deliveries, hit, faults>>
    BY <1>1, <1>j DEF Lookup
  <2>4. TypeOK'
    BY <2>1, <2>2, <1>t DEF TypeOK, StoreTypes, QueueTypes, DelTypes, RunTypes, HistoryTypes
  <2>5. RunEffect(r)
    BY <2>1, <2>2, <1>j DEF RunEffect
  <2>6. pc = "failing" => Excused(i)
    BY <2>0, <2>2, <1>0, <1>p, <1>j, <1>k, <1>t DEF RunInv, Excused, ImageInv, StoreTypes
  <2>e. Excused(i) => Excused(i)'
    BY <2>2, ExcuseKept
  <2>7. RunInv(r)'
    BY <2>1, <2>2, <2>0, <2>6, <2>e, <1>0, <1>p, <1>k DEF RunInv
  <2>8. \A k \in Jobs : JobInv(k)'
    BY <2>2, <2>5, JobsKept
  <2>9. vrows' \subseteq blobs'
    BY <2>2, <1>0, <1>p, <1>j DEF RunInv
  <2> QED BY <2>4, <2>5, <2>7, <2>8, <2>9
<1>2. CASE Fetch(r)
  <2>0. PICK pc \in {"put", "failing"} : pc = (IF i \in blobs THEN "put" ELSE "failing") /\ RunAt(r, pc)
    BY <1>2, <1>j, <1>k DEF Fetch
  <2>1. RunTypes' /\ run'[r].pc = pc /\ run'[r].job = j /\ \A s \in Runners \ {r} : run'[s] = run[s]
    BY <2>0, <1>p, RunAtFields
  <2>2. run[r].pc = "fetch" /\ UNCHANGED <<req, del, meta, blobs, vrows, audit, state, deliveries, hit, faults>>
    BY <1>2, <1>j DEF Fetch
  <2>4. TypeOK'
    BY <2>1, <2>2, <1>t DEF TypeOK, StoreTypes, QueueTypes, DelTypes, RunTypes, HistoryTypes
  <2>5. RunEffect(r)
    BY <2>1, <2>2, <1>j DEF RunEffect
  <2>6. pc = "failing" => Excused(i)
    BY <2>0, <2>2, <1>0, <1>p, <1>j, <1>k, <1>t DEF RunInv, Excused, ImageInv, StoreTypes
  <2>e. Excused(i) => Excused(i)'
    BY <2>2, ExcuseKept
  <2>7. RunInv(r)'
    BY <2>1, <2>2, <2>0, <2>6, <2>e, <1>0, <1>p, <1>k DEF RunInv
  <2>8. \A k \in Jobs : JobInv(k)'
    BY <2>2, <2>5, JobsKept
  <2>9. vrows' \subseteq blobs'
    BY <2>2, <1>0, <1>p, <1>j DEF RunInv
  <2> QED BY <2>4, <2>5, <2>7, <2>8, <2>9
<1>3. CASE PutVariant(r)
  <2>1. RunTypes' /\ run'[r].pc = "insert" /\ run'[r].job = j /\ \A s \in Runners \ {r} : run'[s] = run[s]
    BY <1>3, <1>p, RunAtFields DEF PutVariant
  <2>2. run[r].pc = "put" /\ blobs' = blobs \cup {j} /\ UNCHANGED <<req, del, meta, vrows, audit, state, deliveries, hit, faults>>
    BY <1>3, <1>j DEF PutVariant
  <2>4. TypeOK'
    BY <2>1, <2>2, <1>t DEF TypeOK, StoreTypes, QueueTypes, DelTypes, RunTypes, HistoryTypes
  <2>5. RunEffect(r)
    BY <2>1, <2>2, <1>j DEF RunEffect
  <2>7. RunInv(r)'
    BY <2>1, <2>2, <1>0, <1>p DEF RunInv
  <2>8. \A k \in Jobs : JobInv(k)'
    BY <2>2, <2>5, JobsKept
  <2>9. vrows' \subseteq blobs'
    BY <2>2, <1>0, <1>p, <1>j DEF RunInv
  <2> QED BY <2>4, <2>5, <2>7, <2>8, <2>9
<1>4. CASE InsertVariant(r)
  <2>1. RunTypes' /\ run'[r].pc = "succeeded" /\ run'[r].job = j /\ \A s \in Runners \ {r} : run'[s] = run[s]
    BY <1>4, <1>p, RunAtFields DEF InsertVariant
  <2>2. run[r].pc = "insert" /\ vrows' = vrows \cup {j} /\ UNCHANGED <<req, del, meta, blobs, audit, state, deliveries, hit, faults>>
    BY <1>4, <1>j DEF InsertVariant
  <2>4. TypeOK'
    BY <2>1, <2>2, <1>t DEF TypeOK, StoreTypes, QueueTypes, DelTypes, RunTypes, HistoryTypes
  <2>5. RunEffect(r)
    BY <2>1, <2>2, <1>j DEF RunEffect
  <2>7. RunInv(r)'
    BY <2>1, <2>2, <1>0, <1>p DEF RunInv
  <2>8. \A k \in Jobs : JobInv(k)'
    BY <2>2, <2>5, JobsKept
  <2>9. vrows' \subseteq blobs'
    BY <2>2, <1>0, <1>p, <1>j DEF RunInv
  <2> QED BY <2>4, <2>5, <2>7, <2>8, <2>9
<1>5. CASE WorkFails(r)
  <2>1. RunTypes' /\ run'[r].pc = "failing" /\ run'[r].job = j /\ \A s \in Runners \ {r} : run'[s] = run[s]
    BY <1>5, <1>p, RunAtFields DEF WorkFails, AfterWorkFailed
  <2>2. UNCHANGED <<req, del, meta, blobs, vrows, audit, state, deliveries>>
    BY <1>5, <1>j DEF WorkFails
  <2>3. HistoryTypes' /\ "work" \in hit'[i] /\ \A k \in Images : hit[k] \subseteq hit'[k]
    BY <1>5, <1>j, <1>k, StrikeFields DEF WorkFails, FaultKinds, HistoryTypes
  <2>4. TypeOK'
    BY <2>1, <2>2, <2>3, <1>t DEF TypeOK, StoreTypes, QueueTypes, DelTypes, RunTypes, HistoryTypes
  <2>5. RunEffect(r)
    BY <2>1, <2>2, <2>3, <1>j DEF RunEffect
  <2>6. Excused(i)'
    BY <2>3 DEF Excused
  <2>7. RunInv(r)'
    BY <2>1, <2>2, <2>3, <2>6, <1>0, <1>p, <1>k DEF RunInv
  <2>8. \A k \in Jobs : JobInv(k)'
    BY <2>2, <2>5, JobsKept
  <2>9. vrows' \subseteq blobs'
    BY <2>2, <1>0, <1>p, <1>j DEF RunInv
  <2> QED BY <2>4, <2>5, <2>7, <2>8, <2>9
<1>6. CASE DropWork(r)
  <2>1. RunTypes' /\ run'[r].pc = "idle" /\ \A s \in Runners \ {r} : run'[s] = run[s]
    BY <1>6, RunEndsFields DEF DropWork
  <2>2. UNCHANGED <<req, del, meta, blobs, vrows, audit, state, deliveries>>
    BY <1>6, <1>j DEF DropWork
  <2>3. HistoryTypes' /\ "drop_work" \in hit'[i] /\ \A k \in Images : hit[k] \subseteq hit'[k]
    BY <1>6, <1>j, <1>k, StrikeFields DEF DropWork, FaultKinds, HistoryTypes
  <2>4. TypeOK'
    BY <2>1, <2>2, <2>3, <1>t DEF TypeOK, StoreTypes, QueueTypes, DelTypes, RunTypes, HistoryTypes
  <2>5. RunEffect(r)
    BY <2>1, <2>2, <2>3, <1>j DEF RunEffect
  <2>7. RunInv(r)'
    BY <2>1, <2>2, <2>3, <1>0, <1>p DEF RunInv
  <2>8. \A k \in Jobs : JobInv(k)'
    BY <2>2, <2>5, JobsKept
  <2>9. vrows' \subseteq blobs'
    BY <2>2, <1>0, <1>p, <1>j DEF RunInv
  <2> QED BY <2>4, <2>5, <2>7, <2>8, <2>9
<1>7. CASE Report(r)
  <2>1. RunTypes' /\ run'[r].pc = "idle" /\ \A s \in Runners \ {r} : run'[s] = run[s]
    BY <1>7, RunEndsFields DEF Report
  <2>2. UNCHANGED <<req, del, meta, blobs, vrows, audit, deliveries, hit, faults>>
    BY <1>7 DEF Report, Queue!ReportDone, Queue!ReportFailed
  <2>3. PICK v \in {"done", "dead", "open"} :
          /\ state' = [state EXCEPT ![j] = v]
          /\ v = "done" => run[r].pc = "succeeded"
          /\ v = "dead" => run[r].pc = "failing"
    BY <1>7, <1>j DEF Report, Queue!ReportDone, Queue!ReportFailed
  <2>4. TypeOK'
    BY <2>1, <2>2, <2>3, <1>t DEF TypeOK, StoreTypes, QueueTypes, DelTypes, RunTypes, HistoryTypes
  <2>5. RunEffect(r)
    BY <2>1, <2>2 DEF RunEffect
  <2>6. RunInv(r)'
    BY <2>1 DEF RunInv
  <2>7. JobInv(j)'
    <3>1. state'[j] = v
      BY <2>3, <1>t DEF QueueTypes
    <3>2. v = "dead" => Excused(i)'
      BY <2>2, <2>3, <1>0, <1>p, <1>k, ExcuseKept DEF RunInv
    <3> QED BY <3>1, <3>2, <2>2, <2>3, <1>0, <1>p, <1>k DEF JobInv, RunInv
  <2>8. ASSUME NEW k \in Jobs PROVE JobInv(k)'
    <3>1. CASE k = j
      BY <3>1, <2>7
    <3>2. CASE k # j
      <4>1. state'[k] = state[k]
        BY <3>2, <2>3, <1>t DEF QueueTypes
      <4> QED BY <4>1, <2>5, JobsKept
    <3> QED BY <3>1, <3>2
  <2>9. vrows' \subseteq blobs'
    BY <2>2, <1>j
  <2> QED BY <2>4, <2>5, <2>6, <2>8, <2>9
<1> QED BY <1>1, <1>2, <1>3, <1>4, <1>5, <1>6, <1>7 DEF RunStep, RunFault

-----------------------------------------------------------------------------
(* Theorems.                                                               *)

\* Every step of uploads, deletes and workers, faults included, keeps the invariant.
LEMMA NextInv == IInv /\ [Next]_vars => IInv'
<1> SUFFICES ASSUME TypeOK, StoreInv, [Next]_vars PROVE TypeOK' /\ StoreInv'
  BY DEF IInv
<1>1. ASSUME NEW i \in Images, NEW u \in Users, NEW t \in Teams \cup {NoTeam}, NEW n \in Sizes,
             CheckUser(i, u, t, n)
      PROVE  TypeOK' /\ StoreInv'
  BY <1>1, CheckUserInv, UploadKeeps
<1>2. ASSUME NEW i \in Images, UploadStep(i) \/ UploadFault(i) PROVE TypeOK' /\ StoreInv'
  BY <1>2, UploadStepInv, UploadKeeps
<1>3. ASSUME NEW d \in Deleters, NEW i \in Images, LoadForDelete(d, i) PROVE TypeOK' /\ StoreInv'
  BY <1>3, LoadForDeleteInv, DeleteKeeps
<1>4. ASSUME NEW d \in Deleters, DeleteStep(d) \/ DeleteFault(d) PROVE TypeOK' /\ StoreInv'
  BY <1>4, DeleteStepInv, DeleteKeeps
<1>5. ASSUME NEW r \in Runners, NEW j \in Jobs, Take(r, j) PROVE TypeOK' /\ StoreInv'
  BY <1>5, TakeInv
<1>6. ASSUME NEW r \in Runners, RunStep(r) \/ RunFault(r) PROVE TypeOK' /\ StoreInv'
  BY <1>6, RunStepInv
<1>7. CASE UNCHANGED vars
  <2>1. UNCHANGED <<req, del, run, meta, blobs, vrows, audit, state, deliveries, hit, faults>>
    BY <1>7 DEF vars, handlers, stores, queue, history
  <2>2. TypeOK'
    BY <2>1 DEF TypeOK
  <2>4. \A i \in Images : ImageInv(i)'
    <3> SUFFICES ASSUME NEW i \in Images PROVE ImageInv(i)'
      OBVIOUS
    <3>1. Unlinked(i)' <=> Unlinked(i)
      BY <2>1 DEF Unlinked, Deleting
    <3>2. ImageInv(i)' <=> ImageInv(i)
      BY <2>1, <3>1 DEF ImageInv
    <3> QED BY <3>2 DEF StoreInv
  <2>5. \A d \in Deleters : DelInv(d)'
    BY <2>1 DEF StoreInv, DelInv
  <2>6. \A r \in Runners : RunInv(r)'
    BY <2>1 DEF StoreInv, RunInv, Excused, Unlinked, Deleting
  <2>7. \A j \in Jobs : JobInv(j)'
    BY <2>1 DEF StoreInv, JobInv, Excused, Unlinked, Deleting
  <2> QED BY <2>1, <2>2, <2>4, <2>5, <2>6, <2>7 DEF StoreInv
<1> QED BY <1>1, <1>2, <1>3, <1>4, <1>5, <1>6, <1>7 DEF Next

\* The invariant holds in every reachable state.
THEOREM Invariance == Spec => []IInv
BY InitInv, NextInv, PTL DEF Spec

\* Variables keep their types through every handler step and fault.
THEOREM TypeCorrect == Spec => []TypeOK
<1>1. IInv => TypeOK
  BY DEF IInv
<1> QED BY <1>1, Invariance, PTL

\* A variant job is dead-lettered only after a fault or beside a delete (upload.rs,
\* R-04: jobs go out after the row).
THEOREM ValidUploadsAreProcessed == Spec => []ValidUploadNotDeadLettered
<1>1. IInv => ValidUploadNotDeadLettered
  BY DEF IInv, StoreInv, JobInv, Excused, Unlinked, ValidUploadNotDeadLettered
<1> QED BY <1>1, Invariance, PTL

\* A job reported done has its row and its bytes (processor.rs: no "success that
\* isn't").
THEOREM DoneMeansStored == Spec => []DoneHasVariant
<1>1. IInv => DoneHasVariant
  BY DEF IInv, StoreInv, JobInv, DoneHasVariant
<1> QED BY <1>1, Invariance, PTL

\* A row that can be read has its original, outside the windows LiveHasBlob names.
THEOREM LiveRowsHaveBytes == Spec => []LiveHasBlob
<1>1. IInv => LiveHasBlob
  BY DEF IInv, StoreInv, ImageInv, Unlinked, LiveHasBlob
<1> QED BY <1>1, Invariance, PTL

\* A failed insert alone leaves no orphan in storage (images.rs, R-19).
THEOREM FailedInsertIsCleanedUp == Spec => []InsertFailureLeavesNoOrphan
<1>1. IInv => InsertFailureLeavesNoOrphan
  BY DEF IInv, StoreInv, ImageInv, InsertFailureLeavesNoOrphan
<1> QED BY <1>1, Invariance, PTL

\* A soft-deleted image has no original left unless unlinking it failed (delete.rs).
THEOREM DeletedMeansUnlinked == Spec => []DeletedIsUnlinked
<1>1. IInv => DeletedIsUnlinked
  BY DEF IInv, StoreInv, ImageInv, DeletedIsUnlinked
<1> QED BY <1>1, Invariance, PTL

\* The audit log has an upload event for every row and no delete event for a row
\* that is there.
THEOREM AuditIsHonest == Spec => []AuditHonest
<1>1. IInv => AuditHonest
  BY DEF IInv, StoreInv, ImageInv, AuditHonest
<1> QED BY <1>1, Invariance, PTL

\* No step of an upload, a delete or a worker brings a deleted image or its
\* original back.
THEOREM DeletionIsFinal == Spec => DeletedIsFinal
<1>1. IInv /\ [Next]_vars =>
        [\A i \in Images :
           meta[i] = "deleted" =>
             meta'[i] = "deleted" /\ (i \in blobs' => i \in blobs)]_vars
  <2> DEFINE A == \A k \in Images : meta[k] = "deleted" => meta'[k] = "deleted" /\ (k \in blobs' => k \in blobs)
  <2> SUFFICES ASSUME TypeOK, StoreInv, Next PROVE A
    BY DEF IInv
  <2>1. ASSUME NEW i \in Images, UploadEffect(i) PROVE A
    BY <2>1 DEF UploadEffect
  <2>2. ASSUME NEW d \in Deleters, NEW i \in Images, DeleteEffect(d, i) PROVE A
    BY <2>2 DEF DeleteEffect
  <2>3. ASSUME NEW r \in Runners, RunEffect(r) PROVE A
    BY <2>3 DEF RunEffect
  <2>4. ASSUME NEW i \in Images, NEW u \in Users, NEW t \in Teams \cup {NoTeam}, NEW n \in Sizes,
               CheckUser(i, u, t, n)
        PROVE  A
    BY <2>4, <2>1, CheckUserInv
  <2>5. ASSUME NEW i \in Images, UploadStep(i) \/ UploadFault(i) PROVE A
    BY <2>5, <2>1, UploadStepInv
  <2>6. ASSUME NEW d \in Deleters, NEW i \in Images, LoadForDelete(d, i) PROVE A
    BY <2>6, <2>2, LoadForDeleteInv
  <2>7. ASSUME NEW d \in Deleters, DeleteStep(d) \/ DeleteFault(d) PROVE A
    BY <2>7, <2>2, DeleteStepInv
  <2>8. ASSUME NEW r \in Runners, NEW j \in Jobs, Take(r, j) PROVE A
    BY <2>8 DEF Take, stores
  <2>9. ASSUME NEW r \in Runners, RunStep(r) \/ RunFault(r) PROVE A
    BY <2>9, <2>3, RunStepInv
  <2> QED BY <2>4, <2>5, <2>6, <2>7, <2>8, <2>9 DEF Next
<1> QED BY <1>1, Invariance, PTL DEF Spec, DeletedIsFinal
-----------------------------------------------------------------------------
(* Sums over finite sets.  Induction over data is done with sets: the      *)
(* subsets for which a fact holds form a set G, and a subset outside G     *)
(* that is minimal among those is a contradiction.                         *)

\* Induction over the subsets of a finite set: G holds all of them when it holds
\* each one whose proper subsets it holds.
LEMMA SubsetInduction ==
  ASSUME NEW S, IsFiniteSet(S), NEW G,
         \A X \in SUBSET S : (\A Y \in SUBSET X : Y # X => Y \in G) => X \in G
  PROVE  \A X \in SUBSET S : X \in G
<1>1. IsWellFoundedOn(StrictSubsetOrdering(S), SUBSET S)
  BY FS_StrictSubsetOrderingWellFounded, FS_FiniteSubsetsOfFinite
<1> SUFFICES ASSUME NEW Z \in SUBSET S, Z \notin G PROVE FALSE
  OBVIOUS
<1>2. PICK T : T = (SUBSET S) \ G
  OBVIOUS
<1>3. T \subseteq SUBSET S /\ T # {}
  BY <1>2
<1>4. PICK X \in T : \A Y \in T : ~(<<Y, X>> \in StrictSubsetOrdering(S))
  BY SMT, <1>1, <1>3, WFMin
<1>5. \A Y \in SUBSET X : Y # X => Y \in G
  BY <1>2, <1>4 DEF StrictSubsetOrdering
<1> QED
  BY <1>2, <1>5

\* What the quota query sums up (SUM(bytes) in quota.rs), and the recursion behind it:
\* take any member, add the rest.
Total(r, S) == MapThenSumSet(LAMBDA i : r[i].bytes, S)
Pick(s) == CHOOSE x \in s : TRUE
Less(s) == s \ {Pick(s)}
Adds(g, r, S) ==
  g = [s \in SUBSET S |-> IF s = {} THEN 0 ELSE r[Pick(s)].bytes + g[Less(s)]]

\* The sum is a value of a function that satisfies the recursion.
LEMMA TotalIs ==
  ASSUME NEW r, NEW S
  PROVE  Total(r, S) = (CHOOSE g : Adds(g, r, S))[S]
BY DEF Total, MapThenSumSet, MapThenFoldSet, Adds, Pick, Less

\* A member taken from a non-empty set leaves a smaller set.
LEMMA Picks == \A s : s # {} => Pick(s) \in s /\ Less(s) \subseteq s /\ Less(s) # s
<1>1. \A s : s # {} => Pick(s) \in s
  BY DEF Pick
<1> QED
  BY <1>1 DEF Less

\* The recursion, read at one set.
LEMMA AddsAt ==
  \A g, r, S : Adds(g, r, S) =>
     \A s : s \subseteq S =>
        /\ s = {} => g[s] = 0
        /\ s # {} => g[s] = r[Pick(s)].bytes + g[Less(s)]
BY SMT DEF Adds

Agree(g, h, S, U) == \A s \in SUBSET S : s \subseteq U => g[s] = h[s]

\* Two ways of adding up agree on the sets both know.
LEMMA AddsOnce ==
  ASSUME NEW r, NEW S, IsFiniteSet(S), NEW U,
         NEW g, NEW h, Adds(g, r, S), Adds(h, r, U)
  PROVE  Agree(g, h, S, U)
<1>1. PICK G : G = {s \in SUBSET S : s \subseteq U => g[s] = h[s]}
  OBVIOUS
<1>2. ASSUME NEW X \in SUBSET S, \A Y \in SUBSET X : Y # X => Y \in G
      PROVE  X \in G
  <2> SUFFICES ASSUME X \subseteq U PROVE g[X] = h[X]
    BY <1>1
  <2>1. CASE X = {}
    BY <2>1, AddsAt
  <2>2. CASE X # {}
    <3>1. Less(X) \in SUBSET X /\ Less(X) # X /\ Less(X) \subseteq U
      BY <2>2, Picks
    <3>2. g[Less(X)] = h[Less(X)]
      BY <1>1, <1>2, <3>1
    <3> QED
      BY SMT, <2>2, <3>2, AddsAt
  <2> QED
    BY <2>1, <2>2
<1>3. \A s \in SUBSET S : s \in G
  BY <1>2, SubsetInduction
<1> QED
  BY <1>1, <1>3 DEF Agree

\* The recursive definition of the sum has a solution on every finite set.
LEMMA AddsExists ==
  ASSUME NEW r, NEW S, IsFiniteSet(S)
  PROVE  \E g : Adds(g, r, S)
<1>1. PICK G : G = {s \in SUBSET S : \E g : Adds(g, r, s)}
  OBVIOUS
<1>2. ASSUME NEW X \in SUBSET S, \A Y \in SUBSET X : Y # X => Y \in G
      PROVE  X \in G
  <2>1. \A Y \in SUBSET X : Y # X => Adds(CHOOSE g : Adds(g, r, Y), r, Y)
    BY <1>1, <1>2
  <2>2. PICK F : F = [Y \in SUBSET X |-> CHOOSE g : Adds(g, r, Y)]
    OBVIOUS
  <2>3. \A Y \in SUBSET X : Y # X => Adds(F[Y], r, Y)
    BY <2>1, <2>2
  <2>4. PICK g0 : g0 = [x \in SUBSET X |->
               IF x = {} THEN 0 ELSE r[Pick(x)].bytes + F[Less(x)][Less(x)]]
    OBVIOUS
  <2>5. ASSUME NEW y \in SUBSET X, y # X
        PROVE  F[y][y] = g0[y]
    <3>1. Adds(F[y], r, y)
      BY <2>3, <2>5
    <3>2. CASE y = {}
      <4>1. F[y][y] = 0
        BY <3>1, <3>2, AddsAt
      <4> QED
        BY <4>1, <2>4, <3>2
    <3>3. CASE y # {}
      <4>1. Less(y) \in SUBSET X /\ Less(y) # X /\ Less(y) \subseteq y
        BY <3>3, Picks
      <4>2. Adds(F[Less(y)], r, Less(y))
        BY <2>3, <4>1
      <4>3. IsFiniteSet(Less(y)) /\ IsFiniteSet(y)
        BY <4>1, FS_Subset
      <4>4. F[Less(y)][Less(y)] = F[y][Less(y)]
        <5>1. Less(y) \in SUBSET Less(y) /\ Less(y) \subseteq y
          BY <4>1
        <5>2. Agree(F[Less(y)], F[y], Less(y), y)
          BY <3>1, <4>2, <4>3, AddsOnce
        <5> QED
          BY <5>1, <5>2 DEF Agree
      <4>5. F[y][y] = r[Pick(y)].bytes + F[y][Less(y)]
        BY SMT, <3>1, <3>3, AddsAt
      <4>6. g0[y] = r[Pick(y)].bytes + F[Less(y)][Less(y)]
        BY <2>4, <3>3
      <4> QED
        BY <4>4, <4>5, <4>6
    <3> QED
      BY <3>2, <3>3
  <2>6. \A x \in SUBSET X : x # {} => F[Less(x)][Less(x)] = g0[Less(x)]
    <3> SUFFICES ASSUME NEW x \in SUBSET X, x # {}
                 PROVE  F[Less(x)][Less(x)] = g0[Less(x)]
      OBVIOUS
    <3>1. Less(x) \in SUBSET X /\ Less(x) # X
      BY Picks
    <3> QED
      BY <2>5, <3>1
  <2>7. Adds(g0, r, X)
    BY <2>4, <2>6 DEF Adds
  <2> QED
    BY <1>1, <2>7
<1>3. \A s \in SUBSET S : s \in G
  BY <1>2, SubsetInduction
<1> QED
  BY <1>1, <1>3

\* The sum over a set, one element at a time.
LEMMA TotalStep ==
  ASSUME NEW r, NEW S, IsFiniteSet(S)
  PROVE  /\ S = {} => Total(r, S) = 0
         /\ S # {} => Total(r, S) = r[Pick(S)].bytes + Total(r, Less(S))
<1>1. PICK g : Adds(g, r, S) /\ Total(r, S) = g[S]
  BY AddsExists, TotalIs
<1>2. CASE S = {}
  BY <1>1, <1>2, AddsAt
<1>3. CASE S # {}
  <2>1. Less(S) \subseteq S /\ IsFiniteSet(Less(S))
    BY <1>3, Picks, FS_Subset
  <2>2. PICK h : Adds(h, r, Less(S)) /\ Total(r, Less(S)) = h[Less(S)]
    BY <2>1, AddsExists, TotalIs
  <2>3. h[Less(S)] = g[Less(S)]
    <3>1. Less(S) \in SUBSET Less(S)
      OBVIOUS
    <3>2. Agree(h, g, Less(S), S)
      BY <1>1, <2>1, <2>2, AddsOnce
    <3> QED
      BY <2>1, <3>1, <3>2 DEF Agree
  <2>4. g[S] = r[Pick(S)].bytes + g[Less(S)]
    BY <1>1, <1>3, AddsAt
  <2> QED
    BY <1>1, <1>3, <2>2, <2>3, <2>4
<1> QED
  BY <1>2, <1>3

\* A sum of natural numbers is one.
LEMMA TotalNat ==
  ASSUME NEW r, NEW S, IsFiniteSet(S), \A i \in S : r[i].bytes \in Nat
  PROVE  \A s \in SUBSET S : Total(r, s) \in Nat
<1>1. PICK G : G = {s \in SUBSET S : Total(r, s) \in Nat}
  OBVIOUS
<1>2. ASSUME NEW X \in SUBSET S, \A Y \in SUBSET X : Y # X => Y \in G
      PROVE  X \in G
  <2>1. IsFiniteSet(X)
    BY FS_Subset
  <2>2. CASE X = {}
    <3>1. Total(r, X) = 0
      BY <2>1, <2>2, TotalStep
    <3> QED
      BY SMT, <1>1, <3>1
  <2>3. CASE X # {}
    <3>1. Pick(X) \in S /\ Less(X) \in SUBSET X /\ Less(X) # X
      BY <2>3, Picks
    <3>2. Total(r, X) = r[Pick(X)].bytes + Total(r, Less(X))
      BY <2>1, <2>3, TotalStep
    <3>3. Total(r, Less(X)) \in Nat
      BY <1>1, <1>2, <3>1
    <3> QED
      BY SMT, <1>1, <3>1, <3>2, <3>3
  <2> QED
    BY <2>2, <2>3
<1>3. \A s \in SUBSET S : s \in G
  BY <1>2, SubsetInduction
<1> QED
  BY <1>1, <1>3

\* The sum looks only at the bytes of the members.
LEMMA TotalSame ==
  ASSUME NEW r, NEW q, NEW S, IsFiniteSet(S), \A i \in S : r[i].bytes = q[i].bytes
  PROVE  Total(r, S) = Total(q, S)
<1>1. PICK G : G = {s \in SUBSET S : Total(r, s) = Total(q, s)}
  OBVIOUS
<1>2. ASSUME NEW X \in SUBSET S, \A Y \in SUBSET X : Y # X => Y \in G
      PROVE  X \in G
  <2>1. IsFiniteSet(X)
    BY FS_Subset
  <2>2. CASE X = {}
    BY <1>1, <2>1, <2>2, TotalStep
  <2>3. CASE X # {}
    <3>1. Pick(X) \in S /\ Less(X) \in SUBSET X /\ Less(X) # X
      BY <2>3, Picks
    <3>2. Total(r, Less(X)) = Total(q, Less(X)) /\ r[Pick(X)].bytes = q[Pick(X)].bytes
      BY <1>1, <1>2, <3>1
    <3>3. /\ Total(r, X) = r[Pick(X)].bytes + Total(r, Less(X))
          /\ Total(q, X) = q[Pick(X)].bytes + Total(q, Less(X))
      BY <2>1, <2>3, TotalStep
    <3> QED
      BY <1>1, <3>2, <3>3
  <2> QED
    BY <2>2, <2>3
<1>3. \A s \in SUBSET S : s \in G
  BY <1>2, SubsetInduction
<1> QED
  BY <1>1, <1>3

\* Any member may be counted last.
LEMMA TotalWithout ==
  ASSUME NEW r, NEW S, IsFiniteSet(S), \A i \in S : r[i].bytes \in Nat
  PROVE  \A s \in SUBSET S : \A x \in s : Total(r, s) = Total(r, s \ {x}) + r[x].bytes
<1>1. PICK G : G = {s \in SUBSET S :
                     \A x \in s : Total(r, s) = Total(r, s \ {x}) + r[x].bytes}
  OBVIOUS
<1>2. ASSUME NEW X \in SUBSET S, \A Y \in SUBSET X : Y # X => Y \in G
      PROVE  X \in G
  <2> SUFFICES ASSUME NEW x \in X
               PROVE  Total(r, X) = Total(r, X \ {x}) + r[x].bytes
    BY <1>1
  <2>1. IsFiniteSet(X) /\ IsFiniteSet(X \ {x})
    BY FS_Subset
  <2>2. Pick(X) \in X /\ Less(X) \in SUBSET X /\ Less(X) # X /\ Less(X) = X \ {Pick(X)}
    BY Picks DEF Less
  <2>3. Total(r, X) = r[Pick(X)].bytes + Total(r, Less(X))
    BY <2>1, <2>2, TotalStep
  <2>4. /\ Total(r, Less(X)) \in Nat /\ Total(r, X \ {x}) \in Nat
        /\ Total(r, Less(X) \ {x}) \in Nat
        /\ r[x].bytes \in Nat /\ r[Pick(X)].bytes \in Nat
    <3>1. Less(X) \in SUBSET S /\ X \ {x} \in SUBSET S /\ Less(X) \ {x} \in SUBSET S
      BY <2>2
    <3> QED
      BY <2>2, <3>1, TotalNat
  <2>5. CASE x = Pick(X)
    BY SMT, <2>2, <2>3, <2>4, <2>5
  <2>6. CASE x # Pick(X)
    <3>1. Less(X) \in G /\ x \in Less(X)
      BY <1>2, <2>2, <2>6
    <3>2. Total(r, Less(X)) = Total(r, Less(X) \ {x}) + r[x].bytes
      BY <1>1, <3>1
    <3>3. X \ {x} \in G /\ Pick(X) \in X \ {x}
      <4>1. X \ {x} \in SUBSET X /\ X \ {x} # X
        OBVIOUS
      <4> QED
        BY <1>2, <2>2, <2>6, <4>1
    <3>4. Total(r, X \ {x}) = Total(r, (X \ {x}) \ {Pick(X)}) + r[Pick(X)].bytes
      BY <1>1, <3>3
    <3>5. (X \ {x}) \ {Pick(X)} = Less(X) \ {x}
      BY <2>2
    <3>6. Total(r, X \ {x}) = Total(r, Less(X) \ {x}) + r[Pick(X)].bytes
      BY <3>4, <3>5
    <3> QED
      BY SMT, <2>3, <2>4, <3>2, <3>6
  <2> QED
    BY <2>5, <2>6
<1>3. \A s \in SUBSET S : s \in G
  BY <1>2, SubsetInduction
<1> QED
  BY <1>1, <1>3

\* More members never make the sum smaller.
LEMMA TotalGrows ==
  ASSUME NEW r, NEW S, IsFiniteSet(S), \A i \in S : r[i].bytes \in Nat
  PROVE  \A s \in SUBSET S : \A v \in SUBSET s : Total(r, v) <= Total(r, s)
<1>1. PICK G : G = {s \in SUBSET S : \A v \in SUBSET s : Total(r, v) <= Total(r, s)}
  OBVIOUS
<1>2. ASSUME NEW X \in SUBSET S, \A Y \in SUBSET X : Y # X => Y \in G
      PROVE  X \in G
  <2> SUFFICES ASSUME NEW v \in SUBSET X
               PROVE  Total(r, v) <= Total(r, X)
    BY <1>1
  <2>1. Total(r, v) \in Nat /\ Total(r, X) \in Nat
    <3>1. v \in SUBSET S
      OBVIOUS
    <3> QED
      BY <3>1, TotalNat
  <2>2. CASE v = X
    BY SMT, <2>1, <2>2
  <2>3. CASE v # X
    <3>1. PICK x \in X : x \notin v
      BY <2>3
    <3>2. X \ {x} \in G /\ v \in SUBSET (X \ {x})
      BY <1>2, <3>1
    <3>3. Total(r, v) <= Total(r, X \ {x})
      BY <1>1, <3>2
    <3>4. Total(r, X) = Total(r, X \ {x}) + r[x].bytes
      BY TotalWithout
    <3>5. Total(r, X \ {x}) \in Nat /\ r[x].bytes \in Nat
      <4>1. X \ {x} \in SUBSET S
        OBVIOUS
      <4> QED
        BY <4>1, TotalNat
    <3> QED
      BY SMT, <2>1, <3>3, <3>4, <3>5
  <2> QED
    BY <2>2, <2>3
<1>3. \A s \in SUBSET S : s \in G
  BY <1>2, SubsetInduction
<1> QED
  BY <1>1, <1>3

-----------------------------------------------------------------------------
(* Quotas: the invariant behind SerialUploadsFitQuota.                     *)

\* The serial uploads of a party: those whose rows are live (L) fit its cap, and
\* so they do together with the one measured and still without a row (M).
Fits(r, L, M, cap) ==
  /\ Total(r, L) <= cap
  /\ \A i \in M : Total(r, L) + r[i].bytes <= cap /\ \A k \in M : k = i

UserLive(u) == {i \in Live : req[i].owner = u /\ "user" \notin req[i].overlaps}
UserOpen(u) ==
  {i \in Images : InFlight(i) /\ req[i].owner = u /\ "user" \notin req[i].overlaps}
TeamLive(t) == {i \in Live : req[i].team = t /\ "team" \notin req[i].overlaps}
TeamOpen(t) ==
  {i \in Images : TeamChecked(i) /\ req[i].team = t /\ "team" \notin req[i].overlaps}

QuotaInv ==
  /\ \A u \in Users : Fits(req, UserLive(u), UserOpen(u), UserCap)
  /\ \A t \in Teams : Fits(req, TeamLive(t), TeamOpen(t), TeamCap)

\* Sizes of the handlers' payloads.
Sized(r) == \A i \in Images : r[i].bytes \in Nat

\* Uploads that leave, by deletion or by giving up, keep the rest fitting.
LEMMA FitsFewer ==
  ASSUME NEW r, NEW q, Sized(r), Sized(q), NEW cap \in Nat,
         NEW L \in SUBSET Images, NEW M \in SUBSET Images,
         NEW K \in SUBSET L, NEW N \in SUBSET M,
         \A i \in K \cup N : q[i].bytes = r[i].bytes,
         Fits(r, L, M, cap)
  PROVE  Fits(q, K, N, cap)
<1>1. IsFiniteSet(K) /\ IsFiniteSet(L) /\ K \in SUBSET Images
  BY ImageLifecycleAssumption, FS_Subset
<1>2. Total(q, K) = Total(r, K)
  <2>1. \A i \in K : q[i].bytes = r[i].bytes
    OBVIOUS
  <2> QED BY <1>1, <2>1, TotalSame
<1>3. Total(r, K) <= Total(r, L)
  <2>1. \A i \in L : r[i].bytes \in Nat
    BY DEF Sized
  <2>2. L \in SUBSET L
    OBVIOUS
  <2> QED BY <1>1, <2>1, <2>2, TotalGrows
<1>4. Total(r, K) \in Nat /\ Total(r, L) \in Nat
  BY <1>1, ImageLifecycleAssumption, TotalNat DEF Sized
<1>5. Total(r, L) <= cap
  BY DEF Fits
<1>6. Total(q, K) <= cap
  BY SMT, <1>2, <1>3, <1>4, <1>5
<1>7. ASSUME NEW i \in N
      PROVE  Total(q, K) + q[i].bytes <= cap /\ \A k \in N : k = i
  <2>1. i \in M /\ i \in Images /\ q[i].bytes = r[i].bytes /\ r[i].bytes \in Nat
    BY DEF Sized
  <2>2. Total(r, L) + r[i].bytes <= cap /\ \A k \in M : k = i
    BY <2>1 DEF Fits
  <2>3. Total(q, K) + q[i].bytes <= cap
    BY SMT, <2>1, <2>2, <1>2, <1>3, <1>4
  <2> QED BY <2>2, <2>3
<1> QED BY <1>6, <1>7 DEF Fits

\* The measured upload gets its row, or may have got it.
LEMMA FitsInserted ==
  ASSUME NEW r, NEW q, Sized(r), Sized(q), NEW cap \in Nat,
         NEW L \in SUBSET Images, NEW M \in SUBSET Images, NEW i \in M, i \notin L,
         NEW N \in SUBSET M, i \notin N,
         \A k \in L \cup {i} : q[k].bytes = r[k].bytes,
         Fits(r, L, M, cap)
  PROVE  Fits(q, L \cup {i}, N, cap)
<1>1. N = {}
  BY DEF Fits
<1>2. IsFiniteSet(L \cup {i}) /\ L \cup {i} \in SUBSET Images
  BY ImageLifecycleAssumption, FS_Subset
<1>3. Total(q, L \cup {i}) = Total(r, L \cup {i})
  BY <1>2, TotalSame
<1>4. Total(r, L \cup {i}) = Total(r, (L \cup {i}) \ {i}) + r[i].bytes
  <2>1. \A k \in L \cup {i} : r[k].bytes \in Nat
    BY <1>2 DEF Sized
  <2>2. L \cup {i} \in SUBSET (L \cup {i}) /\ i \in L \cup {i}
    OBVIOUS
  <2> QED BY <1>2, <2>1, <2>2, TotalWithout
<1>5. (L \cup {i}) \ {i} = L
  OBVIOUS
<1>6. Total(r, L) + r[i].bytes <= cap
  BY DEF Fits
<1>7. Total(q, L \cup {i}) <= cap
  BY <1>3, <1>4, <1>5, <1>6
<1> QED BY <1>1, <1>7 DEF Fits

\* A size within what remains, measured over a set A that holds every serial live
\* row, while no other serial upload is measured.
LEMMA FitsMeasured ==
  ASSUME NEW r, NEW q, Sized(r), Sized(q), NEW cap \in Nat, NEW A \in SUBSET Images,
         NEW K \in SUBSET A, NEW L \in SUBSET Images, NEW M, K \subseteq L, Fits(r, L, M, cap),
         NEW i \in Images, NEW N \in SUBSET {i},
         \A k \in K : q[k].bytes = r[k].bytes,
         N # {} => q[i].bytes <= Remaining(cap, Total(r, A))
  PROVE  Fits(q, K, N, cap)
<1>1. IsFiniteSet(A) /\ IsFiniteSet(K) /\ IsFiniteSet(L) /\ K \in SUBSET Images
  BY ImageLifecycleAssumption, FS_Subset
<1>2. Total(q, K) = Total(r, K)
  BY <1>1, TotalSame
<1>3. Total(r, K) <= Total(r, A) /\ Total(r, K) <= Total(r, L)
  <2>1. (\A k \in A : r[k].bytes \in Nat) /\ (\A k \in L : r[k].bytes \in Nat)
    BY DEF Sized
  <2>2. A \in SUBSET A /\ L \in SUBSET L /\ K \in SUBSET L
    OBVIOUS
  <2> QED BY <1>1, <2>1, <2>2, TotalGrows
<1>4. /\ Total(r, K) \in Nat /\ Total(r, A) \in Nat /\ Total(r, L) \in Nat
      /\ q[i].bytes \in Nat
  BY <1>1, ImageLifecycleAssumption, TotalNat DEF Sized
<1>5. Total(r, L) <= cap
  BY DEF Fits
<1>6. Total(q, K) <= cap
  BY SMT, <1>2, <1>3, <1>4, <1>5
<1>7. ASSUME NEW j \in N
      PROVE  Total(q, K) + q[j].bytes <= cap /\ \A k \in N : k = j
  <2>1. j = i /\ N # {}
    OBVIOUS
  <2>2. q[i].bytes <= Remaining(cap, Total(r, A))
    BY <2>1
  <2>3. Total(q, K) + q[i].bytes <= cap
    BY SMT, <2>2, <1>2, <1>3, <1>4, <1>5 DEF Remaining
  <2> QED BY <2>1, <2>3
<1> QED BY <1>6, <1>7 DEF Fits

\* Payload sizes are natural numbers.
LEMMA SizedReq ==
  /\ TypeOK => Sized(req)
  /\ TypeOK' => Sized(req')
<1>1. Sizes \cup {0} \subseteq Nat
  BY SMT, ImageLifecycleAssumption
<1>2. TypeOK => Sized(req)
  BY <1>1 DEF TypeOK, Request, Sized
<1>3. TypeOK' => Sized(req')
  BY <1>1 DEF TypeOK, Request, Sized
<1> QED BY <1>2, <1>3

\* What a step leaves of image k for the quotas: who pays, how much and whether the
\* measurement was alone; a row or a place among the measured is only given up.
QuietFor(k) ==
  /\ req'[k].owner = req[k].owner /\ req'[k].team = req[k].team
  /\ req'[k].bytes = req[k].bytes /\ req'[k].overlaps = req[k].overlaps
  /\ InFlight(k)' => InFlight(k)
  /\ TeamChecked(k)' => TeamChecked(k)
  /\ meta'[k] = "live" => meta[k] = "live"

\* Handler steps that only give up rows and places: most steps of an upload, every
\* step of a delete and of a worker.
LEMMA QuotaKept ==
  ASSUME TypeOK, TypeOK', QuotaInv, \A k \in Images : QuietFor(k)
  PROVE  QuotaInv'
<1>1. Sized(req) /\ Sized(req')
  BY SizedReq
<1>2. UserCap \in Nat /\ TeamCap \in Nat
  BY ImageLifecycleAssumption
<1>3. ASSUME NEW u \in Users PROVE Fits(req, UserLive(u), UserOpen(u), UserCap)'
  <2>1. /\ UserLive(u)' \in SUBSET UserLive(u) /\ UserOpen(u)' \in SUBSET UserOpen(u)
        /\ UserLive(u) \in SUBSET Images /\ UserOpen(u) \in SUBSET Images
    BY DEF UserLive, UserOpen, Live, QuietFor
  <2>2. \A i \in UserLive(u)' \cup UserOpen(u)' : req'[i].bytes = req[i].bytes
    BY <2>1 DEF QuietFor
  <2>3. Fits(req, UserLive(u), UserOpen(u), UserCap)
    BY DEF QuotaInv
  <2>4. Fits(req', UserLive(u)', UserOpen(u)', UserCap)
    BY <1>1, <1>2, <2>1, <2>2, <2>3, FitsFewer
  <2> QED BY <2>4
<1>4. ASSUME NEW t \in Teams PROVE Fits(req, TeamLive(t), TeamOpen(t), TeamCap)'
  <2>1. /\ TeamLive(t)' \in SUBSET TeamLive(t) /\ TeamOpen(t)' \in SUBSET TeamOpen(t)
        /\ TeamLive(t) \in SUBSET Images /\ TeamOpen(t) \in SUBSET Images
    BY DEF TeamLive, TeamOpen, Live, QuietFor
  <2>2. \A i \in TeamLive(t)' \cup TeamOpen(t)' : req'[i].bytes = req[i].bytes
    BY <2>1 DEF QuietFor
  <2>3. Fits(req, TeamLive(t), TeamOpen(t), TeamCap)
    BY DEF QuotaInv
  <2>4. Fits(req', TeamLive(t)', TeamOpen(t)', TeamCap)
    BY <1>1, <1>2, <2>1, <2>2, <2>3, FitsFewer
  <2> QED BY <2>4
<1> QED BY <1>3, <1>4 DEF QuotaInv

\* The row of a measured upload is committed, or may have been (InsertRow and its
\* lost answer).
LEMMA QuotaInserted ==
  ASSUME TypeOK, TypeOK', QuotaInv, NEW i \in Images,
         \A k \in Images \ {i} : QuietFor(k),
         /\ req'[i].owner = req[i].owner /\ req'[i].team = req[i].team
         /\ req'[i].bytes = req[i].bytes /\ req'[i].overlaps = req[i].overlaps,
         TeamChecked(i), ~InFlight(i)', ~TeamChecked(i)', meta[i] = "none"
  PROVE  QuotaInv'
<1>1. Sized(req) /\ Sized(req')
  BY SizedReq
<1>2. UserCap \in Nat /\ TeamCap \in Nat
  BY ImageLifecycleAssumption
<1>3. \A k \in Images : req'[k].bytes = req[k].bytes
  BY DEF QuietFor
<1>4. InFlight(i)
  BY DEF InFlight, TeamChecked
<1>5. ASSUME NEW u \in Users PROVE Fits(req', UserLive(u)', UserOpen(u)', UserCap)
  <2>1. /\ UserLive(u) \in SUBSET Images /\ UserOpen(u) \in SUBSET Images
        /\ UserLive(u)' \in SUBSET (UserLive(u) \cup {i})
        /\ UserOpen(u)' \in SUBSET UserOpen(u) /\ i \notin UserOpen(u)' /\ i \notin UserLive(u)
    BY DEF UserLive, UserOpen, Live, QuietFor
  <2>2. Fits(req, UserLive(u), UserOpen(u), UserCap)
    BY DEF QuotaInv
  <2>3. CASE i \in UserOpen(u)
    <3>1. \A k \in UserLive(u) \cup {i} : req'[k].bytes = req[k].bytes
      BY <1>3, <2>1
    <3>2. Fits(req', UserLive(u) \cup {i}, UserOpen(u)', UserCap)
      BY <1>1, <1>2, <2>1, <2>2, <2>3, <3>1, FitsInserted
    <3>3. UserLive(u) \cup {i} \in SUBSET Images /\ UserOpen(u)' \in SUBSET Images
          /\ UserOpen(u)' \in SUBSET UserOpen(u)'
      BY <2>1
    <3>4. \A k \in UserLive(u)' \cup UserOpen(u)' : req'[k].bytes = req'[k].bytes
      OBVIOUS
    <3> QED BY <1>1, <1>2, <2>1, <3>2, <3>3, <3>4, FitsFewer
  <2>4. CASE i \notin UserOpen(u)
    <3>1. UserLive(u)' \in SUBSET UserLive(u)
      BY <1>4, <2>1, <2>4 DEF UserOpen, UserLive
    <3>2. \A k \in UserLive(u)' \cup UserOpen(u)' : req'[k].bytes = req[k].bytes
      BY <1>3, <2>1, <3>1
    <3> QED BY <1>1, <1>2, <2>1, <2>2, <3>1, <3>2, FitsFewer
  <2> QED BY <2>3, <2>4
<1>6. ASSUME NEW t \in Teams PROVE Fits(req', TeamLive(t)', TeamOpen(t)', TeamCap)
  <2>1. /\ TeamLive(t) \in SUBSET Images /\ TeamOpen(t) \in SUBSET Images
        /\ TeamLive(t)' \in SUBSET (TeamLive(t) \cup {i})
        /\ TeamOpen(t)' \in SUBSET TeamOpen(t) /\ i \notin TeamOpen(t)' /\ i \notin TeamLive(t)
    BY DEF TeamLive, TeamOpen, Live, QuietFor
  <2>2. Fits(req, TeamLive(t), TeamOpen(t), TeamCap)
    BY DEF QuotaInv
  <2>3. CASE i \in TeamOpen(t)
    <3>1. \A k \in TeamLive(t) \cup {i} : req'[k].bytes = req[k].bytes
      BY <1>3, <2>1
    <3>2. Fits(req', TeamLive(t) \cup {i}, TeamOpen(t)', TeamCap)
      BY <1>1, <1>2, <2>1, <2>2, <2>3, <3>1, FitsInserted
    <3>3. TeamLive(t) \cup {i} \in SUBSET Images /\ TeamOpen(t)' \in SUBSET Images
          /\ TeamOpen(t)' \in SUBSET TeamOpen(t)'
      BY <2>1
    <3>4. \A k \in TeamLive(t)' \cup TeamOpen(t)' : req'[k].bytes = req'[k].bytes
      OBVIOUS
    <3> QED BY <1>1, <1>2, <2>1, <3>2, <3>3, <3>4, FitsFewer
  <2>4. CASE i \notin TeamOpen(t)
    <3>1. TeamLive(t)' \in SUBSET TeamLive(t)
      BY <2>1, <2>4 DEF TeamOpen, TeamLive
    <3>2. \A k \in TeamLive(t)' \cup TeamOpen(t)' : req'[k].bytes = req[k].bytes
      BY <1>3, <2>1, <3>1
    <3> QED BY <1>1, <1>2, <2>1, <2>2, <3>1, <3>2, FitsFewer
  <2> QED BY <2>3, <2>4
<1> QED BY <1>5, <1>6 DEF QuotaInv

\* What the quota query returns is the sum the invariant speaks of.
LEMMA BytesTotal ==
  \A S : MapThenSumSet(Bytes, S) = Total(req, S)
BY DEF Bytes, Total, MapThenSumSet, MapThenFoldSet

\* The quota check of the user: measured alone, the upload fits beside the user's
\* live rows.
LEMMA QuotaCheckUser ==
  ASSUME TypeOK, TypeOK', StoreInv, QuotaInv, NEW i \in Images, NEW u \in Users,
         NEW t \in Teams \cup {NoTeam}, NEW n \in Sizes, CheckUser(i, u, t, n)
  PROVE  QuotaInv'
<1>1. Sized(req) /\ Sized(req')
  BY SizedReq
<1>2. UserCap \in Nat /\ TeamCap \in Nat /\ NoTeam \notin Teams
  BY ImageLifecycleAssumption
<1>3. meta' = meta /\ meta[i] = "none" /\ req[i].pc = "idle"
  BY DEF CheckUser, stores, StoreInv, ImageInv
<1> DEFINE pc == IF n > Remaining(UserCap, UsedByUser(u)) THEN "rejected"
                 ELSE IF t = NoTeam THEN "checked" ELSE "team_check"
           new == [pc |-> pc, owner |-> u, team |-> t, bytes |-> n, next |-> 1,
                   overlaps |-> UserOverlap(i, u)]
<1>4. req' = [req EXCEPT ![i] = new]
  BY DEF CheckUser
<1>5. /\ new.pc = pc /\ new.owner = u /\ new.team = t /\ new.bytes = n
      /\ new.overlaps = UserOverlap(i, u)
  OBVIOUS
<1> HIDE DEF new
<1>6. req'[i] = new /\ \A k \in Images \ {i} : req'[k] = req[k]
  BY <1>4 DEF TypeOK
<1>7. Live' = Live /\ i \notin Live /\ Live \in SUBSET Images
  BY <1>3 DEF Live
<1>8. ASSUME NEW v \in Users PROVE Fits(req', UserLive(v)', UserOpen(v)', UserCap)
  <2>1. UserLive(v)' = UserLive(v)
    BY <1>6, <1>7 DEF UserLive
  <2>2. \A k \in UserLive(v) : req'[k].bytes = req[k].bytes
    BY <1>6, <1>7 DEF UserLive
  <2>3. UserLive(v) \in SUBSET Images /\ UserOpen(v) \in SUBSET Images
    BY <1>7 DEF UserLive, UserOpen
  <2>4. Fits(req, UserLive(v), UserOpen(v), UserCap)
    BY DEF QuotaInv
  <2>5. \A k \in UserOpen(v)' : k # i => k \in UserOpen(v) /\ req'[k].bytes = req[k].bytes
    BY <1>6 DEF UserOpen, InFlight
  <2>6. CASE i \notin UserOpen(v)'
    <3>1. UserOpen(v)' \in SUBSET UserOpen(v) /\ UserLive(v)' \in SUBSET UserLive(v)
      BY <2>1, <2>5, <2>6
    <3>2. \A k \in UserLive(v)' \cup UserOpen(v)' : req'[k].bytes = req[k].bytes
      BY <2>1, <2>2, <2>5, <2>6
    <3> QED BY <1>1, <1>2, <2>3, <2>4, <3>1, <3>2, FitsFewer
  <2>7. CASE i \in UserOpen(v)'
    <3>1. v = u /\ "user" \notin UserOverlap(i, u) /\ pc # "rejected"
      BY <2>7, <1>5, <1>6 DEF UserOpen, InFlight
    <3>2. \A k \in Images \ {i} : ~(InFlight(k) /\ req[k].owner = u)
      BY <3>1 DEF UserOverlap
    <3>3. UserOpen(v)' \in SUBSET {i}
      BY <3>1, <3>2, <2>5 DEF UserOpen
    <3>4. PICK A : A = {k \in Live : req[k].owner = u}
      OBVIOUS
    <3>5. A \in SUBSET Images /\ UserLive(v) \in SUBSET A
      BY <3>1, <3>4, <1>7 DEF UserLive
    <3>6. UsedByUser(u) = Total(req, A)
      BY <3>4, BytesTotal DEF UsedByUser
    <3>7. ~(n > Remaining(UserCap, Total(req, A)))
      BY <3>1, <3>6
    <3>8. n \in Nat /\ Total(req, A) \in Nat /\ req'[i].bytes = n
      <4>1. n \in Nat
        BY SMT, ImageLifecycleAssumption
      <4> QED BY <4>1, <3>5, <1>1, <1>5, <1>6, ImageLifecycleAssumption, TotalNat DEF Sized
    <3>9. req'[i].bytes <= Remaining(UserCap, Total(req, A))
      BY SMT, <3>7, <3>8, <1>2 DEF Remaining
    <3>10. UserLive(v) \subseteq UserLive(v)
      OBVIOUS
    <3>11. Fits(req', UserLive(v), UserOpen(v)', UserCap)
      BY <1>1, <1>2, <2>2, <2>3, <2>4, <3>3, <3>5, <3>9, <3>10, FitsMeasured
    <3> QED BY <2>1, <3>11
  <2> QED BY <2>6, <2>7
<1>9. ASSUME NEW v \in Teams PROVE Fits(req', TeamLive(v)', TeamOpen(v)', TeamCap)
  <2>1. TeamLive(v)' \in SUBSET TeamLive(v)
    BY <1>6, <1>7 DEF TeamLive
  <2>2. i \notin TeamOpen(v)'
    BY <1>2, <1>5, <1>6 DEF TeamOpen, TeamChecked
  <2>3. TeamOpen(v)' \in SUBSET TeamOpen(v)
    BY <1>6, <2>2 DEF TeamOpen, TeamChecked
  <2>4. TeamLive(v) \in SUBSET Images /\ TeamOpen(v) \in SUBSET Images
    BY <1>7 DEF TeamLive, TeamOpen
  <2>5. \A k \in TeamLive(v)' \cup TeamOpen(v)' : req'[k].bytes = req[k].bytes
    BY <1>6, <1>7, <2>1, <2>2, <2>3 DEF TeamLive, TeamOpen
  <2>6. Fits(req, TeamLive(v), TeamOpen(v), TeamCap)
    BY DEF QuotaInv
  <2> QED BY <1>1, <1>2, <2>1, <2>3, <2>4, <2>5, <2>6, FitsFewer
<1> QED BY <1>8, <1>9 DEF QuotaInv

\* The quota check of the team.
LEMMA QuotaCheckTeam ==
  ASSUME TypeOK, TypeOK', StoreInv, QuotaInv, NEW i \in Images, CheckTeam(i)
  PROVE  QuotaInv'
<1>1. Sized(req) /\ Sized(req')
  BY SizedReq
<1>2. UserCap \in Nat /\ TeamCap \in Nat
  BY ImageLifecycleAssumption
<1>3. meta' = meta /\ meta[i] = "none" /\ req[i].pc = "team_check"
  BY DEF CheckTeam, stores, StoreInv, ImageInv
<1> DEFINE pc == IF Bytes(i) > Remaining(TeamCap, UsedByTeam(req[i].team)) THEN "rejected" ELSE "checked"
           new == [req[i] EXCEPT !.pc = pc, !.overlaps = @ \cup TeamOverlap(i)]
<1>4. req' = [req EXCEPT ![i] = new]
  BY DEF CheckTeam
<1>5. /\ new.pc = pc /\ new.owner = req[i].owner /\ new.team = req[i].team
      /\ new.bytes = req[i].bytes /\ new.overlaps = req[i].overlaps \cup TeamOverlap(i)
  <2>1. req[i] \in Request
    BY DEF TypeOK
  <2> QED BY <2>1 DEF Request
<1> HIDE DEF new
<1>6. req'[i] = new /\ \A k \in Images \ {i} : req'[k] = req[k]
  BY <1>4 DEF TypeOK
<1>7. Live' = Live /\ i \notin Live /\ Live \in SUBSET Images
  BY <1>3 DEF Live
<1>8. \A k \in Images : req'[k].bytes = req[k].bytes
  BY <1>5, <1>6
<1>9. ASSUME NEW v \in Users PROVE Fits(req', UserLive(v)', UserOpen(v)', UserCap)
  <2>1. UserLive(v)' \in SUBSET UserLive(v)
    BY <1>6, <1>7 DEF UserLive
  <2>2. i \in UserOpen(v)' => i \in UserOpen(v)
    BY <1>3, <1>5, <1>6 DEF UserOpen, InFlight
  <2>3. UserOpen(v)' \in SUBSET UserOpen(v)
    BY <1>6, <2>2 DEF UserOpen, InFlight
  <2>4. UserLive(v) \in SUBSET Images /\ UserOpen(v) \in SUBSET Images
    BY <1>7 DEF UserLive, UserOpen
  <2>5. \A k \in UserLive(v)' \cup UserOpen(v)' : req'[k].bytes = req[k].bytes
    BY <1>8, <2>1, <2>3, <2>4
  <2>6. Fits(req, UserLive(v), UserOpen(v), UserCap)
    BY DEF QuotaInv
  <2> QED BY <1>1, <1>2, <2>1, <2>3, <2>4, <2>5, <2>6, FitsFewer
<1>10. ASSUME NEW t \in Teams PROVE Fits(req', TeamLive(t)', TeamOpen(t)', TeamCap)
  <2>1. TeamLive(t)' \in SUBSET TeamLive(t) /\ TeamLive(t) \in SUBSET Images
        /\ TeamOpen(t) \in SUBSET Images /\ TeamOpen(t)' \in SUBSET Images
    BY <1>6, <1>7 DEF TeamLive, TeamOpen
  <2>2. Fits(req, TeamLive(t), TeamOpen(t), TeamCap)
    BY DEF QuotaInv
  <2>3. \A k \in TeamOpen(t)' : k # i => k \in TeamOpen(t)
    BY <1>6 DEF TeamOpen, TeamChecked
  <2>4. \A k \in TeamLive(t)' \cup TeamOpen(t)' : req'[k].bytes = req[k].bytes
    BY <1>8, <2>1
  <2>5. CASE i \notin TeamOpen(t)'
    <3>1. TeamOpen(t)' \in SUBSET TeamOpen(t)
      BY <2>3, <2>5
    <3> QED BY <1>1, <1>2, <2>1, <2>2, <2>4, <3>1, FitsFewer
  <2>6. CASE i \in TeamOpen(t)'
    <3>1. t = req[i].team /\ "team" \notin TeamOverlap(i) /\ pc # "rejected"
      BY <2>6, <1>5, <1>6 DEF TeamOpen, TeamChecked
    <3>2. \A k \in Images \ {i} : ~(TeamChecked(k) /\ req[k].team = t)
      BY <3>1 DEF TeamOverlap
    <3>3. TeamOpen(t)' \in SUBSET {i}
      BY <3>1, <3>2, <2>3 DEF TeamOpen
    <3>4. PICK A : A = {k \in Live : req[k].team = t}
      OBVIOUS
    <3>5. A \in SUBSET Images /\ TeamLive(t)' \in SUBSET A
      BY <3>4, <1>7, <2>1 DEF TeamLive
    <3>6. UsedByTeam(t) = Total(req, A)
      BY <3>4, BytesTotal DEF UsedByTeam
    <3>7. ~(req[i].bytes > Remaining(TeamCap, Total(req, A)))
      BY <3>1, <3>6 DEF Bytes
    <3>8. Total(req, A) \in Nat /\ req[i].bytes \in Nat /\ req'[i].bytes = req[i].bytes
      BY <3>5, <1>1, <1>8, ImageLifecycleAssumption, TotalNat DEF Sized
    <3>9. req'[i].bytes <= Remaining(TeamCap, Total(req, A))
      BY SMT, <3>7, <3>8, <1>2 DEF Remaining
    <3>10. TeamLive(t)' \subseteq TeamLive(t) /\ \A k \in TeamLive(t)' : req'[k].bytes = req[k].bytes
      BY <2>1, <2>4
    <3> QED BY <1>1, <1>2, <2>1, <2>2, <3>3, <3>5, <3>9, <3>10, FitsMeasured
  <2> QED BY <2>5, <2>6
<1> QED BY <1>9, <1>10 DEF QuotaInv

\* A handler that moves to its next await keeps the fields of its request.
LEMMA AtKeepsFields ==
  ASSUME TypeOK, NEW i \in Images, NEW pc, At(i, pc)
  PROVE  /\ req'[i].owner = req[i].owner /\ req'[i].team = req[i].team
         /\ req'[i].bytes = req[i].bytes /\ req'[i].overlaps = req[i].overlaps
         /\ req'[i].pc = pc
         /\ \A k \in Images \ {i} : req'[k] = req[k]
<1> DEFINE new == [req[i] EXCEPT !.pc = pc]
<1>1. req \in [Images -> Request] /\ req[i] \in Request
  BY DEF TypeOK
<1>2. /\ new.owner = req[i].owner /\ new.team = req[i].team
      /\ new.bytes = req[i].bytes /\ new.overlaps = req[i].overlaps /\ new.pc = pc
  BY <1>1 DEF Request
<1>3. req' = [req EXCEPT ![i] = new]
  BY DEF At
<1> HIDE DEF new
<1> QED BY <1>1, <1>2, <1>3

\* The steps of an upload after its first one.
LEMMA QuotaUpload ==
  ASSUME TypeOK, TypeOK', StoreInv, QuotaInv, NEW i \in Images,
         UploadStep(i) \/ UploadFault(i)
  PROVE  QuotaInv'
<1>1. UploadEffect(i) /\ ImageInv(i)
  BY UploadStepInv DEF StoreInv
<1>2. \A k \in Images \ {i} : QuietFor(k)
  BY <1>1 DEF UploadEffect, QuietFor, InFlight, TeamChecked
<1>3. ASSUME QuietFor(i) PROVE QuotaInv'
  <2>1. \A k \in Images : QuietFor(k)
    BY <1>2, <1>3
  <2> QED BY <2>1, QuotaKept
<1>4. CASE CheckTeam(i)
  BY <1>4, QuotaCheckTeam
<1>5. ASSUME NEW pc \in {"rejected", "failed", "done", "aborted"}, At(i, pc), meta' = meta
      PROVE  QuotaInv'
  <2>1. QuietFor(i)
    BY <1>5, AtKeepsFields DEF QuietFor, InFlight, TeamChecked
  <2> QED BY <2>1, <1>3
<1>6. CASE Refuse(i) \/ PutFails(i) \/ AuditUploadFails(i) \/ Cleanup(i) \/ CleanupFails(i)
           \/ Respond(i) \/ DropUpload(i)
  BY <1>5, <1>6 DEF Refuse, PutFails, AuditUploadFails, AfterAuditFailed, Cleanup, CleanupFails,
                    Respond, DropUpload, stores
<1>7. CASE Put(i) \/ AuditUpload(i)
  <2>1. PICK pc \in {"stored", "staged"} : At(i, pc)
    BY <1>7 DEF Put, AuditUpload
  <2>2. req[i].pc \in {"checked", "stored"} /\ meta' = meta
    BY <1>7 DEF Put, AuditUpload
  <2>3. QuietFor(i)
    BY <2>1, <2>2, AtKeepsFields DEF QuietFor, InFlight, TeamChecked
  <2> QED BY <2>3, <1>3
<1>8. CASE InsertRow(i) \/ InsertRowFails(i)
  <2>1. PICK pc \in {"inserted", "cleanup"} : At(i, pc)
    BY <1>8 DEF InsertRow, InsertRowFails, AfterInsertFailed
  <2>2. req[i].pc = "staged"
    BY <1>8 DEF InsertRow, InsertRowFails
  <2>3. meta[i] = "none" /\ TeamChecked(i)
    BY <1>1, <2>2 DEF ImageInv, TeamChecked
  <2>4. ~InFlight(i)' /\ ~TeamChecked(i)'
    BY <2>1, AtKeepsFields DEF InFlight, TeamChecked
  <2>5. /\ req'[i].owner = req[i].owner /\ req'[i].team = req[i].team
        /\ req'[i].bytes = req[i].bytes /\ req'[i].overlaps = req[i].overlaps
    BY <2>1, AtKeepsFields
  <2> QED BY <1>2, <2>3, <2>4, <2>5, QuotaInserted
<1>9. CASE EnqueueVariant(i) \/ EnqueueVariantFails(i)
  <2>1. meta' = meta
    BY <1>9 DEF EnqueueVariant, EnqueueVariantFails, stores
  <2>2. /\ req'[i].owner = req[i].owner /\ req'[i].team = req[i].team
        /\ req'[i].bytes = req[i].bytes /\ req'[i].overlaps = req[i].overlaps
        /\ req'[i].pc = req[i].pc
    <3> DEFINE new == [req[i] EXCEPT !.next = NextKind(req[i].next)]
               same == [req[i] EXCEPT !.pc = req[i].pc, !.next = NextKind(req[i].next)]
    <3>1. req \in [Images -> Request] /\ req[i] \in Request
      BY DEF TypeOK
    <3>2. /\ new.owner = req[i].owner /\ new.team = req[i].team
          /\ new.bytes = req[i].bytes /\ new.overlaps = req[i].overlaps /\ new.pc = req[i].pc
      BY <3>1 DEF Request
    <3>3. /\ same.owner = req[i].owner /\ same.team = req[i].team
          /\ same.bytes = req[i].bytes /\ same.overlaps = req[i].overlaps /\ same.pc = req[i].pc
      BY <3>1 DEF Request
    <3>4. req' = [req EXCEPT ![i] = new] \/ req' = [req EXCEPT ![i] = same]
      BY <1>9 DEF EnqueueVariant, EnqueueVariantFails, AfterEnqueueFailed
    <3> HIDE DEF new, same
    <3>5. req'[i] = new \/ req'[i] = same
      BY <3>1, <3>4
    <3> QED BY <3>2, <3>3, <3>5
  <2>3. QuietFor(i)
    BY <2>1, <2>2 DEF QuietFor, InFlight, TeamChecked
  <2> QED BY <2>3, <1>3
<1> QED
  BY <1>4, <1>6, <1>7, <1>8, <1>9 DEF UploadStep, UploadFault

\* Every step keeps the quota invariant.
LEMMA QuotaNext == IInv /\ IInv' /\ QuotaInv /\ [Next]_vars => QuotaInv'
<1> SUFFICES ASSUME TypeOK, StoreInv, TypeOK', QuotaInv, [Next]_vars PROVE QuotaInv'
  BY DEF IInv
<1>1. ASSUME NEW i \in Images, NEW u \in Users, NEW t \in Teams \cup {NoTeam}, NEW n \in Sizes,
             CheckUser(i, u, t, n)
      PROVE  QuotaInv'
  BY <1>1, QuotaCheckUser
<1>2. ASSUME NEW i \in Images, UploadStep(i) \/ UploadFault(i) PROVE QuotaInv'
  BY <1>2, QuotaUpload
<1>3. ASSUME req' = req, \A k \in Images : meta'[k] = "live" => meta[k] = "live"
      PROVE  QuotaInv'
  <2>1. \A k \in Images : QuietFor(k)
    BY <1>3 DEF QuietFor, InFlight, TeamChecked
  <2> QED BY <2>1, QuotaKept
<1>4. ASSUME NEW d \in Deleters, NEW i \in Images, LoadForDelete(d, i) PROVE QuotaInv'
  BY <1>3, <1>4 DEF LoadForDelete, stores
<1>5. ASSUME NEW d \in Deleters, DeleteStep(d) \/ DeleteFault(d) PROVE QuotaInv'
  <2>1. PICK i \in Images : DeleteEffect(d, i)
    BY <1>5, DeleteStepInv
  <2>2. req' = req /\ \A k \in Images : meta'[k] = "live" => meta[k] = "live"
    BY <2>1 DEF DeleteEffect
  <2> QED BY <2>2, <1>3
<1>6. ASSUME NEW r \in Runners, NEW j \in Jobs, Take(r, j) PROVE QuotaInv'
  BY <1>3, <1>6 DEF Take, stores
<1>7. ASSUME NEW r \in Runners, RunStep(r) \/ RunFault(r) PROVE QuotaInv'
  <2>1. RunEffect(r)
    BY <1>7, RunStepInv
  <2> QED BY <2>1, <1>3 DEF RunEffect
<1>8. CASE UNCHANGED vars
  BY <1>3, <1>8 DEF vars, handlers, stores
<1> QED BY <1>1, <1>2, <1>4, <1>5, <1>6, <1>7, <1>8 DEF Next

\* Nothing is stored or measured at the start.
LEMMA QuotaInit == Init => QuotaInv
<1> SUFFICES ASSUME Init PROVE QuotaInv
  OBVIOUS
<1>1. \A u : UserLive(u) = {} /\ UserOpen(u) = {}
  BY DEF Init, UserLive, UserOpen, Live, InFlight
<1>2. \A t : TeamLive(t) = {} /\ TeamOpen(t) = {}
  BY DEF Init, TeamLive, TeamOpen, Live, TeamChecked
<1>3. Total(req, {}) = 0
  BY FS_EmptySet, TotalStep
<1>4. 0 <= UserCap /\ 0 <= TeamCap
  BY SMT, ImageLifecycleAssumption
<1>5. Fits(req, {}, {}, UserCap) /\ Fits(req, {}, {}, TeamCap)
  BY <1>3, <1>4 DEF Fits
<1> QED BY <1>1, <1>2, <1>5 DEF QuotaInv

\* Uploads measured one after the other fit the caps of their user and their team
\* together, whatever fails, is deleted or dropped in between: usage is read before
\* the row is written, so only overlapping uploads can exceed a cap (upload.rs).
THEOREM SerialUploadsFit == Spec => []SerialUploadsFitQuota
<1>1. QuotaInv => SerialUploadsFitQuota
  BY BytesTotal DEF QuotaInv, Fits, UserLive, TeamLive, SerialUploadsFitQuota
<1>2. IInv /\ QuotaInv /\ [Next]_vars => (IInv /\ QuotaInv)'
  BY NextInv, QuotaNext
<1>3. Init => IInv /\ QuotaInv
  BY InitInv, QuotaInit
<1>4. Spec => [](IInv /\ QuotaInv)
  BY <1>2, <1>3, PTL DEF Spec
<1> QED BY <1>1, <1>4, PTL
=============================================================================
