------------------------- MODULE LocalDriverProofs -------------------------
(***************************************************************************)
(* The local driver, for any directory tree and any number of calls and    *)
(* crashes: it never shows a file that is not wholly written, implements   *)
(* ObjectStore, and its listings miss nothing that stays.  The inductive   *)
(* invariant ties a name to the put that renamed its file there: that put  *)
(* has written all of it, has this key, and will not touch the file again. *)
(***************************************************************************)
EXTENDS LocalDriver, TLAPS

\* A leaf is tried with Zenon; one that needs records or arithmetic cites SMT.
USE Zenon

Ended == {"taken", "done", "lost"}
OnKey == {"mkdir", "write", "rename", "unlink", "open", "stat"}
Listing == {"walk", "entries"}
PCs == {"idle", "read"} \cup Listing \cup Ended \cup OnKey
Kinds == {"none", "put", "delete", "get", "head", "exists", "list"}

ResultRec == [status: {"none", "Ok", "Backend", "NotFound", "true", "false"},
              body: Bodies \cup {Absent, "torn"}, keys: SUBSET Keys]
ScanRec == [dirs: SUBSET (Keys \cup {Root}), dir: Keys \cup {Root, Absent}, due: SUBSET Files,
            keys: SUBSET Keys, always: SUBSET Keys, ever: SUBSET Keys, cut: BOOLEAN]
OpRec == [pc: PCs, kind: Kinds, key: Keys \cup {Absent}, body: Bodies \cup {Absent},
          file: Files \cup {Absent}, scan: ScanRec, result: ResultRec]

DiskTypes ==
  /\ names \in [Keys -> {Absent, "dir"} \cup Files]
  /\ temps \subseteq Ops
  /\ data \in [Ops -> {"none", "part", "whole"}]
  /\ crashes \in 0..MaxCrashes

NameInv(k) ==
  /\ names[k] \in Keys => names[k] = k
  /\ names[k] \in Ops =>
       /\ data[names[k]] = "whole" /\ op[names[k]].key = k /\ op[names[k]].pc \in Ended
       /\ op[names[k]].body \in Bodies
  /\ names[k] = "dir" => k \in Directories

\* What a call's record says of itself.
RecInv(o) ==
  /\ o.pc \in OnKey => o.key \in Keys
  /\ o.pc \in {"mkdir", "write", "rename"} => o.kind = "put" /\ o.body \in Bodies
  /\ o.pc = "unlink" => o.kind = "delete" /\ o.body = Absent
  /\ o.pc \in {"open", "read"} => o.kind = "get"
  /\ o.pc = "stat" => o.kind \in {"head", "exists"}
  /\ o.pc \in Listing => o.kind = "list" /\ o.scan.keys \subseteq o.scan.ever
  /\ o.pc \notin Listing => o.scan.ever = {}
  /\ o.pc = "lost" => o.kind = "none" /\ o.result = NoResult

OpInv(p) ==
  /\ RecInv(op[p])
  /\ op[p].pc = "rename" => data[p] = "whole"
  /\ op[p].pc = "read" =>
       /\ op[p].file \in Files /\ Whole(op[p].file)
       /\ op[p].file \in Ops => op[op[p].file].pc \in Ended
  /\ op[p].pc \in Listing => Objects \subseteq op[p].scan.ever

IInv ==
  /\ DiskTypes
  /\ op \in [Ops -> OpRec]
  /\ \A k \in Keys : NameInv(k)
  /\ \A p \in Ops : OpInv(p)

-----------------------------------------------------------------------------
(* The constants, and records.                                             *)

\* What a name may lead to is told apart.
LEMMA Distinct ==
  /\ Parent \in [Keys -> Keys \cup {Root}] /\ Root \notin Keys
  /\ Seed \in Bodies /\ Absent \notin Bodies
  /\ Ops \cap Keys = {} /\ {Absent, "dir"} \cap (Ops \cup Keys) = {} /\ Absent # "dir"
  /\ MaxCrashes \in Nat
BY LocalDriverAssumption

\* The directories on the path to a key lead from the root to the key
\* (LocalDriver::resolve_unchecked joins them).
LEMMA Paths ==
  ASSUME NEW k \in Keys
  PROVE  /\ Above[k] \subseteq Keys /\ Above[k] \subseteq Directories
         /\ \A d \in Above[k] \cup {Root} : \E next \in Above[k] \cup {k} : Parent[next] = d
<1>1. Above[k] \in SUBSET Keys
  BY LocalDriverAssumption
<1>2. \A d \in Above[k] \cup {Root} : \E next \in Above[k] \cup {k} : Parent[next] = d
  BY LocalDriverAssumption
<1>3. Above[k] \subseteq Directories
  BY DEF Directories
<1> QED BY <1>1, <1>2, <1>3

\* What OpRecord, and so every call's first and last record, is made of.
LEMMA OpRecordRec ==
  ASSUME NEW pc \in PCs, NEW kind \in Kinds, NEW key \in Keys \cup {Absent},
         NEW body \in Bodies \cup {Absent}, NEW scan \in ScanRec, NEW r \in ResultRec
  PROVE  LET f == OpRecord(pc, kind, key, body, scan, r) IN
         /\ f \in OpRec /\ f.pc = pc /\ f.kind = kind /\ f.key = key /\ f.body = body
         /\ f.file = Absent /\ f.scan = scan /\ f.result = r
BY DEF OpRecord, OpRec

\* A listing that begins.
LEMMA ScanFields ==
  ASSUME NEW dirs \in SUBSET (Keys \cup {Root}), NEW objects \in SUBSET Keys
  PROVE  /\ Scan(dirs, objects) \in ScanRec
         /\ Scan(dirs, objects).ever = objects
         /\ NoScan \in ScanRec /\ NoScan.ever = {}
BY DEF Scan, NoScan, ScanRec

\* The results a call may have.
LEMMA ResultFields ==
  ASSUME NEW status \in {"none", "Ok", "Backend", "NotFound", "true", "false"},
         NEW body \in Bodies \cup {Absent, "torn"}, NEW keys \in SUBSET Keys
  PROVE  Result(status, body, keys) \in ResultRec /\ NoResult \in ResultRec
BY DEF Result, NoResult, ResultRec

\* A call that has its result keeps its kind, key and body and nothing else.
LEMMA FinishedRec ==
  ASSUME NEW o \in OpRec, NEW r \in ResultRec
  PROVE  LET f == Finished(o, r) IN
         /\ f \in OpRec /\ f.pc = "taken" /\ f.kind = o.kind /\ f.key = o.key /\ f.body = o.body
         /\ f.result = r /\ f.scan = NoScan /\ f.file = Absent
<1>1. o.kind \in Kinds /\ o.key \in Keys \cup {Absent} /\ o.body \in Bodies \cup {Absent}
  BY DEF OpRec
<1>2. "taken" \in PCs /\ NoScan \in ScanRec
  BY ScanFields DEF PCs, Ended
<1> QED BY <1>1, <1>2 DEF Finished, OpRecord, OpRec

\* Listings that witness a change keep all but their histories.
LEMMA WitnessedRec ==
  ASSUME NEW ops \in [Ops -> OpRec], NEW objects \in SUBSET Keys
  PROVE  LET w == Witnessed(ops, objects) IN
         /\ w \in [Ops -> OpRec]
         /\ \A q \in Ops :
              /\ w[q].pc = ops[q].pc /\ w[q].kind = ops[q].kind /\ w[q].key = ops[q].key
              /\ w[q].body = ops[q].body /\ w[q].file = ops[q].file /\ w[q].result = ops[q].result
              /\ w[q].scan.keys = ops[q].scan.keys
              /\ w[q].scan.ever = IF ops[q].pc \in Listing
                                  THEN ops[q].scan.ever \cup objects ELSE ops[q].scan.ever
<1>1. ASSUME NEW q \in Ops
      PROVE  LET y == Saw(ops[q].scan, objects)
                 x == [ops[q] EXCEPT !.scan = y]
             IN /\ x \in OpRec
                /\ x.pc = ops[q].pc /\ x.kind = ops[q].kind /\ x.key = ops[q].key
                /\ x.body = ops[q].body /\ x.file = ops[q].file /\ x.result = ops[q].result
                /\ x.scan.keys = ops[q].scan.keys /\ x.scan.ever = ops[q].scan.ever \cup objects
  <2> DEFINE y == Saw(ops[q].scan, objects)
  <2>1. ops[q] \in OpRec /\ ops[q].scan \in ScanRec
    BY DEF OpRec
  <2>2. y \in ScanRec /\ y.ever = ops[q].scan.ever \cup objects /\ y.keys = ops[q].scan.keys
    BY <2>1 DEF ScanRec, Saw
  <2> HIDE DEF y
  <2>3. LET x == [ops[q] EXCEPT !.scan = y]
        IN /\ x \in OpRec /\ x.scan = y
           /\ x.pc = ops[q].pc /\ x.kind = ops[q].kind /\ x.key = ops[q].key
           /\ x.body = ops[q].body /\ x.file = ops[q].file /\ x.result = ops[q].result
    BY <2>1, <2>2 DEF OpRec
  <2> QED BY <2>2, <2>3 DEF y
<1> DEFINE w == Witnessed(ops, objects)
<1>2. ASSUME NEW q \in Ops
      PROVE  /\ w[q] \in OpRec
             /\ w[q].pc = ops[q].pc /\ w[q].kind = ops[q].kind /\ w[q].key = ops[q].key
             /\ w[q].body = ops[q].body /\ w[q].file = ops[q].file /\ w[q].result = ops[q].result
             /\ w[q].scan.keys = ops[q].scan.keys
             /\ w[q].scan.ever = IF ops[q].pc \in Listing
                                 THEN ops[q].scan.ever \cup objects ELSE ops[q].scan.ever
  <2>1. CASE ops[q].pc \in Listing
    <3>1. w[q] = [ops[q] EXCEPT !.scan = Saw(ops[q].scan, objects)]
      BY <2>1 DEF Witnessed, Listing
    <3> HIDE DEF w
    <3> QED BY <2>1, <3>1, <1>1
  <2>2. CASE ops[q].pc \notin Listing
    <3>1. w[q] = ops[q]
      BY <2>2 DEF Witnessed, Listing
    <3> HIDE DEF w
    <3> QED BY <2>2, <3>1
  <2> QED BY <2>1, <2>2
<1>3. w = [q \in Ops |-> w[q]]
  BY DEF Witnessed
<1> HIDE DEF w
<1>4. w \in [Ops -> OpRec]
  BY <1>2, <1>3
<1> QED BY <1>2, <1>4 DEF w

\* The first step of every operation of the driver's traits but list.
LEMMA FirstSteps ==
  ASSUME NEW kind \in DOMAIN FirstStep
  PROVE  kind \in Kinds \ {"none", "list"} /\ FirstStep[kind] \in {"mkdir", "unlink", "open", "stat"}
BY SMT DEF FirstStep, Kinds
-----------------------------------------------------------------------------
\* What a file holds once whole it holds for good.
LEMMA WholeKept ==
  ASSUME NEW f \in Files, Whole(f), \A q \in Ops : data[q] = "whole" => data'[q] = "whole"
  PROVE  Whole(f)'
BY DEF Whole, Files

\* w is the calls' records once the listings among them are told what is there now.
Tells(w) ==
  /\ w \in [Ops -> OpRec]
  /\ \A q \in Ops :
       /\ w[q].pc = op[q].pc /\ w[q].kind = op[q].kind /\ w[q].key = op[q].key
       /\ w[q].body = op[q].body /\ w[q].file = op[q].file /\ w[q].result = op[q].result
       /\ w[q].scan.keys = op[q].scan.keys
       /\ op[q].pc \notin Listing => w[q].scan.ever = op[q].scan.ever
       /\ op[q].pc \in Listing => op[q].scan.ever \cup Objects' \subseteq w[q].scan.ever

\* No name is given to a file, but the name of its key to a put's that ends so.
NamesWell(p, new) ==
  \A k \in Keys :
    \/ names'[k] = names[k]
    \/ names'[k] \notin Files /\ (names'[k] = "dir" => k \in Directories)
    \/ /\ names'[k] = p /\ new.key = k /\ new.pc \in Ended /\ new.body \in Bodies
       /\ data'[p] = "whole"

\* new may be the record of p from now on.
Fits(p, new) ==
  /\ new \in OpRec /\ RecInv(new)
  /\ op[p].pc \in Ended => new.pc \in Ended /\ new.key = op[p].key /\ new.body = op[p].body
  /\ new.pc = "rename" => data'[p] = "whole"
  /\ new.pc = "read" => /\ new.file \in Files /\ Whole(new.file)
                        /\ new.file \in Ops => op[new.file].pc \in Ended

\* A step of call p keeps the invariant if p's new record fits, the listings are told,
\* names are well given and whole files stay whole.
LEMMA Step ==
  ASSUME IInv, NEW p \in Ops, NEW new, NEW w, DiskTypes', op' = [w EXCEPT ![p] = new],
         Tells(w), NamesWell(p, new), Fits(p, new), new.pc \in Listing => Objects' \subseteq new.scan.ever,
         \A q \in Ops : data[q] = "whole" => data'[q] = "whole"
  PROVE  IInv'
<1> USE DEF Tells, NamesWell, Fits
<1>1. op' \in [Ops -> OpRec] /\ op'[p] = new /\ \A q \in Ops \ {p} : op'[q] = w[q]
  OBVIOUS
<1>2. ASSUME NEW q \in Ops, op[q].pc \in Ended
      PROVE  op'[q].pc \in Ended /\ op'[q].key = op[q].key /\ op'[q].body = op[q].body
  BY <1>1, <1>2
<1>3. ASSUME NEW k \in Keys PROVE NameInv(k)'
  <2>1. NameInv(k)
    BY DEF IInv
  <2>2. CASE names'[k] = names[k]
    BY SMT, <2>1, <2>2, <1>2 DEF NameInv
  <2>3. CASE names'[k] \notin Files /\ (names'[k] = "dir" => k \in Directories)
    BY <2>3 DEF NameInv, Files
  <2>4. CASE /\ names'[k] = p /\ new.key = k /\ new.pc \in Ended /\ new.body \in Bodies
             /\ data'[p] = "whole"
    BY <2>4, <1>1, Distinct DEF NameInv
  <2> QED BY <2>2, <2>3, <2>4
<1>4. ASSUME NEW q \in Ops PROVE OpInv(q)'
  <2>1. CASE q = p
    <3>1. new.pc = "read" => Whole(new.file)'
      BY WholeKept
    <3> QED BY <1>1, <1>2, <2>1, <3>1 DEF OpInv
  <2>2. CASE q # p
    <3>1. OpInv(q) /\ op'[q] = w[q]
      BY <1>1, <2>2 DEF IInv
    <3>2. RecInv(w[q])
      BY SMT, <3>1 DEF OpInv, RecInv
    <3>3. w[q].pc = "read" => Whole(w[q].file)'
      BY <3>1, WholeKept DEF OpInv
    <3> QED BY SMT, <3>1, <3>2, <3>3, <1>2 DEF OpInv
  <2> QED BY <2>1, <2>2
<1> QED BY <1>1, <1>3, <1>4 DEF IInv

\* The same for a step that changes no object, and so tells no listing.
LEMMA OneOp ==
  ASSUME IInv, NEW p \in Ops, NEW new \in OpRec, DiskTypes', op' = [op EXCEPT ![p] = new],
         \A k \in Keys :
           \/ names'[k] = names[k]
           \/ /\ {names[k], names'[k]} \cap Files = {}
              /\ names'[k] = "dir" => k \in Directories,
         \A q \in Ops : data[q] = "whole" => data'[q] = "whole",
         op[p].pc \in Ended => new.pc \in Ended /\ new.key = op[p].key /\ new.body = op[p].body,
         RecInv(new),
         new.pc = "rename" => data'[p] = "whole",
         new.pc = "read" => /\ new.file \in Files /\ Whole(new.file)
                            /\ new.file \in Ops => op[new.file].pc \in Ended,
         new.pc \in Listing => Objects \subseteq new.scan.ever
  PROVE  IInv'
<1>1. Objects' = Objects
  BY DEF Objects, IsFile
<1>2. op \in [Ops -> OpRec] /\ \A q \in Ops : OpInv(q)
  BY DEF IInv
<1>3. \A q \in Ops : op[q].pc \in Listing => op[q].scan.ever \cup Objects' \subseteq op[q].scan.ever
  BY <1>1, <1>2 DEF OpInv
<1>4. Tells(op)
  BY <1>2, <1>3 DEF Tells
<1>5. NamesWell(p, new) /\ Fits(p, new)
  BY DEF NamesWell, Fits
<1>6. new.pc \in Listing => Objects' \subseteq new.scan.ever
  BY <1>1
<1> HIDE DEF IInv
<1> QED BY <1>4, <1>5, <1>6, Step

\* A call that goes on at another place.
LEMMA AtPc ==
  ASSUME NEW o \in OpRec, NEW pc \in PCs
  PROVE  LET f == [o EXCEPT !.pc = pc] IN
         /\ f \in OpRec /\ f.pc = pc /\ f.kind = o.kind /\ f.key = o.key /\ f.body = o.body
         /\ f.file = o.file /\ f.scan = o.scan /\ f.result = o.result
BY DEF OpRec

\* A call that ends, with or without an error, and changes no object.
LEMMA FinishKeeps ==
  ASSUME IInv, NEW p \in Ops, NEW r \in ResultRec, op[p].pc \notin Ended, DiskTypes',
         op' = [op EXCEPT ![p] = Finished(op[p], r)], names' = names,
         \A q \in Ops : data[q] = "whole" => data'[q] = "whole"
  PROVE  IInv'
<1> DEFINE new == Finished(op[p], r)
<1>1. op[p] \in OpRec
  BY DEF IInv
<1>2. new \in OpRec /\ new.pc = "taken" /\ new.scan = NoScan
  BY <1>1, FinishedRec
<1>3. NoScan.ever = {}
  BY DEF NoScan, Scan
<1>4. op' = [op EXCEPT ![p] = new]
  OBVIOUS
<1> HIDE DEF new, IInv
<1>5. RecInv(new) /\ new.pc \notin {"rename", "read"} \cup Listing
  BY <1>2, <1>3 DEF RecInv, OnKey, Listing
<1>6. new.pc \in Ended
  BY <1>2 DEF Ended
<1> QED BY <1>2, <1>4, <1>5, <1>6, OneOp

\* Ends is such a step, with no body and no keys.
LEMMA EndsKeeps ==
  ASSUME IInv, NEW p \in Ops, NEW status \in {"none", "Ok", "Backend", "NotFound", "true", "false"},
         Ends(p, status), op[p].pc \notin Ended, DiskTypes', names' = names,
         \A q \in Ops : data[q] = "whole" => data'[q] = "whole"
  PROVE  IInv'
<1>1. Result(status, Absent, {}) \in ResultRec
  BY ResultFields
<1>2. op' = [op EXCEPT ![p] = Finished(op[p], Result(status, Absent, {}))]
  BY DEF Ends
<1> QED BY <1>1, <1>2, FinishKeeps

-----------------------------------------------------------------------------
(* The actions, one by one.                                                *)

\* What is there at the start is whole, and no call is under way.
LEMMA InitInv == Init => IInv
<1> SUFFICES ASSUME Init PROVE IInv
  OBVIOUS
<1>1. Unused \in OpRec /\ Unused.pc = "idle" /\ Unused.scan = NoScan
  <2>1. /\ "idle" \in PCs /\ "none" \in Kinds /\ NoScan \in ScanRec /\ NoResult \in ResultRec
    BY ScanFields, ResultFields DEF PCs, Kinds
  <2> QED BY SMT, <2>1, OpRecordRec DEF Unused
<1>2. NoScan.ever = {}
  BY DEF NoScan, Scan
<1>3. op \in [Ops -> OpRec] /\ \A p \in Ops : op[p] = Unused
  BY <1>1 DEF Init
<1>4. DiskTypes
  BY SMT, Distinct DEF Init, DiskTypes, Files
<1>5. ASSUME NEW k \in Keys PROVE NameInv(k)
  <2>1. PICK present \in SUBSET Keys :
          names = [j \in Keys |-> IF j \in present THEN j
                                  ELSE IF \E i \in present : j \in Above[i] THEN "dir" ELSE Absent]
    BY DEF Init
  <2>2. \/ names[k] = k
        \/ names[k] = "dir" /\ k \in Directories
        \/ names[k] = Absent
    BY <2>1, Paths
  <2> QED BY <2>2, Distinct DEF NameInv
<1>6. ASSUME NEW p \in Ops PROVE OpInv(p)
  BY <1>1, <1>2, <1>3 DEF OpInv, RecInv, OnKey, Listing
<1> QED BY <1>3, <1>4, <1>5, <1>6 DEF IInv

\* A call begins with a record of its own.
LEMMA CallKeeps ==
  ASSUME IInv, NEW p \in Ops, NEW kind \in DOMAIN FirstStep \cup {"list"}, NEW k \in Keys,
         NEW body \in Bodies \cup {Absent}, Call(p, kind, k, body)
  PROVE  IInv'
<1>1. DiskTypes' /\ names' = names /\ data' = data /\ op[p].pc = "idle"
  BY DEF IInv, DiskTypes, Call
<1>2. op[p].pc \notin Ended
  BY <1>1 DEF Ended
<1>3. Objects \in SUBSET Keys
  BY DEF Objects
<1>4. NoResult \in ResultRec /\ NoScan \in ScanRec /\ NoScan.ever = {}
  BY ResultFields, ScanFields
<1>5. CASE kind = "list"
  <2> DEFINE new == OpRecord("walk", kind, Absent, body, Scan({Root}, Objects), NoResult)
  <2>1. op' = [op EXCEPT ![p] = new]
    BY <1>5 DEF Call
  <2>2. "walk" \in PCs /\ kind \in Kinds
    BY <1>5 DEF PCs, Listing, Kinds
  <2>3. /\ Scan({Root}, Objects) \in ScanRec /\ Scan({Root}, Objects).ever = Objects
        /\ Scan({Root}, Objects).keys = {}
    BY <1>3 DEF Scan, ScanRec
  <2>4. /\ new \in OpRec /\ new.pc = "walk" /\ new.kind = "list"
        /\ new.scan = Scan({Root}, Objects)
    BY SMT, <2>2, <2>3, <1>4, <1>5, OpRecordRec
  <2> HIDE DEF new
  <2>5. /\ RecInv(new) /\ new.pc \notin {"rename", "read"}
        /\ Objects \subseteq new.scan.ever
    BY <2>3, <2>4 DEF RecInv, OnKey, Listing
  <2> QED BY <1>1, <1>2, <2>1, <2>4, <2>5, OneOp
<1>6. CASE kind # "list"
  <2> DEFINE new == OpRecord(FirstStep[kind], kind, k, body, NoScan, NoResult)
  <2>1. op' = [op EXCEPT ![p] = new]
    BY <1>6 DEF Call
  <2>2. kind \in Kinds /\ FirstStep[kind] \in {"mkdir", "unlink", "open", "stat"}
    BY <1>6, FirstSteps
  <2>3. FirstStep[kind] \in PCs
    BY <2>2 DEF PCs, OnKey
  <2>4. /\ new \in OpRec /\ new.pc = FirstStep[kind] /\ new.kind = kind /\ new.key = k
        /\ new.body = body /\ new.scan = NoScan
    <3> DEFINE pc == FirstStep[kind]
    <3>1. pc \in PCs /\ k \in Keys \cup {Absent} /\ body \in Bodies \cup {Absent}
      BY <2>3
    <3> HIDE DEF pc
    <3>2. LET f == OpRecord(pc, kind, k, body, NoScan, NoResult) IN
          f \in OpRec /\ f.pc = pc /\ f.kind = kind /\ f.key = k /\ f.body = body /\ f.scan = NoScan
      BY SMT, <3>1, <2>2, <1>4, OpRecordRec
    <3> QED BY <3>2 DEF pc
  <2>5. /\ FirstStep[kind] = "mkdir" => kind = "put"
        /\ FirstStep[kind] = "unlink" => kind = "delete"
        /\ FirstStep[kind] = "open" => kind = "get"
        /\ FirstStep[kind] = "stat" => kind \in {"head", "exists"}
    BY SMT, <1>6 DEF FirstStep
  <2>6. body # Absent <=> kind = "put"
    BY DEF Call
  <2> HIDE DEF new
  <2>7. RecInv(new) /\ new.pc \notin {"rename", "read"} \cup Listing
    BY <2>2, <2>4, <2>5, <2>6, <1>4 DEF RecInv, OnKey, Listing
  <2> QED BY <1>1, <1>2, <2>1, <2>4, <2>7, OneOp
<1> QED BY <1>5, <1>6

\* create_dir_all turns no file into a directory.
LEMMA MkdirKeeps ==
  ASSUME IInv, NEW p \in Ops, create_dir_all(p)
  PROVE  IInv'
<1> DEFINE k == op[p].key
<1>1. op[p] \in OpRec /\ OpInv(p) /\ DiskTypes /\ op[p].pc = "mkdir"
  BY DEF IInv, create_dir_all
<1>2. op[p].pc \notin Ended /\ k \in Keys
  BY <1>1 DEF Ended, OpInv, RecInv, OnKey
<1>3. CASE Ends(p, "Backend") /\ UNCHANGED names
  <2>1. DiskTypes' /\ data' = data
    BY <1>1, <1>3 DEF create_dir_all, DiskTypes
  <2> QED BY <2>1, <1>2, <1>3, EndsKeeps
<1>4. CASE HasPath(k) /\ Goes(p, "write") /\ UNCHANGED names
  <2> DEFINE new == [op[p] EXCEPT !.pc = "write"]
  <2>1. op' = [op EXCEPT ![p] = new]
    BY <1>4 DEF Goes
  <2>2. /\ new \in OpRec /\ new.pc = "write" /\ new.kind = op[p].kind /\ new.key = op[p].key
        /\ new.body = op[p].body /\ new.scan = op[p].scan
    <3>1. "write" \in PCs
      BY DEF PCs, OnKey
    <3> QED BY <1>1, <3>1, AtPc
  <2> HIDE DEF new
  <2>3. RecInv(new) /\ new.pc \notin {"rename", "read"} \cup Listing
    BY <1>1, <2>2 DEF OpInv, RecInv, OnKey, Listing
  <2>4. DiskTypes' /\ data' = data
    BY <1>1, <1>4 DEF create_dir_all, DiskTypes
  <2> QED BY <1>2, <1>4, <2>1, <2>2, <2>3, <2>4, OneOp
<1>5. CASE /\ \E d \in Above[k] : names[d] = Absent /\ HasPath(d) /\ names' = [names EXCEPT ![d] = "dir"]
           /\ UNCHANGED op
  <2>1. PICK d \in Above[k] : names[d] = Absent /\ names' = [names EXCEPT ![d] = "dir"]
    BY <1>5
  <2>2. d \in Keys /\ d \in Directories /\ Absent \notin Files /\ "dir" \notin Files
    BY <1>2, Paths, Distinct DEF Files
  <2>3. DiskTypes' /\ data' = data
    BY <1>1, <2>1, <2>2 DEF create_dir_all, DiskTypes
  <2>4. \A j \in Keys :
          \/ names'[j] = names[j]
          \/ {names[j], names'[j]} \cap Files = {} /\ (names'[j] = "dir" => j \in Directories)
    BY <1>1, <2>1, <2>2 DEF DiskTypes
  <2>5. op' = [op EXCEPT ![p] = op[p]]
    BY <1>5 DEF IInv
  <2>6. RecInv(op[p]) /\ op[p].pc \notin {"rename", "read"} \cup Listing
    BY <1>1 DEF OpInv, Listing
  <2> QED BY <1>1, <1>2, <2>3, <2>4, <2>5, <2>6, OneOp
<1> QED BY <1>3, <1>4, <1>5 DEF create_dir_all

\* A temporary file is not whole while it is written, and has no name of an object.
LEMMA WriteKeeps ==
  ASSUME IInv, NEW p \in Ops, write_tmp(p)
  PROVE  IInv'
<1>1. op[p] \in OpRec /\ OpInv(p) /\ DiskTypes /\ op[p].pc = "write" /\ data[p] # "whole"
  BY DEF IInv, write_tmp
<1>2. op[p].pc \notin Ended /\ op \in [Ops -> OpRec]
  BY <1>1 DEF Ended, IInv
<1>3. names' = names /\ DiskTypes' /\ \A q \in Ops : data[q] = "whole" => data'[q] = "whole"
  BY <1>1 DEF write_tmp, DiskTypes
<1>4. CASE UNCHANGED op
  <2>1. op' = [op EXCEPT ![p] = op[p]]
    BY <1>2, <1>4
  <2>2. RecInv(op[p]) /\ op[p].pc \notin {"rename", "read"} \cup Listing
    BY <1>1 DEF OpInv, Listing
  <2> QED BY <1>1, <1>2, <1>3, <2>1, <2>2, OneOp
<1>5. CASE data' = [data EXCEPT ![p] = "whole"] /\ Goes(p, "rename")
  <2> DEFINE new == [op[p] EXCEPT !.pc = "rename"]
  <2>1. op' = [op EXCEPT ![p] = new]
    BY <1>5 DEF Goes
  <2>2. /\ new \in OpRec /\ new.pc = "rename" /\ new.kind = op[p].kind /\ new.key = op[p].key
        /\ new.body = op[p].body /\ new.scan = op[p].scan
    <3>1. "rename" \in PCs
      BY DEF PCs, OnKey
    <3> QED BY <1>1, <3>1, AtPc
  <2> HIDE DEF new
  <2>3. RecInv(new) /\ new.pc \notin {"read"} \cup Listing
    BY <1>1, <2>2 DEF OpInv, RecInv, OnKey, Listing
  <2>4. data'[p] = "whole"
    BY <1>1, <1>5 DEF DiskTypes
  <2> QED BY <1>2, <1>3, <2>1, <2>2, <2>3, <2>4, OneOp
<1>6. CASE Ends(p, "Backend")
  BY <1>2, <1>3, <1>6, EndsKeeps
<1> QED BY <1>4, <1>5, <1>6 DEF write_tmp

\* rename and delete tell the listings under way what is there now.
LEMMA Told ==
  ASSUME IInv, NEW objects \in SUBSET Keys, Objects' = objects
  PROVE  Tells(Witnessed(op, objects))
<1> DEFINE w == Witnessed(op, objects)
<1>1. op \in [Ops -> OpRec]
  BY DEF IInv
<1>2. /\ w \in [Ops -> OpRec]
      /\ \A q \in Ops :
           /\ w[q].pc = op[q].pc /\ w[q].kind = op[q].kind /\ w[q].key = op[q].key
           /\ w[q].body = op[q].body /\ w[q].file = op[q].file /\ w[q].result = op[q].result
           /\ w[q].scan.keys = op[q].scan.keys
           /\ w[q].scan.ever = IF op[q].pc \in Listing
                               THEN op[q].scan.ever \cup objects ELSE op[q].scan.ever
  BY <1>1, WitnessedRec
<1> HIDE DEF w
<1>3. Tells(w)
  BY <1>2 DEF Tells
<1> QED BY <1>3 DEF w

\* A put gives its whole file the name of its key.
LEMMA RenameKeeps ==
  ASSUME IInv, NEW p \in Ops, rename(p)
  PROVE  IInv'
<1> DEFINE k == op[p].key
           new == Finished(op[p], Result("Ok", Absent, {}))
           w == Witnessed(op, Objects \cup {k})
<1>1. /\ op[p] \in OpRec /\ OpInv(p) /\ DiskTypes /\ op[p].pc = "rename" /\ data' = data
      /\ crashes' = crashes
  BY DEF IInv, rename
<1>2. /\ op[p].pc \notin Ended /\ k \in Keys /\ op[p].body \in Bodies /\ data[p] = "whole"
  BY <1>1 DEF Ended, OpInv, RecInv, OnKey
<1>3. CASE Ends(p, "Backend") /\ UNCHANGED <<names, temps>>
  <2>1. DiskTypes'
    BY <1>1, <1>3 DEF DiskTypes
  <2> QED BY <2>1, <1>1, <1>2, <1>3, EndsKeeps
<1>4. CASE /\ names' = [names EXCEPT ![k] = p] /\ temps' = temps \ {p}
           /\ op' = [w EXCEPT ![p] = new]
  <2>1. DiskTypes'
    BY <1>1, <1>2, <1>4 DEF DiskTypes, Files
  <2>2. Objects' = Objects \cup {k}
    BY <1>1, <1>2, <1>4 DEF DiskTypes, Objects, IsFile, Files
  <2>3. Objects \cup {k} \in SUBSET Keys
    BY <1>2 DEF Objects
  <2>4. new \in OpRec /\ new.pc = "taken" /\ new.scan = NoScan /\ new.key = k /\ new.body = op[p].body
    BY SMT, <1>1, FinishedRec, ResultFields
  <2>5. RecInv(new) /\ new.pc \notin {"rename", "read"} \cup Listing /\ new.pc \in Ended
    <3>1. NoScan.ever = {}
      BY DEF NoScan, Scan
    <3> HIDE DEF new
    <3> QED BY <2>4, <3>1 DEF RecInv, OnKey, Listing, Ended
  <2>6. \A j \in Keys :
          \/ names'[j] = names[j]
          \/ names'[j] = p /\ new.key = j /\ new.pc \in Ended /\ new.body \in Bodies /\ data'[p] = "whole"
    BY <1>1, <1>2, <1>4, <2>4, <2>5 DEF DiskTypes
  <2>7. op' = [w EXCEPT ![p] = new]
    BY <1>4
  <2>8. Tells(w)
    BY <2>2, <2>3, Told
  <2>9. NamesWell(p, new) /\ Fits(p, new)
    BY <1>1, <1>2, <2>4, <2>5, <2>6 DEF NamesWell, Fits
  <2> HIDE DEF new, w, k
  <2> QED BY <1>1, <2>1, <2>5, <2>7, <2>8, <2>9, Step
<1> QED BY <1>3, <1>4 DEF rename

\* A deletion takes a name away.
LEMMA DeleteKeeps ==
  ASSUME IInv, NEW p \in Ops, delete(p)
  PROVE  IInv'
<1> DEFINE k == op[p].key
           new == Finished(op[p], Result("Ok", Absent, {}))
           w == Witnessed(op, Objects \ {k})
<1>1. /\ op[p] \in OpRec /\ OpInv(p) /\ DiskTypes /\ op[p].pc = "unlink" /\ data' = data
      /\ crashes' = crashes /\ temps' = temps
  BY DEF IInv, delete
<1>2. op[p].pc \notin Ended /\ k \in Keys /\ Absent \notin Files /\ Absent # "dir"
  BY <1>1, Distinct DEF Ended, OpInv, RecInv, OnKey, Files
<1>3. CASE Ends(p, "Backend") /\ UNCHANGED names
  <2>1. DiskTypes'
    BY <1>1, <1>3 DEF DiskTypes
  <2> QED BY <2>1, <1>1, <1>2, <1>3, EndsKeeps
<1>4. CASE names' = [names EXCEPT ![k] = Absent] /\ op' = [w EXCEPT ![p] = new]
  <2>1. DiskTypes'
    BY <1>1, <1>2, <1>4 DEF DiskTypes
  <2>2. Objects' = Objects \ {k}
    BY <1>1, <1>2, <1>4 DEF DiskTypes, Objects, IsFile
  <2>3. Objects \ {k} \in SUBSET Keys
    BY DEF Objects
  <2>4. new \in OpRec /\ new.pc = "taken" /\ new.scan = NoScan
    BY SMT, <1>1, FinishedRec, ResultFields
  <2>5. RecInv(new) /\ new.pc \notin {"rename", "read"} \cup Listing /\ new.pc \in Ended
    <3>1. NoScan.ever = {}
      BY DEF NoScan, Scan
    <3> HIDE DEF new
    <3> QED BY <2>4, <3>1 DEF RecInv, OnKey, Listing, Ended
  <2>6. \A j \in Keys :
          \/ names'[j] = names[j]
          \/ names'[j] \notin Files /\ (names'[j] = "dir" => j \in Directories)
    BY <1>1, <1>2, <1>4 DEF DiskTypes
  <2>7. op' = [w EXCEPT ![p] = new]
    BY <1>4
  <2>8. Tells(w)
    BY <2>2, <2>3, Told
  <2>9. NamesWell(p, new) /\ Fits(p, new)
    BY <1>1, <1>2, <2>4, <2>5, <2>6 DEF NamesWell, Fits
  <2> HIDE DEF new, w, k
  <2> QED BY <1>1, <2>1, <2>5, <2>7, <2>8, <2>9, Step
<1> QED BY <1>3, <1>4 DEF delete

\* A reader holds a file some name led to.
LEMMA OpenKeeps ==
  ASSUME IInv, NEW p \in Ops, open(p)
  PROVE  IInv'
<1> DEFINE k == op[p].key
<1>1. op[p] \in OpRec /\ OpInv(p) /\ DiskTypes' /\ op[p].pc = "open" /\ data' = data /\ names' = names
  BY DEF IInv, open, DiskTypes
<1>2. op[p].pc \notin Ended /\ k \in Keys
  BY <1>1 DEF Ended, OpInv, RecInv, OnKey
<1>3. CASE Ends(p, "Backend") \/ Ends(p, "NotFound")
  BY <1>1, <1>2, <1>3, EndsKeeps
<1>4. CASE IsFile(names[k]) /\ op' = [op EXCEPT ![p].pc = "read", ![p].file = names[k]]
  <2> DEFINE new == [op[p] EXCEPT !.pc = "read", !.file = names[k]]
  <2>1. op' = [op EXCEPT ![p] = new]
    BY <1>4
  <2>2. names[k] \in Files /\ NameInv(k)
    BY <1>2, <1>4 DEF IsFile, IInv
  <2>3. Whole(names[k]) /\ (names[k] \in Ops => op[names[k]].pc \in Ended)
    BY <2>2 DEF NameInv, Whole, Files
  <2>4. /\ new \in OpRec /\ new.pc = "read" /\ new.kind = op[p].kind /\ new.file = names[k]
        /\ new.scan = op[p].scan
    BY <1>1, <2>2 DEF OpRec, PCs
  <2> HIDE DEF new
  <2>5. RecInv(new) /\ new.pc \notin {"rename"} \cup Listing
    BY <1>1, <2>4 DEF OpInv, RecInv, OnKey, Listing
  <2> QED BY <1>1, <1>2, <2>1, <2>2, <2>3, <2>4, <2>5, OneOp
<1> QED BY <1>3, <1>4 DEF open

\* get, head, exists and list end, and touch nothing.
LEMMA ReadsKeep ==
  ASSUME IInv, NEW p \in Ops, get(p) \/ head(p) \/ exists(p) \/ list(p)
  PROVE  IInv'
<1>1. op[p] \in OpRec /\ OpInv(p) /\ DiskTypes' /\ data' = data /\ names' = names
  BY DEF IInv, get, head, exists, list, DiskTypes
<1>2. op[p].pc \notin Ended
  BY DEF Ended, get, head, exists, list
<1>3. CASE get(p)
  <2> DEFINE body == IF Whole(op[p].file) THEN Body(op[p].file) ELSE "torn"
  <2>1. op[p].file \in Files
    BY <1>1, <1>3 DEF get, OpInv
  <2>2. body \in Bodies \cup {Absent, "torn"}
    <3>1. op[p].file \in Ops => op[op[p].file].body \in Bodies \cup {Absent}
      BY DEF IInv, OpRec
    <3> QED BY <2>1, <3>1, Distinct DEF Body, Files
  <2>3. op' = [op EXCEPT ![p] = Finished(op[p], Result("Ok", body, {}))]
    BY <1>3 DEF get
  <2> HIDE DEF body
  <2>4. Result("Ok", body, {}) \in ResultRec
    BY <2>2, ResultFields
  <2> QED BY <1>1, <1>2, <2>3, <2>4, FinishKeeps
<1>4. CASE head(p)
  <2>1. PICK status \in {"Backend", "NotFound", "Ok"} : Ends(p, status)
    BY <1>4 DEF head
  <2> QED BY <1>1, <1>2, <2>1, EndsKeeps
<1>5. CASE exists(p)
  <2>1. PICK status \in {"false", "true"} : Ends(p, status)
    BY <1>5 DEF exists
  <2> QED BY <1>1, <1>2, <2>1, EndsKeeps
<1>6. CASE list(p)
  <2>1. op[p].scan.keys \in SUBSET Keys
    BY <1>1 DEF OpRec, ScanRec
  <2>2. op' = [op EXCEPT ![p] = Finished(op[p], Result("Ok", Absent, op[p].scan.keys))]
    BY <1>6 DEF list
  <2>3. Result("Ok", Absent, op[p].scan.keys) \in ResultRec
    BY <2>1, ResultFields
  <2> QED BY <1>1, <1>2, <2>2, <2>3, FinishKeeps
<1> QED BY <1>3, <1>4, <1>5, <1>6

\* A listing that goes on knows no key but of objects that were there.
LEMMA ScansKeep ==
  ASSUME IInv, NEW p \in Ops, NEW pc \in Listing, NEW scan \in ScanRec, op[p].pc \in Listing,
         Scans(p, pc, scan), scan.ever = op[p].scan.ever, scan.keys \subseteq scan.ever,
         UNCHANGED <<names, temps, data, crashes>>
  PROVE  IInv'
<1> DEFINE new == [op[p] EXCEPT !.pc = pc, !.scan = scan]
<1>1. op[p] \in OpRec /\ OpInv(p) /\ DiskTypes' /\ data' = data /\ names' = names
  BY DEF IInv, DiskTypes
<1>2. op[p].pc \notin Ended
  BY DEF Ended, Listing
<1>3. op' = [op EXCEPT ![p] = new]
  BY DEF Scans
<1>4. new \in OpRec /\ new.pc = pc /\ new.kind = op[p].kind /\ new.scan = scan
  BY <1>1 DEF OpRec, PCs
<1> HIDE DEF new
<1>5. RecInv(new) /\ new.pc \notin {"rename", "read"}
  BY <1>1, <1>4 DEF OpInv, RecInv, OnKey, Listing
<1>6. Objects \subseteq new.scan.ever
  BY <1>1, <1>4 DEF OpInv
<1> QED BY <1>1, <1>2, <1>3, <1>4, <1>5, <1>6, OneOp

\* collect_recursive, entry by entry: what it reads changes the scan, and adds no key but
\* of an object.
LEMMA WalkScans ==
  ASSUME IInv, NEW p \in Ops,
         read_dir(p) \/ (\E e \in Files : next_entry(p, e)) \/ EndOfDir(p)
  PROVE  /\ op[p].pc \in Listing /\ UNCHANGED <<names, temps, data, crashes>>
         /\ \E pc \in Listing, scan \in ScanRec :
              Scans(p, pc, scan) /\ scan.ever = op[p].scan.ever /\ scan.keys \subseteq scan.ever
<1> DEFINE o == op[p].scan
<1>1. op[p] \in OpRec /\ OpInv(p) /\ op[p].pc \in Listing /\ UNCHANGED <<names, temps, data, crashes>>
  BY DEF IInv, read_dir, next_entry, EndOfDir, Listing
<1>2. o \in ScanRec /\ o.keys \subseteq o.ever /\ Objects \subseteq o.ever
  BY <1>1 DEF OpInv, RecInv, OpRec
<1>3. \A d : Entries(d) \subseteq Files
  BY DEF Entries, Files, IInv, DiskTypes
<1>4. "walk" \in Listing /\ "entries" \in Listing
  BY DEF Listing
<1>5. CASE read_dir(p)
  <2>1. PICK d \in o.dirs :
          \/ Scans(p, "entries", [o EXCEPT !.dirs = @ \ {d}, !.dir = d, !.due = Entries(d)])
          \/ Scans(p, "walk", [o EXCEPT !.dirs = @ \ {d}, !.cut = TRUE])
    BY <1>5 DEF read_dir
  <2> DEFINE s1 == [o EXCEPT !.dirs = @ \ {d}, !.dir = d, !.due = Entries(d)]
             s2 == [o EXCEPT !.dirs = @ \ {d}, !.cut = TRUE]
  <2>2. /\ s1 \in ScanRec /\ s1.ever = o.ever /\ s1.keys = o.keys
        /\ s2 \in ScanRec /\ s2.ever = o.ever /\ s2.keys = o.keys
    <3> HIDE DEF o
    <3> QED BY <1>2, <1>3 DEF ScanRec
  <2>3. Scans(p, "entries", s1) \/ Scans(p, "walk", s2)
    BY <2>1
  <2> HIDE DEF s1, s2
  <2> QED BY <1>1, <1>2, <1>4, <2>2, <2>3
<1>6. CASE \E e \in Files : next_entry(p, e)
  <2>1. PICK e \in Files : next_entry(p, e)
    BY <1>6
  <2> DEFINE there == e \in Entries(o.dir) /\ ~IsTemp(e)
             new == IF there THEN {e} ELSE {}
             s1 == [o EXCEPT !.due = @ \ {e}, !.dirs = @ \cup new]
             s2 == [o EXCEPT !.due = @ \ {e}, !.keys = @ \cup new]
  <2>2. new \subseteq Keys /\ (new # {} => names[e] # Absent)
    BY DEF Entries, IsTemp, IInv, DiskTypes
  <2>3. /\ s1 \in ScanRec /\ s1.ever = o.ever /\ s1.keys = o.keys
        /\ s2 \in ScanRec /\ s2.ever = o.ever /\ s2.keys = o.keys \cup new
    <3> HIDE DEF o, new
    <3> QED BY <1>2, <2>2 DEF ScanRec
  <2>4. \/ Scans(p, "entries", s1)
        \/ ~(there /\ names[e] = "dir") /\ Scans(p, "entries", s2)
    BY <2>1 DEF next_entry
  <2>5. ~(there /\ names[e] = "dir") => new \subseteq Objects
    BY <2>2 DEF Objects, IsFile, IInv, DiskTypes
  <2> HIDE DEF s1, s2, new, there
  <2> QED BY <1>1, <1>2, <1>4, <2>3, <2>4, <2>5
<1>7. CASE EndOfDir(p)
  <2> DEFINE missed == o.due \cap Entries(o.dir) # {}
             s1 == [o EXCEPT !.dir = Absent, !.due = {}, !.cut = @ \/ missed]
  <2>1. Scans(p, "walk", s1)
    BY <1>7 DEF EndOfDir
  <2>2. s1 \in ScanRec /\ s1.ever = o.ever /\ s1.keys = o.keys
    <3>1. missed \in BOOLEAN
      OBVIOUS
    <3> HIDE DEF o, missed
    <3> QED BY <1>2, <3>1 DEF ScanRec
  <2> HIDE DEF s1
  <2> QED BY <1>1, <1>2, <1>4, <2>1, <2>2
<1> QED BY <1>5, <1>6, <1>7

\* A step of a listing's walk through the directories keeps the invariant.
LEMMA WalkKeeps ==
  ASSUME IInv, NEW p \in Ops,
         read_dir(p) \/ (\E e \in Files : next_entry(p, e)) \/ EndOfDir(p)
  PROVE  IInv'
<1>1. op[p].pc \in Listing /\ UNCHANGED <<names, temps, data, crashes>>
  BY WalkScans
<1>2. PICK pc \in Listing, scan \in ScanRec :
        Scans(p, pc, scan) /\ scan.ever = op[p].scan.ever /\ scan.keys \subseteq scan.ever
  BY WalkScans
<1> QED BY <1>1, <1>2, ScansKeep

\* A call returns.
LEMMA ReturnKeeps ==
  ASSUME IInv, NEW p \in Ops, Return(p)
  PROVE  IInv'
<1> DEFINE new == [op[p] EXCEPT !.pc = "done"]
<1>1. op[p] \in OpRec /\ OpInv(p) /\ DiskTypes' /\ data' = data /\ names' = names /\ op[p].pc = "taken"
  BY DEF IInv, DiskTypes, Return
<1>2. op' = [op EXCEPT ![p] = new]
  BY DEF Return, Goes
<1>3. /\ new \in OpRec /\ new.pc = "done" /\ new.key = op[p].key /\ new.body = op[p].body
      /\ new.scan = op[p].scan
  <2>1. "done" \in PCs
    BY DEF PCs, Ended
  <2> QED BY <1>1, <2>1, AtPc
<1> HIDE DEF new
<1>4. RecInv(new) /\ new.pc \notin {"rename", "read"} \cup Listing /\ new.pc \in Ended
  BY <1>1, <1>3 DEF OpInv, RecInv, OnKey, Listing, Ended
<1> QED BY <1>1, <1>2, <1>3, <1>4, OneOp

\* A crash ends every call under way; a put keeps the file it renamed.
LEMMA CrashRec ==
  ASSUME IInv, Crash
  PROVE  /\ op' \in [Ops -> OpRec]
         /\ \A q \in Ops :
              /\ op[q].pc \in {"idle", "done"} => op'[q] = op[q]
              /\ op[q].pc \notin {"idle", "done"} =>
                   /\ op'[q].pc = "lost" /\ op'[q].kind = "none" /\ op'[q].result = NoResult
                   /\ op'[q].scan.ever = {}
              /\ op'[q].key = op[q].key /\ op'[q].body = op[q].body
<1>1. ASSUME NEW q \in Ops
      PROVE  LET o == OpRecord("lost", "none", op[q].key, op[q].body, NoScan, NoResult) IN
             /\ o \in OpRec /\ o.pc = "lost" /\ o.kind = "none" /\ o.result = NoResult
             /\ o.scan.ever = {} /\ o.key = op[q].key /\ o.body = op[q].body
  <2>1. /\ op[q].key \in Keys \cup {Absent} /\ op[q].body \in Bodies \cup {Absent}
    BY DEF IInv, OpRec
  <2>2. NoResult \in ResultRec /\ NoScan \in ScanRec /\ NoScan.ever = {}
    BY ResultFields, ScanFields
  <2>3. "lost" \in PCs /\ "none" \in Kinds
    BY DEF PCs, Ended, Kinds
  <2> QED BY <2>1, <2>2, <2>3 DEF OpRecord, OpRec
<1>2. op \in [Ops -> OpRec]
  BY DEF IInv
<1>3. /\ op' = [q \in Ops |-> op'[q]]
      /\ \A q \in Ops : op'[q] = IF op[q].pc \in {"idle", "done"} THEN op[q]
                         ELSE OpRecord("lost", "none", op[q].key, op[q].body, NoScan, NoResult)
  BY DEF Crash
<1>4. ASSUME NEW q \in Ops
      PROVE  /\ op'[q] \in OpRec
             /\ op[q].pc \in {"idle", "done"} => op'[q] = op[q]
             /\ op[q].pc \notin {"idle", "done"} =>
                  /\ op'[q].pc = "lost" /\ op'[q].kind = "none" /\ op'[q].result = NoResult
                  /\ op'[q].scan.ever = {}
             /\ op'[q].key = op[q].key /\ op'[q].body = op[q].body
  BY <1>1, <1>2, <1>3
<1>5. op' \in [Ops -> OpRec]
  BY <1>3, <1>4
<1> QED BY <1>4, <1>5

\* A crash keeps the invariant: every call is over, and the files stay.
LEMMA CrashKeeps ==
  ASSUME IInv, Crash
  PROVE  IInv'
<1>1. DiskTypes' /\ data' = data /\ names' = names
  BY SMT, Distinct DEF IInv, DiskTypes, Crash
<1>2. ASSUME NEW q \in Ops, op[q].pc \in Ended
      PROVE  op'[q].pc \in Ended /\ op'[q].key = op[q].key /\ op'[q].body = op[q].body
  BY <1>2, CrashRec DEF Ended
<1>3. ASSUME NEW k \in Keys PROVE NameInv(k)'
  BY <1>1, <1>2 DEF IInv, NameInv
<1>4. ASSUME NEW q \in Ops PROVE OpInv(q)'
  <2>1. OpInv(q)
    BY DEF IInv
  <2>2. CASE op[q].pc \in {"idle", "done"}
    <3>1. op'[q] = op[q]
      BY <2>2, CrashRec
    <3> QED BY <2>1, <2>2, <3>1 DEF OpInv, Listing
  <2>3. CASE op[q].pc \notin {"idle", "done"}
    <3>1. /\ op'[q].pc = "lost" /\ op'[q].kind = "none" /\ op'[q].result = NoResult
          /\ op'[q].scan.ever = {}
      BY <2>3, CrashRec
    <3>2. RecInv(op'[q])
      BY <3>1 DEF RecInv, OnKey, Listing
    <3> QED BY <3>1, <3>2 DEF OpInv, Listing
  <2> QED BY <2>2, <2>3
<1>5. op' \in [Ops -> OpRec]
  BY CrashRec
<1> QED BY <1>1, <1>3, <1>4, <1>5 DEF IInv

\* Every step of the driver keeps the invariant.
LEMMA NextKeeps == IInv /\ [Next]_vars => IInv'
<1> SUFFICES ASSUME IInv, [Next]_vars PROVE IInv'
  OBVIOUS
<1>1. CASE UNCHANGED vars
  BY <1>1 DEF vars, IInv, DiskTypes, NameInv, OpInv, Objects, Whole, IsFile
<1>2. ASSUME NEW p \in Ops, NEW kind \in DOMAIN FirstStep \cup {"list"}, NEW k \in Keys,
             NEW body \in Bodies \cup {Absent}, Call(p, kind, k, body)
      PROVE  IInv'
  BY <1>2, CallKeeps
<1>3. ASSUME NEW p \in Ops,
             create_dir_all(p) \/ write_tmp(p) \/ rename(p) \/ delete(p) \/ open(p)
      PROVE  IInv'
  BY <1>3, MkdirKeeps, WriteKeeps, RenameKeeps, DeleteKeeps, OpenKeeps
<1>4. ASSUME NEW p \in Ops,
             \/ get(p) \/ head(p) \/ exists(p) \/ list(p) \/ Return(p)
             \/ read_dir(p) \/ (\E e \in Files : next_entry(p, e)) \/ EndOfDir(p)
      PROVE  IInv'
  BY <1>4, ReadsKeep, WalkKeeps, ReturnKeeps
<1>5. CASE Crash
  BY <1>5, CrashKeeps
<1> HIDE DEF IInv
<1> QED BY <1>1, <1>2, <1>3, <1>4, <1>5 DEF Next

\* The invariant of the local driver, whatever calls overlap and wherever it
\* crashes (local.rs: put, get, delete, list).
THEOREM Invariance == Spec => []IInv
<1> QED BY InitInv, NextKeeps, PTL DEF Spec

\* Names, files, temporary files and calls keep their types (local.rs).
THEOREM TypeCorrect == Spec => []TypeOK
<1>1. IInv => TypeOK
  <2> SUFFICES ASSUME IInv PROVE TypeOK
    OBVIOUS
  <2>1. ASSUME NEW p \in Ops
        PROVE  /\ op[p].pc \in {"mkdir", "write", "rename", "unlink", "open", "stat", "walk", "entries"} \cup Running
               /\ op[p].key \in Keys \cup {Absent} /\ op[p].body \in Bodies \cup {Absent}
               /\ op[p].file \in Files \cup {Absent} /\ op[p].scan.dirs \subseteq Keys \cup {Root}
               /\ op[p].scan.keys \cup op[p].result.keys \subseteq Keys
    <3>1. op[p] \in OpRec
      BY DEF IInv
    <3>2. op[p].scan \in ScanRec /\ op[p].result \in ResultRec /\ op[p].pc \in PCs
      BY <3>1 DEF OpRec
    <3>3. op[p].pc \in {"mkdir", "write", "rename", "unlink", "open", "stat", "walk", "entries"} \cup Running
      BY <3>2 DEF PCs, OnKey, Listing, Ended, Running
    <3>4. /\ op[p].scan.dirs \subseteq Keys \cup {Root}
          /\ op[p].scan.keys \cup op[p].result.keys \subseteq Keys
      BY <3>2 DEF ScanRec, ResultRec
    <3>5. /\ op[p].key \in Keys \cup {Absent} /\ op[p].body \in Bodies \cup {Absent}
          /\ op[p].file \in Files \cup {Absent}
      BY <3>1 DEF OpRec
    <3> QED BY <3>3, <3>4, <3>5
  <2> QED BY <2>1 DEF IInv, DiskTypes, TypeOK
<1> QED BY <1>1, Invariance, PTL

\* No name of an object, and no reader, ever leads to a file that put has not wholly
\* written (temp file and rename), and no two keys share a file.
THEOREM NothingTornIsSeen == Spec => []ObjectsAreWhole
<1>1. IInv => ObjectsAreWhole
  <2> SUFFICES ASSUME IInv PROVE ObjectsAreWhole
    OBVIOUS
  <2>1. ASSUME NEW k \in Keys, IsFile(names[k]) PROVE Whole(names[k])
    BY <2>1 DEF IInv, NameInv, IsFile, Whole, Files
  <2>2. ASSUME NEW p \in Ops, op[p].pc = "read" PROVE Whole(op[p].file)
    BY <2>2 DEF IInv, OpInv
  <2>3. ASSUME NEW j \in Keys, NEW k \in Keys, IsFile(names[j]), names[j] = names[k] PROVE j = k
    BY SMT, <2>3 DEF IInv, NameInv, IsFile, Files
  <2> QED BY <2>1, <2>2, <2>3 DEF ObjectsAreWhole
<1> QED BY <1>1, Invariance, PTL

-----------------------------------------------------------------------------
(* The driver implements ObjectStore: a put takes effect when it renames,  *)
(* a deletion when it unlinks, a get when it opens the file, and any other *)
(* call, or one that fails, when it ends.                                  *)

BodiesKept == \A q \in Ops : op[q].pc \in Ended => op'[q].body = op[q].body
Pending == OnKey \cup Listing

\* What the file of an ended put holds does not change.
LEMMA BodyKept ==
  ASSUME NEW f \in Files, BodiesKept, f \in Ops => op[f].pc \in Ended
  PROVE  Body(f)' = Body(f)
BY DEF Body, Files, BodiesKept

\* The abstract store holds a body under exactly the names of files.
LEMMA StoreType ==
  ASSUME IInv
  PROVE  /\ AbstractStore \in [Keys -> {Absent} \cup Bodies]
         /\ \A k \in Keys : AbstractStore[k] # Absent <=> k \in Objects
         /\ Abstract!Present(AbstractStore) = Objects
<1>1. \A k \in Keys : IsFile(names[k]) => Body(names[k]) \in Bodies
  BY Distinct DEF IInv, NameInv, IsFile, Body, Files
<1>2. /\ AbstractStore \in [Keys -> {Absent} \cup Bodies]
      /\ \A k \in Keys : AbstractStore[k] # Absent <=> k \in Objects
  BY <1>1, Distinct DEF AbstractStore, Objects
<1> QED BY <1>2 DEF Abstract!Present, Objects

\* The abstract store is the same while no file gets or loses a name.
LEMMA StoreKept ==
  ASSUME IInv, BodiesKept,
         \A k \in Keys : names'[k] = names[k] \/ {names[k], names'[k]} \cap Files = {}
  PROVE  AbstractStore' = AbstractStore
<1>1. ASSUME NEW k \in Keys, IsFile(names[k]), names'[k] = names[k]
      PROVE  Body(names[k])' = Body(names[k])
  BY <1>1, BodyKept DEF IInv, NameInv, IsFile, Files, BodiesKept, Body
<1>2. ASSUME NEW k \in Keys
      PROVE  (IF IsFile(names[k])' THEN Body(names[k])' ELSE Absent)
               = (IF IsFile(names[k]) THEN Body(names[k]) ELSE Absent)
  BY <1>1, <1>2 DEF IsFile
<1> QED BY <1>2 DEF AbstractStore

\* A call that is not touched looks the same.
LEMMA ViewKept ==
  ASSUME IInv, BodiesKept, NEW q \in Ops, op'[q] = op[q]
  PROVE  AbstractOps'[q] = AbstractOps[q]
<1>1. op[q].pc = "read" => op[q].file \in Files /\ (op[q].file \in Ops => op[op[q].file].pc \in Ended)
  BY DEF IInv, OpInv
<1>2. op[q].pc = "read" => Body(op[q].file)' = Body(op[q].file)
  BY <1>1 DEF Body, Files, BodiesKept
<1> QED BY <1>2 DEF AbstractOps, AbstractOp

\* A step of one call changes the look of that call only.
LEMMA OneView ==
  ASSUME IInv, BodiesKept, NEW p \in Ops, NEW new, op' = [op EXCEPT ![p] = new]
  PROVE  AbstractOps' = [AbstractOps EXCEPT ![p] = AbstractOps'[p]]
<1>1. \A q \in Ops \ {p} : op'[q] = op[q]
  BY DEF IInv
<1>2. \A q \in Ops \ {p} : AbstractOps'[q] = AbstractOps[q]
  BY <1>1, ViewKept
<1>3. AbstractOps' = [q \in Ops |-> AbstractOps'[q]] /\ AbstractOps = [q \in Ops |-> AbstractOps[q]]
  BY SMT DEF AbstractOps
<1> HIDE DEF AbstractOps
<1> QED BY <1>2, <1>3

\* A call under way is pending, with all but its place in the code in sight.
LEMMA PendingView ==
  ASSUME IInv, NEW p \in Ops, op[p].pc \in Pending
  PROVE  /\ AbstractOps[p] = [pc |-> "pending", kind |-> op[p].kind, ever |-> op[p].scan.ever,
                              key |-> op[p].key, body |-> op[p].body, result |-> op[p].result]
         /\ AbstractOps[p].pc = "pending" /\ AbstractOps[p].kind = op[p].kind
         /\ AbstractOps[p].ever = op[p].scan.ever /\ AbstractOps[p].key = op[p].key
         /\ AbstractOps[p].body = op[p].body /\ AbstractOps[p].result = op[p].result
<1>1. AbstractOps[p] = [pc |-> "pending", kind |-> op[p].kind, ever |-> op[p].scan.ever,
                        key |-> op[p].key, body |-> op[p].body, result |-> op[p].result]
  BY DEF Pending, OnKey, Listing, AbstractOps, AbstractOp, Running
<1>2. /\ AbstractOps[p].pc = "pending" /\ AbstractOps[p].kind = op[p].kind
      /\ AbstractOps[p].ever = op[p].scan.ever /\ AbstractOps[p].key = op[p].key
      /\ AbstractOps[p].body = op[p].body /\ AbstractOps[p].result = op[p].result
  BY SMT, <1>1
<1> QED BY <1>1, <1>2

\* A call that ends is taken, with its result.
LEMMA FinishView ==
  ASSUME IInv, NEW p \in Ops, NEW r \in ResultRec, op[p].pc \in Pending,
         op' = [op EXCEPT ![p] = Finished(op[p], r)]
  PROVE  /\ BodiesKept
         /\ AbstractOps' = [AbstractOps EXCEPT ![p] = Abstract!Taken(AbstractOps[p], r)]
<1>1. op \in [Ops -> OpRec] /\ op[p] \in OpRec
  BY DEF IInv
<1>2. LET f == Finished(op[p], r) IN
      f.pc = "taken" /\ f.kind = op[p].kind /\ f.key = op[p].key /\ f.body = op[p].body
      /\ f.result = r /\ f.scan.ever = {}
  <2>1. NoScan.ever = {}
    BY DEF NoScan, Scan
  <2> QED BY <1>1, <2>1, FinishedRec
<1>3. op'[p] = Finished(op[p], r)
  BY <1>1
<1>4. BodiesKept
  BY <1>1, <1>2, <1>3 DEF BodiesKept
<1>5. AbstractOps'[p] = [pc |-> "taken", kind |-> op[p].kind, ever |-> {},
                         key |-> op[p].key, body |-> op[p].body, result |-> r]
  BY <1>2, <1>3 DEF AbstractOps, AbstractOp, Running
<1>6. AbstractOps'[p] = Abstract!Taken(AbstractOps[p], r)
  BY <1>5, PendingView DEF Abstract!Taken, Abstract!OpRecord
<1>7. AbstractOps' = [AbstractOps EXCEPT ![p] = AbstractOps'[p]]
  BY <1>4, OneView
<1> QED BY <1>4, <1>6, <1>7

\* So it takes effect in the abstract store, if the result is one it may have there.
LEMMA Takes ==
  ASSUME IInv, NEW p \in Ops, NEW r \in ResultRec, op[p].pc \in Pending, names' = names,
         op' = [op EXCEPT ![p] = Finished(op[p], r)],
         r \in Abstract!Outcomes(AbstractOps[p], AbstractStore)
  PROVE  Abstract!Next
<1>1. AbstractOps[p].pc = "pending"
  BY PendingView
<1>2. /\ BodiesKept
      /\ AbstractOps' = [AbstractOps EXCEPT ![p] = Abstract!Taken(AbstractOps[p], r)]
  BY FinishView
<1>3. AbstractStore' = AbstractStore
  BY <1>2, StoreKept
<1>4. Abstract!Take(p)
  BY <1>1, <1>2, <1>3 DEF Abstract!Take
<1> QED BY <1>4 DEF Abstract!Next

\* Any call may fail with a Backend error and change nothing.
LEMMA Fails ==
  ASSUME IInv, NEW p \in Ops, op[p].pc \in Pending, names' = names, Ends(p, "Backend")
  PROVE  Abstract!Next
<1> DEFINE r == Result("Backend", Absent, {})
<1>1. r \in ResultRec
  BY ResultFields
<1>2. op' = [op EXCEPT ![p] = Finished(op[p], r)]
  BY DEF Ends
<1>3. r \in Abstract!Outcomes(AbstractOps[p], AbstractStore)
  BY DEF Abstract!Outcomes, Abstract!Result, Result
<1> HIDE DEF r
<1> QED BY <1>1, <1>2, <1>3, Takes

\* A step that keeps a pending call pending is none of the abstract store's.
LEMMA Stutters ==
  ASSUME IInv, NEW p \in Ops, NEW new \in OpRec, op' = [op EXCEPT ![p] = new],
         op[p].pc \in Pending, new.pc \in Pending, new.kind = op[p].kind, new.key = op[p].key,
         new.body = op[p].body, new.result = op[p].result, new.scan.ever = op[p].scan.ever,
         \A k \in Keys : names'[k] = names[k] \/ {names[k], names'[k]} \cap Files = {}
  PROVE  UNCHANGED Abstract!vars
<1>1. op \in [Ops -> OpRec] /\ op'[p] = new
  BY DEF IInv
<1>2. BodiesKept
  BY <1>1 DEF BodiesKept
<1>3. AbstractOps'[p] = [pc |-> "pending", kind |-> op[p].kind, ever |-> op[p].scan.ever,
                         key |-> op[p].key, body |-> op[p].body, result |-> op[p].result]
  BY <1>1 DEF Pending, OnKey, Listing, AbstractOps, AbstractOp, Running
<1>4. AbstractOps' = [AbstractOps EXCEPT ![p] = AbstractOps'[p]]
  BY <1>2, OneView
<1>5. AbstractOps = [q \in Ops |-> AbstractOps[q]]
  BY DEF AbstractOps
<1>6. AbstractOps'[p] = AbstractOps[p]
  BY <1>3, PendingView, Zenon
<1>7. AbstractOps' = AbstractOps
  <2> HIDE DEF AbstractOps
  <2> QED BY <1>4, <1>5, <1>6
<1> QED BY <1>2, <1>7, StoreKept DEF Abstract!vars

\* create_dir_all and fs::write take no effect that a caller could see.
LEMMA PreparesRefines ==
  ASSUME IInv, NEW p \in Ops, create_dir_all(p) \/ write_tmp(p)
  PROVE  Abstract!Next \/ UNCHANGED Abstract!vars
<1> DEFINE k == op[p].key
           at(pc) == [op[p] EXCEPT !.pc = pc]
<1>1. op[p] \in OpRec /\ OpInv(p) /\ DiskTypes /\ op[p].pc \in {"mkdir", "write"}
  BY DEF IInv, create_dir_all, write_tmp
<1>2. op[p].pc \in Pending /\ k \in Keys /\ "write" \in PCs \cap Pending /\ "rename" \in PCs \cap Pending
  BY <1>1 DEF Pending, OpInv, RecInv, OnKey, PCs
<1>3. CASE Ends(p, "Backend") /\ names' = names
  BY <1>2, <1>3, Fails
<1>4. CASE Goes(p, "write") /\ names' = names
  <2>1. op' = [op EXCEPT ![p] = at("write")]
    BY <1>4 DEF Goes
  <2>2. LET f == at("write") IN
        /\ f \in OpRec /\ f.pc = "write" /\ f.kind = op[p].kind /\ f.key = op[p].key
        /\ f.body = op[p].body /\ f.scan = op[p].scan /\ f.result = op[p].result
    BY <1>1, <1>2, AtPc
  <2> HIDE DEF at
  <2> QED BY <1>2, <1>4, <2>1, <2>2, Stutters
<1>5. CASE write_tmp(p) /\ Goes(p, "rename")
  <2>1. op' = [op EXCEPT ![p] = at("rename")] /\ names' = names
    BY <1>5 DEF Goes, write_tmp
  <2>2. LET f == at("rename") IN
        /\ f \in OpRec /\ f.pc = "rename" /\ f.kind = op[p].kind /\ f.key = op[p].key
        /\ f.body = op[p].body /\ f.scan = op[p].scan /\ f.result = op[p].result
    BY <1>1, <1>2, AtPc
  <2> HIDE DEF at
  <2> QED BY <1>2, <2>1, <2>2, Stutters
<1>6. CASE write_tmp(p) /\ UNCHANGED op
  <2>1. op' = [op EXCEPT ![p] = op[p]] /\ names' = names
    BY <1>6 DEF IInv, write_tmp
  <2> QED BY <1>1, <1>2, <2>1, Stutters
<1>7. CASE create_dir_all(p)
  <2>1. CASE UNCHANGED op /\ names' # names
    <3>1. PICK d \in Above[k] : names[d] = Absent /\ names' = [names EXCEPT ![d] = "dir"]
      BY <1>7, <2>1 DEF create_dir_all, Ends
    <3>2. d \in Keys /\ Absent \notin Files /\ "dir" \notin Files
      BY <1>2, Paths, Distinct DEF Files
    <3>3. \A j \in Keys : names'[j] = names[j] \/ {names[j], names'[j]} \cap Files = {}
      BY <1>1, <3>1, <3>2 DEF DiskTypes
    <3>4. op' = [op EXCEPT ![p] = op[p]]
      BY <2>1 DEF IInv
    <3> QED BY <1>1, <1>2, <3>3, <3>4, Stutters
  <2>2. CASE UNCHANGED op /\ names' = names
    <3>1. op' = [op EXCEPT ![p] = op[p]]
      BY <2>2 DEF IInv
    <3> QED BY <1>1, <1>2, <2>2, <3>1, Stutters
  <2> QED BY <1>3, <1>4, <1>7, <2>1, <2>2 DEF create_dir_all
<1>8. CASE write_tmp(p)
  BY <1>3, <1>5, <1>6, <1>8 DEF write_tmp
<1> QED BY <1>7, <1>8

\* A put takes effect when its file gets the name, a deletion when the name goes, and
\* the listings under way see it.
LEMMA EffectRefines ==
  ASSUME IInv, IInv', NEW p \in Ops, NEW k \in Keys, NEW file \in Files \cup {Absent},
         NEW objects \in SUBSET Keys, Objects' = objects,
         op[p].pc \in Pending, op[p].kind \in {"put", "delete"}, op[p].key = k,
         names' = [names EXCEPT ![k] = file],
         file \in Files => file = p /\ op[p].body \in Bodies, file = Absent => op[p].body = Absent,
         op' = [Witnessed(op, objects) EXCEPT ![p] = Finished(op[p], Result("Ok", Absent, {}))]
  PROVE  Abstract!Next
<1> DEFINE r == Result("Ok", Absent, {})
           w == Witnessed(op, objects)
           new == [AbstractStore EXCEPT ![k] = op[p].body]
<1>1. op \in [Ops -> OpRec] /\ op' \in [Ops -> OpRec] /\ op[p] \in OpRec /\ names \in [Keys -> {Absent, "dir"} \cup Files]
  BY DEF IInv, DiskTypes
<1>2. r \in ResultRec /\ NoScan.ever = {}
  BY ResultFields DEF NoScan, Scan
<1>3. /\ w \in [Ops -> OpRec]
      /\ \A q \in Ops :
           /\ w[q].pc = op[q].pc /\ w[q].kind = op[q].kind /\ w[q].key = op[q].key
           /\ w[q].body = op[q].body /\ w[q].file = op[q].file /\ w[q].result = op[q].result
           /\ w[q].scan.keys = op[q].scan.keys
           /\ w[q].scan.ever = IF op[q].pc \in Listing
                               THEN op[q].scan.ever \cup objects ELSE op[q].scan.ever
  BY <1>1, WitnessedRec, Zenon
<1> HIDE DEF w, r
<1>4. LET f == Finished(op[p], r) IN
      f.pc = "taken" /\ f.kind = op[p].kind /\ f.key = op[p].key /\ f.body = op[p].body
      /\ f.result = r /\ f.scan.ever = {}
  BY SMT, <1>1, <1>2, FinishedRec
<1>5. op'[p] = Finished(op[p], r) /\ \A q \in Ops \ {p} : op'[q] = w[q]
  BY <1>1, <1>3 DEF w, r
<1>6. BodiesKept
  BY <1>3, <1>4, <1>5 DEF BodiesKept
<1>7. AbstractStore' = new
  <2>1. op'[p].body = op[p].body
    BY <1>4, <1>5
  <2>2. ASSUME NEW j \in Keys, j # k PROVE AbstractStore'[j] = AbstractStore[j]
    <3>1. names'[j] = names[j]
      BY <1>1, <2>2
    <3>2. IsFile(names[j]) => Body(names[j])' = Body(names[j])
      BY SMT, <3>1, <1>6 DEF IInv, NameInv, IsFile, Files, BodiesKept, Body
    <3> QED BY <3>1, <3>2 DEF AbstractStore, IsFile
  <2>3. AbstractStore'[k] = op[p].body
    <3>1. names'[k] = file /\ (file \in Ops => file \notin Keys) /\ p \notin Keys
          /\ (file = Absent => file \notin Files)
      BY <1>1, Distinct DEF Files
    <3> QED BY <3>1, <2>1 DEF AbstractStore, IsFile, Body, Files
  <2>4. AbstractStore' = [j \in Keys |-> AbstractStore'[j]]
        /\ AbstractStore = [j \in Keys |-> AbstractStore[j]]
    BY SMT DEF AbstractStore
  <2> HIDE DEF AbstractStore
  <2> QED BY <2>2, <2>3, <2>4
<1>8. Abstract!Present(new) = objects
  <2>1. \A j \in Keys : AbstractStore'[j] # Absent <=> j \in objects
    <3>1. \A j \in Keys : IsFile(names[j])' => Body(names[j])' \in Bodies
      BY Distinct DEF IInv, NameInv, IsFile, Body, Files
    <3> QED BY <3>1, Distinct DEF AbstractStore, Objects
  <2> HIDE DEF new
  <2> QED BY <1>7, <2>1 DEF Abstract!Present
<1>9. ASSUME NEW q \in Ops
      PROVE  AbstractOps'[q] =
               IF q = p THEN Abstract!Taken(AbstractOps[p], r)
               ELSE IF AbstractOps[q].kind = "list" /\ AbstractOps[q].pc = "pending"
               THEN Abstract!Shown(AbstractOps[q], objects) ELSE AbstractOps[q]
  <2>1. OpInv(q)
    BY DEF IInv
  <2>2. CASE q = p
    <3>1. AbstractOps'[p] = [pc |-> "taken", kind |-> op[p].kind, ever |-> {},
                             key |-> op[p].key, body |-> op[p].body, result |-> r]
      BY <1>4, <1>5 DEF AbstractOps, AbstractOp, Running
    <3> QED BY <2>2, <3>1, PendingView DEF Abstract!Taken, Abstract!OpRecord
  <2>3. CASE q # p /\ op[q].pc \in Listing
    <3>1. op[q].pc \in Pending /\ op[q].kind = "list"
      BY <2>1, <2>3 DEF Pending, OpInv, RecInv
    <3>2. AbstractOps'[q] = [pc |-> "pending", kind |-> op[q].kind, ever |-> op[q].scan.ever \cup objects,
                             key |-> op[q].key, body |-> op[q].body, result |-> op[q].result]
      <4>1. /\ op'[q].pc = op[q].pc /\ op'[q].kind = op[q].kind /\ op'[q].key = op[q].key
            /\ op'[q].body = op[q].body /\ op'[q].result = op[q].result
            /\ op'[q].scan.ever = op[q].scan.ever \cup objects
        BY ZenonT(40), <1>3, <1>5, <2>3
      <4> QED BY <2>3, <4>1 DEF Listing, AbstractOps, AbstractOp, Running
    <3>4. Abstract!Shown(AbstractOps[q], objects) = AbstractOps'[q]
      BY <3>1, <3>2, PendingView DEF Abstract!Shown, Abstract!OpRecord
    <3>5. AbstractOps[q].kind = "list" /\ AbstractOps[q].pc = "pending"
      BY <3>1, PendingView
    <3> QED BY <2>3, <3>4, <3>5
  <2>4. CASE q # p /\ op[q].pc \notin Listing
    <3>1. ~(AbstractOps[q].kind = "list" /\ AbstractOps[q].pc = "pending")
      BY <2>1, <2>4 DEF OpInv, RecInv, OnKey, Listing, AbstractOps, AbstractOp, Running, IInv, OpRec, PCs, Ended
    <3>2. /\ op'[q].pc = op[q].pc /\ op'[q].kind = op[q].kind /\ op'[q].key = op[q].key
          /\ op'[q].body = op[q].body /\ op'[q].file = op[q].file /\ op'[q].result = op[q].result
          /\ op'[q].scan.ever = op[q].scan.ever
      BY ZenonT(40), <1>3, <1>5, <2>4
    <3>3. op[q].pc = "read" => Body(op[q].file)' = Body(op[q].file)
      BY <1>6, <2>1, <3>2 DEF OpInv, Body, Files, BodiesKept
    <3>4. AbstractOps'[q] = AbstractOps[q]
      BY <3>2, <3>3 DEF AbstractOps, AbstractOp
    <3> QED BY <2>4, <3>1, <3>4
  <2> QED BY <2>2, <2>3, <2>4
<1>10. AbstractOps' = [q \in Ops |-> AbstractOps'[q]]
  BY SMT DEF AbstractOps
<1>11. /\ AbstractOps[p].pc = "pending" /\ AbstractOps[p].kind \in {"put", "delete"}
       /\ AbstractOps[p].key = k /\ AbstractOps[p].body = op[p].body
  BY PendingView
<1>12. Abstract!Result("Ok", Absent, {}) = r
  BY DEF Abstract!Result, Result, r
<1>13. Abstract!Take(p)
  <2> HIDE DEF AbstractOps, new
  <2>1. AbstractOps' = [q \in Ops |->
               IF q = p THEN Abstract!Taken(AbstractOps[p], r)
               ELSE IF AbstractOps[q].kind = "list" /\ AbstractOps[q].pc = "pending"
               THEN Abstract!Shown(AbstractOps[q], Abstract!Present(new)) ELSE AbstractOps[q]]
    BY <1>8, <1>9, <1>10, Zenon
  <2> QED BY <1>7, <1>11, <1>12, <2>1 DEF Abstract!Take, new
<1> QED BY <1>13 DEF Abstract!Next

\* rename and unlink.
LEMMA WritesRefine ==
  ASSUME IInv, IInv', NEW p \in Ops, rename(p) \/ delete(p)
  PROVE  Abstract!Next
<1> DEFINE k == op[p].key
<1>1. op[p] \in OpRec /\ OpInv(p) /\ DiskTypes
  BY DEF IInv
<1>2. /\ op[p].pc \in Pending /\ k \in Keys /\ Absent \notin Files /\ p \in Files
      /\ op[p].pc = "rename" => op[p].kind = "put" /\ op[p].body \in Bodies
      /\ op[p].pc = "unlink" => op[p].kind = "delete" /\ op[p].body = Absent
  BY <1>1, Distinct DEF rename, delete, Pending, OpInv, RecInv, OnKey, Files
<1>3. CASE Ends(p, "Backend") /\ UNCHANGED names
  BY <1>2, <1>3, Fails
<1>4. CASE rename(p) /\ ~(Ends(p, "Backend") /\ UNCHANGED names)
  <2>1. /\ names' = [names EXCEPT ![k] = p] /\ op[p].pc = "rename"
        /\ op' = [Witnessed(op, Objects \cup {k}) EXCEPT ![p] = Finished(op[p], Result("Ok", Absent, {}))]
    BY <1>4 DEF rename
  <2>2. Objects' = Objects \cup {k} /\ Objects \cup {k} \in SUBSET Keys
    BY <1>1, <1>2, <2>1 DEF DiskTypes, Objects, IsFile, Files
  <2>3. PICK objects \in SUBSET Keys : objects = Objects \cup {k}
    BY <2>2
  <2> QED BY <1>2, <2>1, <2>2, <2>3, EffectRefines
<1>5. CASE delete(p) /\ ~(Ends(p, "Backend") /\ UNCHANGED names)
  <2>1. /\ names' = [names EXCEPT ![k] = Absent] /\ op[p].pc = "unlink"
        /\ op' = [Witnessed(op, Objects \ {k}) EXCEPT ![p] = Finished(op[p], Result("Ok", Absent, {}))]
    BY <1>5 DEF delete
  <2>2. Objects' = Objects \ {k} /\ Objects \ {k} \in SUBSET Keys
    BY <1>1, <1>2, <2>1 DEF DiskTypes, Objects, IsFile, Files
  <2>3. PICK objects \in SUBSET Keys : objects = Objects \ {k}
    BY <2>2
  <2> QED BY <1>2, <2>1, <2>2, <2>3, EffectRefines
<1> QED BY <1>3, <1>4, <1>5

\* A get has its answer once the file is open: a later put or delete does not change it.
LEMMA GetRefines ==
  ASSUME IInv, NEW p \in Ops, open(p) \/ get(p)
  PROVE  Abstract!Next \/ UNCHANGED Abstract!vars
<1> DEFINE k == op[p].key
<1>1. op \in [Ops -> OpRec] /\ op[p] \in OpRec /\ OpInv(p) /\ names' = names
  BY DEF IInv, open, get
<1>2. CASE open(p)
  <2>1. op[p].pc \in Pending /\ k \in Keys /\ op[p].kind = "get" /\ op[p].pc = "open"
    BY <1>1, <1>2 DEF open, Pending, OpInv, RecInv, OnKey
  <2>2. AbstractOps[p].kind = "get" /\ AbstractOps[p].key = k /\ AbstractOps[p].pc = "pending"
    BY <2>1, PendingView
  <2>3. CASE Ends(p, "Backend")
    BY <1>1, <2>1, <2>3, Fails
  <2>4. CASE names[k] = Absent /\ Ends(p, "NotFound")
    <3> DEFINE r == Result("NotFound", Absent, {})
    <3>1. r \in ResultRec
      BY ResultFields
    <3>2. op' = [op EXCEPT ![p] = Finished(op[p], r)]
      BY <2>4 DEF Ends
    <3>3. AbstractStore[k] = Absent
      BY <2>1, <2>4, Distinct DEF AbstractStore, IsFile, Files
    <3>4. r \in Abstract!Outcomes(AbstractOps[p], AbstractStore)
      BY <2>2, <3>3 DEF Abstract!Outcomes, Abstract!Result, Result
    <3> HIDE DEF r
    <3> QED BY <1>1, <2>1, <3>1, <3>2, <3>4, Takes
  <2>5. CASE IsFile(names[k]) /\ op' = [op EXCEPT ![p].pc = "read", ![p].file = names[k]]
    <3> DEFINE r == Result("Ok", Body(names[k]), {})
               new == [op[p] EXCEPT !.pc = "read", !.file = names[k]]
    <3>1. op' = [op EXCEPT ![p] = new] /\ op'[p] = new
      BY <1>1, <2>5
    <3>2. /\ new.pc = "read" /\ new.kind = op[p].kind /\ new.file = names[k]
          /\ new.scan = op[p].scan /\ new.key = op[p].key /\ new.body = op[p].body
      BY <1>1 DEF OpRec
    <3> HIDE DEF new
    <3>3. BodiesKept
      BY <1>1, <3>1, <3>2 DEF BodiesKept
    <3>4. names[k] \in Files /\ (names[k] \in Ops => op[names[k]].pc \in Ended)
      BY <2>1, <2>5 DEF IInv, NameInv, IsFile
    <3>5. PICK f \in Files : f = names[k]
      BY <3>4
    <3>6. Body(op[p].file)' = Body(names[k])
      BY SMT, <3>1, <3>2, <3>3, <3>4, <3>5 DEF Body, Files, BodiesKept
    <3>7. AbstractOps'[p] = [pc |-> "taken", kind |-> op[p].kind, ever |-> op[p].scan.ever,
                             key |-> op[p].key, body |-> op[p].body, result |-> r]
      BY <3>1, <3>2, <3>6 DEF AbstractOps, AbstractOp, Result
    <3>8. op[p].scan.ever = {}
      BY <1>1, <2>1 DEF OpInv, RecInv, Listing
    <3>9. AbstractOps'[p] = Abstract!Taken(AbstractOps[p], r)
      BY <2>1, <3>7, <3>8, PendingView DEF Abstract!Taken, Abstract!OpRecord
    <3>10. AbstractOps' = [AbstractOps EXCEPT ![p] = AbstractOps'[p]]
      BY <3>1, <3>3, OneView
    <3>11. AbstractStore' = AbstractStore
      BY <1>1, <3>3, StoreKept
    <3>12. AbstractStore[k] = Body(names[k]) /\ AbstractStore[k] # Absent
      <4>1. k \in Objects
        BY <2>1, <2>5 DEF Objects
      <4> QED BY <2>1, <2>5, <4>1, StoreType DEF AbstractStore
    <3>13. r \in Abstract!Outcomes(AbstractOps[p], AbstractStore)
      BY <2>2, <3>12 DEF Abstract!Outcomes, Abstract!Result, Result
    <3> HIDE DEF r
    <3>14. Abstract!Take(p)
      BY <2>2, <3>9, <3>10, <3>11, <3>13 DEF Abstract!Take
    <3> QED BY <3>14 DEF Abstract!Next
  <2> QED BY <1>2, <2>3, <2>4, <2>5 DEF open
<1>3. CASE get(p)
  <2> DEFINE f == op[p].file
             r == Result("Ok", Body(f), {})
  <2>1. /\ op[p].pc = "read" /\ f \in Files /\ Whole(f) /\ (f \in Ops => op[f].pc \in Ended)
        /\ op[p].scan.ever = {}
    BY <1>1, <1>3 DEF get, OpInv, RecInv, Listing
  <2>2. op'[p] = Finished(op[p], r) /\ op' = [op EXCEPT ![p] = Finished(op[p], r)]
    BY <1>1, <1>3, <2>1 DEF get
  <2>3. r \in ResultRec
    <3>1. f \in Ops => op[f].body \in Bodies \cup {Absent}
      BY <1>1 DEF OpRec
    <3>2. Body(f) \in Bodies \cup {Absent}
      BY <2>1, <3>1, Distinct DEF Body, Files
    <3> QED BY <3>2, ResultFields
  <2>4. LET g == Finished(op[p], r) IN
        g.pc = "taken" /\ g.kind = op[p].kind /\ g.key = op[p].key /\ g.body = op[p].body
        /\ g.result = r /\ g.scan.ever = {}
    <3>1. NoScan.ever = {}
      BY DEF NoScan, Scan
    <3> HIDE DEF r
    <3> QED BY <1>1, <2>3, <3>1, FinishedRec
  <2>5. BodiesKept
    <3> HIDE DEF r
    <3> QED BY <1>1, <2>2, <2>4 DEF BodiesKept
  <2>6. AbstractOps[p] = [pc |-> "taken", kind |-> op[p].kind, ever |-> {},
                          key |-> op[p].key, body |-> op[p].body, result |-> r]
    BY <2>1 DEF AbstractOps, AbstractOp
  <2>7. AbstractOps'[p] = [pc |-> "taken", kind |-> op[p].kind, ever |-> {},
                           key |-> op[p].key, body |-> op[p].body, result |-> r]
    <3> HIDE DEF r
    <3> QED BY <2>2, <2>4 DEF AbstractOps, AbstractOp, Running
  <2>8. AbstractOps' = [AbstractOps EXCEPT ![p] = AbstractOps'[p]]
    BY <2>2, <2>5, OneView
  <2>9. AbstractOps = [q \in Ops |-> AbstractOps[q]]
    BY DEF AbstractOps
  <2>10. AbstractOps'[p] = AbstractOps[p]
    BY <2>6, <2>7, Zenon
  <2>11. AbstractOps' = AbstractOps
    <3> HIDE DEF AbstractOps
    <3> QED BY <2>8, <2>9, <2>10
  <2> QED BY <1>1, <2>5, <2>11, StoreKept DEF Abstract!vars
<1> QED BY <1>2, <1>3

\* head and exists answer for the name as it is; a directory exists too.
LEMMA StatRefines ==
  ASSUME IInv, NEW p \in Ops, head(p) \/ exists(p)
  PROVE  Abstract!Next
<1> DEFINE k == op[p].key
           Prefixes == Directories
<1>1. /\ op[p] \in OpRec /\ OpInv(p) /\ names' = names /\ DiskTypes /\ op[p].pc = "stat"
      /\ op[p].kind = IF head(p) THEN "head" ELSE "exists"
  BY DEF IInv, head, exists
<1>2. op[p].pc \in Pending /\ k \in Keys
  BY <1>1 DEF Pending, OpInv, RecInv, OnKey
<1>3. AbstractOps[p].kind = op[p].kind /\ AbstractOps[p].key = k
  BY <1>2, PendingView
<1>4. NameInv(k)
  BY <1>2 DEF IInv
<1>5. /\ names[k] = Absent => AbstractStore[k] = Absent
      /\ names[k] # Absent => AbstractStore[k] # Absent \/ k \in Prefixes
  <2>1. names[k] = Absent => AbstractStore[k] = Absent
    BY <1>2, Distinct DEF AbstractStore, IsFile, Files
  <2>2. names[k] \in Files => AbstractStore[k] # Absent
    BY <1>2, StoreType DEF Objects, IsFile
  <2>3. names[k] = "dir" => k \in Prefixes
    BY <1>2, <1>4 DEF NameInv
  <2> QED BY <1>1, <1>2, <2>1, <2>2, <2>3 DEF DiskTypes
<1>6. PICK status \in {"Backend", "NotFound", "Ok", "false", "true"} :
        /\ Ends(p, status)
        /\ status = "NotFound" => op[p].kind = "head" /\ names[k] = Absent
        /\ status = "Ok" => op[p].kind = "head" /\ names[k] # Absent
        /\ status = "false" => op[p].kind = "exists"
        /\ status = "true" => op[p].kind = "exists" /\ names[k] # Absent
  <2>1. CASE head(p)
    BY <2>1 DEF head
  <2>2. CASE exists(p)
    BY <2>2 DEF exists
  <2> QED BY <2>1, <2>2
<1> DEFINE r == Result(status, Absent, {})
<1>7. r \in ResultRec
  BY ResultFields
<1>8. op' = [op EXCEPT ![p] = Finished(op[p], r)]
  BY <1>6 DEF Ends
<1>9. r \in Abstract!Outcomes(AbstractOps[p], AbstractStore)
  <2>1. CASE status = "Backend"
    BY <2>1 DEF Abstract!Outcomes, Abstract!Result, Result
  <2>2. CASE op[p].kind = "head" /\ status # "Backend"
    BY <1>3, <1>5, <1>6, <2>2 DEF Abstract!Outcomes, Abstract!Result, Result
  <2>3. CASE op[p].kind = "exists" /\ status # "Backend"
    BY <1>3, <1>5, <1>6, <2>3 DEF Abstract!Outcomes, Abstract!Result, Result
  <2> QED BY <1>1, <2>1, <2>2, <2>3
<1> HIDE DEF r
<1> QED BY <1>1, <1>2, <1>7, <1>8, <1>9, Takes

\* A listing shows keys of objects that were there while it ran.
LEMMA ListRefines ==
  ASSUME IInv, NEW p \in Ops, list(p)
  PROVE  Abstract!Next
<1> DEFINE r == Result("Ok", Absent, op[p].scan.keys)
<1>1. op[p] \in OpRec /\ OpInv(p) /\ names' = names /\ op[p].pc = "walk"
  BY DEF IInv, list
<1>2. /\ op[p].pc \in Pending /\ op[p].scan.keys \in SUBSET Keys
      /\ op[p].kind = "list" /\ op[p].scan.keys \subseteq op[p].scan.ever
  BY <1>1 DEF Pending, Listing, OpInv, RecInv, OpRec, ScanRec
<1>3. r \in ResultRec
  BY <1>2, ResultFields
<1>4. op' = [op EXCEPT ![p] = Finished(op[p], r)]
  BY DEF list
<1>5. AbstractOps[p].kind = "list" /\ AbstractOps[p].ever = op[p].scan.ever
  BY <1>2, PendingView
<1>6. r \in Abstract!Outcomes(AbstractOps[p], AbstractStore)
  BY <1>2, <1>5 DEF Abstract!Outcomes, Abstract!Result, Result
<1> HIDE DEF r
<1> QED BY <1>1, <1>2, <1>3, <1>4, <1>6, Takes

\* Reading a directory is no step of the abstract store.
LEMMA ScansStutter ==
  ASSUME IInv, NEW p \in Ops, NEW pc \in Listing, NEW scan \in ScanRec, op[p].pc \in Listing,
         Scans(p, pc, scan), scan.ever = op[p].scan.ever, names' = names
  PROVE  UNCHANGED Abstract!vars
<1> DEFINE new == [op[p] EXCEPT !.pc = pc, !.scan = scan]
<1>1. op[p] \in OpRec /\ op[p].pc \in Pending /\ pc \in Pending
  BY DEF IInv, Pending
<1>2. op' = [op EXCEPT ![p] = new]
  BY DEF Scans
<1>3. /\ new \in OpRec /\ new.pc = pc /\ new.kind = op[p].kind /\ new.scan = scan
      /\ new.key = op[p].key /\ new.body = op[p].body /\ new.result = op[p].result
  BY <1>1 DEF OpRec, PCs
<1> HIDE DEF new
<1> QED BY <1>1, <1>2, <1>3, Stutters

\* A step of a listing's walk is nothing to the abstract store.
LEMMA WalkStutters ==
  ASSUME IInv, NEW p \in Ops,
         read_dir(p) \/ (\E e \in Files : next_entry(p, e)) \/ EndOfDir(p)
  PROVE  UNCHANGED Abstract!vars
<1>1. op[p].pc \in Listing /\ names' = names
  BY WalkScans
<1>2. PICK pc \in Listing, scan \in ScanRec :
        Scans(p, pc, scan) /\ scan.ever = op[p].scan.ever /\ scan.keys \subseteq scan.ever
  BY WalkScans
<1> QED BY <1>1, <1>2, ScansStutter

\* Calls, returns and crashes are the abstract store's.
LEMMA CallRefines ==
  ASSUME IInv, NEW p \in Ops, NEW kind \in DOMAIN FirstStep \cup {"list"}, NEW k \in Keys,
         NEW body \in Bodies \cup {Absent}, Call(p, kind, k, body)
  PROVE  Abstract!Next
<1>1. op \in [Ops -> OpRec] /\ names' = names /\ op[p].pc = "idle"
  BY DEF IInv, Call
<1>2. kind \in Abstract!Kinds
  BY DEF FirstStep, Abstract!Kinds
<1>3. NoResult = Abstract!NoResult
  BY DEF NoResult, Result, Abstract!NoResult, Abstract!Result
<1>4. AbstractOps[p].pc = "idle"
  BY <1>1 DEF AbstractOps, AbstractOp, Running
<1> DEFINE new == IF kind = "list" THEN OpRecord("walk", kind, Absent, body, Scan({Root}, Objects), NoResult)
                  ELSE OpRecord(FirstStep[kind], kind, k, body, NoScan, NoResult)
<1>5. op' = [op EXCEPT ![p] = new] /\ op'[p] = new
  BY <1>1 DEF Call
<1>6. BodiesKept
  BY <1>1, <1>5 DEF BodiesKept, Ended
<1>7. AbstractStore' = AbstractStore
  BY <1>1, <1>6, StoreKept
<1>8. AbstractOps' = [AbstractOps EXCEPT ![p] = AbstractOps'[p]]
  BY <1>5, <1>6, OneView
<1>9. CASE kind = "list"
  <2>1. /\ op'[p].pc = "walk" /\ op'[p].kind = kind /\ op'[p].key = Absent /\ op'[p].body = body
        /\ op'[p].scan.ever = Objects /\ op'[p].result = NoResult
    BY SMT, <1>5, <1>9 DEF OpRecord, Scan
  <2>2. AbstractOps'[p] = Abstract!OpRecord("pending", kind, Absent, body, Objects, NoResult)
    BY <2>1 DEF AbstractOps, AbstractOp, Running, Abstract!OpRecord
  <2>3. Abstract!Present(AbstractStore) = Objects
    BY StoreType
  <2>4. Abstract!Call(p, kind, k, body)
    BY <1>3, <1>4, <1>7, <1>8, <1>9, <2>2, <2>3 DEF Abstract!Call
  <2> QED BY <1>2, <2>4 DEF Abstract!Next
<1>10. CASE kind # "list"
  <2>1. /\ op'[p].pc = FirstStep[kind] /\ op'[p].kind = kind /\ op'[p].key = k /\ op'[p].body = body
        /\ op'[p].scan.ever = {} /\ op'[p].result = NoResult
    BY SMT, <1>5, <1>10 DEF OpRecord, NoScan, Scan
  <2>2. FirstStep[kind] \in {"mkdir", "unlink", "open", "stat"}
    BY <1>10, FirstSteps
  <2>3. AbstractOps'[p] = Abstract!OpRecord("pending", kind, k, body, {}, NoResult)
    BY <2>1, <2>2 DEF AbstractOps, AbstractOp, Running, Abstract!OpRecord
  <2>4. Abstract!Call(p, kind, k, body)
    BY <1>3, <1>4, <1>7, <1>8, <1>10, <2>3 DEF Abstract!Call
  <2> QED BY <1>2, <2>4 DEF Abstract!Next
<1> QED BY <1>9, <1>10

\* A call that returns is an abstract return.
LEMMA ReturnRefines ==
  ASSUME IInv, NEW p \in Ops, Return(p)
  PROVE  Abstract!Next
<1> DEFINE new == [op[p] EXCEPT !.pc = "done"]
<1>1. op \in [Ops -> OpRec] /\ op[p] \in OpRec /\ names' = names /\ op[p].pc = "taken"
  BY DEF IInv, Return
<1>2. op' = [op EXCEPT ![p] = new] /\ op'[p] = new
  BY <1>1 DEF Return, Goes
<1>3. /\ new.pc = "done" /\ new.kind = op[p].kind /\ new.key = op[p].key /\ new.body = op[p].body
      /\ new.scan = op[p].scan /\ new.result = op[p].result
  <2>1. "done" \in PCs
    BY DEF PCs, Ended
  <2> QED BY <1>1, <2>1, AtPc
<1> HIDE DEF new
<1>4. BodiesKept
  BY <1>1, <1>2, <1>3 DEF BodiesKept
<1>5. AbstractStore' = AbstractStore
  BY <1>1, <1>4, StoreKept
<1>6. AbstractOps' = [AbstractOps EXCEPT ![p] = AbstractOps'[p]]
  BY <1>2, <1>4, OneView
<1>7. AbstractOps[p] = [pc |-> "taken", kind |-> op[p].kind, ever |-> op[p].scan.ever,
                        key |-> op[p].key, body |-> op[p].body, result |-> op[p].result]
  BY <1>1 DEF AbstractOps, AbstractOp, Running
<1>8. AbstractOps'[p] = [pc |-> "done", kind |-> op[p].kind, ever |-> op[p].scan.ever,
                         key |-> op[p].key, body |-> op[p].body, result |-> op[p].result]
  BY <1>2, <1>3 DEF AbstractOps, AbstractOp, Running
<1>9. AbstractOps'[p] = [AbstractOps[p] EXCEPT !.pc = "done"]
  BY SMT, <1>7, <1>8
<1>10. Abstract!Return(p)
  BY SMT, <1>5, <1>6, <1>7, <1>9 DEF Abstract!Return
<1> QED BY <1>10 DEF Abstract!Next

\* A crash is an abstract crash.
LEMMA CrashRefines ==
  ASSUME IInv, Crash
  PROVE  Abstract!Next
<1>1. op \in [Ops -> OpRec] /\ names' = names
  BY DEF IInv, Crash
<1>2. BodiesKept
  BY CrashRec DEF BodiesKept
<1>3. AbstractStore' = AbstractStore
  BY <1>1, <1>2, StoreKept
<1>4. NoResult = Abstract!NoResult
  BY DEF NoResult, Result, Abstract!NoResult, Abstract!Result
<1>5. ASSUME NEW q \in Ops
      PROVE  AbstractOps'[q] = IF AbstractOps[q].pc \in {"pending", "taken"} THEN Abstract!Lost
                               ELSE AbstractOps[q]
  <2>1. OpInv(q) /\ op[q].pc \in PCs
    BY DEF IInv, OpRec
  <2>2. CASE op[q].pc \in {"idle", "done"}
    <3>1. op'[q] = op[q]
      BY <2>2, CrashRec
    <3>2. AbstractOps[q].pc = op[q].pc
      BY <2>2 DEF AbstractOps, AbstractOp, Running
    <3> QED BY <1>2, <2>2, <3>1, <3>2, ViewKept
  <2>3. CASE op[q].pc \notin {"idle", "done"}
    <3>1. /\ op'[q].pc = "lost" /\ op'[q].kind = "none" /\ op'[q].result = NoResult
          /\ op'[q].scan.ever = {}
      BY <2>3, CrashRec
    <3>2. AbstractOps'[q] = Abstract!Lost
      BY <1>4, <3>1 DEF AbstractOps, AbstractOp, Running, Abstract!Lost, Abstract!OpRecord
    <3>3. CASE op[q].pc = "lost"
      <4>1. AbstractOps[q] = Abstract!Lost
        BY <1>4, <2>1, <3>3 DEF OpInv, RecInv, Listing, AbstractOps, AbstractOp, Running,
                                Abstract!Lost, Abstract!OpRecord
      <4> QED BY <3>2, <4>1
    <3>4. CASE op[q].pc # "lost"
      <4>1. AbstractOps[q].pc \in {"pending", "taken"}
        BY <2>1, <2>3, <3>4 DEF AbstractOps, AbstractOp, Running, PCs, Ended
      <4> QED BY <3>2, <4>1
    <3> QED BY <3>3, <3>4
  <2> QED BY <2>2, <2>3
<1>6. AbstractOps' = [q \in Ops |-> AbstractOps'[q]]
  BY DEF AbstractOps
<1>7. Abstract!Crash
  <2> HIDE DEF AbstractOps
  <2>1. AbstractOps' = [q \in Ops |-> IF AbstractOps[q].pc \in {"pending", "taken"} THEN Abstract!Lost
                                      ELSE AbstractOps[q]]
    BY <1>5, <1>6, Zenon
  <2> QED BY <1>3, <2>1 DEF Abstract!Crash
<1> QED BY <1>7 DEF Abstract!Next

\* The local driver implements the promise of a storage backend: "each object is
\* written atomically via temp + rename", whatever overlaps, fails or crashes.
THEOREM DriverIsAtomic == Spec => Atomic
<1>1. Init => Abstract!Init
  <2> SUFFICES ASSUME Init PROVE Abstract!Init
    OBVIOUS
  <2>1. IInv
    BY InitInv
  <2>2. AbstractStore \in [Keys -> {Absent} \cup Bodies]
    BY <2>1, StoreType
  <2>3. ASSUME NEW p \in Ops PROVE AbstractOps[p] = Abstract!Unused
    <3>1. op[p] = Unused
      BY DEF Init
    <3> QED BY SMT, <3>1 DEF AbstractOps, AbstractOp, Running, Unused, OpRecord, NoScan, Scan, NoResult, Result,
                        Abstract!Unused, Abstract!OpRecord, Abstract!NoResult, Abstract!Result
  <2>4. AbstractOps = [p \in Ops |-> AbstractOps[p]]
    BY DEF AbstractOps
  <2>5. AbstractOps = [p \in Ops |-> Abstract!Unused]
    <3> HIDE DEF AbstractOps
    <3> QED BY <2>3, <2>4, Zenon
  <2> QED BY <2>2, <2>5 DEF Abstract!Init
<1>2. IInv /\ IInv' /\ [Next]_vars => [Abstract!Next]_(Abstract!vars)
  <2> SUFFICES ASSUME IInv, IInv', [Next]_vars PROVE Abstract!Next \/ UNCHANGED Abstract!vars
    OBVIOUS
  <2>1. CASE UNCHANGED vars
    BY <2>1 DEF vars, Abstract!vars, AbstractStore, AbstractOps, AbstractOp, Body, IsFile
  <2>2. ASSUME NEW p \in Ops, NEW kind \in DOMAIN FirstStep \cup {"list"}, NEW k \in Keys,
               NEW body \in Bodies \cup {Absent}, Call(p, kind, k, body)
        PROVE  Abstract!Next
    BY <2>2, CallRefines
  <2>3. ASSUME NEW p \in Ops,
               create_dir_all(p) \/ write_tmp(p) \/ rename(p) \/ delete(p) \/ open(p) \/ get(p)
        PROVE  Abstract!Next \/ UNCHANGED Abstract!vars
    BY <2>3, PreparesRefines, WritesRefine, GetRefines
  <2>4. ASSUME NEW p \in Ops, head(p) \/ exists(p) \/ list(p) \/ Return(p)
        PROVE  Abstract!Next
    BY <2>4, StatRefines, ListRefines, ReturnRefines
  <2>5. ASSUME NEW p \in Ops, read_dir(p) \/ (\E e \in Files : next_entry(p, e)) \/ EndOfDir(p)
        PROVE  UNCHANGED Abstract!vars
    BY <2>5, WalkStutters
  <2>6. CASE Crash
    BY <2>6, CrashRefines
  <2> QED BY <2>1, <2>2, <2>3, <2>4, <2>5, <2>6 DEF Next
<1> QED BY <1>1, <1>2, Invariance, PTL DEF Spec, Atomic, Abstract!Spec

-----------------------------------------------------------------------------
(* Listings are complete.  Directories are made before what is in them and *)
(* never removed, so the path to an object that stays is all directories,  *)
(* and a walk that no error cut short has the object, or somewhere on its  *)
(* path a directory still to read or an entry still due.                   *)

Reaches(o, k) ==
  \/ k \in o.keys
  \/ (Above[k] \cup {Root}) \cap o.dirs # {}
  \/ \E next \in Above[k] \cup {k} : next \in o.due /\ Parent[next] = o.dir

ScanInv(o, objects) ==
  /\ o.pc = "walk" => o.scan.due = {}
  /\ o.scan.always \subseteq objects
  /\ ~o.scan.cut => \A k \in o.scan.always : Reaches(o.scan, k)

WalkInv ==
  /\ \A k \in Objects : HasPath(k)
  /\ \A p \in Ops : op[p].pc \in {"write", "rename"} => HasPath(op[p].key)
  /\ \A p \in Ops : op[p].pc \in Listing => ScanInv(op[p], Objects)

\* w is the calls' records, p's left open, once the listings are told what is there now.
WalksOn(p, w) ==
  \A q \in Ops \ {p} :
    /\ w[q].pc = op[q].pc /\ w[q].key = op[q].key
    /\ op[q].pc \in Listing =>
         /\ w[q].scan.dirs = op[q].scan.dirs /\ w[q].scan.dir = op[q].scan.dir
         /\ w[q].scan.due = op[q].scan.due /\ w[q].scan.keys = op[q].scan.keys
         /\ w[q].scan.cut = op[q].scan.cut
         /\ w[q].scan.always \subseteq op[q].scan.always \cap Objects'

\* A step of call p keeps WalkInv if directories stay, objects appear only where there is
\* a path, the other listings' walks go on and p's own is right.
LEMMA WalkStep ==
  ASSUME IInv, WalkInv, NEW p \in Ops, NEW new, NEW w \in [Ops -> OpRec], op' = [w EXCEPT ![p] = new],
         \A d \in Keys : names[d] = "dir" => names'[d] = "dir",
         \A k \in Objects' : k \in Objects \/ HasPath(k),
         WalksOn(p, w),
         new.pc \in {"write", "rename"} => new.key \in Keys /\ HasPath(new.key),
         new.pc \in Listing => ScanInv(new, Objects')
  PROVE  WalkInv'
<1> USE DEF WalksOn
<1>1. op'[p] = new /\ \A q \in Ops \ {p} : op'[q] = w[q]
  OBVIOUS
<1>2. ASSUME NEW k \in Keys, HasPath(k) PROVE HasPath(k)'
  BY <1>2, Paths DEF HasPath
<1>3. \A k \in Objects' : HasPath(k)'
  BY <1>2 DEF WalkInv, Objects
<1>4. ASSUME NEW q \in Ops, op'[q].pc \in {"write", "rename"} PROVE HasPath(op[q].key)'
  <2>1. CASE q = p
    <3>1. PICK k \in Keys : k = new.key /\ HasPath(k)
      BY <1>1, <1>4, <2>1
    <3>2. HasPath(k)'
      BY <1>2, <3>1
    <3> QED BY <1>1, <2>1, <3>1, <3>2 DEF HasPath
  <2>2. CASE q # p
    <3>1. op[q].pc \in {"write", "rename"} /\ op'[q].key = op[q].key
      BY <1>1, <1>4, <2>2
    <3>2. PICK k \in Keys : k = op[q].key /\ HasPath(k)
      BY <3>1 DEF WalkInv, IInv, OpInv, RecInv, OnKey
    <3>3. HasPath(k)'
      BY <1>2, <3>2
    <3> QED BY <3>1, <3>2, <3>3 DEF HasPath
  <2> QED BY <2>1, <2>2
<1>5. ASSUME NEW q \in Ops, op'[q].pc \in Listing PROVE ScanInv(op'[q], Objects')
  <2>1. CASE q = p
    BY <1>1, <1>5, <2>1 DEF ScanInv
  <2>2. CASE q # p
    <3>1. op'[q] = w[q] /\ op[q].pc \in Listing
      BY <1>1, <1>5, <2>2
    <3>2. ScanInv(op[q], Objects)
      BY <3>1 DEF WalkInv
    <3>3. /\ op'[q].pc = op[q].pc
          /\ op'[q].scan.dirs = op[q].scan.dirs /\ op'[q].scan.dir = op[q].scan.dir
          /\ op'[q].scan.due = op[q].scan.due /\ op'[q].scan.keys = op[q].scan.keys
          /\ op'[q].scan.cut = op[q].scan.cut
          /\ op'[q].scan.always \subseteq op[q].scan.always \cap Objects'
      BY <2>2, <3>1
    <3>4. \A k : Reaches(op[q].scan, k) => Reaches(op'[q].scan, k)
      BY <3>3 DEF Reaches
    <3> QED BY <3>2, <3>3, <3>4 DEF ScanInv
  <2> QED BY <2>1, <2>2
<1> QED BY <1>3, <1>4, <1>5 DEF WalkInv

\* The same for a step that changes no object.
LEMMA WalkQuiet ==
  ASSUME IInv, WalkInv, NEW p \in Ops, NEW new, op' = [op EXCEPT ![p] = new],
         \A k \in Keys : names'[k] = names[k] \/ (names[k] = Absent /\ names'[k] = "dir"),
         new.pc \in {"write", "rename"} => new.key \in Keys /\ HasPath(new.key),
         new.pc \in Listing => ScanInv(new, Objects)
  PROVE  WalkInv'
<1>1. op \in [Ops -> OpRec]
  BY DEF IInv
<1>2. Objects' = Objects
  BY Distinct DEF Objects, IsFile, Files
<1>3. \A d \in Keys : names[d] = "dir" => names'[d] = "dir"
  BY Distinct
<1>4. \A q \in Ops : op[q].pc \in Listing => op[q].scan.always \subseteq Objects'
  BY <1>2 DEF WalkInv, ScanInv
<1>5. new.pc \in Listing => ScanInv(new, Objects')
  BY <1>2 DEF ScanInv
<1>6. WalksOn(p, op)
  BY <1>4 DEF WalksOn
<1> HIDE DEF IInv, WalkInv
<1> QED BY <1>1, <1>2, <1>3, <1>5, <1>6, WalkStep

\* A call that ends neither writes nor lists any more.
LEMMA WalkFinish ==
  ASSUME IInv, WalkInv, NEW p \in Ops, NEW r \in ResultRec,
         op' = [op EXCEPT ![p] = Finished(op[p], r)], names' = names
  PROVE  WalkInv'
<1> DEFINE new == Finished(op[p], r)
<1>1. op[p] \in OpRec
  BY DEF IInv
<1>2. new.pc = "taken"
  BY <1>1, FinishedRec
<1>3. new.pc \notin {"write", "rename"} \cup Listing /\ op' = [op EXCEPT ![p] = new]
  BY <1>2 DEF Listing
<1> HIDE DEF new, IInv, WalkInv
<1>4. \A k \in Keys : names'[k] = names[k] \/ (names[k] = Absent /\ names'[k] = "dir")
  OBVIOUS
<1> QED BY ONLY IInv, WalkInv, <1>3, <1>4, WalkQuiet

\* So for an error, and for head and exists.
LEMMA WalkEnds ==
  ASSUME IInv, WalkInv, NEW p \in Ops,
         NEW status \in {"none", "Ok", "Backend", "NotFound", "true", "false"},
         Ends(p, status), names' = names
  PROVE  WalkInv'
<1>1. Result(status, Absent, {}) \in ResultRec
  BY ResultFields
<1>2. op' = [op EXCEPT ![p] = Finished(op[p], Result(status, Absent, {}))]
  BY DEF Ends
<1> QED BY <1>1, <1>2, WalkFinish

\* Told of a change, a listing keeps its walk, and of the objects that were there all
\* along those that still are.
LEMMA WitnessedWalk ==
  ASSUME NEW ops \in [Ops -> OpRec], NEW objects \in SUBSET Keys, NEW q \in Ops
  PROVE  LET w == Witnessed(ops, objects) IN
         /\ w[q].pc = ops[q].pc /\ w[q].key = ops[q].key
         /\ ops[q].pc \in Listing =>
              /\ w[q].scan.dirs = ops[q].scan.dirs /\ w[q].scan.dir = ops[q].scan.dir
              /\ w[q].scan.due = ops[q].scan.due /\ w[q].scan.keys = ops[q].scan.keys
              /\ w[q].scan.cut = ops[q].scan.cut
              /\ w[q].scan.always = ops[q].scan.always \cap objects
<1> DEFINE w == Witnessed(ops, objects)
           y == Saw(ops[q].scan, objects)
<1>1. ops[q] \in OpRec /\ ops[q].scan \in ScanRec
  BY DEF OpRec
<1>2. /\ y.dirs = ops[q].scan.dirs /\ y.dir = ops[q].scan.dir /\ y.due = ops[q].scan.due
      /\ y.keys = ops[q].scan.keys /\ y.cut = ops[q].scan.cut
      /\ y.always = ops[q].scan.always \cap objects
  BY <1>1 DEF ScanRec, Saw
<1>3. w[q].pc = ops[q].pc /\ w[q].key = ops[q].key
  BY WitnessedRec
<1>4. ops[q].pc \in Listing => w[q].scan = y
  BY <1>1 DEF Witnessed, Listing, OpRec
<1> HIDE DEF w, y
<1>5. ops[q].pc \in Listing =>
        /\ w[q].scan.dirs = ops[q].scan.dirs /\ w[q].scan.dir = ops[q].scan.dir
        /\ w[q].scan.due = ops[q].scan.due /\ w[q].scan.keys = ops[q].scan.keys
        /\ w[q].scan.cut = ops[q].scan.cut
        /\ w[q].scan.always = ops[q].scan.always \cap objects
  BY <1>2, <1>4
<1> QED BY <1>3, <1>5 DEF w

\* A put that renames, or a deletion.
LEMMA WalkEffect ==
  ASSUME IInv, WalkInv, NEW p \in Ops, NEW r \in ResultRec, NEW k \in Keys,
         NEW objects \in SUBSET Keys, Objects' = objects, objects \subseteq Objects \cup {k},
         k \in objects => HasPath(k), names[k] # "dir", \A d \in Keys \ {k} : names'[d] = names[d],
         op' = [Witnessed(op, objects) EXCEPT ![p] = Finished(op[p], r)]
  PROVE  WalkInv'
<1> DEFINE w == Witnessed(op, objects)
           new == Finished(op[p], r)
<1>1. op \in [Ops -> OpRec] /\ op[p] \in OpRec
  BY DEF IInv
<1>2. w \in [Ops -> OpRec]
  BY <1>1, WitnessedRec
<1>3. \A q \in Ops :
        /\ w[q].pc = op[q].pc /\ w[q].key = op[q].key
        /\ op[q].pc \in Listing =>
             /\ w[q].scan.dirs = op[q].scan.dirs /\ w[q].scan.dir = op[q].scan.dir
             /\ w[q].scan.due = op[q].scan.due /\ w[q].scan.keys = op[q].scan.keys
             /\ w[q].scan.cut = op[q].scan.cut
             /\ w[q].scan.always = op[q].scan.always \cap objects
  BY <1>1, WitnessedWalk
<1>4. new.pc = "taken"
  BY <1>1, FinishedRec
<1>5. new.pc \notin {"write", "rename"} \cup Listing /\ op' = [w EXCEPT ![p] = new]
  BY <1>4 DEF Listing
<1> HIDE DEF w, new, IInv, WalkInv
<1>6. \A d \in Keys : names[d] = "dir" => names'[d] = "dir"
  OBVIOUS
<1>7. \A j \in Objects' : j \in Objects \/ HasPath(j)
  OBVIOUS
<1>8. WalksOn(p, w)
  BY <1>3 DEF WalksOn
<1>9. /\ new.pc \in {"write", "rename"} => new.key \in Keys /\ HasPath(new.key)
      /\ new.pc \in Listing => ScanInv(new, Objects')
      /\ op' = [w EXCEPT ![p] = new]
  BY <1>5
<1> QED BY ONLY IInv, WalkInv, <1>2, <1>6, <1>7, <1>8, <1>9, WalkStep

\* put and delete.
LEMMA WritesKeepWalks ==
  ASSUME IInv, WalkInv, NEW p \in Ops, create_dir_all(p) \/ write_tmp(p) \/ rename(p) \/ delete(p)
  PROVE  WalkInv'
<1> DEFINE k == op[p].key
           at(pc) == [op[p] EXCEPT !.pc = pc]
           ok == Result("Ok", Absent, {})
<1>1. op \in [Ops -> OpRec] /\ op[p] \in OpRec /\ OpInv(p) /\ DiskTypes /\ ok \in ResultRec
  BY ResultFields DEF IInv
<1>2. k \in Keys /\ op[p].pc \notin Listing
  BY <1>1 DEF create_dir_all, write_tmp, rename, delete, OpInv, RecInv, OnKey, Listing
<1>3. ASSUME NEW pc \in PCs
      PROVE  at(pc).pc = pc /\ at(pc).key = k
  BY <1>1, <1>3, AtPc
<1>4. "write" \in PCs /\ "rename" \in PCs /\ "write" \notin Listing /\ "rename" \notin Listing
  BY DEF PCs, OnKey, Listing
<1>5. CASE Ends(p, "Backend") /\ UNCHANGED names
  BY <1>5, WalkEnds
<1>6. CASE UNCHANGED op /\ (create_dir_all(p) \/ write_tmp(p))
  <2>1. op' = [op EXCEPT ![p] = op[p]]
    BY <1>1, <1>6
  <2>2. \A j \in Keys : names'[j] = names[j] \/ (names[j] = Absent /\ names'[j] = "dir")
    BY <1>1, <1>6 DEF create_dir_all, write_tmp, DiskTypes
  <2>3. op[p].pc \in {"write", "rename"} => HasPath(k)
    BY DEF WalkInv
  <2> QED BY <1>2, <2>1, <2>2, <2>3, WalkQuiet
<1>7. CASE HasPath(k) /\ Goes(p, "write") /\ UNCHANGED names
  <2>1. op' = [op EXCEPT ![p] = at("write")]
    BY <1>7 DEF Goes
  <2>2. at("write").pc = "write" /\ at("write").key = k
    BY <1>3, <1>4
  <2> HIDE DEF at
  <2> QED BY <1>2, <1>4, <1>7, <2>1, <2>2, WalkQuiet
<1>8. CASE write_tmp(p) /\ Goes(p, "rename")
  <2>1. op' = [op EXCEPT ![p] = at("rename")] /\ names' = names /\ HasPath(k)
    BY <1>8 DEF Goes, write_tmp, WalkInv
  <2>2. at("rename").pc = "rename" /\ at("rename").key = k
    BY <1>3, <1>4
  <2> HIDE DEF at
  <2> QED BY <1>2, <1>4, <2>1, <2>2, WalkQuiet
<1>9. CASE /\ op[p].pc = "rename" /\ names[k] # "dir" /\ names' = [names EXCEPT ![k] = p]
           /\ op' = [Witnessed(op, Objects \cup {k}) EXCEPT ![p] = Finished(op[p], ok)]
  <2>1. Objects' = Objects \cup {k} /\ Objects \cup {k} \in SUBSET Keys
    BY <1>1, <1>2, <1>9 DEF DiskTypes, Objects, IsFile, Files
  <2>2. HasPath(k)
    BY <1>9 DEF WalkInv
  <2>3. names[k] # "dir" /\ \A d \in Keys \ {k} : names'[d] = names[d]
    BY <1>1, <1>9 DEF DiskTypes
  <2>4. PICK objects \in SUBSET Keys : objects = Objects \cup {k}
    BY <2>1
  <2> HIDE DEF ok
  <2> QED BY <1>1, <1>2, <1>9, <2>1, <2>2, <2>3, <2>4, WalkEffect
<1>10. CASE /\ names[k] # "dir" /\ names' = [names EXCEPT ![k] = Absent]
            /\ op' = [Witnessed(op, Objects \ {k}) EXCEPT ![p] = Finished(op[p], ok)]
  <2>1. Objects' = Objects \ {k} /\ Objects \ {k} \in SUBSET Keys
    BY <1>1, <1>2, <1>10, Distinct DEF DiskTypes, Objects, IsFile, Files
  <2>2. names[k] # "dir" /\ \A d \in Keys \ {k} : names'[d] = names[d]
    BY <1>1, <1>10 DEF DiskTypes
  <2>3. PICK objects \in SUBSET Keys : objects = Objects \ {k}
    BY <2>1
  <2> HIDE DEF ok
  <2> QED BY <1>1, <1>2, <1>10, <2>1, <2>2, <2>3, WalkEffect
<1>11. CASE create_dir_all(p)
  BY <1>5, <1>6, <1>7, <1>11 DEF create_dir_all
<1>12. CASE write_tmp(p)
  BY <1>5, <1>6, <1>8, <1>12 DEF write_tmp
<1>13. CASE rename(p)
  BY <1>5, <1>9, <1>13 DEF rename
<1>14. CASE delete(p)
  BY <1>5, <1>10, <1>14 DEF delete
<1> QED BY <1>11, <1>12, <1>13, <1>14

\* A listing's own step, on to the walk scan.
LEMMA WalkScan ==
  ASSUME IInv, WalkInv, NEW p \in Ops, NEW pc \in Listing, NEW scan \in ScanRec, op[p].pc \in Listing,
         Scans(p, pc, scan), names' = names, scan.always = op[p].scan.always,
         pc = "walk" => scan.due = {},
         ~scan.cut => \A k \in scan.always : Reaches(scan, k)
  PROVE  WalkInv'
<1> DEFINE new == [op[p] EXCEPT !.pc = pc, !.scan = scan]
<1>1. op[p] \in OpRec
  BY DEF IInv
<1>2. op' = [op EXCEPT ![p] = new]
  BY DEF Scans
<1>3. new.pc = pc /\ new.scan = scan
  BY <1>1 DEF OpRec
<1> HIDE DEF new
<1>4. scan.always \subseteq Objects
  BY DEF WalkInv, ScanInv
<1>5. ScanInv(new, Objects)
  BY <1>3, <1>4 DEF ScanInv
<1>6. new.pc \notin {"write", "rename"}
  BY <1>3 DEF Listing
<1>7. \A k \in Keys : names'[k] = names[k] \/ (names[k] = Absent /\ names'[k] = "dir")
  OBVIOUS
<1> HIDE DEF IInv, WalkInv
<1> QED BY <1>2, <1>5, <1>6, <1>7, WalkQuiet

\* What a listing in pc has to show for an object k that stays.
LEMMA OnThePath ==
  ASSUME IInv, WalkInv, NEW p \in Ops, op[p].pc \in Listing, ~op[p].scan.cut,
         NEW k \in op[p].scan.always
  PROVE  /\ k \in Keys /\ k \in Objects /\ Reaches(op[p].scan, k)
         /\ \A next \in Above[k] : next \in Keys /\ names[next] = "dir"
         /\ names[k] \in Files
         /\ op[p].pc = "walk" => op[p].scan.due = {}
<1>1. ScanInv(op[p], Objects)
  BY DEF WalkInv
<1>2. k \in Objects /\ Reaches(op[p].scan, k) /\ (op[p].pc = "walk" => op[p].scan.due = {})
  BY <1>1 DEF ScanInv
<1>3. k \in Keys /\ names[k] \in Files /\ HasPath(k)
  BY <1>2 DEF Objects, IsFile, WalkInv
<1> QED BY <1>2, <1>3, Paths DEF HasPath

\* read_dir: the entry that leads on to an object is one of those due.
LEMMA ReadDirKeepsWalks ==
  ASSUME IInv, WalkInv, NEW p \in Ops, read_dir(p)
  PROVE  WalkInv'
<1> DEFINE o == op[p].scan
<1>1. op[p] \in OpRec /\ op[p].pc = "walk" /\ op[p].pc \in Listing /\ names' = names
  BY DEF IInv, read_dir, Listing
<1>2. o \in ScanRec
  BY <1>1 DEF OpRec
<1>3. \A d : Entries(d) \subseteq Files
  BY DEF Entries, Files, IInv, DiskTypes
<1>4. PICK d \in o.dirs :
        \/ Scans(p, "entries", [o EXCEPT !.dirs = @ \ {d}, !.dir = d, !.due = Entries(d)])
        \/ Scans(p, "walk", [o EXCEPT !.dirs = @ \ {d}, !.cut = TRUE])
  BY DEF read_dir
<1> DEFINE s1 == [o EXCEPT !.dirs = @ \ {d}, !.dir = d, !.due = Entries(d)]
           s2 == [o EXCEPT !.dirs = @ \ {d}, !.cut = TRUE]
<1>5. /\ s1 \in ScanRec /\ s1.dirs = o.dirs \ {d} /\ s1.dir = d /\ s1.due = Entries(d)
      /\ s1.keys = o.keys /\ s1.always = o.always /\ s1.cut = o.cut
      /\ s2 \in ScanRec /\ s2.due = o.due /\ s2.always = o.always /\ s2.cut
  <2> HIDE DEF o
  <2> QED BY <1>2, <1>3 DEF ScanRec
<1>6. Scans(p, "entries", s1) \/ Scans(p, "walk", s2)
  BY <1>4
<1> HIDE DEF s1, s2
<1>7. CASE Scans(p, "entries", s1)
  <2>1. ASSUME ~s1.cut, NEW k \in s1.always PROVE Reaches(s1, k)
    <3>1. /\ k \in Keys /\ Reaches(o, k) /\ o.due = {} /\ names[k] \in Files
          /\ \A next \in Above[k] : next \in Keys /\ names[next] = "dir"
      BY <1>1, <1>5, <2>1, OnThePath
    <3>2. CASE d \in Above[k] \cup {Root}
      <4>1. PICK next \in Above[k] \cup {k} : Parent[next] = d
        BY <3>1, <3>2, Paths
      <4>2. next \in Keys /\ names[next] # Absent
        BY <3>1, <4>1, Distinct DEF Files
      <4>3. next \in Entries(d)
        BY <4>1, <4>2 DEF Entries
      <4> QED BY <1>5, <4>1, <4>3 DEF Reaches
    <3>3. CASE d \notin Above[k] \cup {Root}
      <4>1. k \in o.keys \/ (Above[k] \cup {Root}) \cap o.dirs # {}
        BY <3>1 DEF Reaches
      <4>2. (Above[k] \cup {Root}) \cap o.dirs = (Above[k] \cup {Root}) \cap s1.dirs
        BY <1>5, <3>3
      <4> QED BY <1>5, <4>1, <4>2 DEF Reaches
    <3> QED BY <3>2, <3>3
  <2>2. "entries" \in Listing /\ "entries" # "walk"
    BY DEF Listing
  <2> QED BY <1>1, <1>5, <1>7, <2>1, <2>2, WalkScan
<1>8. CASE Scans(p, "walk", s2)
  <2>1. "walk" \in Listing /\ o.due = {}
    BY <1>1 DEF Listing, WalkInv, ScanInv
  <2> QED BY <1>1, <1>5, <1>8, <2>1, WalkScan
<1> QED BY <1>6, <1>7, <1>8

\* next_entry: a directory on the path goes to the stack, the object to the result.
LEMMA EntryKeepsWalks ==
  ASSUME IInv, WalkInv, NEW p \in Ops, NEW e \in Files, next_entry(p, e)
  PROVE  WalkInv'
<1> DEFINE o == op[p].scan
           there == e \in Entries(o.dir) /\ ~IsTemp(e)
           new == IF there THEN {e} ELSE {}
           s1 == [o EXCEPT !.due = @ \ {e}, !.dirs = @ \cup new]
           s2 == [o EXCEPT !.due = @ \ {e}, !.keys = @ \cup new]
<1>1. op[p] \in OpRec /\ op[p].pc = "entries" /\ op[p].pc \in Listing /\ names' = names
  BY DEF IInv, next_entry, Listing
<1>2. o \in ScanRec
  BY <1>1 DEF OpRec
<1>3. new \subseteq Keys
  BY DEF Entries, IsTemp, IInv, DiskTypes
<1>4. /\ s1 \in ScanRec /\ s1.dirs = o.dirs \cup new /\ s1.dir = o.dir /\ s1.due = o.due \ {e}
      /\ s1.keys = o.keys /\ s1.always = o.always /\ s1.cut = o.cut
      /\ s2 \in ScanRec /\ s2.dirs = o.dirs /\ s2.dir = o.dir /\ s2.due = o.due \ {e}
      /\ s2.keys = o.keys \cup new /\ s2.always = o.always /\ s2.cut = o.cut
  <2> HIDE DEF o, new
  <2> QED BY <1>2, <1>3 DEF ScanRec
<1>5. \/ there /\ names[e] = "dir" /\ Scans(p, "entries", s1)
      \/ ~(there /\ names[e] = "dir") /\ Scans(p, "entries", s2)
  BY DEF next_entry
<1>6. "entries" \in Listing /\ "entries" # "walk"
  BY DEF Listing
<1>7. ASSUME NEW k \in o.always, ~o.cut, NEW next \in Above[k] \cup {k}, Parent[next] = o.dir, next = e
      PROVE  new = {e} /\ IF next = k THEN names[e] # "dir" ELSE names[e] = "dir"
  <2>1. /\ k \in Keys /\ names[k] \in Files
        /\ \A d \in Above[k] : d \in Keys /\ names[d] = "dir"
    BY <1>1, <1>7, OnThePath
  <2>2. /\ k \in Keys /\ names[k] # Absent
        /\ \A d \in Above[k] : d \in Keys /\ names[d] # Absent
    BY <2>1, Distinct DEF Files
  <2>3. there
    BY <1>7, <2>2, Distinct DEF Entries, IsTemp
  <2> QED BY <1>7, <2>1, <2>3, Distinct DEF Files
<1>8. \A k \in o.always : ~o.cut => Reaches(o, k)
  BY <1>1, OnThePath
<1>9. CASE there /\ names[e] = "dir" /\ Scans(p, "entries", s1)
  <2>1. ASSUME ~s1.cut, NEW k \in s1.always PROVE Reaches(s1, k)
    <3> HIDE DEF o, new, s1, s2, there
    <3>1. k \in o.always /\ ~o.cut /\ Reaches(o, k)
      BY <1>4, <1>8, <2>1
    <3>2. ASSUME NEW next \in Above[k] \cup {k}, next \in o.due, Parent[next] = o.dir
          PROVE  Reaches(s1, k)
      <4>1. CASE next = e
        BY <1>4, <1>7, <1>9, <3>1, <3>2, <4>1 DEF Reaches
      <4>2. CASE next # e
        BY <1>4, <3>2, <4>2 DEF Reaches
      <4> QED BY <4>1, <4>2
    <3> QED BY <1>4, <3>1, <3>2 DEF Reaches
  <2> HIDE DEF s1, there
  <2> QED BY <1>1, <1>4, <1>6, <1>9, <2>1, WalkScan
<1>10. CASE ~(there /\ names[e] = "dir") /\ Scans(p, "entries", s2)
  <2>1. ASSUME ~s2.cut, NEW k \in s2.always PROVE Reaches(s2, k)
    <3>1. new = {e} => there
      OBVIOUS
    <3> HIDE DEF o, new, s1, s2, there
    <3>2. k \in o.always /\ ~o.cut /\ Reaches(o, k)
      BY <1>4, <1>8, <2>1
    <3>3. ASSUME NEW next \in Above[k] \cup {k}, next \in o.due, Parent[next] = o.dir
          PROVE  Reaches(s2, k)
      <4>1. CASE next = e
        BY <1>4, <1>7, <1>10, <3>1, <3>2, <3>3, <4>1 DEF Reaches
      <4>2. CASE next # e
        BY <1>4, <3>3, <4>2 DEF Reaches
      <4> QED BY <4>1, <4>2
    <3> QED BY <1>4, <3>2, <3>3 DEF Reaches
  <2> HIDE DEF s2, there
  <2> QED BY <1>1, <1>4, <1>6, <1>10, <2>1, WalkScan
<1> QED BY <1>5, <1>9, <1>10

\* The end of a directory: an entry that leads on and was not read cuts the listing short.
LEMMA EndOfDirKeepsWalks ==
  ASSUME IInv, WalkInv, NEW p \in Ops, EndOfDir(p)
  PROVE  WalkInv'
<1> DEFINE o == op[p].scan
           missed == o.due \cap Entries(o.dir) # {}
           s1 == [o EXCEPT !.dir = Absent, !.due = {}, !.cut = @ \/ missed]
<1>1. op[p] \in OpRec /\ op[p].pc \in Listing /\ names' = names
  BY DEF IInv, EndOfDir, Listing
<1>2. o \in ScanRec
  BY <1>1 DEF OpRec
<1>3. Scans(p, "walk", s1)
  BY DEF EndOfDir
<1>4. /\ s1 \in ScanRec /\ s1.due = {} /\ s1.dirs = o.dirs /\ s1.keys = o.keys
      /\ s1.always = o.always /\ s1.cut = (o.cut \/ missed)
  <2>1. missed \in BOOLEAN
    OBVIOUS
  <2> HIDE DEF o, missed
  <2> QED BY <1>2, <2>1 DEF ScanRec
<1> HIDE DEF s1
<1>5. ASSUME ~s1.cut, NEW k \in s1.always PROVE Reaches(s1, k)
  <2>1. ~o.cut /\ ~missed /\ k \in o.always
    BY <1>4, <1>5
  <2>2. /\ k \in Keys /\ Reaches(o, k) /\ names[k] \in Files
        /\ \A d \in Above[k] : d \in Keys /\ names[d] = "dir"
    BY <1>1, <2>1, OnThePath
  <2>3. /\ k \in Keys /\ names[k] # Absent
        /\ \A d \in Above[k] : d \in Keys /\ names[d] # Absent
    BY <2>2, Distinct DEF Files
  <2>4. \A next \in Above[k] \cup {k} : ~(next \in o.due /\ Parent[next] = o.dir)
    BY <2>1, <2>3 DEF Entries
  <2> HIDE DEF o
  <2> QED BY <1>4, <2>2, <2>4 DEF Reaches
<1>6. "walk" \in Listing
  BY DEF Listing
<1> QED BY <1>1, <1>3, <1>4, <1>5, <1>6, WalkScan

\* Calls, reads, results, returns and crashes.
LEMMA OthersKeepWalks ==
  ASSUME IInv, WalkInv, NEW p \in Ops,
         open(p) \/ get(p) \/ head(p) \/ exists(p) \/ list(p) \/ Return(p)
  PROVE  WalkInv'
<1>1. op[p] \in OpRec /\ OpInv(p) /\ names' = names
  BY DEF IInv, open, get, head, exists, list, Return
<1>2. ASSUME NEW status \in {"none", "Ok", "Backend", "NotFound", "true", "false"}, Ends(p, status)
      PROVE  WalkInv'
  BY <1>1, <1>2, WalkEnds
<1>3. \A k \in Keys : names'[k] = names[k] \/ (names[k] = Absent /\ names'[k] = "dir")
  BY <1>1
<1>4. CASE open(p)
  <2>1. CASE Ends(p, "Backend") \/ Ends(p, "NotFound")
    BY <1>2, <2>1
  <2>2. CASE op' = [op EXCEPT ![p].pc = "read", ![p].file = names[op[p].key]]
    <3> DEFINE new == [op[p] EXCEPT !.pc = "read", !.file = names[op[p].key]]
    <3>1. op' = [op EXCEPT ![p] = new] /\ new.pc = "read"
      BY <1>1, <2>2 DEF OpRec
    <3> HIDE DEF new
    <3>2. new.pc \notin {"write", "rename"} \cup Listing
      BY <3>1 DEF Listing
    <3> QED BY <1>3, <3>1, <3>2, WalkQuiet
  <2> QED BY <1>4, <2>1, <2>2 DEF open
<1>5. CASE get(p)
  <2> DEFINE body == IF Whole(op[p].file) THEN Body(op[p].file) ELSE "torn"
  <2>1. op[p].file \in Files
    BY <1>1, <1>5 DEF get, OpInv
  <2>2. body \in Bodies \cup {Absent, "torn"}
    <3>1. op[p].file \in Ops => op[op[p].file].body \in Bodies \cup {Absent}
      BY DEF IInv, OpRec
    <3> QED BY <2>1, <3>1, Distinct DEF Body, Files
  <2>3. op' = [op EXCEPT ![p] = Finished(op[p], Result("Ok", body, {}))]
    BY <1>5 DEF get
  <2> HIDE DEF body
  <2>4. Result("Ok", body, {}) \in ResultRec
    BY <2>2, ResultFields
  <2> QED BY <1>1, <2>3, <2>4, WalkFinish
<1>6. CASE head(p) \/ exists(p)
  BY <1>2, <1>6 DEF head, exists
<1>7. CASE list(p)
  <2>1. op[p].scan.keys \in SUBSET Keys
    BY <1>1 DEF OpRec, ScanRec
  <2>2. op' = [op EXCEPT ![p] = Finished(op[p], Result("Ok", Absent, op[p].scan.keys))]
    BY <1>7 DEF list
  <2>3. Result("Ok", Absent, op[p].scan.keys) \in ResultRec
    BY <2>1, ResultFields
  <2> QED BY <1>1, <2>2, <2>3, WalkFinish
<1>8. CASE Return(p)
  <2> DEFINE new == [op[p] EXCEPT !.pc = "done"]
  <2>1. op' = [op EXCEPT ![p] = new] /\ new.pc = "done"
    BY <1>1, <1>8 DEF Return, Goes, OpRec
  <2> HIDE DEF new
  <2>2. new.pc \notin {"write", "rename"} \cup Listing
    BY <2>1 DEF Listing
  <2> QED BY <1>3, <2>1, <2>2, WalkQuiet
<1> QED BY <1>4, <1>5, <1>6, <1>7, <1>8

\* A listing begins at the root, with every object before it.
LEMMA CallKeepsWalks ==
  ASSUME IInv, WalkInv, NEW p \in Ops, NEW kind \in DOMAIN FirstStep \cup {"list"}, NEW k \in Keys,
         NEW body \in Bodies \cup {Absent}, Call(p, kind, k, body)
  PROVE  WalkInv'
<1>1. \A j \in Keys : names'[j] = names[j] \/ (names[j] = Absent /\ names'[j] = "dir")
  BY DEF Call
<1>2. CASE kind = "list"
  <2> DEFINE new == OpRecord("walk", kind, Absent, body, Scan({Root}, Objects), NoResult)
  <2>1. op' = [op EXCEPT ![p] = new]
    BY <1>2 DEF Call
  <2>2. new.pc = "walk" /\ new.scan = Scan({Root}, Objects)
    BY SMT DEF OpRecord
  <2>3. LET scan == Scan({Root}, Objects) IN
        scan.due = {} /\ scan.always = Objects /\ scan.dirs = {Root}
    BY SMT DEF Scan
  <2> HIDE DEF new
  <2>4. ScanInv(new, Objects)
    BY <2>2, <2>3 DEF ScanInv, Reaches
  <2>5. new.pc \notin {"write", "rename"}
    BY <2>2
  <2> QED BY <1>1, <2>1, <2>4, <2>5, WalkQuiet
<1>3. CASE kind # "list"
  <2> DEFINE new == OpRecord(FirstStep[kind], kind, k, body, NoScan, NoResult)
  <2>1. op' = [op EXCEPT ![p] = new]
    BY <1>3 DEF Call
  <2>2. new.pc = FirstStep[kind]
    BY SMT DEF OpRecord
  <2>3. FirstStep[kind] \in {"mkdir", "unlink", "open", "stat"}
    BY <1>3, FirstSteps
  <2> HIDE DEF new
  <2>4. new.pc \notin {"write", "rename"} \cup Listing
    BY <2>2, <2>3 DEF Listing
  <2> QED BY <1>1, <2>1, <2>4, WalkQuiet
<1> QED BY <1>2, <1>3

\* After a crash nothing is written or listed, and the directories are still there.
LEMMA CrashKeepsWalks ==
  ASSUME IInv, WalkInv, Crash
  PROVE  WalkInv'
<1>1. names' = names /\ Objects' = Objects
  BY DEF Crash, Objects, IsFile
<1>2. \A q \in Ops : op'[q].pc \notin {"write", "rename"} \cup Listing
  BY CrashRec DEF Listing
<1>3. \A k \in Objects' : HasPath(k)'
  BY <1>1 DEF WalkInv, HasPath
<1> QED BY <1>2, <1>3 DEF WalkInv

\* What is there at the start has its directories, and nothing is listed yet.
LEMMA InitWalks == Init => WalkInv
<1> SUFFICES ASSUME Init PROVE WalkInv
  OBVIOUS
<1>1. PICK present \in SUBSET Keys :
        /\ \A k \in present : Above[k] \cap present = {}
        /\ names = [j \in Keys |-> IF j \in present THEN j
                                   ELSE IF \E i \in present : j \in Above[i] THEN "dir" ELSE Absent]
  BY DEF Init
<1>2. ASSUME NEW k \in Objects PROVE HasPath(k)
  <2>1. k \in present
    BY <1>1, Distinct DEF Objects, IsFile, Files
  <2>2. \A d \in Above[k] : d \in Keys /\ d \notin present
    BY <1>1, <2>1, Paths
  <2> QED BY <1>1, <2>1, <2>2 DEF HasPath
<1>3. \A p \in Ops : op[p].pc = "idle"
  BY SMT DEF Init, Unused, OpRecord
<1> QED BY <1>2, <1>3 DEF WalkInv, Listing

\* Every step of the driver keeps it.
LEMMA NextKeepsWalks == IInv /\ WalkInv /\ [Next]_vars => WalkInv'
<1> SUFFICES ASSUME IInv, WalkInv, [Next]_vars PROVE WalkInv'
  OBVIOUS
<1>1. CASE UNCHANGED vars
  BY <1>1 DEF vars, WalkInv, Objects, IsFile, HasPath
<1>2. ASSUME NEW p \in Ops, NEW kind \in DOMAIN FirstStep \cup {"list"}, NEW k \in Keys,
             NEW body \in Bodies \cup {Absent}, Call(p, kind, k, body)
      PROVE  WalkInv'
  BY <1>2, CallKeepsWalks
<1>3. ASSUME NEW p \in Ops, create_dir_all(p) \/ write_tmp(p) \/ rename(p) \/ delete(p)
      PROVE  WalkInv'
  BY <1>3, WritesKeepWalks
<1>4. ASSUME NEW p \in Ops, open(p) \/ get(p) \/ head(p) \/ exists(p) \/ list(p) \/ Return(p)
      PROVE  WalkInv'
  BY <1>4, OthersKeepWalks
<1>5. ASSUME NEW p \in Ops, read_dir(p) \/ (\E e \in Files : next_entry(p, e)) \/ EndOfDir(p)
      PROVE  WalkInv'
  BY <1>5, ReadDirKeepsWalks, EntryKeepsWalks, EndOfDirKeepsWalks
<1>6. CASE Crash
  BY <1>6, CrashKeepsWalks
<1> HIDE DEF IInv, WalkInv
<1> QED BY <1>1, <1>2, <1>3, <1>4, <1>5, <1>6 DEF Next

\* A listing that no error cut short shows every key that held an object all along,
\* whatever is renamed, removed or created around it and however deep its path
\* (collect_recursive).
THEOREM ListingsAreComplete == Spec => ListComplete
<1>1. Spec => []WalkInv
  BY InitWalks, NextKeepsWalks, Invariance, PTL DEF Spec
<1>2. IInv /\ WalkInv /\ [Next]_vars =>
        [\A p \in Ops : list(p) /\ ~op[p].scan.cut => op[p].scan.always \subseteq op'[p].result.keys]_vars
  <2> SUFFICES ASSUME IInv, WalkInv, NEW p \in Ops, list(p), ~op[p].scan.cut, NEW k \in op[p].scan.always
               PROVE  k \in op'[p].result.keys
    OBVIOUS
  <2> DEFINE r == Result("Ok", Absent, op[p].scan.keys)
  <2>1. /\ op \in [Ops -> OpRec] /\ op[p] \in OpRec /\ op[p].pc = "walk" /\ op[p].scan.dirs = {}
        /\ op' = [op EXCEPT ![p] = Finished(op[p], r)]
    BY DEF IInv, list
  <2>2. op[p].pc \in Listing
    BY <2>1 DEF Listing
  <2>3. Reaches(op[p].scan, k) /\ op[p].scan.due = {}
    BY <2>1, <2>2, OnThePath
  <2>4. k \in op[p].scan.keys
    BY <2>1, <2>3 DEF Reaches
  <2>5. r \in ResultRec /\ r.keys = op[p].scan.keys
    BY <2>1 DEF Result, ResultRec, OpRec, ScanRec
  <2> HIDE DEF r
  <2>6. op'[p].result = r
    BY <2>1, <2>5, FinishedRec
  <2> QED BY <2>4, <2>5, <2>6
<1> QED BY <1>1, <1>2, Invariance, PTL DEF Spec, ListComplete
=============================================================================
