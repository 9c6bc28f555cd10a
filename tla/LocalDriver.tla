---------------------------- MODULE LocalDriver ----------------------------
(***************************************************************************)
(* The local storage driver, system call by system call: files are written *)
(* under a temporary name and renamed into place; readers keep the file    *)
(* they opened; a listing reads one directory entry at a time.  The server *)
(* may crash between any two steps and leave temporary files behind.       *)
(*                                                                         *)
(* The file system is external: a call takes effect at once, rename        *)
(* replaces atomically, an open file outlives its name, and reading a      *)
(* directory returns every entry that is there all along.  A file is known *)
(* by the put that wrote it, or by its key if it was there before.         *)
(***************************************************************************)
EXTENDS Naturals

CONSTANTS
  Keys, Root,
  Parent,     \* [Keys -> Keys \cup {Root}]: the directory of a key
  Above,      \* [Keys -> SUBSET Keys]: the directories on the path to a key, Root not
  Bodies, Seed,   \* Seed: what files hold that were there before
  Ops, Absent,
  MaxCrashes

ASSUME LocalDriverAssumption ==
  /\ Parent \in [Keys -> Keys \cup {Root}] /\ Root \notin Keys
  /\ Above \in [Keys -> SUBSET Keys]
  /\ \A k \in Keys : \A d \in Above[k] \cup {Root} : \E next \in Above[k] \cup {k} : Parent[next] = d
  /\ Seed \in Bodies /\ Absent \notin Bodies
  /\ Ops \cap Keys = {} /\ {Absent, "dir"} \cap (Ops \cup Keys) = {} /\ Absent # "dir"
  /\ MaxCrashes \in Nat

VARIABLES
  names,    \* [Keys -> Absent, "dir", or the file with that name]
  temps,    \* puts whose temporary file exists
  data,     \* puts: how much of their file is written
  op,
  crashes

vars == <<names, temps, data, op, crashes>>

Files == Ops \cup Keys
IsFile(x) == x \in Files
Objects == {k \in Keys : IsFile(names[k])}
Directories == UNION {Above[k] : k \in Keys}

Result(status, body, keys) == [status |-> status, body |-> body, keys |-> keys]
NoResult == Result("none", Absent, {})

\* A listing under way: the directories to visit, the one it reads and the
\* entries still due of it, the keys found; of its history, the objects that
\* were there all along or at some time, and whether an error cut it short.
Scan(dirs, objects) ==
  [dirs |-> dirs, dir |-> Absent, due |-> {}, keys |-> {}, always |-> objects, ever |-> objects,
   cut |-> FALSE]
NoScan == Scan({}, {})

OpRecord(pc, kind, key, body, scan, result) ==
  [pc |-> pc, kind |-> kind, key |-> key, body |-> body, file |-> Absent, scan |-> scan,
   result |-> result]
Unused == OpRecord("idle", "none", Absent, Absent, NoScan, NoResult)

\* A path through a file leads nowhere, and not to "not found" either.
ThroughFile(k) == \E d \in Above[k] : IsFile(names[d])

Body(f) == IF f \in Keys THEN Seed ELSE op[f].body
Whole(f) == f \in Keys \/ data[f] = "whole"

\* What is there at the start: files, and the directories they are in.
Init ==
  /\ \E present \in SUBSET Keys :
       /\ \A k \in present : Above[k] \cap present = {}
       /\ names = [k \in Keys |-> IF k \in present THEN k
                                 ELSE IF \E j \in present : k \in Above[j] THEN "dir" ELSE Absent]
  /\ temps = {} /\ data = [p \in Ops |-> "none"] /\ op = [p \in Ops |-> Unused] /\ crashes = 0

\* p goes on; p has its result.
Goes(p, pc) == op' = [op EXCEPT ![p].pc = pc]
Finished(o, result) ==
  OpRecord("taken", o.kind, o.key, o.body, NoScan, result)
Ends(p, status) == op' = [op EXCEPT ![p] = Finished(@, Result(status, Absent, {}))]

FirstStep == [put |-> "mkdir", delete |-> "unlink", get |-> "open", head |-> "stat",
              exists |-> "stat"]

Call(p, kind, k, body) ==
  /\ op[p].pc = "idle"
  /\ body # Absent <=> kind = "put"
  /\ op' = [op EXCEPT ![p] =
       IF kind = "list" THEN OpRecord("walk", kind, Absent, body, Scan({Root}, Objects), NoResult)
       ELSE OpRecord(FirstStep[kind], kind, k, body, NoScan, NoResult)]
  /\ UNCHANGED <<names, temps, data, crashes>>

Return(p) ==
  /\ op[p].pc = "taken"
  /\ Goes(p, "done")
  /\ UNCHANGED <<names, temps, data, crashes>>

-----------------------------------------------------------------------------
(* put and delete.                                                         *)

\* While k changes hands, listings under way are told (for the properties).
Saw(scan, objects) == [scan EXCEPT !.ever = @ \cup objects, !.always = @ \cap objects]
Witnessed(ops, objects) ==
  [q \in Ops |-> IF ops[q].pc \in {"walk", "entries"}
                 THEN [ops[q] EXCEPT !.scan = Saw(@, objects)] ELSE ops[q]]

\* create_dir_all: makes the directories on the path, one by one; a file in
\* the place of one is an error.
HasPath(k) == \A d \in Above[k] : names[d] = "dir"
create_dir_all(p) ==
  LET k == op[p].key
  IN /\ op[p].pc = "mkdir"
     /\ \/ Ends(p, "Backend") /\ UNCHANGED names
        \/ /\ \E d \in Above[k] : /\ names[d] = Absent /\ HasPath(d)
                                  /\ names' = [names EXCEPT ![d] = "dir"]
           /\ UNCHANGED op
        \/ HasPath(k) /\ Goes(p, "write") /\ UNCHANGED names
     /\ UNCHANGED <<temps, data, crashes>>

\* A write straight to the object's own name.
WriteInPlace(p) ==
  /\ op[p].pc = "write" /\ names[op[p].key] # "dir"
  /\ names' = [names EXCEPT ![op[p].key] = p]
  /\ data' = [data EXCEPT ![p] = "part"]
  /\ op' = [Witnessed(op, Objects \cup {op[p].key}) EXCEPT ![p].pc = "rename"]
  /\ UNCHANGED <<temps, crashes>>

\* fs::write to the temporary file, in more than one system call.
write_tmp(p) ==
  /\ op[p].pc = "write" /\ data[p] # "whole"
  /\ temps' = temps \cup {p}
  /\ \/ data' = [data EXCEPT ![p] = "part"] /\ UNCHANGED op
     \/ data' = [data EXCEPT ![p] = "whole"] /\ Goes(p, "rename")
     \/ data' = [data EXCEPT ![p] = "part"] /\ Ends(p, "Backend")
  /\ UNCHANGED <<names, crashes>>

\* A file replaces a file of its name; over a directory it fails.
rename(p) ==
  LET k == op[p].key
  IN /\ op[p].pc = "rename"
     /\ \/ /\ names[k] # "dir"
           /\ names' = [names EXCEPT ![k] = p]
           /\ temps' = temps \ {p}
           /\ op' = [Witnessed(op, Objects \cup {k}) EXCEPT
                       ![p] = Finished(op[p], Result("Ok", Absent, {}))]
        \/ Ends(p, "Backend") /\ UNCHANGED <<names, temps>>
     /\ UNCHANGED <<data, crashes>>

delete(p) ==
  LET k == op[p].key
  IN /\ op[p].pc = "unlink"
     /\ \/ /\ names[k] # "dir"
           /\ names' = [names EXCEPT ![k] = Absent]
           /\ op' = [Witnessed(op, Objects \ {k}) EXCEPT
                       ![p] = Finished(op[p], Result("Ok", Absent, {}))]
        \/ Ends(p, "Backend") /\ UNCHANGED names
     /\ UNCHANGED <<temps, data, crashes>>

-----------------------------------------------------------------------------
(* get, head and exists.                                                   *)

\* fs::read: the file that is opened is the one that is read.  An error while
\* reading is chosen here already.
open(p) ==
  LET k == op[p].key
  IN /\ op[p].pc = "open"
     /\ \/ Ends(p, "Backend")
        \/ names[k] = Absent /\ ~ThroughFile(k) /\ Ends(p, "NotFound")
        \/ IsFile(names[k]) /\ op' = [op EXCEPT ![p].pc = "read", ![p].file = names[k]]
     /\ UNCHANGED <<names, temps, data, crashes>>

get(p) ==
  LET f == op[p].file
  IN /\ op[p].pc = "read"
     /\ op' = [op EXCEPT ![p] = Finished(@, Result("Ok", IF Whole(f) THEN Body(f) ELSE "torn", {}))]
     /\ UNCHANGED <<names, temps, data, crashes>>

\* fs::metadata, of a file or a directory.
head(p) ==
  LET k == op[p].key
  IN /\ op[p].pc = "stat" /\ op[p].kind = "head"
     /\ \/ Ends(p, "Backend")
        \/ names[k] = Absent /\ ~ThroughFile(k) /\ Ends(p, "NotFound")
        \/ names[k] # Absent /\ Ends(p, "Ok")
     /\ UNCHANGED <<names, temps, data, crashes>>

\* fs::try_exists, and false on an error.
exists(p) ==
  /\ op[p].pc = "stat" /\ op[p].kind = "exists"
  /\ \/ Ends(p, "false")
     \/ names[op[p].key] # Absent /\ Ends(p, "true")
  /\ UNCHANGED <<names, temps, data, crashes>>

-----------------------------------------------------------------------------
(* list.                                                                   *)

\* The entries of a directory: its keys, and temporary files.
Entries(d) ==
  {k \in Keys : Parent[k] = d /\ names[k] # Absent} \cup {p \in temps : Parent[op[p].key] = d}

\* p's listing goes on.
Scans(p, pc, scan) == op' = [op EXCEPT ![p] = [@ EXCEPT !.pc = pc, !.scan = scan]]

\* The next directory on the stack; one that cannot be read is passed over.
read_dir(p) ==
  LET o == op[p].scan
  IN /\ op[p].pc = "walk"
     /\ \E d \in o.dirs :
          \/ Scans(p, "entries", [o EXCEPT !.dirs = @ \ {d}, !.dir = d, !.due = Entries(d)])
          \/ Scans(p, "walk", [o EXCEPT !.dirs = @ \ {d}, !.cut = TRUE])
     /\ UNCHANGED <<names, temps, data, crashes>>

\* Names that begin with a dot and end in .tmp are not objects.
IsTemp(e) == e \in Ops

\* An entry that was there when the directory was opened, or is there now; if
\* it is gone by the time of its metadata it is passed over.
NoDescent(p, e) ==
  LET o == op[p].scan
      new == IF e \in Objects THEN {e} ELSE {}
  IN /\ op[p].pc = "entries" /\ e \in o.due \cup Entries(o.dir)
     /\ Scans(p, "entries", [o EXCEPT !.due = @ \ {e}, !.keys = @ \cup new])
     /\ UNCHANGED <<names, temps, data, crashes>>
next_entry(p, e) ==
  LET o == op[p].scan
      there == e \in Entries(o.dir) /\ ~IsTemp(e)
      new == IF there THEN {e} ELSE {}
  IN /\ op[p].pc = "entries" /\ e \in o.due \cup Entries(o.dir)
     /\ \/ /\ there /\ names[e] = "dir"
           /\ Scans(p, "entries", [o EXCEPT !.due = @ \ {e}, !.dirs = @ \cup new])
        \/ /\ ~(there /\ names[e] = "dir")
           /\ Scans(p, "entries", [o EXCEPT !.due = @ \ {e}, !.keys = @ \cup new])
     /\ UNCHANGED <<names, temps, data, crashes>>

\* The directory is at its end, or fails to be read further.
EndOfDir(p) ==
  LET o == op[p].scan
      missed == o.due \cap Entries(o.dir) # {}
  IN /\ op[p].pc = "entries"
     /\ Scans(p, "walk", [o EXCEPT !.dir = Absent, !.due = {}, !.cut = @ \/ missed])
     /\ UNCHANGED <<names, temps, data, crashes>>

list(p) ==
  LET o == op[p]
  IN /\ o.pc = "walk" /\ o.scan.dirs = {}
     /\ op' = [op EXCEPT ![p] = Finished(o, Result("Ok", Absent, o.scan.keys))]
     /\ UNCHANGED <<names, temps, data, crashes>>

-----------------------------------------------------------------------------
\* Calls under way are lost; what is on disk stays.
Crash ==
  /\ crashes < MaxCrashes
  /\ crashes' = crashes + 1
  /\ op' = [p \in Ops |-> CASE op[p].pc \in {"idle", "done"} -> op[p]
                           [] OTHER -> OpRecord("lost", "none", op[p].key, op[p].body, NoScan,
                                                NoResult)]
  /\ UNCHANGED <<names, temps, data>>

Next ==
  \/ \E p \in Ops, kind \in DOMAIN FirstStep \cup {"list"}, k \in Keys, body \in Bodies \cup {Absent} :
       Call(p, kind, k, body)
  \/ \E p \in Ops :
       \/ create_dir_all(p) \/ write_tmp(p) \/ rename(p) \/ delete(p)
       \/ open(p) \/ get(p) \/ head(p) \/ exists(p)
       \/ read_dir(p) \/ (\E e \in Files : next_entry(p, e)) \/ EndOfDir(p) \/ list(p)
       \/ Return(p)
  \/ Crash

Spec == Init /\ [][Next]_vars

-----------------------------------------------------------------------------
Running == {"idle", "read", "taken", "done", "lost"}
AbstractOp(o) ==
  [pc |-> CASE o.pc = "read" -> "taken" [] o.pc \in Running \ {"read"} -> o.pc [] OTHER -> "pending",
   kind |-> o.kind, ever |-> o.scan.ever,
   key |-> IF o.pc = "lost" THEN Absent ELSE o.key,
   body |-> IF o.pc = "lost" THEN Absent ELSE o.body,
   result |-> IF o.pc = "read" THEN Result("Ok", Body(o.file), {}) ELSE o.result]

AbstractStore == [k \in Keys |-> IF IsFile(names[k]) THEN Body(names[k]) ELSE Absent]
AbstractOps == [p \in Ops |-> AbstractOp(op[p])]
Abstract == INSTANCE ObjectStore WITH
  Prefixes <- Directories, store <- AbstractStore, op <- AbstractOps

\* "Each object is written atomically via temp + rename to avoid partial
\* reads": whatever calls overlap, fail half-way or are cut off by a crash,
\* every call takes effect at once or not at all, and a listing shows no key
\* that never held an object, temporary files least of all.
Atomic == Abstract!Spec

\* No name ever leads to a file that is not wholly written, and no two puts
\* share a file (put's unique temporary name).
ObjectsAreWhole ==
  /\ \A k \in Keys : IsFile(names[k]) => Whole(names[k])
  /\ \A p \in Ops : op[p].pc = "read" => Whole(op[p].file)
  /\ \A j, k \in Keys : IsFile(names[j]) /\ names[j] = names[k] => j = k

\* A listing that no error cut short shows every key that held an object
\* all along, whatever was renamed, removed or created around it
\* (collect_recursive).
ListComplete ==
  [][\A p \in Ops : list(p) /\ ~op[p].scan.cut => op[p].scan.always \subseteq op'[p].result.keys]_vars

TypeOK ==
  /\ names \in [Keys -> {Absent, "dir"} \cup Files]
  /\ temps \subseteq Ops
  /\ data \in [Ops -> {"none", "part", "whole"}]
  /\ \A p \in Ops :
       /\ op[p].pc \in {"mkdir", "write", "rename", "unlink", "open", "stat", "walk", "entries"} \cup Running
       /\ op[p].key \in Keys \cup {Absent} /\ op[p].body \in Bodies \cup {Absent}
       /\ op[p].file \in Files \cup {Absent} /\ op[p].scan.dirs \subseteq Keys \cup {Root}
       /\ op[p].scan.keys \cup op[p].result.keys \subseteq Keys
  /\ crashes \in 0..MaxCrashes
=============================================================================
