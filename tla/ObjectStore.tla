---------------------------- MODULE ObjectStore ----------------------------
(***************************************************************************)
(* What a storage backend promises its callers: an operation takes effect  *)
(* at once, somewhere between its call and its return, or fails without    *)
(* one; a crash stops the operations that have not returned.  A listing    *)
(* shows only keys that held an object while it ran.                       *)
(***************************************************************************)
EXTENDS Naturals

CONSTANTS
  Keys,
  Prefixes,   \* keys that are also the beginning of other keys
  Bodies,
  Ops,        \* the calls
  Absent

VARIABLES
  store,   \* [Keys -> {Absent} \cup Bodies]
  op       \* call by call

vars == <<store, op>>

Kinds == {"put", "delete", "get", "head", "exists", "list"}
Result(status, body, keys) == [status |-> status, body |-> body, keys |-> keys]
NoResult == Result("none", Absent, {})
OpRecord(pc, kind, key, body, ever, result) ==
  [pc |-> pc, kind |-> kind, key |-> key, body |-> body, ever |-> ever, result |-> result]
Unused == OpRecord("idle", "none", Absent, Absent, {}, NoResult)
Lost == OpRecord("lost", "none", Absent, Absent, {}, NoResult)
Taken(o, result) == OpRecord("taken", o.kind, o.key, o.body, {}, result)
Shown(o, keys) == OpRecord(o.pc, o.kind, o.key, o.body, o.ever \cup keys, o.result)

Present(s) == {k \in Keys : s[k] # Absent}

Init == store \in [Keys -> {Absent} \cup Bodies] /\ op = [p \in Ops |-> Unused]

Call(p, kind, k, body) ==
  /\ op[p].pc = "idle"
  /\ op' = [op EXCEPT ![p] =
       IF kind = "list" THEN OpRecord("pending", kind, Absent, body, Present(store), NoResult)
       ELSE OpRecord("pending", kind, k, body, {}, NoResult)]
  /\ UNCHANGED store

\* The results of operation o against s; a write that fails leaves s alone.
Outcomes(o, s) ==
  {Result("Backend", Absent, {})} \cup
  CASE o.kind \in {"put", "delete"} -> {}
    [] o.kind = "get" -> {IF s[o.key] = Absent THEN Result("NotFound", Absent, {})
                          ELSE Result("Ok", s[o.key], {})}
    [] o.kind = "head" ->
         {Result(IF s[o.key] = Absent THEN "NotFound" ELSE "Ok", Absent, {})}
           \cup (IF o.key \in Prefixes THEN {Result("Ok", Absent, {})} ELSE {})
    [] o.kind = "exists" ->
         {Result("false", Absent, {})}
           \cup (IF s[o.key] # Absent \/ o.key \in Prefixes THEN {Result("true", Absent, {})} ELSE {})
    [] o.kind = "list" -> {Result("Ok", Absent, keys) : keys \in SUBSET o.ever}

\* The operation takes effect, and with it every listing under way sees a
\* new object.
Take(p) ==
  LET o == op[p]
      new == [store EXCEPT ![o.key] = o.body]
  IN /\ o.pc = "pending"
     /\ \/ /\ \E r \in Outcomes(o, store) : op' = [op EXCEPT ![p] = Taken(o, r)]
           /\ UNCHANGED store
        \/ /\ o.kind \in {"put", "delete"}
           /\ store' = new
           /\ op' = [q \in Ops |->
                       IF q = p THEN Taken(o, Result("Ok", Absent, {}))
                       ELSE IF op[q].kind = "list" /\ op[q].pc = "pending"
                       THEN Shown(op[q], Present(new)) ELSE op[q]]

Return(p) ==
  /\ op[p].pc = "taken"
  /\ op' = [op EXCEPT ![p].pc = "done"]
  /\ UNCHANGED store

Crash ==
  /\ op' = [p \in Ops |-> IF op[p].pc \in {"pending", "taken"} THEN Lost ELSE op[p]]
  /\ UNCHANGED store

Next ==
  \/ \E p \in Ops, kind \in Kinds, k \in Keys, body \in Bodies \cup {Absent} : Call(p, kind, k, body)
  \/ \E p \in Ops : Take(p) \/ Return(p)
  \/ Crash

Spec == Init /\ [][Next]_vars
=============================================================================
