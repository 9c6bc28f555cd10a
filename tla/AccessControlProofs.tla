------------------------ MODULE AccessControlProofs ------------------------
(***************************************************************************)
(* The decisions of the permission engine, request by request, for any     *)
(* number of users, teams, images and concurrent requests.                 *)
(***************************************************************************)
EXTENDS AccessControl, TLAPS

\* A leaf is tried with Zenon; one that needs records or arithmetic cites SMT.
USE Zenon

\* What a role may do to images, teams and users (default_permissions).
LEMMA ImagePermissions ==
  ASSUME NEW r \in Roles, NEW a \in {"read", "create", "update", "delete"}
  PROVE  Permission("image", a) \in default_permissions(r) <=>
           r \in Bosses \/ a = "read" \/ (r = "uploader" /\ a = "create")
<1>1. CASE r = "viewer"
  BY <1>1 DEF default_permissions, Permission, Bosses
<1>2. CASE r = "uploader"
  BY <1>2 DEF default_permissions, Permission, Bosses
<1>3. CASE r = "manager"
  BY <1>3 DEF default_permissions, Permission, Bosses
<1>4. CASE r = "admin"
  BY <1>4 DEF default_permissions, Permission, Bosses
<1> QED BY <1>1, <1>2, <1>3, <1>4 DEF Roles

\* And to teams and users.
LEMMA TeamPermissions ==
  ASSUME NEW r \in Roles, NEW a \in {"read", "update"}
  PROVE  /\ Permission("team", a) \in default_permissions(r) <=> r \in Bosses
         /\ Permission("user", "admin") \in default_permissions(r) <=> r = "admin"
<1>1. CASE r = "viewer"
  BY <1>1 DEF default_permissions, Permission, Bosses
<1>2. CASE r = "uploader"
  BY <1>2 DEF default_permissions, Permission, Bosses
<1>3. CASE r = "manager"
  BY <1>3 DEF default_permissions, Permission, Bosses
<1>4. CASE r = "admin"
  BY <1>4 DEF default_permissions, Permission, Bosses
<1> QED BY <1>1, <1>2, <1>3, <1>4 DEF Roles

\* The routes' own check looks at nothing but the role.
LEMMA CheckRoles ==
  ASSUME NEW r \in Roles
  PROVE  /\ check_roles({r}, "team", "read") <=> r \in Bosses
         /\ check_roles({r}, "team", "update") <=> r \in Bosses
         /\ check_roles({r}, "user", "admin") <=> r = "admin"
<1>1. ASSUME NEW type, NEW action
      PROVE  check_roles({r}, type, action) <=>
               r = "admin" \/ Permission(type, action) \in default_permissions(r)
  <2>1. DOMAIN <<>> = {}
    BY SMT
  <2> QED BY <2>1, RbacAssumption DEF check_roles, check, Actor, Resource, Matches, GlobalOk, team_scope
<1> QED BY <1>1, TeamPermissions DEF Bosses

\* A row of resource_acls reads back as the grant it stores.
LEMMA RowGrant ==
  ASSUME NEW row \in GrantRow
  PROVE  LET g == grant_from_cols(row) IN
         /\ g.subject.kind = row[1] /\ g.subject.id = row[2] /\ g.action = row[3] /\ g.effect = row[4]
         /\ row[1] \in {"user", "team"} /\ g \in AclRule
<1>1. PICK g \in AclRule : row = grant_to_cols(g)
  BY DEF GrantRow
<1>2. /\ g.subject \in AclSubject /\ g.action \in Actions /\ g.effect \in {"allow", "deny"}
      /\ g.subject.kind \in {"user", "team"} /\ g.subject = [kind |-> g.subject.kind, id |-> g.subject.id]
  BY DEF AclRule, AclSubject
<1>3. /\ row[1] = g.subject.kind /\ row[2] = g.subject.id /\ row[3] = g.action /\ row[4] = g.effect
  BY <1>1 DEF grant_to_cols, subject_to_cols
<1>4. subject_from_cols(row[1], row[2]) = g.subject /\ g.subject # None
  BY <1>2, <1>3, AccessControlAssumption DEF subject_from_cols
<1>5. action_from_str(row[3]) = g.action /\ g.action # None
  BY <1>2, <1>3, AccessControlAssumption DEF action_from_str
<1>6. grant_from_cols(row) = AclGrant(g.subject, g.action, g.effect)
  BY <1>2, <1>3, <1>4, <1>5 DEF grant_from_cols
<1>7. AclGrant(g.subject, g.action, g.effect) = g
  BY DEF AclGrant, AclRule
<1> QED BY <1>2, <1>3, <1>6, <1>7

-----------------------------------------------------------------------------
(* Decisions.                                                              *)

Types ==
  /\ role \in [Users -> Roles] /\ token \in [Users -> Roles]
  /\ teams \subseteq Teams /\ members \in [Teams -> [Users -> Roles \cup {NoRole}]]
  /\ image \in [Images -> ImageRow] /\ acl \in [Images -> SUBSET GrantRow]

\* A row of r's image covers its action and, as the engine hears it, its caller.
RowMatches(r, effect) ==
  \E row \in acl[r.image] :
    /\ row[4] = effect /\ row[3] \in {ImageAction(r.op, image[r.image], r.user), "admin"}
    /\ \/ row[1] = "user" /\ row[2] = r.user
       \/ row[1] = "team" /\ r.member # NoRole /\ row[2] = image[r.image].team

\* The engine's rules for grants are those of the rows they came from.
LEMMA MatchesRows ==
  ASSUME Types, NEW r \in Request, r.image \in Images, NEW effect, NEW actor, NEW resource,
         actor.user = r.user,
         DOMAIN actor.teamRoles = IF r.member = NoRole THEN {} ELSE {image[r.image].team}
  PROVE  Matches(list_grants(r.image), effect, actor, ImageAction(r.op, image[r.image], r.user))
           <=> RowMatches(r, effect)
<1> DEFINE rules == list_grants(r.image)
           a == ImageAction(r.op, image[r.image], r.user)
<1>1. acl[r.image] \subseteq GrantRow
  BY DEF Types
<1>2. rules = {grant_from_cols(row) : row \in acl[r.image]}
  BY AccessControlAssumption DEF list_grants
<1>3. ASSUME NEW row \in acl[r.image]
      PROVE  LET g == grant_from_cols(row) IN
             (g.effect = effect /\ rule_applies(g, actor) /\ rule_covers(g, a)) <=>
               /\ row[4] = effect /\ row[3] \in {a, "admin"}
               /\ \/ row[1] = "user" /\ row[2] = r.user
                  \/ row[1] = "team" /\ r.member # NoRole /\ row[2] = image[r.image].team
  <2> DEFINE g == grant_from_cols(row)
  <2>1. /\ g.subject.kind = row[1] /\ g.subject.id = row[2] /\ g.action = row[3] /\ g.effect = row[4]
    BY <1>1, RowGrant
  <2> HIDE DEF g, a
  <2>2. (g.effect = effect /\ rule_applies(g, actor) /\ rule_covers(g, a)) <=>
               /\ row[4] = effect /\ row[3] \in {a, "admin"}
               /\ \/ row[1] = "user" /\ row[2] = r.user
                  \/ row[1] = "team" /\ r.member # NoRole /\ row[2] = image[r.image].team
    BY <2>1 DEF rule_applies, rule_covers
  <2> QED BY <2>2 DEF g
<1> HIDE DEF rules, a
<1>4. Matches(rules, effect, actor, a) <=>
        \E row \in acl[r.image] :
          LET g == grant_from_cols(row) IN
          g.effect = effect /\ rule_applies(g, actor) /\ rule_covers(g, a)
  BY <1>2 DEF Matches
<1> QED BY <1>3, <1>4 DEF RowMatches, rules, a

\* What Authorized comes to for an operation on an image.
LEMMA ImageDecision ==
  ASSUME Types, NEW r \in Request, r.op \in ImageOps, r.image \in Images, r.role \in Roles,
         r.user \in Users
  PROVE  LET a == ImageAction(r.op, image[r.image], r.user) IN
         Authorized(r, ImageResource(r.image), a) <=>
           /\ ~RowMatches(r, "deny")
           /\ \/ image[r.image].owner = r.user
              \/ r.member # NoRole /\ (r.member \in Bosses \/ a = "read")
              \/ RowMatches(r, "allow")
              \/ r.role = "admin"
              \/ image[r.image].team = NoTeam /\ (r.role \in Bosses \/ a = "read")
<1> DEFINE a == ImageAction(r.op, image[r.image], r.user)
           res == ImageResource(r.image)
           loaded == IF r.member = NoRole THEN {} ELSE {image[r.image].team}
           actor == Actor(r.user, {r.role}, [t \in loaded |-> r.member])
<1>1. a \in {"read", "update", "delete"}
  BY DEF ImageAction
<1>2. /\ res.type = "image" /\ res.owner = image[r.image].owner /\ res.team = image[r.image].team
      /\ team_scope(res) = image[r.image].team
  BY DEF ImageResource, Resource, team_scope
<1>3. /\ actor.user = r.user /\ actor.roles = {r.role} /\ DOMAIN actor.teamRoles = loaded
      /\ actor.teamRoles = [t \in loaded |-> r.member]
  BY DEF Actor
<1>4. Authorized(r, res, a) <=> check(actor, res, a, list_grants(r.image))
  BY <1>2 DEF Authorized
<1>5. \A effect : Matches(list_grants(r.image), effect, actor, a) <=> RowMatches(r, effect)
  <2> HIDE DEF actor
  <2> QED BY <1>3, MatchesRows
<1>6. GlobalOk(actor, res, a) <=>
        r.role = "admin" \/ (image[r.image].team = NoTeam /\ Permission("image", a) \in default_permissions(r.role))
  <2> HIDE DEF actor, res, a
  <2> QED BY <1>2, <1>3 DEF GlobalOk
<1>7. /\ Permission("image", a) \in default_permissions(r.role) <=> r.role \in Bosses \/ a = "read"
      /\ r.member # NoRole => (Permission("image", a) \in default_permissions(r.member)
                                 <=> r.member \in Bosses \/ a = "read")
  <2>1. r.member # NoRole => r.member \in Roles
    BY DEF Request
  <2> HIDE DEF a
  <2> QED BY <1>1, <2>1, ImagePermissions
<1> HIDE DEF a, res, actor
<1>8. check(actor, res, a, list_grants(r.image)) <=>
        /\ ~RowMatches(r, "deny")
        /\ \/ image[r.image].owner = r.user
           \/ r.member # NoRole /\ Permission("image", a) \in default_permissions(r.member)
           \/ RowMatches(r, "allow")
           \/ GlobalOk(actor, res, a)
  <2>1. r.member # NoRole => team_scope(res) \in DOMAIN actor.teamRoles /\ actor.teamRoles[team_scope(res)] = r.member
    BY <1>2, <1>3
  <2>2. r.member = NoRole => team_scope(res) \notin DOMAIN actor.teamRoles
    BY <1>3
  <2> QED BY <1>2, <1>3, <1>5, <2>1, <2>2 DEF check
<1> QED BY <1>4, <1>6, <1>7, <1>8 DEF a, res

\* And for an upload, which carries no grants.
LEMMA UploadDecision ==
  ASSUME NEW r \in Request, r.image = NoImage, r.role \in Roles, r.user \in Users
  PROVE  Authorized(r, Resource("image", NoImage, NoTeam, r.team), "create") <=>
           \/ r.member \in Bosses \cup {"uploader"}
           \/ r.role = "admin"
           \/ r.team = NoTeam /\ r.role \in Bosses \cup {"uploader"}
<1> DEFINE res == Resource("image", NoImage, NoTeam, r.team)
           loaded == IF r.member = NoRole THEN {} ELSE {r.team}
           actor == Actor(r.user, {r.role}, [t \in loaded |-> r.member])
<1>1. /\ res.type = "image" /\ res.owner = NoTeam /\ res.team = r.team /\ team_scope(res) = r.team
  BY DEF Resource, team_scope
<1>2. /\ actor.user = r.user /\ actor.roles = {r.role} /\ DOMAIN actor.teamRoles = loaded
      /\ actor.teamRoles = [t \in loaded |-> r.member]
  BY DEF Actor
<1>3. Authorized(r, res, "create") <=> check(actor, res, "create", {})
  BY <1>1 DEF Authorized, list_grants
<1>4. /\ Permission("image", "create") \in default_permissions(r.role)
           <=> r.role \in Bosses \cup {"uploader"}
      /\ r.member # NoRole => (Permission("image", "create") \in default_permissions(r.member)
                                 <=> r.member \in Bosses \cup {"uploader"})
  <2>1. r.member # NoRole => r.member \in Roles
    BY DEF Request
  <2> QED BY <2>1, ImagePermissions
<1>5. GlobalOk(actor, res, "create") <=>
        \/ r.role = "admin"
        \/ r.team = NoTeam /\ Permission("image", "create") \in default_permissions(r.role)
  <2> HIDE DEF actor, res
  <2> QED BY <1>1, <1>2 DEF GlobalOk
<1> HIDE DEF res, actor
<1>6. \A effect : ~Matches({}, effect, actor, "create")
  BY DEF Matches
<1>7. r.member # NoRole => team_scope(res) \in DOMAIN actor.teamRoles /\ actor.teamRoles[team_scope(res)] = r.member
  BY <1>1, <1>2
<1>8. r.member = NoRole => team_scope(res) \notin DOMAIN actor.teamRoles
  BY <1>2
<1>9. check(actor, res, "create", {}) <=>
        \/ r.member # NoRole /\ Permission("image", "create") \in default_permissions(r.member)
        \/ GlobalOk(actor, res, "create")
  BY <1>1, <1>2, <1>6, <1>7, <1>8, AccessControlAssumption DEF check
<1>10. NoRole \notin Bosses \cup {"uploader"}
  BY RbacAssumption DEF Roles, Bosses
<1> QED BY <1>3, <1>4, <1>5, <1>9, <1>10 DEF res

-----------------------------------------------------------------------------
(* What holds of one request and its history, at every statement.          *)

Running0(r) == r.pc \notin {"idle", "served", "refused"}
TeamOf(r) == IF r.op \in ImageOps THEN image[r.image].team ELSE r.team

\* The role that was loaded carries the operation on its own.
Qualifies(r) ==
  \/ r.member \in Bosses
  \/ r.member # NoRole /\ r.op \in {"read", "get_team"}
  \/ r.member = "uploader" /\ r.op = "upload"

Shape(r) ==
  /\ r \in Request
  /\ Running0(r) => /\ r.user \in Users /\ r.role \in Roles
                    /\ IF r.op \in ImageOps THEN r.image \in Images ELSE r.image = NoImage
  /\ r.pc = "image" => r.op \in ImageOps
  /\ r.pc \in {"image", "member"} => r.member = NoRole

\* The loaded role, seen from the decision: memberships are never taken back.
Heard(r, w) ==
  /\ Qualifies(r) => w.for
  /\ "member" \in w.steady /\ r.op \notin TeamOps => Qualifies(r)
  /\ r.member # NoRole => TeamOf(r) \in Teams /\ members[TeamOf(r)][r.user] # NoRole
  /\ r.member = NoRole => "teamdeny" \notin w.steady /\ "teamgrant" \notin w.steady

History == [for: BOOLEAN, against: BOOLEAN, steady: SUBSET Reasons]

ClientInv(r, w) ==
  /\ Shape(r) /\ w \in History
  /\ r.pc = "idle" => w = Fresh
  /\ r.pc \in {"member", "decide", "apply", "delete"} /\ r.op \in ImageOps
       => image[r.image].state # "none" /\ "gone" \notin w.steady
  /\ r.pc = "decide" => Heard(r, w)
  /\ r.pc \in {"apply", "delete", "served"} => w.for /\ w.steady \cap Against = {}
  /\ r.pc = "refused" /\ r.op \notin TeamOps => w.against \/ w.steady \cap For = {}

Inv ==
  /\ Types
  /\ req \in [Clients -> Request] /\ watch \in [Clients -> History]
  /\ \A c \in Clients : ClientInv(req[c], watch[c])

\* Rows of images keep their owner and team, memberships are not removed.
Grows ==
  /\ \A i \in Images : image[i].state # "none" =>
       image'[i].state # "none" /\ image'[i].team = image[i].team
  /\ \A t \in Teams, u \in Users : members[t][u] # NoRole => members'[t][u] # NoRole

\* What Watch makes of a running request.
Advance(r, w) ==
  [for     |-> w.for \/ Speaks(r) \cap For # {},
   against |-> w.against \/ Speaks(r) \cap Against # {},
   steady  |-> w.steady \cap Speaks(r)]

\* What a step writes into the history of one request.
LEMMA WatchOf ==
  ASSUME Watch, NEW c \in Clients
  PROVE  watch'[c] = IF req'[c].pc = "idle" THEN Fresh
                     ELSE IF ~Running0(req[c]) THEN watch[c]
                     ELSE Advance(req[c], watch[c])
BY DEF Watch, Running, Running0, Advance

\* The fields of an advanced history.
LEMMA AdvanceFacts ==
  ASSUME NEW r, NEW w \in History
  PROVE  LET x == Advance(r, w) IN
         /\ x \in History
         /\ x.for <=> (w.for \/ Speaks(r) \cap For # {})
         /\ x.against <=> (w.against \/ Speaks(r) \cap Against # {})
         /\ x.steady = w.steady \cap Speaks(r)
BY DEF Advance, History

\* The fields a request is judged by.
Same(r, q) ==
  /\ q.pc = r.pc /\ q.op = r.op /\ q.user = r.user /\ q.role = r.role
  /\ q.image = r.image /\ q.team = r.team /\ q.member = r.member

\* A request that stays where it is keeps its invariant, whatever others do.
LEMMA StayKeeps ==
  ASSUME Types, Grows, NEW r, NEW q \in Request, NEW w, NEW x, ClientInv(r, w), Same(r, q),
         x = IF q.pc = "idle" THEN Fresh ELSE IF ~Running0(r) THEN w ELSE Advance(r, w)
  PROVE  ClientInv(q, x)'
<1>1. Shape(q)
  BY DEF ClientInv, Shape, Same, Running0
<1>2. CASE q.pc = "idle"
  <2>1. Fresh \in History
    BY DEF Fresh, History
  <2> QED BY <1>1, <1>2, <2>1 DEF ClientInv
<1>3. CASE q.pc # "idle" /\ ~Running0(r)
  BY <1>1, <1>3 DEF ClientInv, Same, Running0
<1>4. CASE q.pc # "idle" /\ Running0(r)
  <2>1. x \in History /\ (w.for => x.for) /\ x.steady \subseteq w.steady
    BY SMT, <1>4, AdvanceFacts DEF ClientInv
  <2>2. q.pc \in {"member", "decide", "apply", "delete"} /\ q.op \in ImageOps
          => /\ image'[q.image].state # "none" /\ image'[q.image].team = image[q.image].team
             /\ "gone" \notin x.steady
    BY <1>4, <2>1 DEF ClientInv, Same, Shape, Grows
  <2>3. q.pc = "decide" => Heard(q, x)'
    <3> SUFFICES ASSUME q.pc = "decide" PROVE Heard(q, x)'
      OBVIOUS
    <3>1. Heard(r, w)
      BY DEF ClientInv, Same
    <3>2. Qualifies(q) <=> Qualifies(r)
      BY DEF Qualifies, Same
    <3>3. TeamOf(q)' = TeamOf(r)
      BY <2>2 DEF TeamOf, Same
    <3>4. r.member # NoRole => members'[TeamOf(r)][r.user] # NoRole
      BY <1>4, <3>1 DEF Heard, Grows, ClientInv, Shape
    <3> QED BY <2>1, <3>1, <3>2, <3>3, <3>4 DEF Heard, Same, Qualifies
  <2>4. q.pc \in {"apply", "delete", "served"} => x.for /\ x.steady \cap Against = {}
    BY <2>1 DEF ClientInv, Same
  <2>5. q.pc # "refused"
    BY <1>4 DEF Same, Running0
  <2> QED BY <1>1, <1>4, <2>1, <2>2, <2>3, <2>4, <2>5 DEF ClientInv
<1> QED BY <1>2, <1>3, <1>4

\* One request steps and the others stay.
LEMMA OneSteps ==
  ASSUME Inv, Types', Grows, Watch, NEW c \in Clients, req' \in [Clients -> Request],
         \A d \in Clients \ {c} : Same(req[d], req'[d]),
         ClientInv(req[c], watch[c])'
  PROVE  Inv'
<1>1. ASSUME NEW d \in Clients PROVE ClientInv(req[d], watch[d])'
  <2>1. CASE d = c
    BY <2>1
  <2>2. CASE d # c
    <3>1. PICK r, q, w, x : r = req[d] /\ q = req'[d] /\ w = watch[d] /\ x = watch'[d]
      OBVIOUS
    <3>2. ClientInv(r, w) /\ Same(r, q) /\ q \in Request
      BY <2>2, <3>1 DEF Inv
    <3>3. x = IF q.pc = "idle" THEN Fresh ELSE IF ~Running0(r) THEN w ELSE Advance(r, w)
      BY <3>1, WatchOf
    <3>4. ClientInv(q, x)'
      BY <3>2, <3>3, StayKeeps DEF Inv
    <3> QED BY <3>1, <3>4
  <2> QED BY <2>1, <2>2
<1>2. watch' \in [Clients -> History]
  <2>1. \A d \in Clients : watch'[d] \in History
    BY <1>1 DEF ClientInv
  <2> QED BY <2>1 DEF Watch
<1> QED BY <1>1, <1>2 DEF Inv

-----------------------------------------------------------------------------
(* The moves of a request.                                                 *)

\* The request a client is left with after its answer.
LEMMA EndedFields ==
  ASSUME NEW pc \in {"idle", "served", "refused"}, NEW op \in ImageOps \cup TeamOps \cup {"upload"}
  PROVE  LET q == Ended(pc, op) IN
         q \in Request /\ Shape(q) /\ q.pc = pc /\ q.op = op /\ ~Running0(q)
           /\ q.role = NoRole /\ q.member = NoRole
BY DEF Ended, RequestOf, Request, Shape, Running0

\* The request a handler starts with.
LEMMA BegunFields ==
  ASSUME NEW pc, NEW op, NEW u \in Users, NEW r \in Roles, NEW i, NEW t \in Teams \cup {NoTeam},
         \/ op \in ImageOps /\ i \in Images /\ pc = "image"
         \/ op \in TeamOps \cup {"upload"} /\ i = NoImage /\ pc = "member"
  PROVE  LET q == RequestOf(pc, op, u, r, i, t) IN
         q \in Request /\ Shape(q) /\ q.pc = pc /\ q.op = op /\ q.role = r /\ q.member = NoRole
<1>1. ImageOps \cap (TeamOps \cup {"upload"}) = {}
  BY DEF ImageOps, TeamOps
<1> QED BY <1>1 DEF RequestOf, Request, Shape, Running0

\* A request that moves on keeps everything but its place.
LEMMA MovedFields ==
  ASSUME NEW r \in Request,
         NEW pc \in {"member", "decide", "apply"}
  PROVE  LET q == [r EXCEPT !.pc = pc] IN
         /\ q \in Request /\ q.pc = pc /\ q.op = r.op /\ q.user = r.user /\ q.role = r.role
         /\ q.image = r.image /\ q.team = r.team /\ q.member = r.member
BY SMT DEF Request

\* Answers and errors change no other request but for whom it waits.
LEMMA EndKeepsOthers ==
  ASSUME req \in [Clients -> Request], NEW c \in Clients, NEW last \in Request, End(c, last)
  PROVE  /\ req' \in [Clients -> Request] /\ req'[c] = last
         /\ \A d \in Clients \ {c} : Same(req[d], req'[d])
<1>1. ASSUME NEW d \in Clients \ {c}
      PROVE  req'[d] = [req[d] EXCEPT !.behind = @ \ {c}] /\ req'[d] \in Request /\ Same(req[d], req'[d])
  <2>1. PICK r \in Request : r = req[d]
    OBVIOUS
  <2>2. req'[d] = [r EXCEPT !.behind = r.behind \ {c}]
    BY <2>1 DEF End
  <2>3. r.behind \ {c} \in SUBSET Clients
    BY DEF Request
  <2>4. [r EXCEPT !.behind = r.behind \ {c}] \in Request /\ Same(r, [r EXCEPT !.behind = r.behind \ {c}])
    BY SMT, <2>3 DEF Request, Same
  <2> QED BY <2>1, <2>2, <2>4
<1>2. req'[c] = last
  BY DEF End
<1>3. req' = [d \in Clients |-> req'[d]]
  BY DEF End
<1> QED BY <1>1, <1>2, <1>3

\* So do the moves that replace one request.
LEMMA SetKeepsOthers ==
  ASSUME req \in [Clients -> Request], NEW c \in Clients, NEW q \in Request,
         req' = [req EXCEPT ![c] = q]
  PROVE  /\ req' \in [Clients -> Request] /\ req'[c] = q
         /\ \A d \in Clients \ {c} : Same(req[d], req'[d])
BY DEF Same

\* A client without a request has nothing to be judged by.
LEMMA IdleKeeps == ClientInv(Idle, Fresh)'
<1>1. Idle.pc = "idle" /\ Shape(Idle)
  BY EndedFields DEF Idle, ImageOps
<1>2. Fresh \in History
  BY DEF Fresh, History
<1> QED BY <1>1, <1>2 DEF ClientInv

\* An applied request stays justified to its answer.
LEMMA ServedKeeps ==
  ASSUME NEW r, NEW w, NEW x, ClientInv(r, w), r.pc \in {"apply", "delete"}, x = Advance(r, w)
  PROVE  ClientInv(Ended("served", r.op), x)'
<1>1. PICK q : q = Ended("served", r.op)
  OBVIOUS
<1>2. Shape(q) /\ q.pc = "served"
  BY SMT, <1>1, EndedFields DEF ClientInv, Shape, Request
<1>3. x \in History /\ x.for /\ x.steady \cap Against = {}
  BY SMT, AdvanceFacts DEF ClientInv
<1>4. ClientInv(q, x)'
  BY <1>2, <1>3 DEF ClientInv
<1> QED BY <1>1, <1>4

\* A team that is not there refuses whoever asks.
LEMMA TeamRefusedKeeps ==
  ASSUME NEW r, NEW w, NEW x, ClientInv(r, w), r.op \in TeamOps, x = Advance(r, w)
  PROVE  ClientInv(Ended("refused", r.op), x)'
<1>1. PICK q : q = Ended("refused", r.op)
  OBVIOUS
<1>2. Shape(q) /\ q.pc = "refused" /\ q.op \in TeamOps
  BY SMT, <1>1, EndedFields DEF ClientInv, Shape, Request
<1>3. x \in History
  BY AdvanceFacts DEF ClientInv
<1>4. ClientInv(q, x)'
  BY <1>2, <1>3 DEF ClientInv
<1> QED BY <1>1, <1>4

\* LoadImage: the row is there, and the request moves on to the roster ...
LEMMA FoundKeeps ==
  ASSUME NEW r, NEW w, NEW x, ClientInv(r, w), r.pc = "image", x = Advance(r, w),
         image[r.image].state = "live", UNCHANGED image
  PROVE  ClientInv([r EXCEPT !.pc = "member"], x)'
<1>0. r \in Request /\ r.op \in ImageOps
  BY DEF ClientInv, Shape
<1>1. PICK q : q = [r EXCEPT !.pc = "member"]
  OBVIOUS
<1>2. /\ q \in Request /\ q.pc = "member" /\ q.op = r.op /\ q.user = r.user /\ q.role = r.role
      /\ q.image = r.image /\ q.member = r.member
  BY <1>0, <1>1, MovedFields
<1>3. Shape(q)
  BY <1>2 DEF ClientInv, Shape, Running0
<1>4. "gone" \notin Speaks(r)
  BY DEF Speaks
<1>5. x \in History /\ "gone" \notin x.steady
  BY SMT, <1>4, AdvanceFacts DEF ClientInv
<1>6. ClientInv(q, x)'
  BY <1>2, <1>3, <1>5 DEF ClientInv
<1> QED BY <1>1, <1>6

\* ... or the answer is 404.
LEMMA MissingKeeps ==
  ASSUME NEW r, NEW w, NEW x, ClientInv(r, w), r.pc = "image", x = Advance(r, w),
         image[r.image].state # "live"
  PROVE  ClientInv(Ended("refused", r.op), x)'
<1>0. r \in Request /\ r.op \in ImageOps
  BY DEF ClientInv, Shape
<1>1. PICK q : q = Ended("refused", r.op)
  OBVIOUS
<1>2. Shape(q) /\ q.pc = "refused"
  BY <1>0, <1>1, EndedFields
<1>3. "gone" \in Speaks(r) /\ "gone" \in Against
  BY <1>0 DEF Speaks, Reasons, Against
<1>4. x \in History /\ x.against
  BY <1>3, AdvanceFacts DEF ClientInv
<1>5. ClientInv(q, x)'
  BY <1>2, <1>4 DEF ClientInv
<1> QED BY <1>1, <1>5

\* LoadMember: the role that comes back is the one that speaks at that moment.
LEMMA MemberKeeps ==
  ASSUME Types, NEW r, NEW q \in Request, NEW w, NEW x, ClientInv(r, w), r.pc = "member",
         x = Advance(r, w), UNCHANGED <<image, members>>,
         q.pc = "decide", q.op = r.op, q.user = r.user, q.role = r.role, q.image = r.image,
         q.team = r.team,
         \/ q.member = member_role(TeamOf(r), r.user)
         \/ q.member = NoRole /\ r.op = "get_team"
  PROVE  ClientInv(q, x)'
<1>1. Shape(q)
  BY DEF ClientInv, Shape, Running0
<1>2. r \in Request /\ r.user \in Users /\ (r.op \in ImageOps => r.image \in Images)
  BY DEF ClientInv, Shape, Running0
<1>3. TeamOf(r) \in Teams \cup {NoTeam}
  BY <1>2 DEF TeamOf, Types, ImageRow, Request
<1>4. x \in History /\ x.steady = w.steady \cap Speaks(r) /\ (Speaks(r) \cap For # {} => x.for)
  BY AdvanceFacts DEF ClientInv
<1>5. Qualifies(q) => "member" \in Speaks(r)
  <2>1. NoRole \notin Bosses /\ NoRole # "uploader"
    BY RbacAssumption DEF Roles, Bosses
  <2>2. Qualifies(q) => q.member # NoRole /\ q.member = member_role(TeamOf(r), r.user)
    BY <2>1 DEF Qualifies
  <2> QED BY <2>2 DEF Speaks, Qualifies, TeamOf, Reasons, For
<1>6. "member" \in Speaks(r) /\ r.op \notin TeamOps => Qualifies(q)
  BY DEF Speaks, Qualifies, TeamOf, TeamOps
<1>7. q.member # NoRole => TeamOf(r) \in Teams /\ members[TeamOf(r)][r.user] # NoRole
  BY <1>3 DEF member_role
<1>8. q.member = NoRole => "teamdeny" \notin Speaks(r) /\ "teamgrant" \notin Speaks(r)
  <2> SUFFICES ASSUME q.member = NoRole, r.op \in ImageOps
               PROVE  \A effect : ~RuleFor(r, effect, "team", {TeamOf(r)} \ {NoTeam})
    BY DEF Speaks, TeamOf
  <2>1. r.op # "get_team"
    BY DEF ImageOps
  <2> QED BY <2>1 DEF RuleFor, member_role
<1>9. TeamOf(q)' = TeamOf(r)
  BY DEF TeamOf
<1>10. Heard(q, x)'
  <2>1. Qualifies(q) => x.for
    BY <1>4, <1>5 DEF For
  <2> QED BY <1>4, <1>6, <1>7, <1>8, <1>9, <2>1 DEF Heard, Qualifies
<1>11. q.op \in ImageOps => image'[q.image].state # "none" /\ "gone" \notin x.steady
  BY <1>4 DEF ClientInv
<1> QED BY <1>1, <1>4, <1>10, <1>11 DEF ClientInv

-----------------------------------------------------------------------------
(* The decision.                                                           *)

\* What Decide asks.
Ok(r) ==
  CASE r.op \in ImageOps -> Authorized(r, ImageResource(r.image),
                                       ImageAction(r.op, image[r.image], r.user))
    [] r.op = "upload" -> Authorized(r, Resource("image", NoImage, NoTeam, r.team), "create")
    [] r.op = "get_team" -> MaySeeTeam(r)
    [] OTHER -> MayAddMember(r)

\* For an image: a matching row speaks, at the moment of the decision.
LEMMA RowsSpeak ==
  ASSUME NEW r, NEW w, ClientInv(r, w), r.pc = "decide", r.op \in ImageOps
  PROVE  /\ RowMatches(r, "allow") => "usergrant" \in Speaks(r) \/ "teamgrant" \in Speaks(r)
         /\ RowMatches(r, "deny") => "userdeny" \in Speaks(r) \/ "teamdeny" \in Speaks(r)
         /\ "usergrant" \in Speaks(r) => RowMatches(r, "allow")
         /\ "userdeny" \in Speaks(r) => RowMatches(r, "deny")
         /\ "teamgrant" \in Speaks(r) => RowMatches(r, "allow") \/ "teamgrant" \notin w.steady
         /\ "teamdeny" \in Speaks(r) => RowMatches(r, "deny") \/ "teamdeny" \notin w.steady
<1> DEFINE team == image[r.image].team
<1>1. /\ r.member # NoRole => team \in Teams /\ members[team][r.user] # NoRole
      /\ r.member = NoRole => "teamdeny" \notin w.steady /\ "teamgrant" \notin w.steady
  BY DEF ClientInv, Heard, TeamOf
<1>2. \A effect : RowMatches(r, effect)
        => RuleFor(r, effect, "user", {}) \/ RuleFor(r, effect, "team", {team} \ {NoTeam})
  BY <1>1, RbacAssumption DEF RowMatches, RuleFor
<1>3. \A effect : RuleFor(r, effect, "user", {}) => RowMatches(r, effect)
  BY DEF RowMatches, RuleFor
<1>4. \A effect : RuleFor(r, effect, "team", {team} \ {NoTeam})
        => RowMatches(r, effect) \/ r.member = NoRole
  BY DEF RowMatches, RuleFor
<1>5. /\ "usergrant" \in Speaks(r) <=> RuleFor(r, "allow", "user", {})
      /\ "teamgrant" \in Speaks(r) <=> RuleFor(r, "allow", "team", {team} \ {NoTeam})
      /\ "userdeny" \in Speaks(r) <=> RuleFor(r, "deny", "user", {})
      /\ "teamdeny" \in Speaks(r) <=> RuleFor(r, "deny", "team", {team} \ {NoTeam})
  BY DEF Speaks, Reasons, For, Against
<1> HIDE DEF team
<1> QED BY <1>1, <1>2, <1>3, <1>4, <1>5

\* The other reasons, for an image.
LEMMA ImageReasons ==
  ASSUME NEW r, r.op \in ImageOps
  PROVE  /\ "owner" \in Speaks(r) <=> image[r.image].owner = r.user
         /\ "role" \in Speaks(r) <=> \/ r.role = "admin"
                                     \/ r.role \in Bosses /\ image[r.image].team = NoTeam
<1>1. r.op \notin TeamOps /\ r.op # "upload"
  BY DEF ImageOps, TeamOps
<1> QED BY <1>1 DEF Speaks, Reasons, For

\* And for an upload or a team.
LEMMA OtherReasons ==
  ASSUME NEW r, r.op \in TeamOps \cup {"upload"}
  PROVE  /\ Speaks(r) \cap Against = {}
         /\ Speaks(r) \cap For \subseteq {"member", "role"}
         /\ "role" \in Speaks(r) <=> \/ r.role = "admin"
                                     \/ r.role \in Bosses /\ (r.op \in TeamOps \/ r.team = NoTeam)
                                     \/ r.role = "uploader" /\ r.op = "upload" /\ r.team = NoTeam
<1>1. r.op \notin ImageOps
  BY DEF ImageOps, TeamOps
<1> QED BY <1>1 DEF Speaks, Reasons, For, Against

\* A positive decision is justified and nothing stood against it throughout.
LEMMA GrantedJustified ==
  ASSUME Types, NEW r, NEW w, NEW x, ClientInv(r, w), r.pc = "decide", x = Advance(r, w), Ok(r)
  PROVE  x \in History /\ x.for /\ x.steady \cap Against = {}
<1>1. /\ r \in Request /\ r.user \in Users /\ r.role \in Roles
      /\ IF r.op \in ImageOps THEN r.image \in Images ELSE r.image = NoImage
  BY DEF ClientInv, Shape, Running0
<1>2. /\ x \in History /\ x.steady = w.steady \cap Speaks(r)
      /\ x.for <=> (w.for \/ Speaks(r) \cap For # {})
  BY AdvanceFacts DEF ClientInv
<1>3. Heard(r, w)
  BY DEF ClientInv
<1>4. {"owner", "member", "usergrant", "teamgrant", "role"} = For
  BY DEF For
<1>5. CASE r.op \in ImageOps
  <2> DEFINE a == ImageAction(r.op, image[r.image], r.user)
  <2>1. /\ ~RowMatches(r, "deny")
        /\ \/ image[r.image].owner = r.user
           \/ r.member # NoRole /\ (r.member \in Bosses \/ a = "read")
           \/ RowMatches(r, "allow")
           \/ r.role = "admin"
           \/ image[r.image].team = NoTeam /\ (r.role \in Bosses \/ a = "read")
    <3>1. Ok(r) <=> Authorized(r, ImageResource(r.image), a)
      BY <1>5 DEF Ok, ImageOps
    <3> QED BY <1>1, <1>5, <3>1, ImageDecision
  <2>2. a = "read" => r.op = "read" /\ (image[r.image].team = NoTeam => image[r.image].owner = r.user)
    BY DEF ImageAction
  <2> HIDE DEF a
  <2>3. r.member # NoRole /\ (r.member \in Bosses \/ a = "read") => w.for
    BY <1>3, <2>2 DEF Heard, Qualifies
  <2>4. x.for
    BY <1>2, <1>4, <1>5, <2>1, <2>2, <2>3, RowsSpeak, ImageReasons
  <2>5. "gone" \notin w.steady
    BY <1>5 DEF ClientInv
  <2>6. x.steady \cap Against = {}
    BY <1>2, <1>5, <2>1, <2>5, RowsSpeak DEF Against
  <2> QED BY <1>2, <2>4, <2>6
<1>6. CASE r.op = "upload"
  <2>1. \/ r.member \in Bosses \cup {"uploader"}
        \/ r.role = "admin"
        \/ r.team = NoTeam /\ r.role \in Bosses \cup {"uploader"}
    BY <1>1, <1>6, UploadDecision DEF Ok, ImageOps
  <2>2. r.member \in Bosses \cup {"uploader"} => w.for
    BY <1>3, <1>6 DEF Heard, Qualifies
  <2> QED BY <1>2, <1>4, <1>6, <2>1, <2>2, OtherReasons
<1>7. CASE r.op \in TeamOps
  <2>1. r.role \in Bosses \/ r.member \in Bosses \/ (r.op = "get_team" /\ r.member # NoRole)
    BY <1>1, <1>7, CheckRoles DEF Ok, ImageOps, TeamOps, MaySeeTeam, MayAddMember, Bosses
  <2>2. r.member \in Bosses \/ (r.op = "get_team" /\ r.member # NoRole) => w.for
    BY <1>3 DEF Heard, Qualifies
  <2> QED BY <1>2, <1>4, <1>7, <2>1, <2>2, OtherReasons
<1> QED BY <1>1, <1>5, <1>6, <1>7 DEF Request

\* A refusal has a reason.
LEMMA RefusalJustified ==
  ASSUME Types, NEW r, NEW w, NEW x, ClientInv(r, w), r.pc = "decide", x = Advance(r, w), ~Ok(r),
         r.op \notin TeamOps
  PROVE  x.against \/ x.steady \cap For = {}
<1>1. /\ r \in Request /\ r.user \in Users /\ r.role \in Roles
      /\ IF r.op \in ImageOps THEN r.image \in Images ELSE r.image = NoImage
  BY DEF ClientInv, Shape, Running0
<1>2. /\ x.steady = w.steady \cap Speaks(r)
      /\ x.against <=> (w.against \/ Speaks(r) \cap Against # {})
  BY AdvanceFacts DEF ClientInv
<1>3. Heard(r, w)
  BY DEF ClientInv
<1>4. {"owner", "member", "usergrant", "teamgrant", "role"} = For
  BY DEF For
<1>5. CASE r.op \in ImageOps
  <2> DEFINE a == ImageAction(r.op, image[r.image], r.user)
  <2>1. \/ RowMatches(r, "deny")
        \/ /\ image[r.image].owner # r.user
           /\ ~(r.member # NoRole /\ (r.member \in Bosses \/ a = "read"))
           /\ ~RowMatches(r, "allow")
           /\ r.role # "admin"
           /\ ~(image[r.image].team = NoTeam /\ (r.role \in Bosses \/ a = "read"))
    <3>1. Ok(r) <=> Authorized(r, ImageResource(r.image), a)
      BY <1>5 DEF Ok, ImageOps
    <3> QED BY <1>1, <1>5, <3>1, ImageDecision
  <2>2. r.member # NoRole => image[r.image].team # NoTeam
    BY <1>3, <1>5, RbacAssumption DEF Heard, TeamOf
  <2>3. r.op = "read" /\ image[r.image].team # NoTeam => a = "read"
    BY DEF ImageAction
  <2>4. Qualifies(r) => r.member # NoRole /\ (r.member \in Bosses \/ a = "read")
    <3>1. NoRole \notin Bosses /\ r.op \notin {"get_team", "upload"}
      BY <1>5, RbacAssumption DEF Roles, Bosses, ImageOps
    <3> HIDE DEF a
    <3> QED BY <2>2, <2>3, <3>1 DEF Qualifies
  <2> HIDE DEF a
  <2>5. CASE RowMatches(r, "deny")
    BY <1>2, <1>5, <2>5, RowsSpeak DEF Against
  <2>6. CASE ~RowMatches(r, "deny")
    <3>1. "member" \notin w.steady
      BY <1>3, <2>1, <2>4, <2>6 DEF Heard
    <3>2. "owner" \notin Speaks(r) /\ "role" \notin Speaks(r)
      BY <1>5, <2>1, <2>6, ImageReasons
    <3>3. "usergrant" \notin Speaks(r) /\ "teamgrant" \notin w.steady \cap Speaks(r)
      BY <1>5, <2>1, <2>6, RowsSpeak
    <3> QED BY <1>2, <1>4, <3>1, <3>2, <3>3
  <2> QED BY <2>5, <2>6
<1>6. CASE r.op = "upload"
  <2>1. /\ r.member \notin Bosses \cup {"uploader"}
        /\ r.role # "admin"
        /\ ~(r.team = NoTeam /\ r.role \in Bosses \cup {"uploader"})
    BY <1>1, <1>6, UploadDecision DEF Ok, ImageOps
  <2>2. "member" \notin w.steady
    BY <1>3, <1>6, <2>1 DEF Heard, Qualifies
  <2>3. "role" \notin Speaks(r)
    BY <1>6, <2>1, OtherReasons
  <2> QED BY SMT, <1>2, <1>6, <2>2, <2>3, OtherReasons
<1> QED BY <1>1, <1>5, <1>6 DEF Request

-----------------------------------------------------------------------------
(* Every action keeps the invariant.                                       *)

\* What the invariant says of one client.
LEMMA InvFields ==
  ASSUME Inv, NEW c \in Clients
  PROVE  /\ Types /\ req \in [Clients -> Request] /\ req[c] \in Request /\ watch[c] \in History
         /\ ClientInv(req[c], watch[c]) /\ Shape(req[c])
         /\ req[c].op \in ImageOps \cup TeamOps \cup {"upload"}
BY DEF Inv, ClientInv, Request

\* Steps that touch no table keep the tables' types and rows.
LEMMA OnlyRequestKeeps ==
  ASSUME Types, OnlyRequest
  PROVE  Types' /\ Grows /\ Watch /\ UNCHANGED <<image, members>>
BY DEF OnlyRequest, tables, Types, Grows

\* The request of c becomes q, with the history Watch gives it.
LEMMA BecomesKeeps ==
  ASSUME Inv, Types', Grows, Watch, NEW c \in Clients, NEW q \in Request, req'[c] = q,
         req' \in [Clients -> Request], \A d \in Clients \ {c} : Same(req[d], req'[d]),
         \A r, w, x : /\ r = req[c] /\ w = watch[c]
                      /\ x = IF q.pc = "idle" THEN Fresh
                             ELSE IF ~Running0(r) THEN w ELSE Advance(r, w)
                      => ClientInv(q, x)'
  PROVE  Inv'
<1>1. PICK r, w, x : r = req[c] /\ w = watch[c] /\ x = watch'[c]
  OBVIOUS
<1>2. x = IF q.pc = "idle" THEN Fresh ELSE IF ~Running0(r) THEN w ELSE Advance(r, w)
  BY <1>1, WatchOf
<1>3. ClientInv(q, x)'
  BY <1>1, <1>2
<1>4. ClientInv(req[c], watch[c])'
  BY <1>1, <1>3
<1> QED BY <1>4, OneSteps

\* A request that ends in an error is forgotten.
LEMMA ErrorKeeps ==
  ASSUME Inv, Types', Grows, Watch, NEW c \in Clients, Error(c)
  PROVE  Inv'
<1>1. Idle \in Request /\ Idle.pc = "idle"
  BY EndedFields DEF Idle, ImageOps
<1>2. /\ req' \in [Clients -> Request] /\ req'[c] = Idle
      /\ \A d \in Clients \ {c} : Same(req[d], req'[d])
  BY <1>1, EndKeepsOthers DEF Inv, Error
<1>3. watch'[c] = Fresh
  BY <1>1, <1>2, WatchOf
<1>4. ClientInv(req[c], watch[c])'
  BY <1>2, <1>3, IdleKeeps
<1> QED BY <1>2, <1>4, OneSteps

\* An effect was applied and the answer is its success.
LEMMA AnswerServedKeeps ==
  ASSUME Inv, Types', Grows, Watch, NEW c \in Clients, req[c].pc \in {"apply", "delete"},
         Answer(c, "served")
  PROVE  Inv'
<1>1. PICK q : q = Ended("served", req[c].op)
  OBVIOUS
<1>2. q \in Request /\ q.pc = "served"
  BY <1>1, InvFields, EndedFields
<1>3. /\ req' \in [Clients -> Request] /\ req'[c] = q
      /\ \A d \in Clients \ {c} : Same(req[d], req'[d])
  BY <1>1, <1>2, EndKeepsOthers DEF Inv, Answer
<1>4. \A r, w, x : /\ r = req[c] /\ w = watch[c]
                   /\ x = IF q.pc = "idle" THEN Fresh
                          ELSE IF ~Running0(r) THEN w ELSE Advance(r, w)
                   => ClientInv(q, x)'
  <2> SUFFICES ASSUME NEW r, NEW w, NEW x, r = req[c], w = watch[c],
                      x = IF q.pc = "idle" THEN Fresh
                          ELSE IF ~Running0(r) THEN w ELSE Advance(r, w)
               PROVE  ClientInv(q, x)'
    OBVIOUS
  <2>1. ClientInv(r, w) /\ r.pc \in {"apply", "delete"} /\ x = Advance(r, w)
    BY <1>2, InvFields DEF Running0
  <2>2. ClientInv(Ended("served", r.op), x)'
    BY <2>1, ServedKeeps
  <2>3. q = Ended("served", r.op)
    BY <1>1
  <2> QED BY <2>2, <2>3
<1> QED BY <1>2, <1>3, <1>4, BecomesKeeps

\* A handler starts: the extractor has read the token.
LEMMA BeginKeeps ==
  ASSUME Inv, NEW c \in Clients, NEW op, NEW i, NEW t \in Teams \cup {NoTeam}, Begin(c, op, i, t),
         \/ op \in ImageOps /\ i \in Images
         \/ op \in TeamOps \cup {"upload"} /\ i = NoImage
  PROVE  Inv'
<1>1. PICK q : q = RequestOf(IF op \in ImageOps THEN "image" ELSE "member", op, UserOf[c],
                             token[UserOf[c]], i, t)
  OBVIOUS
<1>2. UserOf[c] \in Users /\ token[UserOf[c]] \in Roles
  BY AccessControlAssumption DEF Inv, Types
<1>3. ImageOps \cap (TeamOps \cup {"upload"}) = {}
  BY DEF ImageOps, TeamOps
<1>4. q \in Request /\ Shape(q) /\ q.pc \in {"image", "member"} /\ q.op = op
        /\ (q.pc = "member" => op \notin ImageOps)
  <2>1. CASE op \in ImageOps
    <3>1. q = RequestOf("image", op, UserOf[c], token[UserOf[c]], i, t) /\ i \in Images
      BY <1>1, <1>3, <2>1
    <3> QED BY SMT, <1>2, <2>1, <3>1, BegunFields
  <2>2. CASE op \notin ImageOps
    <3>1. q = RequestOf("member", op, UserOf[c], token[UserOf[c]], i, t)
            /\ op \in TeamOps \cup {"upload"} /\ i = NoImage
      BY <1>1, <2>2
    <3> QED BY SMT, <1>2, <2>2, <3>1, BegunFields
  <2> QED BY <2>1, <2>2
<1>5. /\ req' \in [Clients -> Request] /\ req'[c] = q
      /\ \A d \in Clients \ {c} : Same(req[d], req'[d])
  BY <1>1, <1>4, SetKeepsOthers DEF Inv, Begin
<1>6. Types' /\ Grows /\ Watch
  BY OnlyRequestKeeps DEF Inv, Begin
<1>7. watch'[c] = Fresh
  BY <1>4, <1>5, <1>6, WatchOf, InvFields DEF Begin, ClientInv, Running0
<1>8. ClientInv(q, Fresh)'
  <2>1. Fresh \in History
    BY DEF Fresh, History
  <2> QED BY <1>4, <2>1 DEF ClientInv
<1>9. ClientInv(req[c], watch[c])'
  BY <1>5, <1>7, <1>8
<1> QED BY <1>5, <1>6, <1>9, OneSteps

\* repo.get of the image.
LEMMA LoadImageKeeps ==
  ASSUME Inv, NEW c \in Clients, LoadImage(c)
  PROVE  Inv'
<1>1. Types' /\ Grows /\ Watch /\ UNCHANGED <<image, members>>
  BY OnlyRequestKeeps DEF Inv, LoadImage
<1>2. PICK q : q = IF image[req[c].image].state = "live" THEN [req[c] EXCEPT !.pc = "member"]
                   ELSE Ended("refused", req[c].op)
  OBVIOUS
<1>3. q \in Request /\ q.pc \in {"member", "refused"}
  <2>1. PICK r \in Request : r = req[c] /\ r.op \in ImageOps \cup TeamOps \cup {"upload"}
    BY InvFields
  <2>2. CASE q = [r EXCEPT !.pc = "member"]
    BY <2>2, MovedFields
  <2>3. CASE q = Ended("refused", r.op)
    BY <2>1, <2>3, EndedFields
  <2> QED BY <1>2, <2>1, <2>2, <2>3
<1>4. /\ req' \in [Clients -> Request] /\ req'[c] = q
      /\ \A d \in Clients \ {c} : Same(req[d], req'[d])
  <2>1. CASE image[req[c].image].state = "live"
    <3>1. req' = [req EXCEPT ![c] = q]
      BY <1>2, <2>1 DEF LoadImage, Goto
    <3> QED BY <1>3, <3>1, SetKeepsOthers DEF Inv
  <2>2. CASE image[req[c].image].state # "live"
    BY <1>2, <1>3, <2>2, EndKeepsOthers DEF Inv, LoadImage, Answer
  <2> QED BY <2>1, <2>2
<1>5. \A r, w, x : /\ r = req[c] /\ w = watch[c]
                   /\ x = IF q.pc = "idle" THEN Fresh
                          ELSE IF ~Running0(r) THEN w ELSE Advance(r, w)
                   => ClientInv(q, x)'
  <2> SUFFICES ASSUME NEW r, NEW w, NEW x, r = req[c], w = watch[c],
                      x = IF q.pc = "idle" THEN Fresh
                          ELSE IF ~Running0(r) THEN w ELSE Advance(r, w)
               PROVE  ClientInv(q, x)'
    OBVIOUS
  <2>1. ClientInv(r, w) /\ r.pc = "image" /\ x = Advance(r, w)
    BY <1>3, InvFields DEF Running0, LoadImage
  <2>2. CASE image[r.image].state = "live"
    <3>1. ClientInv([r EXCEPT !.pc = "member"], x)'
      BY <1>1, <2>1, <2>2, FoundKeeps
    <3>2. q = [r EXCEPT !.pc = "member"]
      BY <1>2, <2>2
    <3> QED BY <3>1, <3>2
  <2>3. CASE image[r.image].state # "live"
    <3>1. ClientInv(Ended("refused", r.op), x)'
      BY <2>1, <2>3, MissingKeeps
    <3>2. q = Ended("refused", r.op)
      BY <1>2, <2>3
    <3> QED BY <3>1, <3>2
  <2> QED BY <2>2, <2>3
<1> QED BY <1>1, <1>3, <1>4, <1>5, BecomesKeeps

\* member_role, and its failure where the handler ignores it.
LEMMA LoadMemberKeeps ==
  ASSUME Inv, NEW c \in Clients, LoadMember(c) \/ LoadMemberFails(c)
  PROVE  Inv'
<1>1. Types' /\ Grows /\ Watch /\ UNCHANGED <<image, members>>
  BY OnlyRequestKeeps DEF Inv, LoadMember, LoadMemberFails
<1>2. /\ req[c] \in Request /\ req[c].pc = "member" /\ req[c].member = NoRole
      /\ req[c].user \in Users /\ (req[c].op \in ImageOps => req[c].image \in Images)
  BY InvFields DEF Shape, Running0, LoadMember, LoadMemberFails
<1>3. member_role(TeamOf(req[c]), req[c].user) \in Roles \cup {NoRole}
  <2>1. TeamOf(req[c]) \in Teams \cup {NoTeam}
    BY <1>2 DEF TeamOf, Inv, Types, ImageRow, Request
  <2> QED BY SMT, <1>2, <2>1 DEF member_role, Inv, Types
<1>4. PICK m \in Roles \cup {NoRole} :
        /\ req' = [req EXCEPT ![c] = [req[c] EXCEPT !.pc = "decide", !.member = m]]
        /\ \/ m = member_role(TeamOf(req[c]), req[c].user)
           \/ m = NoRole /\ req[c].op = "get_team"
  <2>1. CASE LoadMember(c)
    <3>1. req' = [req EXCEPT ![c] = [req[c] EXCEPT !.pc = "decide",
                                       !.member = member_role(TeamOf(req[c]), req[c].user)]]
      BY <2>1 DEF LoadMember, TeamOf, Inv
    <3> QED BY <1>3, <3>1
  <2>2. CASE LoadMemberFails(c)
    <3>1. req' = [req EXCEPT ![c] = [req[c] EXCEPT !.pc = "decide"]]
      BY <2>2 DEF LoadMemberFails, Goto
    <3>2. [req[c] EXCEPT !.pc = "decide"] = [req[c] EXCEPT !.pc = "decide", !.member = NoRole]
      BY <1>2 DEF Request
    <3> QED BY <2>2, <3>1, <3>2 DEF LoadMemberFails
  <2> QED BY <2>1, <2>2
<1>5. PICK q : q = [req[c] EXCEPT !.pc = "decide", !.member = m]
  OBVIOUS
<1>6. /\ q \in Request /\ q.pc = "decide" /\ q.op = req[c].op /\ q.user = req[c].user
      /\ q.role = req[c].role /\ q.image = req[c].image /\ q.team = req[c].team /\ q.member = m
  BY <1>2, <1>5 DEF Request
<1>7. /\ req' \in [Clients -> Request] /\ req'[c] = q
      /\ \A d \in Clients \ {c} : Same(req[d], req'[d])
  BY <1>4, <1>5, <1>6, SetKeepsOthers DEF Inv
<1>8. \A r, w, x : /\ r = req[c] /\ w = watch[c]
                   /\ x = IF q.pc = "idle" THEN Fresh
                          ELSE IF ~Running0(r) THEN w ELSE Advance(r, w)
                   => ClientInv(q, x)'
  <2> SUFFICES ASSUME NEW r, NEW w, NEW x, r = req[c], w = watch[c],
                      x = IF q.pc = "idle" THEN Fresh
                          ELSE IF ~Running0(r) THEN w ELSE Advance(r, w)
               PROVE  ClientInv(q, x)'
    OBVIOUS
  <2>1. ClientInv(r, w) /\ r.pc = "member" /\ x = Advance(r, w) /\ Types
    BY <1>2, <1>6, InvFields DEF Running0
  <2>2. \/ q.member = member_role(TeamOf(r), r.user)
        \/ q.member = NoRole /\ r.op = "get_team"
    BY <1>4, <1>6
  <2> QED BY <1>1, <1>6, <2>1, <2>2, MemberKeeps
<1> QED BY <1>1, <1>6, <1>7, <1>8, BecomesKeeps

\* The decision of AuthzService::authorize and of the team routes.
LEMMA DecideKeeps ==
  ASSUME Inv, NEW c \in Clients, Decide(c)
  PROVE  Inv'
<1>1. Types' /\ Grows /\ Watch /\ UNCHANGED <<image, members>>
  BY OnlyRequestKeeps DEF Inv, Decide
<1>2. /\ req[c].pc = "decide" /\ req[c] \in Request
      /\ req[c].op \in ImageOps \cup TeamOps \cup {"upload"}
  BY InvFields DEF Decide
<1>3. \/ ~Ok(req[c]) /\ Answer(c, "refused")
      \/ Ok(req[c]) /\ (Answer(c, "served") \/ Goto(c, "apply"))
  BY DEF Decide, Ok
<1>4. ASSUME NEW pc \in {"served", "refused"}, Answer(c, pc), pc = "served" <=> Ok(req[c])
      PROVE  Inv'
  <2>1. PICK q : q = Ended(pc, req[c].op)
    OBVIOUS
  <2>2. q \in Request /\ q.pc = pc /\ q.op = req[c].op /\ Shape(q)
    BY SMT, <1>2, <2>1, EndedFields
  <2>3. /\ req' \in [Clients -> Request] /\ req'[c] = q
        /\ \A d \in Clients \ {c} : Same(req[d], req'[d])
    BY <1>4, <2>1, <2>2, EndKeepsOthers DEF Inv, Answer
  <2>4. PICK r, w, x : r = req[c] /\ w = watch[c] /\ x = Advance(r, w)
    OBVIOUS
  <2>5. ClientInv(r, w) /\ r.pc = "decide" /\ Types /\ x \in History
    BY <1>2, <2>4, InvFields, AdvanceFacts
  <2>6. pc = "served" => x.for /\ x.steady \cap Against = {}
    BY <1>4, <2>4, <2>5, GrantedJustified
  <2>7. pc = "refused" /\ r.op \notin TeamOps => x.against \/ x.steady \cap For = {}
    BY <1>4, <2>4, <2>5, RefusalJustified
  <2>8. ClientInv(q, x)'
    BY <2>2, <2>4, <2>5, <2>6, <2>7 DEF ClientInv
  <2>9. watch'[c] = x
    BY <1>1, <1>2, <2>2, <2>3, <2>4, WatchOf DEF Running0
  <2>10. ClientInv(req[c], watch[c])'
    BY <2>3, <2>8, <2>9
  <2> QED BY <1>1, <2>3, <2>10, OneSteps
<1>5. ASSUME Goto(c, "apply"), Ok(req[c])
      PROVE  Inv'
  <2>1. PICK q : q = [req[c] EXCEPT !.pc = "apply"]
    OBVIOUS
  <2>2. /\ q \in Request /\ q.pc = "apply" /\ q.op = req[c].op /\ q.user = req[c].user
        /\ q.role = req[c].role /\ q.image = req[c].image /\ q.team = req[c].team
    BY <1>2, <2>1, MovedFields
  <2>3. /\ req' \in [Clients -> Request] /\ req'[c] = q
        /\ \A d \in Clients \ {c} : Same(req[d], req'[d])
    BY <1>5, <2>1, <2>2, SetKeepsOthers DEF Inv, Goto
  <2>4. PICK r, w, x : r = req[c] /\ w = watch[c] /\ x = Advance(r, w)
    OBVIOUS
  <2>5. ClientInv(r, w) /\ r.pc = "decide" /\ Types
    BY <1>2, <2>4, InvFields
  <2>6. x \in History /\ x.for /\ x.steady \cap Against = {}
    BY <1>5, <2>4, <2>5, GrantedJustified
  <2>7. Shape(q)
    BY <2>2, <2>4, <2>5 DEF ClientInv, Shape, Running0
  <2>8. q.op \in ImageOps => image'[q.image].state # "none" /\ "gone" \notin x.steady
    BY <1>1, <2>2, <2>4, <2>5, <2>6 DEF ClientInv, Against
  <2>9. ClientInv(q, x)'
    BY <2>2, <2>6, <2>7, <2>8 DEF ClientInv
  <2>10. watch'[c] = x
    BY <1>1, <1>2, <2>2, <2>3, <2>4, WatchOf DEF Running0
  <2>11. ClientInv(req[c], watch[c])'
    BY <2>3, <2>9, <2>10
  <2> QED BY <1>1, <2>3, <2>11, OneSteps
<1> QED BY <1>3, <1>4, <1>5

\* The client has its answer.
LEMMA FinishKeeps ==
  ASSUME Inv, NEW c \in Clients, Finish(c)
  PROVE  Inv'
<1>1. Types' /\ Grows /\ Watch
  BY OnlyRequestKeeps DEF Inv, Finish
<1>2. Idle \in Request /\ Idle.pc = "idle"
  BY EndedFields DEF Idle, ImageOps
<1>3. /\ req' \in [Clients -> Request] /\ req'[c] = Idle
      /\ \A d \in Clients \ {c} : Same(req[d], req'[d])
  BY <1>2, SetKeepsOthers DEF Inv, Finish
<1>4. watch'[c] = Fresh
  BY <1>1, <1>2, <1>3, WatchOf
<1>5. ClientInv(req[c], watch[c])'
  BY <1>3, <1>4, IdleKeeps
<1> QED BY <1>1, <1>3, <1>5, OneSteps

\* The effects that write a table and answer.
LEMMA EffectKeeps ==
  ASSUME Inv, NEW c \in Clients,
         \/ ApplyUpload(c) \/ ApplyDelete(c) \/ ApplyAddMember(c)
         \/ replace_grants(c) \/ revoke(c)
  PROVE  Inv'
<1>1. req[c] \in Request /\ Types /\ Shape(req[c]) /\ ClientInv(req[c], watch[c])
  BY InvFields
<1>2. CASE ApplyUpload(c)
  <2>1. /\ req[c].pc = "apply" /\ Answer(c, "served") /\ Watch
        /\ UNCHANGED <<role, token, teams, members, acl>>
    BY <1>2 DEF ApplyUpload
  <2>2. PICK i \in Images :
          /\ image[i].state = "none"
          /\ image' = [image EXCEPT ![i] = [state |-> "live", owner |-> req[c].user,
                                            team |-> req[c].team]]
    BY <1>2 DEF ApplyUpload
  <2>3. [state |-> "live", owner |-> req[c].user, team |-> req[c].team] \in ImageRow
    BY <1>1 DEF ImageRow, Request
  <2>4. Types' /\ Grows
    BY <1>1, <2>1, <2>2, <2>3 DEF Types, Grows
  <2> QED BY <2>1, <2>4, AnswerServedKeeps
<1>3. CASE ApplyDelete(c)
  <2>1. /\ req[c].pc = "apply" /\ (Answer(c, "served") \/ Error(c)) /\ Watch
        /\ UNCHANGED <<role, token, teams, members, acl>>
        /\ image' = [image EXCEPT ![req[c].image].state = "deleted"]
    BY <1>3 DEF ApplyDelete
  <2>2. req[c].image \in Images
    BY <1>1, <1>3 DEF ApplyDelete, Shape, Running0, ImageOps
  <2>3. Types' /\ Grows
    BY SMT, <1>1, <2>1, <2>2 DEF Types, Grows, ImageRow
  <2> QED BY <2>1, <2>3, AnswerServedKeeps, ErrorKeeps
<1>4. CASE ApplyAddMember(c)
  <2>1. req[c].pc = "apply" /\ Watch /\ UNCHANGED <<role, token, teams, image, acl>>
    BY <1>4 DEF ApplyAddMember
  <2>2. CASE Error(c) /\ UNCHANGED members
    <3>1. Types' /\ Grows
      BY <1>1, <2>1, <2>2 DEF Types, Grows
    <3> QED BY <2>1, <2>2, <3>1, ErrorKeeps
  <2>3. ASSUME NEW u \in Users, NEW r \in ASSIGNABLE_TEAM_ROLES, req[c].team \in teams,
               members' = [members EXCEPT ![req[c].team][u] = r], Answer(c, "served")
        PROVE  Inv'
    <3>1. r \in Roles /\ r # NoRole
      BY <2>3, RbacAssumption DEF ASSIGNABLE_TEAM_ROLES, Roles
    <3>2. Types' /\ Grows
      BY <1>1, <2>1, <2>3, <3>1 DEF Types, Grows
    <3> QED BY <2>1, <2>3, <3>2, AnswerServedKeeps
  <2> QED BY <1>4, <2>2, <2>3 DEF ApplyAddMember
<1>5. CASE replace_grants(c)
  <2>1. /\ req[c].pc = "delete" /\ Watch /\ UNCHANGED <<role, token, teams, members, image>>
    BY <1>5 DEF replace_grants
  <2>2. CASE Error(c) /\ UNCHANGED acl
    <3>1. Types' /\ Grows
      BY <1>1, <2>1, <2>2 DEF Types, Grows
    <3> QED BY <2>1, <2>2, <3>1, ErrorKeeps
  <2>3. ASSUME NEW body \in Bodies, Parses(body), Answer(c, "served"),
               acl' = [acl EXCEPT ![req[c].image] =
                         (acl[req[c].image] \ req[c].seen) \cup Written(body)]
        PROVE  Inv'
    <3>1. Written(body) \subseteq GrantRow
      BY <2>3, AccessControlAssumption DEF Written, Parses, GrantRow
    <3>2. req[c].image \in Images
      BY <1>1, <1>5 DEF replace_grants, Shape, Running0, ImageOps
    <3>3. Types' /\ Grows
      BY <1>1, <2>1, <2>3, <3>1, <3>2 DEF Types, Grows
    <3> QED BY <2>1, <2>3, <3>3, AnswerServedKeeps
  <2> QED BY <1>5, <2>2, <2>3 DEF replace_grants
<1>6. CASE revoke(c)
  <2>1. /\ req[c].pc = "delete" /\ Watch /\ UNCHANGED <<role, token, teams, members, image>>
        /\ Answer(c, "served") /\ acl' = [acl EXCEPT ![req[c].image] = @ \ req[c].seen]
    BY <1>6 DEF revoke
  <2>2. Types' /\ Grows
    BY <1>1, <2>1 DEF Types, Grows
  <2> QED BY <2>1, <2>2, AnswerServedKeeps
<1> QED BY <1>2, <1>3, <1>4, <1>5, <1>6

\* The team is loaded after the decision, and may be missing.
LEMMA ApplyGetTeamKeeps ==
  ASSUME Inv, NEW c \in Clients, ApplyGetTeam(c)
  PROVE  Inv'
<1>1. Types' /\ Grows /\ Watch /\ req[c].pc = "apply" /\ req[c].op = "get_team"
  BY OnlyRequestKeeps DEF Inv, ApplyGetTeam
<1>2. CASE Answer(c, "served")
  BY <1>1, <1>2, AnswerServedKeeps
<1>3. CASE Answer(c, "refused")
  <2>1. PICK r, w, x : r = req[c] /\ w = watch[c] /\ x = Advance(r, w)
    OBVIOUS
  <2>2. PICK q : q = Ended("refused", r.op)
    OBVIOUS
  <2>3. q \in Request /\ q.pc = "refused"
    BY <1>1, <2>1, <2>2, EndedFields DEF TeamOps
  <2>4. /\ req' \in [Clients -> Request] /\ req'[c] = q
        /\ \A d \in Clients \ {c} : Same(req[d], req'[d])
    BY <1>3, <2>1, <2>2, <2>3, EndKeepsOthers DEF Inv, Answer
  <2>5. ClientInv(r, w) /\ r.op \in TeamOps
    BY <1>1, <2>1, InvFields DEF TeamOps
  <2>6. ClientInv(Ended("refused", r.op), x)'
    BY <2>1, <2>5, TeamRefusedKeeps
  <2>7. watch'[c] = x
    BY <1>1, <2>1, <2>3, <2>4, WatchOf DEF Running0
  <2>8. ClientInv(req[c], watch[c])'
    BY <2>2, <2>4, <2>6, <2>7
  <2> QED BY <1>1, <2>4, <2>8, OneSteps
<1> QED BY <1>2, <1>3 DEF ApplyGetTeam

\* A DELETE on resource_acls takes its locks.
LEMMA StartDeleteKeeps ==
  ASSUME Inv, NEW c \in Clients, req[c].pc = "apply",
         NEW rows \in SUBSET GrantRow, StartDelete(c, rows)
  PROVE  Inv'
<1>1. Types' /\ Grows /\ Watch /\ UNCHANGED <<image, members>>
  BY OnlyRequestKeeps DEF Inv, StartDelete
<1>2. PICK ahead \in SUBSET Clients :
        req' = [req EXCEPT ![c] = [req[c] EXCEPT !.pc = "delete", !.seen = rows, !.behind = ahead]]
  <2>1. PICK ahead : ahead = {d \in Clients \ {c} : /\ req[d].pc = "delete"
                                                    /\ req[d].image = req[c].image
                                                    /\ req[d].seen \cap rows # {}}
    OBVIOUS
  <2>2. req' = [req EXCEPT ![c].pc = "delete", ![c].seen = rows, ![c].behind = ahead]
    BY <2>1 DEF StartDelete
  <2>3. ahead \in SUBSET Clients
    BY <2>1
  <2> QED BY <2>2, <2>3 DEF Inv
<1>3. PICK q : q = [req[c] EXCEPT !.pc = "delete", !.seen = rows, !.behind = ahead]
  OBVIOUS
<1>4. /\ q \in Request /\ q.pc = "delete" /\ q.op = req[c].op /\ q.user = req[c].user
      /\ q.role = req[c].role /\ q.image = req[c].image /\ q.team = req[c].team
  <2>1. PICK r \in Request : r = req[c]
    BY InvFields
  <2>2. q = [r EXCEPT !.pc = "delete", !.seen = rows, !.behind = ahead]
    BY <1>3, <2>1
  <2>3. /\ q \in Request /\ q.pc = "delete" /\ q.op = r.op /\ q.user = r.user
        /\ q.role = r.role /\ q.image = r.image /\ q.team = r.team
    BY <2>2 DEF Request
  <2> QED BY <2>1, <2>3
<1>5. /\ req' \in [Clients -> Request] /\ req'[c] = q
      /\ \A d \in Clients \ {c} : Same(req[d], req'[d])
  BY <1>2, <1>3, <1>4, SetKeepsOthers DEF Inv
<1>6. PICK r, w, x : r = req[c] /\ w = watch[c] /\ x = Advance(r, w)
  OBVIOUS
<1>7. ClientInv(r, w)
  BY <1>6, InvFields
<1>8. x \in History /\ x.for /\ x.steady \subseteq w.steady /\ x.steady \cap Against = {}
  BY SMT, <1>6, <1>7, AdvanceFacts DEF ClientInv
<1>9. Shape(q)
  BY <1>4, <1>6, <1>7 DEF ClientInv, Shape, Running0
<1>10. q.op \in ImageOps => image'[q.image].state # "none" /\ "gone" \notin x.steady
  BY <1>1, <1>4, <1>6, <1>7, <1>8 DEF ClientInv
<1>11. ClientInv(q, x)'
  BY <1>4, <1>8, <1>9, <1>10 DEF ClientInv
<1>12. watch'[c] = x
  BY <1>1, <1>4, <1>5, <1>6, WatchOf DEF Running0
<1>13. ClientInv(req[c], watch[c])'
  BY <1>5, <1>11, <1>12
<1> QED BY <1>1, <1>5, <1>13, OneSteps

\* The transactions of PUT and revoke begin.
LEMMA StartKeeps ==
  ASSUME Inv, NEW c \in Clients, StartReplace(c) \/ StartRevoke(c)
  PROVE  Inv'
<1>1. req[c].pc = "apply" /\ req[c].image \in Images
  BY InvFields DEF StartReplace, StartRevoke, Shape, Running0, ImageOps
<1>2. acl[req[c].image] \in SUBSET GrantRow
  BY <1>1 DEF Inv, Types
<1>3. CASE Error(c) /\ OnlyRequest
  BY <1>3, ErrorKeeps, OnlyRequestKeeps DEF Inv
<1>4. CASE StartDelete(c, acl[req[c].image])
  <2>1. PICK rows \in SUBSET GrantRow : rows = acl[req[c].image]
    BY <1>2
  <2>2. StartDelete(c, rows)
    BY <1>4, <2>1
  <2> QED BY <1>1, <2>2, StartDeleteKeeps
<1>5. ASSUME NEW s \in AclSubject,
             StartDelete(c, {row \in acl[req[c].image] : <<row[1], row[2]>> = subject_to_cols(s)})
      PROVE  Inv'
  <2>1. PICK rows \in SUBSET GrantRow :
          rows = {row \in acl[req[c].image] : <<row[1], row[2]>> = subject_to_cols(s)}
    BY <1>2
  <2>2. StartDelete(c, rows)
    BY <1>5, <2>1
  <2> QED BY <1>1, <2>2, StartDeleteKeeps
<1> QED BY <1>3, <1>4, <1>5 DEF StartReplace, StartRevoke

\* Logins and administration leave the requests in progress alone.
LEMMA AdministrationKeeps ==
  ASSUME Inv, UNCHANGED req, Watch, Types', Grows
  PROVE  Inv'
<1>1. ASSUME NEW c \in Clients PROVE Inv'
  <2>1. \A d \in Clients : Same(req[d], req'[d])
    BY DEF Same
  <2>2. PICK r, w, x : r = req[c] /\ w = watch[c] /\ x = watch'[c]
    OBVIOUS
  <2>3. ClientInv(r, w) /\ r \in Request /\ Same(r, r)
    BY <2>2, InvFields DEF Same
  <2>4. x = IF r.pc = "idle" THEN Fresh ELSE IF ~Running0(r) THEN w ELSE Advance(r, w)
    BY <2>2, WatchOf
  <2>5. ClientInv(r, x)'
    BY <2>3, <2>4, StayKeeps DEF Inv
  <2>6. ClientInv(req[c], watch[c])'
    BY <2>2, <2>5
  <2>7. req' \in [Clients -> Request]
    BY DEF Inv
  <2> QED BY <2>1, <2>6, <2>7, OneSteps
<1>2. CASE Clients = {}
  BY <1>2 DEF Inv, Watch
<1> QED BY <1>1, <1>2

\* The invariant holds at the start ...
LEMMA InitInv == Init => Inv
<1> SUFFICES ASSUME Init PROVE Inv
  OBVIOUS
<1>1. Idle \in Request /\ Idle.pc = "idle" /\ Shape(Idle)
  BY EndedFields DEF Idle, ImageOps
<1>2. Fresh \in History
  BY DEF Fresh, History
<1>3. ClientInv(Idle, Fresh)
  BY <1>1, <1>2 DEF ClientInv
<1>4. Types
  BY AccessControlAssumption DEF Init, Types, ImageRow
<1> QED BY <1>1, <1>2, <1>3, <1>4 DEF Init, Inv

\* ... and every step keeps it.
LEMMA NextInv == Inv /\ [Next]_vars => Inv'
<1> SUFFICES ASSUME Inv, [Next]_vars PROVE Inv'
  OBVIOUS
<1>1. ASSUME NEW c \in Clients, NEW i \in Images,
             \/ get(c, i) \/ link(c, i) \/ file(c, i) \/ delete(c, i)
             \/ list_acl(c, i) \/ replace_acl(c, i) \/ revoke_acl(c, i)
      PROVE  Inv'
  <2>1. PICK op \in ImageOps : Begin(c, op, i, NoTeam)
    BY <1>1 DEF get, link, file, delete, list_acl, replace_acl, revoke_acl, ImageOps
  <2> QED BY <2>1, BeginKeeps
<1>2. ASSUME NEW c \in Clients, NEW t \in Teams \cup {NoTeam},
             upload(c, t) \/ get_team(c, t) \/ list_members(c, t) \/ add_member(c, t)
      PROVE  Inv'
  <2>1. PICK op \in TeamOps \cup {"upload"} : Begin(c, op, NoImage, t)
    BY <1>2 DEF upload, get_team, list_members, add_member, TeamOps
  <2> QED BY <2>1, BeginKeeps
<1>3. ASSUME NEW c \in Clients, Fail(c)
      PROVE  Inv'
  BY <1>3, ErrorKeeps, OnlyRequestKeeps DEF Fail, Inv
<1>4. ASSUME NEW u \in Users, issue_session(u)
      PROVE  Inv'
  <2>1. Types' /\ Grows /\ Watch /\ UNCHANGED req
    BY <1>4 DEF issue_session, Inv, Types, Grows
  <2> QED BY <2>1, AdministrationKeeps
<1>5. ASSUME NEW u \in Users, NEW r \in SetRoles,
             user_set_role(u, r) \/ \E admin \in Users : set_role(admin, u, r)
      PROVE  Inv'
  <2>1. Types' /\ Grows /\ Watch /\ UNCHANGED req
    BY <1>5, AccessControlAssumption DEF user_set_role, set_role, Inv, Types, Grows
  <2> QED BY <2>1, AdministrationKeeps
<1>6. ASSUME NEW u \in Users, NEW t \in Teams, NEW r \in SetRoles, team_add_member(t, u, r)
      PROVE  Inv'
  <2>1. r \in Roles /\ r # NoRole
    BY <1>6, AccessControlAssumption, RbacAssumption
  <2>2. Types' /\ Grows /\ Watch /\ UNCHANGED req
    BY <1>6, <2>1 DEF team_add_member, Inv, Types, Grows
  <2> QED BY <2>2, AdministrationKeeps
<1>7. ASSUME NEW t \in Teams, create(t) \/ team_create(t)
      PROVE  Inv'
  <2>1. Types' /\ Grows /\ Watch /\ UNCHANGED req
    BY <1>7 DEF create, team_create, Inv, Types, Grows
  <2> QED BY <2>1, AdministrationKeeps
<1>8. CASE UNCHANGED vars
  BY ZenonT(40), <1>8 DEF vars, Inv, Types, ClientInv, Heard, TeamOf
<1>9. ASSUME NEW c \in Clients,
             \/ LoadImage(c) \/ LoadMember(c) \/ LoadMemberFails(c) \/ Decide(c)
             \/ Finish(c) \/ ApplyUpload(c) \/ ApplyDelete(c) \/ ApplyGetTeam(c)
             \/ ApplyAddMember(c) \/ StartReplace(c) \/ StartRevoke(c) \/ replace_grants(c)
             \/ revoke(c)
      PROVE  Inv'
  BY <1>9, LoadImageKeeps, LoadMemberKeeps, DecideKeeps, FinishKeeps, EffectKeeps,
     ApplyGetTeamKeeps, StartKeeps
<1> QED BY <1>1, <1>2, <1>3, <1>4, <1>5, <1>6, <1>7, <1>8, <1>9 DEF Next

-----------------------------------------------------------------------------
(* What the invariant shows.                                               *)

\* Every reachable state satisfies the invariant.
THEOREM Invariance == Spec => []Inv
BY InitInv, NextInv, PTL DEF Spec

\* A deny that names the caller, or the caller's team, throughout a request,
\* and an image that is gone throughout it, are never overridden: whatever
\* requests, role changes and ACL changes run meanwhile.
THEOREM DeniesAreHeeded == Spec => []DenyHolds
<1>1. Inv => DenyHolds
  BY DEF Inv, ClientInv, DenyHolds
<1> QED BY <1>1, Invariance, PTL

\* The separate reads of a handler never add up to a right nobody had.
THEOREM AccessIsJustified == Spec => []EveryAccessJustified
<1>1. Inv => EveryAccessJustified
  BY DEF Inv, ClientInv, EveryAccessJustified
<1> QED BY <1>1, Invariance, PTL

\* A right that stands throughout a request is honoured unless something spoke
\* against the request meanwhile.
THEOREM RightsAreHonoured == Spec => []SteadyRightIsServed
<1>1. Inv => SteadyRightIsServed
  BY DEF Inv, ClientInv, SteadyRightIsServed
<1> QED BY <1>1, Invariance, PTL

-----------------------------------------------------------------------------
(* Where authority comes from.                                             *)

\* Without a root nobody has any: neither in the tables nor in a request.
Powerless ==
  /\ \A u \in Users : role[u] \notin Bosses /\ token[u] \notin Bosses
  /\ \A t \in Teams, u \in Users : members[t][u] = NoRole
  /\ \A c \in Clients : /\ req[c].role \notin Bosses /\ req[c].member = NoRole
                        /\ ~(req[c].pc = "apply" /\ req[c].op = "add_member")

RootInv == roots = {} => Powerless

\* Nobody has authority at the start unless it is recorded as a root.
LEMMA InitRoot == Init => RootInv
<1> SUFFICES ASSUME Init, roots = {} PROVE Powerless
  BY DEF RootInv
<1>1. \A u \in Users : role[u] \notin Bosses /\ token[u] \notin Bosses
  BY DEF Init
<1>2. Idle.role = NoRole /\ Idle.member = NoRole /\ Idle.pc = "idle"
  BY EndedFields DEF Idle, ImageOps
<1>3. NoRole \notin Bosses
  BY RbacAssumption DEF Roles, Bosses
<1> QED BY <1>1, <1>2, <1>3 DEF Init, Powerless

\* An ended request carries no role.
LEMMA EndPowerless ==
  ASSUME Inv, Powerless, NEW c \in Clients, NEW pc \in {"idle", "served", "refused"},
         NEW op \in ImageOps \cup TeamOps \cup {"upload"}, End(c, Ended(pc, op)),
         UNCHANGED <<role, token, members>>
  PROVE  Powerless'
<1>1. PICK last \in Request : /\ last = Ended(pc, op) /\ last.pc = pc
                              /\ last.role = NoRole /\ last.member = NoRole
  BY SMT, EndedFields
<1>2. req'[c] = last /\ \A d \in Clients \ {c} : Same(req[d], req'[d])
  BY <1>1, EndKeepsOthers DEF Inv
<1>3. NoRole \notin Bosses
  BY RbacAssumption DEF Roles, Bosses
<1> QED BY SMT, <1>1, <1>2, <1>3 DEF Powerless, Same

\* The two ways a request ends.
LEMMA AnswerPowerless ==
  ASSUME Inv, Powerless, NEW c \in Clients, UNCHANGED <<role, token, members>>,
         Answer(c, "served") \/ Answer(c, "refused") \/ Error(c)
  PROVE  Powerless'
<1>1. CASE Error(c)
  BY <1>1, EndPowerless DEF Error, Idle, ImageOps
<1>2. CASE Answer(c, "served") \/ Answer(c, "refused")
  BY <1>2, InvFields, EndPowerless DEF Answer
<1> QED BY <1>1, <1>2

\* Moves that keep or lose the request's role and membership.
LEMMA MovePowerless ==
  ASSUME Inv, Powerless, NEW c \in Clients, NEW q, req' = [req EXCEPT ![c] = q],
         q.role \notin Bosses, q.member = NoRole, ~(q.pc = "apply" /\ q.op = "add_member"),
         UNCHANGED <<role, token, members>>
  PROVE  Powerless'
BY DEF Powerless, Inv

\* Only the command line, and add_member, touch the rosters; roots only grow.
LEMMA StepKinds ==
  ASSUME [Next]_vars
  PROVE  \/ UNCHANGED members /\ roots \subseteq roots'
         \/ "cli" \in roots'
         \/ \E c \in Clients : ApplyAddMember(c)
<1>1. ASSUME NEW c \in Clients, NEW i \in Images,
             \/ get(c, i) \/ link(c, i) \/ file(c, i) \/ delete(c, i)
             \/ list_acl(c, i) \/ replace_acl(c, i) \/ revoke_acl(c, i)
      PROVE  UNCHANGED <<members, roots>>
  BY <1>1 DEF get, link, file, delete, list_acl, replace_acl, revoke_acl, Begin, OnlyRequest,
              tables
<1>2. ASSUME NEW c \in Clients, NEW t \in Teams \cup {NoTeam},
             upload(c, t) \/ get_team(c, t) \/ list_members(c, t) \/ add_member(c, t)
      PROVE  UNCHANGED <<members, roots>>
  BY <1>2 DEF upload, get_team, list_members, add_member, Begin, OnlyRequest, tables
<1>3. ASSUME NEW c \in Clients,
             \/ LoadImage(c) \/ LoadMember(c) \/ LoadMemberFails(c) \/ Decide(c) \/ Fail(c)
             \/ Finish(c) \/ ApplyGetTeam(c) \/ StartReplace(c) \/ StartRevoke(c)
      PROVE  UNCHANGED <<members, roots>>
  <2>1. OnlyRequest
    BY <1>3 DEF LoadImage, LoadMember, LoadMemberFails, Decide, Fail, Finish, ApplyGetTeam,
                StartReplace, StartRevoke, StartDelete
  <2> QED BY <2>1 DEF OnlyRequest, tables
<1>4. ASSUME NEW c \in Clients,
             ApplyUpload(c) \/ ApplyDelete(c) \/ replace_grants(c) \/ revoke(c)
      PROVE  UNCHANGED <<members, roots>>
  BY <1>4 DEF ApplyUpload, ApplyDelete, replace_grants, revoke
<1>5. ASSUME NEW u \in Users,
             \/ issue_session(u)
             \/ \E admin \in Users, r \in SetRoles : set_role(admin, u, r)
      PROVE  UNCHANGED members /\ roots \subseteq roots'
  BY <1>5 DEF issue_session, set_role
<1>6. ASSUME NEW u \in Users, NEW r \in SetRoles,
             user_set_role(u, r) \/ \E t \in Teams : team_add_member(t, u, r)
      PROVE  "cli" \in roots'
  BY <1>6 DEF user_set_role, team_add_member
<1>7. ASSUME NEW t \in Teams, create(t) \/ team_create(t)
      PROVE  UNCHANGED <<members, roots>>
  BY <1>7 DEF create, team_create
<1>8. CASE UNCHANGED vars
  BY <1>8 DEF vars
<1> QED BY <1>1, <1>2, <1>3, <1>4, <1>5, <1>6, <1>7, <1>8 DEF Next

\* Every step keeps the powerless powerless, until a root appears.
LEMMA NextRoot == Inv /\ RootInv /\ [Next]_vars => RootInv'
<1> SUFFICES ASSUME Inv, RootInv, [Next]_vars, roots' = {} PROVE Powerless'
  BY DEF RootInv
<1>0. roots = {}
  <2>1. ASSUME NEW c \in Clients, ApplyAddMember(c) PROVE UNCHANGED roots
    BY <2>1 DEF ApplyAddMember
  <2> QED BY <2>1, StepKinds
<1>1. Powerless
  BY <1>0 DEF RootInv
<1>2. ASSUME NEW c \in Clients, NEW op, NEW i, NEW t \in Teams \cup {NoTeam}, Begin(c, op, i, t),
             \/ op \in ImageOps /\ i \in Images
             \/ op \in TeamOps \cup {"upload"} /\ i = NoImage
      PROVE  Powerless'
  <2>1. PICK q : q = RequestOf(IF op \in ImageOps THEN "image" ELSE "member", op, UserOf[c],
                               token[UserOf[c]], i, t)
    OBVIOUS
  <2>2. q.role = token[UserOf[c]] /\ q.member = NoRole /\ q.pc \in {"image", "member"}
    BY <2>1 DEF RequestOf
  <2>3. q.role \notin Bosses
    BY <1>1, <2>2, AccessControlAssumption DEF Powerless
  <2> QED BY <1>1, <1>2, <2>1, <2>2, <2>3, MovePowerless DEF Begin, OnlyRequest, tables
<1>3. ASSUME NEW c \in Clients, NEW pc \in {"member", "decide", "apply"}, Goto(c, pc), OnlyRequest,
             ~(pc = "apply" /\ req[c].op = "add_member")
      PROVE  Powerless'
  <2>0. req[c] \in Request
    BY InvFields
  <2>1. PICK r, q : r \in Request /\ r = req[c] /\ q = [r EXCEPT !.pc = pc]
    BY <2>0
  <2>2. q.pc = pc /\ q.op = r.op /\ q.role = r.role /\ q.member = r.member
    BY SMT, <2>1, MovedFields
  <2> QED BY SMT, <1>1, <1>3, <2>1, <2>2, MovePowerless DEF Goto, OnlyRequest, tables, Powerless
<1>4. ASSUME NEW c \in Clients, LoadImage(c)
      PROVE  Powerless'
  BY <1>1, <1>3, <1>4, AnswerPowerless DEF LoadImage, OnlyRequest, tables
<1>5. ASSUME NEW c \in Clients, LoadMember(c)
      PROVE  Powerless'
  <2>1. /\ req[c] \in Request /\ req[c].user \in Users
        /\ (req[c].op \in ImageOps => req[c].image \in Images)
    BY <1>5, InvFields DEF Shape, Running0, LoadMember
  <2>2. TeamOf(req[c]) \in Teams \cup {NoTeam}
    BY <2>1 DEF TeamOf, Inv, Types, ImageRow, Request
  <2>3. member_role(TeamOf(req[c]), req[c].user) = NoRole
    BY <1>1, <2>1, <2>2 DEF member_role, Powerless
  <2>4. PICK r, q : /\ r \in Request /\ r = req[c]
                    /\ q = [r EXCEPT !.pc = "decide", !.member = NoRole]
    BY <2>1
  <2>5. q.pc = "decide" /\ q.role = r.role /\ q.member = NoRole
    BY <2>4 DEF Request
  <2>6. req' = [req EXCEPT ![c] = q]
    BY <1>5, <2>3, <2>4 DEF LoadMember, TeamOf, Inv
  <2>7. UNCHANGED <<role, token, members>> /\ r.role \notin Bosses
    BY <1>1, <1>5, <2>4 DEF LoadMember, OnlyRequest, tables, Powerless
  <2> QED BY <1>1, <2>5, <2>6, <2>7, MovePowerless
<1>6. ASSUME NEW c \in Clients, LoadMemberFails(c)
      PROVE  Powerless'
  BY <1>3, <1>6 DEF LoadMemberFails
<1>7. ASSUME NEW c \in Clients, Decide(c)
      PROVE  Powerless'
  <2>1. \/ Answer(c, "refused") \/ Answer(c, "served")
        \/ Ok(req[c]) /\ Goto(c, "apply")
    BY <1>7 DEF Decide, Ok
  <2>2. Ok(req[c]) => req[c].op # "add_member"
    <3> SUFFICES ASSUME req[c].op = "add_member" PROVE ~Ok(req[c])
      OBVIOUS
    <3>1. req[c].role \in Roles /\ req[c].role \notin Bosses /\ req[c].member \notin Bosses
      BY <1>1, <1>7, InvFields, RbacAssumption
         DEF Powerless, Decide, Shape, Running0, Roles, Bosses
    <3>2. Ok(req[c]) <=> MayAddMember(req[c])
      BY DEF Ok, ImageOps
    <3> QED BY <3>1, <3>2, CheckRoles DEF MayAddMember, Bosses
  <2>3. OnlyRequest /\ UNCHANGED <<role, token, members>>
    BY <1>7 DEF Decide, OnlyRequest, tables
  <2> QED BY <1>1, <1>3, <2>1, <2>2, <2>3, AnswerPowerless
<1>8. ASSUME NEW c \in Clients, Finish(c)
      PROVE  Powerless'
  <2>1. Idle.role = NoRole /\ Idle.member = NoRole /\ Idle.pc = "idle"
    BY EndedFields DEF Idle, ImageOps
  <2>2. NoRole \notin Bosses
    BY RbacAssumption DEF Roles, Bosses
  <2> QED BY <1>1, <1>8, <2>1, <2>2, MovePowerless DEF Finish, OnlyRequest, tables
<1>9. ASSUME NEW c \in Clients, NEW rows, req[c].pc = "apply", StartDelete(c, rows)
      PROVE  Powerless'
  <2>1. UNCHANGED <<role, token, members>>
    BY <1>9 DEF StartDelete, OnlyRequest, tables
  <2>2. \A d \in Clients : req'[d].role = req[d].role /\ req'[d].member = req[d].member
          /\ (d = c => req'[d].pc = "delete") /\ (d # c => req'[d] = req[d])
    <3>1. PICK ahead : req' = [req EXCEPT ![c].pc = "delete", ![c].seen = rows, ![c].behind = ahead]
      BY <1>9 DEF StartDelete
    <3>0. req[c] \in Request
      BY InvFields
    <3>2. PICK r, q : /\ r \in Request /\ r = req[c]
                      /\ q = [r EXCEPT !.pc = "delete", !.seen = rows, !.behind = ahead]
      BY <3>0
    <3>3. q.pc = "delete" /\ q.role = r.role /\ q.member = r.member
      BY <3>2 DEF Request
    <3>4. req' = [req EXCEPT ![c] = q]
      BY <3>1, <3>2 DEF Inv
    <3> QED BY <3>2, <3>3, <3>4 DEF Inv
  <2> QED BY <1>1, <2>1, <2>2 DEF Powerless
<1>10. ASSUME NEW c \in Clients, StartReplace(c) \/ StartRevoke(c)
       PROVE  Powerless'
  <2>1. CASE Error(c) /\ OnlyRequest
    BY <1>1, <2>1, AnswerPowerless DEF OnlyRequest, tables
  <2> QED BY <1>9, <1>10, <2>1 DEF StartReplace, StartRevoke
<1>11. ASSUME NEW c \in Clients,
              \/ Fail(c) \/ ApplyUpload(c) \/ ApplyDelete(c) \/ ApplyGetTeam(c)
              \/ replace_grants(c) \/ revoke(c)
       PROVE  Powerless'
  <2>1. /\ Answer(c, "served") \/ Answer(c, "refused") \/ Error(c)
        /\ UNCHANGED <<role, token, members>>
    BY <1>11 DEF Fail, ApplyUpload, ApplyDelete, ApplyGetTeam, replace_grants, revoke, OnlyRequest,
                 tables
  <2> QED BY <1>1, <2>1, AnswerPowerless
<1>12. ASSUME NEW c \in Clients, ApplyAddMember(c)
       PROVE  FALSE
  BY <1>1, <1>12 DEF ApplyAddMember, Powerless
<1>13. ASSUME NEW u \in Users, issue_session(u)
       PROVE  Powerless'
  <2>1. role[u] \notin Bosses
    BY <1>1 DEF Powerless
  <2> QED BY <1>1, <1>13, <2>1 DEF issue_session, Powerless, Inv, Types
<1>14. ASSUME NEW admin \in Users, NEW u \in Users, NEW r \in SetRoles, set_role(admin, u, r)
       PROVE  FALSE
  <2>1. token[admin] \in Roles /\ token[admin] \notin Bosses
    BY <1>1 DEF Powerless, Inv, Types
  <2> QED BY <1>14, <2>1, CheckRoles DEF set_role, MaySetRole, Bosses
<1>15. ASSUME NEW u \in Users, NEW r \in SetRoles,
              user_set_role(u, r) \/ \E t \in Teams : team_add_member(t, u, r)
       PROVE  FALSE
  BY <1>15 DEF user_set_role, team_add_member
<1>16. ASSUME NEW t \in Teams, create(t) \/ team_create(t)
       PROVE  Powerless'
  BY <1>1, <1>16 DEF create, team_create, Powerless
<1>17. CASE UNCHANGED vars
  BY <1>1, <1>17 DEF vars, Powerless
<1>18. ASSUME NEW c \in Clients, NEW i \in Images,
              \/ get(c, i) \/ link(c, i) \/ file(c, i) \/ delete(c, i)
              \/ list_acl(c, i) \/ replace_acl(c, i) \/ revoke_acl(c, i)
       PROVE  Powerless'
  <2>1. PICK op \in ImageOps : Begin(c, op, i, NoTeam)
    BY <1>18 DEF get, link, file, delete, list_acl, replace_acl, revoke_acl, ImageOps
  <2> QED BY <1>2, <2>1
<1>19. ASSUME NEW c \in Clients, NEW t \in Teams \cup {NoTeam},
              upload(c, t) \/ get_team(c, t) \/ list_members(c, t) \/ add_member(c, t)
       PROVE  Powerless'
  <2>1. PICK op \in TeamOps \cup {"upload"} : Begin(c, op, NoImage, t)
    BY <1>19 DEF upload, get_team, list_members, add_member, TeamOps
  <2> QED BY <1>2, <2>1
<1> QED BY <1>4, <1>5, <1>6, <1>7, <1>8, <1>10, <1>11, <1>12, <1>13, <1>14, <1>15, <1>16, <1>17,
           <1>18, <1>19 DEF Next

\* With nobody but viewers and uploaders logged in, and no command line, no
\* chain of team creations, uploads and shares yields a seat in a team.
THEOREM AuthorityIsRooted == Spec => []AuthorityHasARoot
<1>1. RootInv => AuthorityHasARoot
  BY DEF RootInv, Powerless, AuthorityHasARoot
<1> QED BY <1>1, Invariance, InitRoot, NextRoot, PTL DEF Spec

\* The API hands out no team role `admin', however managers promote each other.
THEOREM AdminSeatsAreCli == Spec => []TeamAdminOnlyByCli
<1>1. Init => TeamAdminOnlyByCli
  <2>1. NoRole # "admin"
    BY RbacAssumption DEF Roles
  <2>2. Init => members = [t \in Teams |-> [u \in Users |-> NoRole]]
    BY Zenon DEF Init
  <2> QED BY <2>1, <2>2 DEF TeamAdminOnlyByCli
<1>2. Inv /\ TeamAdminOnlyByCli /\ [Next]_vars => TeamAdminOnlyByCli'
  <2> SUFFICES ASSUME Inv, TeamAdminOnlyByCli, [Next]_vars PROVE TeamAdminOnlyByCli'
    OBVIOUS
  <2>1. \/ UNCHANGED members /\ roots \subseteq roots'
        \/ "cli" \in roots'
        \/ \E c \in Clients : ApplyAddMember(c)
    BY StepKinds
  <2>2. ASSUME NEW c \in Clients, ApplyAddMember(c)
        PROVE  TeamAdminOnlyByCli'
    <3>1. UNCHANGED roots
      BY <2>2 DEF ApplyAddMember
    <3>2. CASE UNCHANGED members
      BY <3>1, <3>2 DEF TeamAdminOnlyByCli
    <3>3. ASSUME NEW u \in Users, NEW r \in ASSIGNABLE_TEAM_ROLES,
                 members' = [members EXCEPT ![req[c].team][u] = r]
          PROVE  TeamAdminOnlyByCli'
      BY <3>1, <3>3 DEF TeamAdminOnlyByCli, ASSIGNABLE_TEAM_ROLES, Inv, Types
    <3> QED BY <2>2, <3>2, <3>3 DEF ApplyAddMember
  <2> QED BY <2>1, <2>2 DEF TeamAdminOnlyByCli
<1> QED BY <1>1, <1>2, Invariance, PTL DEF Spec

\* What GET returns for a stored grant is a body that PUT stores as that grant.
THEOREM GrantsComeBack == Spec => []GrantsRoundTrip
<1>1. ASSUME NEW row \in GrantRow
      PROVE  grant_to_cols(body_to_grant(grant_to_body(grant_from_cols(row)))) = row
  <2>1. PICK g \in AclRule : g = grant_from_cols(row)
    BY RowGrant
  <2>2. /\ g.subject.kind = row[1] /\ g.subject.id = row[2] /\ g.action = row[3]
        /\ g.effect = row[4]
    BY <2>1, RowGrant
  <2>3. /\ g.subject.kind \in {"user", "team"} /\ g.action \in Actions
        /\ g.effect \in {"allow", "deny"}
    BY DEF AclRule, AclSubject
  <2>4. PICK b : b = GrantBody(g.subject.kind, g.subject.id, g.action, g.effect)
    OBVIOUS
  <2>5. /\ b.subject_type = g.subject.kind /\ b.subject_id = g.subject.id
        /\ b.permission = g.action /\ b.effect = g.effect
    BY <2>4 DEF GrantBody
  <2>6. PICK back : /\ back = AclGrant([kind |-> row[1], id |-> row[2]], row[3], row[4])
                    /\ back = body_to_grant(b)
    BY <2>2, <2>3, <2>5 DEF body_to_grant
  <2>7. grant_to_cols(back) = <<row[1], row[2], row[3], row[4]>>
    BY SMT, <2>6 DEF grant_to_cols, subject_to_cols, AclGrant
  <2>8. row = <<row[1], row[2], row[3], row[4]>>
    BY SMT DEF GrantRow, grant_to_cols
  <2> QED BY <2>1, <2>4, <2>6, <2>7, <2>8 DEF grant_to_body
<1>2. Inv => GrantsRoundTrip
  BY <1>1 DEF Inv, Types, GrantsRoundTrip
<1> QED BY <1>2, Invariance, PTL

\* The table of permissions the domain crate keeps is the engine's.
THEOREM TablesAgree == \A r \in Roles : DomainPermissions(r) = default_permissions(r)
<1>1. DomainPermissions("viewer") = default_permissions("viewer")
  BY DEF DomainPermissions, default_permissions, Permission
<1>2. DomainPermissions("uploader") = default_permissions("uploader")
  BY DEF DomainPermissions, default_permissions, Permission
<1>3. DomainPermissions("manager") = default_permissions("manager")
  BY DEF DomainPermissions, default_permissions, Permission
<1>4. DomainPermissions("admin") = default_permissions("admin")
  BY DEF DomainPermissions, default_permissions, Permission
<1> QED BY <1>1, <1>2, <1>3, <1>4 DEF Roles

-----------------------------------------------------------------------------
(* Types.                                                                  *)

CountInv == roots \subseteq {"boss", "cli"} /\ changes \in 0..MaxChanges

\* Authority comes from a logged-in boss or from the command line; the bound on
\* changes holds.
LEMMA NextCounts == CountInv /\ [Next]_vars => CountInv'
<1> SUFFICES ASSUME CountInv, [Next]_vars PROVE CountInv'
  OBVIOUS
<1>1. ASSUME UNCHANGED <<roots, changes>> PROVE CountInv'
  BY <1>1 DEF CountInv
<1>2. ASSUME Change \/ UNCHANGED changes PROVE changes' \in 0..MaxChanges
  <2>1. changes \in 0..MaxChanges
    BY DEF CountInv
  <2> QED BY SMT, <1>2, <2>1, AccessControlAssumption DEF Change
<1>3. ASSUME NEW c \in Clients, NEW i \in Images,
             \/ get(c, i) \/ link(c, i) \/ file(c, i) \/ delete(c, i)
             \/ list_acl(c, i) \/ replace_acl(c, i) \/ revoke_acl(c, i)
      PROVE  UNCHANGED <<roots, changes>>
  BY <1>3 DEF get, link, file, delete, list_acl, replace_acl, revoke_acl, Begin, OnlyRequest
<1>4. ASSUME NEW c \in Clients, NEW t \in Teams \cup {NoTeam},
             upload(c, t) \/ get_team(c, t) \/ list_members(c, t) \/ add_member(c, t)
      PROVE  UNCHANGED <<roots, changes>>
  BY <1>4 DEF upload, get_team, list_members, add_member, Begin, OnlyRequest
<1>5. ASSUME NEW c \in Clients,
             \/ LoadImage(c) \/ LoadMember(c) \/ LoadMemberFails(c) \/ Decide(c) \/ Fail(c)
             \/ Finish(c) \/ ApplyGetTeam(c) \/ StartReplace(c) \/ StartRevoke(c)
      PROVE  UNCHANGED <<roots, changes>>
  <2>1. OnlyRequest
    BY <1>5 DEF LoadImage, LoadMember, LoadMemberFails, Decide, Fail, Finish, ApplyGetTeam,
                StartReplace, StartRevoke, StartDelete
  <2> QED BY <2>1 DEF OnlyRequest
<1>6. ASSUME NEW c \in Clients,
             ApplyUpload(c) \/ ApplyDelete(c) \/ replace_grants(c) \/ revoke(c)
      PROVE  UNCHANGED <<roots, changes>>
  BY <1>6 DEF ApplyUpload, ApplyDelete, replace_grants, revoke
<1>7. ASSUME NEW c \in Clients, ApplyAddMember(c) PROVE CountInv'
  <2>1. UNCHANGED roots /\ (Change \/ UNCHANGED changes)
    BY <1>7 DEF ApplyAddMember, Change
  <2> QED BY <1>2, <2>1 DEF CountInv
<1>8. ASSUME NEW u \in Users,
             \/ issue_session(u)
             \/ \E admin \in Users, r \in SetRoles : set_role(admin, u, r)
             \/ \E r \in SetRoles : user_set_role(u, r)
             \/ \E t \in Teams, r \in SetRoles : team_add_member(t, u, r)
      PROVE  CountInv'
  <2>1. /\ roots' \in {roots, roots \cup {"boss"}, roots \cup {"cli"}}
        /\ Change \/ UNCHANGED changes
    BY <1>8 DEF issue_session, set_role, user_set_role, team_add_member
  <2> QED BY <1>2, <2>1 DEF CountInv
<1>9. ASSUME NEW t \in Teams, create(t) \/ team_create(t) PROVE UNCHANGED <<roots, changes>>
  BY <1>9 DEF create, team_create
<1>10. CASE UNCHANGED vars
  BY <1>1, <1>10 DEF vars
<1> QED BY <1>1, <1>3, <1>4, <1>5, <1>6, <1>7, <1>8, <1>9, <1>10 DEF Next

\* Roles, rosters, images and ACL rows stay what their tables admit, the request
\* of a client what a handler can make of it.
THEOREM TypeCorrect == Spec => []TypeOK
<1>1. Init => CountInv
  <2>1. Init => changes \in 0..MaxChanges
    BY SMT, AccessControlAssumption DEF Init
  <2> QED BY <2>1 DEF Init, CountInv
<1>2. Inv /\ CountInv => TypeOK
  BY DEF Inv, Types, CountInv, TypeOK, History
<1> QED BY <1>1, <1>2, NextCounts, Invariance, PTL DEF Spec
=============================================================================
