--------------------------- MODULE AccessControl ---------------------------
(***************************************************************************)
(* Requests on images, image ACLs and teams, from the token to the effect. *)
(*                                                                         *)
(* A handler works in several statements: it loads the image, the caller's *)
(* role in the image's team, then the grants, decides, and applies the     *)
(* effect; role, roster and ACL changes of other requests fall between any *)
(* two of them.  The caller's global role is the one in its token.  PUT of *)
(* an ACL is a PostgreSQL transaction at READ COMMITTED: a DELETE of the   *)
(* rows its snapshot shows, waiting for rows another transaction has       *)
(* locked, then the INSERTs.                                               *)
(*                                                                         *)
(* Sessions and disabled accounts are in Sessions, blobs and quotas in     *)
(* ImageLifecycle.                                                         *)
(***************************************************************************)
EXTENDS Rbac, Sequences

CONSTANTS
  Images, Clients, NoImage,
  UserOf,        \* the user each client is logged in as
  OpsOf,         \* the operations each client issues
  Bodies,        \* the grant lists clients PUT: sequences of GrantBody
  InitialRoles,  \* the assignments of global roles the system starts from
  SetRoles,      \* the roles administrators assign
  MaxChanges,    \* bound on role changes and roster changes
  None           \* Rust's None and Err, where a conversion fails

VARIABLES
  role,     \* users.role
  token,    \* the role in the token each user holds
  teams,    \* the teams table
  members,  \* team_members: role by team and user, NoRole if there is no row
  image,    \* the images table
  acl,      \* resource_acls of each image, as rows of columns
  req,      \* the request each client has in progress
  watch,    \* history: what spoke for and against each request while it ran
  roots,    \* history: where authority came from so far
  changes   \* number of changes made, for the bound

tables == <<role, token, teams, members, image, acl>>
vars == <<role, token, teams, members, image, acl, req, watch, roots, changes>>

-----------------------------------------------------------------------------
(* Grants: the request body, the engine's rule, the columns of the table.  *)

GrantBody(st, sid, permission, effect) ==
  [subject_type |-> st, subject_id |-> sid, permission |-> permission, effect |-> effect]

action_from_str(s) == IF s \in Actions THEN s ELSE None
subject_from_cols(st, sid) ==
  IF st \in {"user", "team"} THEN [kind |-> st, id |-> sid] ELSE None
subject_to_cols(subject) == <<subject.kind, subject.id>>

AclGrant(subject, action, effect) ==
  [subject |-> subject, action |-> action, effect |-> effect]

\* None is the 400 of a body with an unknown subject type, permission or effect.
body_to_grant(b) ==
  IF /\ b.subject_type \in {"user", "team"}
     /\ b.permission \in Actions
     /\ b.effect \in {"allow", "deny"}
  THEN AclGrant([kind |-> b.subject_type, id |-> b.subject_id], b.permission, b.effect)
  ELSE None

grant_to_body(g) == GrantBody(g.subject.kind, g.subject.id, g.action, g.effect)

grant_to_cols(g) ==
  LET cols == subject_to_cols(g.subject) IN <<cols[1], cols[2], g.action, g.effect>>

grant_from_cols(row) ==
  LET subject == subject_from_cols(row[1], row[2])
      action == action_from_str(row[3])
  IN IF subject = None \/ action = None \/ row[4] \notin {"allow", "deny"}
     THEN None ELSE AclGrant(subject, action, row[4])

GrantRow == {grant_to_cols(g) : g \in AclRule}

ASSUME AccessControlAssumption ==
  /\ UserOf \in [Clients -> Users] /\ NoTeam \notin Users /\ NoImage \notin Images
  /\ InitialRoles \subseteq [Users -> Roles] /\ SetRoles \subseteq Roles /\ MaxChanges \in Nat
  /\ None \notin AclRule \cup AclSubject \cup Actions
  /\ \A body \in Bodies : \A n \in DOMAIN body : body_to_grant(body[n]) \in AclRule \cup {None}

\* The grants attached to an image, as the engine gets them.
list_grants(i) == IF i = NoImage THEN {} ELSE {grant_from_cols(row) : row \in acl[i]}

-----------------------------------------------------------------------------
(* Requests.                                                               *)

ImageOps == {"read", "delete", "list_acl", "replace_acl", "revoke_acl"}
TeamOps == {"get_team", "add_member"}
For == {"owner", "member", "usergrant", "teamgrant", "role"}
Against == {"gone", "userdeny", "teamdeny"}
Reasons == For \cup Against \cup {"otherteam"}

Request == [pc: {"idle", "image", "member", "decide", "apply", "delete",
                 "served", "refused"},
            op: ImageOps \cup TeamOps \cup {"upload"},
            user: Users \cup {NoUser}, role: Roles \cup {NoRole},
            image: Images \cup {NoImage}, team: Teams \cup {NoTeam},
            member: Roles \cup {NoRole},  \* loaded by member_role
            seen: SUBSET GrantRow,        \* the rows its DELETE has locked
            behind: SUBSET Clients]       \* the transactions it waits for

RequestOf(pc, op, user, r, i, t) ==
  [pc |-> pc, op |-> op, user |-> user, role |-> r, image |-> i, team |-> t, member |-> NoRole,
   seen |-> {}, behind |-> {}]
Ended(pc, op) == RequestOf(pc, op, NoUser, NoRole, NoImage, NoTeam)
Idle == Ended("idle", "read")

ImageRow == [state: {"none", "live", "deleted"}, owner: Users \cup {NoUser},
             team: Teams \cup {NoTeam}]

Running(c) == req[c].pc \notin {"idle", "served", "refused"}

\* A personal image is read with `read' by its owner, with `update' by others.
ImageAction(op, row, user) ==
  CASE op = "read"   -> IF row.team = NoTeam /\ row.owner # user THEN "update" ELSE "read"
    [] op = "delete" -> "delete"
    [] OTHER         -> "update"

ImageResource(i) == Resource("image", i, image[i].owner, image[i].team)

\* AuthzService::authorize: the membership of the resource's own team is all
\* the engine hears about the caller's teams.
Authorized(r, resource, action) ==
  LET loaded == IF r.member = NoRole THEN {} ELSE {team_scope(resource)}
  IN check(Actor(r.user, {r.role}, [t \in loaded |-> r.member]), resource, action,
           list_grants(r.image))

member_role(t, u) == IF t = NoTeam THEN NoRole ELSE members[t][u]

\* Team/Update or a manager's place in the team opens the roster for writing.
MayAddMemberAnyRole(r) == r.role \in Roles
MayAddMember(r) ==
  check_roles({r.role}, "team", "update") \/ r.member \in {"manager", "admin"}
MaySeeTeam(r) == check_roles({r.role}, "team", "read") \/ r.member # NoRole

ASSIGNABLE_TEAM_ROLES == {"viewer", "uploader", "manager"}

-----------------------------------------------------------------------------
(* What the tables say for and against a request at this moment.           *)

\* A grant with this effect covers the request and names the caller, or one
\* of these teams with the caller in it.
RuleFor(r, effect, kind, scopes) ==
  \E row \in acl[r.image] :
    /\ row[1] = kind /\ row[4] = effect
    /\ row[3] \in {ImageAction(r.op, image[r.image], r.user), "admin"}
    /\ \/ kind = "user" /\ row[2] = r.user
       \/ kind = "team" /\ row[2] \in scopes /\ members[row[2]][r.user] # NoRole

Bosses == {"manager", "admin"}
Speaks(r) ==
  LET onImage == r.op \in ImageOps
      team == IF onImage THEN image[r.image].team ELSE r.team
      mine == member_role(team, r.user)
  IN {s \in Reasons :
        \/ s = "owner" /\ onImage /\ image[r.image].owner = r.user
        \/ s = "member" /\ \/ mine \in Bosses
                           \/ mine # NoRole /\ r.op \in {"read", "get_team"}
                           \/ mine = "uploader" /\ r.op = "upload"
        \/ s = "usergrant" /\ onImage /\ RuleFor(r, "allow", "user", {})
        \/ s = "teamgrant" /\ onImage /\ RuleFor(r, "allow", "team", {team} \ {NoTeam})
        \/ s = "otherteam" /\ onImage /\ RuleFor(r, "allow", "team", Teams)
        \/ s = "gone" /\ onImage /\ image[r.image].state # "live"
        \/ s = "userdeny" /\ onImage /\ RuleFor(r, "deny", "user", {})
        \/ s = "teamdeny" /\ onImage /\ RuleFor(r, "deny", "team", {team} \ {NoTeam})
        \/ s = "role" /\ \/ r.role = "admin"
                         \/ r.role \in Bosses /\ (r.op \in TeamOps \/ team = NoTeam)
                         \/ r.role = "uploader" /\ r.op = "upload" /\ team = NoTeam}

\* Whether anything ever spoke for or against, and what spoke all the time.
Fresh == [for |-> FALSE, against |-> FALSE, steady |-> Reasons]

\* Updated by every step, from the tables the step reads.
Watch ==
  watch' = [c \in Clients |->
    IF req'[c].pc = "idle" THEN Fresh
    ELSE IF ~Running(c) THEN watch[c]
    ELSE LET now == Speaks(req[c])
         IN [for     |-> watch[c].for \/ now \cap For # {},
             against |-> watch[c].against \/ now \cap Against # {},
             steady  |-> watch[c].steady \cap now]]

Init ==
  /\ role \in InitialRoles
  /\ token = role
  /\ teams = {}
  /\ members = [t \in Teams |-> [u \in Users |-> NoRole]]
  /\ image = [i \in Images |-> [state |-> "none", owner |-> NoUser, team |-> NoTeam]]
  /\ acl = [i \in Images |-> {}]
  /\ req = [c \in Clients |-> Idle]
  /\ watch = [c \in Clients |-> Fresh]
  /\ roots = IF \E u \in Users : role[u] \in Bosses THEN {"boss"} ELSE {}
  /\ changes = 0

-----------------------------------------------------------------------------
(* Steps of a request.                                                     *)

\* The request of c moves on; nothing but the request changes.
Goto(c, pc) == req' = [req EXCEPT ![c].pc = pc]
OnlyRequest == Watch /\ UNCHANGED <<tables, roots, changes>>

\* The request ends: its row locks go, those who wait for them move up.
End(c, last) ==
  req' = [d \in Clients |-> IF d = c THEN last ELSE [req[d] EXCEPT !.behind = @ \ {c}]]
Answer(c, pc) == End(c, Ended(pc, req[c].op))
Error(c) == End(c, Idle)

Begin(c, op, i, t) ==
  /\ req[c].pc = "idle" /\ op \in OpsOf[c]
  /\ req' = [req EXCEPT ![c] = RequestOf(IF op \in ImageOps THEN "image" ELSE "member", op,
                                         UserOf[c], token[UserOf[c]], i, t)]
  /\ OnlyRequest

get(c, i) == Begin(c, "read", i, NoTeam)
link(c, i) == Begin(c, "read", i, NoTeam)
file(c, i) == Begin(c, "read", i, NoTeam)
delete(c, i) == Begin(c, "delete", i, NoTeam)
list_acl(c, i) == Begin(c, "list_acl", i, NoTeam)
replace_acl(c, i) == Begin(c, "replace_acl", i, NoTeam)
revoke_acl(c, i) == Begin(c, "revoke_acl", i, NoTeam)
upload(c, t) == Begin(c, "upload", NoImage, t)
get_team(c, t) == Begin(c, "get_team", NoImage, t)
list_members(c, t) == Begin(c, "get_team", NoImage, t)
add_member(c, t) == Begin(c, "add_member", NoImage, t)

\* repo.get of the image; 404 when there is no row.
LoadImage(c) ==
  /\ req[c].pc = "image"
  /\ IF image[req[c].image].state = "live" THEN Goto(c, "member") ELSE Answer(c, "refused")
  /\ OnlyRequest

\* The caller's role in the team of the image, or in the team itself.
LoadMember(c) ==
  LET t == IF req[c].op \in ImageOps THEN image[req[c].image].team ELSE req[c].team
  IN /\ req[c].pc = "member"
     /\ req' = [req EXCEPT ![c].pc = "decide", ![c].member = member_role(t, req[c].user)]
     /\ OnlyRequest

\* Reading a team, a failed membership lookup counts as no membership.
LoadMemberFails(c) ==
  /\ req[c].pc = "member" /\ req[c].op = "get_team"
  /\ Goto(c, "decide")
  /\ OnlyRequest

\* Loads the grants and decides.
Decide(c) ==
  LET r == req[c]
      ok == CASE r.op \in ImageOps -> Authorized(r, ImageResource(r.image),
                                        ImageAction(r.op, image[r.image], r.user))
              [] r.op = "upload" -> Authorized(r, Resource("image", NoImage, NoTeam, r.team),
                                               "create")
              [] r.op = "get_team" -> MaySeeTeam(r)
              [] OTHER -> MayAddMember(r)
  IN /\ r.pc = "decide"
     /\ CASE ~ok -> Answer(c, "refused")
          [] ok /\ r.op \in {"read", "list_acl"} -> Answer(c, "served")
          [] OTHER -> Goto(c, "apply")
     /\ OnlyRequest

\* An error of the database: the request ends in 500, its transaction rolls back.
Fail(c) ==
  /\ Running(c)
  /\ ~(req[c].pc = "member" /\ req[c].op = "get_team")
  /\ Error(c)
  /\ OnlyRequest

Finish(c) ==
  /\ req[c].pc \in {"served", "refused"}
  /\ req' = [req EXCEPT ![c] = Idle]
  /\ OnlyRequest

-----------------------------------------------------------------------------
(* Effects.                                                                *)

\* The row appears once the bytes are stored; the id is fresh.
ApplyUpload(c) ==
  /\ req[c].pc = "apply" /\ req[c].op = "upload"
  /\ req[c].team \in teams \cup {NoTeam}
  /\ \E i \in Images :
       /\ image[i].state = "none"
       /\ image' = [image EXCEPT ![i] = [state |-> "live", owner |-> req[c].user,
                                         team |-> req[c].team]]
  /\ Answer(c, "served")
  /\ Watch /\ UNCHANGED <<role, token, teams, members, acl, roots, changes>>

\* Soft delete; the grants stay.  An audit failure makes the answer a 500.
ApplyDelete(c) ==
  /\ req[c].pc = "apply" /\ req[c].op = "delete"
  /\ image' = [image EXCEPT ![req[c].image].state = "deleted"]
  /\ Answer(c, "served") \/ Error(c)
  /\ Watch /\ UNCHANGED <<role, token, teams, members, acl, roots, changes>>

\* 404 if the team was never created.
ApplyGetTeam(c) ==
  /\ req[c].pc = "apply" /\ req[c].op = "get_team"
  /\ Answer(c, IF req[c].team \in teams THEN "served" ELSE "refused")
  /\ OnlyRequest

\* Validates the role, then writes one row over any earlier one; the foreign
\* key refuses a team that does not exist.
ApplyAddMember(c) ==
  /\ req[c].pc = "apply" /\ req[c].op = "add_member"
  /\ \/ \E u \in Users, r \in ASSIGNABLE_TEAM_ROLES :
          /\ changes < MaxChanges /\ changes' = changes + 1
          /\ req[c].team \in teams
          /\ members' = [members EXCEPT ![req[c].team][u] = r]
          /\ Answer(c, "served")
     \/ Error(c) /\ UNCHANGED <<members, changes>>  \* unassignable role: 400
  /\ Watch /\ UNCHANGED <<role, token, teams, image, acl, roots>>

\* A DELETE on resource_acls starts: it locks the rows it sees and waits for
\* transactions that locked some of them before.
StartDelete(c, rows) ==
  /\ req' = [req EXCEPT ![c].pc = "delete", ![c].seen = rows,
       ![c].behind = {d \in Clients \ {c} : /\ req[d].pc = "delete"
                                            /\ req[d].image = req[c].image
                                            /\ req[d].seen \cap rows # {}}]
  /\ OnlyRequest

Parses(body) == \A n \in DOMAIN body : body_to_grant(body[n]) # None
Written(body) == {grant_to_cols(body_to_grant(body[n])) : n \in DOMAIN body}

\* A body that does not parse is a 400 before the transaction.
StartReplace(c) ==
  /\ req[c].pc = "apply" /\ req[c].op = "replace_acl"
  /\ \/ (\E body \in Bodies : Parses(body)) /\ StartDelete(c, acl[req[c].image])
     \/ (\E body \in Bodies : ~Parses(body)) /\ Error(c) /\ OnlyRequest

StartRevoke(c) ==
  /\ req[c].pc = "apply" /\ req[c].op = "revoke_acl"
  /\ \E s \in AclSubject :
       StartDelete(c, {row \in acl[req[c].image] : <<row[1], row[2]>> = subject_to_cols(s)})

\* The INSERTs and the commit; a row that is there already, or twice in the
\* body, fails on the unique constraint and rolls back.
replace_grants(c) ==
  LET i == req[c].image
      kept == acl[i] \ req[c].seen
      Twice(body) == \E m, n \in DOMAIN body : m # n /\ body[m] = body[n]
  IN /\ req[c].pc = "delete" /\ req[c].op = "replace_acl" /\ req[c].behind = {}
     /\ \E body \in {b \in Bodies : Parses(b)} :
          \/ /\ Twice(body) \/ Written(body) \cap kept # {}
             /\ Error(c) /\ UNCHANGED acl
          \/ /\ ~Twice(body) /\ Written(body) \cap kept = {}
             /\ Answer(c, "served") /\ acl' = [acl EXCEPT ![i] = kept \cup Written(body)]
     /\ Watch /\ UNCHANGED <<role, token, teams, members, image, roots, changes>>

revoke(c) ==
  /\ req[c].pc = "delete" /\ req[c].op = "revoke_acl" /\ req[c].behind = {}
  /\ acl' = [acl EXCEPT ![req[c].image] = @ \ req[c].seen]
  /\ Answer(c, "served")
  /\ Watch /\ UNCHANGED <<role, token, teams, members, image, roots, changes>>

-----------------------------------------------------------------------------
(* Logins, administration, the command line.                               *)

Change == changes < MaxChanges /\ changes' = changes + 1

\* A token carries the role of the moment it is issued.
issue_session(u) ==
  /\ token' = [token EXCEPT ![u] = role[u]]
  /\ roots' = IF role[u] \in Bosses THEN roots \cup {"boss"} ELSE roots
  /\ UNCHANGED req /\ Watch /\ UNCHANGED <<role, teams, members, image, acl, changes>>

\* Any user may create a team, and is not a member of it.
create(t) ==
  /\ t \notin teams
  /\ teams' = teams \cup {t}
  /\ UNCHANGED req /\ Watch /\ UNCHANGED <<role, token, members, image, acl, roots, changes>>

MaySetRole(r) == check_roles({r}, "user", "admin")

set_role(admin, u, r) ==
  /\ Change
  /\ MaySetRole(token[admin])
  /\ role' = [role EXCEPT ![u] = r]
  /\ UNCHANGED req /\ Watch /\ UNCHANGED <<token, teams, members, image, acl, roots>>

user_set_role(u, r) ==
  /\ Change
  /\ role' = [role EXCEPT ![u] = r]
  /\ roots' = roots \cup {"cli"}
  /\ UNCHANGED req /\ Watch /\ UNCHANGED <<token, teams, members, image, acl>>

team_create(t) ==
  /\ t \notin teams
  /\ teams' = teams \cup {t}
  /\ UNCHANGED req /\ Watch /\ UNCHANGED <<role, token, members, image, acl, roots, changes>>

\* The command line assigns any role, `admin' included.
team_add_member(t, u, r) ==
  /\ Change /\ t \in teams
  /\ members' = [members EXCEPT ![t][u] = r]
  /\ roots' = roots \cup {"cli"}
  /\ UNCHANGED req /\ Watch /\ UNCHANGED <<role, token, teams, image, acl>>

Next ==
  \/ \E c \in Clients, i \in Images :
       \/ get(c, i) \/ link(c, i) \/ file(c, i) \/ delete(c, i)
       \/ list_acl(c, i) \/ replace_acl(c, i) \/ revoke_acl(c, i)
  \/ \E c \in Clients :
       \/ \E t \in Teams \cup {NoTeam} : upload(c, t)
       \/ \E t \in Teams : get_team(c, t) \/ list_members(c, t) \/ add_member(c, t)
  \/ \E c \in Clients :
       \/ LoadImage(c) \/ LoadMember(c) \/ LoadMemberFails(c) \/ Decide(c) \/ Fail(c)
       \/ Finish(c) \/ ApplyUpload(c) \/ ApplyDelete(c) \/ ApplyGetTeam(c)
       \/ ApplyAddMember(c) \/ StartReplace(c) \/ StartRevoke(c) \/ replace_grants(c)
       \/ revoke(c)
  \/ \E u \in Users :
       \/ issue_session(u)
       \/ \E admin \in Users, r \in SetRoles : set_role(admin, u, r)
       \/ \E r \in SetRoles : user_set_role(u, r)
       \/ \E t \in Teams, r \in SetRoles : team_add_member(t, u, r)
  \/ \E t \in Teams : create(t) \/ team_create(t)

Spec == Init /\ [][Next]_vars

-----------------------------------------------------------------------------
(* Properties.                                                             *)

TypeOK ==
  /\ role \in [Users -> Roles] /\ token \in [Users -> Roles]
  /\ teams \subseteq Teams /\ members \in [Teams -> [Users -> Roles \cup {NoRole}]]
  /\ image \in [Images -> ImageRow] /\ acl \in [Images -> SUBSET GrantRow]
  /\ req \in [Clients -> Request]
  /\ watch \in [Clients -> [for: BOOLEAN, against: BOOLEAN, steady: SUBSET Reasons]]
  /\ roots \subseteq {"boss", "cli"} /\ changes \in 0..MaxChanges

\* No request is served on an image that was gone, or under a deny that names
\* its caller or its caller's team, all the time it ran, whatever role,
\* ownership or grant speaks for it (RbacEngine::check, rule 1).
DenyHolds ==
  \A c \in Clients : req[c].pc \in {"apply", "delete", "served"} 
    => watch[c].steady \cap Against = {}

\* Whoever is served had, at some moment of the request, ownership, a role in
\* the image's team, a grant or a global role that reaches this far: the
\* separate reads of a handler never add up to a right nobody gave.
EveryAccessJustified ==
  \A c \in Clients : req[c].pc \in {"apply", "delete", "served"} 
    => watch[c].for

\* A right that stands for the whole request, with nothing against it, is
\* honoured: races on other rows never turn it into a refusal.
SteadyRightIsServed ==
  \A c \in Clients :
    req[c].pc = "refused" /\ req[c].op \notin TeamOps
      => watch[c].against \/ watch[c].steady \cap For = {}

\* With only viewers and uploaders logged in and no use of the command line,
\* creating teams, uploading and sharing never yields a seat in any team.
AuthorityHasARoot ==
  roots = {} => \A t \in Teams, u \in Users : members[t][u] = NoRole

\* The team role `admin' is never handed out through the API, not even by
\* chains of managers who promote each other (ASSIGNABLE_TEAM_ROLES).
TeamAdminOnlyByCli ==
  "cli" \notin roots => \A t \in Teams, u \in Users : members[t][u] # "admin"

\* Every stored grant comes back from GET as the body that PUT accepts for
\* it, so re-PUTting what GET returned changes nothing.
GrantsRoundTrip ==
  \A i \in Images : \A row \in acl[i] :
    LET sent == grant_to_body(grant_from_cols(row))
    IN grant_to_cols(body_to_grant(sent)) = row

\* PUT replaces the full grant set: what an image carries is, but for revoked
\* subjects, the list of one PUT.
PutReplacesWholeSet ==
  \A i \in Images :
    acl[i] # {} => \E body \in Bodies : Parses(body) /\ acl[i] \subseteq Written(body)

\* A grant to a team reaches every member of the team.
TeamGrantsReachMembers ==
  \A c \in Clients :
    req[c].pc = "refused" /\ "otherteam" \in watch[c].steady => watch[c].against
=============================================================================
