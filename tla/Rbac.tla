-------------------------------- MODULE Rbac --------------------------------
(***************************************************************************)
(* The permission engine: what a role may do, and the order in which       *)
(* explicit denials, ownership, team membership, grants and global roles   *)
(* decide a request.  Pure operators, shared by the access-control model.  *)
(***************************************************************************)
EXTENDS Naturals

CONSTANTS Users, Teams, NoUser, NoTeam, NoRole

Roles == {"viewer", "uploader", "manager", "admin"}
Actions == {"read", "create", "update", "delete", "admin"}

ASSUME RbacAssumption ==
  NoUser \notin Users /\ NoTeam \notin Teams /\ NoRole \notin Roles /\ NoUser # NoTeam

Permission(type, action) == <<type, action>>

\* The engine's table of default permissions.
default_permissions(role) ==
  LET On(type, actions) == {Permission(type, a) : a \in actions}
  IN CASE role = "viewer"   -> On("image", {"read"})
       [] role = "uploader" -> On("image", {"read", "create"})
       [] role = "manager"  -> On("image", {"read", "create", "update", "delete"})
                                 \cup On("team", {"read", "update"})
       [] role = "admin"    -> On("image", {"read", "create", "update", "delete"})
                                 \cup On("team", {"read", "update", "delete"})
                                 \cup On("audit", {"read"})
                                 \cup {Permission(t, "admin") : t \in {"user", "storage_policy", "system"}}
       [] OTHER             -> {}

\* The same table, kept a second time in the domain crate.
DomainPermissions(role) ==
  LET viewer == {Permission("image", "read")}
      uploader == viewer \cup {Permission("image", "create")}
      manager == uploader \cup {Permission("image", "update"), Permission("image", "delete"),
                                Permission("team", "read"), Permission("team", "update")}
      admin == manager \cup {Permission("team", "delete"), Permission("user", "admin"),
                             Permission("audit", "read"), Permission("storage_policy", "admin"),
                             Permission("system", "admin")}
  IN CASE role = "viewer" -> viewer [] role = "uploader" -> uploader
       [] role = "manager" -> manager [] role = "admin" -> admin [] OTHER -> {}

\* A resource; a team is its own scope, an image carries its team, if any.
Resource(type, id, owner, team) == [type |-> type, id |-> id, owner |-> owner, team |-> team]
team_scope(resource) == IF resource.type = "team" THEN resource.id ELSE resource.team

\* teamRoles is a partial map: its domain is the teams whose role was loaded.
Actor(user, roles, teamRoles) == [user |-> user, roles |-> roles, teamRoles |-> teamRoles]

AclSubject == [kind: {"user"}, id: Users] \cup [kind: {"team"}, id: Teams]
AclRule == [subject: AclSubject, action: Actions, effect: {"allow", "deny"}]

rule_applies(rule, actor) ==
  \/ rule.subject.kind = "user" /\ rule.subject.id = actor.user
  \/ rule.subject.kind = "team" /\ rule.subject.id \in DOMAIN actor.teamRoles

\* An `admin' rule is a wildcard.
rule_covers(rule, action) == rule.action \in {action, "admin"}

Matches(rules, effect, actor, action) ==
  \E g \in rules : g.effect = effect /\ rule_applies(g, actor) /\ rule_covers(g, action)

\* Rule 5: an image inside a team is out of reach of global roles but admin's.
GlobalOkEverywhere(actor, resource, action) ==
  \/ "admin" \in actor.roles
  \/ \E r \in actor.roles : Permission(resource.type, action) \in default_permissions(r)
GlobalOk(actor, resource, action) ==
  \/ "admin" \in actor.roles
  \/ /\ resource.type = "team" \/ resource.team = NoTeam
     /\ \E r \in actor.roles : Permission(resource.type, action) \in default_permissions(r)

CheckOwnerFirst(actor, resource, action, rules) ==
  \/ resource.owner = actor.user
  \/ /\ ~Matches(rules, "deny", actor, action)
     /\ \/ /\ team_scope(resource) \in DOMAIN actor.teamRoles
           /\ Permission(resource.type, action)
                \in default_permissions(actor.teamRoles[team_scope(resource)])
        \/ Matches(rules, "allow", actor, action)
        \/ GlobalOk(actor, resource, action)
CheckNoGrants(actor, resource, action, rules) ==
  /\ ~Matches(rules, "deny", actor, action)
  /\ \/ resource.owner = actor.user
     \/ /\ team_scope(resource) \in DOMAIN actor.teamRoles
        /\ Permission(resource.type, action)
             \in default_permissions(actor.teamRoles[team_scope(resource)])
     \/ GlobalOk(actor, resource, action)
\* TRUE is Decision::Allow.
check(actor, resource, action, rules) ==
  /\ ~Matches(rules, "deny", actor, action)
  /\ \/ resource.owner = actor.user
     \/ /\ team_scope(resource) \in DOMAIN actor.teamRoles
        /\ Permission(resource.type, action)
             \in default_permissions(actor.teamRoles[team_scope(resource)])
     \/ Matches(rules, "allow", actor, action)
     \/ GlobalOk(actor, resource, action)

\* The route-level check: global roles alone, no resource and no rules.
check_roles(roles, type, action) ==
  check(Actor(NoUser, roles, <<>>), Resource(type, NoTeam, NoTeam, NoTeam), action, {})
=============================================================================
