-------------------------- MODULE MCAccessControl --------------------------
EXTENDS AccessControl, TLC

CONSTANTS u1, u2, t1, c1, c2

\* An uploader and a viewer, or an administrator and an uploader.
MCInitialRoles == {u1 :> "uploader" @@ u2 :> "viewer", u1 :> "admin" @@ u2 :> "uploader"}
MCBodies ==
  {<<GrantBody("user", u2, "read", "deny"), GrantBody("team", t1, "update", "allow")>>,
   <<GrantBody("user", u2, "admin", "allow"), GrantBody("user", u1, "update", "deny")>>,
   <<GrantBody("user", u2, "update", "grant")>>}
MCUserOf == c1 :> u1 @@ c2 :> u2
MCOpsOf == c1 :> {"upload", "replace_acl", "add_member"}
             @@ c2 :> {"read", "delete", "list_acl", "revoke_acl", "get_team"}
=============================================================================
