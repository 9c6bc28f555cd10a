------------------------------ MODULE Sessions ------------------------------
(***************************************************************************)
(* Accounts, logins and revocable sessions.                                *)
(*                                                                         *)
(* A login (password or OIDC callback) reads the account, checks that it   *)
(* is enabled, then creates a `sessions' row and issues a token bound to   *)
(* it; a request is accepted while that row is neither revoked nor         *)
(* expired.  Disabling an account over the API sets the flag and then      *)
(* revokes the sessions of the account, two statements of two tables; the  *)
(* command line only sets the flag.  Logins and administrators interleave  *)
(* between their statements.                                               *)
(*                                                                         *)
(* A login attempt stands for its session id (a fresh Uuid::now_v7).       *)
(* Roles, the rate limiter and the audit events of these handlers are left *)
(* to other components.                                                    *)
(***************************************************************************)
EXTENDS Naturals

CONSTANTS
  Users, Emails,
  Identities,       \* (provider, subject) pairs
  Logins, Admins,   \* login attempts; admin requests in progress at a time
  MaxFaults,        \* bound on failed writes
  NoUser, NoEmail, NoIdentity

ASSUME SessionsAssumption ==
  /\ MaxFaults \in Nat
  /\ NoUser \notin Users /\ NoEmail \notin Emails /\ NoIdentity \notin Identities

VARIABLES
  users,       \* the users table with its oidc_links
  login,       \* the login handlers
  sessions,    \* the sessions table, "none" if the row does not exist
  admin,       \* disable requests between their two statements
  uncascaded,  \* history: accounts disabled and not swept since
  faults

vars == <<users, login, sessions, admin, uncascaded, faults>>

User == [exists: BOOLEAN, disabled: BOOLEAN,
         email: Emails \cup {NoEmail}, identity: Identities \cup {NoIdentity}]

\* `overtaken' is history: the account was disabled between the lookup and the
\* creation of the session.
Login == [pc: {"idle", "create", "found", "bound", "issued", "refused"},
          user: Users \cup {NoUser}, email: Emails \cup {NoEmail},
          identity: Identities \cup {NoIdentity}, overtaken: BOOLEAN]

Absent == [exists |-> FALSE, disabled |-> FALSE, email |-> NoEmail, identity |-> NoIdentity]

Init ==
  /\ users = [u \in Users |-> Absent]
  /\ login = [s \in Logins |-> [pc |-> "idle", user |-> NoUser, email |-> NoEmail,
                                identity |-> NoIdentity, overtaken |-> FALSE]]
  /\ sessions = [s \in Logins |-> "none"]
  /\ admin = [a \in Admins |-> NoUser]
  /\ uncascaded = {}
  /\ faults = 0

Fault == faults < MaxFaults /\ faults' = faults + 1

-----------------------------------------------------------------------------
(* Accounts.                                                               *)

\* users.email is UNIQUE, (provider, subject) the primary key of oidc_links.
MayCreateUnchecked(e, x) == TRUE
MayCreate(e, x) ==
  \A u \in Users : users[u].exists =>
    users[u].email # e /\ (x # NoIdentity => users[u].identity # x)

Insert(u, e, x) ==
  /\ ~users[u].exists
  /\ users' = [users EXCEPT ![u] = [exists |-> TRUE, disabled |-> FALSE,
                                    email |-> e, identity |-> x]]

\* A password account, from the command line ...
user_create(u, e) ==
  /\ MayCreate(e, NoIdentity)
  /\ Insert(u, e, NoIdentity)

\* ... or by an administrator over the API, to the same effect.
CreateUser(u, e) ==
  /\ user_create(u, e)
  /\ UNCHANGED <<login, sessions, admin, uncascaded, faults>>

-----------------------------------------------------------------------------
(* POST /auth/login and the OIDC callback.                                 *)

At(s, pc) == login' = [login EXCEPT ![s].pc = pc]
Found(s, u) == login' = [login EXCEPT ![s].pc = "found", ![s].user = u]

MayLogIn(u) == users[u].exists /\ ~users[u].disabled

PasswordLogin(s, u) ==
  /\ login[s].pc = "idle"
  /\ users[u].identity = NoIdentity
  /\ MayLogIn(u)
  /\ Found(s, u)
  /\ UNCHANGED <<users, sessions, admin, uncascaded, faults>>

\* No such account, a disabled one, a wrong password or a failed query.
LoginRefused(s) ==
  /\ login[s].pc = "idle"
  /\ At(s, "refused")
  /\ UNCHANGED <<users, sessions, admin, uncascaded, faults>>

LinkedByEmail(u, x, e) == users[u].exists /\ users[u].email = e
Linked(u, x, e) == users[u].identity = x

\* The address is what the provider says on this occasion.
OidcCallback(s, x, e) ==
  LET After(pc, u) == login' = [login EXCEPT ![s] =
        [pc |-> pc, user |-> u, email |-> e, identity |-> x, overtaken |-> FALSE]]
  IN
  /\ login[s].pc = "idle"
  /\ \/ \E u \in Users : Linked(u, x, e) /\ After(IF MayLogIn(u) THEN "found" ELSE "refused", u)
     \/ (\A u \in Users : ~Linked(u, x, e)) /\ After("create", NoUser)
  /\ UNCHANGED <<users, sessions, admin, uncascaded, faults>>

CreateOidcUser(s) ==
  /\ login[s].pc = "create"
  /\ MayCreate(login[s].email, login[s].identity)
  /\ \E u \in Users : Insert(u, login[s].email, login[s].identity) /\ Found(s, u)
  /\ UNCHANGED <<sessions, admin, uncascaded, faults>>

\* A constraint refuses the transaction (or Users, a bound, is exhausted).
CreateOidcUserRefused(s) ==
  /\ login[s].pc = "create"
  /\ ~MayCreate(login[s].email, login[s].identity) \/ \A u \in Users : users[u].exists
  /\ At(s, "refused")
  /\ UNCHANGED <<users, sessions, admin, uncascaded, faults>>

\* The transaction fails, or its commit does after taking effect.
CreateOidcUserFails(s) ==
  /\ login[s].pc = "create"
  /\ Fault
  /\ \/ UNCHANGED users
     \/ /\ MayCreate(login[s].email, login[s].identity)
        /\ \E u \in Users : Insert(u, login[s].email, login[s].identity)
  /\ At(s, "refused")
  /\ UNCHANGED <<sessions, admin, uncascaded>>

CreateSession(s) ==
  /\ login[s].pc = "found"
  /\ sessions' = [sessions EXCEPT ![s] = "live"]
  /\ At(s, "bound")
  /\ UNCHANGED <<users, admin, uncascaded, faults>>

CreateSessionFails(s) ==
  /\ login[s].pc = "found"
  /\ Fault
  /\ \/ sessions' = [sessions EXCEPT ![s] = "live"]
     \/ UNCHANGED sessions
  /\ At(s, "refused")
  /\ UNCHANGED <<users, admin, uncascaded>>

IssueToken(s) ==
  /\ login[s].pc = "bound"
  /\ At(s, "issued")
  /\ UNCHANGED <<users, sessions, admin, uncascaded, faults>>

-----------------------------------------------------------------------------
(* Requests with a token, logout, expiry.                                  *)

\* AuthUser: the signature holds and get_active finds the session.
AcceptedPastExpiry(s) == login[s].pc = "issued" /\ sessions[s] \in {"live", "expired"}
Accepted(s) == login[s].pc = "issued" /\ sessions[s] = "live"

Logout(s) ==
  /\ Accepted(s)
  /\ sessions' = [sessions EXCEPT ![s] = "revoked"]
  /\ UNCHANGED <<users, login, admin, uncascaded, faults>>

Expire(s) ==
  /\ sessions[s] = "live"
  /\ sessions' = [sessions EXCEPT ![s] = "expired"]
  /\ UNCHANGED <<users, login, admin, uncascaded, faults>>

-----------------------------------------------------------------------------
(* Disabling and enabling accounts.                                        *)

SetDisabled(u) ==
  /\ users[u].exists
  /\ users' = [users EXCEPT ![u].disabled = TRUE]
  /\ login' = [s \in Logins |->
                 IF login[s].pc = "found" /\ login[s].user = u
                 THEN [login[s] EXCEPT !.overtaken = TRUE] ELSE login[s]]

AdminDisable(a, u) ==
  /\ admin[a] = NoUser
  /\ SetDisabled(u)
  /\ admin' = [admin EXCEPT ![a] = u]
  /\ UNCHANGED <<sessions, uncascaded, faults>>

\* revoke_all_for_user
RevokeIssuedOnly(u) ==
  [s \in Logins |-> IF login[s].user = u /\ sessions[s] = "live" /\ login[s].pc = "issued"
                    THEN "revoked" ELSE sessions[s]]
RevokeAllForUser(u) ==
  [s \in Logins |-> IF login[s].user = u /\ sessions[s] = "live"
                    THEN "revoked" ELSE sessions[s]]

Cascade(a) ==
  /\ admin[a] # NoUser
  /\ sessions' = RevokeAllForUser(admin[a])
  /\ uncascaded' = uncascaded \ {admin[a]}
  /\ admin' = [admin EXCEPT ![a] = NoUser]
  /\ UNCHANGED <<users, login, faults>>

\* Logged, not fatal; a request that dies here leaves the same state.
CascadeFails(a) ==
  /\ admin[a] # NoUser
  /\ Fault
  /\ uncascaded' = uncascaded \cup {admin[a]}
  /\ admin' = [admin EXCEPT ![a] = NoUser]
  /\ UNCHANGED <<users, login, sessions>>

AdminEnable(u) ==
  /\ users[u].disabled
  /\ users' = [users EXCEPT ![u].disabled = FALSE]
  /\ UNCHANGED <<login, sessions, admin, uncascaded, faults>>

\* picroom admin user disable
CliDisable(u) ==
  /\ SetDisabled(u)
  /\ uncascaded' = uncascaded \cup {u}
  /\ UNCHANGED <<sessions, admin, faults>>

-----------------------------------------------------------------------------
LoginStep(s) == CreateOidcUser(s) \/ CreateOidcUserRefused(s) \/ CreateSession(s) \/ IssueToken(s)

Next ==
  \/ \E s \in Logins :
       \/ \E u \in Users : PasswordLogin(s, u)
       \/ \E x \in Identities, e \in Emails : OidcCallback(s, x, e)
       \/ LoginRefused(s) \/ LoginStep(s)
       \/ CreateOidcUserFails(s) \/ CreateSessionFails(s)
       \/ Logout(s) \/ Expire(s)
  \/ \E a \in Admins : (\E u \in Users : AdminDisable(a, u)) \/ Cascade(a) \/ CascadeFails(a)
  \/ \E u \in Users :
       AdminEnable(u) \/ CliDisable(u) \/ (\E e \in Emails : CreateUser(u, e))

Spec == Init /\ [][Next]_vars

\* Time passes: expires_at is a fixed instant.
Fairness == \A s \in Logins : WF_vars(Expire(s))

FairSpec == Spec /\ Fairness
-----------------------------------------------------------------------------
(* Properties.                                                             *)

\* Every variable has its declared type: the rows, handlers and histories of
\* auth.rs, admin.rs and repo.rs.
TypeOK ==
  /\ users \in [Users -> User]
  /\ login \in [Logins -> Login]
  /\ sessions \in [Logins -> {"none", "live", "revoked", "expired"}]
  /\ admin \in [Admins -> Users \cup {NoUser}]
  /\ uncascaded \subseteq Users
  /\ faults \in 0..MaxFaults

\* Two callbacks of one identity, or a callback and an administrator creating
\* the same address, never leave two accounts for it: find_by_external and
\* create_oidc_user are separate statements and only the constraints decide.
OneAccountPerIdentity ==
  \A u, v \in Users : users[u].exists /\ users[v].exists /\ u # v =>
    /\ users[u].email # users[v].email
    /\ users[u].identity # NoIdentity => users[u].identity # users[v].identity

\* A token issued by oidc_callback is for the account linked to the identity
\* that signed in, even if another account has the address the provider named.
TokenBelongsToItsIdentity ==
  \A s \in Logins : login[s].pc = "issued" =>
    users[login[s].user].exists /\ users[login[s].user].identity = login[s].identity

PendingCascade(u) == \E a \in Admins : admin[a] = u
Swept(u) == users[u].disabled /\ ~PendingCascade(u) /\ u \notin uncascaded

\* Once set_user_disabled has set the flag and its cascade has succeeded, the
\* tokens of the account are refused, whatever logins, enables and other
\* cascades interleave: the one exception is a login the flag overtook after
\* its lookup.
OnlyOvertakenLoginsSurviveDisable ==
  \A u \in Users : Swept(u) =>
    \A s \in Logins : Accepted(s) /\ login[s].user = u => login[s].overtaken

\* The same without the exception, as set_user_disabled's comment has it.
DisabledUserLockedOut ==
  \A u \in Users : Swept(u) => ~\E s \in Logins : Accepted(s) /\ login[s].user = u

\* An account that stays disabled ends up with no accepted token, even if the
\* cascade failed, never ran or was overtaken by a login: sessions expire.
StaysDisabledEndsOut ==
  \A u \in Users : <>[](users[u].disabled)
    => <>[](\A s \in Logins : login[s].user = u => ~Accepted(s))
=============================================================================
