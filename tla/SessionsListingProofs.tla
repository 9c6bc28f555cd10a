----------------------- MODULE SessionsListingProofs -----------------------
(***************************************************************************)
(* Two of the server's parts over its database.                            *)
(*                                                                         *)
(* Sessions, for every set of accounts, logins and administrators.         *)
(*                                                                         *)
(* Listings, for any rows, page sizes and creation times.  Their invariant *)
(* is that the cursor parts a listing in two: nothing shown lies beyond    *)
(* it, and what was there all along was shown or lies beyond it.           *)
(***************************************************************************)
EXTENDS Sessions, Listing, FiniteSetTheorems, TLAPS

\* A leaf is tried with Zenon; one that needs records or arithmetic cites SMT.
USE Zenon

-----------------------------------------------------------------------------
(* Sessions: the inductive invariant.                                      *)

\* An id no row uses is not disabled and linked to no identity.
AbsentIsClean ==
  \A u \in Users : ~users[u].exists => ~users[u].disabled /\ users[u].identity = NoIdentity

\* A handler past its lookup holds an account linked to its identity.
HoldsItsAccount ==
  \A s \in Logins :
    /\ login[s].pc \in {"found", "bound", "issued"} =>
         /\ login[s].user \in Users
         /\ users[login[s].user].exists
         /\ users[login[s].user].identity = login[s].identity
    /\ login[s].pc = "idle" => login[s].identity = NoIdentity

\* A handler that has not created its session has none.
NoSessionYet ==
  \A s \in Logins : login[s].pc \in {"idle", "create", "found"} => sessions[s] = "none"

\* The account of a handler between lookup and session is enabled, or was
\* disabled meanwhile.
LookupSawEnabled ==
  \A s \in Logins : \A u \in Users :
    login[s].pc = "found" /\ login[s].user = u /\ users[u].disabled => login[s].overtaken

\* The sessions of a swept account that live on are those of overtaken logins.
SweptSessions ==
  \A u \in Users : Swept(u) =>
    \A s \in Logins : sessions[s] = "live" /\ login[s].user = u => login[s].overtaken

IInv ==
  /\ TypeOK
  /\ OneAccountPerIdentity
  /\ AbsentIsClean
  /\ HoldsItsAccount
  /\ NoSessionYet
  /\ LookupSawEnabled
  /\ SweptSessions

-----------------------------------------------------------------------------
(* Sessions: the initial state and the steps.                              *)

\* The empty tables satisfy the invariant.
LEMMA InitInv == Init => IInv
  BY SMT, SessionsAssumption
  DEF Init, IInv, TypeOK, User, Login, Absent, OneAccountPerIdentity, AbsentIsClean,
      HoldsItsAccount, NoSessionYet, LookupSawEnabled, SweptSessions, Swept

\* create_user and create_oidc_user insert a row that the unique constraints
\* admit, and touch no other.
LEMMA InsertKeepsAccounts ==
  ASSUME TypeOK, OneAccountPerIdentity, AbsentIsClean,
         NEW u \in Users, NEW e \in Emails \cup {NoEmail}, NEW x \in Identities \cup {NoIdentity},
         MayCreate(e, x), Insert(u, e, x)
  PROVE  /\ users' \in [Users -> User]
         /\ OneAccountPerIdentity'
         /\ AbsentIsClean'
         /\ ~users[u].exists /\ ~users'[u].disabled
         /\ users'[u].exists /\ users'[u].identity = x
         /\ \A v \in Users \ {u} : users'[v] = users[v]
<1>1. users' \in [Users -> User] /\ ~users[u].exists
  BY DEF TypeOK, User, Insert
<1>2. users'[u] = [exists |-> TRUE, disabled |-> FALSE, email |-> e, identity |-> x]
  BY DEF TypeOK, Insert
<1>3. \A v \in Users \ {u} : users'[v] = users[v]
  BY DEF TypeOK, Insert
<1>4. OneAccountPerIdentity'
  BY SMT, <1>1, <1>2, <1>3 DEF OneAccountPerIdentity, MayCreate
<1>5. AbsentIsClean'
  BY SMT, <1>1, <1>2, <1>3 DEF AbsentIsClean
<1> QED BY SMT, <1>1, <1>2, <1>3, <1>4, <1>5

\* The first statement of a login: it keeps the invariant because the account
\* it finds is enabled.
LEMMA LookupInv ==
  ASSUME IInv, NEW s \in Logins,
         \/ \E u \in Users : PasswordLogin(s, u)
         \/ \E x \in Identities, e \in Emails : OidcCallback(s, x, e)
         \/ LoginRefused(s)
  PROVE  IInv'
<1> USE SessionsAssumption
<1>1. CASE \E u \in Users : PasswordLogin(s, u)
  <2> PICK u \in Users : PasswordLogin(s, u)
    BY <1>1
  <2>1. /\ login \in [Logins -> Login] /\ login[s].pc = "idle" /\ sessions[s] = "none"
        /\ login' = [login EXCEPT ![s].pc = "found", ![s].user = u]
        /\ UNCHANGED <<users, sessions, admin, uncascaded, faults>>
        /\ users[u].identity = NoIdentity /\ users[u].exists /\ ~users[u].disabled
        /\ login[s].identity = NoIdentity
    BY DEF PasswordLogin, Found, MayLogIn, IInv, TypeOK, NoSessionYet, HoldsItsAccount
  <2>2. /\ login' \in [Logins -> Login]
        /\ login'[s].pc = "found" /\ login'[s].user = u /\ login'[s].identity = NoIdentity
        /\ \A r \in Logins \ {s} : login'[r] = login[r]
    BY ZenonT(40), <2>1 DEF Login
  <2> QED
    BY SMT, <2>1, <2>2 DEF IInv, TypeOK, OneAccountPerIdentity, AbsentIsClean, HoldsItsAccount,
       NoSessionYet, LookupSawEnabled, SweptSessions, Swept, PendingCascade
<1>2. CASE \E x \in Identities, e \in Emails : OidcCallback(s, x, e)
  <2> PICK x \in Identities, e \in Emails : OidcCallback(s, x, e)
    BY <1>2
  <2>1. /\ login \in [Logins -> Login] /\ login[s].pc = "idle" /\ sessions[s] = "none"
        /\ UNCHANGED <<users, sessions, admin, uncascaded, faults>>
    BY DEF OidcCallback, IInv, TypeOK, NoSessionYet
  <2>2. PICK pc \in {"found", "refused", "create"}, u \in Users \cup {NoUser} :
          /\ login' = [login EXCEPT ![s] = [pc |-> pc, user |-> u, email |-> e,
                                            identity |-> x, overtaken |-> FALSE]]
          /\ pc = "found" => /\ u \in Users /\ users[u].exists /\ ~users[u].disabled
                             /\ users[u].identity = x
    BY DEF OidcCallback, Linked, MayLogIn
  <2>3. /\ login' \in [Logins -> Login]
        /\ login'[s].pc = pc /\ login'[s].user = u /\ login'[s].identity = x
        /\ \A r \in Logins \ {s} : login'[r] = login[r]
    BY <2>1, <2>2 DEF Login
  <2> QED
    BY SMT, <2>1, <2>2, <2>3 DEF IInv, TypeOK, OneAccountPerIdentity, AbsentIsClean, HoldsItsAccount,
       NoSessionYet, LookupSawEnabled, SweptSessions, Swept, PendingCascade
<1>3. CASE LoginRefused(s)
  <2>1. /\ login \in [Logins -> Login] /\ login[s].pc = "idle" /\ sessions[s] = "none"
        /\ login' = [login EXCEPT ![s].pc = "refused"]
        /\ UNCHANGED <<users, sessions, admin, uncascaded, faults>>
    BY <1>3 DEF LoginRefused, At, IInv, TypeOK, NoSessionYet
  <2>2. /\ login' \in [Logins -> Login] /\ login'[s].pc = "refused"
        /\ \A r \in Logins \ {s} : login'[r] = login[r]
    BY <2>1 DEF Login
  <2> QED
    BY SMT, <2>1, <2>2 DEF IInv, TypeOK, OneAccountPerIdentity, AbsentIsClean, HoldsItsAccount,
       NoSessionYet, LookupSawEnabled, SweptSessions, Swept, PendingCascade
<1> QED BY <1>1, <1>2, <1>3

\* Creating an account, alone or in a login, keeps the invariant: the new row
\* is enabled and no handler held its id.
LEMMA AccountInv ==
  ASSUME IInv,
         \/ \E u \in Users, e \in Emails : CreateUser(u, e)
         \/ \E s \in Logins : CreateOidcUser(s) \/ CreateOidcUserRefused(s) \/ CreateOidcUserFails(s)
  PROVE  IInv'
<1> USE SessionsAssumption
<1>1. CASE \E u \in Users, e \in Emails : CreateUser(u, e)
  <2> PICK u \in Users, e \in Emails : CreateUser(u, e)
    BY <1>1
  <2>1. MayCreate(e, NoIdentity) /\ Insert(u, e, NoIdentity)
        /\ UNCHANGED <<login, sessions, admin, uncascaded, faults>>
    BY DEF CreateUser, user_create
  <2>2. /\ users' \in [Users -> User] /\ OneAccountPerIdentity' /\ AbsentIsClean'
        /\ ~users[u].exists /\ ~users'[u].disabled
        /\ \A v \in Users \ {u} : users'[v] = users[v]
    BY <2>1, InsertKeepsAccounts DEF IInv
  <2> QED
    BY SMT, <2>1, <2>2 DEF IInv, TypeOK, HoldsItsAccount, NoSessionYet, LookupSawEnabled,
       SweptSessions, Swept, PendingCascade
<1>2. ASSUME NEW s \in Logins, CreateOidcUser(s)
      PROVE  IInv'
  <2> DEFINE e == login[s].email
             x == login[s].identity
  <2>1. PICK u \in Users : Insert(u, e, x) /\ Found(s, u)
    BY <1>2 DEF CreateOidcUser
  <2>2. /\ login \in [Logins -> Login] /\ login[s].pc = "create" /\ sessions[s] = "none"
        /\ MayCreate(e, x) /\ UNCHANGED <<sessions, admin, uncascaded, faults>>
        /\ e \in Emails \cup {NoEmail} /\ x \in Identities \cup {NoIdentity}
    BY <1>2 DEF CreateOidcUser, IInv, TypeOK, NoSessionYet, Login
  <2>3. /\ users' \in [Users -> User] /\ OneAccountPerIdentity' /\ AbsentIsClean'
        /\ ~users[u].exists /\ ~users'[u].disabled
        /\ users'[u].exists /\ users'[u].identity = x
        /\ \A v \in Users \ {u} : users'[v] = users[v]
    BY <2>1, <2>2, InsertKeepsAccounts DEF IInv
  <2>4. /\ login' \in [Logins -> Login]
        /\ login'[s].pc = "found" /\ login'[s].user = u /\ login'[s].identity = x
        /\ \A r \in Logins \ {s} : login'[r] = login[r]
    BY ZenonT(40), <2>1, <2>2 DEF Login, Found
  <2> HIDE DEF e, x
  <2> QED
    BY SMT, <2>2, <2>3, <2>4 DEF IInv, TypeOK, HoldsItsAccount, NoSessionYet, LookupSawEnabled,
       SweptSessions, Swept, PendingCascade
<1>3. ASSUME NEW s \in Logins, CreateOidcUserRefused(s) \/ CreateOidcUserFails(s)
      PROVE  IInv'
  <2> DEFINE e == login[s].email
             x == login[s].identity
  <2>1. /\ login \in [Logins -> Login] /\ login[s].pc = "create" /\ sessions[s] = "none"
        /\ login' = [login EXCEPT ![s].pc = "refused"]
        /\ UNCHANGED <<sessions, admin, uncascaded>> /\ faults' \in 0..MaxFaults
        /\ e \in Emails \cup {NoEmail} /\ x \in Identities \cup {NoIdentity}
    BY SMT, <1>3 DEF CreateOidcUserRefused, CreateOidcUserFails, Fault, At, IInv, TypeOK,
       NoSessionYet, Login
  <2>2. /\ login' \in [Logins -> Login] /\ login'[s].pc = "refused"
        /\ \A r \in Logins \ {s} : login'[r] = login[r]
    BY SMT, <2>1 DEF Login
  <2>3. \/ UNCHANGED users
        \/ MayCreate(e, x) /\ \E u \in Users : Insert(u, e, x)
    BY <1>3 DEF CreateOidcUserRefused, CreateOidcUserFails
  <2>4. CASE UNCHANGED users
    BY SMT, <2>1, <2>2, <2>4 DEF IInv, TypeOK, OneAccountPerIdentity, AbsentIsClean, HoldsItsAccount,
       NoSessionYet, LookupSawEnabled, SweptSessions, Swept, PendingCascade
  <2>5. CASE MayCreate(e, x) /\ \E u \in Users : Insert(u, e, x)
    <3> PICK u \in Users : Insert(u, e, x)
      BY <2>5
    <3>1. /\ users' \in [Users -> User] /\ OneAccountPerIdentity' /\ AbsentIsClean'
          /\ ~users[u].exists /\ ~users'[u].disabled
          /\ \A v \in Users \ {u} : users'[v] = users[v]
      BY <2>1, <2>5, InsertKeepsAccounts DEF IInv
    <3> HIDE DEF e, x
    <3> QED
      BY SMT, <2>1, <2>2, <3>1 DEF IInv, TypeOK, HoldsItsAccount, NoSessionYet, LookupSawEnabled,
         SweptSessions, Swept, PendingCascade
  <2> QED BY <2>3, <2>4, <2>5
<1> QED BY <1>1, <1>2, <1>3

\* Creating a session, issuing its token, logging out and expiring keep the
\* invariant: a session created for a disabled account is an overtaken login's.
LEMMA SessionInv ==
  ASSUME IInv, NEW s \in Logins,
         \/ CreateSession(s) \/ CreateSessionFails(s) \/ IssueToken(s)
         \/ Logout(s) \/ Expire(s)
  PROVE  IInv'
<1> USE SessionsAssumption
<1>1. CASE CreateSession(s) \/ CreateSessionFails(s)
  <2>1. /\ login \in [Logins -> Login] /\ login[s].pc = "found"
        /\ sessions \in [Logins -> {"none", "live", "revoked", "expired"}]
        /\ UNCHANGED <<users, admin, uncascaded>> /\ faults' \in 0..MaxFaults
        /\ sessions' = [sessions EXCEPT ![s] = "live"] \/ sessions' = sessions
    BY SMT, <1>1 DEF CreateSession, CreateSessionFails, Fault, IInv, TypeOK
  <2>2. PICK pc \in {"bound", "refused"} : login' = [login EXCEPT ![s].pc = pc]
    BY <1>1 DEF CreateSession, CreateSessionFails, At
  <2>3. /\ login' \in [Logins -> Login] /\ login'[s].pc = pc
        /\ login'[s].user = login[s].user /\ login'[s].identity = login[s].identity
        /\ login'[s].overtaken = login[s].overtaken
        /\ \A r \in Logins \ {s} : login'[r] = login[r]
    BY SMT, <2>1, <2>2 DEF Login
  <2>4. /\ sessions' \in [Logins -> {"none", "live", "revoked", "expired"}]
        /\ \A r \in Logins \ {s} : sessions'[r] = sessions[r]
    BY <2>1
  <2> QED
    BY SMT, <2>1, <2>3, <2>4 DEF IInv, TypeOK, OneAccountPerIdentity, AbsentIsClean, HoldsItsAccount,
       NoSessionYet, LookupSawEnabled, SweptSessions, Swept, PendingCascade
<1>2. CASE IssueToken(s)
  <2>1. /\ login \in [Logins -> Login] /\ login[s].pc = "bound"
        /\ login' = [login EXCEPT ![s].pc = "issued"]
        /\ UNCHANGED <<users, sessions, admin, uncascaded, faults>>
    BY <1>2 DEF IssueToken, At, IInv, TypeOK
  <2>2. /\ login' \in [Logins -> Login] /\ login'[s].pc = "issued"
        /\ login'[s].user = login[s].user /\ login'[s].identity = login[s].identity
        /\ login'[s].overtaken = login[s].overtaken
        /\ \A r \in Logins \ {s} : login'[r] = login[r]
    BY <2>1 DEF Login
  <2> QED
    BY SMT, <2>1, <2>2 DEF IInv, TypeOK, OneAccountPerIdentity, AbsentIsClean, HoldsItsAccount,
       NoSessionYet, LookupSawEnabled, SweptSessions, Swept, PendingCascade
<1>3. CASE Logout(s) \/ Expire(s)
  <2>1. PICK st \in {"revoked", "expired"} : sessions' = [sessions EXCEPT ![s] = st]
    BY <1>3 DEF Logout, Expire
  <2>2. /\ sessions[s] = "live" /\ UNCHANGED <<users, login, admin, uncascaded, faults>>
    BY <1>3 DEF Logout, Expire, Accepted
  <2>3. /\ sessions' \in [Logins -> {"none", "live", "revoked", "expired"}]
        /\ sessions'[s] = st
        /\ \A r \in Logins \ {s} : sessions'[r] = sessions[r]
    BY <2>1 DEF IInv, TypeOK
  <2> QED
    BY SMT, <2>2, <2>3 DEF IInv, TypeOK, OneAccountPerIdentity, AbsentIsClean, HoldsItsAccount,
       NoSessionYet, LookupSawEnabled, SweptSessions, Swept, PendingCascade
<1> QED BY <1>1, <1>2, <1>3

\* Setting the flag changes nothing but the flag and the histories of the
\* logins it overtakes.
LEMMA SetDisabledFields ==
  ASSUME TypeOK, NEW u \in Users, SetDisabled(u)
  PROVE  /\ users' \in [Users -> User] /\ users[u].exists
         /\ \A v \in Users :
              /\ users'[v].exists = users[v].exists /\ users'[v].email = users[v].email
              /\ users'[v].identity = users[v].identity
              /\ v # u => users'[v] = users[v]
         /\ users'[u].disabled
         /\ login' \in [Logins -> Login]
         /\ \A s \in Logins :
              /\ login'[s].pc = login[s].pc /\ login'[s].user = login[s].user
              /\ login'[s].identity = login[s].identity
              /\ login[s].overtaken => login'[s].overtaken
              /\ login[s].pc = "found" /\ login[s].user = u => login'[s].overtaken
<1>1. /\ users \in [Users -> User] /\ users[u].exists
      /\ users' = [users EXCEPT ![u].disabled = TRUE]
      /\ login \in [Logins -> Login]
      /\ login' = [s \in Logins |->
                     IF login[s].pc = "found" /\ login[s].user = u
                     THEN [login[s] EXCEPT !.overtaken = TRUE] ELSE login[s]]
  BY DEF TypeOK, SetDisabled
<1>2. /\ users' \in [Users -> User] /\ users'[u].disabled
      /\ \A v \in Users :
           /\ users'[v].exists = users[v].exists /\ users'[v].email = users[v].email
           /\ users'[v].identity = users[v].identity
           /\ v # u => users'[v] = users[v]
  BY <1>1 DEF User
<1>3. ASSUME NEW s \in Logins
      PROVE  /\ login'[s] \in Login
             /\ login'[s].pc = login[s].pc /\ login'[s].user = login[s].user
             /\ login'[s].identity = login[s].identity
             /\ login[s].overtaken => login'[s].overtaken
             /\ login[s].pc = "found" /\ login[s].user = u => login'[s].overtaken
  <2>1. CASE login[s].pc = "found" /\ login[s].user = u
    <3>1. login'[s] = [login[s] EXCEPT !.overtaken = TRUE] /\ login[s] \in Login
      BY <1>1, <2>1
    <3> QED BY <3>1 DEF Login
  <2>2. CASE ~(login[s].pc = "found" /\ login[s].user = u)
    BY <1>1, <2>2
  <2> QED BY <2>1, <2>2
<1>4. login' \in [Logins -> Login]
  BY <1>1, <1>3
<1> QED BY <1>1, <1>2, <1>3, <1>4

\* Setting the flag keeps everything but the invariant on swept accounts, and
\* keeps that one for the other accounts.
LEMMA SetDisabledKeeps ==
  ASSUME IInv, NEW u \in Users, SetDisabled(u), sessions' = sessions
  PROVE  /\ users' \in [Users -> User] /\ login' \in [Logins -> Login]
         /\ OneAccountPerIdentity' /\ AbsentIsClean' /\ HoldsItsAccount'
         /\ NoSessionYet' /\ LookupSawEnabled'
         /\ \A v \in Users \ {u} : users'[v] = users[v]
         /\ \A s \in Logins : /\ login'[s].user = login[s].user
                              /\ login[s].overtaken => login'[s].overtaken
<1>1. /\ users' \in [Users -> User] /\ users[u].exists
      /\ \A v \in Users :
           /\ users'[v].exists = users[v].exists /\ users'[v].email = users[v].email
           /\ users'[v].identity = users[v].identity
           /\ v # u => users'[v] = users[v]
      /\ login' \in [Logins -> Login]
      /\ \A s \in Logins :
           /\ login'[s].pc = login[s].pc /\ login'[s].user = login[s].user
           /\ login'[s].identity = login[s].identity
           /\ login[s].overtaken => login'[s].overtaken
           /\ login[s].pc = "found" /\ login[s].user = u => login'[s].overtaken
  BY SetDisabledFields DEF IInv
<1>2. OneAccountPerIdentity'
  BY SMT, <1>1 DEF IInv, OneAccountPerIdentity
<1>3. AbsentIsClean'
  BY <1>1 DEF IInv, AbsentIsClean
<1>4. HoldsItsAccount'
  BY SMT, <1>1 DEF IInv, HoldsItsAccount
<1>5. NoSessionYet'
  BY <1>1 DEF IInv, NoSessionYet
<1>6. LookupSawEnabled'
  BY SMT, <1>1 DEF IInv, LookupSawEnabled
<1> QED BY <1>1, <1>2, <1>3, <1>4, <1>5, <1>6

\* Disabling over the API, its cascade and the failure of the cascade, enabling
\* and disabling on the command line keep the invariant: the flag overtakes the
\* logins past their lookup, and the cascade ends every other session.
LEMMA AdminInv ==
  ASSUME IInv,
         \/ \E a \in Admins : (\E u \in Users : AdminDisable(a, u)) \/ Cascade(a) \/ CascadeFails(a)
         \/ \E u \in Users : AdminEnable(u) \/ CliDisable(u)
  PROVE  IInv'
<1> USE SessionsAssumption
<1>1. ASSUME NEW a \in Admins, NEW u \in Users, AdminDisable(a, u)
      PROVE  IInv'
  <2>1. SetDisabled(u) /\ admin' = [admin EXCEPT ![a] = u]
        /\ UNCHANGED <<sessions, uncascaded, faults>> /\ admin[a] = NoUser
    BY <1>1 DEF AdminDisable
  <2>2. /\ admin' \in [Admins -> Users \cup {NoUser}] /\ admin'[a] = u
        /\ \A b \in Admins \ {a} : admin'[b] = admin[b]
    BY <2>1 DEF IInv, TypeOK
  <2>3. PendingCascade(u)' /\ \A v \in Users : PendingCascade(v) => PendingCascade(v)'
    BY <2>1, <2>2 DEF PendingCascade
  <2> QED
    BY SMT, <2>1, <2>2, <2>3, SetDisabledKeeps DEF IInv, TypeOK, SweptSessions, Swept
<1>2. ASSUME NEW a \in Admins, Cascade(a)
      PROVE  IInv'
  <2> DEFINE u == admin[a]
  <2>1. /\ u \in Users /\ UNCHANGED <<users, login, faults>>
        /\ uncascaded' = uncascaded \ {u} /\ admin' = [admin EXCEPT ![a] = NoUser]
        /\ sessions' = [s \in Logins |-> IF login[s].user = u /\ sessions[s] = "live"
                                         THEN "revoked" ELSE sessions[s]]
    BY <1>2 DEF Cascade, RevokeAllForUser, IInv, TypeOK
  <2>2. /\ admin' \in [Admins -> Users \cup {NoUser}]
        /\ \A v \in Users : v # u => (PendingCascade(v)' <=> PendingCascade(v))
    BY <2>1 DEF IInv, TypeOK, PendingCascade
  <2>3. /\ sessions' \in [Logins -> {"none", "live", "revoked", "expired"}]
        /\ \A s \in Logins : /\ sessions[s] = "none" => sessions'[s] = "none"
                             /\ sessions'[s] = "live" => sessions[s] = "live" /\ login[s].user # u
    BY <2>1 DEF IInv, TypeOK
  <2> HIDE DEF u
  <2> QED
    BY SMTT(30), <2>1, <2>2, <2>3 DEF IInv, TypeOK, OneAccountPerIdentity, AbsentIsClean,
       HoldsItsAccount, NoSessionYet, LookupSawEnabled, SweptSessions, Swept
<1>3. ASSUME NEW a \in Admins, CascadeFails(a)
      PROVE  IInv'
  <2> DEFINE u == admin[a]
  <2>1. /\ u \in Users /\ UNCHANGED <<users, login, sessions>> /\ faults' \in 0..MaxFaults
        /\ uncascaded' = uncascaded \cup {u} /\ admin' = [admin EXCEPT ![a] = NoUser]
    BY SMT, <1>3 DEF CascadeFails, Fault, IInv, TypeOK
  <2>2. /\ admin' \in [Admins -> Users \cup {NoUser}]
        /\ \A v \in Users : v # u => (PendingCascade(v)' <=> PendingCascade(v))
    BY <2>1 DEF IInv, TypeOK, PendingCascade
  <2> HIDE DEF u
  <2> QED
    BY <2>1, <2>2 DEF IInv, TypeOK, OneAccountPerIdentity, AbsentIsClean,
       HoldsItsAccount, NoSessionYet, LookupSawEnabled, SweptSessions, Swept
<1>4. ASSUME NEW u \in Users, AdminEnable(u)
      PROVE  IInv'
  <2>1. /\ users[u].disabled /\ users' = [users EXCEPT ![u].disabled = FALSE]
        /\ users \in [Users -> User]
        /\ UNCHANGED <<login, sessions, admin, uncascaded, faults>>
    BY <1>4 DEF AdminEnable, IInv, TypeOK
  <2>2. /\ users' \in [Users -> User]
        /\ \A v \in Users :
             /\ users'[v].exists = users[v].exists /\ users'[v].email = users[v].email
             /\ users'[v].identity = users[v].identity
             /\ users'[v].disabled => users[v].disabled
    BY <2>1 DEF User
  <2> QED
    BY SMT, <2>1, <2>2 DEF IInv, TypeOK, OneAccountPerIdentity, AbsentIsClean, HoldsItsAccount,
       NoSessionYet, LookupSawEnabled, SweptSessions, Swept, PendingCascade
<1>5. ASSUME NEW u \in Users, CliDisable(u)
      PROVE  IInv'
  <2>1. SetDisabled(u) /\ uncascaded' = uncascaded \cup {u}
        /\ UNCHANGED <<sessions, admin, faults>>
    BY <1>5 DEF CliDisable
  <2> QED
    BY SMT, <2>1, SetDisabledKeeps DEF IInv, TypeOK, SweptSessions, Swept, PendingCascade
<1> QED BY <1>1, <1>2, <1>3, <1>4, <1>5

-----------------------------------------------------------------------------
(* Sessions: the theorems.                                                 *)

\* Every step of every handler keeps the invariant.
THEOREM Invariance == Spec => []IInv
<1>1. IInv /\ [Next]_vars => IInv'
  <2> SUFFICES ASSUME IInv, [Next]_vars PROVE IInv'
    OBVIOUS
  <2>1. CASE UNCHANGED vars
    BY <2>1 DEF vars, IInv, TypeOK, OneAccountPerIdentity, AbsentIsClean, HoldsItsAccount,
       NoSessionYet, LookupSawEnabled, SweptSessions, Swept, PendingCascade
  <2>2. CASE Next
    BY <2>2, LookupInv, AccountInv, SessionInv, AdminInv DEF Next, LoginStep
  <2> QED BY <2>1, <2>2
<1> QED BY <1>1, InitInv, PTL DEF Spec

\* Every variable of the login, session and admin handlers keeps its type.
THEOREM TypeCorrect == Spec => []TypeOK
  BY Invariance, PTL DEF IInv

\* No interleaving of callbacks and administrators gives an identity or an
\* address two accounts.
THEOREM AccountsAreUnique == Spec => []OneAccountPerIdentity
  BY Invariance, PTL DEF IInv

\* oidc_callback issues tokens only for the account of its identity, and
\* password login only for an account without one.
THEOREM TokensBelong == Spec => []TokenBelongsToItsIdentity
<1>1. IInv => TokenBelongsToItsIdentity
  BY DEF IInv, HoldsItsAccount, TokenBelongsToItsIdentity
<1> QED BY <1>1, Invariance, PTL

\* After a disable whose cascade succeeded only overtaken logins hold a token
\* the AuthUser extractor accepts.
THEOREM DisableLocksOut == Spec => []OnlyOvertakenLoginsSurviveDisable
<1>1. IInv => OnlyOvertakenLoginsSurviveDisable
  BY DEF IInv, SweptSessions, OnlyOvertakenLoginsSurviveDisable, Accepted
<1> QED BY <1>1, Invariance, PTL

-----------------------------------------------------------------------------
(* Listings: answers to queries, and the pages they are cut into.          *)

\* The places of a sequence, and what stands there.
LEMMA Members ==
  ASSUME NEW S, NEW s \in Seq(S)
  PROVE  /\ Len(s) \in Nat /\ DOMAIN s = 1..Len(s)
         /\ \A i \in DOMAIN s : s[i] \in S
         /\ Range(s) \subseteq S
<1>1. Len(s) \in Nat /\ DOMAIN s = 1..Len(s) /\ \A i \in DOMAIN s : s[i] \in S
  BY SMT
<1> QED BY <1>1 DEF Range

\* A sequence over a set is one over a larger set.
LEMMA Wider ==
  ASSUME NEW S, NEW T, S \subseteq T, NEW s \in Seq(S)
  PROVE  s \in Seq(T)
<1>1. PICK n : n = Len(s)
  OBVIOUS
<1>2. n \in Nat /\ s \in [1..n -> T]
  BY SMT, <1>1
<1> QED BY SMT, <1>2

\* An answer to an ordered query holds every row once.
LEMMA Answer ==
  ASSUME NEW S, IsFiniteSet(S), NEW s \in Answers(S)
  PROVE  /\ s \in Seq(S) /\ IsInjective(s) /\ Range(s) = S
         /\ Len(s) \in Nat /\ DOMAIN s = 1..Len(s)
<1>1. PICK n : n = Cardinality(S)
  OBVIOUS
<1>2. n \in Nat /\ s \in Injection(1..n, S)
  BY <1>1, FS_CardinalityType DEF Answers
<1>3. s \in [1..n -> S] /\ IsInjective(s)
  BY <1>2 DEF Injection
<1>4. s \in Seq(S) /\ Len(s) = n /\ DOMAIN s = 1..n
  BY SMT, <1>2, <1>3
<1>5. IsFiniteSet(1..n) /\ Cardinality(1..n) = n
  BY SMT, <1>2, FS_Interval
<1>6. s \in Surjection(1..n, S)
  BY <1>1, <1>2, <1>5, FS_Injection
<1>7. Range(s) = S
  <2>1. \A x \in S : \E i \in 1..n : s[i] = x
    BY <1>6 DEF Surjection
  <2>2. \A i \in DOMAIN s : s[i] \in S
    BY <1>3, <1>4
  <2>3. \A x \in S : x \in Range(s)
    BY <1>4, <2>1 DEF Range
  <2>4. \A x \in Range(s) : x \in S
    BY <2>2 DEF Range
  <2> QED BY <2>3, <2>4
<1> QED
  BY <1>2, <1>3, <1>4, <1>7

\* The first rows of an answer: m of them, as many as there are up to n.
Starts(s, n, m, f, S) ==
  /\ f \in Seq(S) /\ Len(f) = m /\ DOMAIN f = 1..m
  /\ \A i \in 1..m : f[i] = s[i]
  /\ m \in Nat /\ m <= n /\ m <= Len(s)
  /\ Len(s) <= n => m = Len(s)
  /\ Len(s) >= n => m = n
  /\ IsInjective(s) => IsInjective(f)
  /\ Range(f) = {s[i] : i \in 1..m}
  /\ Len(s) <= n => Range(f) = Range(s)

\* FirstOf gives them.
LEMMA First ==
  ASSUME NEW S, NEW s \in Seq(S), NEW n \in Nat
  PROVE  Starts(s, n, Most(n, s), FirstOf(s, n), S)
<1>1. PICK m, f : m = Most(n, s) /\ f = FirstOf(s, n)
  OBVIOUS
<1>2. /\ m \in Nat /\ m <= n /\ m <= Len(s) /\ Len(s) \in Nat
      /\ Len(s) <= n => m = Len(s)
      /\ Len(s) >= n => m = n
  BY SMT, <1>1 DEF Most
<1>3. f = SubSeq(s, 1, m)
  BY <1>1 DEF FirstOf
<1>4. f \in Seq(S) /\ Len(f) = m /\ \A i \in 1..m : f[i] = s[i]
  BY SMT, <1>2, <1>3
<1>5. DOMAIN f = 1..m /\ DOMAIN s = 1..Len(s) /\ 1..m \subseteq 1..Len(s)
  BY SMT, <1>2, <1>4
<1>6. IsInjective(s) => IsInjective(f)
  BY <1>4, <1>5 DEF IsInjective
<1>7. Range(f) = {s[i] : i \in 1..m}
  BY <1>4, <1>5 DEF Range
<1>8. Len(s) <= n => Range(f) = Range(s)
  BY <1>2, <1>5, <1>7 DEF Range
<1> QED
  BY <1>1, <1>2, <1>4, <1>5, <1>6, <1>7, <1>8 DEF Starts

\* A page is added to what was shown.
Joins(s, t, u, S) ==
  /\ u \in Seq(S)
  /\ Range(u) = Range(s) \cup Range(t)
  /\ IsInjective(s) /\ IsInjective(t) /\ Range(s) \cap Range(t) = {} => IsInjective(u)

\* Joining two sequences joins their members, and repeats none if neither did.
LEMMA Joined ==
  ASSUME NEW S, NEW s \in Seq(S), NEW t \in Seq(S)
  PROVE  Joins(s, t, s \o t, S)
<1>1. PICK m, n, u : m = Len(s) /\ n = Len(t) /\ u = s \o t
  OBVIOUS
<1>2. m \in Nat /\ n \in Nat /\ DOMAIN s = 1..m /\ DOMAIN t = 1..n
  BY SMT, <1>1
<1>3. /\ u \in Seq(S) /\ Len(u) = m + n /\ DOMAIN u = 1..(m + n)
      /\ \A i \in 1..(m + n) : u[i] = IF i <= m THEN s[i] ELSE t[i - m]
  BY SMT, <1>1
<1>4. \A i \in 1..m : i \in DOMAIN u /\ u[i] = s[i]
  BY SMT, <1>2, <1>3
<1>5. \A i \in 1..n : i + m \in DOMAIN u /\ u[i + m] = t[i]
  BY SMT, <1>2, <1>3
<1>6. \A i \in DOMAIN u : (i \in 1..m /\ u[i] = s[i]) \/ (i - m \in 1..n /\ u[i] = t[i - m])
  BY SMT, <1>2, <1>3
<1>7. Range(u) = Range(s) \cup Range(t)
  <2>1. \A x \in Range(u) : x \in Range(s) \cup Range(t)
    BY <1>2, <1>6 DEF Range
  <2>2. \A x \in Range(s) : x \in Range(u)
    BY <1>2, <1>4 DEF Range
  <2>3. \A x \in Range(t) : x \in Range(u)
    BY <1>2, <1>5 DEF Range
  <2> QED BY <2>1, <2>2, <2>3
<1>8. ASSUME IsInjective(s), IsInjective(t), Range(s) \cap Range(t) = {}
      PROVE  IsInjective(u)
  <2> SUFFICES ASSUME NEW i \in DOMAIN u, NEW j \in DOMAIN u, u[i] = u[j] PROVE i = j
    BY DEF IsInjective
  <2>1. CASE i \in 1..m /\ u[i] = s[i] /\ j \in 1..m /\ u[j] = s[j]
    BY <1>2, <1>8, <2>1 DEF IsInjective
  <2>2. CASE i - m \in 1..n /\ u[i] = t[i - m] /\ j - m \in 1..n /\ u[j] = t[j - m]
    <3>1. i - m = j - m
      BY <1>2, <1>8, <2>2 DEF IsInjective
    <3> QED BY SMT, <3>1, <1>2, <1>3
  <2>3. CASE i \in 1..m /\ u[i] = s[i] /\ j - m \in 1..n /\ u[j] = t[j - m]
    BY <1>2, <1>8, <2>3 DEF Range
  <2>4. CASE j \in 1..m /\ u[j] = s[j] /\ i - m \in 1..n /\ u[i] = t[i - m]
    BY <1>2, <1>8, <2>4 DEF Range
  <2> QED BY <1>6, <2>1, <2>2, <2>3, <2>4
<1> QED
  BY <1>1, <1>3, <1>7, <1>8 DEF Joins

-----------------------------------------------------------------------------
(* Listings: the inductive invariant.                                      *)

Shown == Range(walk.got)

\* What the walk has still to come to: after its cursor, in the listing's order.
Beyond(id) ==
  walk.cursor # <<>> =>
    IF kind = "audit" THEN at[id] < walk.cursor[1]
    ELSE IF kind = "objects" THEN id > walk.cursor[1]
    ELSE Below(format_cursor(id), walk.cursor)

Places ==
  /\ kind \in {"images", "users", "teams", "members", "audit"} =>
       walk.pc \in {"idle", "page", "done"}
  /\ kind = "tail" => walk.pc \in {"idle", "poll", "tail", "done"}
  /\ kind = "objects" => walk.pc \in {"idle", "driver", "respond", "done"}

Owners ==
  walk.pc # "idle" =>
    /\ kind = "images" => walk.owner # "all"
    /\ kind = "teams" => walk.owner \in {"me", "all"}

Cursors ==
  walk.cursor # <<>> => walk.cursor[1] \in Nat /\ (kind # "objects" => walk.cursor[2] \in Nat)

Stable == \A id \in walk.stable : Present(id) /\ In(walk.owner, id)

\* The cursor parts the listing in two: nothing shown is beyond it, and what was
\* there all along is shown or beyond it.
Parted ==
  /\ \A id \in Shown : ~Beyond(id)
  /\ \A id \in walk.stable : id \in Shown \/ Beyond(id)

\* So does the driver's token, within the walk of the backend for one page.
Collected ==
  /\ IsInjective(walk.items)
  /\ walk.pc = "driver" =>
       /\ \A id \in Range(walk.items) : id <= walk.driver_token
       /\ \A id \in walk.stable : id <= walk.driver_token => id \in Range(walk.items)
  /\ walk.pc = "respond" => walk.stable \subseteq Range(walk.items)

Whole ==
  /\ IsInjective(walk.got)
  /\ walk.pc = "page" => Parted /\ \A id \in Shown : at[id] # 0
  /\ walk.pc \in {"driver", "respond"} => Parted /\ Collected
  /\ walk.pc \in {"idle", "poll"} => walk.got = <<>>
  /\ walk.pc \in {"done", "tail"} => walk.stable \subseteq Shown

ListingInv ==
  ListingTypeOK /\ Places /\ Owners /\ Cursors /\ Stable /\ (walk.whole => Whole)

-----------------------------------------------------------------------------
(* Listings: the steps.                                                    *)

\* The order of the cursor is a strict one.
LEMMA BelowOrder ==
  ASSUME NEW a \in Nat \X Nat, NEW b \in Nat \X Nat, NEW c \in Nat \X Nat
  PROVE  /\ ~Below(a, a)
         /\ Below(a, b) => ~Below(b, a)
         /\ Below(a, b) /\ Below(b, c) => Below(a, c)
BY SMT DEF Below

\* The parts of a walk's type that the proofs use.
LEMMA WalkTypes ==
  ASSUME ListingTypeOK
  PROVE  /\ walk \in Walks /\ walk.got \in Seq(Ids) /\ walk.items \in Seq(Ids)
         /\ walk.limit \in Nat /\ walk.limit >= 1 /\ walk.stable \subseteq Ids
         /\ walk.whole \in BOOLEAN /\ walk.cursor \in Seq(Nat) /\ walk.driver_token \in Nat
         /\ at \in [Ids -> Nat] /\ \A id \in Ids : id \in Nat /\ id > 0
<1>1. walk \in Walks
  BY DEF ListingTypeOK
<1>2. /\ walk.got \in Seq(Ids) /\ walk.items \in Seq(Ids) /\ walk.limit \in 1..Ceiling
      /\ walk.stable \subseteq Ids /\ walk.whole \in BOOLEAN /\ walk.cursor \in Seq(Nat)
      /\ walk.driver_token \in Ids \cup {0}
  BY <1>1 DEF Walks
<1>3. Ceiling \in Nat /\ \A id \in Ids : id \in Nat /\ id > 0
  BY SMT, ListingAssumption
<1>4. walk.limit \in Nat /\ walk.limit >= 1 /\ walk.driver_token \in Nat
  BY SMT, <1>2, <1>3
<1>5. at \in [Ids -> 0..MaxTime] /\ 0..MaxTime \subseteq Nat
  BY SMT, ListingAssumption DEF ListingTypeOK
<1> QED
  BY <1>1, <1>2, <1>3, <1>4, <1>5

\* Where a walk is tells what it walks.
LEMMA KindOf ==
  ASSUME ListingTypeOK, Places
  PROVE  /\ walk.pc \in {"driver", "respond"} => kind = "objects"
         /\ walk.pc \in {"poll", "tail"} => kind = "tail"
<1>1. kind \in {"images", "users", "teams", "members", "audit", "tail", "objects"}
  BY ListingAssumption DEF ListingTypeOK
<1> QED BY <1>1 DEF Places

\* What a page of an answer to a query shows, and what it leaves.
CutTo(S, rows, n, items) ==
  /\ rows \in Seq(Ids) /\ Len(rows) \in Nat /\ DOMAIN rows = 1..Len(rows) /\ Range(rows) = S
  /\ items \in Seq(Ids) /\ IsInjective(items) /\ Range(items) \subseteq S
  /\ Len(items) = Most(n, rows)
  /\ Len(rows) <= n => Range(items) = S
  /\ Len(rows) >= n =>
       /\ items[n] = rows[n] /\ rows[n] \in S /\ n \in DOMAIN rows
       /\ \A id \in Range(items) : id = rows[n] \/ \E i \in DOMAIN rows : i < n /\ id = rows[i]
       /\ \A id \in S \ Range(items) : \E i \in DOMAIN rows : n < i /\ id = rows[i]

\* The first of rows that do not repeat are such a page.
LEMMA CutRows ==
  ASSUME NEW S \in SUBSET Ids, NEW rows \in Seq(S), IsInjective(rows), Range(rows) = S,
         NEW n \in Nat, n >= 1
  PROVE  CutTo(S, rows, n, FirstOf(rows, n))
<1>1. /\ rows \in Seq(S) /\ IsInjective(rows) /\ Range(rows) = S
      /\ Len(rows) \in Nat /\ DOMAIN rows = 1..Len(rows)
  BY Members
<1>2. PICK f, m : f = FirstOf(rows, n) /\ m = Most(n, rows)
  OBVIOUS
<1>3. /\ f \in Seq(S) /\ Len(f) = m /\ DOMAIN f = 1..m
      /\ \A i \in 1..m : f[i] = rows[i]
      /\ m \in Nat /\ m <= n /\ m <= Len(rows)
      /\ Len(rows) <= n => m = Len(rows)
      /\ Len(rows) >= n => m = n
      /\ IsInjective(f)
      /\ Range(f) = {rows[i] : i \in 1..m}
      /\ Len(rows) <= n => Range(f) = Range(rows)
  <2>1. Starts(rows, n, m, f, S)
    BY <1>2, First
  <2> QED BY <1>1, <2>1 DEF Starts
<1>4. rows \in Seq(Ids) /\ f \in Seq(Ids)
  BY <1>1, <1>3, Wider
<1>5. Range(f) \subseteq S
  <2>1. m \in Nat /\ m <= Len(rows) /\ Len(rows) \in Nat /\ DOMAIN rows = 1..Len(rows)
    BY <1>1, <1>3
  <2>2. 1..m \subseteq DOMAIN rows
    BY SMT, <2>1
  <2> QED BY <1>1, <1>3, <2>2 DEF Range
<1>6. ASSUME Len(rows) >= n
      PROVE  /\ f[n] = rows[n] /\ rows[n] \in S
             /\ n \in DOMAIN rows
             /\ \A id \in Range(f) : id = rows[n] \/ \E i \in DOMAIN rows : i < n /\ id = rows[i]
             /\ \A id \in S \ Range(f) : \E i \in DOMAIN rows : n < i /\ id = rows[i]
  <2>1. m = n /\ n \in 1..m /\ n \in DOMAIN rows /\ 1..m \subseteq DOMAIN rows
    <3>1. m = n /\ m <= Len(rows) /\ Len(rows) \in Nat /\ DOMAIN rows = 1..Len(rows)
      BY <1>1, <1>3, <1>6
    <3> QED BY SMT, <3>1
  <2>2. \A i \in 1..m : i # n => i < n
    BY SMT, <2>1
  <2>3. \A i \in DOMAIN rows : i \notin 1..m => n < i
    BY SMT, <1>1, <2>1
  <2>4. f[n] = rows[n] /\ rows[n] \in S
    BY <1>1, <1>3, <2>1 DEF Range
  <2>5. \A id \in Range(f) : id = rows[n] \/ \E i \in DOMAIN rows : i < n /\ id = rows[i]
    BY <1>3, <2>1, <2>2
  <2>6. \A id \in S \ Range(f) : \E i \in DOMAIN rows : n < i /\ id = rows[i]
    <3> SUFFICES ASSUME NEW id \in S, id \notin Range(f)
                 PROVE  \E i \in DOMAIN rows : n < i /\ id = rows[i]
      OBVIOUS
    <3>1. PICK i \in DOMAIN rows : id = rows[i]
      BY <1>1 DEF Range
    <3>2. i \notin 1..m
      BY <1>3, <3>1
    <3> QED BY <2>3, <3>1, <3>2
  <2> QED BY <2>1, <2>4, <2>5, <2>6
<1> QED
  BY <1>1, <1>2, <1>3, <1>4, <1>5, <1>6 DEF CutTo

\* The first rows of an answer to a query are.
LEMMA PageOf ==
  ASSUME NEW S \in SUBSET Ids, NEW rows \in Answers(S), NEW n \in Nat, n >= 1
  PROVE  CutTo(S, rows, n, FirstOf(rows, n))
<1>1. IsFiniteSet(S)
  BY ListingAssumption, FS_Subset
<1>2. rows \in Seq(S) /\ IsInjective(rows) /\ Range(rows) = S
  BY <1>1, Answer
<1> QED BY <1>2, CutRows

\* The pairs a cursor is made of.
LEMMA CursorPair ==
  ASSUME ListingTypeOK, NEW id \in Ids
  PROVE  /\ format_cursor(id) \in Nat \X Nat /\ format_cursor(id) \in Seq(Nat)
         /\ format_cursor(id) # <<>>
         /\ format_cursor(id)[1] = at[id] /\ format_cursor(id)[2] = id
<1>1. id \in Nat /\ at[id] \in Nat
  BY WalkTypes
<1>2. PICK t : t = at[id]
  OBVIOUS
<1>3. /\ <<t, id>> \in Nat \X Nat /\ <<t, id>> \in Seq(Nat) /\ <<t, id>> # <<>>
      /\ <<t, id>>[1] = t /\ <<t, id>>[2] = id
  BY SMT, <1>1, <1>2
<1> QED
  BY <1>2, <1>3 DEF format_cursor

\* The next page of images, users or teams: rows after the cursor, newest first.
LEMMA PageStep ==
  ASSUME ListingInv, kind \in {"images", "users", "teams"}, walk.pc = "page",
         NEW S \in SUBSET Ids, NEW rows \in NewestFirst(S), Page(rows),
         \A id \in S : Present(id) /\ AfterCursor(id),
         \A id \in walk.stable : AfterCursor(id) => id \in S
  PROVE  ListingInv'
<1>1. ListingTypeOK /\ Places /\ Owners /\ Cursors /\ Stable /\ (walk.whole => Whole)
  BY DEF ListingInv
<1>2. /\ walk \in Walks /\ walk.got \in Seq(Ids) /\ walk.limit \in Nat /\ walk.limit >= 1
      /\ walk.stable \subseteq Ids /\ walk.cursor \in Seq(Nat)
  BY <1>1, WalkTypes
<1>3. PICK n, items : n = walk.limit /\ items = FirstOf(rows, n)
  OBVIOUS
<1>4. /\ rows \in Answers(S)
      /\ \A i, j \in DOMAIN rows : i < j => Below(format_cursor(rows[j]), format_cursor(rows[i]))
  BY DEF NewestFirst
<1>5. CutTo(S, rows, n, items)
  BY <1>2, <1>3, <1>4, PageOf
<1>6. PICK more, g, c, p :
        /\ more = (Len(rows) > n)
        /\ g = walk.got \o items
        /\ c = (IF more THEN format_cursor(items[n]) ELSE walk.cursor)
        /\ p = IF more THEN "page" ELSE "done"
  OBVIOUS
<1>7. walk' = [walk EXCEPT !.got = g, !.cursor = c, !.pc = p]
  BY <1>3, <1>6 DEF Page
<1>8. UNCHANGED <<kind, at, deleted, changes>>
  BY DEF Page
<1>9. (more => Len(rows) >= n) /\ (~more => Len(rows) <= n)
  <2>1. n \in Nat /\ Len(rows) \in Nat
    BY <1>2, <1>3, <1>5 DEF CutTo
  <2>2. (Len(rows) > n => Len(rows) >= n) /\ (~(Len(rows) > n) => Len(rows) <= n)
    BY SMT, <2>1
  <2> QED BY <1>6, <2>2
<1>10. g \in Seq(Ids) /\ Range(g) = Shown \cup Range(items)
       /\ (IsInjective(walk.got) /\ Shown \cap Range(items) = {} => IsInjective(g))
  <2>1. items \in Seq(Ids) /\ IsInjective(items)
    BY <1>5 DEF CutTo
  <2>2. Joins(walk.got, items, g, Ids)
    BY <1>2, <1>6, <2>1, Joined
  <2> QED BY <2>1, <2>2 DEF Shown, Joins
<1>11. c \in Seq(Nat) /\ p \in {"page", "done"}
  BY <1>1, <1>2, <1>5, <1>6, <1>9, CursorPair DEF CutTo
<1>12. /\ walk' \in Walks /\ walk'.got = g /\ walk'.cursor = c /\ walk'.pc = p
       /\ walk'.owner = walk.owner /\ walk'.stable = walk.stable /\ walk'.whole = walk.whole
  <2>1. g \in Seq(Ids) /\ c \in Seq(Nat) /\ p \in {"page", "done"} /\ walk \in Walks
    BY <1>2, <1>10, <1>11
  <2> QED BY <1>7, <2>1 DEF Walks
<1>13. ListingTypeOK'
  BY <1>1, <1>8, <1>12 DEF ListingTypeOK
<1>14. Places' /\ Owners' /\ Stable'
  BY <1>1, <1>8, <1>11, <1>12 DEF Places, Owners, Stable, Present, In
<1>15. Cursors'
  <2>1. CASE more
    <3>1. items[n] \in Ids /\ c = format_cursor(items[n])
      BY <1>5, <1>6, <1>9, <2>1 DEF CutTo
    <3>2. c[1] \in Nat /\ c[2] \in Nat
      BY <1>1, <3>1, CursorPair, WalkTypes
    <3> QED BY <1>12, <3>2 DEF Cursors
  <2>2. CASE ~more
    BY <1>1, <1>6, <1>8, <1>12, <2>2 DEF Cursors
  <2> QED BY <2>1, <2>2
<1>16. ASSUME walk.whole PROVE Whole'
  <2>1. Whole /\ Parted /\ \A id \in Shown : at[id] # 0
    BY <1>1, <1>16 DEF Whole
  <2>2. \A id \in S : Beyond(id)
    BY DEF Beyond, AfterCursor
  <2>3. Shown \cap Range(items) = {}
    BY <1>5, <2>1, <2>2 DEF Parted, CutTo
  <2>4. IsInjective(walk'.got) /\ Shown' = Shown \cup Range(items)
    BY <1>10, <1>12, <2>1, <2>3 DEF Whole, Shown
  <2>5. \A id \in walk.stable : id \in Shown \cup S
    BY <2>1 DEF Parted, Beyond, AfterCursor
  <2>6. CASE ~more
    <3>1. p = "done" /\ walk.stable \subseteq Shown \cup Range(items)
      BY <1>5, <1>6, <1>9, <2>5, <2>6 DEF CutTo
    <3> QED BY <1>12, <2>4, <3>1 DEF Whole
  <2>7. CASE more
    <3>1. PICK last : last = rows[n]
      OBVIOUS
    <3>2. p = "page" /\ last \in S /\ last \in Ids /\ c = format_cursor(last) /\ n \in DOMAIN rows
      BY <1>5, <1>6, <1>9, <2>7, <3>1 DEF CutTo
    <3>3. c # <<>>
      BY <1>1, <3>2, CursorPair
    <3>4. \A id : Beyond(id)' <=> Below(format_cursor(id), format_cursor(last))
      BY <1>8, <1>12, <3>2, <3>3 DEF Beyond, format_cursor
    <3>5. ASSUME NEW id \in Range(items) PROVE ~Beyond(id)' /\ at[id] # 0
      <4>1. id \in S /\ id \in Ids
        BY <1>5 DEF CutTo
      <4>2. id = last \/ Below(format_cursor(last), format_cursor(id))
        BY <1>4, <1>5, <1>9, <2>7, <3>1, <3>2 DEF CutTo
      <4>3. ~Below(format_cursor(id), format_cursor(last))
        BY <1>1, <3>2, <4>1, <4>2, CursorPair, BelowOrder
      <4> QED BY <3>4, <4>1, <4>3 DEF Present
    <3>6. ASSUME NEW id \in S, id \notin Range(items) PROVE Beyond(id)'
      <4>1. Below(format_cursor(id), format_cursor(last))
        BY <1>4, <1>5, <1>9, <2>7, <3>1, <3>2, <3>6 DEF CutTo
      <4> QED BY <3>4, <4>1
    <3>7. ASSUME NEW id \in Shown PROVE ~Beyond(id)'
      <4>1. ~Beyond(id) /\ id \in Ids
        BY <1>2, <2>1, Members DEF Parted, Shown
      <4>2. walk.cursor # <<>> /\ ~Below(format_cursor(id), walk.cursor)
        BY <4>1 DEF Beyond
      <4>3. Below(format_cursor(last), walk.cursor)
        BY <3>2, <4>2 DEF AfterCursor
      <4>4. PICK a, b, d : a = format_cursor(id) /\ b = format_cursor(last) /\ d = walk.cursor
        OBVIOUS
      <4>5. a \in Nat \X Nat /\ b \in Nat \X Nat /\ d[1] \in Nat /\ d[2] \in Nat
        BY <1>1, <3>2, <4>1, <4>2, <4>4, CursorPair DEF Cursors
      <4>6. ~Below(a, b)
        BY SMT, <4>2, <4>3, <4>4, <4>5 DEF Below
      <4> QED BY <3>4, <4>4, <4>6
    <3>8. Parted'
      BY <1>12, <2>4, <2>5, <3>5, <3>6, <3>7 DEF Parted
    <3>9. \A id \in Shown' : at'[id] # 0
      BY <1>8, <2>1, <2>4, <3>5
    <3> QED BY <1>12, <2>4, <3>2, <3>8, <3>9 DEF Whole
  <2> QED BY <2>6, <2>7
<1> QED
  BY <1>12, <1>13, <1>14, <1>15, <1>16 DEF ListingInv

\* The listings that page by a cursor of time and id.
LEMMA PagesStep ==
  ASSUME ListingInv, list_for_owner \/ users_list \/ all_teams \/ list_for_user
  PROVE  ListingInv'
<1>1. Owners /\ Stable /\ walk.stable \subseteq Ids
  BY WalkTypes DEF ListingInv
<1>2. CASE list_for_owner
  <2>1. PICK S : S = {id \in Ids : Owner[id] = walk.owner /\ Present(id) /\ AfterCursor(id)}
    OBVIOUS
  <2>2. PICK rows \in NewestFirst(S) : Page(rows)
    BY <1>2, <2>1 DEF list_for_owner
  <2>3. walk.pc = "page" /\ kind = "images"
    BY <1>2 DEF list_for_owner
  <2>4. \A id \in walk.stable : AfterCursor(id) => id \in S
    BY <1>1, <2>1, <2>3 DEF Owners, Stable, In
  <2>5. S \in SUBSET Ids /\ \A id \in S : Present(id) /\ AfterCursor(id)
    BY <2>1
  <2> QED BY <2>2, <2>3, <2>4, <2>5, PageStep
<1>3. CASE users_list \/ all_teams
  <2>1. PICK S : S = {id \in Ids : Present(id) /\ AfterCursor(id)}
    OBVIOUS
  <2>2. PICK rows \in NewestFirst(S) : Page(rows)
    BY <1>3, <2>1 DEF users_list, all_teams
  <2>3. walk.pc = "page" /\ kind \in {"users", "teams"}
    BY <1>3 DEF users_list, all_teams
  <2>4. \A id \in walk.stable : AfterCursor(id) => id \in S
    BY <1>1, <2>1, <2>3 DEF Stable
  <2>5. S \in SUBSET Ids /\ \A id \in S : Present(id) /\ AfterCursor(id)
    BY <2>1
  <2> QED BY <2>2, <2>3, <2>4, <2>5, PageStep
<1>4. CASE list_for_user
  <2>1. PICK S : S = {id \in Ids : Owner[id] = "me" /\ Present(id) /\ AfterCursor(id)}
    OBVIOUS
  <2>2. PICK rows \in NewestFirst(S) : Page(rows)
    BY <1>4, <2>1 DEF list_for_user
  <2>3. walk.pc = "page" /\ kind = "teams" /\ walk.owner = "me"
    BY <1>4 DEF list_for_user
  <2>4. \A id \in walk.stable : AfterCursor(id) => id \in S
    BY <1>1, <2>1, <2>3 DEF Stable, In
  <2>5. S \in SUBSET Ids /\ \A id \in S : Present(id) /\ AfterCursor(id)
    BY <2>1
  <2> QED BY <2>2, <2>3, <2>4, <2>5, PageStep
<1> QED BY <1>2, <1>3, <1>4

\* The members of a team: one page and no cursor.
LEMMA MembersStep ==
  ASSUME ListingInv, list_members
  PROVE  ListingInv'
<1>1. ListingTypeOK /\ Places /\ Owners /\ Cursors /\ Stable /\ (walk.whole => Whole)
  BY DEF ListingInv
<1>2. walk \in Walks /\ walk.limit \in Nat /\ walk.limit >= 1 /\ walk.stable \subseteq Ids
  BY <1>1, WalkTypes
<1>3. PICK S : S = {id \in Ids : Present(id)}
  OBVIOUS
<1>4. PICK rows \in OldestFirst(S) :
        walk' = [walk EXCEPT !.got = FirstOf(rows, walk.limit),
                             !.whole = Len(rows) <= walk.limit, !.pc = "done"]
  BY <1>3 DEF list_members
<1>5. PICK items, w : items = FirstOf(rows, walk.limit) /\ w = (Len(rows) <= walk.limit)
  OBVIOUS
<1>6. CutTo(S, rows, walk.limit, items)
  <2>1. rows \in Answers(S) /\ S \in SUBSET Ids
    BY <1>3, <1>4 DEF OldestFirst
  <2> QED BY <1>2, <1>5, <2>1, PageOf
<1>7. w \in BOOLEAN /\ items \in Seq(Ids) /\ IsInjective(items) /\ (w => Range(items) = S)
  <2>1. (Len(rows) <= walk.limit) \in BOOLEAN
    BY SMT
  <2>2. w \in BOOLEAN /\ (w => Len(rows) <= walk.limit)
    BY <1>5, <2>1
  <2> QED BY <1>6, <2>2 DEF CutTo
<1>8. /\ walk' \in Walks /\ walk'.got = items /\ walk'.whole = w /\ walk'.pc = "done"
      /\ walk'.owner = walk.owner /\ walk'.stable = walk.stable /\ walk'.cursor = walk.cursor
  <2>1. walk' = [walk EXCEPT !.got = items, !.whole = w, !.pc = "done"]
    BY <1>4, <1>5
  <2> QED BY <1>2, <1>7, <2>1 DEF Walks
<1>9. UNCHANGED <<kind, at, deleted, changes>> /\ walk.pc = "page" /\ kind = "members"
  BY DEF list_members
<1>10. ListingTypeOK'
  BY <1>1, <1>8, <1>9 DEF ListingTypeOK
<1>11. Places' /\ Owners' /\ Cursors' /\ Stable'
  BY <1>1, <1>8, <1>9 DEF Places, Owners, Cursors, Stable, Present, In
<1>12. walk.stable \subseteq S
  BY <1>1, <1>2, <1>3 DEF Stable
<1>13. w => Whole'
  BY <1>7, <1>8, <1>12 DEF Whole, Shown
<1> QED
  BY <1>8, <1>10, <1>11, <1>13 DEF ListingInv

\* A page of the audit log.
LEMMA AuditStep ==
  ASSUME ListingInv, audit_list
  PROVE  ListingInv'
<1>1. ListingTypeOK /\ Places /\ Owners /\ Cursors /\ Stable /\ (walk.whole => Whole)
  BY DEF ListingInv
<1>2. /\ walk \in Walks /\ walk.got \in Seq(Ids) /\ walk.limit \in Nat /\ walk.limit >= 1
      /\ walk.stable \subseteq Ids /\ walk.cursor \in Seq(Nat) /\ walk.whole \in BOOLEAN
      /\ at \in [Ids -> Nat]
  BY <1>1, WalkTypes
<1>3. PICK S, n :
        /\ S = {id \in Ids : Present(id) /\ (walk.cursor # <<>> => at[id] < walk.cursor[1])}
        /\ n = walk.limit
  OBVIOUS
<1>4. PICK rows \in LatestFirst(S) :
        LET items == FirstOf(rows, n)
            last == items[n]
        IN walk' = IF Len(items) < n
                   THEN [walk EXCEPT !.got = @ \o items, !.pc = "done"]
                   ELSE [walk EXCEPT !.got = @ \o items, !.cursor = format_cursor(last),
                           !.whole = @ /\ \A i \in DOMAIN rows : i > n => at[rows[i]] # at[last]]
  BY <1>3 DEF audit_list
<1>5. UNCHANGED <<kind, at, deleted, changes>> /\ walk.pc = "page" /\ kind = "audit"
  BY DEF audit_list
<1>6. S \in SUBSET Ids /\ rows \in Answers(S)
      /\ \A i, j \in DOMAIN rows : i < j => at[rows[i]] >= at[rows[j]]
  BY <1>3, <1>4 DEF LatestFirst
<1>7. PICK items, last, g, w :
        /\ items = FirstOf(rows, n) /\ last = items[n] /\ g = walk.got \o items
        /\ w = (walk.whole /\ \A i \in DOMAIN rows : i > n => at[rows[i]] # at[last])
  OBVIOUS
<1>8. CutTo(S, rows, n, items)
  BY <1>2, <1>3, <1>6, <1>7, PageOf
<1>9. /\ Len(items) < n => Range(items) = S
      /\ ~(Len(items) < n) => Len(rows) >= n
  <2>1. Len(rows) \in Nat /\ n \in Nat /\ Len(items) = Most(n, rows)
    BY <1>2, <1>3, <1>8 DEF CutTo
  <2>2. (Len(items) < n => Len(rows) <= n) /\ (~(Len(items) < n) => Len(rows) >= n)
    BY SMT, <2>1 DEF Most
  <2> QED BY <1>8, <2>2 DEF CutTo
<1>10. /\ g \in Seq(Ids) /\ Range(g) = Shown \cup Range(items)
       /\ IsInjective(walk.got) /\ Shown \cap Range(items) = {} => IsInjective(g)
  <2>1. items \in Seq(Ids) /\ IsInjective(items)
    BY <1>8 DEF CutTo
  <2>2. Joins(walk.got, items, g, Ids)
    BY <1>2, <1>7, <2>1, Joined
  <2> QED BY <2>1, <2>2 DEF Shown, Joins
<1>11. walk.whole => Parted /\ IsInjective(walk.got) /\ \A id \in Shown : at[id] # 0
  BY <1>1, <1>5 DEF Whole
<1>12. \A id \in S : Beyond(id) /\ at[id] # 0
  BY <1>3, <1>5 DEF Beyond, Present
<1>13. walk.whole => Shown \cap Range(items) = {} /\ IsInjective(g)
  <2>1. Range(items) \subseteq S
    BY <1>8 DEF CutTo
  <2> QED BY <1>10, <1>11, <1>12, <2>1 DEF Parted
<1>14. walk.whole => \A id \in walk.stable : id \in Shown \cup S
  BY <1>1, <1>2, <1>3, <1>5, <1>11 DEF Parted, Beyond, Stable
<1>15. CASE Len(items) < n
  <2>1. walk' = [walk EXCEPT !.got = g, !.pc = "done"]
    BY <1>4, <1>7, <1>15
  <2>2. /\ walk' \in Walks /\ walk'.got = g /\ walk'.whole = walk.whole /\ walk'.pc = "done"
        /\ walk'.owner = walk.owner /\ walk'.stable = walk.stable /\ walk'.cursor = walk.cursor
    BY <1>2, <1>10, <2>1 DEF Walks
  <2>3. ListingTypeOK'
    BY <1>1, <1>5, <2>2 DEF ListingTypeOK
  <2>4. Places' /\ Owners' /\ Cursors' /\ Stable'
    BY <1>1, <1>5, <2>2 DEF Places, Owners, Cursors, Stable, Present, In
  <2>5. walk.whole => walk.stable \subseteq Range(g)
    BY <1>9, <1>10, <1>14, <1>15
  <2>6. walk.whole => Whole'
    BY <1>13, <2>2, <2>5 DEF Whole, Shown
  <2> QED BY <2>2, <2>3, <2>4, <2>6 DEF ListingInv
<1>16. CASE ~(Len(items) < n)
  <2>1. /\ last = rows[n] /\ last \in S /\ last \in Ids /\ n \in DOMAIN rows
        /\ \A id \in Range(items) : id = last \/ \E i \in DOMAIN rows : i < n /\ id = rows[i]
        /\ \A id \in S \ Range(items) : \E i \in DOMAIN rows : n < i /\ id = rows[i]
    BY <1>6, <1>7, <1>8, <1>9, <1>16 DEF CutTo
  <2>2. PICK c : c = format_cursor(last)
    OBVIOUS
  <2>3. c \in Seq(Nat) /\ c # <<>> /\ c[1] = at[last] /\ c[1] \in Nat /\ c[2] \in Nat
    BY <1>1, <2>1, <2>2, CursorPair, WalkTypes
  <2>4. w \in BOOLEAN /\ (w => walk.whole)
    BY <1>2, <1>7
  <2>5. walk' = [walk EXCEPT !.got = g, !.cursor = c, !.whole = w]
    BY <1>4, <1>7, <1>16, <2>2
  <2>6. /\ walk' \in Walks /\ walk'.got = g /\ walk'.whole = w /\ walk'.pc = "page"
        /\ walk'.owner = walk.owner /\ walk'.stable = walk.stable /\ walk'.cursor = c
    BY <1>2, <1>5, <1>10, <2>3, <2>4, <2>5 DEF Walks
  <2>7. ListingTypeOK'
    BY <1>1, <1>5, <2>6 DEF ListingTypeOK
  <2>8. Places' /\ Owners' /\ Cursors' /\ Stable'
    BY <1>1, <1>5, <2>3, <2>6 DEF Places, Owners, Cursors, Stable, Present, In
  <2>9. ASSUME w PROVE Whole'
    <3>1. walk.whole /\ \A i \in DOMAIN rows : i > n => at[rows[i]] # at[last]
      BY <1>7, <2>9
    <3>2. Shown' = Shown \cup Range(items) /\ IsInjective(walk'.got)
      BY <1>10, <1>13, <2>6, <3>1 DEF Shown
    <3>3. \A id : Beyond(id)' <=> at[id] < at[last]
      BY <1>5, <2>3, <2>6 DEF Beyond
    <3>4. ASSUME NEW id \in Range(items) PROVE ~(at[id] < at[last])
      <4>1. id = last \/ at[id] >= at[last]
        BY <1>6, <2>1, <3>4
      <4>2. at[id] \in Nat /\ at[last] \in Nat
        <5>1. id \in Ids
          BY <1>6, <1>8 DEF CutTo
        <5> QED BY <1>2, <2>1, <5>1
      <4> QED BY SMT, <4>1, <4>2
    <3>5. ASSUME NEW id \in S, id \notin Range(items) PROVE at[id] < at[last]
      <4>1. PICK i \in DOMAIN rows : n < i /\ id = rows[i]
        BY <2>1, <3>5
      <4>2. at[last] >= at[id]
        BY <1>6, <2>1, <4>1
      <4>3. i > n
        <5>1. i \in Nat /\ n \in Nat
          BY SMT, <1>2, <1>3, <1>8, <4>1 DEF CutTo
        <5> QED BY SMT, <4>1, <5>1
      <4>4. at[id] # at[last]
        BY <3>1, <4>1, <4>3
      <4>5. at[id] \in Nat /\ at[last] \in Nat
        BY <1>2, <1>6, <2>1
      <4> QED BY SMT, <4>2, <4>4, <4>5
    <3>6. ASSUME NEW id \in Shown PROVE ~(at[id] < at[last])
      <4>1. ~Beyond(id) /\ id \in Ids
        BY <1>2, <1>11, <3>1, Members DEF Parted, Shown
      <4>2. walk.cursor # <<>> /\ ~(at[id] < walk.cursor[1])
        BY <1>5, <4>1 DEF Beyond
      <4>3. at[last] < walk.cursor[1]
        BY <1>3, <2>1, <4>2
      <4>4. at[id] \in Nat /\ at[last] \in Nat /\ walk.cursor[1] \in Nat
        BY <1>1, <1>2, <2>1, <4>1, <4>2 DEF Cursors
      <4> QED BY SMT, <4>2, <4>3, <4>4
    <3>7. Parted'
      BY <1>14, <2>6, <3>1, <3>2, <3>3, <3>4, <3>5, <3>6 DEF Parted
    <3>8. \A id \in Shown' : at'[id] # 0
      BY <1>5, <1>8, <1>11, <1>12, <3>1, <3>2 DEF CutTo
    <3> QED BY <2>6, <3>2, <3>7, <3>8 DEF Whole
  <2> QED BY <2>6, <2>7, <2>8, <2>9 DEF ListingInv
<1> QED BY <1>15, <1>16

\* Rows come and go: those the walk has shown keep their place.
LEMMA RowsMove ==
  ASSUME ListingInv, ListingTypeOK', kind' = kind,
         walk'.pc = walk.pc, walk'.owner = walk.owner, walk'.cursor = walk.cursor,
         walk'.got = walk.got, walk'.items = walk.items, walk'.whole = walk.whole,
         walk'.driver_token = walk.driver_token, walk'.stable \subseteq walk.stable,
         \A id \in walk'.stable : Present(id)',
         kind = "objects" \/ \A id \in Ids : at[id] # 0 => at'[id] = at[id]
  PROVE  ListingInv'
<1>1. ListingTypeOK /\ Places /\ Owners /\ Cursors /\ Stable /\ (walk.whole => Whole)
  BY DEF ListingInv
<1>2. Places' /\ Owners' /\ Cursors'
  BY <1>1 DEF Places, Owners, Cursors
<1>3. Stable'
  BY <1>1 DEF Stable, In
<1>4. Shown' = Shown /\ Shown \subseteq Ids /\ walk.stable \subseteq Ids
  <2>1. walk.got \in Seq(Ids) /\ walk.stable \subseteq Ids
    BY <1>1, WalkTypes
  <2> QED BY <2>1, Members DEF Shown
<1>5. \A id \in Ids : (kind = "objects" \/ at'[id] = at[id]) => (Beyond(id)' <=> Beyond(id))
  <2> SUFFICES ASSUME NEW id \in Ids, kind = "objects" \/ at'[id] = at[id]
               PROVE  Beyond(id)' <=> Beyond(id)
    OBVIOUS
  <2>1. CASE kind = "objects"
    BY <2>1 DEF Beyond
  <2>2. CASE at'[id] = at[id]
    BY <2>2 DEF Beyond, format_cursor
  <2> QED BY <2>1, <2>2
<1>6. \A id \in walk.stable : at[id] # 0
  BY <1>1 DEF Stable, Present
<1>7. ASSUME Parted, kind = "objects" \/ \A id \in Shown : at[id] # 0
      PROVE  Parted'
  <2>1. \A id \in Shown : ~Beyond(id)'
    BY <1>4, <1>5, <1>7 DEF Parted
  <2>2. \A id \in walk.stable : id \in Shown \/ Beyond(id)'
    BY <1>4, <1>5, <1>6, <1>7 DEF Parted
  <2> QED BY <1>4, <2>1, <2>2 DEF Parted
<1>8. ASSUME walk.whole PROVE Whole'
  <2>1. Whole
    BY <1>1, <1>8
  <2>2. IsInjective(walk'.got) /\ (walk'.pc \in {"idle", "poll"} => walk'.got = <<>>)
    BY <2>1 DEF Whole
  <2>3. walk'.pc \in {"done", "tail"} => walk'.stable \subseteq Shown'
    BY <1>4, <2>1 DEF Whole
  <2>4. walk'.pc = "page" => Parted' /\ \A id \in Shown' : at'[id] # 0
    <3>1. walk.pc = "page" => kind # "objects"
      BY <1>1 DEF Places
    <3> QED BY <1>4, <1>7, <2>1, <3>1 DEF Whole
  <2>5. walk'.pc \in {"driver", "respond"} => Parted' /\ Collected'
    <3>1. walk.pc \in {"driver", "respond"} => kind = "objects"
      BY <1>1, KindOf
    <3>2. Collected => Collected'
      BY DEF Collected
    <3> QED BY <1>7, <2>1, <3>1, <3>2 DEF Whole
  <2> QED BY <2>2, <2>3, <2>4, <2>5 DEF Whole
<1> QED
  BY <1>1, <1>2, <1>3, <1>8 DEF ListingInv

\* A row appears.
LEMMA AppearsStep ==
  ASSUME ListingInv, NEW id \in Ids, NEW t \in 1..MaxTime, RowAppears(id, t)
  PROVE  ListingInv'
<1>1. ListingTypeOK /\ Stable
  BY DEF ListingInv
<1>2. /\ at \in [Ids -> 0..MaxTime] /\ at[id] = 0 /\ at' = [at EXCEPT ![id] = t]
      /\ UNCHANGED <<kind, deleted, walk>>
  BY <1>1 DEF ListingTypeOK, RowAppears
<1>3. changes \in 0..MaxChanges /\ changes < MaxChanges /\ changes' = changes + 1
  BY <1>1 DEF ListingTypeOK, RowAppears
<1>4. t \in 0..MaxTime /\ t # 0 /\ changes' \in 0..MaxChanges
  BY SMT, <1>3, ListingAssumption
<1>5. at' \in [Ids -> 0..MaxTime] /\ \A x \in Ids : at[x] # 0 => at'[x] = at[x]
  BY <1>2, <1>4
<1>6. ListingTypeOK'
  BY <1>1, <1>2, <1>4, <1>5 DEF ListingTypeOK
<1>7. walk.stable \subseteq Ids
  BY <1>1, WalkTypes
<1>8. \A x \in walk'.stable : Present(x)'
  BY <1>1, <1>2, <1>5, <1>7 DEF Stable, Present
<1> QED
  BY <1>2, <1>5, <1>6, <1>8, RowsMove

\* A row goes.
LEMMA GoesStep ==
  ASSUME ListingInv, NEW id \in Ids, RowGoes(id)
  PROVE  ListingInv'
<1>1. ListingTypeOK /\ Stable
  BY DEF ListingInv
<1>2. /\ kind' = kind /\ walk' = [walk EXCEPT !.stable = @ \ {id}]
      /\ \/ kind = "images" /\ deleted' = deleted \cup {id} /\ at' = at
         \/ kind = "objects" /\ at' = [at EXCEPT ![id] = 0] /\ deleted' = deleted
  BY DEF RowGoes
<1>3. changes \in 0..MaxChanges /\ changes < MaxChanges /\ changes' = changes + 1
  BY <1>1 DEF ListingTypeOK, RowGoes
<1>4. 0 \in 0..MaxTime /\ changes' \in 0..MaxChanges
  BY SMT, <1>3, ListingAssumption
<1>5. at \in [Ids -> 0..MaxTime] /\ walk \in Walks /\ walk.stable \subseteq Ids
  BY <1>1, WalkTypes DEF ListingTypeOK
<1>6. /\ walk' \in Walks /\ walk'.stable = walk.stable \ {id}
      /\ walk'.pc = walk.pc /\ walk'.owner = walk.owner /\ walk'.cursor = walk.cursor
      /\ walk'.got = walk.got /\ walk'.items = walk.items /\ walk'.whole = walk.whole
      /\ walk'.driver_token = walk.driver_token
  <2>1. PICK s : s = walk.stable \ {id}
    OBVIOUS
  <2>2. s \in SUBSET Ids /\ walk' = [walk EXCEPT !.stable = s]
    BY <1>2, <1>5, <2>1
  <2> QED BY <1>5, <2>1, <2>2 DEF Walks
<1>7. at' \in [Ids -> 0..MaxTime] /\ \A x \in Ids : x # id => at'[x] = at[x]
  BY <1>2, <1>4, <1>5
<1>8. ListingTypeOK'
  BY <1>1, <1>2, <1>4, <1>6, <1>7 DEF ListingTypeOK
<1>9. \A x \in walk'.stable : Present(x)'
  <2> SUFFICES ASSUME NEW x \in walk.stable, x # id PROVE Present(x)'
    BY <1>6
  <2>1. at[x] # 0 /\ x \notin deleted
    BY <1>1 DEF Stable, Present
  <2>2. at'[x] = at[x] /\ x \notin deleted'
    BY <1>2, <1>5, <1>7, <2>1
  <2> QED BY <2>1, <2>2 DEF Present
<1>10. kind = "objects" \/ \A x \in Ids : at[x] # 0 => at'[x] = at[x]
  BY <1>2
<1> QED
  BY <1>2, <1>6, <1>8, <1>9, <1>10, RowsMove

\* A walk that begins has shown nothing, and has all before it.
LEMMA Fresh ==
  ASSUME ListingTypeOK, UNCHANGED <<kind, at, deleted, changes>>, walk' \in Walks,
         walk'.cursor = <<>>, walk'.got = <<>>, walk'.items = <<>>, walk'.driver_token = 0,
         walk'.stable = {id \in Ids : Present(id) /\ In(walk'.owner, id)},
         walk'.pc = (IF kind = "objects" THEN "driver"
                     ELSE IF kind = "tail" THEN "poll" ELSE "page"),
         kind = "images" => walk'.owner # "all",
         kind = "teams" => walk'.owner \in {"me", "all"}
  PROVE  ListingInv'
<1>1. ListingTypeOK'
  BY DEF ListingTypeOK
<1>2. Places' /\ Owners' /\ Cursors'
  BY DEF Places, Owners, Cursors
<1>3. Stable'
  BY DEF Stable, Present, In
<1>4. Range(<<>>) = {} /\ IsInjective(<<>>)
  BY SMT DEF Range, IsInjective
<1>5. Parted' /\ Shown' = {}
  BY <1>4 DEF Parted, Shown, Beyond
<1>6. Collected'
  <2>1. \A id \in Ids : ~(id <= 0)
    BY SMT, ListingAssumption
  <2>2. \A id \in walk'.stable : ~(id <= walk'.driver_token)
    BY <2>1
  <2>3. walk'.pc # "respond"
    OBVIOUS
  <2> QED BY <1>4, <2>2, <2>3 DEF Collected
<1>7. Whole'
  BY <1>4, <1>5, <1>6 DEF Whole
<1> QED
  BY <1>1, <1>2, <1>3, <1>7 DEF ListingInv

\* A client begins a walk.
LEMMA BeginStep ==
  ASSUME ListingInv, NEW can \in BOOLEAN, NEW owner \in {"me", "other", "all"}, NEW limit \in Int,
         Begin(can, owner, limit), kind # "tail",
         kind = "images" => owner # "all", kind = "teams" => owner \in {"me", "all"}
  PROVE  ListingInv'
<1>1. PICK n, p, s :
        /\ n = Clamp(limit) /\ p = (IF kind = "objects" THEN "driver" ELSE "page")
        /\ s = {id \in Ids : Present(id) /\ In(owner, id)}
  OBVIOUS
<1>2. n \in 1..Ceiling
  BY SMT, <1>1, ListingAssumption DEF Clamp
<1>3. p \in {"driver", "page"} /\ s \in SUBSET Ids
  BY <1>1
<1>4. walk' = [NoWalk EXCEPT !.pc = p, !.can = can, !.owner = owner, !.limit = n, !.stable = s]
  BY <1>1 DEF Begin
<1>5. NoWalk \in Walks /\ NoWalk.cursor = <<>> /\ NoWalk.got = <<>> /\ NoWalk.items = <<>>
      /\ NoWalk.driver_token = 0
  BY SMT, ListingAssumption DEF NoWalk, Walks
<1>6. /\ walk' \in Walks /\ walk'.cursor = <<>> /\ walk'.got = <<>> /\ walk'.items = <<>>
      /\ walk'.driver_token = 0 /\ walk'.pc = p /\ walk'.owner = owner /\ walk'.stable = s
  BY ZenonT(30), <1>2, <1>3, <1>4, <1>5 DEF Walks
<1>7. UNCHANGED <<kind, at, deleted, changes>> /\ ListingTypeOK
  BY DEF Begin, ListingInv
<1> QED
  BY <1>1, <1>6, <1>7, Fresh

\* A request for the first page.
LEMMA FirstPageStep ==
  ASSUME ListingInv, NEW can \in BOOLEAN, NEW limit \in Limits,
         \/ \E asked \in {"me", "other"} : images_list(can, asked, limit)
         \/ teams_list(can, limit) \/ list_users(can, limit) \/ team_members(can)
         \/ audit(can, limit) \/ objects(can, limit)
  PROVE  ListingInv'
<1>1. limit \in Int /\ Ceiling \in Int
  BY SMT, ListingAssumption
<1>2. CASE \E asked \in {"me", "other"} : images_list(can, asked, limit)
  <2>1. PICK asked \in {"me", "other"} : images_list(can, asked, limit)
    BY <1>2
  <2>2. PICK owner : owner = EffectiveOwner(can, asked)
    OBVIOUS
  <2>3. owner \in {"me", "other"}
    BY <2>1, <2>2 DEF EffectiveOwner
  <2>4. kind = "images" /\ Begin(can, owner, limit)
    BY <2>1, <2>2 DEF images_list
  <2> QED BY <1>1, <2>3, <2>4, BeginStep
<1>3. CASE teams_list(can, limit)
  <2>1. PICK owner : owner = IF can THEN "all" ELSE "me"
    OBVIOUS
  <2>2. owner \in {"me", "all"}
    BY <2>1
  <2>3. kind = "teams" /\ Begin(can, owner, limit)
    BY <1>3, <2>1 DEF teams_list
  <2> QED BY <1>1, <2>2, <2>3, BeginStep
<1>4. CASE list_users(can, limit) \/ audit(can, limit) \/ objects(can, limit)
  <2>1. kind \in {"users", "audit", "objects"} /\ Begin(can, "all", limit)
    BY <1>4 DEF list_users, audit, objects
  <2> QED BY <1>1, <2>1, BeginStep
<1>5. CASE team_members(can)
  <2>1. kind = "members" /\ Begin(can, "all", Ceiling)
    BY <1>5 DEF team_members
  <2> QED BY <1>1, <2>1, BeginStep
<1> QED BY <1>2, <1>3, <1>4, <1>5

\* The operator begins a tail of the audit log.
LEMMA TailStep ==
  ASSUME ListingInv, NEW follow \in BOOLEAN, NEW actor \in {"me", "all"}, audit_tail(follow, actor)
  PROVE  ListingInv'
<1>1. PICK s : s = {id \in Ids : Present(id) /\ In(actor, id)}
  OBVIOUS
<1>2. walk' = [NoWalk EXCEPT !.pc = "poll", !.can = TRUE, !.owner = actor, !.follow = follow,
                             !.stable = s]
  BY <1>1 DEF audit_tail
<1>3. NoWalk \in Walks /\ NoWalk.cursor = <<>> /\ NoWalk.got = <<>> /\ NoWalk.items = <<>>
      /\ NoWalk.driver_token = 0 /\ s \in SUBSET Ids
  BY SMT, <1>1, ListingAssumption DEF NoWalk, Walks
<1>4. /\ walk' \in Walks /\ walk'.cursor = <<>> /\ walk'.got = <<>> /\ walk'.items = <<>>
      /\ walk'.driver_token = 0 /\ walk'.pc = "poll" /\ walk'.owner = actor /\ walk'.stable = s
  BY <1>2, <1>3 DEF Walks
<1>5. UNCHANGED <<kind, at, deleted, changes>> /\ ListingTypeOK /\ kind = "tail"
  BY DEF audit_tail, ListingInv
<1> QED
  BY <1>1, <1>4, <1>5, Fresh

\* A poll prints what it had not printed before.
LEMMA PollStep ==
  ASSUME ListingInv, Poll
  PROVE  ListingInv'
<1>1. ListingTypeOK /\ Places /\ Owners /\ Cursors /\ Stable /\ (walk.whole => Whole)
  BY DEF ListingInv
<1>2. /\ walk \in Walks /\ walk.got \in Seq(Ids) /\ walk.stable \subseteq Ids
      /\ walk.whole \in BOOLEAN
  BY <1>1, WalkTypes
<1>3. walk.pc \in {"poll", "tail"} /\ UNCHANGED <<kind, at, deleted, changes>>
  BY DEF Poll
<1>4. PICK rows : rows = {id \in Ids : Present(id)}
  OBVIOUS
<1>5. PICK events \in SUBSET rows :
        \E printed \in EarliestFirst({id \in events : In(walk.owner, id) /\ Unseen(id)}) :
          walk' = [walk EXCEPT
             !.got = @ \o printed,
             !.whole = @ /\ \A id \in rows \ events : In(walk.owner, id) => id \in Range(walk.got),
             !.pc = IF walk.follow THEN "tail" ELSE "done"]
  BY <1>4 DEF Poll, kSubset
<1>6. PICK P : P = {id \in events : In(walk.owner, id) /\ Unseen(id)}
  OBVIOUS
<1>7. PICK printed \in EarliestFirst(P) :
          walk' = [walk EXCEPT
             !.got = @ \o printed,
             !.whole = @ /\ \A id \in rows \ events : In(walk.owner, id) => id \in Range(walk.got),
             !.pc = IF walk.follow THEN "tail" ELSE "done"]
  BY <1>5, <1>6
<1>8. P \in SUBSET Ids /\ P \cap Shown = {}
  BY <1>4, <1>5, <1>6 DEF Unseen, Shown
<1>9. printed \in Seq(Ids) /\ IsInjective(printed) /\ Range(printed) = P
  <2>1. printed \in Answers(P) /\ IsFiniteSet(P)
    BY <1>7, <1>8, ListingAssumption, FS_Subset DEF EarliestFirst
  <2>2. printed \in Seq(P) /\ IsInjective(printed) /\ Range(printed) = P
    BY <2>1, Answer
  <2> QED BY <1>8, <2>2, Wider
<1>10. PICK g, w, p :
         /\ g = walk.got \o printed
         /\ w = (walk.whole /\
                 \A id \in rows \ events : In(walk.owner, id) => id \in Range(walk.got))
         /\ p = IF walk.follow THEN "tail" ELSE "done"
  OBVIOUS
<1>11. g \in Seq(Ids) /\ Range(g) = Shown \cup P /\ (IsInjective(walk.got) => IsInjective(g))
  <2>1. Joins(walk.got, printed, g, Ids)
    BY <1>2, <1>9, <1>10, Joined
  <2> QED BY <1>8, <1>9, <2>1 DEF Shown, Joins
<1>12. w \in BOOLEAN /\ (w => walk.whole) /\ p \in {"tail", "done"}
  BY <1>2, <1>10
<1>13. /\ walk' \in Walks /\ walk'.got = g /\ walk'.whole = w /\ walk'.pc = p
       /\ walk'.owner = walk.owner /\ walk'.stable = walk.stable /\ walk'.cursor = walk.cursor
  <2>1. walk' = [walk EXCEPT !.got = g, !.whole = w, !.pc = p]
    BY <1>7, <1>10
  <2> QED BY <1>2, <1>11, <1>12, <2>1 DEF Walks
<1>14. ListingTypeOK'
  BY <1>1, <1>3, <1>13 DEF ListingTypeOK
<1>15. kind = "tail"
  BY <1>1, <1>3, KindOf
<1>16. Places' /\ Owners' /\ Cursors' /\ Stable'
  BY <1>1, <1>3, <1>12, <1>13, <1>15 DEF Places, Owners, Cursors, Stable, Present, In
<1>17. ASSUME w PROVE Whole'
  <2>1. IsInjective(g)
    BY <1>1, <1>11, <1>12, <1>17 DEF Whole
  <2>2. \A id \in walk.stable : id \in rows /\ In(walk.owner, id)
    BY <1>1, <1>2, <1>4 DEF Stable
  <2>3. \A id \in rows \ events : In(walk.owner, id) => id \in Shown
    BY <1>10, <1>17 DEF Shown
  <2>4. \A id \in events : In(walk.owner, id) => id \in Shown \cup P
    BY <1>6 DEF Unseen, Shown
  <2>5. walk.stable \subseteq Range(g)
    BY <1>11, <2>2, <2>3, <2>4
  <2> QED BY <1>12, <1>13, <2>1, <2>5 DEF Whole, Shown
<1> QED
  BY <1>13, <1>14, <1>16, <1>17 DEF ListingInv

\* A turn of the driver's loop, whatever the backend answered.
LEMMA TurnTypes ==
  ASSUME ListingInv, walk.pc = "driver", NEW page \in Seq(Ids), NEW truncated \in BOOLEAN,
         NEW next, truncated => next \in Ids, NEW honest \in BOOLEAN,
         Turn(page, truncated, next, honest)
  PROVE  /\ ListingTypeOK' /\ Places' /\ Owners' /\ Cursors' /\ Stable'
         /\ UNCHANGED <<kind, at, deleted, changes>>
         /\ walk'.items = walk.items \o page /\ walk'.got = walk.got
         /\ walk'.stable = walk.stable /\ walk'.cursor = walk.cursor
         /\ walk'.pc = (IF Continues(truncated, next) THEN "driver" ELSE "respond")
         /\ walk'.driver_token = (IF Continues(truncated, next) THEN next ELSE walk.driver_token)
         /\ walk'.whole = (walk.whole /\ honest /\ (Continues(truncated, next) \/ ~truncated))
<1>1. ListingTypeOK /\ Places /\ Owners /\ Cursors /\ Stable
  BY DEF ListingInv
<1>2. /\ walk \in Walks /\ walk.items \in Seq(Ids) /\ walk.whole \in BOOLEAN
      /\ walk.driver_token \in Ids \cup {0} /\ walk.pages \in 0..MAX_PAGES
  BY <1>1, WalkTypes DEF Walks
<1>3. kind = "objects"
  BY <1>1, KindOf
<1>4. PICK more, is, n, p, t, w :
        /\ more = Continues(truncated, next)
        /\ is = walk.items \o page
        /\ n = (IF walk.pages < MAX_PAGES THEN walk.pages + 1 ELSE walk.pages)
        /\ p = (IF more THEN "driver" ELSE "respond")
        /\ t = (IF more THEN next ELSE walk.driver_token)
        /\ w = (walk.whole /\ honest /\ (more \/ ~truncated))
  OBVIOUS
<1>5. n \in 0..MAX_PAGES
  <2>1. PICK m : m = walk.pages
    OBVIOUS
  <2>2. m \in 0..MAX_PAGES /\ n = (IF m < MAX_PAGES THEN m + 1 ELSE m)
    BY <1>2, <1>4, <2>1
  <2> QED BY SMT, <2>2, ListingAssumption
<1>6. is \in Seq(Ids)
  BY SMT, <1>2, <1>4
<1>7. p \in {"driver", "respond"} /\ t \in Ids \cup {0} /\ w \in BOOLEAN
  BY <1>2, <1>4 DEF Continues
<1>8. walk' = [walk EXCEPT !.items = is, !.pages = n, !.pc = p, !.driver_token = t, !.whole = w]
  BY <1>4 DEF Turn
<1>9. /\ walk' \in Walks /\ walk'.items = is /\ walk'.got = walk.got /\ walk'.stable = walk.stable
      /\ walk'.cursor = walk.cursor /\ walk'.pc = p /\ walk'.driver_token = t /\ walk'.whole = w
      /\ walk'.owner = walk.owner
  BY <1>2, <1>5, <1>6, <1>7, <1>8 DEF Walks
<1>10. UNCHANGED <<kind, at, deleted, changes>>
  BY DEF Turn
<1>11. ListingTypeOK'
  BY <1>1, <1>9, <1>10 DEF ListingTypeOK
<1>12. Places' /\ Owners' /\ Cursors' /\ Stable'
  BY <1>1, <1>3, <1>7, <1>9, <1>10 DEF Places, Owners, Cursors, Stable, Present, In
<1> QED
  BY <1>4, <1>9, <1>10, <1>11, <1>12

\* A backend that goes astray spoils the walk, and no more than that.
LEMMA AstrayStep ==
  ASSUME ListingInv, NEW token \in Ids, ListAstray(token)
  PROVE  ListingInv'
<1>1. <<>> \in Seq(Ids)
  BY SMT
<1>2. walk.pc = "driver" /\ Turn(<<>>, TRUE, token, FALSE)
  BY DEF ListAstray
<1>3. ListingTypeOK' /\ Places' /\ Owners' /\ Cursors' /\ Stable' /\ ~walk'.whole
  BY <1>1, <1>2, TurnTypes
<1> QED BY <1>3 DEF ListingInv

\* So does one that fails.
LEMMA FailsStep ==
  ASSUME ListingInv, ListFails
  PROVE  ListingInv'
<1>1. ListingTypeOK /\ Places /\ walk.pc = "driver" /\ UNCHANGED <<kind, at, deleted, changes>>
  BY DEF ListingInv, ListFails
<1>2. kind = "objects"
  BY <1>1, KindOf
<1>3. NoWalk \in Walks /\ NoWalk.cursor = <<>> /\ NoWalk.stable = {}
  BY SMT, ListingAssumption DEF NoWalk, Walks
<1>4. walk' = [NoWalk EXCEPT !.pc = "done", !.whole = FALSE]
  BY DEF ListFails
<1>5. /\ walk' \in Walks /\ walk'.pc = "done" /\ walk'.whole = FALSE /\ walk'.cursor = <<>>
      /\ walk'.stable = {}
  BY <1>3, <1>4 DEF Walks
<1>6. ListingTypeOK'
  BY <1>1, <1>5 DEF ListingTypeOK
<1>7. Places' /\ Owners' /\ Cursors' /\ Stable'
  BY <1>1, <1>2, <1>5 DEF Places, Owners, Cursors, Stable
<1> QED BY <1>5, <1>6, <1>7 DEF ListingInv

\* A page of the backend takes the driver past what it has collected.
LEMMA DriverStep ==
  ASSUME ListingInv, list
  PROVE  ListingInv'
<1>1. ListingTypeOK /\ Places /\ Stable /\ (walk.whole => Whole) /\ walk.pc = "driver"
  BY DEF ListingInv, list
<1>2. /\ walk.items \in Seq(Ids) /\ walk.stable \subseteq Ids /\ walk.driver_token \in Nat
      /\ walk.whole \in BOOLEAN /\ \A id \in Ids : id \in Nat
  BY <1>1, WalkTypes
<1>3. PICK t, S, n : /\ t = walk.driver_token /\ n = PAGE_SIZE
                     /\ S = {id \in Ids : Present(id) /\ id > t}
  OBVIOUS
<1>4. PICK rest \in Answers(S) :
        /\ \A i, j \in DOMAIN rest : i < j => rest[i] < rest[j]
        /\ Turn(FirstOf(rest, n), Len(rest) > n, IF Len(rest) > n THEN rest[n] ELSE 0, TRUE)
  BY <1>3 DEF list
<1>5. S \in SUBSET Ids /\ \A i, j \in DOMAIN rest : i < j => rest[i] < rest[j]
  BY <1>3, <1>4
<1>6. n \in Nat /\ n >= 1
  BY SMT, <1>3, ListingAssumption
<1>7. PICK page, truncated, next, more :
        /\ page = FirstOf(rest, n) /\ truncated = (Len(rest) > n)
        /\ next = (IF truncated THEN rest[n] ELSE 0) /\ more = Continues(truncated, next)
  OBVIOUS
<1>8. CutTo(S, rest, n, page)
  BY <1>5, <1>6, <1>7, PageOf
<1>9. /\ truncated \in BOOLEAN
      /\ truncated => Len(rest) >= n
      /\ ~truncated => Len(rest) <= n
  <2>1. n \in Nat /\ Len(rest) \in Nat
    BY <1>6, <1>8 DEF CutTo
  <2>2. /\ (Len(rest) > n) \in BOOLEAN
        /\ Len(rest) > n => Len(rest) >= n
        /\ ~(Len(rest) > n) => Len(rest) <= n
    BY SMT, <2>1
  <2> QED BY <1>7, <2>2
<1>10. page \in Seq(Ids) /\ IsInjective(page) /\ (truncated => next \in Ids) /\ (more => truncated)
  BY <1>5, <1>7, <1>8, <1>9 DEF CutTo, Continues
<1>11. Turn(page, truncated, next, TRUE)
  BY <1>4, <1>7
<1>12. /\ ListingTypeOK' /\ Places' /\ Owners' /\ Cursors' /\ Stable'
       /\ UNCHANGED <<kind, at, deleted, changes>>
       /\ walk'.items = walk.items \o page /\ walk'.got = walk.got
       /\ walk'.stable = walk.stable /\ walk'.cursor = walk.cursor
       /\ walk'.pc = (IF more THEN "driver" ELSE "respond")
       /\ walk'.driver_token = (IF more THEN next ELSE t)
       /\ walk'.whole = (walk.whole /\ (more \/ ~truncated))
  BY <1>1, <1>3, <1>7, <1>9, <1>10, <1>11, TurnTypes
<1>13. ASSUME walk'.whole PROVE Whole'
  <2>1. Whole /\ Parted /\ Collected /\ (more \/ ~truncated)
    BY <1>1, <1>12, <1>13 DEF Whole
  <2>2. /\ IsInjective(walk.items) /\ \A id \in Range(walk.items) : id <= t
        /\ \A id \in walk.stable : id <= t => id \in Range(walk.items)
    BY <1>1, <1>3, <2>1 DEF Collected
  <2>3. Range(walk.items) \subseteq Ids
    BY <1>2, Members
  <2>4. \A id \in Ids : ~(id <= t) <=> id > t
    BY SMT, <1>2, <1>3
  <2>5. Range(walk.items) \cap Range(page) = {}
    <3>1. \A id \in Range(page) : id > t /\ id \in Ids
      BY <1>3, <1>8 DEF CutTo
    <3> QED BY <2>2, <2>4, <3>1
  <2>6. IsInjective(walk'.items) /\ Range(walk'.items) = Range(walk.items) \cup Range(page)
    <3>1. Joins(walk.items, page, walk'.items, Ids)
      BY <1>2, <1>10, <1>12, Joined
    <3> QED BY <1>10, <2>2, <2>5, <3>1 DEF Joins
  <2>7. \A id \in walk.stable : id \in Range(walk.items) \cup S
    BY <1>1, <1>2, <1>3, <2>2, <2>4 DEF Stable
  <2>8. Parted' /\ Shown' = Shown
    BY <1>12, <2>1 DEF Parted, Shown, Beyond, format_cursor
  <2>9. CASE ~more
    <3>1. walk.stable \subseteq Range(walk'.items)
      BY <1>8, <1>9, <2>1, <2>6, <2>7, <2>9 DEF CutTo
    <3>2. Collected'
      BY <1>12, <2>6, <2>9, <3>1 DEF Collected
    <3> QED BY <1>12, <2>1, <2>8, <2>9, <3>2 DEF Whole
  <2>10. CASE more
    <3>1. next = rest[n] /\ next \in S /\ n \in DOMAIN rest /\ walk'.driver_token = next
      BY <1>7, <1>8, <1>9, <1>10, <1>12, <2>10 DEF CutTo
    <3>2. next \in Nat /\ next > t /\ t \in Nat
      BY <1>2, <1>3, <3>1
    <3>3. \A id \in Ids : id <= t => id <= next
      BY SMT, <1>2, <3>2
    <3>4. /\ \A id \in Range(page) : id = next \/ \E i \in DOMAIN rest : i < n /\ id = rest[i]
          /\ \A id \in S \ Range(page) : \E i \in DOMAIN rest : n < i /\ id = rest[i]
      BY <1>8, <1>9, <1>10, <2>10, <3>1 DEF CutTo
    <3>5. \A id \in Range(page) : id <= next
      <4> SUFFICES ASSUME NEW id \in Range(page) PROVE id <= next
        OBVIOUS
      <4>1. ASSUME NEW i \in DOMAIN rest, i < n PROVE rest[i] < next
        BY <1>5, <3>1, <4>1
      <4>2. id = next \/ id < next
        BY <3>4, <4>1
      <4>3. id \in Nat
        BY <1>2, <1>5, <1>8 DEF CutTo
      <4> QED BY SMT, <3>2, <4>2, <4>3
    <3>6. \A id \in S : id \in Range(page) \/ ~(id <= next)
      <4> SUFFICES ASSUME NEW id \in S, id \notin Range(page) PROVE ~(id <= next)
        OBVIOUS
      <4>1. PICK i \in DOMAIN rest : n < i /\ id = rest[i]
        BY <3>4
      <4>2. next < id
        BY <1>5, <3>1, <4>1
      <4>3. id \in Nat
        BY <1>2, <1>5
      <4> QED BY SMT, <3>2, <4>2, <4>3
    <3>7. \A id \in Range(walk'.items) : id <= walk'.driver_token
      BY <2>2, <2>3, <2>6, <3>1, <3>3, <3>5
    <3>8. \A id \in walk.stable : id <= walk'.driver_token => id \in Range(walk'.items)
      BY <2>6, <2>7, <3>1, <3>6
    <3>9. Collected'
      BY <1>12, <2>6, <2>10, <3>7, <3>8 DEF Collected
    <3> QED BY <1>12, <2>1, <2>8, <2>10, <3>9 DEF Whole
  <2> QED BY <2>9, <2>10
<1> QED
  BY <1>12, <1>13 DEF ListingInv

\* The keys after the client's token, in order.
KeysAfter(t, items, keyed) ==
  /\ keyed \in Seq(Ids) /\ Len(keyed) \in Nat /\ DOMAIN keyed = 1..Len(keyed)
  /\ Range(keyed) = {id \in Range(items) : id > t}
  /\ IsInjective(items) => IsInjective(keyed)
  /\ \A i, j \in DOMAIN keyed : i < j => keyed[i] <= keyed[j]

\* What list_objects_v2 sorts are those.
LEMMA KeyedRows ==
  ASSUME NEW items \in Seq(Ids), NEW t \in Nat,
         NEW places \in Answers(AfterToken(items, t)),
         \A i, j \in DOMAIN places : i < j => items[places[i]] <= items[places[j]],
         NEW keyed, keyed = [k \in DOMAIN places |-> items[places[k]]]
  PROVE  KeysAfter(t, items, keyed)
<1>1. PICK T : T = {k \in DOMAIN items : items[k] > t}
  OBVIOUS
<1>2. places \in Answers(T)
  BY <1>1 DEF AfterToken
<1>3. IsFiniteSet(T)
  <2>1. DOMAIN items = 1..Len(items) /\ Len(items) \in Nat
    BY Members
  <2>2. IsFiniteSet(1..Len(items))
    BY SMT, <2>1, FS_Interval
  <2> QED BY <1>1, <2>1, <2>2, FS_Subset
<1>4. /\ IsInjective(places) /\ Range(places) = T
      /\ Len(places) \in Nat /\ DOMAIN places = 1..Len(places)
  BY <1>2, <1>3, Answer
<1>5. \A k \in DOMAIN places : places[k] \in T /\ places[k] \in DOMAIN items
  BY <1>1, <1>4 DEF Range
<1>6. \A k \in DOMAIN items : items[k] \in Ids
  BY Members
<1>7. keyed \in Seq(Ids) /\ Len(keyed) \in Nat /\ DOMAIN keyed = 1..Len(keyed)
  <2>1. PICK n : n = Len(places)
    OBVIOUS
  <2>2. n \in Nat /\ keyed \in [1..n -> Ids]
    BY <1>4, <1>5, <1>6, <2>1
  <2> QED BY SMT, <2>2
<1>8. DOMAIN keyed = DOMAIN places /\ \A k \in DOMAIN places : keyed[k] = items[places[k]]
  OBVIOUS
<1>9. Range(keyed) = {id \in Range(items) : id > t}
  <2>1. \A k \in DOMAIN places : keyed[k] \in Range(items) /\ keyed[k] > t
    BY <1>1, <1>5, <1>8 DEF Range
  <2>2. \A k \in T : \E i \in DOMAIN places : k = places[i]
    BY <1>4 DEF Range
  <2>3. \A id \in Range(items) : id > t => \E k \in T : id = items[k]
    BY <1>1 DEF Range
  <2>4. \A id \in Range(items) : id > t => \E i \in DOMAIN keyed : id = keyed[i]
    <3> SUFFICES ASSUME NEW id \in Range(items), id > t
                 PROVE  \E i \in DOMAIN keyed : id = keyed[i]
      OBVIOUS
    <3>1. PICK k \in T : id = items[k]
      BY <2>3
    <3>2. PICK i \in DOMAIN places : k = places[i]
      BY <2>2
    <3>3. i \in DOMAIN keyed /\ keyed[i] = items[k]
      BY <1>8, <3>2
    <3> QED BY <3>1, <3>3
  <2>5. \A id \in Range(keyed) : id \in Range(items) /\ id > t
    BY <1>8, <2>1 DEF Range
  <2>6. \A id \in Range(items) : id > t => id \in Range(keyed)
    BY <2>4 DEF Range
  <2> QED BY <2>5, <2>6
<1>10. IsInjective(items) => IsInjective(keyed)
  <2> SUFFICES ASSUME IsInjective(items), NEW i \in DOMAIN places, NEW j \in DOMAIN places,
                      keyed[i] = keyed[j]
               PROVE  i = j
    BY <1>8 DEF IsInjective
  <2>1. items[places[i]] = items[places[j]]
    BY <1>8
  <2>2. places[i] = places[j]
    BY <1>5, <2>1 DEF IsInjective
  <2> QED BY <1>4, <2>2 DEF IsInjective
<1> QED BY <1>7, <1>8, <1>9, <1>10 DEF KeysAfter

\* A page for the client of the S3 endpoint takes it past what it was shown.
LEMMA RespondStep ==
  ASSUME ListingInv, list_objects_v2
  PROVE  ListingInv'
<1>1. ListingTypeOK /\ Places /\ Owners /\ Cursors /\ Stable /\ (walk.whole => Whole)
  BY DEF ListingInv
<1>2. /\ walk \in Walks /\ walk.got \in Seq(Ids) /\ walk.items \in Seq(Ids)
      /\ walk.limit \in Nat /\ walk.limit >= 1 /\ walk.stable \subseteq Ids
      /\ walk.cursor \in Seq(Nat) /\ \A id \in Ids : id \in Nat /\ id > 0
  BY <1>1, WalkTypes
<1>3. walk.pc = "respond" /\ UNCHANGED <<kind, at, deleted, changes>>
  BY DEF list_objects_v2
<1>4. kind = "objects"
  BY <1>1, <1>3, KindOf
<1>5. PICK items, n, t : /\ items = walk.items /\ n = walk.limit
                         /\ t = (IF walk.cursor = <<>> THEN 0 ELSE walk.cursor[1])
  OBVIOUS
<1>6. t \in Nat
  BY <1>1, <1>5 DEF Cursors
<1>7. PICK places, keyed :
        /\ places \in Answers(AfterToken(walk.items,
                               IF walk.cursor = <<>> THEN 0 ELSE walk.cursor[1]))
        /\ \A i, j \in DOMAIN places : i < j => walk.items[places[i]] <= walk.items[places[j]]
        /\ keyed = [k \in DOMAIN places |-> walk.items[places[k]]]
        /\ walk' = [walk EXCEPT !.got = @ \o FirstOf(keyed, walk.limit),
                                !.items = <<>>, !.driver_token = 0, !.pages = 0,
                                !.cursor = IF Len(keyed) > walk.limit
                                           THEN <<keyed[walk.limit]>> ELSE @,
                                !.pc = IF Len(keyed) > walk.limit THEN "driver" ELSE "done"]
  BY DEF list_objects_v2
<1>8. PICK truncated, page, g, c, p :
        /\ truncated = (Len(keyed) > walk.limit)
        /\ page = FirstOf(keyed, walk.limit) /\ g = walk.got \o page
        /\ c = (IF truncated THEN <<keyed[walk.limit]>> ELSE walk.cursor)
        /\ p = (IF truncated THEN "driver" ELSE "done")
  OBVIOUS
<1>9. /\ keyed \in Seq(Ids) /\ Len(keyed) \in Nat /\ DOMAIN keyed = 1..Len(keyed)
      /\ Range(keyed) = {id \in Range(items) : id > t}
      /\ IsInjective(items) => IsInjective(keyed)
      /\ \A i, j \in DOMAIN keyed : i < j => keyed[i] <= keyed[j]
  <2>1. /\ places \in Answers(AfterToken(items, t))
        /\ \A i, j \in DOMAIN places : i < j => items[places[i]] <= items[places[j]]
    BY <1>5, <1>7
  <2>2. keyed = [k \in DOMAIN places |-> items[places[k]]] /\ items \in Seq(Ids)
    BY <1>2, <1>5, <1>7
  <2>3. KeysAfter(t, items, keyed)
    BY <1>6, <2>1, <2>2, KeyedRows
  <2> QED BY <2>3 DEF KeysAfter
<1>10. page \in Seq(Ids) /\ g \in Seq(Ids)
  <2>1. page \in Seq(Ids)
    <3>1. Starts(keyed, walk.limit, Most(walk.limit, keyed), page, Ids)
      BY <1>2, <1>8, <1>9, First
    <3> QED BY <3>1 DEF Starts
  <2>2. Joins(walk.got, page, g, Ids)
    BY <1>2, <1>8, <2>1, Joined
  <2> QED BY <2>1, <2>2 DEF Joins
<1>11. /\ truncated => Len(keyed) >= n /\ n \in DOMAIN keyed
       /\ ~truncated => Len(keyed) <= n
  <2>1. PICK m : m = Len(keyed)
    OBVIOUS
  <2>2. m \in Nat /\ n \in Nat /\ n >= 1
    BY <1>2, <1>5, <1>9, <2>1
  <2>3. (m > n => m >= n /\ n \in 1..m) /\ (~(m > n) => m <= n)
    BY SMT, <2>2
  <2> QED BY <1>5, <1>8, <1>9, <2>1, <2>3
<1>12. truncated => keyed[n] \in Ids /\ c = <<keyed[n]>>
  <2>1. \A k \in DOMAIN keyed : keyed[k] \in Ids
    BY <1>9, Members
  <2> QED BY <1>5, <1>8, <1>11, <2>1
<1>13. c \in Seq(Nat) /\ p \in {"driver", "done"} /\ (truncated => c # <<>> /\ c[1] = keyed[n])
  <2>1. ASSUME NEW k \in Nat PROVE <<k>> \in Seq(Nat) /\ <<k>> # <<>> /\ <<k>>[1] = k
    BY SMT
  <2>2. truncated => keyed[n] \in Nat
    BY <1>2, <1>12
  <2>3. CASE truncated
    BY <1>8, <1>12, <2>1, <2>2, <2>3
  <2>4. CASE ~truncated
    BY <1>2, <1>8, <2>4
  <2> QED BY <2>3, <2>4
<1>14. /\ walk' \in Walks /\ walk'.got = g /\ walk'.cursor = c /\ walk'.pc = p
       /\ walk'.items = <<>> /\ walk'.driver_token = 0 /\ walk'.owner = walk.owner
       /\ walk'.stable = walk.stable /\ walk'.whole = walk.whole
  <2>1. walk' = [walk EXCEPT !.got = g, !.items = <<>>, !.driver_token = 0, !.pages = 0,
                             !.cursor = c, !.pc = p]
    <3>1. /\ c = (IF Len(keyed) > walk.limit THEN <<keyed[walk.limit]>> ELSE walk.cursor)
          /\ p = (IF Len(keyed) > walk.limit THEN "driver" ELSE "done")
      BY <1>8
    <3> QED BY <1>7, <1>8, <3>1
  <2>2. <<>> \in Seq(Ids) /\ 0 \in 0..MAX_PAGES
    BY SMT, ListingAssumption
  <2> QED BY <1>2, <1>10, <1>13, <2>1, <2>2 DEF Walks
<1>15. ListingTypeOK'
  BY <1>1, <1>3, <1>14 DEF ListingTypeOK
<1>16. Places' /\ Owners' /\ Stable'
  BY <1>1, <1>3, <1>4, <1>13, <1>14 DEF Places, Owners, Stable, Present, In
<1>17. Cursors'
  <2>1. CASE truncated
    BY <1>2, <1>3, <1>4, <1>12, <1>13, <1>14, <2>1 DEF Cursors
  <2>2. CASE ~truncated
    BY <1>1, <1>3, <1>8, <1>14, <2>2 DEF Cursors
  <2> QED BY <2>1, <2>2
<1>18. ASSUME walk.whole PROVE Whole'
  <2>1. /\ IsInjective(walk.got) /\ Parted
        /\ IsInjective(items) /\ walk.stable \subseteq Range(items)
    BY <1>1, <1>3, <1>5, <1>18 DEF Whole, Collected
  <2>2. PICK K : K = {id \in Range(items) : id > t}
    OBVIOUS
  <2>3. K \in SUBSET Ids
    BY <1>2, <1>5, <2>2, Members
  <2>4. CutTo(K, keyed, n, page)
    <3>1. keyed \in Seq(K)
      <4>1. \A i \in 1..Len(keyed) : keyed[i] \in K
        BY <1>9, <2>2 DEF Range
      <4> QED BY SMT, <1>9, <4>1
    <3>2. IsInjective(keyed) /\ Range(keyed) = K
      BY <1>9, <2>1, <2>2
    <3> QED BY <1>2, <1>5, <1>8, <2>3, <3>1, <3>2, CutRows
  <2>5. \A id \in Ids : Beyond(id) <=> id > t
    BY <1>2, <1>4, <1>5 DEF Beyond
  <2>6. Shown \subseteq Ids /\ Shown \cap K = {}
    BY <1>2, <2>1, <2>2, <2>5, Members DEF Parted, Shown
  <2>7. IsInjective(g) /\ Range(g) = Shown \cup Range(page)
    <3>1. Joins(walk.got, page, g, Ids)
      BY <1>2, <1>8, <1>10, Joined
    <3> QED BY <2>1, <2>4, <2>6, <3>1 DEF Joins, CutTo, Shown
  <2>8. \A id \in walk.stable : id \in Shown \cup K
    BY <1>2, <2>1, <2>2, <2>5 DEF Parted
  <2>9. CASE ~truncated
    <3>1. walk.stable \subseteq Range(g)
      BY <1>11, <2>4, <2>7, <2>8, <2>9 DEF CutTo
    <3> QED BY <1>8, <1>14, <2>7, <2>9, <3>1 DEF Whole, Shown
  <2>10. CASE truncated
    <3>1. PICK last : last = keyed[n]
      OBVIOUS
    <3>2. last \in K /\ last \in Nat /\ last > t /\ n \in DOMAIN keyed
      BY <1>2, <1>11, <1>12, <2>2, <2>4, <2>10, <3>1 DEF CutTo
    <3>3. \A id : Beyond(id)' <=> id > last
      BY <1>3, <1>4, <1>13, <1>14, <2>10, <3>1 DEF Beyond
    <3>4. /\ \A id \in Range(page) : id = last \/ \E i \in DOMAIN keyed : i < n /\ id = keyed[i]
          /\ \A id \in K \ Range(page) : \E i \in DOMAIN keyed : n < i /\ id = keyed[i]
      BY <1>11, <2>4, <2>10, <3>1 DEF CutTo
    <3>5. ASSUME NEW id \in Range(page) PROVE ~(id > last)
      <4>1. ASSUME NEW i \in DOMAIN keyed, i < n PROVE keyed[i] <= last
        BY <1>9, <3>1, <3>2, <4>1
      <4>2. id = last \/ id <= last
        BY <3>4, <3>5, <4>1
      <4>3. id \in Nat
        BY <1>2, <2>3, <2>4 DEF CutTo
      <4> QED BY SMT, <3>2, <4>2, <4>3
    <3>6. ASSUME NEW id \in K, id \notin Range(page) PROVE id > last
      <4>1. PICK i \in DOMAIN keyed : n < i /\ id = keyed[i]
        BY <3>4, <3>6
      <4>2. last <= id /\ id \in Nat
        BY <1>2, <1>9, <2>3, <3>1, <3>2, <4>1
      <4>3. i # n
        <5>1. n \in Nat
          BY <1>2, <1>5
        <5> QED BY SMT, <4>1, <5>1
      <4>4. id # last
        BY <1>9, <2>1, <3>1, <3>2, <4>1, <4>3 DEF IsInjective
      <4> QED BY SMT, <3>2, <4>2, <4>4
    <3>7. ASSUME NEW id \in Shown PROVE ~(id > last)
      <4>1. ~(id > t) /\ id \in Nat
        BY <1>2, <2>1, <2>5, <2>6 DEF Parted
      <4> QED BY SMT, <1>6, <3>2, <4>1
    <3>8. Parted' /\ Shown' = Range(g)
      BY <1>14, <2>7, <2>8, <3>3, <3>5, <3>6, <3>7 DEF Parted, Shown
    <3>9. Collected'
      <4>1. Range(<<>>) = {} /\ IsInjective(<<>>)
        BY SMT DEF Range, IsInjective
      <4>2. \A id \in Ids : ~(id <= 0)
        BY SMT, ListingAssumption
      <4> QED BY <1>2, <1>8, <1>14, <2>10, <4>1, <4>2 DEF Collected
    <3> QED BY <1>8, <1>14, <2>7, <2>10, <3>8, <3>9 DEF Whole
  <2> QED BY <2>9, <2>10
<1> QED
  BY <1>14, <1>15, <1>16, <1>17, <1>18 DEF ListingInv

-----------------------------------------------------------------------------
(* Listings: the theorems.                                                 *)

\* The invariant holds of the first state.
LEMMA ListingInvInit ==
  ASSUME ListingInit
  PROVE  ListingInv
<1>1. kind \in Kinds /\ deleted = {} /\ changes = 0 /\ walk = NoWalk
  BY DEF ListingInit
<1>2. at \in [Ids -> 0..MaxTime]
  <2>1. 0..1 \subseteq 0..MaxTime
    BY SMT, ListingAssumption
  <2>2. at \in [Ids -> 0..1] \/ at \in [Ids -> 0..MaxTime]
    BY DEF ListingInit
  <2> QED BY <2>1, <2>2
<1>3. NoWalk \in Walks /\ 0 \in 0..MaxChanges
  BY SMT, ListingAssumption DEF NoWalk, Walks
<1>4. /\ walk.pc = "idle" /\ walk.cursor = <<>> /\ walk.stable = {} /\ walk.got = <<>>
  BY SMT, <1>1 DEF NoWalk
<1>5. ListingTypeOK
  BY <1>1, <1>2, <1>3 DEF ListingTypeOK
<1>6. Places /\ Owners /\ Cursors /\ Stable
  BY <1>4 DEF Places, Owners, Cursors, Stable
<1>7. IsInjective(<<>>)
  BY SMT DEF IsInjective
<1>8. Whole
  BY <1>4, <1>7 DEF Whole
<1> QED
  BY <1>5, <1>6, <1>8 DEF ListingInv

\* Every step keeps it.
LEMMA ListingInvNext ==
  ASSUME ListingInv, [ListingNext]_listingVars
  PROVE  ListingInv'
<1>1. CASE UNCHANGED listingVars
  <2>1. UNCHANGED <<kind, at, deleted, changes, walk>>
    BY <1>1 DEF listingVars
  <2> QED
    BY <2>1 DEF ListingInv, ListingTypeOK, Places, Owners, Cursors, Stable, Present, In, Whole,
                Parted, Collected, Shown, Beyond, format_cursor
<1>2. CASE \E id \in Ids, t \in 1..MaxTime : RowAppears(id, t)
  BY <1>2, AppearsStep
<1>3. CASE \E id \in Ids : RowGoes(id)
  BY <1>3, GoesStep
<1>4. CASE \E can \in BOOLEAN, limit \in Limits :
             \/ \E asked \in {"me", "other"} : images_list(can, asked, limit)
             \/ teams_list(can, limit) \/ list_users(can, limit) \/ team_members(can)
             \/ audit(can, limit) \/ objects(can, limit)
  BY <1>4, FirstPageStep
<1>5. CASE \E follow \in BOOLEAN, actor \in {"me", "all"} : audit_tail(follow, actor)
  BY <1>5, TailStep
<1>6. CASE Handlers
  BY <1>6, PagesStep, MembersStep, AuditStep, PollStep, DriverStep, RespondStep DEF Handlers
<1>7. CASE \E token \in Ids : ListAstray(token)
  BY <1>7, AstrayStep
<1>8. CASE ListFails
  BY <1>8, FailsStep
<1> QED
  BY <1>1, <1>2, <1>3, <1>4, <1>5, <1>6, <1>7, <1>8 DEF ListingNext

\* The invariant holds always.
LEMMA ListingAlways == ListingSpec => []ListingInv
<1>1. ListingInit => ListingInv
  BY ListingInvInit
<1>2. ListingInv /\ [ListingNext]_listingVars => ListingInv'
  BY ListingInvNext
<1> QED BY <1>1, <1>2, PTL DEF ListingSpec

\* The rows and the walk keep their types: a cursor is a time and an id of a
\* row, and a page is between one row and the ceiling (Clamp).
THEOREM ListingTypeCorrect == ListingSpec => []ListingTypeOK
<1>1. ListingInv => ListingTypeOK
  BY DEF ListingInv
<1> QED BY <1>1, ListingAlways, PTL

\* A walk that nothing cut short shows every row that was there all along,
\* for any rows, page sizes and creation times (list_for_owner, list,
\* list_for_user, list_members, audit_list, list_objects_v2, audit_tail).
THEOREM WalksAreComplete == ListingSpec => []WalkIsComplete
<1>1. ListingInv => WalkIsComplete
  BY DEF ListingInv, Whole, WalkIsComplete, Shown
<1> QED BY <1>1, ListingAlways, PTL

\* No walk shows a row twice, unless a backend's listing went astray: what a
\* page shows lies strictly after the cursor the pages before it left.
THEOREM WalksDoNotRepeat == ListingSpec => []NoRowTwice
<1>1. ListingInv => NoRowTwice
  BY DEF ListingInv, Whole, NoRowTwice
<1> QED BY <1>1, ListingAlways, PTL
=============================================================================
