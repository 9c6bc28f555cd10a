------------------------- MODULE DesktopClientProofs -------------------------
(***************************************************************************)
(* The desktop client for any servers, any number of commands and faults   *)
(* and files of any length.                                                *)
(*                                                                         *)
(* Tokens: wherever a token is (keychain, a list a command holds, the      *)
(* command itself), it is under the name of the server that issued it.     *)
(* Transfers: what was sent, written and answered at each stage.           *)
(* Promises: until the first fault or overlap one command at most edits    *)
(* the profiles, and at each of its steps what is read, what is still to   *)
(* be written and what is written already add up to what it promises.      *)
(* Types: a list is checked before it is written, so the settings only get *)
(* servers that passed, and the keychain only tokens some server issued.   *)
(***************************************************************************)
EXTENDS DesktopClient, TLAPS

\* A leaf is tried with Zenon; one that needs records or arithmetic cites SMT.
USE Zenon

-----------------------------------------------------------------------------
(* Tokens.                                                                 *)

Home(name, token) == token # None => profile_name_for(token.server) = name

\* Every profile is under the name of its server, and so is its token.
Good(list) ==
  /\ DOMAIN list \subseteq Names
  /\ \A n \in DOMAIN list : profile_name_for(list[n].server_url) = n /\ Home(n, list[n].token)

Bare(list) == \A n \in DOMAIN list : list[n].token = None

WithUrl == {"login", "save_profile", "set_active_profile", "remove_profile"}

Fits(kind, url, token, list, left) ==
  /\ Good(list) /\ left \subseteq DOMAIN list
  /\ kind \in WithUrl => url \in Urls
  /\ Home(profile_name_for(url), token)
CommandGood(c) == Fits(c.kind, c.url, c.token, c.list, c.left)

HomeInv ==
  /\ DOMAIN cmd = Threads /\ DOMAIN keychain = Names
  /\ \A n \in Names : Home(n, keychain[n])
  /\ Good(memory.profiles) /\ Bare(memory.profiles)
  /\ Good(disk.profiles) /\ Bare(disk.profiles)
  /\ \A t \in Threads : CommandGood(cmd[t])

-----------------------------------------------------------------------------
(* Transfers.                                                              *)

\* How far a transfer is, by the stage of its command.
Stage(kind, pc, x) ==
  /\ x.sent \in 0..Chunks /\ x.written \in Nat
  /\ kind = "download_image" => x.sent <= x.written + 1
  /\ pc \in {"open", "sending"} => kind = "upload_file"
  /\ pc \in {"link", "fetch", "streaming"} => kind = "download_image"
  /\ x.status # "none" => pc \in {"idle", "sending", "link", "fetch", "streaming"}
  /\ pc = "sending" /\ x.status = "success" => x.sent = Chunks
  /\ pc = "streaming" => x.status = "success"
  /\ x.answer = "Ok" => pc = "idle" /\ x.status = "success" /\ x.sent = Chunks

TransferInv ==
  /\ DOMAIN cmd = Threads /\ DOMAIN transfer = Threads
  /\ \A t \in Threads : Stage(cmd[t].kind, cmd[t].pc, transfer[t])

-----------------------------------------------------------------------------
(* Promises.                                                               *)

OnMain == {"save_profile", "set_active_profile", "remove_profile", "logout", "get_session", "list_profiles"}
Listers == {"login", "save_profile", "logout", "remove_profile"}
EditSteps == {"get", "edit", "put", "store", "active"}

\* Which commands run where, and at which steps.
Placed(t, kind, pc) ==
  /\ kind \in OnMain => t = Main
  /\ kind = "login" => t # Main
  /\ pc \in {"network", "load", "get", "edit"} => kind \in Listers \cup Readers
  /\ pc \in {"put", "store"} => kind \in Listers
  /\ pc = "active" => kind \in {"login", "logout", "remove_profile", "set_active_profile"}

PlaceInv ==
  /\ memory = Settings(memory.profiles, memory.active) /\ disk = Settings(disk.profiles, disk.active)
  /\ DOMAIN cmd = Threads /\ \A t \in Threads : Placed(t, cmd[t].kind, cmd[t].pc)

\* A command that has begun to read or to write the list of profiles.
Lists(c) == c.kind \in Listers /\ c.pc \in EditSteps
Reading(c) == c.pc \in {"get", "edit"}
Writing(c) == c.pc \in {"put", "store"}

\* The profiles with the tokens in the list.
Own(list) == [n \in DOMAIN list |-> Profile(list[n].server_url, list[n].token)]

\* A list read so far, and a list written so far.
HasRead(c, profiles, keys) ==
  /\ DOMAIN c.list = DOMAIN profiles
  /\ \A n \in DOMAIN c.list : c.list[n].server_url = profiles[n].server_url
  /\ \A n \in DOMAIN c.list \ c.left : c.list[n].token = keys[n]
  /\ c.pc = "edit" => c.left = {}
HasWritten(c, keys, was) ==
  /\ Own(c.list) = Fulfilled(was, c).profiles
  /\ \A n \in DOMAIN c.list \ c.left : keys[n] = c.list[n].token
  /\ c.pc = "store" => c.left = {}
Kept(c, profiles, keys, was) ==
  /\ Reading(c) => HasRead(c, profiles, keys)
  /\ Writing(c) => HasWritten(c, keys, was)
  /\ c.pc = "active" => View(profiles, keys) = Fulfilled(was, c).profiles

PromiseInv ==
  promised # None =>
    /\ disk = memory /\ memory.active = promised.active
    /\ \A t, u \in Threads : Lists(cmd[t]) /\ Lists(cmd[u]) => t = u
    /\ (\A t \in Threads : Lists(cmd[t]) => Reading(cmd[t])) => View(memory.profiles, keychain) = promised.profiles
    /\ \A t \in Threads : Lists(cmd[t]) => Kept(cmd[t], memory.profiles, keychain, promised)

Inv == HomeInv /\ TransferInv /\ PlaceInv /\ PromiseInv

-----------------------------------------------------------------------------
(* Tokens, step by step.                                                   *)

\* The fields of a command.
LEMMA CommandFields ==
  ASSUME NEW kind, NEW pc, NEW url, NEW token, NEW list, NEW left
  PROVE  /\ Command(kind, pc, url, token, list, left).kind = kind
         /\ Command(kind, pc, url, token, list, left).pc = pc
         /\ Command(kind, pc, url, token, list, left).url = url
         /\ Command(kind, pc, url, token, list, left).token = token
         /\ Command(kind, pc, url, token, list, left).list = list
         /\ Command(kind, pc, url, token, list, left).left = left
BY DEF Command

\* The fields of a profile and of the settings.
LEMMA ProfileFields ==
  ASSUME NEW a, NEW b
  PROVE  /\ Profile(a, b).server_url = a /\ Profile(a, b).token = b
         /\ Settings(a, b).profiles = a /\ Settings(a, b).active = b
BY DEF Profile, Settings

\* A command is good when its parts fit.
LEMMA GoodCommand ==
  ASSUME NEW kind, NEW pc, NEW url, NEW token, NEW list, NEW left, Fits(kind, url, token, list, left)
  PROVE  CommandGood(Command(kind, pc, url, token, list, left))
BY DEF CommandGood, Command

\* No command, and a list without profiles.
LEMMA IdleIsGood == Good(NoProfiles) /\ CommandGood(Idle)
<1>1. DOMAIN NoProfiles = {}
  BY DEF NoProfiles
<1>2. Good(NoProfiles)
  BY <1>1 DEF Good
<1>3. Fits("none", None, None, NoProfiles, {})
  BY <1>2 DEF Fits, WithUrl, Home
<1> QED
  BY <1>2, <1>3, GoodCommand DEF Idle

\* A command that goes to another step.
LEMMA AtIsGood ==
  ASSUME NEW c, NEW pc, CommandGood(c)
  PROVE  CommandGood(At(c, pc))
BY GoodCommand DEF At, CommandGood

\* A step of one command.
LEMMA HomeMoves ==
  ASSUME HomeInv, NEW t \in Threads, NEW c, CommandGood(c), cmd' = [cmd EXCEPT ![t] = c],
         DOMAIN keychain' = Names, \A n \in Names : Home(n, keychain'[n]),
         Good(memory'.profiles) /\ Bare(memory'.profiles), Good(disk'.profiles) /\ Bare(disk'.profiles)
  PROVE  HomeInv'
<1>1. DOMAIN cmd' = Threads /\ \A u \in Threads : cmd'[u] = IF u = t THEN c ELSE cmd[u]
  BY DEF HomeInv
<1>2. \A u \in Threads : CommandGood(cmd'[u])
  BY <1>1 DEF HomeInv
<1>3. \A u \in Threads : CommandGood(cmd[u])'
  BY <1>2 DEF CommandGood
<1>4. Good(memory.profiles)' /\ Bare(memory.profiles)' /\ Good(disk.profiles)' /\ Bare(disk.profiles)'
  BY DEF Good, Bare, Home
<1>5. \A n \in Names : Home(n, keychain[n])'
  BY DEF Home
<1> QED
  BY <1>1, <1>3, <1>4, <1>5 DEF HomeInv

\* A step of one command that leaves keychain and settings alone.
LEMMA HomeRuns ==
  ASSUME HomeInv, NEW t \in Threads, NEW c, CommandGood(c), cmd' = [cmd EXCEPT ![t] = c],
         UNCHANGED <<memory, disk, keychain>>
  PROVE  HomeInv'
BY HomeMoves DEF HomeInv

\* A step that leaves commands, keychain and settings alone.
LEMMA HomeStays ==
  ASSUME HomeInv, UNCHANGED <<memory, disk, keychain, cmd>>
  PROVE  HomeInv'
BY DEF HomeInv

\* A command is over.
LEMMA HomeEnds ==
  ASSUME HomeInv, NEW t \in Threads, Ends(t), UNCHANGED <<memory, disk, keychain>>
  PROVE  HomeInv'
BY HomeRuns, IdleIsGood DEF Ends

\* A command begins.
LEMMA HomeInvoke ==
  ASSUME HomeInv, NEW t \in Threads, NEW kind, NEW url \in Urls \cup {None}, NEW token, Invoke(t, kind, url, token)
  PROVE  HomeInv'
<1>1. kind \in WithUrl => url \in Urls
  BY DEF Invoke, WithUrl
<1>2. Home(profile_name_for(url), token)
  <2>1. CASE token # None
    <3>1. url \in Urls /\ token = keychain[profile_name_for(url)]
      BY <1>1, <2>1 DEF Invoke, WithUrl
    <3>2. profile_name_for(url) \in Names
      BY <3>1 DEF Names
    <3> QED
      BY <3>1, <3>2 DEF HomeInv
  <2>2. CASE token = None
    BY <2>2 DEF Home
  <2> QED
    BY <2>1, <2>2
<1>3. Fits(kind, url, token, NoProfiles, {})
  BY <1>1, <1>2, IdleIsGood DEF Fits
<1> QED
  BY <1>3, GoodCommand, HomeRuns DEF Invoke

\* The list is read.
LEMMA HomeLoad ==
  ASSUME HomeInv, NEW t \in Threads, load_profiles(t)
  PROVE  HomeInv'
<1>1. PICK pc : cmd' = [cmd EXCEPT ![t] = Command(cmd[t].kind, pc, cmd[t].url, cmd[t].token,
                                                   memory.profiles, DOMAIN memory.profiles)]
  BY DEF load_profiles, Runs
<1>2. Fits(cmd[t].kind, cmd[t].url, cmd[t].token, memory.profiles, DOMAIN memory.profiles)
  BY DEF HomeInv, CommandGood, Fits
<1> QED
  BY <1>1, <1>2, GoodCommand, HomeRuns DEF load_profiles

\* A token is read.
LEMMA HomeGet ==
  ASSUME HomeInv, NEW t \in Threads, NEW n \in Names, keychain_get(t, n)
  PROVE  HomeInv'
<1>1. PICK pc, token :
        /\ token = keychain[n] \/ token = None
        /\ cmd' = [cmd EXCEPT ![t] =
             Command(cmd[t].kind, pc, cmd[t].url, cmd[t].token,
                     [cmd[t].list EXCEPT ![n] = Profile(cmd[t].list[n].server_url, token)], cmd[t].left \ {n})]
  BY DEF keychain_get, Runs
<1>2. PICK list : list = [cmd[t].list EXCEPT ![n] = Profile(cmd[t].list[n].server_url, token)]
  OBVIOUS
<1>3. Fits(cmd[t].kind, cmd[t].url, cmd[t].token, cmd[t].list, cmd[t].left) /\ Home(n, token)
  BY <1>1 DEF HomeInv, CommandGood, Home
<1>4. Good(list) /\ DOMAIN list = DOMAIN cmd[t].list
  <2>1. DOMAIN list = DOMAIN cmd[t].list
    BY <1>2
  <2>2. ASSUME NEW m \in DOMAIN list PROVE profile_name_for(list[m].server_url) = m /\ Home(m, list[m].token)
    <3>0. profile_name_for(cmd[t].list[m].server_url) = m /\ Home(m, cmd[t].list[m].token)
      BY <1>3, <2>1 DEF Fits, Good
    <3>1. CASE m = n
      <4>1. list[m] = Profile(cmd[t].list[m].server_url, token)
        BY <1>2, <2>1, <3>1
      <4>2. list[m].server_url = cmd[t].list[m].server_url /\ list[m].token = token
        BY SMT, <4>1 DEF Profile
      <4> QED
        BY <1>3, <3>0, <3>1, <4>2
    <3>2. CASE m # n
      <4>1. list[m] = cmd[t].list[m]
        BY <1>2, <2>1, <3>2
      <4> QED
        BY <3>0, <4>1
    <3> QED
      BY <3>1, <3>2
  <2> QED
    BY <1>3, <2>1, <2>2 DEF Good, Fits
<1>5. Fits(cmd[t].kind, cmd[t].url, cmd[t].token, list, cmd[t].left \ {n})
  BY <1>3, <1>4 DEF Fits
<1> QED
  BY <1>1, <1>2, <1>5, GoodCommand, HomeRuns DEF keychain_get

\* A list is to be saved, or its servers are refused.
LEMMA HomeEdits ==
  ASSUME HomeInv, NEW t \in Threads, NEW kind, NEW list, Edits(t, kind, list), Good(list)
  PROVE  HomeInv'
<1>0. UNCHANGED <<memory, disk, keychain>>
  BY DEF Edits, Idly
<1>1. CASE Ends(t)
  BY <1>0, <1>1, HomeEnds
<1>2. CASE \E pc : Runs(t, Command(cmd[t].kind, pc, cmd[t].url, cmd[t].token, list, DOMAIN list))
  <2>1. Fits(cmd[t].kind, cmd[t].url, cmd[t].token, list, DOMAIN list)
    BY DEF HomeInv, CommandGood, Fits
  <2>2. PICK pc : cmd' = [cmd EXCEPT ![t] = Command(cmd[t].kind, pc, cmd[t].url, cmd[t].token, list, DOMAIN list)]
    BY <1>2 DEF Runs
  <2> QED
    BY <1>0, <2>1, <2>2, GoodCommand, HomeRuns
<1> QED
  BY <1>1, <1>2 DEF Edits, Saving

\* A profile is put into a list, under the name of its server.
LEMMA UpsertIsGood ==
  ASSUME NEW list, Good(list), NEW url \in Urls, NEW token, Home(profile_name_for(url), token)
  PROVE  Good(Upserted(list, profile_name_for(url), Profile(url, token)))
<1>0. profile_name_for(url) \in Names
  BY DEF Names
<1>1. PICK up, own : own = profile_name_for(url) /\ up = Upserted(list, own, Profile(url, token))
  OBVIOUS
<1>2. /\ DOMAIN up = DOMAIN list \cup {own} /\ up[own] = Profile(url, token)
      /\ \A n \in DOMAIN list \ {own} : up[n] = list[n]
  BY <1>1 DEF Upserted
<1>3. up[own].server_url = url /\ up[own].token = token
  BY SMT, <1>2 DEF Profile
<1> QED
  BY <1>0, <1>1, <1>2, <1>3 DEF Good

\* The other things that are made of a list.
LEMMA ListsAreGood ==
  ASSUME NEW list, Good(list), NEW name
  PROVE  /\ Good(Removed(list, name)) /\ Good(SignedOut(list, name))
         /\ Good(sanitized(list)) /\ Bare(sanitized(list))
<1>2. Good(Removed(list, name))
  BY DEF Good, Removed, Restrict
<1>3. Good(SignedOut(list, name))
  <2>1. PICK out : out = SignedOut(list, name)
    OBVIOUS
  <2>2. DOMAIN out = DOMAIN list
    BY <2>1 DEF SignedOut
  <2>3. ASSUME NEW n \in DOMAIN list
        PROVE  out[n].server_url = list[n].server_url /\ (out[n].token = list[n].token \/ out[n].token = None)
    <3>1. out[n] = list[n] \/ out[n] = Profile(list[n].server_url, None)
      BY <2>1 DEF SignedOut
    <3> QED
      BY SMT, <3>1 DEF Profile
  <2> QED
    BY <2>1, <2>2, <2>3 DEF Good, Home
<1>4. Good(sanitized(list)) /\ Bare(sanitized(list))
  <2>1. PICK out : out = sanitized(list)
    OBVIOUS
  <2>2. DOMAIN out = DOMAIN list /\ \A n \in DOMAIN list : out[n] = Profile(list[n].server_url, None)
    BY <2>1 DEF sanitized
  <2>3. \A n \in DOMAIN list : out[n].server_url = list[n].server_url /\ out[n].token = None
    BY SMT, <2>2 DEF Profile
  <2> QED
    BY <2>1, <2>2, <2>3 DEF Good, Bare, Home
<1> QED
  BY <1>2, <1>3, <1>4

\* A token is written or deleted, or that fails.
LEMMA HomePut ==
  ASSUME HomeInv, NEW t \in Threads, NEW n \in Names, keychain_put(t, n)
  PROVE  HomeInv'
<1>1. Fits(cmd[t].kind, cmd[t].url, cmd[t].token, cmd[t].list, cmd[t].left) /\ n \in cmd[t].left
  BY DEF HomeInv, CommandGood, keychain_put
<1>2. Home(n, cmd[t].list[n].token)
  BY <1>1 DEF Fits, Good
<1>3. keychain' = keychain \/ keychain' = [keychain EXCEPT ![n] = cmd[t].list[n].token]
  BY DEF keychain_put, keychain_delete
<1>4. DOMAIN keychain' = Names /\ \A m \in Names : Home(m, keychain'[m])
  <2>1. DOMAIN keychain = Names /\ \A m \in Names : Home(m, keychain[m])
    BY DEF HomeInv
  <2> QED
    BY <1>2, <1>3, <2>1
<1>5. UNCHANGED <<memory, disk>>
  BY DEF keychain_put
<1>6. \E c : CommandGood(c) /\ cmd' = [cmd EXCEPT ![t] = c]
  <2>1. CASE Ends(t)
    BY <2>1, IdleIsGood DEF Ends
  <2>2. CASE \E pc : Runs(t, Command(cmd[t].kind, pc, cmd[t].url, cmd[t].token, cmd[t].list, cmd[t].left \ {n}))
    <3>1. Fits(cmd[t].kind, cmd[t].url, cmd[t].token, cmd[t].list, cmd[t].left \ {n})
      BY <1>1 DEF Fits
    <3> QED
      BY <2>2, <3>1, GoodCommand DEF Runs
  <2> QED
    BY <2>1, <2>2 DEF keychain_put
<1> QED
  BY <1>4, <1>5, <1>6, HomeMoves DEF HomeInv

\* The settings change.
LEMMA HomeSave ==
  ASSUME HomeInv, NEW t \in Threads, save_profiles(t) \/ set_active_profile_name(t)
  PROVE  HomeInv'
<1>1. UNCHANGED keychain /\ (disk' = memory' \/ disk' = disk)
  BY DEF save_profiles, set_active_profile_name
<1>2. Good(memory'.profiles) /\ Bare(memory'.profiles)
  <2>1. CASE save_profiles(t)
    <3>1. memory'.profiles = sanitized(cmd[t].list)
      <4>1. memory' = Settings(sanitized(cmd[t].list), memory.active)
        BY <2>1 DEF save_profiles
      <4> QED
        BY <4>1 DEF Settings
    <3>2. Good(cmd[t].list)
      BY DEF HomeInv, CommandGood, Fits
    <3> QED
      BY <3>1, <3>2, ListsAreGood
  <2>2. CASE set_active_profile_name(t)
    <3>1. PICK name : memory' = Settings(memory.profiles, name)
      BY <2>2 DEF set_active_profile_name
    <3>2. memory'.profiles = memory.profiles
      BY <3>1 DEF Settings
    <3> QED
      BY <3>2 DEF HomeInv
  <2> QED
    BY <2>1, <2>2
<1>3. Good(disk'.profiles) /\ Bare(disk'.profiles)
  BY <1>1, <1>2 DEF HomeInv
<1>4. PICK c : CommandGood(c) /\ cmd' = [cmd EXCEPT ![t] = c]
  <2>1. CASE Ends(t)
    BY <2>1, IdleIsGood DEF Ends
  <2>2. CASE Runs(t, At(cmd[t], "active"))
    BY <2>2, AtIsGood DEF Runs, HomeInv
  <2> QED
    BY <2>1, <2>2 DEF save_profiles, set_active_profile_name, Returns
<1> QED
  BY <1>1, <1>2, <1>3, <1>4, HomeMoves DEF HomeInv

\* A login is answered: the token is of the server that was asked.
LEMMA HomeLogin ==
  ASSUME HomeInv, NEW t \in Threads, perform_login(t)
  PROVE  HomeInv'
<1>0. UNCHANGED <<memory, disk, keychain>>
  BY DEF perform_login, Idly
<1>1. CASE Ends(t)
  BY <1>0, <1>1, HomeEnds
<1>2. CASE Runs(t, Command(cmd[t].kind, "load", cmd[t].url, Token(cmd[t].url, commands), cmd[t].list, cmd[t].left))
  <2>1. Token(cmd[t].url, commands).server = cmd[t].url
    BY DEF Token
  <2>2. Fits(cmd[t].kind, cmd[t].url, Token(cmd[t].url, commands), cmd[t].list, cmd[t].left)
    BY <2>1 DEF HomeInv, CommandGood, Fits, Home
  <2> QED
    BY <1>0, <1>2, <2>2, GoodCommand, HomeRuns DEF Runs
<1> QED
  BY <1>1, <1>2 DEF perform_login

\* The commands edit their lists.
LEMMA HomeEditing ==
  ASSUME HomeInv, NEW t \in Threads,
         upsert_profile(t) \/ save_profile(t) \/ remove_profile(t) \/ logout(t)
  PROVE  HomeInv'
<1>1. Fits(cmd[t].kind, cmd[t].url, cmd[t].token, cmd[t].list, cmd[t].left)
  BY DEF HomeInv, CommandGood
<1>2. CASE upsert_profile(t) \/ save_profile(t)
  <2>1. Edits(t, cmd[t].kind, Upserted(cmd[t].list, profile_name_for(cmd[t].url), Profile(cmd[t].url, cmd[t].token)))
        /\ cmd[t].kind \in WithUrl
    BY <1>2 DEF upsert_profile, save_profile, upsert, Edits, WithUrl
  <2>2. Good(Upserted(cmd[t].list, profile_name_for(cmd[t].url), Profile(cmd[t].url, cmd[t].token)))
    BY <1>1, <2>1, UpsertIsGood DEF Fits
  <2> QED
    BY <2>1, <2>2, HomeEdits
<1>3. CASE remove_profile(t)
  BY <1>1, <1>3, ListsAreGood, HomeEdits DEF remove_profile, Fits
<1>4. CASE logout(t)
  BY <1>1, <1>4, ListsAreGood, HomeEdits DEF logout, Fits
<1> QED
  BY <1>2, <1>3, <1>4

\* The active profile is found, with its token.
LEMMA HomeActive ==
  ASSUME HomeInv, NEW t \in Threads, load_active_profile(t)
  PROVE  HomeInv'
<1>0. UNCHANGED <<memory, disk, keychain>>
  BY DEF load_active_profile, Idly
<1>1. CASE Ends(t)
  BY <1>0, <1>1, HomeEnds
<1>2. CASE ~Ends(t)
  <2>1. PICK active : active = cmd[t].list[memory.active]
    OBVIOUS
  <2>2. PICK pc : cmd' = [cmd EXCEPT ![t] = Command(cmd[t].kind, pc, active.server_url, active.token, NoProfiles, {})]
    BY <1>2, <2>1 DEF load_active_profile, Runs
  <2>3. memory.active \in DOMAIN cmd[t].list /\ Good(cmd[t].list)
    BY <1>2 DEF load_active_profile, HomeInv, CommandGood, Fits
  <2>4. Home(profile_name_for(active.server_url), active.token)
    BY <2>1, <2>3 DEF Good
  <2>5. cmd[t].kind \notin WithUrl
    <3>1. cmd[t].kind \in {"get_session", "upload_file", "download_image"}
      BY SMT DEF load_active_profile
    <3> QED
      BY <3>1 DEF WithUrl
  <2>6. Fits(cmd[t].kind, active.server_url, active.token, NoProfiles, {})
    BY <2>4, <2>5, IdleIsGood DEF Fits
  <2> QED
    BY <1>0, <2>2, <2>6, GoodCommand, HomeRuns
<1> QED
  BY <1>1, <1>2

\* Transfers.
LEMMA HomeTransfer ==
  ASSUME HomeInv, NEW t \in Threads, UNCHANGED <<memory, disk, keychain>>,
         \/ UNCHANGED cmd
         \/ Ends(t)
         \/ \E pc, x : Goes(t, pc, x)
  PROVE  HomeInv'
<1>1. CASE UNCHANGED cmd
  BY <1>1, HomeStays
<1>2. CASE Ends(t)
  BY <1>2, HomeEnds
<1>3. ASSUME NEW pc, NEW x, Goes(t, pc, x) PROVE HomeInv'
  BY <1>3, AtIsGood, HomeRuns DEF Goes, HomeInv
<1> QED
  BY <1>1, <1>2, <1>3

\* The steps of a transfer.
TransferStep(t) ==
  \/ \E status \in {"success", "failure"} : ServerAnswers(t, status)
  \/ ConnectionBreaks(t) \/ open_file(t) \/ send_chunk(t) \/ perform_upload(t)
  \/ resolve_link(t) \/ create_file(t) \/ write_chunk(t) \/ DiskWrites(t) \/ perform_download(t)

\* None touches the settings or the keychain.
LEMMA TransferSteps ==
  ASSUME NEW t, TransferStep(t)
  PROVE  /\ UNCHANGED <<memory, disk, keychain, commands>> /\ (promised' = promised \/ promised' = None)
         /\ UNCHANGED cmd \/ Ends(t) \/ \E pc \in {"sending", "fetch", "streaming", "idle"} : \E x : Goes(t, pc, x)
<1>1. CASE \E status \in {"success", "failure"} : ServerAnswers(t, status)
  BY <1>1 DEF ServerAnswers, Passes, Idly
<1>2. CASE ConnectionBreaks(t)
  BY <1>2 DEF ConnectionBreaks, Idly
<1>3. CASE open_file(t) \/ send_chunk(t)
  BY <1>3 DEF open_file, send_chunk, Passes, Idly
<1>4. CASE perform_upload(t)
  BY <1>4 DEF perform_upload, Answers, Idly
<1>5. CASE resolve_link(t) \/ create_file(t)
  BY <1>5 DEF resolve_link, create_file, Idly
<1>6. CASE write_chunk(t) \/ DiskWrites(t)
  BY <1>6 DEF write_chunk, DiskWrites, Passes, Fine, Fault, Idly
<1>7. CASE perform_download(t)
  BY <1>7 DEF perform_download, Answers, Idly
<1> QED
  BY <1>1, <1>2, <1>3, <1>4, <1>5, <1>6, <1>7 DEF TransferStep

\* The program starts again, or the settings are written out.
LEMMA HomeRestart ==
  ASSUME HomeInv, Restart \/ Autosave
  PROVE  HomeInv'
<1>1. CASE Restart
  <2>1. /\ memory' = disk /\ UNCHANGED <<disk, keychain>> /\ DOMAIN cmd' = Threads
        /\ \A t \in Threads : cmd'[t] = Idle
    BY <1>1 DEF Restart
  <2>2. \A t \in Threads : CommandGood(cmd'[t])
    BY <2>1, IdleIsGood
  <2>3. \A t \in Threads : CommandGood(cmd[t])'
    BY <2>2 DEF CommandGood
  <2> QED
    BY <2>1, <2>3 DEF HomeInv
<1>2. CASE Autosave
  BY <1>2 DEF Autosave, HomeInv
<1> QED
  BY <1>1, <1>2

\* Every step keeps tokens at home.
LEMMA NextHome == HomeInv /\ [Next]_vars => HomeInv'
<1> SUFFICES ASSUME HomeInv, [Next]_vars PROVE HomeInv'
  OBVIOUS
<1>1. CASE UNCHANGED vars
  BY <1>1, HomeStays DEF vars
<1>2. CASE Autosave \/ Restart
  BY <1>2, HomeRestart
<1>3. ASSUME NEW t \in Threads, NEW kind, NEW u \in Urls \cup {None}, NEW token, Invoke(t, kind, u, token)
      PROVE  HomeInv'
  BY <1>3, HomeInvoke
<1>4. ASSUME NEW t \in Threads, NEW n \in Names, keychain_get(t, n) \/ keychain_put(t, n)
      PROVE  HomeInv'
  BY <1>4, HomeGet, HomePut
<1>5. ASSUME NEW t \in Threads, load_profiles(t) \/ save_profiles(t) \/ set_active_profile_name(t) \/ perform_login(t)
      PROVE  HomeInv'
  BY <1>5, HomeLoad, HomeSave, HomeLogin
<1>6. ASSUME NEW t \in Threads,
             upsert_profile(t) \/ save_profile(t) \/ remove_profile(t) \/ logout(t)
      PROVE  HomeInv'
  BY <1>6, HomeEditing
<1>7. ASSUME NEW t \in Threads, list_profiles(t) \/ load_active_profile(t) PROVE HomeInv'
  BY <1>7, HomeActive, HomeEnds DEF list_profiles, Idly
<1>8. ASSUME NEW t \in Threads, TransferStep(t) PROVE HomeInv'
  BY <1>8, TransferSteps, HomeTransfer
<1> QED
  BY <1>1, <1>2, <1>3, <1>4, <1>5, <1>6, <1>7, <1>8 DEF Next, TransferStep

-----------------------------------------------------------------------------
(* Transfers.                                                              *)

\* The parts of a transfer.
LEMMA TransferFields ==
  ASSUME NEW a, NEW b, NEW c, NEW d, NEW e
  PROVE  /\ Transfer(a, b, c, d, e).status = a /\ Transfer(a, b, c, d, e).sent = b
         /\ Transfer(a, b, c, d, e).written = c /\ Transfer(a, b, c, d, e).torn = d
         /\ Transfer(a, b, c, d, e).answer = e
BY DEF Transfer

\* The parts of a command that is at another step.
LEMMA AtFields ==
  ASSUME NEW c, NEW pc
  PROVE  /\ At(c, pc).kind = c.kind /\ At(c, pc).pc = pc /\ At(c, pc).url = c.url
         /\ At(c, pc).token = c.token /\ At(c, pc).list = c.list /\ At(c, pc).left = c.left
BY SMT DEF At, Command

\* What a command without a transfer is at.
Elsewhere == {"idle", "network", "load", "get", "edit", "put", "store", "active"}

\* Nothing is sent, written or answered yet.
LEMMA NoneYet ==
  ASSUME NEW kind, NEW pc,
         \/ pc \in Elsewhere
         \/ kind = "upload_file" /\ pc = "open"
         \/ kind = "download_image" /\ pc = "link"
  PROVE  Stage(kind, pc, NoTransfer)
<1>1. Stage(kind, pc, Transfer("none", 0, 0, FALSE, "none"))
  BY SMT, DesktopAssumption DEF Stage, Transfer, Elsewhere
<1> QED
  BY <1>1 DEF NoTransfer

\* No command, no transfer.
LEMMA IdleStage == Stage(Idle.kind, Idle.pc, NoTransfer)
<1>1. Idle.pc = "idle"
  BY SMT DEF Idle, Command
<1> QED
  BY <1>1, NoneYet DEF Elsewhere

\* A step of one command and its transfer.
LEMMA StageMoves ==
  ASSUME TransferInv, NEW t \in Threads, DOMAIN cmd' = Threads, DOMAIN transfer' = Threads,
         \A u \in Threads : u # t => cmd'[u] = cmd[u] /\ transfer'[u] = transfer[u],
         Stage(cmd'[t].kind, cmd'[t].pc, transfer'[t])
  PROVE  TransferInv'
<1>2. \A u \in Threads : Stage(cmd'[u].kind, cmd'[u].pc, transfer'[u])
  <2> SUFFICES ASSUME NEW u \in Threads PROVE Stage(cmd'[u].kind, cmd'[u].pc, transfer'[u])
    OBVIOUS
  <2>1. CASE u = t
    BY <2>1
  <2>2. CASE u # t
    BY <2>2 DEF TransferInv
  <2> QED
    BY <2>1, <2>2
<1>3. \A u \in Threads : Stage(cmd[u].kind, cmd[u].pc, transfer[u])'
  BY <1>2 DEF Stage
<1> QED
  BY <1>3 DEF TransferInv

\* A step that leaves commands and transfers alone.
LEMMA StageStays ==
  ASSUME TransferInv, UNCHANGED <<cmd, transfer>>
  PROVE  TransferInv'
BY DEF TransferInv, Stage

\* A command is over.
LEMMA StageEnds ==
  ASSUME TransferInv, NEW t \in Threads, Ends(t)
  PROVE  TransferInv'
<1>1. cmd'[t] = Idle /\ transfer'[t] = NoTransfer
  BY DEF Ends, TransferInv
<1>2. Stage(cmd'[t].kind, cmd'[t].pc, transfer'[t])
  BY <1>1, IdleStage
<1> QED
  BY <1>2, StageMoves DEF Ends, TransferInv

\* A command without a transfer goes on to another step without one.
LEMMA StageRuns ==
  ASSUME TransferInv, NEW t \in Threads, NEW pc, NEW url, NEW token, NEW list, NEW left,
         Runs(t, Command(cmd[t].kind, pc, url, token, list, left)),
         cmd[t].pc \in Elsewhere \ {"idle"},
         \/ pc \in Elsewhere
         \/ cmd[t].kind = "upload_file" /\ pc = "open"
         \/ cmd[t].kind = "download_image" /\ pc = "link"
  PROVE  TransferInv'
<1>1. Stage(cmd[t].kind, cmd[t].pc, transfer[t])
  BY DEF TransferInv
<1>2. Stage(cmd[t].kind, pc, transfer[t])
  BY SMT, <1>1 DEF Stage, Elsewhere
<1>3. transfer'[t] = transfer[t] /\ cmd'[t] = Command(cmd[t].kind, pc, url, token, list, left)
  BY DEF Runs, TransferInv
<1>4. cmd'[t].kind = cmd[t].kind /\ cmd'[t].pc = pc
  BY SMT, <1>3 DEF Command
<1>5. Stage(cmd'[t].kind, cmd'[t].pc, transfer'[t])
  BY <1>2, <1>3, <1>4
<1> QED
  BY <1>5, StageMoves DEF Runs, TransferInv

\* A transfer goes on at the same stage.
LEMMA StagePasses ==
  ASSUME TransferInv, NEW t \in Threads, NEW x, Passes(t, x), Stage(cmd[t].kind, cmd[t].pc, x)
  PROVE  TransferInv'
<1>1. Stage(cmd'[t].kind, cmd'[t].pc, transfer'[t])
  BY DEF Passes, TransferInv
<1> QED
  BY <1>1, StageMoves DEF Passes, TransferInv

\* A transfer goes to the next stage.
LEMMA StageGoes ==
  ASSUME TransferInv, NEW t \in Threads, NEW pc, NEW x, Goes(t, pc, x), Stage(cmd[t].kind, pc, x)
  PROVE  TransferInv'
<1>1. cmd'[t] = At(cmd[t], pc) /\ transfer'[t] = x
  BY DEF Goes, TransferInv
<1>2. cmd'[t].kind = cmd[t].kind /\ cmd'[t].pc = pc
  BY SMT, <1>1, AtFields
<1>3. Stage(cmd'[t].kind, cmd'[t].pc, transfer'[t])
  BY <1>1, <1>2
<1> QED
  BY <1>3, StageMoves DEF Goes, TransferInv

\* A command begins, at a step without a transfer.
LEMMA StageInvoke ==
  ASSUME TransferInv, NEW t \in Threads, NEW kind, NEW url, NEW token, Invoke(t, kind, url, token)
  PROVE  TransferInv'
<1>1. kind \in DOMAIN FirstStep
  BY DEF Invoke, FirstStep
<1>2. FirstStep[kind] \in Elsewhere
  BY SMT, <1>1 DEF FirstStep, Elsewhere
<1>3. transfer'[t] = NoTransfer /\ cmd'[t] = Command(kind, FirstStep[kind], url, token, NoProfiles, {})
  BY DEF Invoke, TransferInv
<1>4. cmd'[t].pc = FirstStep[kind]
  BY SMT, <1>3 DEF Command
<1>5. Stage(cmd'[t].kind, cmd'[t].pc, transfer'[t])
  BY <1>2, <1>3, <1>4, NoneYet
<1> QED
  BY <1>5, StageMoves DEF Invoke, TransferInv

\* The steps on profiles.
LEMMA StageProfiles ==
  ASSUME TransferInv, NEW t \in Threads,
         \/ load_profiles(t) \/ save_profiles(t) \/ set_active_profile_name(t)
         \/ \E n \in Names : keychain_get(t, n) \/ keychain_put(t, n)
         \/ perform_login(t) \/ upsert_profile(t) \/ save_profile(t) \/ remove_profile(t) \/ logout(t)
         \/ list_profiles(t) \/ load_active_profile(t)
  PROVE  TransferInv'
<1>1. CASE load_profiles(t)
  <2>1. PICK pc, list, left : /\ Runs(t, Command(cmd[t].kind, pc, cmd[t].url, cmd[t].token, list, left))
                              /\ pc \in Elsewhere /\ cmd[t].pc = "load"
    BY <1>1 DEF load_profiles, Elsewhere
  <2> QED
    BY <2>1, StageRuns DEF Elsewhere
<1>2. CASE save_profiles(t)
  <2>1. Ends(t) \/ Runs(t, At(cmd[t], "active"))
    BY <1>2 DEF save_profiles, Returns
  <2> QED
    BY <1>2, <2>1, StageEnds, StageRuns DEF Elsewhere, save_profiles, At
<1>3. CASE set_active_profile_name(t)
  BY <1>3, StageEnds DEF set_active_profile_name, Returns
<1>4. ASSUME NEW n \in Names, keychain_get(t, n) PROVE TransferInv'
  <2>1. PICK pc, list, left : /\ Runs(t, Command(cmd[t].kind, pc, cmd[t].url, cmd[t].token, list, left))
                              /\ pc \in Elsewhere /\ cmd[t].pc = "get"
    BY <1>4 DEF keychain_get, Elsewhere
  <2> QED
    BY <2>1, StageRuns DEF Elsewhere
<1>5. ASSUME NEW n \in Names, keychain_put(t, n) PROVE TransferInv'
  <2>1. CASE Ends(t)
    BY <2>1, StageEnds
  <2>2. CASE ~Ends(t)
    <3>1. PICK pc, list, left : /\ Runs(t, Command(cmd[t].kind, pc, cmd[t].url, cmd[t].token, list, left))
                                /\ pc \in Elsewhere /\ cmd[t].pc = "put"
      BY <1>5, <2>2 DEF keychain_put, Elsewhere
    <3> QED
      BY <3>1, StageRuns DEF Elsewhere
  <2> QED
    BY <2>1, <2>2
<1>6. CASE perform_login(t)
  BY <1>6, StageEnds, StageRuns DEF perform_login, Elsewhere
<1>7. CASE upsert_profile(t) \/ save_profile(t) \/ remove_profile(t) \/ logout(t)
  <2>1. PICK kind, list : Edits(t, kind, list)
    BY <1>7 DEF upsert_profile, save_profile, remove_profile, logout
  <2>2. CASE Ends(t)
    BY <2>2, StageEnds
  <2>3. CASE ~Ends(t)
    <3>1. PICK pc, left : /\ Runs(t, Command(cmd[t].kind, pc, cmd[t].url, cmd[t].token, list, left))
                          /\ pc \in Elsewhere /\ cmd[t].pc = "edit"
      BY <2>1, <2>3 DEF Edits, Saving, Elsewhere
    <3> QED
      BY <3>1, StageRuns DEF Elsewhere
  <2> QED
    BY <2>2, <2>3
<1>8. CASE list_profiles(t)
  BY <1>8, StageEnds DEF list_profiles
<1>9. CASE load_active_profile(t)
  <2>1. CASE Ends(t)
    BY <2>1, StageEnds
  <2>2. CASE ~Ends(t)
    <3>1. PICK pc, url, token :
            /\ Runs(t, Command(cmd[t].kind, pc, url, token, NoProfiles, {})) /\ cmd[t].pc = "edit"
            /\ pc = [get_session |-> "idle", upload_file |-> "open", download_image |-> "link"][cmd[t].kind]
            /\ cmd[t].kind \in DOMAIN [get_session |-> "idle", upload_file |-> "open", download_image |-> "link"]
      BY <1>9, <2>2 DEF load_active_profile
    <3>2. \/ pc \in Elsewhere
          \/ cmd[t].kind = "upload_file" /\ pc = "open"
          \/ cmd[t].kind = "download_image" /\ pc = "link"
      BY SMT, <3>1 DEF Elsewhere
    <3> QED
      BY <3>1, <3>2, StageRuns DEF Elsewhere
  <2> QED
    BY <2>1, <2>2
<1> QED
  BY <1>1, <1>2, <1>3, <1>4, <1>5, <1>6, <1>7, <1>8, <1>9

\* The steps of transfers.
LEMMA StageTransfers ==
  ASSUME TransferInv, NEW t \in Threads, TransferStep(t)
  PROVE  TransferInv'
<1>1. PICK kind, pc, x : kind = cmd[t].kind /\ pc = cmd[t].pc /\ x = transfer[t]
  OBVIOUS
<1>2. Stage(kind, pc, x)
  BY <1>1 DEF TransferInv
<1>3. ASSUME NEW status \in {"success", "failure"}, ServerAnswers(t, status) PROVE TransferInv'
  <2>1. Stage(kind, pc, Transfer(status, x.sent, x.written, x.torn, x.answer))
    <3>1. pc \in {"sending", "link", "fetch"} /\ (pc = "sending" /\ status = "success" => x.sent = Chunks)
      BY <1>1, <1>3 DEF ServerAnswers
    <3> QED
      BY SMT, <1>2, <3>1 DEF Stage, Transfer
  <2> QED
    BY <1>1, <1>3, <2>1, StagePasses DEF ServerAnswers
<1>4. CASE ConnectionBreaks(t)
  BY <1>4, StageEnds DEF ConnectionBreaks
<1>5. CASE open_file(t)
  <2>1. pc = "open"
    BY <1>1, <1>5 DEF open_file
  <2>2. Stage(kind, "sending", x)
    BY SMT, <1>2, <2>1 DEF Stage
  <2> QED
    BY <1>1, <1>5, <2>2, StageEnds, StageGoes DEF open_file
<1>6. CASE send_chunk(t)
  <2>1. pc = "sending" /\ x.status = "none" /\ x.sent < Chunks
    BY <1>1, <1>6 DEF send_chunk
  <2>2. Stage(kind, pc, Transfer(x.status, x.sent + 1, x.written, x.torn, x.answer))
    BY SMT, <1>2, <2>1, DesktopAssumption DEF Stage, Transfer
  <2> QED
    BY <1>1, <1>6, <2>2, StagePasses DEF send_chunk
<1>7. CASE perform_upload(t)
  <2>1. CASE Ends(t)
    BY <2>1, StageEnds
  <2>2. CASE ~Ends(t)
    <3>1. pc = "sending" /\ x.status = "success" /\ Goes(t, "idle", Transfer(x.status, x.sent, x.written, x.torn, "Ok"))
      BY <1>1, <1>7, <2>2 DEF perform_upload, is_success, Answers
    <3>2. Stage(kind, "idle", Transfer(x.status, x.sent, x.written, x.torn, "Ok"))
      BY SMT, <1>2, <3>1 DEF Stage, Transfer
    <3> QED
      BY <1>1, <3>1, <3>2, StageGoes
  <2> QED
    BY <2>1, <2>2
<1>8. CASE resolve_link(t)
  <2>1. CASE Ends(t)
    BY <2>1, StageEnds
  <2>2. CASE ~Ends(t)
    <3>1. pc = "link" /\ Goes(t, "fetch", Transfer("none", x.sent, x.written, x.torn, x.answer))
      BY <1>1, <1>8, <2>2 DEF resolve_link
    <3>2. Stage(kind, "fetch", Transfer("none", x.sent, x.written, x.torn, x.answer))
      BY SMT, <1>2, <3>1 DEF Stage, Transfer
    <3> QED
      BY <1>1, <3>1, <3>2, StageGoes
  <2> QED
    BY <2>1, <2>2
<1>9. CASE create_file(t)
  <2>1. CASE Ends(t)
    BY <2>1, StageEnds
  <2>2. CASE ~Ends(t)
    <3>1. pc = "fetch" /\ x.status = "success" /\ Goes(t, "streaming", x)
      BY <1>1, <1>9, <2>2 DEF create_file, is_success
    <3>2. Stage(kind, "streaming", x)
      BY SMT, <1>2, <3>1 DEF Stage
    <3> QED
      BY <1>1, <3>1, <3>2, StageGoes
  <2> QED
    BY <2>1, <2>2
<1>10. CASE write_chunk(t)
  <2>1. CASE Ends(t)
    BY <2>1, StageEnds
  <2>2. CASE ~Ends(t)
    <3>1. /\ pc = "streaming" /\ x.sent < Chunks /\ x.written = x.sent
          /\ Passes(t, Transfer(x.status, x.sent + 1, x.written, x.torn, x.answer))
      BY <1>1, <1>10, <2>2 DEF write_chunk
    <3>2. Stage(kind, pc, Transfer(x.status, x.sent + 1, x.written, x.torn, x.answer))
      BY SMT, <1>2, <3>1, DesktopAssumption DEF Stage, Transfer
    <3> QED
      BY <1>1, <3>1, <3>2, StagePasses
  <2> QED
    BY <2>1, <2>2
<1>11. CASE DiskWrites(t)
  <2>1. \/ Passes(t, Transfer(x.status, x.sent, x.written + 1, x.torn, x.answer))
        \/ Passes(t, Transfer(x.status, x.sent, x.written, TRUE, x.answer))
    BY <1>1, <1>11 DEF DiskWrites
  <2>2. /\ Stage(kind, pc, Transfer(x.status, x.sent, x.written + 1, x.torn, x.answer))
        /\ Stage(kind, pc, Transfer(x.status, x.sent, x.written, TRUE, x.answer))
    BY SMT, <1>2, DesktopAssumption DEF Stage, Transfer
  <2> QED
    BY <1>1, <2>1, <2>2, StagePasses
<1>12. CASE perform_download(t)
  <2>1. /\ pc = "streaming" /\ x.sent = Chunks
        /\ Goes(t, "idle", Transfer(x.status, x.sent, x.written, x.torn, "Ok"))
    BY <1>1, <1>12 DEF perform_download, Answers
  <2>2. Stage(kind, "idle", Transfer(x.status, x.sent, x.written, x.torn, "Ok"))
    BY SMT, <1>2, <2>1 DEF Stage, Transfer
  <2> QED
    BY <1>1, <2>1, <2>2, StageGoes
<1> QED
  BY <1>3, <1>4, <1>5, <1>6, <1>7, <1>8, <1>9, <1>10, <1>11, <1>12 DEF TransferStep

\* Every step keeps transfers at their stages.
LEMMA NextTransfer == TransferInv /\ [Next]_vars => TransferInv'
<1> SUFFICES ASSUME TransferInv, [Next]_vars PROVE TransferInv'
  OBVIOUS
<1>1. CASE UNCHANGED vars \/ Autosave
  BY <1>1, StageStays DEF vars, Autosave
<1>2. CASE Restart
  <2>1. /\ DOMAIN cmd' = Threads /\ \A t \in Threads : cmd'[t] = Idle
        /\ DOMAIN transfer' = Threads /\ \A t \in Threads : transfer'[t] = NoTransfer
    BY <1>2 DEF Restart
  <2>2. \A u \in Threads : Stage(cmd[u].kind, cmd[u].pc, transfer[u])'
    <3>1. \A u \in Threads : Stage(cmd'[u].kind, cmd'[u].pc, transfer'[u])
      BY <2>1, IdleStage
    <3> QED
      BY <3>1 DEF Stage
  <2> QED
    BY <2>1, <2>2 DEF TransferInv
<1>3. ASSUME NEW t \in Threads, NEW kind, NEW u, NEW token, Invoke(t, kind, u, token) PROVE TransferInv'
  BY <1>3, StageInvoke
<1>4. ASSUME NEW t \in Threads,
             \/ load_profiles(t) \/ save_profiles(t) \/ set_active_profile_name(t)
             \/ \E n \in Names : keychain_get(t, n) \/ keychain_put(t, n)
             \/ perform_login(t) \/ upsert_profile(t) \/ save_profile(t) \/ remove_profile(t) \/ logout(t)
             \/ list_profiles(t) \/ load_active_profile(t)
      PROVE  TransferInv'
  BY <1>4, StageProfiles
<1>5. ASSUME NEW t \in Threads, TransferStep(t) PROVE TransferInv'
  BY <1>5, StageTransfers
<1> QED
  BY <1>1, <1>2, <1>3, <1>4, <1>5 DEF Next, TransferStep

-----------------------------------------------------------------------------
(* Which commands run where.                                               *)

\* A step of one command.
LEMMA PlaceMoves ==
  ASSUME PlaceInv, NEW t \in Threads, DOMAIN cmd' = Threads,
         \A u \in Threads : u # t => cmd'[u] = cmd[u],
         Placed(t, cmd'[t].kind, cmd'[t].pc),
         memory' = Settings(memory'.profiles, memory'.active), disk' = memory' \/ disk' = disk
  PROVE  PlaceInv'
<1>1. \A u \in Threads : Placed(u, cmd'[u].kind, cmd'[u].pc)
  <2> SUFFICES ASSUME NEW u \in Threads PROVE Placed(u, cmd'[u].kind, cmd'[u].pc)
    OBVIOUS
  <2>1. CASE u = t
    BY <2>1
  <2>2. CASE u # t
    BY <2>2 DEF PlaceInv
  <2> QED
    BY <2>1, <2>2
<1>2. \A u \in Threads : Placed(u, cmd[u].kind, cmd[u].pc)'
  BY <1>1 DEF Placed
<1>3. disk' = Settings(disk'.profiles, disk'.active)
  BY DEF PlaceInv
<1> QED
  BY <1>2, <1>3 DEF PlaceInv

\* A command is over.
LEMMA PlaceEnds ==
  ASSUME PlaceInv, NEW t \in Threads, Ends(t),
         memory' = Settings(memory'.profiles, memory'.active), disk' = memory' \/ disk' = disk
  PROVE  PlaceInv'
<1>1. cmd'[t] = Idle
  BY DEF Ends, PlaceInv
<1>2. cmd'[t].kind = "none" /\ cmd'[t].pc = "idle"
  BY SMT, <1>1 DEF Idle, Command
<1>3. Placed(t, cmd'[t].kind, cmd'[t].pc)
  BY SMT, <1>2 DEF Placed, OnMain
<1> QED
  BY <1>3, PlaceMoves DEF Ends, PlaceInv

\* A command goes to another step.
LEMMA PlaceRuns ==
  ASSUME PlaceInv, NEW t \in Threads, NEW pc, NEW url, NEW token, NEW list, NEW left,
         cmd' = [cmd EXCEPT ![t] = Command(cmd[t].kind, pc, url, token, list, left)],
         Placed(t, cmd[t].kind, cmd[t].pc) => Placed(t, cmd[t].kind, pc),
         memory' = Settings(memory'.profiles, memory'.active), disk' = memory' \/ disk' = disk
  PROVE  PlaceInv'
<1>1. cmd'[t] = Command(cmd[t].kind, pc, url, token, list, left)
  BY DEF PlaceInv
<1>2. cmd'[t].kind = cmd[t].kind /\ cmd'[t].pc = pc
  BY SMT, <1>1 DEF Command
<1>3. Placed(t, cmd'[t].kind, cmd'[t].pc)
  BY <1>2 DEF PlaceInv
<1> QED
  BY <1>3, PlaceMoves DEF PlaceInv

\* A step that leaves commands and settings alone.
LEMMA PlaceStays ==
  ASSUME PlaceInv, UNCHANGED <<cmd, memory, disk>>
  PROVE  PlaceInv'
BY DEF PlaceInv, Placed

\* A command begins.
LEMMA PlaceInvoke ==
  ASSUME PlaceInv, NEW t \in Threads, NEW kind, NEW url, NEW token, Invoke(t, kind, url, token)
  PROVE  PlaceInv'
<1>1. /\ kind \in DOMAIN FirstStep
      /\ kind \in {"login", "upload_file", "download_image"} <=> t # Main
  BY DEF Invoke, FirstStep
<1>2. Placed(t, kind, FirstStep[kind])
  BY SMT, <1>1 DEF FirstStep, Placed, OnMain, Listers, Readers
<1>3. cmd'[t] = Command(kind, FirstStep[kind], url, token, NoProfiles, {})
  BY DEF Invoke, PlaceInv
<1>4. cmd'[t].kind = kind /\ cmd'[t].pc = FirstStep[kind]
  BY SMT, <1>3 DEF Command
<1>5. Placed(t, cmd'[t].kind, cmd'[t].pc)
  BY <1>2, <1>4
<1> QED
  BY <1>5, PlaceMoves DEF Invoke, PlaceInv

\* The steps on profiles.
LEMMA PlaceProfiles ==
  ASSUME PlaceInv, NEW t \in Threads,
         \/ load_profiles(t) \/ save_profiles(t) \/ set_active_profile_name(t)
         \/ \E n \in Names : keychain_get(t, n) \/ keychain_put(t, n)
         \/ perform_login(t) \/ upsert_profile(t) \/ save_profile(t) \/ remove_profile(t) \/ logout(t)
         \/ list_profiles(t) \/ load_active_profile(t)
  PROVE  PlaceInv'
<1>0. /\ memory' = Settings(memory'.profiles, memory'.active)
      /\ disk' = memory' \/ disk' = disk
  <2>1. CASE save_profiles(t) \/ set_active_profile_name(t)
    <3>1. PICK a, b : memory' = Settings(a, b)
      BY <2>1 DEF save_profiles, set_active_profile_name
    <3>2. disk' = memory' \/ disk' = disk
      BY <2>1 DEF save_profiles, set_active_profile_name
    <3>3. memory'.profiles = a /\ memory'.active = b
      BY SMT, <3>1 DEF Settings
    <3> QED
      BY <3>1, <3>2, <3>3
  <2>2. CASE ~(save_profiles(t) \/ set_active_profile_name(t))
    <3>1. UNCHANGED <<memory, disk>>
      BY <2>2 DEF load_profiles, keychain_get, keychain_put, perform_login, upsert_profile, save_profile,
                  remove_profile, logout, list_profiles, load_active_profile, Edits, Idly
    <3> QED
      BY <3>1 DEF PlaceInv
  <2> QED
    BY <2>1, <2>2
<1>1. CASE Ends(t)
  BY <1>0, <1>1, PlaceEnds
<1>2. ASSUME NEW pc, NEW url, NEW token, NEW list, NEW left,
             Runs(t, Command(cmd[t].kind, pc, url, token, list, left)),
             Placed(t, cmd[t].kind, cmd[t].pc) => Placed(t, cmd[t].kind, pc)
      PROVE  PlaceInv'
  BY <1>0, <1>2, PlaceRuns DEF Runs
<1>3. CASE load_profiles(t) \/ \E n \in Names : keychain_get(t, n)
  <2>1. PICK pc, list, left : /\ Runs(t, Command(cmd[t].kind, pc, cmd[t].url, cmd[t].token, list, left))
                              /\ pc \in {"get", "edit"} /\ cmd[t].pc \in {"load", "get"}
    BY <1>3 DEF load_profiles, keychain_get
  <2>2. Placed(t, cmd[t].kind, cmd[t].pc) => Placed(t, cmd[t].kind, pc)
    BY SMT, <2>1 DEF Placed
  <2> QED
    BY <1>2, <2>1, <2>2
<1>4. CASE save_profiles(t) /\ ~Ends(t)
  <2>1. Runs(t, At(cmd[t], "active")) /\ cmd[t].pc = "store" /\ cmd[t].kind # "save_profile"
    BY <1>4 DEF save_profiles, Returns
  <2>2. Placed(t, cmd[t].kind, cmd[t].pc) => Placed(t, cmd[t].kind, "active")
    BY SMT, <2>1 DEF Placed, Listers
  <2> QED
    BY <1>2, <2>1, <2>2 DEF At
<1>5. CASE set_active_profile_name(t) \/ list_profiles(t)
  BY <1>1, <1>5 DEF set_active_profile_name, list_profiles, Returns
<1>6. CASE (\E n \in Names : keychain_put(t, n)) /\ ~Ends(t)
  <2>1. PICK pc, list, left : /\ Runs(t, Command(cmd[t].kind, pc, cmd[t].url, cmd[t].token, list, left))
                              /\ pc \in {"put", "store"} /\ cmd[t].pc = "put"
    BY <1>6 DEF keychain_put
  <2>2. Placed(t, cmd[t].kind, cmd[t].pc) => Placed(t, cmd[t].kind, pc)
    BY SMT, <2>1 DEF Placed
  <2> QED
    BY <1>2, <2>1, <2>2
<1>7. CASE perform_login(t) /\ ~Ends(t)
  <2>1. PICK token, list, left : /\ Runs(t, Command(cmd[t].kind, "load", cmd[t].url, token, list, left))
                                 /\ cmd[t].pc = "network"
    BY <1>7 DEF perform_login
  <2>2. Placed(t, cmd[t].kind, cmd[t].pc) => Placed(t, cmd[t].kind, "load")
    BY SMT, <2>1 DEF Placed
  <2> QED
    BY <1>2, <2>1, <2>2
<1>8. ASSUME NEW kind \in Listers, NEW list, Edits(t, kind, list) PROVE PlaceInv'
  <2>1. CASE ~Ends(t)
    <3>1. PICK pc, left : /\ Runs(t, Command(cmd[t].kind, pc, cmd[t].url, cmd[t].token, list, left))
                          /\ pc \in {"put", "store"} /\ cmd[t].kind \in Listers
      BY <1>8, <2>1 DEF Edits, Saving
    <3>2. Placed(t, cmd[t].kind, cmd[t].pc) => Placed(t, cmd[t].kind, pc)
      BY SMT, <3>1 DEF Placed
    <3> QED
      BY <1>2, <3>1, <3>2
  <2> QED
    BY <1>1, <2>1
<1>10. CASE upsert_profile(t) \/ save_profile(t)
  BY <1>8, <1>10 DEF upsert_profile, save_profile, Listers
<1>11. CASE remove_profile(t) \/ logout(t)
  BY <1>8, <1>11 DEF remove_profile, logout, Listers
<1>9. CASE load_active_profile(t) /\ ~Ends(t)
  <2>1. PICK pc, url, token :
          /\ Runs(t, Command(cmd[t].kind, pc, url, token, NoProfiles, {}))
          /\ pc = [get_session |-> "idle", upload_file |-> "open", download_image |-> "link"][cmd[t].kind]
          /\ cmd[t].kind \in DOMAIN [get_session |-> "idle", upload_file |-> "open", download_image |-> "link"]
    BY <1>9 DEF load_active_profile
  <2>2. pc \in {"idle", "open", "link"}
    BY SMT, <2>1
  <2>3. Placed(t, cmd[t].kind, cmd[t].pc) => Placed(t, cmd[t].kind, pc)
    BY SMT, <2>2 DEF Placed
  <2> QED
    BY <1>2, <2>1, <2>3
<1> QED
  BY <1>1, <1>3, <1>4, <1>5, <1>6, <1>7, <1>9, <1>10, <1>11

\* Every step keeps commands in their places.
LEMMA NextPlace == PlaceInv /\ [Next]_vars => PlaceInv'
<1> SUFFICES ASSUME PlaceInv, [Next]_vars PROVE PlaceInv'
  OBVIOUS
<1>1. CASE UNCHANGED vars
  BY <1>1, PlaceStays DEF vars
<1>2. CASE Autosave
  <2>1. disk' = memory /\ UNCHANGED <<memory, cmd>>
    BY <1>2 DEF Autosave
  <2> QED
    BY <2>1 DEF PlaceInv, Placed
<1>3. CASE Restart
  <2>1. /\ memory' = disk /\ UNCHANGED disk
        /\ DOMAIN cmd' = Threads /\ \A t \in Threads : cmd'[t] = Idle
    BY <1>3 DEF Restart
  <2>2. Idle.kind = "none" /\ Idle.pc = "idle"
    BY SMT DEF Idle, Command
  <2>3. \A t \in Threads : Placed(t, cmd'[t].kind, cmd'[t].pc)
    BY SMT, <2>1, <2>2 DEF Placed, OnMain
  <2>4. \A t \in Threads : Placed(t, cmd[t].kind, cmd[t].pc)'
    BY <2>3 DEF Placed
  <2> QED
    BY <2>1, <2>4 DEF PlaceInv
<1>4. ASSUME NEW t \in Threads, NEW kind, NEW u, NEW token, Invoke(t, kind, u, token) PROVE PlaceInv'
  BY <1>4, PlaceInvoke
<1>5. ASSUME NEW t \in Threads,
             \/ load_profiles(t) \/ save_profiles(t) \/ set_active_profile_name(t)
             \/ \E n \in Names : keychain_get(t, n) \/ keychain_put(t, n)
             \/ perform_login(t) \/ upsert_profile(t) \/ save_profile(t) \/ remove_profile(t) \/ logout(t)
             \/ list_profiles(t) \/ load_active_profile(t)
      PROVE  PlaceInv'
  BY <1>5, PlaceProfiles
<1>6. ASSUME NEW t \in Threads, TransferStep(t) PROVE PlaceInv'
  <2>1. /\ UNCHANGED <<memory, disk>>
        /\ UNCHANGED cmd \/ Ends(t) \/ \E pc \in {"sending", "fetch", "streaming", "idle"} : \E x : Goes(t, pc, x)
    BY <1>6, TransferSteps
  <2>2. CASE UNCHANGED cmd
    BY <2>1, <2>2, PlaceStays
  <2>3. CASE Ends(t)
    BY <2>1, <2>3, PlaceEnds DEF PlaceInv
  <2>4. ASSUME NEW pc \in {"sending", "fetch", "streaming", "idle"}, NEW x, Goes(t, pc, x) PROVE PlaceInv'
    <3>1. Placed(t, cmd[t].kind, cmd[t].pc) => Placed(t, cmd[t].kind, pc)
      BY SMT DEF Placed
    <3>2. cmd' = [cmd EXCEPT ![t] = Command(cmd[t].kind, pc, cmd[t].url, cmd[t].token, cmd[t].list, cmd[t].left)]
      BY <2>4 DEF Goes, At
    <3> QED
      BY <2>1, <3>1, <3>2, PlaceRuns DEF PlaceInv
  <2> QED
    BY <2>1, <2>2, <2>3, <2>4
<1> QED
  BY <1>1, <1>2, <1>3, <1>4, <1>5, <1>6 DEF Next, TransferStep

-----------------------------------------------------------------------------
(* Promises.                                                               *)

\* What a command amounts to does not depend on how far it is.
LEMMA FulfilledBy ==
  ASSUME NEW was, NEW c, NEW d, d.kind = c.kind, d.url = c.url, d.token = c.token
  PROVE  Fulfilled(was, d) = Fulfilled(was, c)
BY SMT DEF Fulfilled

\* What each command amounts to, in profiles and in the active one.
LEMMA FulfilledFields ==
  ASSUME NEW was, NEW c, NEW name, name = profile_name_for(c.url)
  PROVE  /\ c.kind = "login" => /\ Fulfilled(was, c).profiles = Upserted(was.profiles, name, Profile(c.url, c.token))
                                /\ Fulfilled(was, c).active = name
         /\ c.kind = "save_profile" =>
              /\ Fulfilled(was, c).profiles = Upserted(was.profiles, name, Profile(c.url, c.token))
              /\ Fulfilled(was, c).active = was.active
         /\ c.kind = "set_active_profile" => Fulfilled(was, c).profiles = was.profiles /\ Fulfilled(was, c).active = name
         /\ c.kind = "logout" => /\ Fulfilled(was, c).profiles = SignedOut(was.profiles, was.active)
                                 /\ Fulfilled(was, c).active = None
         /\ c.kind = "remove_profile" =>
              /\ Fulfilled(was, c).profiles = Removed(was.profiles, name)
              /\ Fulfilled(was, c).active = IF was.active = name THEN None ELSE was.active
<1>1. CASE c.kind = "login"
  <2>1. Fulfilled(was, c) = Settings(Upserted(was.profiles, name, Profile(c.url, c.token)), name)
    BY SMT, <1>1 DEF Fulfilled
  <2> QED
    BY SMT, <1>1, <2>1, ProfileFields
<1>2. CASE c.kind = "save_profile"
  <2>1. Fulfilled(was, c) = Settings(Upserted(was.profiles, name, Profile(c.url, c.token)), was.active)
    BY SMT, <1>2 DEF Fulfilled
  <2> QED
    BY SMT, <1>2, <2>1, ProfileFields
<1>3. CASE c.kind = "set_active_profile"
  <2>1. Fulfilled(was, c) = Settings(was.profiles, name)
    BY SMT, <1>3 DEF Fulfilled
  <2> QED
    BY SMT, <1>3, <2>1, ProfileFields
<1>4. CASE c.kind = "logout"
  <2>1. Fulfilled(was, c) = Settings(SignedOut(was.profiles, was.active), None)
    BY SMT, <1>4 DEF Fulfilled
  <2> QED
    BY SMT, <1>4, <2>1, ProfileFields
<1>5. CASE c.kind = "remove_profile"
  <2>1. Fulfilled(was, c) = Settings(Removed(was.profiles, name), IF was.active = name THEN None ELSE was.active)
    BY SMT, <1>5 DEF Fulfilled
  <2> QED
    BY SMT, <1>5, <2>1, ProfileFields
<1> QED
  BY <1>1, <1>2, <1>3, <1>4, <1>5

\* Adding to a list, with its token, is adding to what the list shows.
LEMMA OwnUpserted ==
  ASSUME NEW list, NEW name, NEW url, NEW token
  PROVE  Own(Upserted(list, name, Profile(url, token))) = Upserted(Own(list), name, Profile(url, token))
<1>1. PICK p : p = Profile(url, token)
  OBVIOUS
<1>2. Profile(p.server_url, p.token) = p
  BY SMT, <1>1 DEF Profile
<1>3. Own(Upserted(list, name, p)) = Upserted(Own(list), name, p)
  BY <1>2 DEF Own, Upserted
<1> QED
  BY <1>1, <1>3

\* So is taking a profile off it,
LEMMA OwnRemoved ==
  ASSUME NEW list, NEW name
  PROVE  Own(Removed(list, name)) = Removed(Own(list), name)
BY DEF Own, Removed, Restrict

\* and forgetting a token.
LEMMA OwnSignedOut ==
  ASSUME NEW list, NEW name
  PROVE  Own(SignedOut(list, name)) = SignedOut(Own(list), name)
<1>1. PICK out, own : out = SignedOut(list, name) /\ own = Own(list)
  OBVIOUS
<1>2. DOMAIN out = DOMAIN list /\ DOMAIN own = DOMAIN list
  BY <1>1 DEF SignedOut, Own
<1>3. ASSUME NEW n \in DOMAIN list
      PROVE  Profile(out[n].server_url, out[n].token)
               = IF n = name THEN Profile(own[n].server_url, None) ELSE own[n]
  <2>1. own[n] = Profile(list[n].server_url, list[n].token)
    BY <1>1 DEF Own
  <2>2. CASE n = name
    <3>1. out[n] = Profile(list[n].server_url, None)
      BY <1>1, <2>2 DEF SignedOut
    <3> QED
      BY SMT, <2>1, <2>2, <3>1 DEF Profile
  <2>3. CASE n # name
    <3>1. out[n] = list[n]
      BY <1>1, <2>3 DEF SignedOut
    <3> QED
      BY <2>1, <2>3, <3>1
  <2> QED
    BY <2>2, <2>3
<1>4. Own(out) = SignedOut(own, name)
  BY <1>2, <1>3 DEF Own, SignedOut
<1> QED
  BY <1>1, <1>4

\* While a command edits the list, no other does.
LEMMA Alone ==
  ASSUME PromiseInv, promised # None, NEW t \in Threads, Lists(cmd[t]), NEW u \in Threads, u # t
  PROVE  ~Lists(cmd[u])
BY DEF PromiseInv

\* A step of the only command that edits the list, if there is one then.
LEMMA PromiseMoves ==
  ASSUME NEW t \in Threads,
         \A u \in Threads : u # t => ~Lists(cmd[u]) /\ cmd'[u] = cmd[u],
         disk' = memory', memory'.active = promised'.active,
         Lists(cmd'[t]) => Kept(cmd'[t], memory'.profiles, keychain', promised'),
         (Lists(cmd'[t]) => Reading(cmd'[t])) => View(memory'.profiles, keychain') = promised'.profiles
  PROVE  PromiseInv'
<1>1. \A u \in Threads : Lists(cmd'[u]) => u = t
  OBVIOUS
<1>2. \A u \in Threads : Lists(cmd'[u]) => Kept(cmd'[u], memory'.profiles, keychain', promised')
  BY <1>1
<1>3. (\A u \in Threads : Lists(cmd'[u]) => Reading(cmd'[u])) => View(memory'.profiles, keychain') = promised'.profiles
  OBVIOUS
<1>4. \A u, v \in Threads : Lists(cmd'[u]) /\ Lists(cmd'[v]) => u = v
  BY <1>1
<1> QED
  BY <1>2, <1>3, <1>4 DEF PromiseInv

\* A step of a command that does not edit the list, or of one that gives up
\* before it has written anything.
LEMMA PromiseStays ==
  ASSUME PromiseInv, promised # None, UNCHANGED <<memory, disk, keychain, promised>>,
         NEW t \in Threads, \A u \in Threads : u # t => cmd'[u] = cmd[u],
         ~Lists(cmd'[t]), Lists(cmd[t]) => Reading(cmd[t])
  PROVE  PromiseInv'
<1>1. \A u \in Threads : Lists(cmd'[u]) => u # t /\ cmd'[u] = cmd[u]
  OBVIOUS
<1>2. \A u \in Threads : Lists(cmd'[u]) => Kept(cmd'[u], memory'.profiles, keychain', promised')
  BY <1>1 DEF PromiseInv
<1>3. (\A u \in Threads : Lists(cmd'[u]) => Reading(cmd'[u])) => View(memory'.profiles, keychain') = promised'.profiles
  <2> SUFFICES ASSUME \A u \in Threads : Lists(cmd'[u]) => Reading(cmd'[u])
               PROVE  View(memory'.profiles, keychain') = promised'.profiles
    OBVIOUS
  <2>1. \A u \in Threads : Lists(cmd[u]) => Reading(cmd[u])
    OBVIOUS
  <2> QED
    BY <2>1 DEF PromiseInv
<1>4. \A u, v \in Threads : Lists(cmd'[u]) /\ Lists(cmd'[v]) => u = v
  BY <1>1 DEF PromiseInv
<1>5. disk' = memory' /\ memory'.active = promised'.active
  BY DEF PromiseInv
<1> QED
  BY <1>2, <1>3, <1>4, <1>5 DEF PromiseInv

\* A command that is over edits nothing.
LEMMA IdleLists == ~Lists(Idle)
<1>1. Idle.pc = "idle"
  BY SMT DEF Idle, Command
<1> QED
  BY <1>1 DEF Lists, EditSteps

\* A command begins to edit the list: what it shows is what was promised.
LEMMA PromiseLoad ==
  ASSUME PromiseInv, PlaceInv, promised' # None, NEW t \in Threads, load_profiles(t)
  PROVE  PromiseInv'
<1>1. PICK c, d, list : c = cmd[t] /\ d = cmd'[t] /\ list = memory.profiles
  OBVIOUS
<1>2. /\ d = Command(c.kind, IF DOMAIN list = {} THEN "edit" ELSE "get", c.url, c.token, list, DOMAIN list)
      /\ \A u \in Threads : u # t => cmd'[u] = cmd[u]
  BY <1>1 DEF load_profiles, Runs, PlaceInv
<1>3. /\ d.kind = c.kind /\ d.list = list /\ d.left = DOMAIN list
      /\ d.pc = IF DOMAIN list = {} THEN "edit" ELSE "get"
  BY SMT, <1>2 DEF Command
<1>4. UNCHANGED <<memory, disk, keychain, promised>> /\ promised # None /\ c.pc = "load"
  BY <1>1 DEF load_profiles
<1>5. ~Lists(c)
  BY <1>4 DEF Lists, EditSteps
<1>6. CASE c.kind \in Readers
  <2>1. ~Lists(d)
    BY SMT, <1>3, <1>6 DEF Lists, Listers, Readers
  <2> QED
    BY <1>1, <1>2, <1>4, <1>5, <2>1, PromiseStays
<1>7. CASE c.kind \notin Readers
  <2>1. \A u \in Threads : u # t => ~Lists(cmd[u])
    <3>1. \A u \in Threads \ {t} : ~Editing(u)
      BY <1>1, <1>7 DEF load_profiles
    <3>2. \A u \in Threads : Lists(cmd[u]) => Editing(u)
      BY DEF Lists, Listers, EditSteps, Editing, Readers
    <3> QED
      BY <3>1, <3>2
  <2>2. View(list, keychain) = promised.profiles /\ disk = memory /\ memory.active = promised.active
    BY <1>1, <1>4, <1>5, <2>1 DEF PromiseInv
  <2>3. Reading(d) /\ ~Writing(d) /\ d.pc # "active"
    BY <1>3 DEF Reading, Writing
  <2>4. HasRead(d, list, keychain)
    BY <1>3 DEF HasRead
  <2>5. Kept(d, list, keychain, promised)
    BY <2>3, <2>4 DEF Kept
  <2> QED
    BY <1>1, <1>2, <1>4, <2>1, <2>2, <2>5, PromiseMoves
<1> QED
  BY <1>6, <1>7

\* A command reads one token.
LEMMA PromiseGet ==
  ASSUME PromiseInv, PlaceInv, HomeInv, promised' # None, NEW t \in Threads, NEW n \in Names, keychain_get(t, n)
  PROVE  PromiseInv'
<1>1. PICK c, d, list : /\ c = cmd[t] /\ d = cmd'[t]
                        /\ list = [c.list EXCEPT ![n] = Profile(c.list[n].server_url, keychain[n])]
  OBVIOUS
<1>2. /\ d = Command(c.kind, IF c.left = {n} THEN "edit" ELSE "get", c.url, c.token, list, c.left \ {n})
      /\ \A u \in Threads : u # t => cmd'[u] = cmd[u]
      /\ UNCHANGED <<memory, disk, keychain, promised>> /\ promised # None /\ c.pc = "get" /\ n \in c.left
  BY <1>1 DEF keychain_get, Runs, PlaceInv, Fault, Fine
<1>3. /\ d.kind = c.kind /\ d.list = list /\ d.left = c.left \ {n}
      /\ d.pc = IF c.left = {n} THEN "edit" ELSE "get"
  BY SMT, <1>2 DEF Command
<1>4. CASE c.kind \notin Listers
  <2>1. ~Lists(d) /\ ~Lists(c)
    BY <1>3, <1>4 DEF Lists
  <2> QED
    BY <1>1, <1>2, <2>1, PromiseStays
<1>5. CASE c.kind \in Listers
  <2>1. Lists(c) /\ Reading(c)
    BY <1>2, <1>5 DEF Lists, EditSteps, Reading
  <2>2. \A u \in Threads : u # t => ~Lists(cmd[u])
    BY <1>1, <1>2, <2>1, Alone
  <2>3. /\ View(memory.profiles, keychain) = promised.profiles /\ disk = memory /\ memory.active = promised.active
        /\ HasRead(c, memory.profiles, keychain)
    BY <1>1, <1>2, <2>1, <2>2 DEF PromiseInv, Kept
  <2>4. Reading(d) /\ ~Writing(d) /\ d.pc # "active"
    BY <1>3 DEF Reading, Writing
  <2>5. HasRead(d, memory.profiles, keychain)
    <3>0. n \in DOMAIN c.list
      BY <1>1, <1>2 DEF HomeInv, CommandGood, Fits
    <3>1. /\ DOMAIN list = DOMAIN c.list /\ list[n] = Profile(c.list[n].server_url, keychain[n])
          /\ \A m \in DOMAIN list : m # n => list[m] = c.list[m]
      BY <1>1, <3>0
    <3>2. list[n].server_url = c.list[n].server_url /\ list[n].token = keychain[n]
      BY SMT, <3>1 DEF Profile
    <3>3. DOMAIN list = DOMAIN memory.profiles
      BY <2>3, <3>1 DEF HasRead
    <3>4. \A m \in DOMAIN list : list[m].server_url = memory.profiles[m].server_url
      BY <2>3, <3>1, <3>2 DEF HasRead
    <3>5. \A m \in DOMAIN list \ (c.left \ {n}) : list[m].token = keychain[m]
      BY <2>3, <3>1, <3>2 DEF HasRead
    <3> QED
      BY <1>3, <3>3, <3>4, <3>5 DEF HasRead
  <2>6. Kept(d, memory.profiles, keychain, promised)
    BY <2>4, <2>5 DEF Kept
  <2> QED
    BY <1>1, <1>2, <2>2, <2>3, <2>6, PromiseMoves
<1> QED
  BY <1>4, <1>5

\* A command has edited its list as it promises, and is to write it.
LEMMA PromiseEdits ==
  ASSUME PromiseInv, PlaceInv, promised # None, NEW t \in Threads, NEW kind \in Listers, NEW list, Edits(t, kind, list),
         Own(cmd[t].list) = promised.profiles /\ memory.active = promised.active =>
           Own(list) = Fulfilled(promised, cmd[t]).profiles
  PROVE  PromiseInv'
<1>1. PICK c, d : c = cmd[t] /\ d = cmd'[t]
  OBVIOUS
<1>2. /\ UNCHANGED <<memory, disk, keychain, promised>> /\ c.pc = "edit" /\ c.kind \in Listers
      /\ \A u \in Threads : u # t => cmd'[u] = cmd[u]
  BY <1>1 DEF Edits, Idly, Saving, Ends, Runs, PlaceInv
<1>3. Lists(c) /\ Reading(c)
  BY <1>2 DEF Lists, EditSteps, Reading
<1>4. CASE Ends(t)
  <2>1. d = Idle
    BY <1>1, <1>4 DEF Ends, PlaceInv
  <2> QED
    BY <1>1, <1>2, <1>3, <2>1, IdleLists, PromiseStays
<1>5. CASE ~Ends(t)
  <2>1. d = Command(c.kind, IF DOMAIN list = {} THEN "store" ELSE "put", c.url, c.token, list, DOMAIN list)
    BY <1>1, <1>5 DEF Edits, Saving, Runs, PlaceInv
  <2>2. /\ d.kind = c.kind /\ d.url = c.url /\ d.token = c.token /\ d.list = list /\ d.left = DOMAIN list
        /\ d.pc = IF DOMAIN list = {} THEN "store" ELSE "put"
    BY SMT, <2>1 DEF Command
  <2>3. \A u \in Threads : u # t => ~Lists(cmd[u])
    BY <1>1, <1>3, Alone
  <2>4. /\ View(memory.profiles, keychain) = promised.profiles /\ disk = memory /\ memory.active = promised.active
        /\ HasRead(c, memory.profiles, keychain)
    BY <1>1, <1>3, <2>3 DEF PromiseInv, Kept
  <2>5. Own(c.list) = promised.profiles
    <3>1. /\ DOMAIN c.list = DOMAIN memory.profiles
          /\ \A n \in DOMAIN c.list : /\ c.list[n].server_url = memory.profiles[n].server_url
                                      /\ c.list[n].token = keychain[n]
      BY <1>2, <2>4 DEF HasRead
    <3>2. Own(c.list) = View(memory.profiles, keychain)
      BY <3>1 DEF Own, View
    <3> QED
      BY <2>4, <3>2
  <2>6. Own(list) = Fulfilled(promised, d).profiles
    <3>1. Fulfilled(promised, d) = Fulfilled(promised, c)
      BY <2>2, FulfilledBy
    <3> QED
      BY <1>1, <2>4, <2>5, <3>1
  <2>7. Writing(d) /\ ~Reading(d) /\ d.pc # "active" /\ Lists(d)
    BY <1>2, <2>2 DEF Reading, Writing, Lists, EditSteps
  <2>8. HasWritten(d, keychain, promised)
    BY <2>2, <2>6 DEF HasWritten
  <2>9. Kept(d, memory.profiles, keychain, promised)
    BY <2>7, <2>8 DEF Kept
  <2> QED
    BY <1>1, <1>2, <2>3, <2>4, <2>7, <2>9, PromiseMoves
<1> QED
  BY <1>4, <1>5

\* The edits of the commands.
LEMMA PromiseEditing ==
  ASSUME PromiseInv, PlaceInv, promised # None, NEW t \in Threads,
         upsert_profile(t) \/ save_profile(t) \/ remove_profile(t) \/ logout(t)
  PROVE  PromiseInv'
<1>1. PICK c, name : c = cmd[t] /\ name = profile_name_for(c.url)
  OBVIOUS
<1>2. CASE upsert_profile(t) \/ save_profile(t)
  <2>1. PICK kind \in {"login", "save_profile"} :
          c.kind = kind /\ Edits(t, kind, Upserted(c.list, name, Profile(c.url, c.token)))
    BY <1>1, <1>2 DEF upsert_profile, save_profile, upsert, Edits
  <2>2. Fulfilled(promised, c).profiles = Upserted(promised.profiles, name, Profile(c.url, c.token))
    BY SMT, <1>1, <2>1, FulfilledFields
  <2>3. Own(c.list) = promised.profiles =>
          Own(Upserted(c.list, name, Profile(c.url, c.token))) = Fulfilled(promised, c).profiles
    BY SMT, <2>2, OwnUpserted
  <2> QED
    BY <1>1, <2>1, <2>3, PromiseEdits DEF Listers
<1>3. CASE remove_profile(t)
  <2>1. c.kind = "remove_profile" /\ Edits(t, "remove_profile", Removed(c.list, name))
    BY <1>1, <1>3 DEF remove_profile, Edits
  <2>2. Fulfilled(promised, c).profiles = Removed(promised.profiles, name)
    BY SMT, <1>1, <2>1, FulfilledFields
  <2>3. Own(c.list) = promised.profiles => Own(Removed(c.list, name)) = Fulfilled(promised, c).profiles
    BY <2>2, OwnRemoved
  <2> QED
    BY <1>1, <2>1, <2>3, PromiseEdits DEF Listers
<1>4. CASE logout(t)
  <2>1. c.kind = "logout" /\ Edits(t, "logout", SignedOut(c.list, memory.active))
    BY <1>1, <1>4 DEF logout, Edits
  <2>2. Fulfilled(promised, c).profiles = SignedOut(promised.profiles, promised.active)
    BY SMT, <1>1, <2>1, FulfilledFields
  <2>3. Own(c.list) = promised.profiles /\ memory.active = promised.active =>
          Own(SignedOut(c.list, memory.active)) = Fulfilled(promised, c).profiles
    BY <2>2, OwnSignedOut
  <2> QED
    BY <1>1, <2>1, <2>3, PromiseEdits DEF Listers
<1> QED
  BY <1>2, <1>3, <1>4

\* A command writes one token.
LEMMA PromisePut ==
  ASSUME PromiseInv, PlaceInv, HomeInv, promised' # None, NEW t \in Threads, NEW n \in Names, keychain_put(t, n)
  PROVE  PromiseInv'
<1>1. PICK c, d : c = cmd[t] /\ d = cmd'[t]
  OBVIOUS
<1>2. /\ keychain' = [keychain EXCEPT ![n] = c.list[n].token]
      /\ Runs(t, Command(c.kind, IF c.left = {n} THEN "store" ELSE "put", c.url, c.token, c.list, c.left \ {n}))
      /\ UNCHANGED <<memory, disk, promised>> /\ promised # None /\ c.pc = "put" /\ n \in c.left
  BY <1>1 DEF keychain_put, keychain_delete, Fault, Fine
<1>3. /\ d = Command(c.kind, IF c.left = {n} THEN "store" ELSE "put", c.url, c.token, c.list, c.left \ {n})
      /\ \A u \in Threads : u # t => cmd'[u] = cmd[u]
  BY <1>1, <1>2 DEF Runs, PlaceInv
<1>4. /\ d.kind = c.kind /\ d.url = c.url /\ d.token = c.token /\ d.list = c.list /\ d.left = c.left \ {n}
      /\ d.pc = IF c.left = {n} THEN "store" ELSE "put"
  BY SMT, <1>3 DEF Command
<1>5. Lists(c) /\ Writing(c)
  <2>1. c.kind \in Listers
    BY <1>1, <1>2 DEF PlaceInv, Placed
  <2> QED
    BY <1>2, <2>1 DEF Lists, EditSteps, Writing
<1>6. \A u \in Threads : u # t => ~Lists(cmd[u])
  BY <1>1, <1>2, <1>5, Alone
<1>7. disk = memory /\ memory.active = promised.active /\ HasWritten(c, keychain, promised)
  BY <1>1, <1>2, <1>5 DEF PromiseInv, Kept
<1>8. HasWritten(d, keychain', promised)
  <2>1. keychain'[n] = c.list[n].token /\ \A m \in Names : m # n => keychain'[m] = keychain[m]
    BY <1>2 DEF HomeInv
  <2>2. DOMAIN c.list \subseteq Names
    BY <1>1 DEF HomeInv, CommandGood, Fits, Good
  <2>3. \A m \in DOMAIN c.list \ (c.left \ {n}) : keychain'[m] = c.list[m].token
    BY <1>7, <2>1, <2>2 DEF HasWritten
  <2>4. Own(c.list) = Fulfilled(promised, d).profiles
    BY <1>4, <1>7, FulfilledBy DEF HasWritten
  <2> QED
    BY <1>4, <2>3, <2>4 DEF HasWritten
<1>9. Writing(d) /\ ~Reading(d) /\ d.pc # "active" /\ Lists(d)
  BY <1>4, <1>5 DEF Reading, Writing, Lists, EditSteps
<1>10. Kept(d, memory.profiles, keychain', promised)
  BY <1>8, <1>9 DEF Kept
<1> QED
  BY <1>1, <1>2, <1>3, <1>6, <1>7, <1>9, <1>10, PromiseMoves

\* The list is stored: keychain and settings show what was promised.
LEMMA PromiseStore ==
  ASSUME PromiseInv, PlaceInv, promised' # None, NEW t \in Threads, save_profiles(t)
  PROVE  PromiseInv'
<1>1. PICK c, d : c = cmd[t] /\ d = cmd'[t]
  OBVIOUS
<1>2. /\ memory' = Settings(sanitized(c.list), memory.active) /\ disk' = memory' /\ UNCHANGED keychain
      /\ promised # None /\ c.pc = "store"
  BY <1>1 DEF save_profiles, Fault, Returns
<1>3. memory'.profiles = sanitized(c.list) /\ memory'.active = memory.active
  BY SMT, <1>2, ProfileFields
<1>4. Lists(c) /\ Writing(c)
  <2>1. c.kind \in Listers
    BY <1>1, <1>2 DEF PlaceInv, Placed
  <2> QED
    BY <1>2, <2>1 DEF Lists, EditSteps, Writing
<1>5. \A u \in Threads : u # t => ~Lists(cmd[u])
  BY <1>1, <1>2, <1>4, Alone
<1>6. memory.active = promised.active /\ HasWritten(c, keychain, promised)
  BY <1>1, <1>2, <1>4 DEF PromiseInv, Kept
<1>7. View(memory'.profiles, keychain) = Fulfilled(promised, c).profiles
  <2>1. \A n \in DOMAIN c.list : keychain[n] = c.list[n].token
    BY <1>2, <1>6 DEF HasWritten
  <2>2. PICK bare : bare = sanitized(c.list)
    OBVIOUS
  <2>3. DOMAIN bare = DOMAIN c.list /\ \A n \in DOMAIN c.list : bare[n] = Profile(c.list[n].server_url, None)
    BY <2>2 DEF sanitized
  <2>4. \A n \in DOMAIN c.list : bare[n].server_url = c.list[n].server_url
    <3> SUFFICES ASSUME NEW n \in DOMAIN c.list PROVE bare[n].server_url = c.list[n].server_url
      OBVIOUS
    <3>1. bare[n] = Profile(c.list[n].server_url, None)
      BY <2>3
    <3> QED
      BY SMT, <3>1 DEF Profile
  <2>5. View(bare, keychain) = Own(c.list)
    BY <2>1, <2>3, <2>4 DEF View, Own
  <2> QED
    BY <1>3, <1>6, <2>2, <2>5 DEF HasWritten
<1>8. CASE c.kind = "save_profile"
  <2>1. d = Idle /\ promised' = Fulfilled(promised, c) /\ \A u \in Threads : u # t => cmd'[u] = cmd[u]
    BY <1>1, <1>2, <1>8 DEF save_profiles, Returns, Ends, Fault, PlaceInv
  <2>2. promised'.active = promised.active
    BY SMT, <1>8, <2>1, FulfilledFields
  <2>3. ~Lists(cmd'[t]) /\ \A u \in Threads : u # t => ~Lists(cmd[u]) /\ cmd'[u] = cmd[u]
    BY <1>1, <1>5, <2>1, IdleLists
  <2>4. memory'.active = promised'.active /\ View(memory'.profiles, keychain') = promised'.profiles
    BY <1>2, <1>3, <1>6, <1>7, <2>1, <2>2
  <2> QED
    BY <1>2, <2>3, <2>4, PromiseMoves
<1>9. CASE c.kind # "save_profile"
  <2>1. d = At(c, "active") /\ UNCHANGED promised /\ \A u \in Threads : u # t => cmd'[u] = cmd[u]
    BY <1>1, <1>2, <1>9 DEF save_profiles, Runs, Fault, PlaceInv
  <2>2. d.kind = c.kind /\ d.url = c.url /\ d.token = c.token /\ d.pc = "active"
    BY SMT, <2>1, AtFields
  <2>3. View(memory'.profiles, keychain) = Fulfilled(promised, d).profiles
    BY <1>7, <2>2, FulfilledBy
  <2>4. ~Reading(d) /\ ~Writing(d) /\ Lists(d)
    BY <1>4, <2>2 DEF Reading, Writing, Lists, EditSteps
  <2>5. Kept(d, memory'.profiles, keychain', promised')
    BY <1>2, <2>1, <2>3, <2>4 DEF Kept
  <2> QED
    BY <1>1, <1>2, <1>3, <1>5, <1>6, <2>1, <2>4, <2>5, PromiseMoves
<1> QED
  BY <1>8, <1>9

\* The active profile is stored, which ends a command; a login that edits the
\* list meanwhile promises the same profiles as before.
LEMMA PromiseActive ==
  ASSUME PromiseInv, PlaceInv, promised' # None, NEW t \in Threads, set_active_profile_name(t)
  PROVE  PromiseInv'
<1>1. PICK c, name, written : /\ c = cmd[t] /\ name = profile_name_for(c.url)
                              /\ written = (c.kind = "remove_profile" => memory.active = name)
  OBVIOUS
<1>2. promised # None /\ promised' = Fulfilled(promised, c) /\ c.pc = "active" /\ UNCHANGED keychain
  BY <1>1 DEF set_active_profile_name, Returns, Fault
<1>3. cmd'[t] = Idle /\ \A u \in Threads : u # t => cmd'[u] = cmd[u]
  BY DEF set_active_profile_name, Returns, Ends, PlaceInv
<1>4. disk = memory /\ memory.active = promised.active /\ memory = Settings(memory.profiles, memory.active)
  BY <1>2 DEF PromiseInv, PlaceInv
<1>5. c.kind \in {"login", "logout", "remove_profile", "set_active_profile"}
  BY <1>1, <1>2 DEF PlaceInv, Placed
<1>6. PICK a : /\ a = (IF ~written THEN memory.active ELSE IF c.kind \in {"logout", "remove_profile"} THEN None ELSE name)
               /\ memory' = Settings(memory.profiles, a)
  BY <1>1 DEF set_active_profile_name
<1>7. memory'.profiles = memory.profiles /\ memory'.active = a
  BY SMT, <1>6, ProfileFields
<1>8. disk' = memory'
  <2>1. disk' = IF written THEN memory' ELSE disk
    BY <1>1 DEF set_active_profile_name, Fault
  <2> QED
    BY <1>4, <1>6, <2>1
<1>9. promised'.active = a
  <2>1. CASE c.kind \in {"login", "set_active_profile"}
    <3>1. Fulfilled(promised, c).active = name
      BY SMT, <1>1, <2>1, FulfilledFields
    <3> QED
      BY <1>1, <1>2, <1>6, <2>1, <3>1
  <2>2. CASE c.kind = "logout"
    <3>1. Fulfilled(promised, c).active = None
      BY SMT, <1>1, <2>2, FulfilledFields
    <3> QED
      BY <1>1, <1>2, <1>6, <2>2, <3>1
  <2>3. CASE c.kind = "remove_profile"
    <3>1. Fulfilled(promised, c).active = IF promised.active = name THEN None ELSE promised.active
      BY SMT, <1>1, <2>3, FulfilledFields
    <3> QED
      BY <1>1, <1>2, <1>4, <1>6, <2>3, <3>1
  <2> QED
    BY <1>5, <2>1, <2>2, <2>3
<1>10. CASE c.kind # "set_active_profile"
  <2>1. Lists(c) /\ ~Reading(c)
    BY <1>2, <1>5, <1>10 DEF Lists, Listers, EditSteps, Reading
  <2>2. \A u \in Threads : u # t => ~Lists(cmd[u])
    BY <1>1, <1>2, <2>1, Alone
  <2>3. View(memory.profiles, keychain) = Fulfilled(promised, c).profiles
    BY <1>1, <1>2, <2>1 DEF PromiseInv, Kept
  <2> QED
    BY <1>2, <1>3, <1>7, <1>8, <1>9, <2>2, <2>3, IdleLists, PromiseMoves
<1>11. CASE c.kind = "set_active_profile"
  <2>1. promised'.profiles = promised.profiles
    BY SMT, <1>1, <1>2, <1>11, FulfilledFields
  <2>2. ~Lists(c) /\ t = Main
    BY <1>1, <1>11 DEF Lists, Listers, PlaceInv, Placed, OnMain
  <2>3. \A u \in Threads : Lists(cmd'[u]) => u # t /\ cmd'[u] = cmd[u]
    BY <1>3, IdleLists
  <2>4. ASSUME NEW u \in Threads, Lists(cmd'[u])
        PROVE  Kept(cmd'[u], memory'.profiles, keychain', promised')
    <3>1. PICK e : e = cmd[u] /\ cmd'[u] = e /\ u # t
      BY <2>3, <2>4
    <3>2. e.kind = "login"
      BY <2>2, <2>4, <3>1 DEF Lists, Listers, PlaceInv, Placed, OnMain
    <3>3. Kept(e, memory.profiles, keychain, promised)
      BY <1>2, <2>4, <3>1 DEF PromiseInv
    <3>4. Fulfilled(promised', e).profiles = Fulfilled(promised, e).profiles
      BY SMT, <2>1, <3>2, FulfilledFields
    <3>5. Kept(e, memory.profiles, keychain, promised')
      BY <3>3, <3>4 DEF Kept, HasWritten
    <3> QED
      BY <1>2, <1>7, <3>1, <3>5
  <2>5. (\A u \in Threads : Lists(cmd'[u]) => Reading(cmd'[u])) => View(memory'.profiles, keychain') = promised'.profiles
    <3> SUFFICES ASSUME \A u \in Threads : Lists(cmd'[u]) => Reading(cmd'[u])
                 PROVE  View(memory'.profiles, keychain') = promised'.profiles
      OBVIOUS
    <3>1. \A u \in Threads : Lists(cmd[u]) => Reading(cmd[u])
      BY <1>1, <1>3, <2>2
    <3> QED
      BY <1>2, <1>7, <2>1, <3>1 DEF PromiseInv
  <2>6. \A u, v \in Threads : Lists(cmd'[u]) /\ Lists(cmd'[v]) => u = v
    BY <1>2, <2>3 DEF PromiseInv
  <2> QED
    BY <1>7, <1>8, <1>9, <2>4, <2>5, <2>6 DEF PromiseInv
<1> QED
  BY <1>10, <1>11

\* The steps that edit no list.
LEMMA PromiseOthers ==
  ASSUME PromiseInv, PlaceInv, promised' # None, NEW t \in Threads,
         \/ \E kind, url, token : Invoke(t, kind, url, token)
         \/ perform_login(t) \/ list_profiles(t) \/ load_active_profile(t) \/ TransferStep(t)
  PROVE  PromiseInv'
<1>1. /\ UNCHANGED <<memory, disk, keychain, promised>> /\ promised # None
      /\ \A u \in Threads : u # t => cmd'[u] = cmd[u]
  <2>1. CASE TransferStep(t)
    BY <2>1, TransferSteps DEF Ends, Goes, PlaceInv
  <2>2. CASE ~TransferStep(t)
    BY <2>2 DEF Invoke, perform_login, list_profiles, load_active_profile, Idly, Ends, Runs, PlaceInv
  <2> QED
    BY <2>1, <2>2
<1>2. /\ ~Lists(cmd'[t])
      /\ Lists(cmd[t]) => Reading(cmd[t])
  <2>1. ASSUME NEW kind, NEW url, NEW token, Invoke(t, kind, url, token)
        PROVE  ~Lists(cmd[t]) /\ ~Lists(cmd'[t])
    <3>1. kind \in DOMAIN FirstStep /\ cmd[t].pc = "idle"
      BY <2>1 DEF Invoke, FirstStep
    <3>2. FirstStep[kind] = "active" => kind \notin Listers
      BY SMT, <3>1 DEF FirstStep, Listers
    <3>3. FirstStep[kind] \in EditSteps => FirstStep[kind] = "active"
      BY SMT, <3>1 DEF FirstStep, EditSteps
    <3>4. cmd'[t] = Command(kind, FirstStep[kind], url, token, NoProfiles, {})
      BY <2>1 DEF Invoke, PlaceInv
    <3>5. cmd'[t].kind = kind /\ cmd'[t].pc = FirstStep[kind]
      BY SMT, <3>4 DEF Command
    <3> QED
      BY <3>1, <3>2, <3>3, <3>5 DEF Lists, EditSteps
  <2>2. CASE perform_login(t)
    <3>1. cmd[t].pc = "network"
      BY <2>2 DEF perform_login
    <3>2. CASE Ends(t)
      BY <3>1, <3>2, IdleLists DEF Lists, EditSteps, Ends, PlaceInv
    <3>3. CASE ~Ends(t)
      <4>1. PICK token : cmd'[t] = Command(cmd[t].kind, "load", cmd[t].url, token, cmd[t].list, cmd[t].left)
        BY <2>2, <3>3 DEF perform_login, Runs, PlaceInv
      <4>2. cmd'[t].pc = "load"
        BY SMT, <4>1 DEF Command
      <4> QED
        BY <3>1, <4>2 DEF Lists, EditSteps
    <3> QED
      BY <3>2, <3>3
  <2>3. CASE list_profiles(t)
    <3>1. cmd'[t] = Idle /\ cmd[t].pc = "edit"
      BY <2>3 DEF list_profiles, Ends, PlaceInv
    <3> QED
      BY <3>1, IdleLists DEF Reading
  <2>4. CASE load_active_profile(t)
    <3>1. cmd[t].pc = "edit"
      BY <2>4 DEF load_active_profile
    <3>2. CASE Ends(t)
      BY <3>1, <3>2, IdleLists DEF Reading, Ends, PlaceInv
    <3>3. CASE ~Ends(t)
      <4>1. PICK d : d = cmd'[t] /\ \E pc, url, token : d = Command(cmd[t].kind, pc, url, token, NoProfiles, {})
        BY <2>4, <3>3 DEF load_active_profile, Runs, PlaceInv
      <4>2. cmd[t].kind \notin Listers
        <5>1. PICK kind : kind = cmd[t].kind
          OBVIOUS
        <5>2. kind \in DOMAIN [get_session |-> "idle", upload_file |-> "open", download_image |-> "link"]
          BY <2>4, <5>1 DEF load_active_profile
        <5> QED
          BY SMT, <5>1, <5>2 DEF Listers
      <4>3. d.kind = cmd[t].kind
        BY SMT, <4>1 DEF Command
      <4> QED
        BY <4>1, <4>2, <4>3 DEF Lists
    <3> QED
      BY <3>2, <3>3
  <2>5. CASE TransferStep(t)
    <3>0. cmd[t].kind = "download_image" \/ cmd[t].pc \in {"sending", "link", "fetch", "streaming", "open"}
      BY <2>5 DEF TransferStep, ServerAnswers, ConnectionBreaks, open_file, send_chunk, perform_upload, resolve_link,
                  create_file, write_chunk, DiskWrites, perform_download
    <3>1. ~Lists(cmd[t])
      BY <3>0 DEF Lists, Listers, EditSteps
    <3>2. CASE UNCHANGED cmd
      BY <3>1, <3>2
    <3>3. CASE Ends(t)
      BY <3>1, <3>3, IdleLists DEF Ends, PlaceInv
    <3>4. ASSUME NEW pc \in {"sending", "fetch", "streaming", "idle"}, NEW x, Goes(t, pc, x)
          PROVE  ~Lists(cmd'[t])
      <4>1. cmd'[t] = At(cmd[t], pc)
        BY <3>4 DEF Goes, PlaceInv
      <4>2. cmd'[t].pc = pc
        BY SMT, <4>1, AtFields
      <4> QED
        BY <4>2 DEF Lists, EditSteps
    <3> QED
      BY <2>5, <3>1, <3>2, <3>3, <3>4, TransferSteps
  <2> QED
    BY <2>1, <2>2, <2>3, <2>4, <2>5
<1> QED
  BY <1>1, <1>2, PromiseStays

\* The program starts again while no command edits the list.
LEMMA PromiseRestart ==
  ASSUME PromiseInv, promised' # None, Restart \/ Autosave
  PROVE  PromiseInv'
<1>1. CASE Autosave
  BY <1>1 DEF Autosave, PromiseInv
<1>2. CASE Restart
  <2>1. /\ memory' = disk /\ UNCHANGED <<disk, keychain, promised>> /\ promised # None
        /\ \A t \in Threads : cmd'[t] = Idle /\ ~Editing(t)
    BY <1>2 DEF Restart
  <2>2. \A t \in Threads : ~Lists(cmd[t])
    BY <2>1 DEF Lists, Listers, EditSteps, Editing, Readers
  <2>3. disk = memory /\ memory.active = promised.active /\ View(memory.profiles, keychain) = promised.profiles
    BY <2>1, <2>2 DEF PromiseInv
  <2>4. \A t \in Threads : ~Lists(cmd'[t])
    BY <2>1, IdleLists
  <2> QED
    BY <2>1, <2>3, <2>4 DEF PromiseInv
<1> QED
  BY <1>1, <1>2

\* Every step keeps what was promised.
LEMMA NextPromise == HomeInv /\ PlaceInv /\ PromiseInv /\ [Next]_vars => PromiseInv'
<1> SUFFICES ASSUME HomeInv, PlaceInv, PromiseInv, [Next]_vars PROVE PromiseInv'
  OBVIOUS
<1>0. CASE promised' = None
  BY <1>0 DEF PromiseInv
<1>a. CASE UNCHANGED vars
  BY <1>a DEF vars, PromiseInv
<1>b. CASE promised' # None /\ Next
  <2>1. CASE Autosave \/ Restart
    BY <1>b, <2>1, PromiseRestart
  <2>2. ASSUME NEW t \in Threads, NEW n \in Names, keychain_get(t, n) \/ keychain_put(t, n) PROVE PromiseInv'
    BY <1>b, <2>2, PromiseGet, PromisePut
  <2>3. ASSUME NEW t \in Threads, load_profiles(t) \/ save_profiles(t) \/ set_active_profile_name(t) PROVE PromiseInv'
    BY <1>b, <2>3, PromiseLoad, PromiseStore, PromiseActive
  <2>4. ASSUME NEW t \in Threads, upsert_profile(t) \/ save_profile(t) \/ remove_profile(t) \/ logout(t)
        PROVE  PromiseInv'
    <3>1. promised # None
      BY <1>b, <2>4 DEF upsert_profile, save_profile, remove_profile, logout, Edits, Idly
    <3> QED
      BY <2>4, <3>1, PromiseEditing
  <2>5. ASSUME NEW t \in Threads,
               \/ \E kind, url, token : Invoke(t, kind, url, token)
               \/ perform_login(t) \/ list_profiles(t) \/ load_active_profile(t) \/ TransferStep(t)
        PROVE  PromiseInv'
    BY <1>b, <2>5, PromiseOthers
  <2> QED
    BY <1>b, <2>1, <2>2, <2>3, <2>4, <2>5 DEF Next, TransferStep
<1> QED
  BY <1>0, <1>a, <1>b

-----------------------------------------------------------------------------
(* Types: what the settings and the keychain may hold.                     *)

Issued(token) == token # None => token.server \in Urls /\ token.serial \in 0..MaxCommands
AllIssued(list) == \A n \in DOMAIN list : Issued(list[n].token)
Secure(list) == \A n \in DOMAIN list : validate_server_url(list[n].server_url)

\* Servers are checked before a list is written; only login waits for a token.
Sound(kind, pc, token, list) ==
  /\ Issued(token) /\ AllIssued(list)
  /\ pc \in {"put", "store"} => Secure(list)
  /\ pc = "network" => kind = "login"
CommandSound(c) == Sound(c.kind, c.pc, c.token, c.list)

SettingsOK(settings) == Secure(settings.profiles) /\ settings.active \in Names \cup {None}

SoundInv ==
  /\ \A t \in Threads : CommandSound(cmd[t])
  /\ \A n \in Names : Issued(keychain[n])
  /\ SettingsOK(memory) /\ SettingsOK(disk)
  /\ faults \in 0..MaxFaults /\ commands \in 0..MaxCommands

\* A command is sound when its parts are.
LEMMA SoundCommand ==
  ASSUME NEW kind, NEW pc, NEW url, NEW token, NEW list, NEW left, Sound(kind, pc, token, list)
  PROVE  CommandSound(Command(kind, pc, url, token, list, left))
BY DEF CommandSound, Command

\* No command.
LEMMA IdleIsSound == AllIssued(NoProfiles) /\ CommandSound(Idle)
<1>1. DOMAIN NoProfiles = {}
  BY DEF NoProfiles
<1>2. AllIssued(NoProfiles)
  BY <1>1 DEF AllIssued
<1>3. Sound("none", "idle", None, NoProfiles)
  BY <1>2 DEF Sound, Issued
<1> QED
  BY <1>2, <1>3, SoundCommand DEF Idle

\* A step of one command, with what it does to the keychain and the settings.
LEMMA SoundMoves ==
  ASSUME SoundInv, HomeInv, NEW t \in Threads, NEW c, CommandSound(c), cmd' = [cmd EXCEPT ![t] = c],
         \A n \in Names : Issued(keychain'[n]), SettingsOK(memory'), SettingsOK(disk'),
         faults' \in 0..MaxFaults, commands' \in 0..MaxCommands
  PROVE  SoundInv'
<1>1. \A u \in Threads : cmd'[u] = IF u = t THEN c ELSE cmd[u]
  BY DEF HomeInv
<1>2. \A u \in Threads : CommandSound(cmd'[u])
  BY <1>1 DEF SoundInv
<1>3. \A u \in Threads : CommandSound(cmd[u])'
  BY <1>2 DEF CommandSound
<1>4. SettingsOK(memory)' /\ SettingsOK(disk)' /\ \A n \in Names : Issued(keychain[n])'
  BY DEF SettingsOK, Issued
<1> QED
  BY <1>3, <1>4 DEF SoundInv

\* A step of one command that leaves keychain and settings alone.
LEMMA SoundRuns ==
  ASSUME SoundInv, HomeInv, NEW t \in Threads, NEW c, CommandSound(c), cmd' = [cmd EXCEPT ![t] = c],
         UNCHANGED <<memory, disk, keychain>>, faults' \in 0..MaxFaults, commands' \in 0..MaxCommands
  PROVE  SoundInv'
BY SoundMoves DEF SoundInv

\* A command is over.
LEMMA SoundEnds ==
  ASSUME SoundInv, HomeInv, NEW t \in Threads, Ends(t), UNCHANGED <<memory, disk, keychain>>,
         faults' \in 0..MaxFaults, commands' \in 0..MaxCommands
  PROVE  SoundInv'
BY SoundRuns, IdleIsSound DEF Ends

\* The counters of faults, with a step that may fail.
LEMMA FaultCounts ==
  ASSUME SoundInv, Fault \/ Fine \/ UNCHANGED faults
  PROVE  faults' \in 0..MaxFaults
<1>1. faults \in 0..MaxFaults
  BY DEF SoundInv
<1> QED
  BY SMT, <1>1, DesktopAssumption DEF Fault, Fine

\* A command begins; a profile it saves has a token from the keychain, or none.
LEMMA SoundInvoke ==
  ASSUME SoundInv, HomeInv, NEW t \in Threads, NEW kind, NEW url \in Urls \cup {None}, NEW token,
         Invoke(t, kind, url, token)
  PROVE  SoundInv'
<1>1. Issued(token)
  <2>1. CASE token # None
    <3>1. kind = "save_profile" /\ token = keychain[profile_name_for(url)]
      BY <2>1 DEF Invoke
    <3>2. url \in Urls
      BY <3>1 DEF Invoke
    <3>3. profile_name_for(url) \in Names
      BY <3>2 DEF Names
    <3> QED
      BY <3>1, <3>3 DEF SoundInv
  <2>2. CASE token = None
    BY <2>2 DEF Issued
  <2> QED
    BY <2>1, <2>2
<1>2. PICK pc : pc = FirstStep[kind]
  OBVIOUS
<1>3. kind \in {"login", "set_active_profile", "logout", "get_session", "list_profiles", "save_profile",
                "remove_profile", "upload_file", "download_image"}
  BY SMT DEF Invoke, FirstStep
<1>4. pc \in {"network", "active", "load"} /\ (pc = "network" => kind = "login")
  BY SMT, <1>2, <1>3 DEF FirstStep
<1>5. Sound(kind, pc, token, NoProfiles)
  BY <1>1, <1>4, IdleIsSound DEF Sound
<1>6. cmd' = [cmd EXCEPT ![t] = Command(kind, pc, url, token, NoProfiles, {})]
      /\ UNCHANGED <<memory, disk, keychain, faults>>
  BY <1>2 DEF Invoke
<1>7. commands' \in 0..MaxCommands
  <2>1. commands \in 0..MaxCommands
    BY DEF SoundInv
  <2> QED
    BY SMT, <2>1, DesktopAssumption DEF Invoke
<1>8. faults' \in 0..MaxFaults
  BY <1>6 DEF SoundInv
<1> QED
  BY <1>5, <1>6, <1>7, <1>8, SoundCommand, SoundRuns

\* The list is read: the settings have no tokens.
LEMMA SoundLoad ==
  ASSUME SoundInv, HomeInv, NEW t \in Threads, load_profiles(t)
  PROVE  SoundInv'
<1>1. PICK pc \in {"get", "edit"} :
        cmd' = [cmd EXCEPT ![t] = Command(cmd[t].kind, pc, cmd[t].url, cmd[t].token,
                                          memory.profiles, DOMAIN memory.profiles)]
  BY DEF load_profiles, Runs
<1>2. AllIssued(memory.profiles)
  BY DEF HomeInv, Bare, AllIssued, Issued
<1>3. Sound(cmd[t].kind, pc, cmd[t].token, memory.profiles)
  BY <1>2 DEF SoundInv, CommandSound, Sound
<1>4. UNCHANGED <<memory, disk, keychain, commands, faults>>
  BY DEF load_profiles
<1>5. faults' \in 0..MaxFaults /\ commands' \in 0..MaxCommands
  BY <1>4 DEF SoundInv
<1> QED
  BY <1>1, <1>3, <1>4, <1>5, SoundCommand, SoundRuns

\* A token is read from the keychain.
LEMMA SoundGet ==
  ASSUME SoundInv, HomeInv, NEW t \in Threads, NEW n \in Names, keychain_get(t, n)
  PROVE  SoundInv'
<1>1. PICK pc \in {"get", "edit"}, token \in {keychain[n], None} :
        cmd' = [cmd EXCEPT ![t] =
          Command(cmd[t].kind, pc, cmd[t].url, cmd[t].token,
                  [cmd[t].list EXCEPT ![n] = Profile(cmd[t].list[n].server_url, token)], cmd[t].left \ {n})]
  BY DEF keychain_get, Runs
<1>2. PICK list : list = [cmd[t].list EXCEPT ![n] = Profile(cmd[t].list[n].server_url, token)]
  OBVIOUS
<1>3. Issued(token) /\ Sound(cmd[t].kind, cmd[t].pc, cmd[t].token, cmd[t].list)
  BY <1>1 DEF SoundInv, CommandSound, Issued
<1>4. AllIssued(list)
  <2>1. DOMAIN list = DOMAIN cmd[t].list
    BY <1>2
  <2>2. ASSUME NEW m \in DOMAIN list PROVE Issued(list[m].token)
    <3>1. CASE m = n
      <4>1. list[m] = Profile(cmd[t].list[n].server_url, token)
        BY <1>2, <2>1, <3>1
      <4>2. list[m].token = token
        BY SMT, <4>1 DEF Profile
      <4> QED
        BY <1>3, <4>2
    <3>2. CASE m # n
      <4>1. list[m] = cmd[t].list[m]
        BY <1>2, <2>1, <3>2
      <4> QED
        BY <1>3, <2>1, <4>1 DEF Sound, AllIssued
    <3> QED
      BY <3>1, <3>2
  <2> QED
    BY <2>2 DEF AllIssued
<1>5. Sound(cmd[t].kind, pc, cmd[t].token, list)
  BY <1>3, <1>4 DEF Sound
<1>6. UNCHANGED <<memory, disk, keychain, commands>> /\ (Fault \/ Fine)
  BY DEF keychain_get
<1>7. faults' \in 0..MaxFaults /\ commands' \in 0..MaxCommands
  BY <1>6, FaultCounts DEF SoundInv
<1> QED
  BY <1>1, <1>2, <1>5, <1>6, <1>7, SoundCommand, SoundRuns

\* A token is written to the keychain or deleted, or that fails.
LEMMA SoundPut ==
  ASSUME SoundInv, HomeInv, NEW t \in Threads, NEW n \in Names, keychain_put(t, n)
  PROVE  SoundInv'
<1>1. /\ Sound(cmd[t].kind, "put", cmd[t].token, cmd[t].list) /\ n \in cmd[t].left
      /\ cmd[t].left \subseteq DOMAIN cmd[t].list
  BY DEF SoundInv, CommandSound, HomeInv, CommandGood, Fits, keychain_put
<1>2. Issued(cmd[t].list[n].token)
  BY <1>1 DEF Sound, AllIssued
<1>3. keychain' = keychain \/ keychain' = [keychain EXCEPT ![n] = cmd[t].list[n].token]
  BY DEF keychain_put, keychain_delete
<1>4. \A m \in Names : Issued(keychain'[m])
  <2>1. DOMAIN keychain = Names /\ \A m \in Names : Issued(keychain[m])
    BY DEF HomeInv, SoundInv
  <2> QED
    BY <1>2, <1>3, <2>1
<1>5. UNCHANGED <<memory, disk, commands>> /\ (Fault \/ Fine)
  BY DEF keychain_put
<1>6. \E c : CommandSound(c) /\ cmd' = [cmd EXCEPT ![t] = c]
  <2>1. CASE Ends(t)
    BY <2>1, IdleIsSound DEF Ends
  <2>2. CASE \E pc \in {"put", "store"} :
               Runs(t, Command(cmd[t].kind, pc, cmd[t].url, cmd[t].token, cmd[t].list, cmd[t].left \ {n}))
    <3>1. \A pc \in {"put", "store"} : Sound(cmd[t].kind, pc, cmd[t].token, cmd[t].list)
      BY <1>1 DEF Sound
    <3> QED
      BY <2>2, <3>1, SoundCommand DEF Runs
  <2> QED
    BY <2>1, <2>2 DEF keychain_put
<1>7. faults' \in 0..MaxFaults /\ commands' \in 0..MaxCommands
  BY <1>5, FaultCounts DEF SoundInv
<1>8. SettingsOK(memory') /\ SettingsOK(disk')
  BY <1>5 DEF SoundInv
<1> QED
  BY <1>4, <1>6, <1>7, <1>8, SoundMoves

\* The settings get the checked list, or another active profile.
LEMMA SoundSave ==
  ASSUME SoundInv, HomeInv, PlaceInv, NEW t \in Threads, save_profiles(t) \/ set_active_profile_name(t)
  PROVE  SoundInv'
<1>1. UNCHANGED <<keychain, commands>> /\ (disk' = memory' \/ disk' = disk) /\ (Fault \/ UNCHANGED faults)
  BY DEF save_profiles, set_active_profile_name
<1>2. SettingsOK(memory')
  <2>1. CASE save_profiles(t)
    <3>1. PICK list : list = sanitized(cmd[t].list)
      OBVIOUS
    <3>2. memory' = Settings(list, memory.active) /\ Secure(cmd[t].list)
      BY <2>1, <3>1 DEF save_profiles, SoundInv, CommandSound, Sound
    <3>3. DOMAIN list = DOMAIN cmd[t].list /\ \A n \in DOMAIN list : list[n] = Profile(cmd[t].list[n].server_url, None)
      BY <3>1 DEF sanitized
    <3>4. \A n \in DOMAIN list : list[n].server_url = cmd[t].list[n].server_url
      <4>1. \A url : Profile(url, None).server_url = url
        BY DEF Profile
      <4> QED
        BY <3>3, <4>1
    <3>5. Secure(list)
      BY <3>2, <3>3, <3>4 DEF Secure
    <3>6. memory'.profiles = list /\ memory'.active = memory.active
      BY SMT, <3>2 DEF Settings
    <3> QED
      BY <3>5, <3>6 DEF SoundInv, SettingsOK
  <2>2. CASE set_active_profile_name(t)
    <3>1. PICK name \in {memory.active, None, profile_name_for(cmd[t].url)} :
            /\ memory' = Settings(memory.profiles, name)
            /\ name = profile_name_for(cmd[t].url) =>
                 name = memory.active \/ name = None \/ cmd[t].kind \notin {"logout", "remove_profile"}
      BY <2>2 DEF set_active_profile_name
    <3>2. name \in Names \cup {None}
      <4>1. memory.active \in Names \cup {None}
        BY DEF SoundInv, SettingsOK
      <4>2. cmd[t].kind \in {"login", "logout", "remove_profile", "set_active_profile"}
        BY <2>2 DEF set_active_profile_name, PlaceInv, Placed
      <4>3. cmd[t].kind \notin {"logout", "remove_profile"} => cmd[t].url \in Urls
        BY <4>2 DEF HomeInv, CommandGood, Fits, WithUrl
      <4> QED
        BY <3>1, <4>1, <4>3 DEF Names
    <3>3. memory'.profiles = memory.profiles /\ memory'.active = name
      BY SMT, <3>1 DEF Settings
    <3> QED
      BY <3>2, <3>3 DEF SoundInv, SettingsOK
  <2> QED
    BY <2>1, <2>2
<1>3. SettingsOK(disk') /\ \A n \in Names : Issued(keychain'[n])
  BY <1>1, <1>2 DEF SoundInv
<1>4. PICK c : CommandSound(c) /\ cmd' = [cmd EXCEPT ![t] = c]
  <2>1. CASE Ends(t)
    BY <2>1, IdleIsSound DEF Ends
  <2>2. CASE Runs(t, At(cmd[t], "active"))
    <3>1. Sound(cmd[t].kind, "active", cmd[t].token, cmd[t].list)
      BY DEF SoundInv, CommandSound, Sound
    <3> QED
      BY <2>2, <3>1, SoundCommand DEF Runs, At
  <2> QED
    BY <2>1, <2>2 DEF save_profiles, set_active_profile_name, Returns
<1>5. faults' \in 0..MaxFaults /\ commands' \in 0..MaxCommands
  BY <1>1, FaultCounts DEF SoundInv
<1> QED
  BY <1>2, <1>3, <1>4, <1>5, SoundMoves

\* A login is answered: the token is of a server the page named.
LEMMA SoundLogin ==
  ASSUME SoundInv, HomeInv, NEW t \in Threads, perform_login(t)
  PROVE  SoundInv'
<1>0. UNCHANGED <<memory, disk, keychain, commands, faults>>
  BY DEF perform_login, Idly
<1>1. faults' \in 0..MaxFaults /\ commands' \in 0..MaxCommands
  BY <1>0 DEF SoundInv
<1>2. CASE Ends(t)
  BY <1>0, <1>1, <1>2, SoundEnds
<1>3. CASE Runs(t, Command(cmd[t].kind, "load", cmd[t].url, Token(cmd[t].url, commands), cmd[t].list, cmd[t].left))
  <2>1. cmd[t].kind = "login" /\ AllIssued(cmd[t].list)
    BY DEF perform_login, SoundInv, CommandSound, Sound
  <2>2. cmd[t].url \in Urls
    BY <2>1 DEF HomeInv, CommandGood, Fits, WithUrl
  <2>3. Token(cmd[t].url, commands).server = cmd[t].url /\ Token(cmd[t].url, commands).serial = commands
    BY DEF Token
  <2>4. Issued(Token(cmd[t].url, commands))
    BY <2>2, <2>3 DEF Issued, SoundInv
  <2>5. Sound(cmd[t].kind, "load", Token(cmd[t].url, commands), cmd[t].list)
    BY <2>1, <2>4 DEF Sound
  <2> QED
    BY <1>0, <1>1, <1>3, <2>5, SoundCommand, SoundRuns DEF Runs
<1> QED
  BY <1>2, <1>3 DEF perform_login

\* A list is to be saved: with a server that is refused, nothing is.
LEMMA SoundEdits ==
  ASSUME SoundInv, HomeInv, NEW t \in Threads, NEW kind, NEW list, Edits(t, kind, list), AllIssued(list)
  PROVE  SoundInv'
<1>0. UNCHANGED <<memory, disk, keychain, commands, faults>>
  BY DEF Edits, Idly
<1>1. faults' \in 0..MaxFaults /\ commands' \in 0..MaxCommands
  BY <1>0 DEF SoundInv
<1>2. CASE Ends(t)
  BY <1>0, <1>1, <1>2, SoundEnds
<1>3. CASE ~Ends(t)
  <2>1. Secure(list)
    BY <1>3 DEF Edits, Saving, Secure
  <2>2. PICK pc \in {"store", "put"} :
          cmd' = [cmd EXCEPT ![t] = Command(cmd[t].kind, pc, cmd[t].url, cmd[t].token, list, DOMAIN list)]
    BY <1>3 DEF Edits, Saving, Runs
  <2>3. Sound(cmd[t].kind, pc, cmd[t].token, list)
    BY <2>1 DEF SoundInv, CommandSound, Sound
  <2> QED
    BY <1>0, <1>1, <2>2, <2>3, SoundCommand, SoundRuns
<1> QED
  BY <1>2, <1>3

\* The commands edit their lists.
LEMMA SoundEditing ==
  ASSUME SoundInv, HomeInv, NEW t \in Threads,
         upsert_profile(t) \/ save_profile(t) \/ remove_profile(t) \/ logout(t)
  PROVE  SoundInv'
<1>1. PICK old, token : old = cmd[t].list /\ token = cmd[t].token
  OBVIOUS
<1>2. AllIssued(old) /\ Issued(token) /\ Issued(None)
  BY <1>1 DEF SoundInv, CommandSound, Sound, Issued
<1>3. CASE upsert_profile(t) \/ save_profile(t)
  <2>1. PICK name, list : list = Upserted(old, name, Profile(cmd[t].url, token)) /\ Edits(t, cmd[t].kind, list)
    BY <1>1, <1>3 DEF upsert_profile, save_profile, upsert, Edits
  <2>2. DOMAIN list = DOMAIN old \cup {name}
        /\ \A n \in DOMAIN list : list[n] = IF n = name THEN Profile(cmd[t].url, token) ELSE old[n]
    BY <2>1 DEF Upserted
  <2>3. ASSUME NEW n \in DOMAIN list PROVE Issued(list[n].token)
    <3>1. CASE n = name
      <4>1. Profile(cmd[t].url, token).token = token
        BY DEF Profile
      <4> QED
        BY <1>2, <2>2, <3>1, <4>1
    <3>2. CASE n # name
      BY <1>2, <2>2, <3>2 DEF AllIssued
    <3> QED
      BY <3>1, <3>2
  <2> QED
    BY <2>1, <2>3, SoundEdits DEF AllIssued
<1>4. CASE remove_profile(t)
  <2>1. PICK name, list : list = Removed(old, name) /\ Edits(t, "remove_profile", list)
    BY <1>1, <1>4 DEF remove_profile
  <2>2. AllIssued(list)
    BY <1>2, <2>1 DEF AllIssued, Removed, Restrict
  <2> QED
    BY <2>1, <2>2, SoundEdits
<1>5. CASE logout(t)
  <2>1. PICK name, list : list = SignedOut(old, name) /\ Edits(t, "logout", list)
    BY <1>1, <1>5 DEF logout
  <2>2. DOMAIN list = DOMAIN old
        /\ \A n \in DOMAIN list : list[n] = IF n = name THEN Profile(old[n].server_url, None) ELSE old[n]
    BY <2>1 DEF SignedOut
  <2>3. ASSUME NEW n \in DOMAIN list PROVE Issued(list[n].token)
    <3>1. CASE n = name
      <4>1. Profile(old[n].server_url, None).token = None
        BY DEF Profile
      <4> QED
        BY <1>2, <2>2, <3>1, <4>1
    <3>2. CASE n # name
      BY <1>2, <2>2, <3>2 DEF AllIssued
    <3> QED
      BY <3>1, <3>2
  <2> QED
    BY <2>1, <2>3, SoundEdits DEF AllIssued
<1> QED
  BY <1>3, <1>4, <1>5

\* The active profile is found, with its token.
LEMMA SoundActive ==
  ASSUME SoundInv, HomeInv, NEW t \in Threads, load_active_profile(t)
  PROVE  SoundInv'
<1>0. UNCHANGED <<memory, disk, keychain, commands, faults>>
  BY DEF load_active_profile, Idly
<1>1. faults' \in 0..MaxFaults /\ commands' \in 0..MaxCommands
  BY <1>0 DEF SoundInv
<1>2. CASE Ends(t)
  BY <1>0, <1>1, <1>2, SoundEnds
<1>3. CASE ~Ends(t)
  <2>1. PICK active, next :
          /\ active = cmd[t].list[memory.active]
          /\ next = [get_session |-> "idle", upload_file |-> "open", download_image |-> "link"]
    OBVIOUS
  <2>2. PICK pc : pc = next[cmd[t].kind]
    OBVIOUS
  <2>3. cmd[t].kind \in {"get_session", "upload_file", "download_image"}
    BY SMT DEF load_active_profile
  <2>4. pc \in {"idle", "open", "link"}
    BY SMT, <2>1, <2>2, <2>3
  <2>5. cmd' = [cmd EXCEPT ![t] = Command(cmd[t].kind, pc, active.server_url, active.token, NoProfiles, {})]
    BY <1>3, <2>1, <2>2 DEF load_active_profile, Runs
  <2>6. memory.active \in DOMAIN cmd[t].list /\ AllIssued(cmd[t].list)
    BY <1>3 DEF load_active_profile, SoundInv, CommandSound, Sound
  <2>7. Sound(cmd[t].kind, pc, active.token, NoProfiles)
    BY <2>1, <2>4, <2>6, IdleIsSound DEF Sound, AllIssued
  <2> QED
    BY <1>0, <1>1, <2>5, <2>7, SoundCommand, SoundRuns
<1> QED
  BY <1>2, <1>3

\* A step of a transfer takes no token and no profile.
LEMMA SoundTransfer ==
  ASSUME SoundInv, HomeInv, NEW t \in Threads, TransferStep(t)
  PROVE  SoundInv'
<1>0. /\ UNCHANGED <<memory, disk, keychain, commands>>
      /\ UNCHANGED cmd \/ Ends(t) \/ \E pc \in {"sending", "fetch", "streaming", "idle"} : \E x : Goes(t, pc, x)
  BY TransferSteps
<1>1. faults' \in 0..MaxFaults /\ commands' \in 0..MaxCommands
  <2>1. Fault \/ Fine \/ UNCHANGED faults
    BY DEF TransferStep, ServerAnswers, ConnectionBreaks, open_file, send_chunk, perform_upload, resolve_link,
           create_file, write_chunk, DiskWrites, perform_download, Idly
  <2> QED
    BY <1>0, <2>1, FaultCounts DEF SoundInv
<1>2. CASE UNCHANGED cmd
  BY <1>0, <1>1, <1>2 DEF SoundInv
<1>3. CASE Ends(t)
  BY <1>0, <1>1, <1>3, SoundEnds
<1>4. ASSUME NEW pc \in {"sending", "fetch", "streaming", "idle"}, NEW x, Goes(t, pc, x) PROVE SoundInv'
  <2>1. Sound(cmd[t].kind, pc, cmd[t].token, cmd[t].list)
    BY DEF SoundInv, CommandSound, Sound
  <2>2. cmd' = [cmd EXCEPT ![t] = Command(cmd[t].kind, pc, cmd[t].url, cmd[t].token, cmd[t].list, cmd[t].left)]
    BY <1>4 DEF Goes, At
  <2> QED
    BY <1>0, <1>1, <2>1, <2>2, SoundCommand, SoundRuns
<1> QED
  BY <1>0, <1>2, <1>3, <1>4

\* The program starts again with what is on disk, or the settings are written out.
LEMMA SoundRestart ==
  ASSUME SoundInv, HomeInv, Restart \/ Autosave
  PROVE  SoundInv'
<1>1. CASE Restart
  <2>1. /\ memory' = disk /\ UNCHANGED <<disk, keychain, commands>> /\ \A t \in Threads : cmd'[t] = Idle
    BY <1>1 DEF Restart
  <2>2. faults' \in 0..MaxFaults
    <3>1. faults \in 0..MaxFaults
      BY DEF SoundInv
    <3> QED
      BY SMT, <1>1, <3>1, DesktopAssumption DEF Restart
  <2>3. \A t \in Threads : CommandSound(cmd[t])'
    BY <2>1, IdleIsSound DEF CommandSound
  <2> QED
    BY <2>1, <2>2, <2>3 DEF SoundInv
<1>2. CASE Autosave
  BY <1>2 DEF Autosave, SoundInv
<1> QED
  BY <1>1, <1>2

\* Every step keeps the settings and the keychain sound.
LEMMA NextSound == HomeInv /\ PlaceInv /\ SoundInv /\ [Next]_vars => SoundInv'
<1> SUFFICES ASSUME HomeInv, PlaceInv, SoundInv, [Next]_vars PROVE SoundInv'
  OBVIOUS
<1>1. CASE UNCHANGED vars
  BY <1>1 DEF vars, SoundInv
<1>2. CASE Autosave \/ Restart
  BY <1>2, SoundRestart
<1>3. ASSUME NEW t \in Threads, NEW kind, NEW u \in Urls \cup {None}, NEW token, Invoke(t, kind, u, token)
      PROVE  SoundInv'
  BY <1>3, SoundInvoke
<1>4. ASSUME NEW t \in Threads, NEW n \in Names, keychain_get(t, n) \/ keychain_put(t, n)
      PROVE  SoundInv'
  BY <1>4, SoundGet, SoundPut
<1>5. ASSUME NEW t \in Threads, load_profiles(t) \/ save_profiles(t) \/ set_active_profile_name(t) \/ perform_login(t)
      PROVE  SoundInv'
  BY <1>5, SoundLoad, SoundSave, SoundLogin
<1>6. ASSUME NEW t \in Threads,
             upsert_profile(t) \/ save_profile(t) \/ remove_profile(t) \/ logout(t)
      PROVE  SoundInv'
  BY <1>6, SoundEditing
<1>7. ASSUME NEW t \in Threads, list_profiles(t) PROVE SoundInv'
  <2>1. Ends(t) /\ UNCHANGED <<memory, disk, keychain, commands, faults>>
    BY <1>7 DEF list_profiles, Idly
  <2>2. faults' \in 0..MaxFaults /\ commands' \in 0..MaxCommands
    BY <2>1 DEF SoundInv
  <2> QED
    BY <2>1, <2>2, SoundEnds
<1>8. ASSUME NEW t \in Threads, load_active_profile(t) \/ TransferStep(t) PROVE SoundInv'
  BY <1>8, SoundActive, SoundTransfer
<1> QED
  BY <1>1, <1>2, <1>3, <1>4, <1>5, <1>6, <1>7, <1>8 DEF Next, TransferStep

-----------------------------------------------------------------------------
\* Tokens, transfers and promises at the start.
LEMMA InitInv == Init => Inv
<1> SUFFICES ASSUME Init PROVE Inv
  OBVIOUS
<1>1. PICK names \in SUBSET Names, active \in Names \cup {None} :
        \E list \in [names -> {Profile(u, None) : u \in {v \in Urls : validate_server_url(v)}}] :
          (\A n \in names : profile_name_for(list[n].server_url) = n) /\ memory = Settings(list, active)
  BY DEF Init
<1>l. PICK list \in [names -> {Profile(u, None) : u \in {v \in Urls : validate_server_url(v)}}] :
        (\A n \in names : profile_name_for(list[n].server_url) = n) /\ memory = Settings(list, active)
  BY <1>1
<1>2. /\ disk = memory /\ DOMAIN keychain = Names /\ \A n \in Names : Home(n, keychain[n])
      /\ DOMAIN cmd = Threads /\ DOMAIN transfer = Threads
      /\ \A t \in Threads : cmd[t] = Idle /\ transfer[t] = NoTransfer
      /\ promised = Settings(View(memory.profiles, keychain), memory.active)
  BY DEF Init, Home
<1>3. memory.profiles = list /\ memory.active = active
  BY SMT, <1>l, ProfileFields
<1>4. Good(list) /\ Bare(list)
  <2>1. \A n \in names : list[n].token = None
    <3> SUFFICES ASSUME NEW n \in names PROVE list[n].token = None
      OBVIOUS
    <3>1. PICK u : list[n] = Profile(u, None)
      BY <1>l
    <3> QED
      BY SMT, <3>1 DEF Profile
  <2> QED
    BY <1>l, <2>1 DEF Good, Bare, Home
<1>5. HomeInv
  BY <1>2, <1>3, <1>4, IdleIsGood DEF HomeInv
<1>6. TransferInv
  BY <1>2, IdleStage DEF TransferInv
<1>7. PlaceInv
  <2>1. Idle.kind = "none" /\ Idle.pc = "idle"
    BY SMT DEF Idle, Command
  <2>2. \A t \in Threads : Placed(t, cmd[t].kind, cmd[t].pc)
    BY SMT, <1>2, <2>1 DEF Placed, OnMain
  <2> QED
    BY <1>l, <1>2, <1>3, <2>2 DEF PlaceInv
<1>8. PromiseInv
  <2>1. promised.profiles = View(memory.profiles, keychain) /\ promised.active = memory.active
    BY SMT, <1>2, ProfileFields
  <2>2. \A t \in Threads : ~Lists(cmd[t])
    BY <1>2, IdleLists
  <2> QED
    BY <1>2, <2>1, <2>2 DEF PromiseInv
<1> QED
  BY <1>5, <1>6, <1>7, <1>8 DEF Inv

\* Of the whole client, with any overlap of commands, faults and restarts.
THEOREM Invariance == Spec => []Inv
<1>1. Inv /\ [Next]_vars => Inv'
  BY NextHome, NextTransfer, NextPlace, NextPromise DEF Inv
<1> QED
  BY <1>1, InitInv, PTL DEF Spec

\* The token a command of the page or a transfer uses was issued by the server
\* it goes to (load_active_profile, perform_upload, perform_download).
THEOREM TokensGoHome == Spec => []TokenGoesHome
<1>1. Inv => TokenGoesHome
  <2> SUFFICES ASSUME Inv, NEW t \in Threads, cmd[t].kind \in Readers, cmd[t].token # None
               PROVE  /\ cmd[t].url.host = cmd[t].token.server.host
                      /\ cmd[t].url.port = cmd[t].token.server.port
    BY DEF TokenGoesHome
  <2>1. PICK u, v : u = cmd[t].url /\ v = cmd[t].token.server
    OBVIOUS
  <2>2. profile_name_for(v) = profile_name_for(u)
    BY <2>1 DEF Inv, HomeInv, CommandGood, Fits, Home
  <2>3. u.host = v.host /\ u.port = v.port
    BY SMT, <2>2 DEF profile_name_for
  <2> QED
    BY <2>1, <2>3
<1> QED
  BY <1>1, Invariance, PTL

\* No token is in settings.json (save_profiles).
THEOREM SettingsHaveNoToken == Spec => []NoTokenInSettings
<1>1. Inv => NoTokenInSettings
  BY DEF Inv, HomeInv, Bare, NoTokenInSettings
<1> QED
  BY <1>1, Invariance, PTL

\* An upload that answers Ok was accepted whole; a download that does got all of
\* the image, and wrote all but at most its last chunk (download.rs, upload.rs).
THEOREM OkMeansWhole == Spec => []TransfersAreWhole
<1>1. Inv => TransfersAreWhole
  <2> SUFFICES ASSUME Inv, NEW t \in Threads, transfer[t].answer = "Ok"
               PROVE  /\ transfer[t].status = "success" /\ transfer[t].sent = Chunks
                      /\ cmd[t].kind = "download_image" => transfer[t].written >= Chunks - 1
    BY DEF TransfersAreWhole
  <2>1. Stage(cmd[t].kind, cmd[t].pc, transfer[t])
    BY DEF Inv, TransferInv
  <2> QED
    BY SMT, <2>1, DesktopAssumption DEF Stage
<1> QED
  BY <1>1, Invariance, PTL

\* Commands that neither overlap nor fail leave in keychain and settings what
\* they promise, one after another (save_profiles, load_profiles).
THEOREM CommandsDoAddUp == Spec => []CommandsAddUp
<1>1. Inv => CommandsAddUp
  <2> SUFFICES ASSUME Inv, promised # None, \A t \in Threads : ~Editing(t)
               PROVE  /\ disk = memory /\ View(memory.profiles, keychain) = promised.profiles
                      /\ memory.active = promised.active
    BY DEF CommandsAddUp
  <2>1. \A t \in Threads : ~Lists(cmd[t])
    BY DEF Lists, Listers, EditSteps, Editing, Readers
  <2> QED
    BY <2>1 DEF Inv, PromiseInv
<1> QED
  BY <1>1, Invariance, PTL

\* The settings and the keychain at the start.
LEMMA InitSound == Init => SoundInv
<1> SUFFICES ASSUME Init PROVE SoundInv
  OBVIOUS
<1>1. PICK names \in SUBSET Names, active \in Names \cup {None} :
        \E list \in [names -> {Profile(u, None) : u \in {v \in Urls : validate_server_url(v)}}] :
          memory = Settings(list, active)
  BY DEF Init
<1>2. PICK list \in [names -> {Profile(u, None) : u \in {v \in Urls : validate_server_url(v)}}] :
        memory = Settings(list, active)
  BY <1>1
<1>3. memory.profiles = list /\ memory.active = active
  BY SMT, <1>2, ProfileFields
<1>4. ASSUME NEW n \in names PROVE validate_server_url(list[n].server_url)
  <2>1. PICK u \in Urls : list[n] = Profile(u, None) /\ validate_server_url(u)
    BY <1>2
  <2>2. list[n].server_url = u
    BY SMT, <2>1 DEF Profile
  <2> QED
    BY <2>1, <2>2
<1>5. SettingsOK(memory) /\ SettingsOK(disk)
  <2>1. disk = memory /\ DOMAIN list = names
    BY <1>2 DEF Init
  <2> QED
    BY <1>3, <1>4, <2>1 DEF SettingsOK, Secure
<1>6. ASSUME NEW n \in Names PROVE Issued(keychain[n])
  <2> SUFFICES ASSUME keychain[n] # None PROVE keychain[n].server \in Urls /\ keychain[n].serial \in 0..MaxCommands
    BY DEF Issued
  <2>1. PICK u \in Urls : keychain[n] = Token(u, 0)
    BY DEF Init
  <2>2. keychain[n].server = u /\ keychain[n].serial = 0
    BY SMT, <2>1 DEF Token
  <2>3. 0 \in 0..MaxCommands
    BY SMT, DesktopAssumption
  <2> QED
    BY <2>2, <2>3
<1>7. faults \in 0..MaxFaults /\ commands \in 0..MaxCommands
  BY SMT, DesktopAssumption DEF Init
<1>8. \A t \in Threads : CommandSound(cmd[t])
  BY IdleIsSound DEF Init
<1> QED
  BY <1>5, <1>6, <1>7, <1>8 DEF SoundInv

\* In memory and in settings.json every profile is under the name of its server
\* and its server has passed validate_server_url, whatever commands overlap or
\* are cut off; the keychain has tokens of known servers only.
THEOREM TypeCorrect == Spec => []TypeOK
<1>1. Inv /\ SoundInv /\ [Next]_vars => SoundInv'
  BY NextSound DEF Inv
<1>2. Inv /\ SoundInv => TypeOK
  <2> SUFFICES ASSUME Inv, SoundInv PROVE TypeOK
    OBVIOUS
  <2>1. ASSUME NEW s \in {memory, disk}
        PROVE  /\ s.active \in Names \cup {None}
               /\ \A n \in DOMAIN s.profiles :
                    profile_name_for(s.profiles[n].server_url) = n /\ validate_server_url(s.profiles[n].server_url)
    BY DEF Inv, HomeInv, Good, SoundInv, SettingsOK, Secure
  <2>2. DOMAIN keychain = Names
    BY DEF Inv, HomeInv
  <2>3. \A n \in Names : keychain[n] # None => keychain[n].server \in Urls /\ keychain[n].serial \in 0..MaxCommands
    BY DEF SoundInv, Issued
  <2> QED
    BY <2>1, <2>2, <2>3 DEF TypeOK, SoundInv
<1> QED
  BY <1>1, <1>2, InitSound, Invariance, PTL DEF Spec
=============================================================================
