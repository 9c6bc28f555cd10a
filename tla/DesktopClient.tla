--------------------------- MODULE DesktopClient ---------------------------
(***************************************************************************)
(* The desktop client's commands.  Profiles are kept in two places: the    *)
(* settings file has names and servers, the system's keychain the tokens.  *)
(* Commands read both, edit the list and write both back, step by step.    *)
(* The plain commands run one after another on the main thread; login,     *)
(* upload_file and download_image are asynchronous and run beside it.      *)
(* Calls of the keychain and writes of the settings file may fail, and the *)
(* program may be closed at any point.  A release build is modelled.       *)
(*                                                                         *)
(* The keychain, the settings plugin, the servers and tokio's file are     *)
(* external.  A token is known by the server that issued it and a number.  *)
(***************************************************************************)
EXTENDS Integers, Functions

CONSTANTS
  Urls,         \* records with scheme, host, port and path
  Tasks, Main,  \* asynchronous commands; the main thread
  None,
  Chunks,       \* in a file that is uploaded or downloaded
  MaxCommands, MaxFaults

ASSUME DesktopAssumption ==
  /\ \A u \in Urls : DOMAIN u = {"scheme", "host", "port", "path"}
  /\ Chunks \in Nat \ {0} /\ MaxCommands \in Nat /\ MaxFaults \in Nat

VARIABLES
  memory,    \* the settings as the program has them: profiles, active
  disk,      \* settings.json
  keychain,  \* [name -> token or None]
  cmd,       \* [Threads -> the command it runs]
  transfer,  \* [Threads -> how far its upload or download is]
  commands, faults,
  promised   \* what the commands so far amount to; None after a fault, an
             \* overlap or a command that was cut off

vars == <<memory, disk, keychain, cmd, transfer, commands, faults, promised>>

Threads == Tasks \cup {Main}

\* profile_name_for: host and port; HostAlone forgets the port.
HostAlone(u) == <<u.host>>
profile_name_for(u) == <<u.host, u.port>>
Names == {profile_name_for(u) : u \in Urls}

\* Release builds take https only.
validate_server_url(u) == u.scheme = "https"

\* A list of profiles goes by their names: no command adds a name it has, and
\* its order tells nothing apart.
Profile(url, token) == [server_url |-> url, token |-> token]
NoProfiles == [n \in {} |-> Profile(None, None)]
Upserted(list, name, p) == [n \in DOMAIN list \cup {name} |-> IF n = name THEN p ELSE list[n]]
Removed(list, name) == Restrict(list, DOMAIN list \ {name})
SignedOut(list, name) == [n \in DOMAIN list |-> IF n = name THEN Profile(list[n].server_url, None) ELSE list[n]]

Token(u, n) == [server |-> u, serial |-> n]

\* left: the profiles whose turn at the keychain is still to come.
Command(kind, pc, url, token, list, left) ==
  [kind |-> kind, pc |-> pc, url |-> url, token |-> token, list |-> list, left |-> left]
Idle == Command("none", "idle", None, None, NoProfiles, {})
At(c, pc) == Command(c.kind, pc, c.url, c.token, c.list, c.left)

Transfer(status, sent, written, torn, answer) ==
  [status |-> status, sent |-> sent, written |-> written, torn |-> torn, answer |-> answer]
NoTransfer == Transfer("none", 0, 0, FALSE, "none")

Settings(profiles, active) == [profiles |-> profiles, active |-> active]

\* What a user has after the commands so far: a token or None for each profile.
View(list, keys) == [n \in DOMAIN list |-> Profile(list[n].server_url, keys[n])]

\* Some servers, one to a name; tokens of some, and of some that were removed.
Init ==
  LET servers == {u \in Urls : validate_server_url(u)}
  IN /\ \E names \in SUBSET Names, active \in Names \cup {None} :
          \E list \in [names -> {Profile(u, None) : u \in servers}] :
            /\ \A n \in names : profile_name_for(list[n].server_url) = n
            /\ memory = Settings(list, active)
     /\ keychain \in [Names -> {Token(u, 0) : u \in servers} \cup {None}]
     /\ \A n \in Names : keychain[n] # None => profile_name_for(keychain[n].server) = n
     /\ disk = memory
     /\ cmd = [t \in Threads |-> Idle] /\ transfer = [t \in Threads |-> NoTransfer]
     /\ commands = 0 /\ faults = 0
     /\ promised = Settings(View(memory.profiles, keychain), memory.active)

-----------------------------------------------------------------------------
Readers == {"get_session", "list_profiles", "upload_file", "download_image"}
Runs(t, c) == cmd' = [cmd EXCEPT ![t] = c] /\ UNCHANGED transfer
Ends(t) == cmd' = [cmd EXCEPT ![t] = Idle] /\ transfer' = [transfer EXCEPT ![t] = NoTransfer]

\* A call of the keychain or of the file system fails, or does not.
Fault == faults < MaxFaults /\ faults' = faults + 1 /\ promised' = None
Fine == UNCHANGED <<faults, promised>>

\* Commands that have read the profiles and are to write them.
Editing(t) == cmd[t].kind \notin Readers /\ cmd[t].pc \in {"get", "edit", "put", "store", "active"}

FirstStep == [login |-> "network", set_active_profile |-> "active", logout |-> "load", get_session |-> "load",
              list_profiles |-> "load", save_profile |-> "load", remove_profile |-> "load",
              upload_file |-> "load", download_image |-> "load"]

\* The page calls a command; a profile it saves has the name its server gives
\* it, and no token or the one that was just listed.
Invoke(t, kind, url, token) ==
  /\ cmd[t].pc = "idle" /\ commands < MaxCommands
  /\ kind \in (IF t = Main THEN DOMAIN FirstStep \ {"login", "upload_file", "download_image"}
               ELSE {"login", "upload_file", "download_image"})
  /\ url = None <=> kind \notin {"login", "save_profile", "set_active_profile", "remove_profile"}
  /\ token # None => kind = "save_profile" /\ token = keychain[profile_name_for(url)]
  /\ commands' = commands + 1
  /\ cmd' = [cmd EXCEPT ![t] = Command(kind, FirstStep[kind], url, token, NoProfiles, {})]
  /\ transfer' = [transfer EXCEPT ![t] = NoTransfer]
  /\ UNCHANGED <<memory, disk, keychain, faults, promised>>

-----------------------------------------------------------------------------
(* Reading and writing profiles.                                           *)

\* The list from the settings; tokens follow from the keychain.
load_profiles(t) ==
  LET c == cmd[t]
      list == memory.profiles
  IN /\ c.pc = "load"
     /\ Runs(t, Command(c.kind, IF DOMAIN list = {} THEN "edit" ELSE "get", c.url, c.token, list, DOMAIN list))
     /\ promised' = IF c.kind \notin Readers /\ \E u \in Threads \ {t} : Editing(u) THEN None ELSE promised
     /\ UNCHANGED <<memory, disk, keychain, commands, faults>>

\* A keychain that does not answer is one without the token.
keychain_get(t, n) ==
  LET c == cmd[t]
      Found(token) ==
        Runs(t, Command(c.kind, IF c.left = {n} THEN "edit" ELSE "get", c.url, c.token,
                        [c.list EXCEPT ![n] = Profile(c.list[n].server_url, token)], c.left \ {n}))
  IN /\ c.pc = "get" /\ n \in c.left
     /\ \/ Found(keychain[n]) /\ Fine
        \/ Found(None) /\ Fault
     /\ UNCHANGED <<memory, disk, keychain, commands>>

\* save_profiles checks every server first.
Saving(t, list) ==
  IF \E n \in DOMAIN list : ~validate_server_url(list[n].server_url) THEN Ends(t)
  ELSE Runs(t, Command(cmd[t].kind, IF DOMAIN list = {} THEN "store" ELSE "put", cmd[t].url, cmd[t].token,
                       list, DOMAIN list))

\* Tokens go to the keychain, one by one, or leave it; an entry that cannot be
\* deleted stays.
keychain_delete(name) == [keychain EXCEPT ![name] = None]
keychain_put(t, n) ==
  LET c == cmd[t]
      token == c.list[n].token
      Done == Runs(t, Command(c.kind, IF c.left = {n} THEN "store" ELSE "put", c.url, c.token, c.list, c.left \ {n}))
  IN /\ c.pc = "put" /\ n \in c.left
     /\ \/ token # None /\ keychain' = [keychain EXCEPT ![n] = token] /\ Done /\ Fine
        \/ token = None /\ keychain' = keychain_delete(n) /\ Done /\ Fine
        \/ token # None /\ UNCHANGED keychain /\ Ends(t) /\ Fault
        \/ token = None /\ UNCHANGED keychain /\ Done /\ Fault
     /\ UNCHANGED <<memory, disk, commands>>

\* What the settings keep of the profiles.
sanitized(list) == [n \in DOMAIN list |-> Profile(list[n].server_url, None)]

\* What a command that returns makes of what was.
Fulfilled(was, c) ==
  LET name == profile_name_for(c.url)
  IN CASE c.kind = "login" -> Settings(Upserted(was.profiles, name, Profile(c.url, c.token)), name)
       [] c.kind = "save_profile" -> Settings(Upserted(was.profiles, name, Profile(c.url, c.token)), was.active)
       [] c.kind = "set_active_profile" -> Settings(was.profiles, name)
       [] c.kind = "logout" -> Settings(SignedOut(was.profiles, was.active), None)
       [] c.kind = "remove_profile" ->
            Settings(Removed(was.profiles, name), IF was.active = name THEN None ELSE was.active)
Returns(t) == Ends(t) /\ promised' = IF promised = None THEN None ELSE Fulfilled(promised, cmd[t])

\* The settings change in memory and are written out, if that does not fail.
save_profiles(t) ==
  /\ cmd[t].pc = "store"
  /\ memory' = Settings(sanitized(cmd[t].list), memory.active)
  /\ \/ /\ disk' = memory' /\ UNCHANGED faults
        /\ IF cmd[t].kind = "save_profile" THEN Returns(t) ELSE Runs(t, At(cmd[t], "active")) /\ UNCHANGED promised
     \/ UNCHANGED disk /\ Fault /\ Ends(t)
  /\ UNCHANGED <<keychain, commands>>

set_active_profile_name(t) ==
  LET c == cmd[t]
      written == c.kind = "remove_profile" => memory.active = profile_name_for(c.url)
      name == IF ~written THEN memory.active
              ELSE IF c.kind \in {"logout", "remove_profile"} THEN None ELSE profile_name_for(c.url)
  IN /\ c.pc = "active"
     /\ memory' = Settings(memory.profiles, name)
     /\ \/ disk' = (IF written THEN memory' ELSE disk) /\ UNCHANGED faults /\ Returns(t)
        \/ written /\ UNCHANGED disk /\ Fault /\ Ends(t)
     /\ UNCHANGED <<keychain, commands>>

-----------------------------------------------------------------------------
(* The commands, once they have the profiles.                              *)

Idly == UNCHANGED <<memory, disk, keychain, commands, faults, promised>>

perform_login(t) ==
  LET c == cmd[t]
  IN /\ c.pc = "network"
     /\ \/ Runs(t, Command(c.kind, "load", c.url, Token(c.url, commands), c.list, c.left))
        \/ Ends(t)
     /\ Idly

Edits(t, kind, list) ==
  /\ cmd[t].pc = "edit" /\ cmd[t].kind = kind
  /\ Saving(t, list)
  /\ Idly

OnlyTheNewOne(list, name, p) == [n \in {name} |-> p]
upsert(list, name, p) == Upserted(list, name, p)
upsert_profile(t) ==
  LET c == cmd[t] IN Edits(t, "login", upsert(c.list, profile_name_for(c.url), Profile(c.url, c.token)))
save_profile(t) ==
  LET c == cmd[t] IN Edits(t, "save_profile", Upserted(c.list, profile_name_for(c.url), Profile(c.url, c.token)))
remove_profile(t) ==
  LET c == cmd[t] IN Edits(t, "remove_profile", Removed(c.list, profile_name_for(c.url)))
logout(t) == Edits(t, "logout", SignedOut(cmd[t].list, memory.active))

list_profiles(t) ==
  /\ cmd[t].pc = "edit" /\ cmd[t].kind = "list_profiles"
  /\ Ends(t)
  /\ Idly

\* The active profile, for the page or for a transfer.
load_active_profile(t) ==
  LET c == cmd[t]
      active == c.list[memory.active]
      next == [get_session |-> "idle", upload_file |-> "open", download_image |-> "link"]
  IN /\ c.pc = "edit" /\ c.kind \in DOMAIN next
     /\ IF memory.active \in DOMAIN c.list /\ active.token # None
        THEN Runs(t, Command(c.kind, next[c.kind], active.server_url, active.token, NoProfiles, {}))
        ELSE Ends(t)
     /\ Idly

-----------------------------------------------------------------------------
(* Transfers, with the server and the token found at the start.            *)

\* The transfer goes on, or its command goes to the next stage.
Passes(t, x) == transfer' = [transfer EXCEPT ![t] = x] /\ UNCHANGED cmd
Goes(t, pc, x) == transfer' = [transfer EXCEPT ![t] = x] /\ cmd' = [cmd EXCEPT ![t] = At(cmd[t], pc)]

\* A server answers when it likes; it accepts an upload it has all of.
ServerAnswers(t, status) ==
  LET x == transfer[t]
  IN /\ cmd[t].pc \in {"sending", "link", "fetch"} /\ x.status = "none"
     /\ cmd[t].pc = "sending" /\ status = "success" => x.sent = Chunks
     /\ Passes(t, Transfer(status, x.sent, x.written, x.torn, x.answer))
     /\ Idly

\* The connection breaks, or the file to be sent cannot be read further.
ConnectionBreaks(t) ==
  /\ cmd[t].pc \in {"sending", "link", "fetch", "streaming"} /\ transfer[t].status # "failure"
  /\ Ends(t)
  /\ Idly

open_file(t) ==
  /\ cmd[t].pc = "open"
  /\ Goes(t, "sending", transfer[t]) \/ Ends(t)
  /\ Idly

send_chunk(t) ==
  LET x == transfer[t]
  IN /\ cmd[t].pc = "sending" /\ x.status = "none" /\ x.sent < Chunks
     /\ Passes(t, Transfer(x.status, x.sent + 1, x.written, x.torn, x.answer))
     /\ Idly

\* is_success; every answer that is not an error of the connection passes.
is_success(t) == transfer[t].status = "success"

\* Ok goes back to the page.
Answers(t) ==
  LET x == transfer[t] IN Goes(t, "idle", Transfer(x.status, x.sent, x.written, x.torn, "Ok"))

\* The answer to an upload, which may not be the JSON that is expected.
perform_upload(t) ==
  /\ cmd[t].pc = "sending" /\ transfer[t].status # "none"
  /\ \/ is_success(t) /\ Answers(t)
     \/ Ends(t)
  /\ Idly

\* The answer to the link request: where the image is.
resolve_link(t) ==
  LET x == transfer[t]
  IN /\ cmd[t].pc = "link" /\ x.status # "none"
     /\ \/ is_success(t) /\ Goes(t, "fetch", Transfer("none", x.sent, x.written, x.torn, x.answer))
        \/ Ends(t)
     /\ Idly

\* The answer to the image request; then the file is created.
create_file(t) ==
  /\ cmd[t].pc = "fetch" /\ transfer[t].status # "none"
  /\ \/ is_success(t) /\ Goes(t, "streaming", transfer[t])
     \/ Ends(t)
  /\ Idly

\* tokio takes a chunk as soon as the one before is written, and reports a
\* write that failed on the next one.
write_chunk(t) ==
  LET x == transfer[t]
  IN /\ cmd[t].pc = "streaming" /\ x.sent < Chunks
     /\ IF x.torn THEN Ends(t)
        ELSE x.written = x.sent /\ Passes(t, Transfer(x.status, x.sent + 1, x.written, x.torn, x.answer))
     /\ Idly
DiskWrites(t) ==
  LET x == transfer[t]
  IN /\ cmd[t].kind = "download_image" /\ x.written < x.sent /\ ~x.torn
     /\ \/ Passes(t, Transfer(x.status, x.sent, x.written + 1, x.torn, x.answer)) /\ Fine
        \/ Passes(t, Transfer(x.status, x.sent, x.written, TRUE, x.answer)) /\ Fault
     /\ UNCHANGED <<memory, disk, keychain, commands>>

\* The end of the body; nothing waits for the last write.
CutIsEnd(t) ==
  /\ cmd[t].pc = "streaming"
  /\ Answers(t)
  /\ Idly
perform_download(t) ==
  /\ cmd[t].pc = "streaming" /\ transfer[t].sent = Chunks
  /\ Answers(t)
  /\ Idly

-----------------------------------------------------------------------------
\* The settings plugin also writes by itself.
Autosave ==
  /\ disk # memory /\ disk' = memory
  /\ UNCHANGED <<memory, keychain, cmd, transfer, commands, faults, promised>>

\* The program is closed, or dies, and is started again.
Restart ==
  /\ \E t \in Threads : cmd[t].pc # "idle"
  /\ faults < MaxFaults /\ faults' = faults + 1
  /\ memory' = disk
  /\ cmd' = [t \in Threads |-> Idle] /\ transfer' = [t \in Threads |-> NoTransfer]
  /\ promised' = IF \E t \in Threads : Editing(t) THEN None ELSE promised
  /\ UNCHANGED <<disk, keychain, commands>>

Next ==
  \/ \E t \in Threads :
       \/ \E kind \in DOMAIN FirstStep, u \in Urls \cup {None}, token \in Range(keychain) \cup {None} :
            Invoke(t, kind, u, token)
       \/ load_profiles(t) \/ save_profiles(t) \/ set_active_profile_name(t)
       \/ \E n \in Names : keychain_get(t, n) \/ keychain_put(t, n)
       \/ perform_login(t) \/ upsert_profile(t) \/ save_profile(t) \/ remove_profile(t) \/ logout(t)
       \/ list_profiles(t) \/ load_active_profile(t)
       \/ \E status \in {"success", "failure"} : ServerAnswers(t, status)
       \/ ConnectionBreaks(t) \/ open_file(t) \/ send_chunk(t) \/ perform_upload(t)
       \/ resolve_link(t) \/ create_file(t) \/ write_chunk(t) \/ DiskWrites(t) \/ perform_download(t)
  \/ Autosave \/ Restart

Spec == Init /\ [][Next]_vars

-----------------------------------------------------------------------------
\* A token is used with the server (host and port) that issued it and with no
\* other, by the page (get_session) and by transfers, whatever logins overlap,
\* fail half-way between keychain and settings, or are cut off.
TokenGoesHome ==
  \A t \in Threads : cmd[t].kind \in Readers /\ cmd[t].token # None =>
    /\ cmd[t].url.host = cmd[t].token.server.host
    /\ cmd[t].url.port = cmd[t].token.server.port

\* "the JWT never touches settings.json" (save_profiles).
NoTokenInSettings ==
  \A n \in DOMAIN disk.profiles : disk.profiles[n].token = None

\* Commands that neither overlap nor fail do what each promises, to its own
\* profile, in keychain and settings alike, restarts in between included: a
\* login or logout on one server leaves the others logged in as they were.
CommandsAddUp ==
  promised # None /\ (\A t \in Threads : ~Editing(t)) =>
    /\ disk = memory
    /\ View(memory.profiles, keychain) = promised.profiles
    /\ memory.active = promised.active

\* An upload that answers Ok was accepted whole.  A download that answers Ok
\* got the whole image, and wrote it but for the last chunk, which may be on
\* its way to the disk.
TransfersAreWhole ==
  \A t \in Threads : transfer[t].answer = "Ok" =>
    /\ transfer[t].status = "success" /\ transfer[t].sent = Chunks
    /\ cmd[t].kind = "download_image" => transfer[t].written >= Chunks - 1

\* When a download answers Ok, the file has the whole image.
DownloadedIsWhole ==
  \A t \in Threads : transfer[t].answer = "Ok" /\ cmd[t].kind = "download_image" => transfer[t].written = Chunks

TypeOK ==
  /\ \A s \in {memory, disk} :
       /\ s.active \in Names \cup {None}
       /\ \A n \in DOMAIN s.profiles :
            profile_name_for(s.profiles[n].server_url) = n /\ validate_server_url(s.profiles[n].server_url)
  /\ DOMAIN keychain = Names
  /\ \A n \in Names : keychain[n] # None => keychain[n].server \in Urls /\ keychain[n].serial \in 0..MaxCommands
  /\ faults \in 0..MaxFaults /\ commands \in 0..MaxCommands
=============================================================================
