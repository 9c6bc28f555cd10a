------------------------------ MODULE Listing ------------------------------
(***************************************************************************)
(* A client walks a listing page by page while rows come and go: images,   *)
(* users and teams by a (created_at, id) cursor, the audit log by a        *)
(* timestamp, a team's members, and the objects of the S3 endpoint, where  *)
(* the driver walks the whole backend, page by page, for every page of the *)
(* client.  The operator's tail of the audit log polls for what is new.    *)
(* One listing is walked at a time; what the rows hold is left out, but    *)
(* for their place in the order and whose they are.                        *)
(***************************************************************************)
EXTENDS Integers, Sequences, FiniteSetsExt

CONSTANTS
  Ids,                 \* numbers: the order of ids, and of object keys
  MaxTime,             \* creation times are 1..MaxTime, and may be equal
  Kinds,               \* the listings to walk
  Owner,               \* [Ids -> {"me", "other"}]: the row's owner, or member
  Limits,              \* page sizes a client may ask for
  Ceiling,             \* the largest page given
  PAGE_SIZE, MAX_PAGES,
  TailLimit,           \* the newest events a poll of the audit log reads
  MaxChanges

ASSUME ListingAssumption ==
  /\ IsFiniteSet(Ids) /\ Ids \subseteq Nat \ {0}
  /\ Kinds \subseteq {"images", "users", "teams", "members", "audit", "tail", "objects"}
  /\ Owner \in [Ids -> {"me", "other"}]
  /\ Limits \subseteq Int
  /\ Ceiling \in Nat \ {0} /\ PAGE_SIZE \in Nat \ {0} /\ MAX_PAGES \in Nat \ {0}
  /\ MaxTime \in Nat \ {0} /\ TailLimit \in Nat /\ MaxChanges \in Nat

VARIABLES
  kind,
  at,        \* creation time by row; 0: no such row
  deleted,   \* images whose status is deleted
  changes,
  walk

listingVars == <<kind, at, deleted, changes, walk>>

Walks == [pc: {"idle", "page", "poll", "tail", "driver", "respond", "done"}, can: BOOLEAN,
          owner: {"me", "other", "all"}, limit: 1..Ceiling, cursor: Seq(Nat), got: Seq(Ids),
          stable: SUBSET Ids, whole: BOOLEAN, follow: BOOLEAN,
          driver_token: Ids \cup {0}, items: Seq(Ids), pages: 0..MAX_PAGES]

NoWalk == [pc |-> "idle", can |-> FALSE, owner |-> "me", limit |-> 1, cursor |-> <<>>, got |-> <<>>,
           stable |-> {}, whole |-> TRUE, follow |-> FALSE, driver_token |-> 0, items |-> <<>>,
           pages |-> 0]

ListingInit ==
  /\ kind \in Kinds
  /\ at \in [Ids -> 0..(IF kind = "objects" THEN 1 ELSE MaxTime)]
  /\ deleted = {} /\ changes = 0 /\ walk = NoWalk

-----------------------------------------------------------------------------
(* Rows come, with the time their writer took before it wrote them, and    *)
(* go: images are marked deleted, objects may even come back.              *)

Present(id) == at[id] # 0 /\ id \notin deleted

RowAppears(id, t) ==
  /\ changes < MaxChanges
  /\ at[id] = 0
  /\ kind = "objects" => t = 1
  /\ at' = [at EXCEPT ![id] = t]
  /\ changes' = changes + 1
  /\ UNCHANGED <<kind, deleted, walk>>

RowGoes(id) ==
  /\ changes < MaxChanges
  /\ Present(id)
  /\ \/ kind = "images" /\ deleted' = deleted \cup {id} /\ UNCHANGED at
     \/ kind = "objects" /\ at' = [at EXCEPT ![id] = 0] /\ UNCHANGED deleted
  /\ walk' = [walk EXCEPT !.stable = @ \ {id}]
  /\ changes' = changes + 1
  /\ UNCHANGED kind

-----------------------------------------------------------------------------
(* The first request of a walk: who may list what, in pages of what size.  *)

Clamp(limit) == IF limit < 1 THEN 1 ELSE IF limit > Ceiling THEN Ceiling ELSE limit

In(owner, id) == owner \in {"all", Owner[id]}
Begin(can, owner, limit) ==
  /\ walk.pc = "idle"
  /\ walk' = [NoWalk EXCEPT !.pc = IF kind = "objects" THEN "driver" ELSE "page", !.can = can,
                            !.owner = owner, !.limit = Clamp(limit),
                            !.stable = {id \in Ids : Present(id) /\ In(owner, id)}]
  /\ UNCHANGED <<kind, at, deleted, changes>>

\* The owner asked for counts only for callers who may manage images.
EffectiveOwner(can, asked) == IF can THEN asked ELSE "me"
images_list(can, asked, limit) ==
  kind = "images" /\ Begin(can, EffectiveOwner(can, asked), limit)

\* Their own teams, or all teams for callers who may read teams.
teams_list(can, limit) == kind = "teams" /\ Begin(can, IF can THEN "all" ELSE "me", limit)

\* Only for those who may: administrators, members and readers of the team,
\* readers of the audit log, holders of the S3 credential.
list_users(can, limit) == kind = "users" /\ can /\ Begin(can, "all", limit)
team_members(can) == kind = "members" /\ can /\ Begin(can, "all", Ceiling)
audit(can, limit) == kind = "audit" /\ can /\ Begin(can, "all", limit)
objects(can, limit) == kind = "objects" /\ can /\ Begin(can, "all", limit)

-----------------------------------------------------------------------------
(* The database's listings: one query a page.                              *)

\* The cursor: the creation time and id of the last row shown.
format_cursor(id) == <<at[id], id>>
Below(a, b) == a[1] < b[1] \/ (a[1] = b[1] /\ a[2] < b[2])

\* Strictly after the cursor, newest first; the id settles equal times.
TimeOnly(id) == walk.cursor # <<>> => at[id] < walk.cursor[1]
AfterCursor(id) == walk.cursor # <<>> => Below(format_cursor(id), walk.cursor)

\* The answers to a query: its rows, each once.
Answers(rows) == Injection(1..Cardinality(rows), rows)

\* ORDER BY leaves the answers in its order, and more than one of them where
\* it leaves rows level.
NewestFirst(rows) == {s \in Answers(rows) :
  \A i, j \in DOMAIN s : i < j => Below(format_cursor(s[j]), format_cursor(s[i]))}
OldestFirst(rows) == {s \in Answers(rows) :
  \A i, j \in DOMAIN s : i < j => Below(format_cursor(s[i]), format_cursor(s[j]))}
LatestFirst(rows) == {s \in Answers(rows) : \A i, j \in DOMAIN s : i < j => at[s[i]] >= at[s[j]]}
EarliestFirst(rows) == {s \in Answers(rows) : \A i, j \in DOMAIN s : i < j => at[s[i]] <= at[s[j]]}

\* The first rows of an answer, as many as a page takes.
Most(limit, rows) == IF Len(rows) > limit THEN limit ELSE Len(rows)
FirstOf(rows, limit) == SubSeq(rows, 1, Most(limit, rows))

\* There is a next page only when a row beyond this one was fetched.
Page(rows) ==
  LET has_more == Len(rows) > walk.limit
      items == FirstOf(rows, walk.limit)
  IN /\ walk' = [walk EXCEPT !.got = @ \o items,
                             !.cursor = IF has_more THEN format_cursor(items[walk.limit]) ELSE @,
                             !.pc = IF has_more THEN "page" ELSE "done"]
     /\ UNCHANGED <<kind, at, deleted, changes>>

list_for_owner ==
  /\ kind = "images" /\ walk.pc = "page"
  /\ \E rows \in NewestFirst({id \in Ids :
                   Owner[id] = walk.owner /\ Present(id) /\ AfterCursor(id)}) :
       Page(rows)

users_list ==
  /\ kind = "users" /\ walk.pc = "page"
  /\ \E rows \in NewestFirst({id \in Ids : Present(id) /\ AfterCursor(id)}) : Page(rows)

all_teams ==
  /\ kind = "teams" /\ walk.owner = "all" /\ walk.pc = "page"
  /\ \E rows \in NewestFirst({id \in Ids : Present(id) /\ AfterCursor(id)}) : Page(rows)

list_for_user ==
  /\ kind = "teams" /\ walk.owner = "me" /\ walk.pc = "page"
  /\ \E rows \in NewestFirst({id \in Ids : Owner[id] = "me" /\ Present(id) /\ AfterCursor(id)}) :
       Page(rows)

\* The first members to have joined: the handler takes no cursor, so the walk
\* ends here, whole or not.
list_members ==
  /\ walk.pc = "page" /\ kind = "members"
  /\ \E rows \in OldestFirst({id \in Ids : Present(id)}) :
       walk' = [walk EXCEPT !.got = FirstOf(rows, walk.limit),
                            !.whole = Len(rows) <= walk.limit, !.pc = "done"]
  /\ UNCHANGED <<kind, at, deleted, changes>>

\* Events before a time, newest first; events of one time come in no order.
\* The client goes on from the time of the last event, until a page is short.
\* Events of that same time that the page left out are lost to it.
audit_list ==
  /\ walk.pc = "page" /\ kind = "audit"
  /\ \E rows \in LatestFirst({id \in Ids :
                   Present(id) /\ (walk.cursor # <<>> => at[id] < walk.cursor[1])}) :
       LET items == FirstOf(rows, walk.limit)
           last == items[walk.limit]
       IN walk' = IF Len(items) < walk.limit
                  THEN [walk EXCEPT !.got = @ \o items, !.pc = "done"]
                  ELSE [walk EXCEPT !.got = @ \o items, !.cursor = format_cursor(last),
                          !.whole = @ /\ \A i \in DOMAIN rows :
                                           i > walk.limit => at[rows[i]] # at[last]]
  /\ UNCHANGED <<kind, at, deleted, changes>>

-----------------------------------------------------------------------------
(* The operator's tail of the audit log: a row's owner is its actor.       *)

audit_tail(follow, actor) ==
  /\ kind = "tail" /\ walk.pc = "idle"
  /\ walk' = [NoWalk EXCEPT !.pc = "poll", !.can = TRUE, !.owner = actor, !.follow = follow,
                            !.stable = {id \in Ids : Present(id) /\ In(actor, id)}]
  /\ UNCHANGED <<kind, at, deleted, changes>>

\* An event is printed unless it was printed before.
NewerThanSeen(id) == \A s \in Range(walk.got) : at[id] > at[s]
Unseen(id) == id \notin Range(walk.got)

\* The newest events, then those of the actor, oldest first.  An event that
\* was not printed before it fell out of the newest is lost.
Poll ==
  LET rows == {id \in Ids : Present(id)}
      size == IF Cardinality(rows) > TailLimit THEN TailLimit ELSE Cardinality(rows)
  IN /\ walk.pc \in {"poll", "tail"}
     /\ \E events \in kSubset(size, rows) :
        \E printed \in EarliestFirst({id \in events : In(walk.owner, id) /\ Unseen(id)}) :
          /\ \A a \in events, b \in rows \ events : at[a] >= at[b]
          /\ walk' = [walk EXCEPT
               !.got = @ \o printed,
               !.whole = @ /\ \A id \in rows \ events :
                                In(walk.owner, id) => id \in Range(walk.got),
               !.pc = IF walk.follow THEN "tail" ELSE "done"]
     /\ UNCHANGED <<kind, at, deleted, changes>>

-----------------------------------------------------------------------------
(* The S3 endpoint's listing over the S3 driver.  The backend is external: *)
(* it lists keys in order and resumes after the token it is given.         *)

\* Another page is asked for while the backend says there is more and the
\* token it gives is a new one, up to a fixed number of pages.
NoCeiling(truncated, next) == truncated /\ next # walk.driver_token
Continues(truncated, next) ==
  truncated /\ next # walk.driver_token /\ walk.pages + 1 < MAX_PAGES

\* One turn of the driver's loop.
Turn(page, truncated, next, honest) ==
  LET more == Continues(truncated, next)
  IN /\ walk' = [walk EXCEPT !.items = @ \o page,
                             !.pages = IF @ < MAX_PAGES THEN @ + 1 ELSE @,
                             !.pc = IF more THEN "driver" ELSE "respond",
                             !.driver_token = IF more THEN next ELSE @,
                             !.whole = @ /\ honest /\ (more \/ ~truncated)]
     /\ UNCHANGED <<kind, at, deleted, changes>>

list ==
  /\ walk.pc = "driver"
  /\ \E rest \in Answers({id \in Ids : Present(id) /\ id > walk.driver_token}) :
       LET truncated == Len(rest) > PAGE_SIZE
       IN /\ \A i, j \in DOMAIN rest : i < j => rest[i] < rest[j]
          /\ Turn(FirstOf(rest, PAGE_SIZE), truncated, IF truncated THEN rest[PAGE_SIZE] ELSE 0, TRUE)

\* A backend that gives out some other token, or the same again.
ListAstray(token) ==
  /\ walk.pc = "driver" /\ walk.driver_token # 0
  /\ Turn(<<>>, TRUE, token, FALSE)

\* The backend fails, and with it the client's walk.
ListFails ==
  /\ walk.pc = "driver"
  /\ walk' = [NoWalk EXCEPT !.pc = "done", !.whole = FALSE]
  /\ UNCHANGED <<kind, at, deleted, changes>>

\* Of all the keys, those after the client's token, sorted and cut to a page;
\* the next token is the last key shown.
FromToken(keys, token) == {k \in DOMAIN keys : keys[k] >= token}
AfterToken(keys, token) == {k \in DOMAIN keys : keys[k] > token}

list_objects_v2 ==
  /\ walk.pc = "respond"
  /\ \E places \in Answers(AfterToken(walk.items, IF walk.cursor = <<>> THEN 0 ELSE walk.cursor[1])) :
       LET keyed == [k \in DOMAIN places |-> walk.items[places[k]]]
           truncated == Len(keyed) > walk.limit
       IN /\ \A i, j \in DOMAIN keyed : i < j => keyed[i] <= keyed[j]
          /\ walk' = [walk EXCEPT !.got = @ \o FirstOf(keyed, walk.limit),
                                  !.items = <<>>, !.driver_token = 0, !.pages = 0,
                                  !.cursor = IF truncated THEN <<keyed[walk.limit]>> ELSE @,
                                  !.pc = IF truncated THEN "driver" ELSE "done"]
  /\ UNCHANGED <<kind, at, deleted, changes>>

-----------------------------------------------------------------------------
Handlers ==
  \/ list_for_owner \/ users_list \/ all_teams \/ list_for_user \/ list_members \/ audit_list
  \/ Poll \/ list \/ list_objects_v2

ListingNext ==
  \/ \E id \in Ids, t \in 1..MaxTime : RowAppears(id, t)
  \/ \E id \in Ids : RowGoes(id)
  \/ \E can \in BOOLEAN, limit \in Limits :
       \/ \E asked \in {"me", "other"} : images_list(can, asked, limit)
       \/ teams_list(can, limit) \/ list_users(can, limit) \/ team_members(can)
       \/ audit(can, limit) \/ objects(can, limit)
  \/ \E follow \in BOOLEAN, actor \in {"me", "all"} : audit_tail(follow, actor)
  \/ Handlers
  \/ \E token \in Ids : ListAstray(token)
  \/ ListFails

\* A client goes on with a walk it began, and a request that was begun is
\* answered; how the backend answers is its own affair.  A tail that follows
\* polls again and again.
ListingSpec ==
  /\ ListingInit /\ [][ListingNext]_listingVars
  /\ WF_listingVars(Handlers \/ \E token \in Ids : ListAstray(token))

-----------------------------------------------------------------------------
\* A walk that nothing cut short shows every row that was there all along,
\* though rows came and went between its pages, some with the creation time
\* of its cursor (list_for_owner, list, list_for_user, list_objects_v2,
\* audit_tail).
WalkIsComplete ==
  walk.pc \in {"done", "tail"} /\ walk.whole => walk.stable \subseteq Range(walk.got)

\* No row is shown twice, on one page or on two, unless a backend's listing
\* went astray.
NoRowTwice == walk.whole => IsInjective(walk.got)

\* A tail that follows prints, in the end, every event of its actor, those
\* that appear late with an earlier time among them, unless newer events
\* crowded one out between two polls (audit_tail).
FollowerSeesAll ==
  \A id \in Ids :
    (walk.pc = "tail" /\ Present(id) /\ In(walk.owner, id))
      ~> (id \in Range(walk.got) \/ ~walk.whole)

\* A walk comes to an end, or a tail to its first pause, whatever tokens a
\* backend gives out (the driver's loop is bounded) and although every page
\* starts a walk of the backend.
WalkEnds == (walk.pc # "idle") ~> (walk.pc \in {"done", "tail"})

\* Types of the rows and of the walk.
ListingTypeOK ==
  /\ kind \in Kinds /\ at \in [Ids -> 0..MaxTime] /\ deleted \subseteq Ids
  /\ changes \in 0..MaxChanges
  /\ walk \in Walks
=============================================================================
