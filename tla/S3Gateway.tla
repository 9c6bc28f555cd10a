----------------------------- MODULE S3Gateway -----------------------------
(***************************************************************************)
(* The S3-compatible endpoint.  Clients sign requests, not all of them     *)
(* with the endpoint's secret, and put them on a network that may deliver  *)
(* them late, again, or changed; the endpoint is mounted under a prefix    *)
(* that the router takes off before its middleware runs.  Its storage is   *)
(* the S3 driver, and behind it a backend (external) that takes one        *)
(* request at a time and may fail.                                         *)
(***************************************************************************)
EXTENDS SigV4

CONSTANTS
  Keys, BadKey,        \* valid keys; one that StorageKey::parse refuses
  Bodies,
  Clients,             \* [base, host, region, access_key, secret, proxied]
  Credentials,         \* what the endpoint may be configured with
  NoCreds,
  expected_bucket,
  Mount,               \* the prefix the endpoint is nested under
  Requests,            \* [method, bucket, key, query, body]: what clients ask for
  MaxClock, MaxSends,
  Absent

\* Clients use the endpoint's own address, or that of a proxy which adds the
\* prefix.
ASSUME S3Assumption ==
  /\ SkewWindow \in Nat /\ DayLength \in Nat \ {0} /\ MaxClock \in Nat /\ MaxSends \in Nat
  /\ Absent \notin Bodies
  /\ Mount \in Seq(STRING)
  /\ \A c \in Clients : c.base = IF c.proxied THEN <<>> ELSE Mount
  /\ \A r \in Requests : r.key \in Keys \cup {BadKey} /\ (r.method = "PUT" => r.body \in Bodies)

VARIABLES
  creds,    \* the configured credential, or NoCreds
  clock,
  store,
  wire,     \* every message sent; the network may deliver any of them again
  sends,
  answer    \* the last answer of the endpoint

vars == <<creds, clock, store, wire, sends, answer>>

Init ==
  /\ creds \in Credentials
  /\ clock = 0
  /\ store \in [Keys -> {Absent} \cup Bodies]
  /\ wire = {} /\ sends = 0 /\ answer = "none"

Tick ==
  /\ clock < MaxClock
  /\ clock' = clock + 1
  /\ UNCHANGED <<creds, store, wire, sends, answer>>

-----------------------------------------------------------------------------
(* The network.                                                            *)

\* Who signed it, what was asked for, when, and the request that arrives.
Message(by, asked, at, carried) == [by |-> by, asked |-> asked, at |-> at, carried |-> carried]

\* A client signs and sends.
Send(c, r) ==
  /\ sends < MaxSends
  /\ wire' = wire \cup {Message(c, r, clock, r)}
  /\ sends' = sends + 1
  /\ UNCHANGED <<creds, clock, store, answer>>

\* A message arrives as another request than was sent.
Damage(m, r) ==
  /\ sends < MaxSends
  /\ m.carried = m.asked /\ r # m.asked
  /\ wire' = wire \cup {Message(m.by, m.asked, m.at, r)}
  /\ sends' = sends + 1
  /\ UNCHANGED <<creds, clock, store, answer>>

-----------------------------------------------------------------------------
(* The endpoint.                                                           *)

\* What the client signed.
Signed(m) ==
  sign_request(m.by, m.asked.method, object_url(m.by.base, m.asked.bucket, m.asked.key), m.asked.query,
               m.asked.body, m.at)

\* A proxy adds the prefix to what its clients ask for; the router takes the
\* prefix off again.  The middleware sees the rest of the path.
WirePath(m) ==
  LET path == object_url(m.by.base, m.carried.bucket, m.carried.key)
  IN IF m.by.proxied THEN Mount \o path ELSE path
Path(m) == SubSeq(WirePath(m), Len(Mount) + 1, Len(WirePath(m)))
Nested(m) ==
  [method |-> m.carried.method, path |-> Path(m), query |-> m.carried.query, body |-> m.carried.body,
   headers |-> Signed(m).headers, authorization |-> Signed(m).authorization]

require_sigv4(m) == IF creds = NoCreds THEN TRUE ELSE verify_request(Nested(m), creds, clock)

\* The path after the prefix, as the handlers get it.
Bucket(m) == Path(m)[1]
Key(m) == Path(m)[2]

OnlyPartNumber(query) == \E q \in Range(query) : q[1] = "partNumber"
multipart_rejection(query) == \E q \in Range(query) : q[1] \in {"uploadId", "partNumber"}

\* Only the configured bucket is served, if one is.
bucket_guard(bucket) == expected_bucket \in {"", bucket}

parse(key) == key # BadKey

\* The checks before storage is touched.  HEAD has no multipart check, and
\* POST is never more than a refusal.
Passes(m) ==
  /\ require_sigv4(m)
  /\ m.carried.method # "POST"
  /\ m.carried.method # "HEAD" => ~multipart_rejection(m.carried.query)
  /\ bucket_guard(Bucket(m))
  /\ parse(Key(m))

\* 400, 403, 404 or 501: which one is left out.
Refuse(m) ==
  /\ ~Passes(m)
  /\ answer' = "refused"
  /\ UNCHANGED <<creds, clock, store, wire, sends>>

-----------------------------------------------------------------------------
(* The S3 driver: what it makes of the status the backend answers with.    *)

Statuses == {200, 404, 500, 0}   \* 0: no answer

AnyStatus(status) == "Ok"
put(status) == IF status = 200 THEN "Ok" ELSE "Backend"
delete(status) == IF status \in {200, 404} THEN "Ok" ELSE "Backend"
get(status) == CASE status = 404 -> "NotFound" [] status = 200 -> "Ok" [] OTHER -> "Backend"
head(status) == CASE status = 404 -> "NotFound" [] status = 200 -> "Ok" [] OTHER -> "Backend"
exists(status) ==
  CASE head(status) = "Ok" -> "true" [] head(status) = "NotFound" -> "false" [] OTHER -> "Backend"

\* The backend: a write it acknowledges is done; one that fails, or whose
\* answer is lost, may be done all the same.
Write(k, value, status) ==
  \/ store' = [store EXCEPT ![k] = value] /\ (status = 404 => value = Absent /\ store[k] = Absent)
  \/ UNCHANGED store /\ status \in {500, 0}
ReadStatus(k, status) == status \in {500, 0, IF store[k] = Absent THEN 404 ELSE 200}

-----------------------------------------------------------------------------
(* The handlers.                                                           *)

put_object(m) ==
  /\ m.carried.method = "PUT" /\ Passes(m)
  /\ \E status \in Statuses :
       /\ Write(Key(m), m.carried.body, status)
       /\ answer' = IF put(status) = "Ok" THEN "ok" ELSE "error"
  /\ UNCHANGED <<creds, clock, wire, sends>>

delete_object(m) ==
  /\ m.carried.method = "DELETE" /\ Passes(m)
  /\ \E status \in Statuses :
       /\ Write(Key(m), Absent, status)
       /\ answer' = IF delete(status) \in {"Ok", "NotFound"} THEN "ok" ELSE "error"
  /\ UNCHANGED <<creds, clock, wire, sends>>

Fetched(result) ==
  /\ answer' = CASE result = "Ok" -> "ok" [] result = "NotFound" -> "missing" [] OTHER -> "error"
  /\ UNCHANGED <<creds, clock, store, wire, sends>>

get_object(m) ==
  /\ m.carried.method = "GET" /\ Passes(m)
  /\ \E status \in Statuses : ReadStatus(Key(m), status) /\ Fetched(get(status))

head_object(m) ==
  /\ m.carried.method = "HEAD" /\ Passes(m)
  /\ \E status \in Statuses :
       /\ ReadStatus(Key(m), status)
       /\ answer' = CASE exists(status) = "true" -> "ok" [] exists(status) = "false" -> "missing"
                      [] OTHER -> "error"
  /\ UNCHANGED <<creds, clock, store, wire, sends>>

\* GET /i/key, open to everyone.
map_storage_error(result) == IF result = "NotFound" THEN "NotFound" ELSE "Backend"
serve_object(k) ==
  \E status \in Statuses :
    /\ ReadStatus(k, status)
    /\ Fetched(IF get(status) = "Ok" THEN "Ok" ELSE map_storage_error(get(status)))

-----------------------------------------------------------------------------
Deliver(m) ==
  Refuse(m) \/ put_object(m) \/ delete_object(m) \/ get_object(m) \/ head_object(m)

Next ==
  \/ Tick
  \/ \E c \in Clients, r \in Requests : Send(c, r)
  \/ \E m \in wire : Deliver(m) \/ \E r \in Requests : Damage(m, r)
  \/ \E k \in Keys : serve_object(k)

Spec == Init /\ [][Next]_vars

-----------------------------------------------------------------------------
\* r asks, in so many words, that object k become what it is in s.
AsksFor(r, k, s) ==
  /\ r.key = k
  /\ r.method = IF s[k] = Absent THEN "DELETE" ELSE "PUT"
  /\ s[k] # Absent => r.body = s[k]

\* Where a credential is configured, an object only changes to what a client
\* that has the credential signed for it, no longer ago than the skew window: a
\* request changed on its way, or delivered later still, changes nothing
\* (verify_request).
EveryWriteWasSigned ==
  [][creds # NoCreds =>
       \A k \in Keys : store'[k] # store[k] =>
         \E m \in wire : /\ m.by.access_key = creds.access_key /\ m.by.secret = creds.secret
                         /\ AsksFor(m.asked, k, store') /\ Distance(clock, m.at) <= SkewWindow]_vars

\* With or without a credential, an object only changes by a request for that
\* whole object of this bucket: a part of a multipart upload is never taken
\* for the object, nor its abortion for the object's deletion
\* (multipart_rejection, bucket_guard).
PartsAreNotObjects ==
  [][\A k \in Keys : store'[k] # store[k] =>
       \E m \in wire : /\ AsksFor(m.carried, k, store')
                       /\ \A q \in Range(m.carried.query) : q[1] \notin {"uploadId", "partNumber"}
                       /\ expected_bucket # "" => m.carried.bucket = expected_bucket]_vars

\* A client told that its write succeeded can rely on it, also when the
\* backend fails, has no such object or does not answer (put, delete).
SuccessMeansDone ==
  [][\A m \in wire :
       /\ put_object(m) /\ answer' = "ok" => store'[m.carried.key] = m.carried.body
       /\ delete_object(m) /\ answer' = "ok" => store'[m.carried.key] = Absent]_vars

\* A request signed for the endpoint's address by a client that has the
\* credential, and delivered unchanged and in time, passes the signature
\* check: "the canonical form IS the wire path" (canonical_uri).
SignedRequestsPass ==
  creds # NoCreds =>
    \A m \in wire :
      (/\ m.by.access_key = creds.access_key /\ m.by.secret = creds.secret
       /\ m.carried = m.asked /\ Distance(clock, m.at) <= SkewWindow) => require_sigv4(m)

TypeOK ==
  /\ creds \in Credentials
  /\ clock \in 0..MaxClock /\ sends \in 0..MaxSends
  /\ store \in [Keys -> {Absent} \cup Bodies]
  /\ \A m \in wire : m.by \in Clients /\ m.asked \in Requests /\ m.at \in 0..clock /\ m.carried \in Requests
  /\ answer \in {"none", "ok", "refused", "missing", "error"}
=============================================================================
