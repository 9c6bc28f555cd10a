-------------------------- MODULE S3GatewayProofs --------------------------
(***************************************************************************)
(* The S3-compatible endpoint for any clients, requests, prefix, skew      *)
(* window and number of messages.                                          *)
(*                                                                         *)
(* The invariant is the type invariant: what is on the wire was signed by  *)
(* a client for one request and may carry another.  The work is in the     *)
(* signature: hashes and MACs are free terms, so a check that passes binds *)
(* the secret, the method, the path, the query, the body and the time.     *)
(***************************************************************************)
EXTENDS S3Gateway, SequenceTheorems, TLAPS

\* A leaf is tried with Zenon; one that needs records or arithmetic cites SMT.
USE Zenon

-----------------------------------------------------------------------------
(* Paths.                                                                  *)

\* Two segments after the endpoint's own path or a proxy's.
LEMMA TakenOff ==
  ASSUME NEW prefix \in Seq(STRING), NEW b, NEW k,
         NEW path, path = SubSeq(prefix \o <<b, k>>, Len(prefix) + 1, Len(prefix \o <<b, k>>))
  PROVE  path = <<b, k>>
<1>1. PICK S : S = STRING \cup {b, k}
  OBVIOUS
<1>2. prefix \in Seq(S) /\ <<b, k>> \in Seq(S) /\ Len(<<b, k>>) = 2
  BY SMT, <1>1
<1>3. /\ prefix \o <<b, k>> \in Seq(S) /\ Len(prefix \o <<b, k>>) = Len(prefix) + 2
      /\ \A i \in 1..(Len(prefix) + 2) :
           (prefix \o <<b, k>>)[i] = IF i <= Len(prefix) THEN prefix[i] ELSE <<b, k>>[i - Len(prefix)]
  BY SMT, <1>2
<1>4. PICK whole, n : whole = prefix \o <<b, k>> /\ n = Len(prefix)
  OBVIOUS
<1>5. n \in Nat /\ whole \in Seq(S) /\ Len(whole) = n + 2 /\ whole[n + 1] = b /\ whole[n + 2] = k
  BY SMT, <1>2, <1>3, <1>4
<1>6. PICK lo, hi : lo = n + 1 /\ hi = n + 2
  OBVIOUS
<1>7. path = SubSeq(whole, lo, hi)
  BY <1>4, <1>5, <1>6
<1>8. lo \in Int /\ hi \in Int /\ hi - lo + 1 = 2 /\ lo <= hi /\ \A i \in lo..hi : whole[i] \in S
  BY SMT, <1>5, <1>6
<1>9. /\ path \in Seq(S) /\ Len(path) = IF lo <= hi THEN hi - lo + 1 ELSE 0
      /\ \A i \in 1..(hi - lo + 1) : path[i] = whole[lo + i - 1]
  <2>1. /\ SubSeq(whole, lo, hi) \in Seq(S) /\ Len(SubSeq(whole, lo, hi)) = IF lo <= hi THEN hi - lo + 1 ELSE 0
        /\ \A i \in 1..(hi - lo + 1) : SubSeq(whole, lo, hi)[i] = whole[lo + i - 1]
    BY SMT, <1>8
  <2> QED
    BY <1>7, <2>1
<1>10. Len(path) = 2 /\ path[1] = b /\ path[2] = k
  BY SMT, <1>5, <1>6, <1>8, <1>9
<1>11. Len(path) = Len(<<b, k>>) /\ \A i \in 1..Len(path) : path[i] = <<b, k>>[i]
  BY SMT, <1>2, <1>10
<1> QED
  BY <1>2, <1>9, <1>11, SeqEqual

\* Nothing in front of a path.
LEMMA AfterNothing ==
  ASSUME NEW b, NEW k
  PROVE  <<>> \o <<b, k>> = <<b, k>>
BY SMT

\* A path of two segments is that of no longer one.
LEMMA OnlySegments ==
  ASSUME NEW prefix \in Seq(STRING), NEW b, NEW k, NEW c, NEW l, <<b, k>> = prefix \o <<c, l>>
  PROVE  b = c /\ k = l
<1>1. PICK S : S = STRING \cup {b, k, c, l}
  OBVIOUS
<1>2. prefix \in Seq(S) /\ <<b, k>> \in Seq(S) /\ <<c, l>> \in Seq(S) /\ Len(<<b, k>>) = 2 /\ Len(<<c, l>>) = 2
  BY SMT, <1>1
<1>3. Len(prefix \o <<c, l>>) = Len(prefix) + 2
  BY SMT, <1>2
<1>4. Len(prefix) = 0
  BY SMT, <1>2, <1>3
<1>5. prefix = <<>>
  BY SMT, <1>4
<1>6. <<b, k>> = <<c, l>>
  BY <1>5, AfterNothing
<1> QED
  BY SMT, <1>6

\* The path the handlers get is the one that arrives, without the prefix.
LEMMA PathOf ==
  ASSUME NEW m, m.by \in Clients
  PROVE  Path(m) = <<m.carried.bucket, m.carried.key>>
<1>1. PICK b, k : b = m.carried.bucket /\ k = m.carried.key
  OBVIOUS
<1>2. m.by.base = IF m.by.proxied THEN <<>> ELSE Mount
  BY S3Assumption
<1>3. WirePath(m) = Mount \o <<b, k>>
  <2>1. CASE m.by.proxied
    <3>1. object_url(m.by.base, b, k) = <<b, k>>
      BY <1>2, <2>1, AfterNothing DEF object_url
    <3> QED
      BY <1>1, <2>1, <3>1 DEF WirePath
  <2>2. CASE ~m.by.proxied
    BY <1>1, <1>2, <2>2 DEF WirePath, object_url
  <2> QED
    BY <2>1, <2>2
<1> QED
  <2>1. Path(m) = SubSeq(Mount \o <<b, k>>, Len(Mount) + 1, Len(Mount \o <<b, k>>))
    BY <1>3 DEF Path
  <2>2. Mount \in Seq(STRING)
    BY S3Assumption
  <2>3. Path(m) = <<b, k>>
    BY <2>1, <2>2, TakenOff
  <2> QED
    BY <1>1, <2>3

-----------------------------------------------------------------------------
(* Signatures.                                                             *)

\* MACs of equal value have equal inputs.
LEMMA HmacBinds ==
  ASSUME NEW a, NEW b, NEW c, NEW d, hmac(a, b) = hmac(c, d)
  PROVE  a = c /\ b = d
BY SMT DEF hmac

\* The same of hashes.
LEMMA HashBinds ==
  ASSUME NEW a, NEW b, sha256_hex(a) = sha256_hex(b)
  PROVE  a = b
BY SMT DEF sha256_hex

\* The signing key binds the secret.
LEMMA KeyBinds ==
  ASSUME NEW s, NEW d, NEW r, NEW v, NEW t, NEW e, NEW q, NEW w,
         derive_signing_key(s, d, r, v) = derive_signing_key(t, e, q, w)
  PROVE  s = t
<1>1. hmac(hmac(hmac(<<"AWS4", s>>, d), r), v) = hmac(hmac(hmac(<<"AWS4", t>>, e), q), w)
  BY SMT, HmacBinds DEF derive_signing_key
<1>2. hmac(hmac(<<"AWS4", s>>, d), r) = hmac(hmac(<<"AWS4", t>>, e), q)
  BY SMT, <1>1, HmacBinds
<1>3. hmac(<<"AWS4", s>>, d) = hmac(<<"AWS4", t>>, e)
  BY SMT, <1>2, HmacBinds
<1>4. <<"AWS4", s>> = <<"AWS4", t>>
  BY SMT, <1>3, HmacBinds
<1> QED
  BY SMT, <1>4

\* The string to sign binds the canonical request, and that its parts.
LEMMA StringBinds ==
  ASSUME NEW t, NEW s, NEW x, NEW s2, NEW y, string_to_sign(t, s, x) = string_to_sign(t, s2, y)
  PROVE  x = y
<1>1. sha256_hex(x) = sha256_hex(y)
  BY SMT DEF string_to_sign
<1> QED
  BY <1>1, HashBinds

\* What a signed request holds.
LEMMA SignedFields ==
  ASSUME NEW c, NEW method, NEW path, NEW query, NEW payload, NEW now,
         NEW r, r = sign_request(c, method, path, query, payload, now)
  PROVE  /\ DOMAIN r.headers = {"host", "x-amz-date", "x-amz-content-sha256"}
         /\ r.headers["x-amz-date"] = now /\ r.headers["x-amz-content-sha256"] = sha256_hex(payload)
         /\ r.authorization = authorization_header(c.access_key, c.region, "s3", DateStamp(now), DOMAIN r.headers,
              hmac(derive_signing_key(c.secret, DateStamp(now), c.region, "s3"),
                   string_to_sign(now, date_scope(DateStamp(now), c.region, "s3"),
                     canonical_request(method, path, canonical_query(query), r.headers, DOMAIN r.headers,
                                       sha256_hex(payload)))))
<1>1. PICK headers : headers = [h \in {"host", "x-amz-date", "x-amz-content-sha256"} |->
                                  CASE h = "host" -> c.host
                                    [] h = "x-amz-date" -> now
                                    [] OTHER -> sha256_hex(payload)]
  OBVIOUS
<1>2. /\ DOMAIN headers = {"host", "x-amz-date", "x-amz-content-sha256"}
      /\ headers["x-amz-date"] = now /\ headers["x-amz-content-sha256"] = sha256_hex(payload)
  BY SMT, <1>1
<1>3. /\ r.headers = headers
      /\ r.authorization = authorization_header(c.access_key, c.region, "s3", DateStamp(now), DOMAIN headers,
           hmac(derive_signing_key(c.secret, DateStamp(now), c.region, "s3"),
                string_to_sign(now, date_scope(DateStamp(now), c.region, "s3"),
                  canonical_request(method, path, canonical_query(query), headers, DOMAIN headers,
                                    sha256_hex(payload)))))
  BY SMT, <1>1 DEF sign_request
<1> QED
  BY <1>2, <1>3

\* A request that passes the check was signed with the configured secret, for
\* this method, key and body, within the skew window (verify_request).
LEMMA SignatureBinds ==
  ASSUME NEW m, m.by \in Clients, creds # NoCreds, require_sigv4(m)
  PROVE  /\ m.by.access_key = creds.access_key /\ m.by.secret = creds.secret
         /\ m.asked.method = m.carried.method /\ m.asked.key = m.carried.key /\ m.asked.body = m.carried.body
         /\ Distance(clock, m.at) <= SkewWindow
<1>1. PICK r, sg, p, c : r = Nested(m) /\ sg = Signed(m) /\ p = parse_authz(sg.authorization) /\ c = m.by
  OBVIOUS
<1>2. /\ r.method = m.carried.method /\ r.path = <<m.carried.bucket, m.carried.key>> /\ r.query = m.carried.query
      /\ r.body = m.carried.body /\ r.headers = sg.headers /\ r.authorization = sg.authorization
  <2>1. r = [method |-> m.carried.method, path |-> Path(m), query |-> m.carried.query, body |-> m.carried.body,
             headers |-> sg.headers, authorization |-> sg.authorization]
    BY <1>1 DEF Nested
  <2>2. Path(m) = <<m.carried.bucket, m.carried.key>>
    BY PathOf
  <2> QED
    BY SMT, <2>1, <2>2
<1>3. PICK path, date, key, scope, canonical :
        /\ path = object_url(c.base, m.asked.bucket, m.asked.key) /\ date = DateStamp(m.at)
        /\ key = derive_signing_key(c.secret, date, c.region, "s3") /\ scope = date_scope(date, c.region, "s3")
        /\ canonical = canonical_request(m.asked.method, path, canonical_query(m.asked.query), sg.headers,
                                         DOMAIN sg.headers, sha256_hex(m.asked.body))
  OBVIOUS
<1>4. /\ DOMAIN sg.headers = {"host", "x-amz-date", "x-amz-content-sha256"}
      /\ sg.headers["x-amz-date"] = m.at /\ sg.headers["x-amz-content-sha256"] = sha256_hex(m.asked.body)
      /\ sg.authorization = authorization_header(c.access_key, c.region, "s3", date, DOMAIN sg.headers,
                                                 hmac(key, string_to_sign(m.at, scope, canonical)))
  <2>1. sg = sign_request(c, m.asked.method, path, m.asked.query, m.asked.body, m.at)
    BY <1>1, <1>3 DEF Signed
  <2>2. /\ DOMAIN sg.headers = {"host", "x-amz-date", "x-amz-content-sha256"}
        /\ sg.headers["x-amz-date"] = m.at /\ sg.headers["x-amz-content-sha256"] = sha256_hex(m.asked.body)
        /\ sg.authorization = authorization_header(c.access_key, c.region, "s3", DateStamp(m.at), DOMAIN sg.headers,
             hmac(derive_signing_key(c.secret, DateStamp(m.at), c.region, "s3"),
                  string_to_sign(m.at, date_scope(DateStamp(m.at), c.region, "s3"),
                                 canonical_request(m.asked.method, path, canonical_query(m.asked.query), sg.headers,
                                                   DOMAIN sg.headers, sha256_hex(m.asked.body)))))
    BY SMT, <2>1, SignedFields
  <2> QED
    BY <1>3, <2>2
<1>5. p.access_key = c.access_key /\ p.signature = hmac(key, string_to_sign(m.at, scope, canonical))
  BY SMT, <1>1, <1>4 DEF parse_authz, authorization_header
<1>6. PICK hash : hash = PayloadHash(r)
  OBVIOUS
<1>7. hash = sha256_hex(m.asked.body)
  BY SMT, <1>2, <1>4, <1>6 DEF PayloadHash
<1>8. /\ p.access_key = creds.access_key /\ within_skew(r.headers["x-amz-date"], clock)
      /\ PayloadMatches(hash, r.body) /\ verify(p, r, creds.secret, hash)
  <2>1. verify_request(r, creds, clock)
    BY <1>1 DEF require_sigv4
  <2> QED
    BY <1>1, <1>2, <1>6, <2>1 DEF verify_request
<1>9. m.asked.body = m.carried.body
  <2>1. UNSIGNED # sha256_hex(m.asked.body)
    BY SMT DEF UNSIGNED, sha256_hex
  <2>2. sha256_hex(m.asked.body) = sha256_hex(m.carried.body)
    BY <1>2, <1>7, <1>8, <2>1 DEF PayloadMatches
  <2> QED
    BY <2>2, HashBinds
<1>10. PICK key2, scope2, query2, headers2, names2 :
         /\ key2 = derive_signing_key(creds.secret, p.date, p.region, p.service)
         /\ scope2 = date_scope(p.date, p.region, p.service) /\ query2 = canonical_query_string(r.query)
         /\ headers2 = canonical_headers(p.signed_headers, r.headers) /\ names2 = p.signed_headers
  OBVIOUS
<1>11. hmac(key2, string_to_sign(m.at, scope2, canonical_request(r.method, r.path, query2, headers2, names2, hash)))
         = hmac(key, string_to_sign(m.at, scope, canonical))
  <2>1. hmac(key2, string_to_sign(r.headers["x-amz-date"], scope2,
                                  canonical_request(r.method, r.path, query2, headers2, names2, hash))) = p.signature
    BY <1>8, <1>10 DEF verify, canonical_uri
  <2> QED
    BY <1>2, <1>4, <1>5, <2>1
<1>12. /\ key2 = key
       /\ string_to_sign(m.at, scope2, canonical_request(r.method, r.path, query2, headers2, names2, hash))
            = string_to_sign(m.at, scope, canonical)
  BY SMT, <1>11, HmacBinds
<1>13. creds.secret = c.secret
  <2>1. derive_signing_key(creds.secret, p.date, p.region, p.service) = derive_signing_key(c.secret, date, c.region, "s3")
    BY <1>3, <1>10, <1>12
  <2> QED
    BY <2>1, KeyBinds
<1>14. r.method = m.asked.method /\ r.path = path
  <2>1. canonical_request(r.method, r.path, query2, headers2, names2, hash) = canonical
    BY <1>12, StringBinds
  <2> QED
    BY SMT, <1>3, <2>1 DEF canonical_request
<1>15. m.carried.key = m.asked.key
  <2>1. c.base \in Seq(STRING)
    <3>1. c.base = <<>> \/ c.base = Mount
      BY <1>1, S3Assumption
    <3>2. <<>> \in Seq(STRING)
      BY SMT
    <3> QED
      BY <3>1, <3>2, S3Assumption
  <2>2. <<m.carried.bucket, m.carried.key>> = c.base \o <<m.asked.bucket, m.asked.key>>
    BY <1>2, <1>3, <1>14 DEF object_url
  <2>3. m.carried.bucket = m.asked.bucket /\ m.carried.key = m.asked.key
    <3>1. PICK prefix, b, k, x, y : /\ prefix = c.base /\ b = m.carried.bucket /\ k = m.carried.key
                                    /\ x = m.asked.bucket /\ y = m.asked.key
      OBVIOUS
    <3>2. prefix \in Seq(STRING) /\ <<b, k>> = prefix \o <<x, y>>
      BY <2>1, <2>2, <3>1
    <3>3. b = x /\ k = y
      BY <3>2, OnlySegments
    <3> QED
      BY <3>1, <3>3
  <2> QED
    BY <2>3
<1>16. Distance(clock, m.at) <= SkewWindow
  BY <1>2, <1>4, <1>8 DEF within_skew
<1> QED
  BY <1>1, <1>2, <1>5, <1>8, <1>9, <1>13, <1>14, <1>15, <1>16

-----------------------------------------------------------------------------
(* The steps.                                                              *)

\* Reads change nothing, and refusals neither.
LEMMA OnlyWrites ==
  ASSUME [Next]_vars, store' # store
  PROVE  \E m \in wire : put_object(m) \/ delete_object(m)
<1>1. CASE UNCHANGED vars
  BY <1>1 DEF vars
<1>2. CASE Tick \/ \E c \in Clients, r \in Requests : Send(c, r)
  BY <1>2 DEF Tick, Send
<1>3. ASSUME NEW m \in wire, Deliver(m) PROVE put_object(m) \/ delete_object(m)
  BY <1>3 DEF Deliver, Refuse, get_object, head_object, Fetched
<1>4. ASSUME NEW m \in wire, NEW r \in Requests, Damage(m, r) PROVE FALSE
  BY <1>4 DEF Damage
<1>5. ASSUME NEW k \in Keys, serve_object(k) PROVE FALSE
  BY <1>5 DEF serve_object, Fetched
<1> QED
  BY <1>1, <1>2, <1>3, <1>4, <1>5 DEF Next

\* What a write does, to the key it names.
LEMMA WriteDoes ==
  ASSUME TypeOK, NEW m \in wire, put_object(m) \/ delete_object(m)
  PROVE  /\ require_sigv4(m) /\ ~multipart_rejection(m.carried.query) /\ bucket_guard(m.carried.bucket)
         /\ m.carried.key \in Keys
         /\ put_object(m) => /\ m.carried.method = "PUT" /\ m.carried.body # Absent
                             /\ store' = [store EXCEPT ![m.carried.key] = m.carried.body] \/ UNCHANGED store
                             /\ answer' = "ok" => store' = [store EXCEPT ![m.carried.key] = m.carried.body]
         /\ delete_object(m) => /\ m.carried.method = "DELETE"
                                /\ store' = [store EXCEPT ![m.carried.key] = Absent] \/ UNCHANGED store
                                /\ answer' = "ok" => store' = [store EXCEPT ![m.carried.key] = Absent]
<1>1. PICK r : r = m.carried
  OBVIOUS
<1>2. r \in Requests /\ m.by \in Clients
  BY <1>1 DEF TypeOK
<1>3. Path(m)[1] = r.bucket /\ Path(m)[2] = r.key
  <2>1. Path(m) = <<r.bucket, r.key>>
    BY <1>1, <1>2, PathOf
  <2> QED
    BY SMT, <2>1
<1>4. Passes(m) /\ r.method \in {"PUT", "DELETE"}
  BY <1>1 DEF put_object, delete_object
<1>5. /\ require_sigv4(m) /\ ~multipart_rejection(r.query) /\ bucket_guard(r.bucket) /\ r.key # BadKey
  BY <1>1, <1>3, <1>4 DEF Passes, Bucket, Key, parse
<1>6. r.key \in Keys
  BY <1>2, <1>5, S3Assumption
<1>7. put_object(m) => /\ r.method = "PUT" /\ r.body # Absent
                       /\ store' = [store EXCEPT ![r.key] = r.body] \/ UNCHANGED store
                       /\ answer' = "ok" => store' = [store EXCEPT ![r.key] = r.body]
  <2> SUFFICES ASSUME put_object(m)
               PROVE  /\ r.method = "PUT" /\ r.body # Absent
                      /\ store' = [store EXCEPT ![r.key] = r.body] \/ UNCHANGED store
                      /\ answer' = "ok" => store' = [store EXCEPT ![r.key] = r.body]
    OBVIOUS
  <2>1. PICK status \in Statuses : Write(r.key, r.body, status) /\ answer' = IF put(status) = "Ok" THEN "ok" ELSE "error"
    BY <1>1, <1>3 DEF put_object, Key
  <2>2. answer' = "ok" => status = 200
    BY SMT, <2>1 DEF put
  <2>3. answer' = "ok" => ~(status \in {500, 0})
    BY SMT, <2>2
  <2>4. r.method = "PUT" /\ r.body # Absent
    BY <1>1, <1>2, S3Assumption DEF put_object
  <2>5. store' = [store EXCEPT ![r.key] = r.body] \/ (UNCHANGED store /\ status \in {500, 0})
    BY <2>1 DEF Write
  <2>6. answer' = "ok" => store' = [store EXCEPT ![r.key] = r.body]
    BY <2>3, <2>5
  <2> QED
    BY <2>4, <2>5, <2>6
<1>8. delete_object(m) => /\ r.method = "DELETE"
                          /\ store' = [store EXCEPT ![r.key] = Absent] \/ UNCHANGED store
                          /\ answer' = "ok" => store' = [store EXCEPT ![r.key] = Absent]
  <2> SUFFICES ASSUME delete_object(m)
               PROVE  /\ r.method = "DELETE"
                      /\ store' = [store EXCEPT ![r.key] = Absent] \/ UNCHANGED store
                      /\ answer' = "ok" => store' = [store EXCEPT ![r.key] = Absent]
    OBVIOUS
  <2>1. PICK status \in Statuses :
          Write(r.key, Absent, status) /\ answer' = IF delete(status) \in {"Ok", "NotFound"} THEN "ok" ELSE "error"
    BY <1>1, <1>3 DEF delete_object, Key
  <2>2. answer' = "ok" => status \in {200, 404}
    BY SMT, <2>1 DEF delete
  <2>3. answer' = "ok" => ~(status \in {500, 0})
    BY SMT, <2>2
  <2>4. r.method = "DELETE"
    BY <1>1 DEF delete_object
  <2>5. store' = [store EXCEPT ![r.key] = Absent] \/ (UNCHANGED store /\ status \in {500, 0})
    BY <2>1 DEF Write
  <2>6. answer' = "ok" => store' = [store EXCEPT ![r.key] = Absent]
    BY <2>3, <2>5
  <2> QED
    BY <2>4, <2>5, <2>6
<1> QED
  BY <1>1, <1>5, <1>6, <1>7, <1>8

\* An object that changes is the one a write that passed the checks names, and
\* changes to what the write says.
LEMMA ChangedBy ==
  ASSUME TypeOK, [Next]_vars, NEW k \in Keys, store'[k] # store[k]
  PROVE  \E m \in wire : /\ require_sigv4(m) /\ ~multipart_rejection(m.carried.query) /\ bucket_guard(m.carried.bucket)
                         /\ AsksFor(m.carried, k, store')
<1>1. PICK m \in wire : put_object(m) \/ delete_object(m)
  BY OnlyWrites
<1>2. PICK r : r = m.carried
  OBVIOUS
<1>3. require_sigv4(m) /\ ~multipart_rejection(r.query) /\ bucket_guard(r.bucket)
  BY <1>1, <1>2, WriteDoes
<1>4. DOMAIN store = Keys
  BY DEF TypeOK
<1>5. CASE put_object(m)
  <2>1. r.method = "PUT" /\ r.body # Absent /\ store' = [store EXCEPT ![r.key] = r.body]
    BY <1>2, <1>5, WriteDoes
  <2>2. r.key = k /\ store'[k] = r.body
    BY <1>4, <2>1
  <2> QED
    BY <1>2, <1>3, <2>1, <2>2 DEF AsksFor
<1>6. CASE delete_object(m)
  <2>1. r.method = "DELETE" /\ store' = [store EXCEPT ![r.key] = Absent]
    BY <1>2, <1>6, WriteDoes
  <2>2. r.key = k /\ store'[k] = Absent
    BY <1>4, <2>1
  <2> QED
    BY <1>2, <1>3, <2>1, <2>2 DEF AsksFor
<1> QED
  BY <1>1, <1>5, <1>6

-----------------------------------------------------------------------------
(* The invariant.                                                          *)

\* What every message on the wire is, at time now.
WireOK(messages, now) ==
  \A m \in messages : m.by \in Clients /\ m.asked \in Requests /\ m.at \in 0..now /\ m.carried \in Requests

\* A message more (Send, Damage).
LEMMA OneMore ==
  ASSUME NEW messages, NEW now \in Nat, WireOK(messages, now),
         NEW by \in Clients, NEW asked \in Requests, NEW at \in 0..now, NEW carried \in Requests
  PROVE  WireOK(messages \cup {Message(by, asked, at, carried)}, now)
<1>1. PICK m : m = Message(by, asked, at, carried)
  OBVIOUS
<1>2. m.by = by /\ m.asked = asked /\ m.at = at /\ m.carried = carried
  BY SMT, <1>1 DEF Message
<1> QED
  BY <1>1, <1>2 DEF WireOK

\* The endpoint answers and writes what it may (the handlers).
LEMMA HandlersKeepTypes ==
  ASSUME TypeOK, NEW m \in wire, Deliver(m)
  PROVE  /\ store' \in [Keys -> {Absent} \cup Bodies] /\ answer' \in {"none", "ok", "refused", "missing", "error"}
         /\ UNCHANGED <<creds, clock, wire, sends>>
<1>1. CASE Refuse(m)
  BY <1>1 DEF Refuse, TypeOK
<1>2. CASE put_object(m)
  <2>1. m.carried \in Requests /\ m.carried.method = "PUT" /\ m.carried.key \in Keys
    BY <1>2, WriteDoes DEF TypeOK
  <2>2. m.carried.body \in Bodies
    BY <2>1, S3Assumption
  <2>3. store' = [store EXCEPT ![m.carried.key] = m.carried.body] \/ store' = store
    BY <1>2, WriteDoes
  <2>4. store' \in [Keys -> {Absent} \cup Bodies]
    BY <2>1, <2>2, <2>3 DEF TypeOK
  <2> QED
    BY <1>2, <2>4 DEF put_object
<1>3. CASE delete_object(m)
  <2>1. m.carried.key \in Keys
    BY <1>3, WriteDoes
  <2>2. store' = [store EXCEPT ![m.carried.key] = Absent] \/ store' = store
    BY <1>3, WriteDoes
  <2>3. store' \in [Keys -> {Absent} \cup Bodies]
    BY <2>1, <2>2 DEF TypeOK
  <2> QED
    BY <1>3, <2>3 DEF delete_object
<1>4. CASE get_object(m)
  BY <1>4 DEF get_object, Fetched, TypeOK
<1>5. CASE head_object(m)
  BY <1>5 DEF head_object, TypeOK
<1> QED
  BY <1>1, <1>2, <1>3, <1>4, <1>5 DEF Deliver

\* What was signed stays on record, and what is stored is a body or nothing.
THEOREM TypeCorrect == Spec => []TypeOK
<1>1. Init => TypeOK
  <2> SUFFICES ASSUME Init PROVE TypeOK
    OBVIOUS
  <2>1. clock \in 0..MaxClock /\ sends \in 0..MaxSends
    BY SMT, S3Assumption DEF Init
  <2> QED
    BY <2>1 DEF Init, TypeOK
<1>2. TypeOK /\ [Next]_vars => TypeOK'
  <2> SUFFICES ASSUME TypeOK, [Next]_vars PROVE TypeOK'
    OBVIOUS
  <2>1. WireOK(wire, clock) /\ clock \in Nat
    <3>1. clock \in Nat
      BY SMT DEF TypeOK
    <3> QED
      BY <3>1 DEF TypeOK, WireOK
  <2>2. SUFFICES /\ creds' \in Credentials /\ clock' \in 0..MaxClock /\ sends' \in 0..MaxSends
                 /\ store' \in [Keys -> {Absent} \cup Bodies] /\ WireOK(wire', clock')
                 /\ answer' \in {"none", "ok", "refused", "missing", "error"}
    BY DEF TypeOK, WireOK
  <2>3. CASE UNCHANGED vars
    BY <2>1, <2>3 DEF vars, TypeOK
  <2>4. CASE Tick
    <3>1. clock' \in 0..MaxClock /\ \A t \in 0..clock : t \in 0..clock'
      BY SMT, <2>4, S3Assumption DEF Tick, TypeOK
    <3>2. WireOK(wire', clock')
      BY <2>1, <2>4, <3>1 DEF Tick, WireOK
    <3> QED
      BY <2>4, <3>1, <3>2 DEF Tick, TypeOK
  <2>5. ASSUME NEW c \in Clients, NEW r \in Requests, Send(c, r)
        PROVE  /\ creds' \in Credentials /\ clock' \in 0..MaxClock /\ sends' \in 0..MaxSends
               /\ store' \in [Keys -> {Absent} \cup Bodies] /\ WireOK(wire', clock')
               /\ answer' \in {"none", "ok", "refused", "missing", "error"}
    <3>1. sends' \in 0..MaxSends /\ clock \in 0..clock
      BY SMT, <2>1, <2>5, S3Assumption DEF Send, TypeOK
    <3>2. WireOK(wire \cup {Message(c, r, clock, r)}, clock)
      BY <2>1, <3>1, OneMore
    <3> QED
      BY <2>5, <3>1, <3>2 DEF Send, TypeOK
  <2>6. ASSUME NEW m \in wire, Deliver(m)
        PROVE  /\ creds' \in Credentials /\ clock' \in 0..MaxClock /\ sends' \in 0..MaxSends
               /\ store' \in [Keys -> {Absent} \cup Bodies] /\ WireOK(wire', clock')
               /\ answer' \in {"none", "ok", "refused", "missing", "error"}
    <3>1. /\ store' \in [Keys -> {Absent} \cup Bodies] /\ answer' \in {"none", "ok", "refused", "missing", "error"}
          /\ UNCHANGED <<creds, clock, wire, sends>>
      BY <2>6, HandlersKeepTypes
    <3> QED
      BY <2>1, <3>1 DEF TypeOK
  <2>7. ASSUME NEW m \in wire, NEW r \in Requests, Damage(m, r)
        PROVE  /\ creds' \in Credentials /\ clock' \in 0..MaxClock /\ sends' \in 0..MaxSends
               /\ store' \in [Keys -> {Absent} \cup Bodies] /\ WireOK(wire', clock')
               /\ answer' \in {"none", "ok", "refused", "missing", "error"}
    <3>1. sends' \in 0..MaxSends
      BY SMT, <2>7, S3Assumption DEF Damage, TypeOK
    <3>2. m.by \in Clients /\ m.asked \in Requests /\ m.at \in 0..clock
      BY <2>1 DEF WireOK
    <3>3. WireOK(wire \cup {Message(m.by, m.asked, m.at, r)}, clock)
      BY <2>1, <3>2, OneMore
    <3> QED
      BY <2>7, <3>1, <3>3 DEF Damage, TypeOK
  <2>8. ASSUME NEW k \in Keys, serve_object(k)
        PROVE  /\ creds' \in Credentials /\ clock' \in 0..MaxClock /\ sends' \in 0..MaxSends
               /\ store' \in [Keys -> {Absent} \cup Bodies] /\ WireOK(wire', clock')
               /\ answer' \in {"none", "ok", "refused", "missing", "error"}
    BY <2>1, <2>8 DEF serve_object, Fetched, TypeOK
  <2> QED
    BY <2>3, <2>4, <2>5, <2>6, <2>7, <2>8 DEF Next
<1> QED
  BY <1>1, <1>2, PTL DEF Spec

-----------------------------------------------------------------------------
(* The properties.                                                         *)

\* Where a credential is configured, an object only changes to what a client
\* that has the credential signed for it within the skew window, whatever the
\* network delivers late, again or changed (require_sigv4).
THEOREM WritesAreSigned == Spec => EveryWriteWasSigned
<1>1. TypeOK /\ [Next]_vars =>
        [creds # NoCreds =>
           \A k \in Keys : store'[k] # store[k] =>
             \E m \in wire : /\ m.by.access_key = creds.access_key /\ m.by.secret = creds.secret
                             /\ AsksFor(m.asked, k, store') /\ Distance(clock, m.at) <= SkewWindow]_vars
  <2> SUFFICES ASSUME TypeOK, [Next]_vars, creds # NoCreds, NEW k \in Keys, store'[k] # store[k]
               PROVE  \E m \in wire : /\ m.by.access_key = creds.access_key /\ m.by.secret = creds.secret
                                      /\ AsksFor(m.asked, k, store') /\ Distance(clock, m.at) <= SkewWindow
    OBVIOUS
  <2>1. PICK m \in wire : require_sigv4(m) /\ AsksFor(m.carried, k, store')
    BY ChangedBy
  <2>2. m.by \in Clients
    BY DEF TypeOK
  <2>3. /\ m.by.access_key = creds.access_key /\ m.by.secret = creds.secret
        /\ m.asked.method = m.carried.method /\ m.asked.key = m.carried.key /\ m.asked.body = m.carried.body
        /\ Distance(clock, m.at) <= SkewWindow
    BY <2>1, <2>2, SignatureBinds
  <2>4. AsksFor(m.asked, k, store')
    BY <2>1, <2>3 DEF AsksFor
  <2> QED
    BY <2>3, <2>4
<1> QED
  BY <1>1, TypeCorrect, PTL DEF Spec, EveryWriteWasSigned

\* With or without a credential, only a request for the whole object in the
\* bucket that is served changes it (multipart_rejection, bucket_guard).
THEOREM PartsAreRefused == Spec => PartsAreNotObjects
<1>1. TypeOK /\ [Next]_vars =>
        [\A k \in Keys : store'[k] # store[k] =>
           \E m \in wire : /\ AsksFor(m.carried, k, store')
                           /\ \A q \in Range(m.carried.query) : q[1] \notin {"uploadId", "partNumber"}
                           /\ expected_bucket # "" => m.carried.bucket = expected_bucket]_vars
  <2> SUFFICES ASSUME TypeOK, [Next]_vars, NEW k \in Keys, store'[k] # store[k]
               PROVE  \E m \in wire : /\ AsksFor(m.carried, k, store')
                                      /\ \A q \in Range(m.carried.query) : q[1] \notin {"uploadId", "partNumber"}
                                      /\ expected_bucket # "" => m.carried.bucket = expected_bucket
    OBVIOUS
  <2>1. PICK m \in wire : /\ ~multipart_rejection(m.carried.query) /\ bucket_guard(m.carried.bucket)
                          /\ AsksFor(m.carried, k, store')
    BY ChangedBy
  <2>2. \A q \in Range(m.carried.query) : q[1] \notin {"uploadId", "partNumber"}
    BY <2>1 DEF multipart_rejection
  <2>3. expected_bucket # "" => m.carried.bucket = expected_bucket
    BY <2>1 DEF bucket_guard
  <2> QED
    BY <2>1, <2>2, <2>3
<1> QED
  BY <1>1, TypeCorrect, PTL DEF Spec, PartsAreNotObjects

\* A client told that its write succeeded can rely on it, whatever the backend
\* answered (put, delete).
THEOREM SuccessIsDone == Spec => SuccessMeansDone
<1>1. TypeOK /\ [Next]_vars =>
        [\A m \in wire :
           /\ put_object(m) /\ answer' = "ok" => store'[m.carried.key] = m.carried.body
           /\ delete_object(m) /\ answer' = "ok" => store'[m.carried.key] = Absent]_vars
  <2> SUFFICES ASSUME TypeOK, NEW m \in wire
               PROVE  /\ put_object(m) /\ answer' = "ok" => store'[m.carried.key] = m.carried.body
                      /\ delete_object(m) /\ answer' = "ok" => store'[m.carried.key] = Absent
    OBVIOUS
  <2>1. DOMAIN store = Keys
    BY DEF TypeOK
  <2>2. ASSUME put_object(m), answer' = "ok" PROVE store'[m.carried.key] = m.carried.body
    BY <2>1, <2>2, WriteDoes
  <2>3. ASSUME delete_object(m), answer' = "ok" PROVE store'[m.carried.key] = Absent
    BY <2>1, <2>3, WriteDoes
  <2> QED
    BY <2>2, <2>3
<1> QED
  BY <1>1, TypeCorrect, PTL DEF Spec, SuccessMeansDone
====
