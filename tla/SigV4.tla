------------------------------- MODULE SigV4 -------------------------------
(***************************************************************************)
(* AWS Signature V4 on both sides: how the S3 driver signs a request, and  *)
(* how the S3-compatible endpoint checks one.  Hashes and MACs are free    *)
(* terms: equal exactly when their inputs are.  A path is the sequence of  *)
(* its segments, a query the sequence of its <<name, value>> pairs as      *)
(* sent, headers a partial function; what the code sorts is a set.         *)
(***************************************************************************)
EXTENDS Integers, Sequences, Functions

CONSTANTS
  SkewWindow,   \* how far the clock may be from the time of a signature
  DayLength     \* ticks to a day, for the credential scope

UNSIGNED == <<"UNSIGNED-PAYLOAD">>
STREAMING == <<"STREAMING">>
NoBody == "no body"

sha256_hex(x) == <<"sha256", x>>
hmac(key, data) == <<"hmac", key, data>>
DateStamp(t) == t \div DayLength

\* The four nested MACs of the signing key.
derive_signing_key(secret, date, region, service) ==
  hmac(hmac(hmac(hmac(<<"AWS4", secret>>, date), region), service), "aws4_request")

canonical_request(method, uri, query, headers, signed, payload_hash) ==
  <<method, uri, query, headers, signed, payload_hash>>

date_scope(date, region, service) == <<date, region, service, "aws4_request">>

string_to_sign(amz_date, scope, canonical) ==
  <<"AWS4-HMAC-SHA256", amz_date, scope, sha256_hex(canonical)>>

-----------------------------------------------------------------------------
(* Signing, as the S3 driver does it.                                      *)

\* Path-style: the endpoint's own path, the bucket, the key.
object_url(base, bucket, key) == base \o <<bucket, key>>

canonical_query(query) == Range(query)

authorization_header(access_key, region, service, date, signed_names, signature) ==
  <<"AWS4-HMAC-SHA256", <<access_key, date, region, service, "aws4_request">>, signed_names, signature>>

\* The request as it goes on the wire: the three headers it signs, and the
\* Authorization header.
sign_request(config, method, path, query, payload, now) ==
  LET payload_hash == sha256_hex(payload)
      headers == [h \in {"host", "x-amz-date", "x-amz-content-sha256"} |->
                    CASE h = "host" -> config.host
                      [] h = "x-amz-date" -> now
                      [] OTHER -> payload_hash]
      date == DateStamp(now)
      canonical == canonical_request(method, path, canonical_query(query), headers, DOMAIN headers,
                                     payload_hash)
      s2s == string_to_sign(now, date_scope(date, config.region, "s3"), canonical)
      key == derive_signing_key(config.secret, date, config.region, "s3")
  IN [method |-> method, path |-> path, query |-> query, headers |-> headers, body |-> payload,
      authorization |-> authorization_header(config.access_key, config.region, "s3", date,
                                             DOMAIN headers, hmac(key, s2s))]

-----------------------------------------------------------------------------
(* Verification, as the endpoint's middleware does it.                     *)

\* The parts of an Authorization header.
parse_authz(header) ==
  [access_key |-> header[2][1], date |-> header[2][2], region |-> header[2][3],
   service |-> header[2][4], signed_headers |-> header[3], signature |-> header[4]]

canonical_uri(path) == path
canonical_query_string(query) == Range(query)

Distance(a, b) == IF a >= b THEN a - b ELSE b - a

within_skew(amz_date, now) == Distance(now, amz_date) <= SkewWindow

\* A declared hash must be that of the bytes received.
PayloadUnread(hash, body) == TRUE
PayloadMatches(hash, body) == hash = UNSIGNED \/ hash = sha256_hex(body)

PayloadHash(req) ==
  IF "x-amz-content-sha256" \in DOMAIN req.headers THEN req.headers["x-amz-content-sha256"]
  ELSE UNSIGNED

\* Only signed headers enter, and each must be there.
canonical_headers(signed, headers) == [h \in signed |-> headers[h]]

\* The signature that a request with these contents should carry.
verify(parsed, req, secret, payload_hash) ==
  LET canonical == canonical_request(req.method, canonical_uri(req.path),
                     canonical_query_string(req.query),
                     canonical_headers(parsed.signed_headers, req.headers), parsed.signed_headers,
                     payload_hash)
      s2s == string_to_sign(req.headers["x-amz-date"],
                            date_scope(parsed.date, parsed.region, parsed.service), canonical)
      key == derive_signing_key(secret, parsed.date, parsed.region, parsed.service)
  IN hmac(key, s2s) = parsed.signature

\* Passes when every check does; which refusal is sent is left out.
verify_request(req, creds, now) ==
  LET parsed == parse_authz(req.authorization)
  IN /\ parsed.access_key = creds.access_key
     /\ "x-amz-date" \in DOMAIN req.headers
     /\ within_skew(req.headers["x-amz-date"], now)
     /\ {"host", "x-amz-date"} \subseteq parsed.signed_headers
     /\ PayloadHash(req) # STREAMING
     /\ PayloadMatches(PayloadHash(req), req.body)
     /\ parsed.signed_headers \subseteq DOMAIN req.headers
     /\ verify(parsed, req, creds.secret, PayloadHash(req))
=============================================================================
