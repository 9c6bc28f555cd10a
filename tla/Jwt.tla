-------------------------------- MODULE Jwt --------------------------------
(***************************************************************************)
(* The tokens the server signs: bearer tokens of sessions, and the state   *)
(* tokens that bind an OIDC login to the browser that started it.  The     *)
(* signature is a library's: a token is its claims, and only the server    *)
(* makes tokens.                                                           *)
(***************************************************************************)
EXTENDS Integers

CONSTANTS
  ttl_seconds,     \* lifetime of a bearer token
  StateTtl,        \* lifetime of a state token (600 s in the code)
  Leeway,          \* the clock skew the library's default validation grants
  NoSid, NoNonce

API_AUDIENCE == "api"
OIDC_STATE_AUDIENCE == "oidc-state"

JwtClaims(sub, aud, iat, exp, scopes, nonce, sid) ==
  [sub |-> sub, aud |-> aud, iat |-> iat, exp |-> exp, scopes |-> scopes,
   nonce |-> nonce, sid |-> sid]

issue_session(subject, scopes, sid, now) ==
  JwtClaims(subject, API_AUDIENCE, now, now + ttl_seconds, scopes, NoNonce, sid)

issue_oidc_state(state, nonce, now) ==
  JwtClaims(state, OIDC_STATE_AUDIENCE, now, now + StateTtl, {}, nonce, NoSid)

\* What the library checks: the audience, and the expiry with its leeway.
Decode(token, audience, now) == token.aud = audience /\ now <= token.exp + Leeway

verify(token, now) == Decode(token, API_AUDIENCE, now)

VerifyStateForever(token, now) == token.aud = OIDC_STATE_AUDIENCE /\ token.nonce # NoNonce
verify_oidc_state(token, now) ==
  Decode(token, OIDC_STATE_AUDIENCE, now) /\ token.nonce # NoNonce
=============================================================================
