----------------------------- MODULE AuthEntry -----------------------------
(***************************************************************************)
(* The two ways in.  A password login and the start of an OIDC login first *)
(* cost an attempt of the rate limiter; the clock is read before the       *)
(* limiter's mutex is taken.  An OIDC login then runs through the browser: *)
(* a state cookie, a redirect to the identity provider, a redirect back    *)
(* (perhaps late, twice, or opened in another browser), the exchange of    *)
(* the code, the verification of the ID token, the account, the session.   *)
(*                                                                         *)
(* The identity provider is external: it publishes signing keys and        *)
(* replaces them, and honours a code once.  Password checking and the      *)
(* session table, and the account an identity is given, are in Sessions.   *)
(***************************************************************************)
EXTENDS AuthRateLimiter, Jwt, Sequences

CONSTANTS
  Callers,        \* requests in flight at the two limited endpoints
  Ips, Accounts,  \* client addresses; accounts logged in to with a password
  Browsers,       \* each with the identity its user has at the provider
  Callbacks,      \* requests in flight at the callback endpoint
  Sites,          \* deployments: [callers, ips, accounts, browsers, oidc,
                  \*   limited, attempts, horizon]
  MaxClock, MaxFlows,
  NoOne

ASSUME AuthEntryAssumption ==
  /\ MaxClock \in Nat /\ MaxFlows \in Nat /\ NoOne \notin Browsers
  /\ \A s \in Sites : s.horizon \in 0..MaxClock /\ s.limited \in BOOLEAN /\ s.attempts \in Nat
  /\ IsFiniteSet(Callers)

OidcKey == "oidc"
Keys == Ips \cup Accounts \cup {OidcKey}

VARIABLES
  site,       \* the deployment, fixed
  clock,
  windows,    \* the limiter's map
  caller,     \* [pc, now, ip, key] of each limited request
  admitted,   \* history: by key, the attempts admitted up to each time
  late,       \* history: an attempt was counted at a later time than it read
  attempts,   \* number of attempts made, for the bound
  jar,        \* the state cookie of each browser, or none
  flows,      \* started OIDC logins: the browser, the time of its state token
  codes,      \* the authorization code of each flow
  kid,        \* the provider's current signing key
  callback,   \* callback requests
  seats       \* history: the sessions handed to browsers

limiter == <<windows, caller, admitted, late, attempts>>
oidc == <<jar, flows, codes, kid, callback, seats>>
vars == <<site, clock, limiter, oidc>>

NoCookie == {}
Caller(pc, now, ip, key, browser, retry) ==
  [pc |-> pc, now |-> now, ip |-> ip, key |-> key, browser |-> browser, retry |-> retry]
IdleCaller == Caller("idle", 0, NoOne, NoOne, NoOne, NotBlocked)

Callback(pc, browser, flow, nonce, jwks, signed) ==
  [pc |-> pc, browser |-> browser, flow |-> flow, nonce |-> nonce, jwks |-> jwks, signed |-> signed]
IdleCallback == Callback("idle", NoOne, 0, 0, {}, 0)

Init ==
  /\ site \in Sites
  /\ clock = 0
  /\ windows = [k \in {} |-> Window(0, 0)]
  /\ caller = [c \in Callers |-> IdleCaller]
  /\ admitted = [k \in Keys |-> [t \in 0..MaxClock |-> 0]]
  /\ late = FALSE /\ attempts = 0
  /\ jar = [b \in Browsers |-> NoCookie]
  /\ flows = <<>> /\ codes = [f \in 1..MaxFlows |-> "none"] /\ kid = 0
  /\ callback = [c \in Callbacks |-> IdleCallback]
  /\ seats = {}

Tick ==
  /\ clock < site.horizon
  /\ clock' = clock + 1
  /\ UNCHANGED <<site, limiter, oidc>>

-----------------------------------------------------------------------------
(* The limited endpoints.                                                  *)

\* A request arrives and reads the clock.  oidc_login has no account yet: all
\* starts at one provider share a key.
Arrive(c, ip, key, b) ==
  /\ c \in site.callers /\ ip \in site.ips /\ key \in site.accounts \cup {OidcKey}
  /\ caller[c].pc = "idle" /\ attempts < site.attempts
  /\ caller' = [caller EXCEPT ![c] = Caller("stamped", clock, ip, key, b, NotBlocked)]
  /\ attempts' = attempts + 1
  /\ UNCHANGED <<site, clock, windows, admitted, late, oidc>>

login(c, ip, account) == Arrive(c, ip, account, NoOne)
oidc_login(c, ip, b) == b \in site.browsers /\ Arrive(c, ip, OidcKey, b)

\* A deployment may run without the limiter.
disabled == [windows |-> windows, wait |-> NotBlocked]

\* One more attempt against each of these keys from now on.
Admit(keys) ==
  [k \in Keys |-> [t \in 0..MaxClock |->
     IF k \in keys /\ t >= clock THEN admitted[k][t] + 1 ELSE admitted[k][t]]]

\* Under the mutex; what was read may be old by now.
record(c) ==
  LET r == caller[c]
      keys == {r.ip, r.key}
      done == IF site.limited THEN record_at(windows, r.now, keys) ELSE disabled
  IN /\ r.pc = "stamped"
     /\ windows' = done.windows
     /\ late' = (late \/ (site.limited /\ r.now < clock))
     /\ IF done.wait # NotBlocked
        THEN /\ caller' = [caller EXCEPT ![c] =
                             Caller("refused", r.now, r.ip, r.key, r.browser, done.wait)]
             /\ UNCHANGED admitted
        ELSE /\ caller' = [caller EXCEPT ![c] =
                             IF r.browser = NoOne THEN IdleCaller
                             ELSE Caller("start", r.now, r.ip, r.key, r.browser, NotBlocked)]
             /\ admitted' = IF site.limited THEN Admit(keys) ELSE admitted
     /\ UNCHANGED <<site, clock, attempts, oidc>>

\* The 429 with its Retry-After goes out.
Refused(c) ==
  /\ caller[c].pc = "refused"
  /\ caller' = [caller EXCEPT ![c] = IdleCaller]
  /\ UNCHANGED <<site, clock, windows, admitted, late, attempts, oidc>>

\* The state, or the nonce, of flow f: fresh.
FixedBinding(f) == 1
random_binding(f) == f

\* A cookie of the same name replaces the one before.
SetCookie(b, token) == jar' = [jar EXCEPT ![b] = {token}]

\* Discovery done, the answer carries the cookie and the redirect: fresh state
\* and nonce, one cookie per browser.
Start(c) ==
  LET b == caller[c].browser
      f == Len(flows) + 1
      token == issue_oidc_state(random_binding(f), random_binding(f), clock)
  IN /\ caller[c].pc = "start" /\ site.oidc /\ f <= MaxFlows
     /\ flows' = Append(flows, [browser |-> b, issued |-> clock])
     /\ SetCookie(b, token)
     /\ caller' = [caller EXCEPT ![c] = IdleCaller]
     /\ UNCHANGED <<site, clock, windows, admitted, late, attempts, codes, kid, callback, seats>>

\* No such provider, or its discovery failed.
StartFails(c) ==
  /\ caller[c].pc = "start"
  /\ caller' = [caller EXCEPT ![c] = IdleCaller]
  /\ UNCHANGED <<site, clock, windows, admitted, late, attempts, oidc>>

-----------------------------------------------------------------------------
(* The identity provider and the browser, external.                        *)

\* The user of the browser agrees: a code, bound to the nonce of the request.
Consent(f) ==
  /\ f \in DOMAIN flows /\ codes[f] = "none"
  /\ codes' = [codes EXCEPT ![f] = "granted"]
  /\ UNCHANGED <<site, clock, limiter, jar, flows, kid, callback, seats>>

RotateKeys ==
  /\ kid = 0
  /\ kid' = 1
  /\ UNCHANGED <<site, clock, limiter, jar, flows, codes, callback, seats>>

\* The browser drops the cookie when its age is up.
CookieExpires(b) ==
  /\ \E token \in jar[b] : clock >= token.exp
  /\ jar' = [jar EXCEPT ![b] = NoCookie]
  /\ UNCHANGED <<site, clock, limiter, flows, codes, kid, callback, seats>>

-----------------------------------------------------------------------------
(* The callback endpoint.                                                  *)

\* Everything but the callback table stays.
Stay == UNCHANGED <<site, clock, limiter, jar, flows, kid, seats>>
Abort(c) == callback' = [callback EXCEPT ![c] = IdleCallback]

\* The state in the query must be the one in the cookie of this browser.
SameState(token, state) == token.sub = state

\* The redirect back of flow f opens in browser b, now or again.
oidc_callback(c, b, f) ==
  /\ callback[c].pc = "idle" /\ codes[f] # "none"
  /\ \E token \in jar[b] :
       /\ verify_oidc_state(token, clock) /\ SameState(token, random_binding(f))
       /\ callback' = [callback EXCEPT ![c] = Callback("discover", b, f, token.nonce, {}, 0)]
  /\ Stay /\ UNCHANGED codes

\* The key set the provider publishes at this moment.
fetch == {kid}

\* Discovery and the provider's keys, fetched anew for every callback.
build_client(c) ==
  LET k == callback[c]
  IN /\ k.pc = "discover"
     /\ callback' = [callback EXCEPT ![c] =
                       Callback("exchange", k.browser, k.flow, k.nonce, fetch, k.signed)]
     /\ Stay /\ UNCHANGED codes

\* The provider refuses a spent code: error_for_status.
StatusIgnored(code) == TRUE
StatusOk(code) == code = "granted"

exchange_code(c) ==
  LET k == callback[c]
  IN /\ k.pc = "exchange"
     /\ IF StatusOk(codes[k.flow])
        THEN callback' = [callback EXCEPT ![c] =
                            Callback("verify", k.browser, k.flow, k.nonce, k.jwks, kid)]
        ELSE Abort(c)
     /\ codes' = [codes EXCEPT ![k.flow] = "spent"]
     /\ Stay

\* The key the token names must be among those fetched.
decoding_key(jwks, signed) == signed \in jwks

check_nonce(nonce, expected) == nonce = expected

verify_id_token(c) ==
  LET k == callback[c]
  IN /\ k.pc = "verify"
     /\ IF decoding_key(k.jwks, k.signed) /\ check_nonce(random_binding(k.flow), k.nonce)
        THEN callback' = [callback EXCEPT ![c] = Callback("account", k.browser, k.flow, 0, {}, 0)]
        ELSE Abort(c)
     /\ Stay /\ UNCHANGED codes

\* A provider or network error at any of its steps, no email, a disabled account.
CallbackFails(c) ==
  /\ callback[c].pc # "idle"
  /\ Abort(c)
  /\ Stay /\ UNCHANGED codes

Seat(browser, flow, by, token) == [browser |-> browser, flow |-> flow, by |-> by, token |-> token]

\* The account found or made, the session row written (Sessions): signs the
\* bearer token, and clears whatever state cookie the browser has by now.
Complete(c) ==
  LET k == callback[c]
  IN /\ k.pc = "account"
     /\ seats' = seats \cup {Seat(k.browser, k.flow, c,
                                 issue_session(flows[k.flow].browser, {}, k.flow, clock))}
     /\ jar' = [jar EXCEPT ![k.browser] = NoCookie]
     /\ Abort(c)
     /\ UNCHANGED <<site, clock, limiter, flows, codes, kid>>

Next ==
  \/ Tick \/ RotateKeys
  \/ \E c \in Callers, ip \in Ips :
       \/ \E a \in Accounts : login(c, ip, a)
       \/ \E b \in Browsers : oidc_login(c, ip, b)
  \/ \E c \in Callers : record(c) \/ Refused(c) \/ Start(c) \/ StartFails(c)
  \/ \E f \in 1..MaxFlows : Consent(f)
  \/ \E b \in Browsers : CookieExpires(b)
  \/ \E c \in Callbacks :
       \/ \E b \in Browsers, f \in 1..MaxFlows : oidc_callback(c, b, f)
       \/ build_client(c) \/ exchange_code(c) \/ verify_id_token(c) \/ CallbackFails(c)
       \/ Complete(c)

Spec == Init /\ [][Next]_vars

-----------------------------------------------------------------------------
(* Properties of the limiter.                                              *)

\* The attempts of key k admitted up to time t.
Upto(k, t) == IF t < 0 THEN 0 ELSE admitted[k][IF t > MaxClock THEN MaxClock ELSE t]

\* While every attempt is counted at the time it read, no key gets more than
\* two windows' worth of attempts through in any span of one window.
RollingBudget ==
  ~late /\ max_attempts > 0 =>
    \A k \in Keys, t \in 0..MaxClock :
      Upto(k, t + window - 1) - Upto(k, t - 1) <= 2 * max_attempts

\* Whoever waits as long as Retry-After says, and one second more for the
\* fraction it drops, finds every window that refused it run out.
RetryAfterIsEnough ==
  [][\A c \in Callers :
       caller[c].pc = "stamped" /\ caller'[c].pc = "refused" =>
         \A k \in {caller[c].ip, caller[c].key} :
           k \in DOMAIN windows' /\ windows'[k].count > max_attempts =>
             windows'[k].reset_at < caller[c].now + (caller'[c].retry + 1) * TicksPerSecond]_vars

-----------------------------------------------------------------------------
(* Properties of the OIDC login.                                           *)

\* A browser only ever ends up in the account of its own user, even when the
\* redirect of somebody else's login opens in it (the state cookie).
OwnAccountOnly == \A s \in seats : s.token.sub = s.browser

\* A login yields one session at most, however often its redirect is opened
\* and however the callbacks overlap.
OneSessionPerLogin == \A s, r \in seats : s.flow = r.flow => s = r

\* Of several logins a browser has started, only the last one passes the state
\* check, and only while its state token lasts.
OnlyTheLastLoginReturns ==
  [][\A c \in Callbacks :
       callback[c].pc = "idle" /\ callback'[c].pc # "idle" =>
         LET f == callback'[c].flow
         IN /\ \A g \in DOMAIN flows : flows[g].browser = callback'[c].browser => g <= f
            /\ clock <= flows[f].issued + StateTtl + Leeway]_vars

TypeOK ==
  /\ clock \in 0..MaxClock /\ late \in BOOLEAN /\ attempts \in 0..site.attempts
  /\ DOMAIN windows \subseteq Keys
  /\ \A k \in DOMAIN windows : windows[k].count \in 1..site.attempts
  /\ \A b \in Browsers : Cardinality(jar[b]) <= 1
=============================================================================
