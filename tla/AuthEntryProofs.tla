--------------------------- MODULE AuthEntryProofs ---------------------------
(***************************************************************************)
(* The limiter's budget and the bindings of an OIDC login, for any number  *)
(* of callers, keys, browsers, callbacks and logins, and for any window.   *)
(*                                                                         *)
(* The limiter: what was admitted under the current window of a key, in    *)
(* the window's length before it, and after it, is enough to bound what    *)
(* any span of one window can hold.  The login: a state cookie names the   *)
(* last login its browser started, a callback keeps to the browser of its  *)
(* login, and whoever is past the exchange holds the login alone.          *)
(* Types: an attempt is stamped or counted, never both, so no window has   *)
(* more of them than were made.                                            *)
(***************************************************************************)
EXTENDS AuthEntry, FiniteSetTheorems, TLAPS

\* A leaf is tried with Zenon; one that needs records or arithmetic cites SMT.
USE Zenon

-----------------------------------------------------------------------------
(* Types.                                                                  *)

WindowType == [count : Nat, reset_at : Nat]

CallerType ==
  [pc : {"idle", "stamped", "refused", "start"}, now : Nat, ip : Ips \cup {NoOne},
   key : Keys \cup {NoOne}, browser : Browsers \cup {NoOne}, retry : Int]

CallbackType ==
  [pc : {"idle", "discover", "exchange", "verify", "account"}, browser : Browsers \cup {NoOne},
   flow : Nat, nonce : Nat, jwks : SUBSET Nat, signed : Nat]

FlowType == [browser : Browsers, issued : Nat]

StateTokens == {issue_oidc_state(g, g, t) : g \in Nat, t \in Nat}

LimiterTypes ==
  /\ windows \in [DOMAIN windows -> WindowType] /\ DOMAIN windows \subseteq Keys
  /\ caller \in [Callers -> CallerType]
  /\ \A c \in Callers : caller[c].pc = "stamped" => caller[c].ip \in Ips /\ caller[c].key \in Keys
  /\ \A c \in Callers : caller[c].pc = "start" => caller[c].browser \in Browsers
  /\ \A c \in Callers : caller[c].now <= clock
  /\ admitted \in [Keys -> [0..MaxClock -> Nat]]
  /\ late \in BOOLEAN

OidcTypes ==
  /\ jar \in [Browsers -> SUBSET StateTokens]
  /\ flows \in Seq(FlowType) /\ Len(flows) <= MaxFlows
  /\ codes \in [1..MaxFlows -> {"none", "granted", "spent"}]
  /\ kid \in Nat
  /\ callback \in [Callbacks -> CallbackType]

Types == site \in Sites /\ clock \in 0..MaxClock /\ LimiterTypes /\ OidcTypes

-----------------------------------------------------------------------------
(* The OIDC login.                                                         *)

\* A state cookie is of the last login its browser started.
CookieInv ==
  \A b \in Browsers : \A token \in jar[b] :
    \E g \in 1..Len(flows) :
      /\ token = issue_oidc_state(g, g, flows[g].issued)
      /\ flows[g].browser = b
      /\ \A h \in 1..Len(flows) : flows[h].browser = b => h <= g

\* A callback at work, and a session, belong to the browser of their login.
BoundInv ==
  /\ \A c \in Callbacks :
       callback[c].pc # "idle" =>
         callback[c].flow \in 1..Len(flows) /\ flows[callback[c].flow].browser = callback[c].browser
  /\ \A s \in seats : s.flow \in 1..Len(flows) /\ s.token.sub = s.browser

\* Whoever is past the exchange of a code has spent it, and has it alone.
Redeemed(c) == callback[c].pc \in {"verify", "account"}
SpentInv ==
  /\ \A c \in Callbacks : Redeemed(c) => codes[callback[c].flow] = "spent"
  /\ \A s \in seats : codes[s.flow] = "spent"
  /\ \A c, d \in Callbacks : Redeemed(c) /\ Redeemed(d) /\ callback[c].flow = callback[d].flow => c = d
  /\ \A c \in Callbacks, s \in seats : Redeemed(c) => s.flow # callback[c].flow
  /\ \A s, r \in seats : s.flow = r.flow => s = r

OidcInv == CookieInv /\ BoundInv /\ SpentInv

-----------------------------------------------------------------------------
(* The budget of one key: P[t] is what was admitted up to time t.          *)

Grows(P, now) ==
  /\ P \in [Int -> Nat]
  /\ \A s, t \in Int : s <= t => P[s] <= P[t]
  /\ \A t \in Int : t >= now => P[t] = P[now]

\* Under a window that counted this many attempts and ends at reset_at.
Held(P, now, count, reset_at) ==
  LET start == reset_at - window
  IN /\ start <= now
     /\ P[now] - P[start - 1] <= count
     /\ P[now] - P[start - 1] <= max_attempts
     /\ P[start - 1] - P[start - 1 - window] <= max_attempts
     /\ P[now] = P[reset_at - 1]

\* Without a window.
Free(P, now) ==
  /\ P[now] = P[now - 1]
  /\ P[now] - P[now - 1 - window] <= max_attempts

Rolling(P) == \A t \in Int : P[t + window - 1] - P[t - 1] <= 2 * max_attempts

\* One more attempt from now on.
Bumped(P, now) == [t \in Int |-> IF t >= now THEN P[t] + 1 ELSE P[t]]

Past(k) == [t \in Int |-> Upto(k, t)]

BudgetInv ==
  ~late /\ max_attempts > 0 /\ window > 0 =>
    \A k \in Keys :
      /\ Rolling(Past(k))
      /\ k \in DOMAIN windows => Held(Past(k), clock, windows[k].count, windows[k].reset_at)
      /\ k \notin DOMAIN windows => Free(Past(k), clock)

GrowthInv == \A k \in Keys : Grows(Past(k), clock)

Inv == Types /\ OidcInv /\ GrowthInv /\ BudgetInv

-----------------------------------------------------------------------------
(* Arithmetic of one key's budget (record_at).                             *)

\* Time passes: what was admitted stays where it was.
LEMMA BudgetTicks ==
  ASSUME NEW P, NEW now \in Nat, Grows(P, now)
  PROVE  /\ Grows(P, now + 1)
         /\ Free(P, now) => Free(P, now + 1)
         /\ \A count, reset_at \in Nat : Held(P, now, count, reset_at) => Held(P, now + 1, count, reset_at)
<1>1. P \in [Int -> Nat] /\ P[now + 1] = P[now]
  BY SMT DEF Grows
<1>2. Grows(P, now + 1)
  BY SMT, <1>1 DEF Grows
<1>3. Free(P, now) => Free(P, now + 1)
  <2>1. P[now - 1 - window] <= P[now - window] /\ P[now - 1 - window] \in Nat /\ P[now - window] \in Nat
    BY SMT, LimiterAssumption DEF Grows
  <2>2. now + 1 - 1 = now /\ now + 1 - 1 - window = now - window
    BY SMT, LimiterAssumption
  <2> QED
    BY SMT, <1>1, <2>1, <2>2, LimiterAssumption DEF Free
<1>4. ASSUME NEW count \in Nat, NEW reset_at \in Nat, Held(P, now, count, reset_at)
      PROVE  Held(P, now + 1, count, reset_at)
  BY SMT, <1>1, <1>4, LimiterAssumption DEF Held
<1> QED
  BY <1>2, <1>3, <1>4

\* A window that has run out leaves its key as free as one that was never seen:
\* dropping it in a sweep loses nothing.
LEMMA ExpiredIsFree ==
  ASSUME NEW P, NEW now \in Nat, Grows(P, now), NEW count \in Nat, NEW reset_at \in Nat,
         Held(P, now, count, reset_at), now >= reset_at
  PROVE  Free(P, now)
<1>1. P \in [Int -> Nat] /\ \A s, t \in Int : s <= t => P[s] <= P[t]
  BY DEF Grows
<1>2. P[reset_at - 1] <= P[now - 1] /\ P[now - 1] <= P[now]
  BY SMT, <1>1
<1>3. P[reset_at - window - 1] <= P[now - 1 - window]
  BY SMT, <1>1, LimiterAssumption
<1>4. /\ P[now] = P[reset_at - 1]
      /\ P[now] - P[reset_at - window - 1] <= max_attempts
  BY DEF Held
<1>5. /\ P[now] \in Nat /\ P[now - 1] \in Nat /\ P[reset_at - 1] \in Nat
      /\ P[reset_at - window - 1] \in Nat /\ P[now - 1 - window] \in Nat
  BY SMT, <1>1, LimiterAssumption
<1> QED
  BY SMT, <1>2, <1>3, <1>4, <1>5, LimiterAssumption DEF Free

\* A free key may open a window, with nothing admitted under it yet.
LEMMA FreeOpens ==
  ASSUME NEW P, NEW now \in Nat, Grows(P, now), Free(P, now), window > 0
  PROVE  Held(P, now, 0, now + window)
<1>1. P \in [Int -> Nat] /\ P[now + window - 1] = P[now]
  BY SMT, LimiterAssumption DEF Grows
<1>2. P[now] = P[now - 1] /\ P[now] - P[now - 1 - window] <= max_attempts
  BY DEF Free
<1>3. now + window - window = now
  BY SMT, LimiterAssumption
<1>4. P[now] \in Nat /\ P[now - 1] \in Nat /\ P[now - 1 - window] \in Nat
  BY SMT, <1>1, LimiterAssumption
<1> QED
  BY SMT, <1>1, <1>2, <1>3, <1>4, LimiterAssumption DEF Held

\* An attempt that is counted and refused.
LEMMA RefusalKeeps ==
  ASSUME NEW P, NEW now \in Nat, Grows(P, now), NEW count \in Nat, NEW reset_at \in Nat,
         Held(P, now, count, reset_at)
  PROVE  Held(P, now, count + 1, reset_at)
<1>1. P[now] \in Nat /\ P[reset_at - window - 1] \in Nat
  BY SMT, LimiterAssumption DEF Grows
<1> QED
  BY SMT, <1>1 DEF Held

\* An attempt that is counted and admitted: the spans that contain this moment
\* reach back into no window but the one before.
LEMMA AdmissionFits ==
  ASSUME NEW P, NEW now \in Nat, Grows(P, now), NEW count \in Nat, NEW reset_at \in Nat,
         Held(P, now, count, reset_at), now < reset_at, count + 1 <= max_attempts, Rolling(P)
  PROVE  /\ Held(Bumped(P, now), now, count + 1, reset_at)
         /\ Rolling(Bumped(P, now))
<1> DEFINE Q == Bumped(P, now)
           start == reset_at - window
<1>1. P \in [Int -> Nat] /\ (\A s, t \in Int : s <= t => P[s] <= P[t])
      /\ (\A t \in Int : t >= now => P[t] = P[now]) /\ start \in Int /\ window \in Nat
  BY SMT, LimiterAssumption DEF Grows
<1>2. \A t \in Int : Q[t] = IF t >= now THEN P[t] + 1 ELSE P[t]
  BY DEF Bumped
<1>3. /\ start <= now
      /\ P[now] - P[start - 1] <= count
      /\ P[now] - P[start - 1] <= max_attempts
      /\ P[start - 1] - P[start - 1 - window] <= max_attempts
      /\ P[now] = P[reset_at - 1]
  BY DEF Held
<1>4. /\ Q[now] = P[now] + 1 /\ Q[start - 1] = P[start - 1] /\ Q[reset_at - 1] = P[reset_at - 1] + 1
      /\ Q[start - 1 - window] = P[start - 1 - window]
  <2>1. /\ now \in Int /\ start - 1 \in Int /\ reset_at - 1 \in Int /\ start - 1 - window \in Int
        /\ now >= now /\ ~(start - 1 >= now) /\ reset_at - 1 >= now /\ ~(start - 1 - window >= now)
    BY SMT, <1>1, <1>3
  <2> QED
    BY <1>2, <2>1
<1>5. /\ P[now] \in Nat /\ P[start - 1] \in Nat
  BY SMT, <1>1
<1>6. Held(Q, now, count + 1, reset_at)
  <2>1. /\ Q[now] - Q[start - 1] <= count + 1
        /\ Q[now] - Q[start - 1] <= max_attempts
    BY SMT, <1>3, <1>4, <1>5, LimiterAssumption
  <2> QED
    BY <1>3, <1>4, <2>1 DEF Held
<1>7. ASSUME NEW t \in Int PROVE Q[t + window - 1] - Q[t - 1] <= 2 * max_attempts
  <2>0. /\ t + window - 1 \in Int /\ t - 1 \in Int
        /\ P[t + window - 1] \in Nat /\ P[t - 1] \in Nat
        /\ P[t + window - 1] - P[t - 1] <= 2 * max_attempts
    <3>1. t + window - 1 \in Int /\ t - 1 \in Int
      BY SMT, <1>1
    <3> QED
      BY <1>1, <3>1 DEF Rolling
  <2>1. CASE t > now
    BY SMT, <1>1, <1>2, <2>0, <2>1
  <2>2. CASE t + window - 1 < now
    BY SMT, <1>1, <1>2, <2>0, <2>2
  <2>3. CASE t <= now /\ t + window - 1 >= now
    <3>1. Q[t + window - 1] = P[now] + 1 /\ Q[t - 1] = P[t - 1]
      BY SMT, <1>1, <1>2, <2>0, <2>3
    <3>2. CASE t >= start
      <4>1. P[start - 1] <= P[t - 1]
        BY SMT, <1>1, <3>2
      <4> QED
        BY SMT, <1>3, <1>5, <2>0, <3>1, <4>1, LimiterAssumption
    <3>3. CASE t < start
      <4>1. start - 1 - window \in Int /\ start - 1 - window <= t - 1
        BY SMT, <1>1, <1>3, <2>3
      <4>2. P[start - 1 - window] <= P[t - 1] /\ P[start - 1 - window] \in Nat
        BY <1>1, <2>0, <4>1
      <4> QED
        BY SMT, <1>3, <1>5, <2>0, <3>1, <4>2, LimiterAssumption
    <3> QED
      BY SMT, <1>1, <3>2, <3>3
  <2> QED
    BY SMT, <1>1, <2>1, <2>2, <2>3
<1> QED
  BY <1>6, <1>7 DEF Rolling

-----------------------------------------------------------------------------
(* The operators of the limiter (record_at).                               *)

\* A window's two fields.
LEMMA WindowFields ==
  ASSUME NEW count, NEW reset_at
  PROVE  /\ Window(count, reset_at).count = count
         /\ Window(count, reset_at).reset_at = reset_at
         /\ count \in Nat /\ reset_at \in Nat => Window(count, reset_at) \in WindowType
BY DEF Window, WindowType

\* What record_at counts an attempt of key k against: the key's window, or a new one
\* when it has none or the one it has ran out.
Current(ws, k, now) ==
  IF k \in DOMAIN ws /\ ~(now >= ws[k].reset_at) THEN ws[k] ELSE Window(0, now + window)

\* An attempt adds one to that window.
LEMMA CountFields ==
  ASSUME NEW ws, NEW k, NEW now \in Nat, k \in DOMAIN ws => ws[k] \in WindowType
  PROVE  /\ Current(ws, k, now) \in WindowType
         /\ Count({ws[j] : j \in {k} \cap DOMAIN ws}, now)
              = Window(Current(ws, k, now).count + 1, Current(ws, k, now).reset_at)
         /\ window > 0 => now < Current(ws, k, now).reset_at
<1>1. now + window \in Nat /\ (window > 0 => ~(now >= now + window))
  BY SMT, LimiterAssumption
<1>2. /\ Window(0, now + window) \in WindowType
      /\ Window(0, now + window).count = 0 /\ Window(0, now + window).reset_at = now + window
  BY SMT, <1>1, WindowFields
<1>3. CASE k \in DOMAIN ws
  <2>1. {ws[j] : j \in {k} \cap DOMAIN ws} = {ws[k]}
    BY <1>3
  <2>2. (CHOOSE x \in {ws[k]} : TRUE) = ws[k] /\ {ws[k]} # {}
    OBVIOUS
  <2>3. ws[k].reset_at \in Nat
    BY <1>3 DEF WindowType
  <2>4. CASE now >= ws[k].reset_at
    <3>1. Current(ws, k, now) = Window(0, now + window)
      BY <2>4 DEF Current
    <3>2. Count({ws[k]}, now) = Window(Window(0, now + window).count + 1, Window(0, now + window).reset_at)
      BY <2>2, <2>4 DEF Count
    <3> QED
      BY SMT, <1>1, <1>2, <2>1, <3>1, <3>2, LimiterAssumption
  <2>5. CASE ~(now >= ws[k].reset_at)
    <3>1. Current(ws, k, now) = ws[k]
      BY <1>3, <2>5 DEF Current
    <3>2. Count({ws[k]}, now) = Window(ws[k].count + 1, ws[k].reset_at)
      BY <2>2, <2>5 DEF Count
    <3>3. now < ws[k].reset_at
      BY SMT, <2>3, <2>5
    <3> QED
      BY <1>3, <2>1, <3>1, <3>2, <3>3
  <2> QED
    BY <2>4, <2>5
<1>4. CASE k \notin DOMAIN ws
  <2>1. {ws[j] : j \in {k} \cap DOMAIN ws} = {}
    BY <1>4
  <2>2. Current(ws, k, now) = Window(0, now + window)
    BY <1>4 DEF Current
  <2>3. Count({}, now) = Window(Window(0, now + window).count + 1, Window(0, now + window).reset_at)
    BY <1>2 DEF Count
  <2> QED
    BY SMT, <1>1, <1>2, <2>1, <2>2, <2>3, LimiterAssumption
<1> QED
  BY <1>3, <1>4

\* The window of a key that is counted.
LEMMA CountedKey ==
  ASSUME NEW ws, ws \in [DOMAIN ws -> WindowType], NEW now \in Nat, NEW keys, NEW k \in keys
  PROVE  /\ Counted(ws, now, keys)[k] \in WindowType
         /\ Counted(ws, now, keys)[k].count = Current(ws, k, now).count + 1
         /\ Counted(ws, now, keys)[k].reset_at = Current(ws, k, now).reset_at
<1>1. Counted(ws, now, keys)[k] = Count({ws[j] : j \in {k} \cap DOMAIN ws}, now)
  BY DEF Counted
<1>2. /\ Current(ws, k, now) \in WindowType
      /\ Counted(ws, now, keys)[k] = Window(Current(ws, k, now).count + 1, Current(ws, k, now).reset_at)
  BY <1>1, CountFields
<1>3. Current(ws, k, now).count + 1 \in Nat /\ Current(ws, k, now).reset_at \in Nat
  BY SMT, <1>2 DEF WindowType
<1> QED
  BY SMT, <1>2, <1>3, WindowFields

\* The map after an attempt.
LEMMA CountedFields ==
  ASSUME NEW ws, ws \in [DOMAIN ws -> WindowType], NEW now \in Nat, NEW keys
  PROVE  LET counted == Counted(ws, now, keys) IN
         /\ DOMAIN counted = DOMAIN ws \cup keys
         /\ counted \in [DOMAIN counted -> WindowType]
<1> DEFINE counted == Counted(ws, now, keys)
<1>1. DOMAIN counted = DOMAIN ws \cup keys
  BY DEF Counted
<1>2. ASSUME NEW k \in keys PROVE counted[k] \in WindowType
  BY CountedKey
<1>3. ASSUME NEW k \in DOMAIN ws \ keys PROVE counted[k] = ws[k]
  BY <1>3 DEF Counted
<1>4. counted \in [DOMAIN counted -> WindowType]
  <2>1. counted = [k \in DOMAIN counted |-> counted[k]]
    BY <1>1 DEF Counted
  <2>2. \A k \in DOMAIN counted : counted[k] \in WindowType
    BY <1>1, <1>2, <1>3
  <2> QED
    BY <2>1, <2>2
<1> QED
  BY <1>1, <1>4

\* A sweep drops windows that ran out, if any, and changes none.
LEMMA SweptFields ==
  ASSUME NEW ws, ws \in [DOMAIN ws -> WindowType], NEW now \in Nat
  PROVE  LET swept == Swept(ws, now) IN
         /\ DOMAIN swept \subseteq DOMAIN ws
         /\ swept \in [DOMAIN swept -> WindowType]
         /\ \A k \in DOMAIN swept : swept[k] = ws[k]
         /\ \A k \in DOMAIN ws \ DOMAIN swept : now >= ws[k].reset_at
<1> DEFINE kept == {j \in DOMAIN ws : now < ws[j].reset_at}
<1>1. CASE Swept(ws, now) = ws
  BY <1>1
<1>2. CASE Swept(ws, now) = [k \in kept |-> ws[k]]
  <2>1. ASSUME NEW k \in DOMAIN ws \ kept PROVE now >= ws[k].reset_at
    <3>1. ws[k].reset_at \in Nat /\ ~(now < ws[k].reset_at)
      BY <2>1 DEF WindowType
    <3> QED
      BY SMT, <3>1
  <2>2. [k \in kept |-> ws[k]] \in [kept -> WindowType]
    OBVIOUS
  <2> QED
    BY <1>2, <2>1, <2>2
<1> QED
  BY <1>1, <1>2 DEF Swept

\* Of the exhausted windows the last to roll over, and how far off that is.
Latest(ws, keys) ==
  CHOOSE j \in Exhausted(ws, keys) :
    \A other \in Exhausted(ws, keys) : ws[j].reset_at >= ws[other].reset_at
Seconds(ws, k, now) == (ws[k].reset_at - now) \div TicksPerSecond

\* The wait is for that window.
LEMMA WaitIsForLatest ==
  ASSUME NEW ws, NEW now, NEW keys
  PROVE  Wait(ws, now, keys) = AtLeast(Seconds(ws, Latest(ws, keys), now), 1)
BY DEF Wait, Seconds, Latest

\* Of the windows of two keys there is a last one.
LEMMA LatestFields ==
  ASSUME NEW ws, NEW a, NEW b, ws[a] \in WindowType, ws[b] \in WindowType, Exhausted(ws, {a, b}) # {}
  PROVE  /\ Latest(ws, {a, b}) \in Exhausted(ws, {a, b})
         /\ \A other \in Exhausted(ws, {a, b}) : ws[Latest(ws, {a, b})].reset_at >= ws[other].reset_at
<1> DEFINE E == Exhausted(ws, {a, b})
           Last(j) == \A other \in E : ws[j].reset_at >= ws[other].reset_at
<1>1. E \subseteq {a, b} /\ ws[a].reset_at \in Nat /\ ws[b].reset_at \in Nat
  BY DEF Exhausted, WindowType
<1>2. \E j \in E : Last(j)
  <2>1. CASE a \in E /\ b \in E
    <3>1. CASE ws[a].reset_at >= ws[b].reset_at
      <4>1. ws[a].reset_at >= ws[a].reset_at
        BY SMT, <1>1
      <4> QED
        BY <1>1, <2>1, <3>1, <4>1
    <3>2. CASE ~(ws[a].reset_at >= ws[b].reset_at)
      <4>1. ws[b].reset_at >= ws[b].reset_at /\ ws[b].reset_at >= ws[a].reset_at
        BY SMT, <1>1, <3>2
      <4> QED
        BY <1>1, <2>1, <4>1
    <3> QED
      BY <3>1, <3>2
  <2>2. CASE ~(a \in E /\ b \in E)
    <3>1. PICK j \in E : TRUE
      OBVIOUS
    <3>2. E = {j}
      BY <1>1, <2>2, <3>1
    <3>3. ws[j].reset_at >= ws[j].reset_at
      BY SMT, <1>1, <3>1
    <3> QED
      BY <3>2, <3>3
  <2> QED
    BY <2>1, <2>2
<1> QED
  BY <1>2 DEF Latest

\* A wait is at least a second: it is not mistaken for an admission.
LEMMA WaitBlocks ==
  ASSUME NEW n \in Int
  PROVE  /\ AtLeast(n, 1) \in Nat /\ AtLeast(n, 1) >= 1 /\ AtLeast(n, 1) >= n
         /\ AtLeast(n, 1) # NotBlocked
BY SMT DEF AtLeast, NotBlocked

\* record_at without a limit counts nothing and blocks nobody.
LEMMA RecordNothing ==
  ASSUME NEW ws, NEW now, NEW keys, max_attempts = 0
  PROVE  record_at(ws, now, keys).windows = ws /\ record_at(ws, now, keys).wait = NotBlocked
BY DEF record_at

\* The fields of a request at a limited endpoint.
LEMMA CallerFields ==
  ASSUME NEW pc, NEW now, NEW ip, NEW key, NEW browser, NEW retry
  PROVE  LET r == Caller(pc, now, ip, key, browser, retry) IN
         /\ r.pc = pc /\ r.now = now /\ r.ip = ip /\ r.key = key /\ r.browser = browser /\ r.retry = retry
         /\ /\ pc \in {"idle", "stamped", "refused", "start"} /\ now \in Nat /\ ip \in Ips \cup {NoOne}
            /\ key \in Keys \cup {NoOne} /\ browser \in Browsers \cup {NoOne} /\ retry \in Int
            => r \in CallerType
BY DEF Caller, CallerType

\* A request that is not there.
LEMMA IdleCallerFields == IdleCaller \in CallerType /\ IdleCaller.pc = "idle" /\ IdleCaller.now = 0
<1>1. NotBlocked \in Int /\ 0 \in Nat
  BY SMT DEF NotBlocked
<1> QED
  BY SMT, <1>1, CallerFields DEF IdleCaller

\* The request goes on, or is to be answered with a wait.
Passes(c) ==
  caller' = [caller EXCEPT ![c] =
               IF caller[c].browser = NoOne THEN IdleCaller
               ELSE Caller("start", caller[c].now, caller[c].ip, caller[c].key, caller[c].browser, NotBlocked)]
Blocked(c, wait) ==
  caller' = [caller EXCEPT ![c] =
               Caller("refused", caller[c].now, caller[c].ip, caller[c].key, caller[c].browser, wait)]

\* What record does, without the limiter, without a limit, and with one.
LEMMA RecordFields ==
  ASSUME Types, NEW c \in Callers, record(c)
  PROVE  /\ caller[c].pc = "stamped" /\ caller[c].ip \in Ips /\ caller[c].key \in Keys
         /\ caller[c].now \in Nat /\ caller[c].now <= clock
         /\ late' = (late \/ (site.limited /\ caller[c].now < clock))
         /\ clock' = clock /\ site' = site /\ oidc' = oidc
         /\ \E keys, counted :
              /\ keys = {caller[c].ip, caller[c].key}
              /\ counted = Counted(windows, caller[c].now, keys)
              /\ \/ ~site.limited /\ windows' = windows /\ admitted' = admitted /\ Passes(c)
                 \/ /\ site.limited /\ max_attempts = 0
                    /\ windows' = windows /\ admitted' = Admit(keys) /\ Passes(c)
                 \/ /\ site.limited /\ max_attempts # 0 /\ windows' = Swept(counted, caller[c].now)
                    /\ Exhausted(counted, keys) = {} /\ admitted' = Admit(keys) /\ Passes(c)
                 \/ /\ site.limited /\ max_attempts # 0 /\ windows' = Swept(counted, caller[c].now)
                    /\ Exhausted(counted, keys) # {} /\ admitted' = admitted
                    /\ Wait(counted, caller[c].now, keys) \in Nat
                    /\ Blocked(c, Wait(counted, caller[c].now, keys))
<1>0. PICK keys, done :
        /\ keys = {caller[c].ip, caller[c].key}
        /\ done = IF site.limited THEN record_at(windows, caller[c].now, keys) ELSE disabled
  OBVIOUS
<1>1. /\ caller[c].pc = "stamped" /\ windows' = done.windows
      /\ late' = (late \/ (site.limited /\ caller[c].now < clock))
      /\ clock' = clock /\ site' = site /\ oidc' = oidc
  BY <1>0 DEF record
<1>2. /\ caller[c].ip \in Ips /\ caller[c].key \in Keys
      /\ caller[c].now \in Nat /\ caller[c].now <= clock
      /\ windows \in [DOMAIN windows -> WindowType]
  BY <1>1 DEF Types, LimiterTypes, CallerType
<1>3. /\ done.wait # NotBlocked => Blocked(c, done.wait) /\ admitted' = admitted
      /\ done.wait = NotBlocked => Passes(c) /\ admitted' = IF site.limited THEN Admit(keys) ELSE admitted
  BY <1>0 DEF record, Passes, Blocked
<1>4. PICK counted : counted = Counted(windows, caller[c].now, keys)
  OBVIOUS
<1>5. CASE ~site.limited
  <2>1. done.windows = windows /\ done.wait = NotBlocked
    BY <1>0, <1>5 DEF disabled
  <2> QED
    BY <1>0, <1>1, <1>2, <1>3, <1>4, <1>5, <2>1
<1>6. CASE site.limited /\ max_attempts = 0
  <2>1. done.windows = windows /\ done.wait = NotBlocked
    BY <1>0, <1>6, RecordNothing
  <2> QED
    BY <1>0, <1>1, <1>2, <1>3, <1>4, <1>6, <2>1
<1>7. CASE site.limited /\ max_attempts # 0
  <2>0. done = record_at(windows, caller[c].now, keys)
    BY <1>0, <1>7
  <2>1. /\ done.windows = Swept(counted, caller[c].now)
        /\ Exhausted(counted, keys) = {} => done.wait = NotBlocked
        /\ Exhausted(counted, keys) # {} => done.wait = Wait(counted, caller[c].now, keys)
    BY <1>4, <1>7, <2>0 DEF record_at
  <2>2. CASE Exhausted(counted, keys) = {}
    BY <1>0, <1>1, <1>2, <1>3, <1>4, <1>7, <2>1, <2>2
  <2>3. CASE Exhausted(counted, keys) # {}
    <3>1. /\ DOMAIN counted = DOMAIN windows \cup keys
          /\ counted \in [DOMAIN counted -> WindowType]
      BY <1>2, <1>4, CountedFields
    <3>2. counted[caller[c].ip] \in WindowType /\ counted[caller[c].key] \in WindowType
      BY <1>0, <3>1
    <3>3. Latest(counted, keys) \in {caller[c].ip, caller[c].key}
      <4>1. Exhausted(counted, {caller[c].ip, caller[c].key}) # {}
        BY <1>0, <2>3
      <4>2. Latest(counted, keys) \in Exhausted(counted, keys)
        BY <1>0, <3>2, <4>1, LatestFields
      <4> QED
        BY <1>0, <4>2 DEF Exhausted
    <3>4. PICK k : k = Latest(counted, keys) /\ counted[k].reset_at \in Nat
      BY <3>2, <3>3 DEF WindowType
    <3>5. Seconds(counted, k, caller[c].now) \in Int
      BY SMT, <1>2, <3>4, LimiterAssumption DEF Seconds
    <3>6. /\ Wait(counted, caller[c].now, keys) \in Nat
          /\ Wait(counted, caller[c].now, keys) # NotBlocked
      BY <3>4, <3>5, WaitIsForLatest, WaitBlocks
    <3> QED
      BY <1>0, <1>1, <1>2, <1>3, <1>4, <1>7, <2>1, <2>3, <3>6
  <2> QED
    BY <2>2, <2>3
<1> QED
  BY <1>5, <1>6, <1>7

-----------------------------------------------------------------------------
(* The budget, step by step.                                               *)

\* Admissions that are not touched.
LEMMA PastSame ==
  ASSUME NEW k, admitted' = admitted
  PROVE  Past(k)' = Past(k)
BY DEF Past, Upto

\* What Admit does to the history of a key.
LEMMA PastAdmit ==
  ASSUME Types, NEW k \in Keys, NEW keys, admitted' = Admit(keys)
  PROVE  Past(k)' = IF k \in keys THEN Bumped(Past(k), clock) ELSE Past(k)
<1>1. clock \in Int /\ 0 <= clock /\ clock <= MaxClock /\ MaxClock \in Nat /\ 0 <= MaxClock
  BY SMT, AuthEntryAssumption DEF Types
<1>2. \A t \in 0..MaxClock :
        admitted'[k][t] = IF k \in keys /\ t >= clock THEN admitted[k][t] + 1 ELSE admitted[k][t]
  BY DEF Admit
<1>3. ASSUME NEW t \in Int
      PROVE  Upto(k, t)' = IF k \in keys THEN IF t >= clock THEN Upto(k, t) + 1 ELSE Upto(k, t) ELSE Upto(k, t)
  <2>1. CASE t < 0
    <3>1. ~(t >= clock)
      BY SMT, <1>1, <2>1
    <3> QED
      BY <2>1, <3>1 DEF Upto
  <2>2. CASE ~(t < 0) /\ t > MaxClock
    <3>1. t >= clock /\ MaxClock >= clock /\ MaxClock \in 0..MaxClock
      BY SMT, <1>1, <2>2
    <3> QED
      BY <1>2, <2>2, <3>1 DEF Upto
  <2>3. CASE ~(t < 0) /\ ~(t > MaxClock)
    <3>1. t \in 0..MaxClock
      BY SMT, <1>1, <2>3
    <3> QED
      BY <1>2, <2>3, <3>1 DEF Upto
  <2> QED
    BY <2>1, <2>2, <2>3
<1>4. CASE k \in keys
  <2>1. \A t \in Int : Upto(k, t)' = IF t >= clock THEN Past(k)[t] + 1 ELSE Past(k)[t]
    BY <1>3, <1>4 DEF Past
  <2> QED
    BY <1>4, <2>1 DEF Past, Bumped
<1>5. CASE k \notin keys
  BY <1>3, <1>5 DEF Past
<1> QED
  BY <1>4, <1>5

\* An admission now keeps a history a history.
LEMMA GrowsBumped ==
  ASSUME NEW P, NEW now \in Nat, Grows(P, now)
  PROVE  Grows(Bumped(P, now), now)
BY SMT DEF Grows, Bumped

\* A step that leaves the limiter's map, its history and the time alone.
LEMMA LimiterFrame ==
  ASSUME GrowthInv /\ BudgetInv, windows' = windows, admitted' = admitted, late' = late, clock' = clock
  PROVE  GrowthInv' /\ BudgetInv'
<1>1. \A k \in Keys : Past(k)' = Past(k)
  BY PastSame
<1> QED
  BY <1>1 DEF GrowthInv, BudgetInv

\* The clock moves.
LEMMA TickBudget ==
  ASSUME Types, GrowthInv, BudgetInv, Tick
  PROVE  GrowthInv' /\ BudgetInv'
<1>1. \A k \in Keys : Past(k)' = Past(k)
  BY PastSame DEF Tick, limiter
<1>2. clock \in Nat /\ clock' = clock + 1 /\ windows' = windows /\ late' = late
  BY SMT DEF Types, Tick, limiter
<1>3. GrowthInv'
  BY <1>1, <1>2, BudgetTicks DEF GrowthInv
<1>4. ASSUME ~late, max_attempts > 0, window > 0, NEW k \in Keys
      PROVE  /\ Rolling(Past(k))
             /\ k \in DOMAIN windows => Held(Past(k), clock + 1, windows[k].count, windows[k].reset_at)
             /\ k \notin DOMAIN windows => Free(Past(k), clock + 1)
  <2>1. k \in DOMAIN windows => windows[k].count \in Nat /\ windows[k].reset_at \in Nat
    BY DEF Types, LimiterTypes, WindowType
  <2>2. Grows(Past(k), clock)
    BY DEF GrowthInv
  <2> QED
    BY <1>2, <1>4, <2>1, <2>2, BudgetTicks DEF BudgetInv
<1>5. BudgetInv'
  BY <1>1, <1>2, <1>4 DEF BudgetInv
<1> QED
  BY <1>3, <1>5

\* The window an attempt is counted against holds, whether it was there or not.
LEMMA CurrentHolds ==
  ASSUME Types, GrowthInv, BudgetInv, ~late, max_attempts > 0, window > 0, NEW k \in Keys
  PROVE  /\ Current(windows, k, clock).count \in Nat /\ Current(windows, k, clock).reset_at \in Nat
         /\ clock < Current(windows, k, clock).reset_at
         /\ Held(Past(k), clock, Current(windows, k, clock).count, Current(windows, k, clock).reset_at)
<1>1. clock \in Nat /\ windows \in [DOMAIN windows -> WindowType]
  BY SMT DEF Types, LimiterTypes
<1>2. /\ Current(windows, k, clock) \in WindowType
      /\ clock < Current(windows, k, clock).reset_at
  BY <1>1, CountFields
<1>3. Grows(Past(k), clock)
  BY DEF GrowthInv
<1>4. CASE k \in DOMAIN windows /\ ~(clock >= windows[k].reset_at)
  BY <1>2, <1>4 DEF Current, BudgetInv, WindowType
<1>5. CASE ~(k \in DOMAIN windows /\ ~(clock >= windows[k].reset_at))
  <2>1. Current(windows, k, clock) = Window(0, clock + window)
    BY <1>5 DEF Current
  <2>2. Free(Past(k), clock)
    <3>1. CASE k \notin DOMAIN windows
      BY <3>1 DEF BudgetInv
    <3>2. CASE k \in DOMAIN windows
      <4>1. /\ windows[k].count \in Nat /\ windows[k].reset_at \in Nat /\ clock >= windows[k].reset_at
            /\ Held(Past(k), clock, windows[k].count, windows[k].reset_at)
        BY <1>1, <1>5, <3>2 DEF WindowType, BudgetInv
      <4> QED
        BY <1>1, <1>3, <4>1, ExpiredIsFree
    <3> QED
      BY <3>1, <3>2
  <2>3. Held(Past(k), clock, 0, clock + window)
    BY <1>1, <1>3, <2>2, FreeOpens
  <2>4. /\ Current(windows, k, clock).count = 0
        /\ Current(windows, k, clock).reset_at = clock + window
    BY SMT, <2>1 DEF Window
  <2>5. /\ Current(windows, k, clock).count \in Nat
        /\ Current(windows, k, clock).reset_at \in Nat
    BY <1>2 DEF WindowType
  <2> QED
    BY <1>2, <2>3, <2>4, <2>5
<1> QED
  BY <1>4, <1>5

\* An attempt is counted, and admitted or refused.
LEMMA RecordBudget ==
  ASSUME Types, GrowthInv, BudgetInv, NEW c \in Callers, record(c)
  PROVE  GrowthInv' /\ BudgetInv'
<1>0. PICK keys, counted :
        /\ keys = {caller[c].ip, caller[c].key}
        /\ counted = Counted(windows, caller[c].now, keys)
        /\ \/ ~site.limited /\ windows' = windows /\ admitted' = admitted
           \/ /\ site.limited /\ max_attempts = 0 /\ admitted' = Admit(keys)
           \/ /\ site.limited /\ max_attempts # 0 /\ windows' = Swept(counted, caller[c].now)
              /\ Exhausted(counted, keys) = {} /\ admitted' = Admit(keys)
           \/ /\ site.limited /\ max_attempts # 0 /\ windows' = Swept(counted, caller[c].now)
              /\ Exhausted(counted, keys) # {} /\ admitted' = admitted
  BY RecordFields
<1>1. /\ caller[c].now \in Nat /\ caller[c].now <= clock /\ clock' = clock
      /\ late' = (late \/ (site.limited /\ caller[c].now < clock))
  BY RecordFields
<1>2. clock \in Nat /\ windows \in [DOMAIN windows -> WindowType]
  BY SMT DEF Types, LimiterTypes
<1>3. ASSUME NEW k \in Keys PROVE Grows(Past(k), clock) /\ Grows(Bumped(Past(k), clock), clock)
  BY <1>2, GrowsBumped DEF GrowthInv
<1>4. ASSUME NEW k \in Keys
      PROVE  /\ admitted' = admitted => Past(k)' = Past(k)
             /\ admitted' = Admit(keys) => Past(k)' = IF k \in keys THEN Bumped(Past(k), clock) ELSE Past(k)
  BY PastSame, PastAdmit
<1>5. GrowthInv'
  BY <1>0, <1>1, <1>3, <1>4 DEF GrowthInv
<1>6. CASE ~site.limited
  <2>1. late' = late
    BY <1>1, <1>6 DEF Types, LimiterTypes
  <2> QED
    BY <1>0, <1>1, <1>6, <2>1, LimiterFrame
<1>7. CASE late' \/ ~(max_attempts > 0 /\ window > 0)
  BY <1>5, <1>7 DEF BudgetInv
<1>8. CASE site.limited /\ ~late' /\ max_attempts > 0 /\ window > 0
  <2>1. caller[c].now = clock /\ ~late /\ max_attempts # 0
    <3>1. ~late /\ ~(caller[c].now < clock)
      BY <1>1, <1>8
    <3>2. caller[c].now = clock /\ max_attempts # 0
      BY SMT, <1>1, <1>2, <1>8, <3>1
    <3> QED
      BY <3>1, <3>2
  <2>2. /\ DOMAIN counted = DOMAIN windows \cup keys
        /\ counted \in [DOMAIN counted -> WindowType]
        /\ \A k \in keys : /\ counted[k].count = Current(windows, k, clock).count + 1
                           /\ counted[k].reset_at = Current(windows, k, clock).reset_at
        /\ \A k \in DOMAIN windows \ keys : counted[k] = windows[k]
    <3>1. counted = Counted(windows, clock, keys)
      BY <1>0, <2>1
    <3>2. DOMAIN counted = DOMAIN windows \cup keys /\ counted \in [DOMAIN counted -> WindowType]
      BY <1>2, <3>1, CountedFields
    <3>3. ASSUME NEW k \in keys
          PROVE  /\ counted[k].count = Current(windows, k, clock).count + 1
                 /\ counted[k].reset_at = Current(windows, k, clock).reset_at
      BY <1>2, <3>1, CountedKey
    <3>4. ASSUME NEW k \in DOMAIN windows \ keys PROVE counted[k] = windows[k]
      BY <3>1, <3>4 DEF Counted
    <3> QED
      BY <3>2, <3>3, <3>4
  <2>3. /\ DOMAIN windows' \subseteq DOMAIN counted
        /\ \A k \in DOMAIN windows' : windows'[k] = counted[k]
        /\ \A k \in DOMAIN counted \ DOMAIN windows' : clock >= counted[k].reset_at
    <3>1. windows' = Swept(counted, clock)
      BY <1>0, <1>8, <2>1
    <3>2. PICK swept : swept = Swept(counted, clock)
      OBVIOUS
    <3>3. DOMAIN swept \subseteq DOMAIN counted /\ \A k \in DOMAIN swept : swept[k] = counted[k]
      BY <3>2 DEF Swept
    <3>4. \A k \in DOMAIN counted \ DOMAIN swept : clock >= counted[k].reset_at
      BY <1>2, <2>2, <3>2, SweptFields
    <3> QED
      BY <3>1, <3>2, <3>3, <3>4
  <2>4. ASSUME NEW k \in Keys
        PROVE  /\ Rolling(Past(k)')
               /\ k \in DOMAIN windows' => Held(Past(k)', clock, windows'[k].count, windows'[k].reset_at)
               /\ k \notin DOMAIN windows' => Free(Past(k)', clock)
    <3>0. Rolling(Past(k)) /\ Grows(Past(k), clock)
      BY <1>3, <1>8, <2>1 DEF BudgetInv
    <3>1. CASE k \in keys
      <4>1. PICK count, reset_at :
              /\ count = Current(windows, k, clock).count /\ reset_at = Current(windows, k, clock).reset_at
        OBVIOUS
      <4>2. /\ count \in Nat /\ reset_at \in Nat /\ clock < reset_at
            /\ Held(Past(k), clock, count, reset_at)
        BY <1>8, <2>1, <4>1, CurrentHolds
      <4>3. k \in DOMAIN windows' /\ windows'[k].count = count + 1 /\ windows'[k].reset_at = reset_at
        <5>1. counted[k].count = count + 1 /\ counted[k].reset_at = reset_at /\ k \in DOMAIN counted
          BY <2>2, <3>1, <4>1
        <5>2. ~(clock >= reset_at)
          BY SMT, <1>2, <4>2
        <5> QED
          BY <2>3, <5>1, <5>2
      <4>4. CASE Exhausted(counted, keys) = {} /\ admitted' = Admit(keys)
        <5>1. ~(counted[k].count > max_attempts) /\ counted[k].count = count + 1
          BY <2>2, <3>1, <4>1, <4>4 DEF Exhausted
        <5>2. count + 1 <= max_attempts
          BY SMT, <4>2, <5>1, LimiterAssumption
        <5>3. Past(k)' = Bumped(Past(k), clock)
          BY <1>4, <3>1, <4>4
        <5> QED
          BY <1>2, <3>0, <4>2, <4>3, <5>2, <5>3, AdmissionFits
      <4>5. CASE admitted' = admitted
        BY <1>2, <1>4, <3>0, <4>2, <4>3, <4>5, RefusalKeeps
      <4> QED
        BY <1>0, <1>8, <2>1, <4>4, <4>5
    <3>2. CASE k \notin keys
      <4>0. Past(k)' = Past(k)
        BY <1>0, <1>4, <1>8, <3>2
      <4>1. CASE k \notin DOMAIN windows
        BY <1>8, <2>1, <2>2, <2>3, <3>0, <3>2, <4>0, <4>1 DEF BudgetInv
      <4>2. CASE k \in DOMAIN windows
        <5>1. /\ windows[k].count \in Nat /\ windows[k].reset_at \in Nat
              /\ Held(Past(k), clock, windows[k].count, windows[k].reset_at)
          BY <1>2, <1>8, <2>1, <4>2 DEF BudgetInv, WindowType
        <5>2. counted[k] = windows[k] /\ k \in DOMAIN counted
          BY <2>2, <3>2, <4>2
        <5>3. k \notin DOMAIN windows' => Free(Past(k), clock)
          BY <1>2, <2>3, <3>0, <5>1, <5>2, ExpiredIsFree
        <5> QED
          BY <2>3, <3>0, <4>0, <5>1, <5>2, <5>3
      <4> QED
        BY <4>1, <4>2
    <3> QED
      BY <3>1, <3>2
  <2>5. BudgetInv'
    BY <1>1, <2>4 DEF BudgetInv
  <2> QED
    BY <1>5, <2>5
<1> QED
  BY <1>6, <1>7, <1>8

-----------------------------------------------------------------------------
(* The limiter's types.                                                    *)

\* A step that leaves the limiter and the time alone.
LEMMA LimiterTypesFrame ==
  ASSUME Types, UNCHANGED limiter, clock' = clock
  PROVE  LimiterTypes'
BY DEF Types, LimiterTypes, limiter

\* A step of one request.
LEMMA CallerMoves ==
  ASSUME Types, NEW c \in Callers, NEW r \in CallerType, caller' = [caller EXCEPT ![c] = r],
         r.pc = "stamped" => r.ip \in Ips /\ r.key \in Keys,
         r.pc = "start" => r.browser \in Browsers,
         r.now <= clock, clock' = clock,
         windows' \in [DOMAIN windows' -> WindowType] /\ DOMAIN windows' \subseteq Keys,
         admitted' \in [Keys -> [0..MaxClock -> Nat]], late' \in BOOLEAN
  PROVE  LimiterTypes'
<1>1. caller \in [Callers -> CallerType]
  BY DEF Types, LimiterTypes
<1>2. caller' \in [Callers -> CallerType]
  BY <1>1
<1>3. \A d \in Callers : caller'[d] = IF d = c THEN r ELSE caller[d]
  BY <1>1
<1>4. ASSUME NEW d \in Callers
      PROVE  /\ caller'[d].pc = "stamped" => caller'[d].ip \in Ips /\ caller'[d].key \in Keys
             /\ caller'[d].pc = "start" => caller'[d].browser \in Browsers
             /\ caller'[d].now <= clock
  <2>1. CASE d = c
    BY <1>3, <2>1
  <2>2. CASE d # c
    BY <1>3, <2>2 DEF Types, LimiterTypes
  <2> QED
    BY <2>1, <2>2
<1> QED
  BY <1>2, <1>4 DEF LimiterTypes

\* A request is over.
LEMMA CallerLeaves ==
  ASSUME Types, NEW c \in Callers, caller' = [caller EXCEPT ![c] = IdleCaller],
         windows' = windows, admitted' = admitted, late' = late, clock' = clock
  PROVE  LimiterTypes'
<1>1. 0 <= clock
  BY SMT DEF Types
<1> QED
  BY <1>1, CallerMoves, IdleCallerFields DEF Types, LimiterTypes

\* A request arrives.
LEMMA ArriveTypes ==
  ASSUME Types, NEW c \in Callers, NEW ip \in Ips, NEW key \in Keys, NEW b \in Browsers \cup {NoOne},
         Arrive(c, ip, key, b)
  PROVE  LimiterTypes' /\ clock' = clock /\ site' = site /\ UNCHANGED oidc
         /\ windows' = windows /\ admitted' = admitted /\ late' = late
<1>1. clock \in Nat /\ clock <= clock /\ NotBlocked \in Int
  BY SMT DEF Types, NotBlocked
<1>2. PICK r : r = Caller("stamped", clock, ip, key, b, NotBlocked)
  OBVIOUS
<1>3. r \in CallerType /\ r.pc = "stamped" /\ r.ip = ip /\ r.key = key /\ r.now = clock
  BY SMT, <1>1, <1>2, CallerFields
<1>4. /\ caller' = [caller EXCEPT ![c] = r]
      /\ clock' = clock /\ site' = site /\ UNCHANGED oidc
      /\ windows' = windows /\ admitted' = admitted /\ late' = late
  BY <1>2 DEF Arrive
<1>5. LimiterTypes'
  BY <1>1, <1>3, <1>4, CallerMoves DEF Types, LimiterTypes
<1> QED
  BY <1>4, <1>5

\* An attempt is counted.
LEMMA RecordTypes ==
  ASSUME Types, NEW c \in Callers, record(c)
  PROVE  LimiterTypes'
<1>0. PICK keys, counted :
        /\ keys = {caller[c].ip, caller[c].key}
        /\ counted = Counted(windows, caller[c].now, keys)
        /\ admitted' = admitted \/ admitted' = Admit(keys)
        /\ windows' = windows \/ windows' = Swept(counted, caller[c].now)
        /\ Passes(c) \/ \E wait \in Nat : Blocked(c, wait)
  BY RecordFields
<1>1. /\ caller[c].ip \in Ips /\ caller[c].key \in Keys
      /\ caller[c].now \in Nat /\ caller[c].now <= clock /\ clock' = clock
      /\ late' = (late \/ (site.limited /\ caller[c].now < clock))
  BY RecordFields
<1>2. windows \in [DOMAIN windows -> WindowType] /\ DOMAIN windows \subseteq Keys
  BY DEF Types, LimiterTypes
<1>3. windows' \in [DOMAIN windows' -> WindowType] /\ DOMAIN windows' \subseteq Keys
  <2>1. keys \subseteq Keys
    BY <1>0, <1>1 DEF Keys
  <2>2. DOMAIN counted \subseteq Keys /\ counted \in [DOMAIN counted -> WindowType]
    <3>1. DOMAIN counted = DOMAIN windows \cup keys /\ counted \in [DOMAIN counted -> WindowType]
      BY <1>0, <1>1, <1>2, CountedFields
    <3> QED
      BY <1>2, <2>1, <3>1
  <2>3. CASE windows' = Swept(counted, caller[c].now)
    <3>1. /\ DOMAIN Swept(counted, caller[c].now) \subseteq DOMAIN counted
          /\ Swept(counted, caller[c].now) \in [DOMAIN Swept(counted, caller[c].now) -> WindowType]
      BY <1>1, <2>2, SweptFields
    <3> QED
      BY <2>2, <2>3, <3>1
  <2> QED
    BY <1>0, <1>2, <2>3
<1>4. admitted' \in [Keys -> [0..MaxClock -> Nat]]
  <2>1. admitted \in [Keys -> [0..MaxClock -> Nat]]
    BY DEF Types, LimiterTypes
  <2>2. \A k \in Keys, t \in 0..MaxClock : admitted[k][t] \in Nat /\ admitted[k][t] + 1 \in Nat
    <3>1. ASSUME NEW n \in Nat PROVE n + 1 \in Nat
      BY SMT
    <3> QED
      BY <2>1, <3>1
  <2>3. Admit(keys) \in [Keys -> [0..MaxClock -> Nat]]
    BY <2>2 DEF Admit
  <2> QED
    BY <1>0, <2>1, <2>3
<1>5. late' \in BOOLEAN
  BY <1>1
<1>6. PICK r \in CallerType :
        /\ caller' = [caller EXCEPT ![c] = r] /\ r.pc # "stamped" /\ r.now <= clock
        /\ r.pc = "start" => r.browser \in Browsers
  <2>0. /\ caller[c].ip \in Ips \cup {NoOne} /\ caller[c].key \in Keys \cup {NoOne}
        /\ caller[c].browser \in Browsers \cup {NoOne}
        /\ NotBlocked \in Int /\ 0 <= clock /\ Nat \subseteq Int
    <3>1. caller[c] \in CallerType
      BY DEF Types, LimiterTypes
    <3>2. NotBlocked \in Int /\ 0 <= clock /\ Nat \subseteq Int
      BY SMT DEF NotBlocked, Types
    <3> QED
      BY <3>1, <3>2 DEF CallerType
  <2>1. CASE Passes(c) /\ caller[c].browser = NoOne
    BY <2>0, <2>1, IdleCallerFields DEF Passes
  <2>2. CASE Passes(c) /\ caller[c].browser # NoOne
    <3>1. PICK r : r = Caller("start", caller[c].now, caller[c].ip, caller[c].key, caller[c].browser, NotBlocked)
      OBVIOUS
    <3>2. r \in CallerType /\ r.pc = "start" /\ r.now = caller[c].now /\ r.browser = caller[c].browser
      BY SMT, <1>1, <2>0, <3>1, CallerFields
    <3> QED
      BY <1>1, <2>0, <2>2, <3>1, <3>2 DEF Passes
  <2>3. ASSUME NEW wait \in Nat, Blocked(c, wait)
        PROVE  \E r \in CallerType :
                 /\ caller' = [caller EXCEPT ![c] = r] /\ r.pc # "stamped" /\ r.now <= clock
                 /\ r.pc = "start" => r.browser \in Browsers
    <3>1. PICK r : r = Caller("refused", caller[c].now, caller[c].ip, caller[c].key, caller[c].browser, wait)
      OBVIOUS
    <3>2. r \in CallerType /\ r.pc = "refused" /\ r.now = caller[c].now
      BY SMT, <1>1, <2>0, <3>1, CallerFields
    <3> QED
      BY <1>1, <2>3, <3>1, <3>2 DEF Blocked
  <2> QED
    BY <1>0, <2>1, <2>2, <2>3
<1> QED
  BY <1>1, <1>3, <1>4, <1>5, <1>6, CallerMoves

-----------------------------------------------------------------------------
(* The OIDC login, step by step.                                           *)

\* The fields of a callback request.
LEMMA CallbackFields ==
  ASSUME NEW pc, NEW browser, NEW flow, NEW nonce, NEW jwks, NEW signed
  PROVE  LET r == Callback(pc, browser, flow, nonce, jwks, signed) IN
         /\ r.pc = pc /\ r.browser = browser /\ r.flow = flow
         /\ /\ pc \in {"idle", "discover", "exchange", "verify", "account"}
            /\ browser \in Browsers \cup {NoOne}
            /\ flow \in Nat /\ nonce \in Nat /\ jwks \in SUBSET Nat /\ signed \in Nat
            => r \in CallbackType
BY DEF Callback, CallbackType

\* A callback request that is not there.
LEMMA IdleCallbackFields == IdleCallback \in CallbackType /\ IdleCallback.pc = "idle"
<1>1. 0 \in Nat /\ {} \in SUBSET Nat
  BY SMT
<1> QED
  BY SMT, <1>1, CallbackFields DEF IdleCallback

\* Appending a login leaves the others where they are.
LEMMA AppendFields ==
  ASSUME NEW s \in Seq(FlowType), NEW e \in FlowType
  PROVE  /\ Append(s, e) \in Seq(FlowType) /\ Len(Append(s, e)) = Len(s) + 1
         /\ \A g \in 1..Len(s) : Append(s, e)[g] = s[g]
         /\ Append(s, e)[Len(s) + 1] = e
BY SMT

\* The logins have types, and codes.
LEMMA FlowFacts ==
  ASSUME Types
  PROVE  /\ Len(flows) \in Nat /\ 1..Len(flows) \subseteq 1..MaxFlows /\ 1..Len(flows) \subseteq Nat
         /\ \A g \in 1..Len(flows) : flows[g].browser \in Browsers /\ flows[g].issued \in Nat
<1>1. flows \in Seq(FlowType) /\ Len(flows) <= MaxFlows
  BY DEF Types, OidcTypes
<1>2. Len(flows) \in Nat /\ 1..Len(flows) \subseteq 1..MaxFlows /\ 1..Len(flows) \subseteq Nat
  BY SMT, <1>1, AuthEntryAssumption
<1>3. \A g \in 1..Len(flows) : flows[g] \in FlowType
  BY SMT, <1>1
<1> QED
  BY <1>2, <1>3 DEF FlowType

\* A step that leaves the logins alone.
LEMMA OidcFrame ==
  ASSUME Types, OidcInv, UNCHANGED oidc
  PROVE  OidcTypes' /\ OidcInv'
<1>1. OidcTypes'
  BY DEF Types, OidcTypes, oidc
<1>2. CookieInv'
  BY DEF OidcInv, CookieInv, oidc
<1>3. BoundInv'
  BY DEF OidcInv, BoundInv, oidc
<1>4. SpentInv'
  BY DEF OidcInv, SpentInv, Redeemed, oidc
<1> QED
  BY <1>1, <1>2, <1>3, <1>4 DEF OidcInv

\* Cookies only go.
LEMMA CookiesGo ==
  ASSUME CookieInv, flows' = flows, \A b \in Browsers : jar'[b] \subseteq jar[b]
  PROVE  CookieInv'
BY DEF CookieInv

\* A login starts: its cookie replaces that of the browser's last login.
LEMMA StartOidc ==
  ASSUME Types, OidcInv, NEW c \in Callers, Start(c)
  PROVE  OidcTypes' /\ OidcInv'
<1>0. PICK b, f, e, token :
        /\ b = caller[c].browser /\ f = Len(flows) + 1
        /\ e = [browser |-> b, issued |-> clock] /\ token = issue_oidc_state(f, f, clock)
  OBVIOUS
<1>1. /\ caller[c].pc = "start" /\ f <= MaxFlows /\ flows' = Append(flows, e)
      /\ jar' = [jar EXCEPT ![b] = {token}]
      /\ UNCHANGED <<codes, kid, callback, seats>>
  BY <1>0 DEF Start, SetCookie, random_binding
<1>2. b \in Browsers /\ clock \in Nat /\ flows \in Seq(FlowType) /\ jar \in [Browsers -> SUBSET StateTokens]
  <2>1. clock \in Nat
    BY SMT DEF Types
  <2> QED
    BY <1>0, <1>1, <2>1 DEF Types, LimiterTypes, OidcTypes
<1>3. e \in FlowType /\ e.browser = b /\ e.issued = clock
  BY <1>0, <1>2 DEF FlowType
<1>4. /\ flows' \in Seq(FlowType) /\ Len(flows') = f /\ flows'[f] = e
      /\ \A g \in 1..Len(flows) : flows'[g] = flows[g]
  BY <1>0, <1>1, <1>2, <1>3, AppendFields
<1>5. /\ f \in Nat /\ f \in 1..f /\ 1..Len(flows) \subseteq 1..f
      /\ \A h \in 1..f : h <= f /\ (h = f \/ h \in 1..Len(flows))
  BY SMT, <1>0, FlowFacts
<1>6. token \in StateTokens
  BY SMT, <1>0, <1>2, <1>5 DEF StateTokens
<1>7. /\ jar' \in [Browsers -> SUBSET StateTokens] /\ jar'[b] = {token}
      /\ \A d \in Browsers \ {b} : jar'[d] = jar[d]
  BY <1>1, <1>2, <1>6
<1>8. OidcTypes'
  BY <1>1, <1>4, <1>7 DEF Types, OidcTypes
<1>9. CookieInv'
  <2>1. ASSUME NEW d \in Browsers, NEW tok \in jar'[d]
        PROVE  \E g \in 1..f :
                 /\ tok = issue_oidc_state(g, g, flows'[g].issued)
                 /\ flows'[g].browser = d
                 /\ \A h \in 1..f : flows'[h].browser = d => h <= g
    <3>1. CASE d = b
      <4>1. tok = token
        BY <1>7, <2>1, <3>1
      <4> QED
        BY <1>0, <1>3, <1>4, <1>5, <3>1, <4>1
    <3>2. CASE d # b
      <4>1. tok \in jar[d]
        BY <1>7, <2>1, <3>2
      <4>2. PICK g \in 1..Len(flows) :
              /\ tok = issue_oidc_state(g, g, flows[g].issued)
              /\ flows[g].browser = d
              /\ \A h \in 1..Len(flows) : flows[h].browser = d => h <= g
        BY <4>1 DEF OidcInv, CookieInv
      <4>3. \A h \in 1..f : flows'[h].browser = d => h <= g
        BY <1>3, <1>4, <1>5, <3>2, <4>2
      <4> QED
        BY <1>4, <1>5, <4>2, <4>3
    <3> QED
      BY <3>1, <3>2
  <2> QED
    BY <1>4, <2>1 DEF CookieInv
<1>10. BoundInv'
  BY <1>1, <1>4, <1>5 DEF OidcInv, BoundInv
<1>11. SpentInv'
  BY <1>1 DEF OidcInv, SpentInv, Redeemed
<1> QED
  BY <1>8, <1>9, <1>10, <1>11 DEF OidcInv

\* The provider grants a code.
LEMMA ConsentOidc ==
  ASSUME Types, OidcInv, NEW f \in 1..MaxFlows, Consent(f)
  PROVE  OidcTypes' /\ OidcInv'
<1>1. /\ codes[f] = "none" /\ codes' = [codes EXCEPT ![f] = "granted"]
      /\ UNCHANGED <<jar, flows, kid, callback, seats>>
      /\ codes \in [1..MaxFlows -> {"none", "granted", "spent"}]
  BY DEF Consent, Types, OidcTypes
<1>2. codes' \in [1..MaxFlows -> {"none", "granted", "spent"}]
  BY <1>1
<1>3. \A g \in 1..MaxFlows : codes[g] = "spent" => codes'[g] = "spent"
  BY <1>1
<1>4. OidcTypes'
  BY <1>1, <1>2 DEF Types, OidcTypes
<1>5. CookieInv'
  BY <1>1 DEF OidcInv, CookieInv
<1>6. BoundInv'
  BY <1>1 DEF OidcInv, BoundInv
<1>7. SpentInv'
  <2>1. \A d \in Callbacks : Redeemed(d) => callback[d].flow \in 1..MaxFlows
    BY FlowFacts DEF OidcInv, BoundInv, Redeemed
  <2>2. \A s \in seats : s.flow \in 1..MaxFlows
    BY FlowFacts DEF OidcInv, BoundInv
  <2>3. \A d \in Callbacks : Redeemed(d)' = Redeemed(d)
    BY <1>1 DEF Redeemed
  <2> QED
    BY <1>1, <1>3, <2>1, <2>2, <2>3 DEF OidcInv, SpentInv
<1> QED
  BY <1>4, <1>5, <1>6, <1>7 DEF OidcInv

\* The provider replaces its key.
LEMMA RotateOidc ==
  ASSUME Types, OidcInv, RotateKeys
  PROVE  OidcTypes' /\ OidcInv'
<1>1. kid' \in Nat /\ UNCHANGED <<jar, flows, codes, callback, seats>>
  BY SMT DEF RotateKeys
<1>2. OidcTypes'
  BY <1>1 DEF Types, OidcTypes
<1>3. CookieInv' /\ BoundInv' /\ SpentInv'
  BY <1>1 DEF OidcInv, CookieInv, BoundInv, SpentInv, Redeemed
<1> QED
  BY <1>2, <1>3 DEF OidcInv

\* A browser drops its cookie.
LEMMA ExpireOidc ==
  ASSUME Types, OidcInv, NEW b \in Browsers, CookieExpires(b)
  PROVE  OidcTypes' /\ OidcInv'
<1>1. /\ jar' = [jar EXCEPT ![b] = {}] /\ UNCHANGED <<flows, codes, kid, callback, seats>>
      /\ jar \in [Browsers -> SUBSET StateTokens]
  BY DEF CookieExpires, NoCookie, Types, OidcTypes
<1>2. jar' \in [Browsers -> SUBSET StateTokens] /\ \A d \in Browsers : jar'[d] \subseteq jar[d]
  BY <1>1
<1>3. OidcTypes'
  BY <1>1, <1>2 DEF Types, OidcTypes
<1>4. CookieInv'
  BY <1>1, <1>2, CookiesGo DEF OidcInv
<1>5. BoundInv' /\ SpentInv'
  BY <1>1 DEF OidcInv, BoundInv, SpentInv, Redeemed
<1> QED
  BY <1>3, <1>4, <1>5 DEF OidcInv

\* A step of one callback that redeems no code.
LEMMA CallbackMoves ==
  ASSUME Types, OidcInv, NEW c \in Callbacks, NEW r \in CallbackType, callback' = [callback EXCEPT ![c] = r],
         UNCHANGED <<jar, flows, codes, kid, seats>>,
         r.pc # "idle" => r.flow \in 1..Len(flows) /\ flows[r.flow].browser = r.browser,
         r.pc \in {"verify", "account"} => Redeemed(c) /\ r.flow = callback[c].flow
  PROVE  OidcTypes' /\ OidcInv'
<1>1. callback \in [Callbacks -> CallbackType]
  BY DEF Types, OidcTypes
<1>2. callback' \in [Callbacks -> CallbackType] /\ callback'[c] = r
      /\ \A d \in Callbacks \ {c} : callback'[d] = callback[d]
  BY <1>1
<1>3. OidcTypes'
  BY <1>2 DEF Types, OidcTypes
<1>4. CookieInv'
  BY DEF OidcInv, CookieInv
<1>5. BoundInv'
  <2>1. ASSUME NEW d \in Callbacks, callback'[d].pc # "idle"
        PROVE  callback'[d].flow \in 1..Len(flows) /\ flows[callback'[d].flow].browser = callback'[d].browser
    <3>1. CASE d = c
      BY <1>2, <2>1, <3>1
    <3>2. CASE d # c
      BY <1>2, <2>1, <3>2 DEF OidcInv, BoundInv
    <3> QED
      BY <3>1, <3>2
  <2> QED
    BY <2>1 DEF OidcInv, BoundInv
<1>6. \A d \in Callbacks : Redeemed(d)' => Redeemed(d) /\ callback'[d].flow = callback[d].flow
  <2>1. ASSUME NEW d \in Callbacks, Redeemed(d)'
        PROVE  Redeemed(d) /\ callback'[d].flow = callback[d].flow
    <3>1. callback'[d].pc \in {"verify", "account"}
      BY <2>1 DEF Redeemed
    <3>2. CASE d = c
      BY <1>2, <3>1, <3>2
    <3>3. CASE d # c
      BY <1>2, <3>1, <3>3 DEF Redeemed
    <3> QED
      BY <3>2, <3>3
  <2> QED
    BY <2>1
<1>7. SpentInv'
  <2>1. ASSUME NEW d \in Callbacks, Redeemed(d)'
        PROVE  codes'[callback'[d].flow] = "spent" /\ \A s \in seats' : s.flow # callback'[d].flow
    <3>1. Redeemed(d) /\ callback'[d].flow = callback[d].flow
      BY <1>6, <2>1
    <3>2. codes[callback[d].flow] = "spent" /\ \A s \in seats : s.flow # callback[d].flow
      BY <3>1 DEF OidcInv, SpentInv
    <3> QED
      BY <3>1, <3>2
  <2>2. ASSUME NEW d \in Callbacks, NEW e \in Callbacks,
               Redeemed(d)', Redeemed(e)', callback'[d].flow = callback'[e].flow
        PROVE  d = e
    <3>1. Redeemed(d) /\ Redeemed(e) /\ callback[d].flow = callback[e].flow
      BY <1>6, <2>2
    <3> QED
      BY <3>1 DEF OidcInv, SpentInv
  <2>3. /\ \A s \in seats' : codes'[s.flow] = "spent"
        /\ \A s, t \in seats' : s.flow = t.flow => s = t
    BY DEF OidcInv, SpentInv
  <2> QED
    BY <2>1, <2>2, <2>3 DEF SpentInv
<1> QED
  BY <1>3, <1>4, <1>5, <1>7 DEF OidcInv

\* What is known of a callback at work.
LEMMA CallbackFacts ==
  ASSUME Types, OidcInv, NEW c \in Callbacks
  PROVE  /\ callback[c].browser \in Browsers \cup {NoOne} /\ callback[c].flow \in Nat
         /\ callback[c].nonce \in Nat /\ callback[c].jwks \in SUBSET Nat /\ callback[c].signed \in Nat
         /\ kid \in Nat /\ {kid} \in SUBSET Nat /\ 0 \in Nat /\ {} \in SUBSET Nat
         /\ callback[c].pc # "idle" =>
              callback[c].flow \in 1..Len(flows) /\ flows[callback[c].flow].browser = callback[c].browser
<1>1. callback[c] \in CallbackType /\ kid \in Nat
  BY DEF Types, OidcTypes
<1>2. 0 \in Nat
  BY SMT
<1> QED
  BY <1>1, <1>2 DEF CallbackType, OidcInv, BoundInv

\* The callback is given up.
LEMMA AbortOidc ==
  ASSUME Types, OidcInv, NEW c \in Callbacks, Abort(c), UNCHANGED <<jar, flows, codes, kid, seats>>
  PROVE  OidcTypes' /\ OidcInv'
BY IdleCallbackFields, CallbackMoves DEF Abort

\* The token in the cookie of a browser that returns with login f.
LEMMA ReturnsWithItsLogin ==
  ASSUME Types, OidcInv, NEW b \in Browsers, NEW token \in jar[b], NEW f, SameState(token, random_binding(f))
  PROVE  /\ f \in 1..Len(flows) /\ flows[f].browser = b /\ token.nonce = f
         /\ token.exp = flows[f].issued + StateTtl
         /\ \A h \in 1..Len(flows) : flows[h].browser = b => h <= f
<1>1. PICK g \in 1..Len(flows) :
        /\ token = issue_oidc_state(g, g, flows[g].issued)
        /\ flows[g].browser = b
        /\ \A h \in 1..Len(flows) : flows[h].browser = b => h <= g
  BY DEF OidcInv, CookieInv
<1>2. token.sub = g /\ token.nonce = g /\ token.exp = flows[g].issued + StateTtl
  BY SMT, <1>1 DEF issue_oidc_state, JwtClaims
<1>3. f = g
  BY <1>2 DEF SameState, random_binding
<1> QED
  BY <1>1, <1>2, <1>3

\* A redirect opens in a browser.
LEMMA ReturnOidc ==
  ASSUME Types, OidcInv, NEW c \in Callbacks, NEW b \in Browsers, NEW f \in 1..MaxFlows, oidc_callback(c, b, f)
  PROVE  OidcTypes' /\ OidcInv'
<1>1. PICK token \in jar[b] :
        /\ SameState(token, random_binding(f))
        /\ callback' = [callback EXCEPT ![c] = Callback("discover", b, f, token.nonce, {}, 0)]
  BY DEF oidc_callback
<1>2. f \in 1..Len(flows) /\ flows[f].browser = b /\ token.nonce = f /\ f \in Nat
  <2>1. f \in 1..Len(flows) /\ flows[f].browser = b /\ token.nonce = f
    BY SMT, <1>1, ReturnsWithItsLogin
  <2> QED
    BY <2>1, FlowFacts
<1>3. PICK r : r = Callback("discover", b, f, token.nonce, {}, 0)
  OBVIOUS
<1>4. r \in CallbackType /\ r.pc = "discover" /\ r.browser = b /\ r.flow = f
  BY SMT, <1>2, <1>3, CallbackFields
<1>5. UNCHANGED <<jar, flows, codes, kid, seats>> /\ callback' = [callback EXCEPT ![c] = r]
  BY <1>1, <1>3 DEF oidc_callback, Stay
<1> QED
  BY <1>2, <1>4, <1>5, CallbackMoves

\* The provider's keys arrive.
LEMMA BuildOidc ==
  ASSUME Types, OidcInv, NEW c \in Callbacks, build_client(c)
  PROVE  OidcTypes' /\ OidcInv'
<1>1. PICK r : r = Callback("exchange", callback[c].browser, callback[c].flow, callback[c].nonce,
                            {kid}, callback[c].signed)
  OBVIOUS
<1>2. r \in CallbackType /\ r.pc = "exchange" /\ r.browser = callback[c].browser /\ r.flow = callback[c].flow
  BY SMT, <1>1, CallbackFacts, CallbackFields
<1>3. /\ UNCHANGED <<jar, flows, codes, kid, seats>> /\ callback' = [callback EXCEPT ![c] = r]
      /\ callback[c].pc # "idle"
  BY <1>1 DEF build_client, Stay, fetch
<1> QED
  BY <1>2, <1>3, CallbackFacts, CallbackMoves

\* The ID token is verified, or not.
LEMMA VerifyOidc ==
  ASSUME Types, OidcInv, NEW c \in Callbacks, verify_id_token(c)
  PROVE  OidcTypes' /\ OidcInv'
<1>1. PICK r : r = Callback("account", callback[c].browser, callback[c].flow, 0, {}, 0)
  OBVIOUS
<1>2. r \in CallbackType /\ r.pc = "account" /\ r.browser = callback[c].browser /\ r.flow = callback[c].flow
  BY SMT, <1>1, CallbackFacts, CallbackFields
<1>3. /\ UNCHANGED <<jar, flows, codes, kid, seats>> /\ callback[c].pc = "verify"
      /\ Abort(c) \/ callback' = [callback EXCEPT ![c] = r]
  BY <1>1 DEF verify_id_token, Stay
<1>4. CASE Abort(c)
  BY <1>3, <1>4, AbortOidc
<1>5. CASE callback' = [callback EXCEPT ![c] = r]
  <2>1. Redeemed(c) /\ callback[c].pc # "idle"
    BY <1>3 DEF Redeemed
  <2> QED
    BY <1>2, <1>3, <1>5, <2>1, CallbackFacts, CallbackMoves
<1> QED
  BY <1>3, <1>4, <1>5

\* A code is presented: the provider honours it once.
LEMMA ExchangeOidc ==
  ASSUME Types, OidcInv, NEW c \in Callbacks, exchange_code(c)
  PROVE  OidcTypes' /\ OidcInv'
<1>0. PICK f, r : /\ f = callback[c].flow
                  /\ r = Callback("verify", callback[c].browser, f, callback[c].nonce, callback[c].jwks, kid)
  OBVIOUS
<1>1. /\ callback[c].pc = "exchange" /\ codes' = [codes EXCEPT ![f] = "spent"]
      /\ UNCHANGED <<jar, flows, kid, seats>>
      /\ IF codes[f] = "granted" THEN callback' = [callback EXCEPT ![c] = r] ELSE Abort(c)
  BY <1>0 DEF exchange_code, Stay, StatusOk
<1>2. /\ callback \in [Callbacks -> CallbackType]
      /\ codes \in [1..MaxFlows -> {"none", "granted", "spent"}]
  BY DEF Types, OidcTypes
<1>3. f \in 1..Len(flows) /\ flows[f].browser = callback[c].browser /\ f \in 1..MaxFlows
  BY <1>0, <1>1, CallbackFacts, FlowFacts
<1>4. r \in CallbackType /\ r.pc = "verify" /\ r.browser = callback[c].browser /\ r.flow = f
  BY SMT, <1>0, CallbackFacts, CallbackFields
<1>5. /\ codes' \in [1..MaxFlows -> {"none", "granted", "spent"}]
      /\ codes'[f] = "spent" /\ \A g \in 1..MaxFlows : codes[g] = "spent" => codes'[g] = "spent"
  BY <1>1, <1>2, <1>3
<1>6. /\ callback' \in [Callbacks -> CallbackType]
      /\ \A d \in Callbacks \ {c} : callback'[d] = callback[d]
      /\ \/ codes[f] = "granted" /\ callback'[c] = r
         \/ callback'[c].pc = "idle"
  BY <1>1, <1>2, <1>4, IdleCallbackFields DEF Abort
<1>7. OidcTypes'
  BY <1>1, <1>5, <1>6 DEF Types, OidcTypes
<1>8. CookieInv'
  BY <1>1 DEF OidcInv, CookieInv
<1>9. BoundInv'
  <2>1. ASSUME NEW d \in Callbacks, callback'[d].pc # "idle"
        PROVE  callback'[d].flow \in 1..Len(flows) /\ flows[callback'[d].flow].browser = callback'[d].browser
    <3>1. CASE d = c
      BY <1>3, <1>4, <1>6, <2>1, <3>1
    <3>2. CASE d # c
      BY <1>6, <2>1, <3>2 DEF OidcInv, BoundInv
    <3> QED
      BY <3>1, <3>2
  <2> QED
    BY <1>1, <2>1 DEF OidcInv, BoundInv
<1>10. \A d \in Callbacks :
         Redeemed(d)' => \/ d = c /\ callback'[d].flow = f /\ codes[f] = "granted"
                         \/ d # c /\ Redeemed(d) /\ callback'[d].flow = callback[d].flow
  <2>1. ASSUME NEW d \in Callbacks, callback'[d].pc \in {"verify", "account"}
        PROVE  \/ d = c /\ callback'[d].flow = f /\ codes[f] = "granted"
               \/ d # c /\ callback[d].pc \in {"verify", "account"} /\ callback'[d].flow = callback[d].flow
    <3>1. CASE d = c
      BY <1>4, <1>6, <2>1, <3>1
    <3>2. CASE d # c
      BY <1>6, <2>1, <3>2
    <3> QED
      BY <3>1, <3>2
  <2> QED
    BY <2>1 DEF Redeemed
<1>11. /\ \A d \in Callbacks : Redeemed(d) => codes[callback[d].flow] = "spent" /\ callback[d].flow \in 1..MaxFlows
       /\ \A s \in seats : codes[s.flow] = "spent" /\ s.flow \in 1..MaxFlows
  <2>1. \A d \in Callbacks : Redeemed(d) => callback[d].flow \in 1..MaxFlows
    BY FlowFacts DEF OidcInv, BoundInv, Redeemed
  <2>2. \A s \in seats : s.flow \in 1..MaxFlows
    BY FlowFacts DEF OidcInv, BoundInv
  <2> QED
    BY <2>1, <2>2 DEF OidcInv, SpentInv
<1>12. SpentInv'
  <2>1. ASSUME NEW d \in Callbacks, Redeemed(d)'
        PROVE  codes'[callback'[d].flow] = "spent" /\ \A s \in seats : s.flow # callback'[d].flow
    <3>1. CASE d = c /\ callback'[d].flow = f /\ codes[f] = "granted"
      BY <1>5, <1>11, <3>1
    <3>2. CASE d # c /\ Redeemed(d) /\ callback'[d].flow = callback[d].flow
      <4>1. \A s \in seats : s.flow # callback[d].flow
        BY <3>2 DEF OidcInv, SpentInv
      <4> QED
        BY <1>5, <1>11, <3>2, <4>1
    <3> QED
      BY <1>10, <2>1, <3>1, <3>2
  <2>2. ASSUME NEW d \in Callbacks, NEW e \in Callbacks,
               Redeemed(d)', Redeemed(e)', callback'[d].flow = callback'[e].flow
        PROVE  d = e
    <3>1. CASE d # c /\ e # c
      <4>1. Redeemed(d) /\ Redeemed(e) /\ callback[d].flow = callback[e].flow
        BY <1>10, <2>2, <3>1
      <4> QED
        BY <4>1 DEF OidcInv, SpentInv
    <3>2. CASE d = c \/ e = c
      BY <1>10, <1>11, <2>2, <3>2
    <3> QED
      BY <3>1, <3>2
  <2>3. \A s \in seats : codes'[s.flow] = "spent"
    BY <1>5, <1>11
  <2>4. \A s, t \in seats : s.flow = t.flow => s = t
    BY DEF OidcInv, SpentInv
  <2> QED
    BY <1>1, <2>1, <2>2, <2>3, <2>4 DEF SpentInv
<1> QED
  BY <1>7, <1>8, <1>9, <1>12 DEF OidcInv

\* A session is handed out.
LEMMA CompleteOidc ==
  ASSUME Types, OidcInv, NEW c \in Callbacks, Complete(c)
  PROVE  OidcTypes' /\ OidcInv'
<1>0. PICK b, f, s :
        /\ b = callback[c].browser /\ f = callback[c].flow
        /\ s = Seat(b, f, c, issue_session(flows[f].browser, {}, f, clock))
  OBVIOUS
<1>1. /\ callback[c].pc = "account" /\ seats' = seats \cup {s} /\ jar' = [jar EXCEPT ![b] = {}]
      /\ callback' = [callback EXCEPT ![c] = IdleCallback] /\ UNCHANGED <<flows, codes, kid>>
  BY <1>0 DEF Complete, Abort, NoCookie
<1>2. f \in 1..Len(flows) /\ flows[f].browser = b /\ Redeemed(c)
  BY <1>0, <1>1, CallbackFacts DEF Redeemed
<1>3. s.flow = f /\ s.token.sub = s.browser
  BY SMT, <1>0, <1>2 DEF Seat, issue_session, JwtClaims
<1>4. /\ jar \in [Browsers -> SUBSET StateTokens] /\ callback \in [Callbacks -> CallbackType]
  BY DEF Types, OidcTypes
<1>5. /\ jar' \in [Browsers -> SUBSET StateTokens] /\ \A d \in Browsers : jar'[d] \subseteq jar[d]
  BY <1>1, <1>4
<1>6. /\ callback' \in [Callbacks -> CallbackType] /\ callback'[c].pc = "idle"
      /\ \A d \in Callbacks \ {c} : callback'[d] = callback[d]
  BY <1>1, <1>4, IdleCallbackFields
<1>7. OidcTypes'
  BY <1>1, <1>5, <1>6 DEF Types, OidcTypes
<1>8. CookieInv'
  BY <1>1, <1>5, CookiesGo DEF OidcInv
<1>9. BoundInv'
  <2>1. \A d \in Callbacks : callback'[d].pc # "idle" => callback'[d] = callback[d]
    BY <1>6
  <2>2. \A t \in seats' : t.flow \in 1..Len(flows) /\ t.token.sub = t.browser
    BY <1>1, <1>2, <1>3 DEF OidcInv, BoundInv
  <2> QED
    BY <1>1, <2>1, <2>2 DEF OidcInv, BoundInv
<1>10. \A d \in Callbacks : Redeemed(d)' => d # c /\ Redeemed(d) /\ callback'[d].flow = callback[d].flow
  <2>1. ASSUME NEW d \in Callbacks, callback'[d].pc \in {"verify", "account"}
        PROVE  d # c /\ callback[d].pc \in {"verify", "account"} /\ callback'[d].flow = callback[d].flow
    BY <1>6, <2>1
  <2> QED
    BY <2>1 DEF Redeemed
<1>11. SpentInv'
  <2>1. codes[f] = "spent" /\ \A t \in seats : t.flow # f
    BY <1>0, <1>2 DEF OidcInv, SpentInv
  <2>2. ASSUME NEW d \in Callbacks, Redeemed(d)'
        PROVE  codes[callback'[d].flow] = "spent" /\ \A t \in seats' : t.flow # callback'[d].flow
    <3>1. d # c /\ Redeemed(d) /\ callback'[d].flow = callback[d].flow
      BY <1>10, <2>2
    <3>2. codes[callback[d].flow] = "spent" /\ callback[d].flow # f /\ \A t \in seats : t.flow # callback[d].flow
      BY <1>0, <1>2, <3>1 DEF OidcInv, SpentInv
    <3> QED
      BY <1>1, <1>3, <3>1, <3>2
  <2>3. ASSUME NEW d \in Callbacks, NEW e \in Callbacks,
               Redeemed(d)', Redeemed(e)', callback'[d].flow = callback'[e].flow
        PROVE  d = e
    <3>1. Redeemed(d) /\ Redeemed(e) /\ callback[d].flow = callback[e].flow
      BY <1>10, <2>3
    <3> QED
      BY <3>1 DEF OidcInv, SpentInv
  <2>4. \A t \in seats' : codes[t.flow] = "spent"
    BY <1>1, <1>3, <2>1 DEF OidcInv, SpentInv
  <2>5. ASSUME NEW t \in seats', NEW u \in seats', t.flow = u.flow PROVE t = u
    <3>1. CASE t \in seats /\ u \in seats
      BY <2>5, <3>1 DEF OidcInv, SpentInv
    <3>2. CASE ~(t \in seats /\ u \in seats)
      BY <1>1, <1>3, <2>1, <2>5, <3>2
    <3> QED
      BY <3>1, <3>2
  <2> QED
    BY <1>1, <2>2, <2>3, <2>4, <2>5 DEF SpentInv
<1> QED
  BY <1>7, <1>8, <1>9, <1>11 DEF OidcInv

-----------------------------------------------------------------------------
(* The invariant.                                                          *)

\* No attempt, no login.
LEMMA InitInv == Init => Inv
<1> SUFFICES ASSUME Init PROVE Inv
  OBVIOUS
<1>1. site \in Sites /\ clock = 0 /\ clock \in 0..MaxClock
  BY SMT, AuthEntryAssumption DEF Init
<1>2. DOMAIN windows = {} /\ windows \in [DOMAIN windows -> WindowType]
  BY DEF Init
<1>3. admitted \in [Keys -> [0..MaxClock -> Nat]] /\ \A k \in Keys : Past(k) = [t \in Int |-> 0]
  <2>1. 0 \in Nat
    BY SMT
  <2>2. admitted = [k \in Keys |-> [t \in 0..MaxClock |-> 0]]
    BY DEF Init
  <2>3. admitted \in [Keys -> [0..MaxClock -> Nat]]
    BY <2>1, <2>2
  <2>4. ASSUME NEW k \in Keys, NEW t \in Int PROVE Upto(k, t) = 0
    <3>1. CASE t < 0
      BY <3>1 DEF Upto
    <3>2. CASE ~(t < 0)
      <4>1. (IF t > MaxClock THEN MaxClock ELSE t) \in 0..MaxClock
        BY SMT, <3>2, AuthEntryAssumption
      <4> QED
        BY <2>2, <3>2, <4>1 DEF Upto
    <3> QED
      BY <3>1, <3>2
  <2> QED
    BY <2>3, <2>4 DEF Past
<1>4. LimiterTypes
  <2>1. \A c \in Callers : caller[c] = IdleCaller
    BY DEF Init
  <2>2. caller \in [Callers -> CallerType]
    BY IdleCallerFields DEF Init
  <2>3. 0 <= clock
    BY SMT, <1>1
  <2> QED
    BY <1>2, <1>3, <2>1, <2>2, <2>3, IdleCallerFields DEF LimiterTypes, Init
<1>5. OidcTypes
  <2>1. flows = <<>> /\ <<>> \in Seq(FlowType) /\ Len(<<>>) <= MaxFlows /\ kid \in Nat
    BY SMT, AuthEntryAssumption DEF Init
  <2>2. callback \in [Callbacks -> CallbackType]
    BY IdleCallbackFields DEF Init
  <2> QED
    BY <2>1, <2>2 DEF OidcTypes, Init, NoCookie
<1>6. OidcInv
  BY IdleCallbackFields DEF Init, OidcInv, CookieInv, BoundInv, SpentInv, Redeemed, NoCookie
<1>7. GrowthInv
  <2>1. Grows([t \in Int |-> 0], 0)
    BY SMT DEF Grows
  <2> QED
    BY <1>1, <1>3, <2>1 DEF GrowthInv
<1>8. BudgetInv
  <2>1. Rolling([t \in Int |-> 0]) /\ Free([t \in Int |-> 0], 0)
    BY SMT, LimiterAssumption DEF Rolling, Free
  <2> QED
    BY <1>1, <1>2, <1>3, <2>1 DEF BudgetInv
<1> QED
  BY <1>1, <1>4, <1>5, <1>6, <1>7, <1>8 DEF Inv, Types

\* A step of the logins leaves the limiter and the time alone.
LEMMA OidcStep ==
  ASSUME Inv, UNCHANGED <<site, clock, limiter>>, OidcTypes' /\ OidcInv'
  PROVE  Inv'
<1>1. LimiterTypes' /\ site' \in Sites /\ clock' \in 0..MaxClock
  BY LimiterTypesFrame DEF Inv, Types
<1>2. GrowthInv' /\ BudgetInv'
  BY LimiterFrame DEF Inv, limiter
<1> QED
  BY <1>1, <1>2 DEF Inv, Types

\* A step of the limiter leaves the logins alone.
LEMMA LimiterStep ==
  ASSUME Inv, UNCHANGED <<site, oidc>>, clock' \in 0..MaxClock, LimiterTypes', GrowthInv' /\ BudgetInv'
  PROVE  Inv'
BY OidcFrame DEF Inv, Types

\* Every step keeps it.
LEMMA NextInv == Inv /\ [Next]_vars => Inv'
<1> SUFFICES ASSUME Inv, [Next]_vars PROVE Inv'
  OBVIOUS
<1>0. /\ Types /\ OidcInv /\ GrowthInv /\ BudgetInv
      /\ site \in Sites /\ clock \in 0..MaxClock
  BY DEF Inv, Types
<1>1. CASE Tick
  <2>1. clock' \in 0..MaxClock /\ clock' = clock + 1 /\ \A n \in Nat : n <= clock => n <= clock + 1
    BY SMT, <1>0, <1>1, AuthEntryAssumption DEF Tick
  <2>2. LimiterTypes'
    <3>1. \A c \in Callers : caller[c].now \in Nat /\ caller[c].now <= clock
      BY <1>0 DEF Types, LimiterTypes, CallerType
    <3>2. \A c \in Callers : caller[c].now <= clock'
      BY <2>1, <3>1
    <3> QED
      BY <1>0, <1>1, <3>2 DEF Types, LimiterTypes, Tick, limiter
  <2>3. UNCHANGED <<site, oidc>>
    BY <1>1 DEF Tick
  <2> QED
    BY <1>0, <1>1, <2>1, <2>2, <2>3, TickBudget, LimiterStep
<1>2. CASE RotateKeys
  BY <1>0, <1>2, RotateOidc, OidcStep DEF RotateKeys
<1>3. ASSUME NEW c \in Callers, NEW ip \in Ips, NEW key \in Keys, NEW b \in Browsers \cup {NoOne},
             Arrive(c, ip, key, b)
      PROVE  Inv'
  BY <1>0, <1>3, ArriveTypes, LimiterFrame, LimiterStep
<1>4. ASSUME NEW c \in Callers, record(c) PROVE Inv'
  <2>1. clock' = clock /\ site' = site /\ oidc' = oidc
    BY <1>0, <1>4, RecordFields
  <2> QED
    BY <1>0, <1>4, <2>1, RecordTypes, RecordBudget, LimiterStep
<1>5. ASSUME NEW c \in Callers, caller' = [caller EXCEPT ![c] = IdleCaller],
             UNCHANGED <<site, clock, windows, admitted, late>>
      PROVE  LimiterTypes' /\ GrowthInv' /\ BudgetInv' /\ site' = site /\ clock' = clock
  BY <1>0, <1>5, CallerLeaves, LimiterFrame
<1>6. ASSUME NEW c \in Callers, Refused(c) \/ StartFails(c) PROVE Inv'
  <2>1. /\ caller' = [caller EXCEPT ![c] = IdleCaller]
        /\ UNCHANGED <<site, clock, windows, admitted, late, oidc>>
    BY <1>6 DEF Refused, StartFails
  <2> QED
    BY <1>0, <1>5, <2>1, LimiterStep
<1>7. ASSUME NEW c \in Callers, Start(c) PROVE Inv'
  <2>1. /\ caller' = [caller EXCEPT ![c] = IdleCaller]
        /\ UNCHANGED <<site, clock, windows, admitted, late>>
    BY <1>7 DEF Start
  <2>2. LimiterTypes' /\ GrowthInv' /\ BudgetInv' /\ site' = site /\ clock' = clock
    BY <1>5, <2>1
  <2>3. OidcTypes' /\ OidcInv'
    BY <1>0, <1>7, StartOidc
  <2> QED
    BY <1>0, <2>2, <2>3 DEF Inv, Types
<1>8. ASSUME NEW f \in 1..MaxFlows, Consent(f) PROVE Inv'
  BY <1>0, <1>8, ConsentOidc, OidcStep DEF Consent
<1>9. ASSUME NEW b \in Browsers, CookieExpires(b) PROVE Inv'
  BY <1>0, <1>9, ExpireOidc, OidcStep DEF CookieExpires
<1>10. ASSUME NEW c \in Callbacks, NEW b \in Browsers, NEW f \in 1..MaxFlows, oidc_callback(c, b, f) PROVE Inv'
  BY <1>0, <1>10, ReturnOidc, OidcStep DEF oidc_callback, Stay
<1>11. ASSUME NEW c \in Callbacks, build_client(c) PROVE Inv'
  BY <1>0, <1>11, BuildOidc, OidcStep DEF build_client, Stay
<1>12. ASSUME NEW c \in Callbacks, exchange_code(c) PROVE Inv'
  BY <1>0, <1>12, ExchangeOidc, OidcStep DEF exchange_code, Stay
<1>13. ASSUME NEW c \in Callbacks, verify_id_token(c) PROVE Inv'
  BY <1>0, <1>13, VerifyOidc, OidcStep DEF verify_id_token, Stay
<1>14. ASSUME NEW c \in Callbacks, CallbackFails(c) PROVE Inv'
  BY <1>0, <1>14, AbortOidc, OidcStep DEF CallbackFails, Stay
<1>15. ASSUME NEW c \in Callbacks, Complete(c) PROVE Inv'
  BY <1>0, <1>15, CompleteOidc, OidcStep DEF Complete
<1>16. CASE UNCHANGED vars
  <2>1. UNCHANGED <<site, clock, limiter>> /\ UNCHANGED oidc
    BY <1>16 DEF vars
  <2> QED
    BY <1>0, <2>1, OidcFrame, OidcStep
<1>17. ASSUME NEW c \in Callers, NEW ip \in Ips,
              (\E a \in Accounts : login(c, ip, a)) \/ (\E b \in Browsers : oidc_login(c, ip, b))
       PROVE  Inv'
  BY <1>3, <1>17 DEF login, oidc_login, Keys
<1> QED
  BY <1>1, <1>2, <1>4, <1>6, <1>7, <1>8, <1>9, <1>10, <1>11, <1>12, <1>13, <1>14, <1>15, <1>16, <1>17 DEF Next

\* The inductive invariant: the types, the bindings of every login, and the budget
\* of every key with the shape of its history.
THEOREM Invariance == Spec => []Inv
<1>1. Init => Inv
  BY InitInv
<1>2. Inv /\ [Next]_vars => Inv'
  BY NextInv
<1> QED
  BY <1>1, <1>2, PTL DEF Spec

-----------------------------------------------------------------------------
(* What it gives.                                                          *)

\* A key gets at most two windows' worth of attempts through in any span of one
\* window, for any window length, limit, number of callers and sweep threshold.
THEOREM BudgetHolds == Spec => []RollingBudget
<1>1. Inv => RollingBudget
  <2> SUFFICES ASSUME Inv, ~late, max_attempts > 0, NEW k \in Keys, NEW t \in 0..MaxClock
               PROVE  Upto(k, t + window - 1) - Upto(k, t - 1) <= 2 * max_attempts
    BY DEF RollingBudget
  <2>1. t \in Int /\ t + window - 1 \in Int /\ t - 1 \in Int /\ (window = 0 => t + window - 1 = t - 1)
    BY SMT, LimiterAssumption, AuthEntryAssumption
  <2>2. /\ Past(k)[t + window - 1] = Upto(k, t + window - 1)
        /\ Past(k)[t - 1] = Upto(k, t - 1)
    BY <2>1 DEF Past
  <2>3. CASE window > 0
    <3>1. Rolling(Past(k))
      BY <2>3 DEF Inv, BudgetInv
    <3> QED
      BY <2>1, <2>2, <3>1 DEF Rolling
  <2>4. CASE window = 0
    <3>1. Past(k)[t - 1] \in Nat
      BY <2>1 DEF Inv, GrowthInv, Grows
    <3> QED
      BY SMT, <2>1, <2>2, <2>4, <3>1, LimiterAssumption
  <2> QED
    BY SMT, <2>3, <2>4, LimiterAssumption
<1> QED
  BY <1>1, Invariance, PTL

\* Nobody ends up in somebody else's account.
THEOREM OwnAccount == Spec => []OwnAccountOnly
<1>1. Inv => OwnAccountOnly
  BY DEF Inv, OidcInv, BoundInv, OwnAccountOnly
<1> QED
  BY <1>1, Invariance, PTL

\* A login is worth one session.
THEOREM OneSession == Spec => []OneSessionPerLogin
<1>1. Inv => OneSessionPerLogin
  BY DEF Inv, OidcInv, SpentInv, OneSessionPerLogin
<1> QED
  BY <1>1, Invariance, PTL

\* The steps that touch a callback which was idle: the redirect of a login opens.
LEMMA WhoOpens ==
  ASSUME Inv, [Next]_vars, NEW c \in Callbacks, callback[c].pc = "idle", callback'[c].pc # "idle"
  PROVE  \E b \in Browsers, f \in 1..MaxFlows : oidc_callback(c, b, f)
<1>0. callback \in [Callbacks -> CallbackType]
  BY DEF Inv, Types, OidcTypes
<1>1. callback' # callback
  OBVIOUS
<1>2. ASSUME NEW d \in Callbacks, NEW r, callback' = [callback EXCEPT ![d] = r]
      PROVE  d = c
  <2>1. d # c => callback'[c] = callback[c]
    BY <1>0, <1>2
  <2> QED
    BY <2>1
<1>3. ASSUME NEW d \in Callbacks, Abort(d) PROVE FALSE
  <2>1. d = c
    BY <1>2, <1>3 DEF Abort
  <2>2. callback'[c] = IdleCallback
    BY <1>0, <1>3, <2>1 DEF Abort
  <2> QED
    BY <2>2, IdleCallbackFields
<1>4. ~UNCHANGED vars
  BY <1>1 DEF vars, oidc
<1>5. ~Tick /\ ~RotateKeys
  BY <1>1 DEF Tick, RotateKeys, oidc
<1>6. ASSUME NEW d \in Callers
      PROVE  /\ \A ip \in Ips, a \in Accounts : ~login(d, ip, a)
             /\ \A ip \in Ips, b \in Browsers : ~oidc_login(d, ip, b)
             /\ ~record(d) /\ ~Refused(d) /\ ~Start(d) /\ ~StartFails(d)
  BY <1>1 DEF login, oidc_login, Arrive, record, Refused, Start, StartFails, oidc
<1>7. /\ \A f \in 1..MaxFlows : ~Consent(f)
      /\ \A b \in Browsers : ~CookieExpires(b)
  BY <1>1 DEF Consent, CookieExpires
<1>8. ASSUME NEW d \in Callbacks, build_client(d) \/ exchange_code(d) \/ verify_id_token(d)
      PROVE  FALSE
  <2>1. PICK r : callback' = [callback EXCEPT ![d] = r]
    BY <1>3, <1>8 DEF build_client, exchange_code, verify_id_token
  <2> QED
    BY <1>2, <1>8, <2>1 DEF build_client, exchange_code, verify_id_token
<1>9. ASSUME NEW d \in Callbacks PROVE ~CallbackFails(d) /\ ~Complete(d)
  BY <1>3 DEF CallbackFails, Complete
<1>10. PICK d \in Callbacks : \E b \in Browsers, f \in 1..MaxFlows : oidc_callback(d, b, f)
  BY <1>4, <1>5, <1>6, <1>7, <1>8, <1>9 DEF Next
<1>11. d = c
  BY <1>2, <1>10 DEF oidc_callback
<1> QED
  BY <1>10, <1>11

\* Of the logins of a browser only the last one passes the state check, and only
\* while its state token lasts.
THEOREM LastLoginReturns == Spec => OnlyTheLastLoginReturns
<1>1. ASSUME Inv, [Next]_vars, NEW c \in Callbacks, callback[c].pc = "idle", callback'[c].pc # "idle"
      PROVE  /\ \A g \in DOMAIN flows : flows[g].browser = callback'[c].browser => g <= callback'[c].flow
             /\ clock <= flows[callback'[c].flow].issued + StateTtl + Leeway
  <2>1. PICK b \in Browsers, f \in 1..MaxFlows : oidc_callback(c, b, f)
    BY <1>1, WhoOpens
  <2>2. PICK token \in jar[b] :
          /\ verify_oidc_state(token, clock) /\ SameState(token, random_binding(f))
          /\ callback' = [callback EXCEPT ![c] = Callback("discover", b, f, token.nonce, {}, 0)]
    BY <2>1 DEF oidc_callback
  <2>3. callback'[c].browser = b /\ callback'[c].flow = f
    <3>1. callback'[c] = Callback("discover", b, f, token.nonce, {}, 0)
      BY <1>1, <2>2 DEF Inv, Types, OidcTypes
    <3> QED
      BY SMT, <3>1, CallbackFields
  <2>4. /\ token.exp = flows[f].issued + StateTtl
        /\ \A h \in 1..Len(flows) : flows[h].browser = b => h <= f
    <3>1. Types /\ OidcInv
      BY <1>1 DEF Inv
    <3>2. token.exp = flows[f].issued + StateTtl
      BY SMT, <2>2, <3>1, ReturnsWithItsLogin
    <3>3. ASSUME NEW h \in 1..Len(flows), flows[h].browser = b PROVE h <= f
      BY SMT, <2>2, <3>1, <3>3, ReturnsWithItsLogin
    <3> QED
      BY <3>2, <3>3
  <2>5. clock <= token.exp + Leeway
    BY <2>2 DEF verify_oidc_state, Decode
  <2>6. DOMAIN flows = 1..Len(flows)
    BY SMT, <1>1 DEF Inv, Types, OidcTypes
  <2> QED
    BY <2>3, <2>4, <2>5, <2>6
<1>2. Inv /\ [Next]_vars =>
        [\A c \in Callbacks :
           callback[c].pc = "idle" /\ callback'[c].pc # "idle" =>
             LET f == callback'[c].flow
             IN /\ \A g \in DOMAIN flows : flows[g].browser = callback'[c].browser => g <= f
                /\ clock <= flows[f].issued + StateTtl + Leeway]_vars
  BY <1>1
<1> QED
  BY <1>2, Invariance, PTL DEF Spec, OnlyTheLastLoginReturns

\* The steps that refuse a request: its attempt is counted.
LEMMA WhoRefuses ==
  ASSUME Inv, [Next]_vars, NEW c \in Callers, caller[c].pc = "stamped", caller'[c].pc = "refused"
  PROVE  record(c)
<1>0. caller \in [Callers -> CallerType]
  BY DEF Inv, Types, LimiterTypes
<1>1. caller' # caller
  OBVIOUS
<1>2. ASSUME NEW d \in Callers, NEW r, caller' = [caller EXCEPT ![d] = r]
      PROVE  d = c /\ r.pc = "refused"
  <2>1. d # c => caller'[c] = caller[c]
    BY <1>0, <1>2
  <2>2. caller'[d] = r
    BY <1>0, <1>2
  <2> QED
    BY <2>1, <2>2
<1>3. ~UNCHANGED vars /\ ~Tick /\ ~RotateKeys
  BY <1>1 DEF vars, Tick, RotateKeys, limiter
<1>4. ASSUME NEW d \in Callers, NEW ip, NEW key, NEW b, Arrive(d, ip, key, b) PROVE FALSE
  <2>1. Caller("stamped", clock, ip, key, b, NotBlocked).pc = "refused"
    BY <1>2, <1>4 DEF Arrive
  <2> QED
    BY <2>1 DEF Caller
<1>5. ASSUME NEW d \in Callers, Refused(d) \/ Start(d) \/ StartFails(d) PROVE FALSE
  BY <1>2, <1>5, IdleCallerFields DEF Refused, Start, StartFails
<1>6. /\ \A f \in 1..MaxFlows : ~Consent(f)
      /\ \A b \in Browsers : ~CookieExpires(b)
  BY <1>1 DEF Consent, CookieExpires, limiter
<1>7. ASSUME NEW d \in Callbacks
      PROVE  /\ \A b \in Browsers, f \in 1..MaxFlows : ~oidc_callback(d, b, f)
             /\ ~build_client(d) /\ ~exchange_code(d) /\ ~verify_id_token(d) /\ ~CallbackFails(d)
             /\ ~Complete(d)
  BY <1>1 DEF oidc_callback, build_client, exchange_code, verify_id_token, CallbackFails, Complete, Stay, limiter
<1>8. PICK d \in Callers : record(d)
  BY <1>3, <1>4, <1>5, <1>6, <1>7 DEF Next, login, oidc_login
<1>9. d = c
  BY <1>2, <1>8 DEF record
<1> QED
  BY <1>8, <1>9

\* Whole seconds lose less than one.
LEMMA SecondsRoundDown ==
  ASSUME NEW later \in Nat, NEW now \in Nat, NEW wait \in Nat, NEW n \in Int,
         n = (later - now) \div TicksPerSecond, wait >= n
  PROVE  later < now + (wait + 1) * TicksPerSecond
<1>1. TicksPerSecond \in Nat /\ TicksPerSecond > 0
  BY SMT, LimiterAssumption
<1>2. later - now < (n + 1) * TicksPerSecond
  BY SMT, <1>1
<1>3. (n + 1) * TicksPerSecond <= (wait + 1) * TicksPerSecond
  BY SMT, <1>1
<1> QED
  BY SMT, <1>1, <1>2, <1>3

\* A refused client that waits as it was told, and a second more, meets none of the
\* windows that refused it.
THEOREM RetryAfterSuffices == Spec => RetryAfterIsEnough
<1>1. ASSUME Inv, [Next]_vars, NEW c \in Callers, caller[c].pc = "stamped", caller'[c].pc = "refused",
             NEW k \in {caller[c].ip, caller[c].key}, k \in DOMAIN windows', windows'[k].count > max_attempts
      PROVE  windows'[k].reset_at < caller[c].now + (caller'[c].retry + 1) * TicksPerSecond
  <2>0. Types /\ record(c)
    BY <1>1, WhoRefuses DEF Inv
  <2>1. /\ caller[c].ip \in Ips /\ caller[c].key \in Keys /\ caller[c].now \in Nat
    BY <2>0, RecordFields
  <2>2. caller \in [Callers -> CallerType] /\ windows \in [DOMAIN windows -> WindowType]
    BY <2>0 DEF Types, LimiterTypes
  <2>3. ~Passes(c)
    <3>1. ASSUME NEW r, caller' = [caller EXCEPT ![c] = r] PROVE r.pc = "refused"
      BY <1>1, <2>2, <3>1
    <3>2. IdleCaller.pc # "refused"
      BY IdleCallerFields
    <3>3. Caller("start", caller[c].now, caller[c].ip, caller[c].key, caller[c].browser, NotBlocked).pc # "refused"
      BY DEF Caller
    <3> QED
      BY <3>1, <3>2, <3>3 DEF Passes
  <2>4. PICK keys, counted :
          /\ keys = {caller[c].ip, caller[c].key}
          /\ counted = Counted(windows, caller[c].now, keys)
          /\ windows' = Swept(counted, caller[c].now)
          /\ Exhausted(counted, keys) # {}
          /\ Wait(counted, caller[c].now, keys) \in Nat
          /\ Blocked(c, Wait(counted, caller[c].now, keys))
    BY <2>0, <2>3, RecordFields
  <2>5. PICK wait \in Nat : wait = Wait(counted, caller[c].now, keys)
    BY <2>4
  <2>6. caller'[c].retry = wait
    BY SMT, <2>2, <2>4, <2>5 DEF Blocked, Caller
  <2>7. DOMAIN counted = DOMAIN windows \cup keys /\ counted \in [DOMAIN counted -> WindowType]
    BY <2>1, <2>2, <2>4, CountedFields
  <2>8. counted[caller[c].ip] \in WindowType /\ counted[caller[c].key] \in WindowType
    BY <2>4, <2>7
  <2>9. windows'[k] = counted[k]
    BY <1>1, <2>4 DEF Swept
  <2>10. k \in Exhausted(counted, keys)
    BY <1>1, <2>4, <2>9 DEF Exhausted
  <2>11. PICK last : last = Latest(counted, keys)
    OBVIOUS
  <2>12. last \in keys /\ counted[last].reset_at >= counted[k].reset_at
    BY <2>4, <2>8, <2>10, <2>11, LatestFields DEF Exhausted
  <2>13. counted[last].reset_at \in Nat /\ counted[k].reset_at \in Nat
    BY <1>1, <2>4, <2>8, <2>12 DEF WindowType
  <2>14. PICK n \in Int : n = (counted[last].reset_at - caller[c].now) \div TicksPerSecond
    BY SMT, <2>1, <2>13, LimiterAssumption
  <2>15. wait >= n
    <3>1. wait = AtLeast(n, 1)
      BY <2>5, <2>11, <2>14, WaitIsForLatest DEF Seconds
    <3> QED
      BY <3>1, WaitBlocks
  <2>16. counted[last].reset_at < caller[c].now + (wait + 1) * TicksPerSecond
    BY <2>1, <2>13, <2>14, <2>15, SecondsRoundDown
  <2> QED
    BY SMT, <2>1, <2>6, <2>9, <2>12, <2>13, <2>16, LimiterAssumption
<1>2. Inv /\ [Next]_vars =>
        [\A c \in Callers :
           caller[c].pc = "stamped" /\ caller'[c].pc = "refused" =>
             \A k \in {caller[c].ip, caller[c].key} :
               k \in DOMAIN windows' /\ windows'[k].count > max_attempts =>
                 windows'[k].reset_at < caller[c].now + (caller'[c].retry + 1) * TicksPerSecond]_vars
  BY <1>1
<1> QED
  BY <1>2, Invariance, PTL DEF Spec, RetryAfterIsEnough

-----------------------------------------------------------------------------
(* Types: a key's window counts attempts that were made, and each one once. *)

\* The attempts of key k that are stamped and still to be counted, and the ones
\* in its window.
Pending(k) == {c \in Callers : caller[c].pc = "stamped" /\ k \in {caller[c].ip, caller[c].key}}
Tally(k) == IF k \in DOMAIN windows THEN windows[k].count ELSE 0

CountInv ==
  /\ attempts \in 0..site.attempts
  /\ \A k \in DOMAIN windows : windows[k].count >= 1
  /\ \A k \in Keys : Tally(k) + Cardinality(Pending(k)) <= attempts

\* The requests of a key are finitely many.
LEMMA PendingFinite ==
  ASSUME NEW k
  PROVE  IsFiniteSet(Pending(k)) /\ Cardinality(Pending(k)) \in Nat
<1>1. Pending(k) \in SUBSET Callers
  BY DEF Pending
<1>2. IsFiniteSet(Pending(k))
  BY <1>1, FS_Subset, AuthEntryAssumption
<1> QED
  BY <1>2, FS_CardinalityType

\* A tally is a number.
LEMMA TallyType ==
  ASSUME Types, NEW k
  PROVE  Tally(k) \in Nat
<1>1. k \in DOMAIN windows => windows[k].count \in Nat
  BY DEF Types, LimiterTypes, WindowType
<1> QED
  BY SMT, <1>1 DEF Tally

\* A request that moves on is no longer to be counted.
LEMMA PendingLess ==
  ASSUME Types, NEW c \in Callers, NEW r, r.pc # "stamped", caller' = [caller EXCEPT ![c] = r], NEW k
  PROVE  /\ Cardinality(Pending(k)') \in Nat
         /\ Cardinality(Pending(k)') =
              IF c \in Pending(k) THEN Cardinality(Pending(k)) - 1 ELSE Cardinality(Pending(k))
<1>1. \A d \in Callers : caller'[d] = IF d = c THEN r ELSE caller[d]
  BY DEF Types, LimiterTypes
<1>2. Pending(k)' = Pending(k) \ {c}
  BY <1>1 DEF Pending
<1>3. IsFiniteSet(Pending(k))
  BY PendingFinite
<1>4. /\ IsFiniteSet(Pending(k) \ {c})
      /\ Cardinality(Pending(k) \ {c}) =
           IF c \in Pending(k) THEN Cardinality(Pending(k)) - 1 ELSE Cardinality(Pending(k))
  BY <1>3, FS_RemoveElement
<1>5. Cardinality(Pending(k) \ {c}) \in Nat
  BY <1>4, FS_CardinalityType
<1> QED
  BY <1>2, <1>4, <1>5

\* A request that arrives is to be counted, as one attempt more.
LEMMA PendingMore ==
  ASSUME Types, NEW c \in Callers, NEW r, caller' = [caller EXCEPT ![c] = r], NEW k
  PROVE  Cardinality(Pending(k)') \in Nat /\ Cardinality(Pending(k)') <= Cardinality(Pending(k)) + 1
<1>1. \A d \in Callers : caller'[d] = IF d = c THEN r ELSE caller[d]
  BY DEF Types, LimiterTypes
<1>2. Pending(k)' \in SUBSET (Pending(k) \cup {c})
  BY <1>1 DEF Pending
<1>3. IsFiniteSet(Pending(k)) /\ Cardinality(Pending(k)) \in Nat
  BY PendingFinite
<1>4. /\ IsFiniteSet(Pending(k) \cup {c})
      /\ Cardinality(Pending(k) \cup {c}) =
           IF c \in Pending(k) THEN Cardinality(Pending(k)) ELSE Cardinality(Pending(k)) + 1
  BY <1>3, FS_AddElement
<1>5. IsFiniteSet(Pending(k)') /\ Cardinality(Pending(k)') <= Cardinality(Pending(k) \cup {c})
  BY <1>2, <1>4, FS_Subset
<1>6. Cardinality(Pending(k)') \in Nat
  BY <1>5, FS_CardinalityType
<1> QED
  BY SMT, <1>3, <1>4, <1>5, <1>6

\* A step that leaves the limiter's map and its requests alone.
LEMMA CountStays ==
  ASSUME CountInv, UNCHANGED <<site, windows, caller, attempts>>
  PROVE  CountInv'
BY DEF CountInv, Tally, Pending

\* A request that has been counted leaves.
LEMMA CountLeaves ==
  ASSUME Types, CountInv, NEW c \in Callers, caller' = [caller EXCEPT ![c] = IdleCaller],
         UNCHANGED <<site, windows, attempts>>
  PROVE  CountInv'
<1>1. IdleCaller.pc # "stamped"
  BY IdleCallerFields
<1>2. ASSUME NEW k \in Keys PROVE Tally(k)' + Cardinality(Pending(k)') <= attempts
  <2>1. /\ Cardinality(Pending(k)') \in Nat
        /\ Cardinality(Pending(k)') =
             IF c \in Pending(k) THEN Cardinality(Pending(k)) - 1 ELSE Cardinality(Pending(k))
    BY <1>1, PendingLess
  <2>2. Tally(k)' = Tally(k)
    BY DEF Tally
  <2>3. Tally(k) + Cardinality(Pending(k)) <= attempts
    BY DEF CountInv
  <2>4. /\ Tally(k) \in Nat /\ Cardinality(Pending(k)) \in Nat
        /\ site \in Sites /\ attempts \in 0..site.attempts
    BY TallyType, PendingFinite DEF CountInv, Types
  <2>5. attempts \in Nat
    BY SMT, <2>4, AuthEntryAssumption
  <2> QED
    BY SMT, <2>1, <2>2, <2>3, <2>4, <2>5
<1> QED
  BY <1>2 DEF CountInv

\* A request arrives: one attempt more is made, and one more is to be counted.
LEMMA CountArrive ==
  ASSUME Types, CountInv, NEW c \in Callers, NEW ip, NEW key, NEW b, Arrive(c, ip, key, b)
  PROVE  CountInv'
<1>1. PICK r : caller' = [caller EXCEPT ![c] = r]
  BY DEF Arrive
<1>2. UNCHANGED <<site, windows>> /\ attempts' = attempts + 1 /\ attempts < site.attempts
  BY DEF Arrive
<1>3. site \in Sites /\ attempts \in 0..site.attempts
  BY DEF CountInv, Types
<1>4. attempts \in Nat /\ attempts' \in 0..site.attempts
  BY SMT, <1>2, <1>3, AuthEntryAssumption
<1>5. ASSUME NEW k \in Keys PROVE Tally(k)' + Cardinality(Pending(k)') <= attempts'
  <2>1. Cardinality(Pending(k)') \in Nat /\ Cardinality(Pending(k)') <= Cardinality(Pending(k)) + 1
    BY <1>1, PendingMore
  <2>2. Tally(k)' = Tally(k)
    BY <1>2 DEF Tally
  <2>3. Tally(k) + Cardinality(Pending(k)) <= attempts
    BY DEF CountInv
  <2>4. Tally(k) \in Nat /\ Cardinality(Pending(k)) \in Nat
    BY TallyType, PendingFinite
  <2> QED
    BY SMT, <1>2, <1>4, <2>1, <2>2, <2>3, <2>4
<1> QED
  BY <1>2, <1>4, <1>5 DEF CountInv

\* A request that is counted is not stamped any more.
LEMMA RecordMovesOn ==
  ASSUME Types, NEW c \in Callers, record(c)
  PROVE  \E r : r.pc # "stamped" /\ caller' = [caller EXCEPT ![c] = r]
<1>1. Passes(c) \/ \E wait \in Nat : Blocked(c, wait)
  BY RecordFields
<1>2. CASE Passes(c) /\ caller[c].browser = NoOne
  BY <1>2, IdleCallerFields DEF Passes
<1>3. CASE Passes(c) /\ caller[c].browser # NoOne
  <2>1. PICK r : r = Caller("start", caller[c].now, caller[c].ip, caller[c].key, caller[c].browser, NotBlocked)
    OBVIOUS
  <2>2. r.pc = "start"
    BY SMT, <2>1, CallerFields
  <2> QED
    BY <1>3, <2>1, <2>2 DEF Passes
<1>4. ASSUME NEW wait \in Nat, Blocked(c, wait)
      PROVE  \E r : r.pc # "stamped" /\ caller' = [caller EXCEPT ![c] = r]
  <2>1. PICK r : r = Caller("refused", caller[c].now, caller[c].ip, caller[c].key, caller[c].browser, wait)
    OBVIOUS
  <2>2. r.pc = "refused"
    BY SMT, <2>1, CallerFields
  <2> QED
    BY <1>4, <2>1, <2>2 DEF Blocked
<1> QED
  BY <1>1, <1>2, <1>3, <1>4

\* An attempt adds at most one to the windows of its keys and nothing to others;
\* a window that is made has counted it.
LEMMA TallyGrows ==
  ASSUME Types, CountInv, NEW c \in Callers, record(c)
  PROVE  /\ \A k \in DOMAIN windows' : windows'[k].count >= 1
         /\ \A k \in Keys :
              /\ Tally(k)' \in Nat
              /\ Tally(k)' <= Tally(k) + IF k \in {caller[c].ip, caller[c].key} THEN 1 ELSE 0
<1>0. PICK keys, counted :
        /\ keys = {caller[c].ip, caller[c].key}
        /\ counted = Counted(windows, caller[c].now, keys)
        /\ windows' = windows \/ windows' = Swept(counted, caller[c].now)
  BY RecordFields
<1>1. caller[c].now \in Nat
  BY RecordFields
<1>2. windows \in [DOMAIN windows -> WindowType]
  BY DEF Types, LimiterTypes
<1>3. ASSUME NEW k PROVE Tally(k) \in Nat
  BY TallyType
<1>4. CASE windows' = windows
  <2>1. \A k : Tally(k)' = Tally(k)
    BY <1>4 DEF Tally
  <2>2. ASSUME NEW n \in Nat, NEW b \in {0, 1} PROVE n <= n + b
    BY SMT
  <2>3. ASSUME NEW k \in Keys
        PROVE  Tally(k) <= Tally(k) + IF k \in {caller[c].ip, caller[c].key} THEN 1 ELSE 0
    BY <1>3, <2>2
  <2> QED
    BY <1>3, <1>4, <2>1, <2>3 DEF CountInv
<1>5. CASE windows' = Swept(counted, caller[c].now)
  <2>1. /\ DOMAIN counted = DOMAIN windows \cup keys
        /\ counted \in [DOMAIN counted -> WindowType]
    BY <1>0, <1>1, <1>2, CountedFields
  <2>2. DOMAIN windows' \subseteq DOMAIN counted /\ \A k \in DOMAIN windows' : windows'[k] = counted[k]
    BY <1>1, <1>5, <2>1, SweptFields
  <2>3. ASSUME NEW k \in keys PROVE counted[k].count >= 1 /\ counted[k].count <= Tally(k) + 1
    <3>1. counted[k].count = Current(windows, k, caller[c].now).count + 1
      <4>1. PICK now \in Nat : now = caller[c].now
        BY <1>1
      <4>2. Counted(windows, now, keys)[k].count = Current(windows, k, now).count + 1
        BY SMT, <1>2, CountedKey
      <4> QED
        BY <1>0, <4>1, <4>2
    <3>2. Current(windows, k, caller[c].now).count \in {0, Tally(k)}
      <4>1. Window(0, caller[c].now + window).count = 0
        BY WindowFields
      <4> QED
        BY <4>1 DEF Current, Tally
    <3> QED
      BY SMT, <1>3, <3>1, <3>2
  <2>4. ASSUME NEW k \in DOMAIN windows \ keys PROVE counted[k] = windows[k]
    BY <1>0 DEF Counted
  <2>5. ASSUME NEW k \in DOMAIN windows' PROVE windows'[k].count >= 1
    BY <2>1, <2>2, <2>3, <2>4 DEF CountInv
  <2>6. ASSUME NEW k
        PROVE  /\ Tally(k)' \in Nat
               /\ Tally(k)' <= Tally(k) + IF k \in {caller[c].ip, caller[c].key} THEN 1 ELSE 0
    <3>1. CASE k \notin DOMAIN windows'
      <4>1. Tally(k)' = 0
        BY <3>1 DEF Tally
      <4> QED
        BY SMT, <1>3, <4>1
    <3>2. CASE k \in DOMAIN windows' /\ k \in keys
      <4>1. Tally(k)' = counted[k].count /\ counted[k] \in WindowType
        BY <2>1, <2>2, <3>2 DEF Tally
      <4>2. counted[k].count \in Nat
        BY <4>1 DEF WindowType
      <4>3. k \in {caller[c].ip, caller[c].key}
        BY <1>0, <3>2
      <4> QED
        BY SMT, <1>3, <2>3, <3>2, <4>1, <4>2, <4>3
    <3>3. CASE k \in DOMAIN windows' /\ k \notin keys
      <4>1. k \in DOMAIN windows /\ windows'[k] = windows[k]
        BY <2>1, <2>2, <2>4, <3>3
      <4>2. Tally(k)' = Tally(k)
        BY <3>3, <4>1 DEF Tally
      <4> QED
        BY SMT, <1>3, <4>2
    <3> QED
      BY <3>1, <3>2, <3>3
  <2> QED
    BY <2>5, <2>6
<1> QED
  BY <1>0, <1>4, <1>5

\* An attempt is counted: it is to be counted no longer.
LEMMA CountRecord ==
  ASSUME Types, CountInv, NEW c \in Callers, record(c)
  PROVE  CountInv'
<1>1. PICK r : r.pc # "stamped" /\ caller' = [caller EXCEPT ![c] = r]
  BY RecordMovesOn
<1>2. UNCHANGED <<site, attempts>> /\ caller[c].pc = "stamped"
  BY DEF record
<1>3. site \in Sites /\ attempts \in 0..site.attempts
  BY DEF CountInv, Types
<1>4. attempts \in Nat
  BY SMT, <1>3, AuthEntryAssumption
<1>5. ASSUME NEW k \in Keys PROVE Tally(k)' + Cardinality(Pending(k)') <= attempts
  <2>1. /\ Cardinality(Pending(k)') \in Nat
        /\ Cardinality(Pending(k)') =
             IF c \in Pending(k) THEN Cardinality(Pending(k)) - 1 ELSE Cardinality(Pending(k))
    BY <1>1, PendingLess
  <2>2. c \in Pending(k) <=> k \in {caller[c].ip, caller[c].key}
    BY <1>2 DEF Pending
  <2>3. /\ Tally(k)' \in Nat
        /\ Tally(k)' <= Tally(k) + IF k \in {caller[c].ip, caller[c].key} THEN 1 ELSE 0
    BY TallyGrows
  <2>4. Tally(k) + Cardinality(Pending(k)) <= attempts
    BY DEF CountInv
  <2>5. Tally(k) \in Nat /\ Cardinality(Pending(k)) \in Nat
    BY TallyType, PendingFinite
  <2>6. CASE c \in Pending(k)
    <3>1. Tally(k)' <= Tally(k) + 1 /\ Cardinality(Pending(k)') = Cardinality(Pending(k)) - 1
      BY <2>1, <2>2, <2>3, <2>6
    <3> QED
      BY SMT, <1>4, <2>1, <2>3, <2>4, <2>5, <3>1
  <2>7. CASE c \notin Pending(k)
    <3>1. Tally(k)' <= Tally(k) + 0 /\ Cardinality(Pending(k)') = Cardinality(Pending(k))
      BY <2>1, <2>2, <2>3, <2>7
    <3> QED
      BY SMT, <1>4, <2>1, <2>3, <2>4, <2>5, <3>1
  <2> QED
    BY <2>6, <2>7
<1>6. \A k \in DOMAIN windows' : windows'[k].count >= 1
  BY TallyGrows
<1> QED
  BY <1>2, <1>3, <1>5, <1>6 DEF CountInv

\* Every step keeps the count.
LEMMA NextCounts == Types /\ CountInv /\ [Next]_vars => CountInv'
<1> SUFFICES ASSUME Types, CountInv, [Next]_vars PROVE CountInv'
  OBVIOUS
<1>1. CASE Tick \/ RotateKeys
  BY <1>1, CountStays DEF Tick, RotateKeys, limiter
<1>2. ASSUME NEW c \in Callers, NEW ip \in Ips,
             (\E a \in Accounts : login(c, ip, a)) \/ (\E b \in Browsers : oidc_login(c, ip, b))
      PROVE  CountInv'
  BY <1>2, CountArrive DEF login, oidc_login
<1>3. ASSUME NEW c \in Callers, record(c) PROVE CountInv'
  BY <1>3, CountRecord
<1>4. ASSUME NEW c \in Callers, Refused(c) \/ Start(c) \/ StartFails(c) PROVE CountInv'
  BY <1>4, CountLeaves DEF Refused, Start, StartFails
<1>5. ASSUME NEW f \in 1..MaxFlows, Consent(f) PROVE CountInv'
  BY <1>5, CountStays DEF Consent, limiter
<1>6. ASSUME NEW b \in Browsers, CookieExpires(b) PROVE CountInv'
  BY <1>6, CountStays DEF CookieExpires, limiter
<1>7. ASSUME NEW c \in Callbacks,
             \/ \E b \in Browsers, f \in 1..MaxFlows : oidc_callback(c, b, f)
             \/ build_client(c) \/ exchange_code(c) \/ verify_id_token(c) \/ CallbackFails(c)
             \/ Complete(c)
      PROVE  CountInv'
  <2>1. UNCHANGED <<site, limiter>>
    BY <1>7 DEF oidc_callback, build_client, exchange_code, verify_id_token, CallbackFails, Complete, Stay
  <2> QED
    BY <2>1, CountStays DEF limiter
<1>8. CASE UNCHANGED vars
  BY <1>8, CountStays DEF vars, limiter
<1> QED
  BY <1>1, <1>2, <1>3, <1>4, <1>5, <1>6, <1>7, <1>8 DEF Next

\* Nothing is counted, nothing is to be.
LEMMA InitCounts == Init => CountInv
<1> SUFFICES ASSUME Init PROVE CountInv
  OBVIOUS
<1>1. attempts = 0 /\ site \in Sites /\ DOMAIN windows = {} /\ \A c \in Callers : caller[c] = IdleCaller
  BY DEF Init
<1>2. attempts \in 0..site.attempts
  BY SMT, <1>1, AuthEntryAssumption
<1>3. ASSUME NEW k \in Keys PROVE Tally(k) + Cardinality(Pending(k)) <= attempts
  <2>1. Pending(k) = {}
    BY <1>1, IdleCallerFields DEF Pending
  <2>2. Cardinality(Pending(k)) = 0
    BY <2>1, FS_EmptySet
  <2>3. Tally(k) = 0
    BY <1>1 DEF Tally
  <2> QED
    BY SMT, <1>1, <2>2, <2>3
<1> QED
  BY <1>1, <1>2, <1>3 DEF CountInv

\* A browser has one state cookie at most: that of the last login it started.
LEMMA OneCookie ==
  ASSUME CookieInv, Types, NEW b \in Browsers
  PROVE  Cardinality(jar[b]) <= 1
<1>1. ASSUME NEW x \in jar[b], NEW y \in jar[b] PROVE x = y
  <2>1. PICK g \in 1..Len(flows) :
          /\ x = issue_oidc_state(g, g, flows[g].issued) /\ flows[g].browser = b
          /\ \A h \in 1..Len(flows) : flows[h].browser = b => h <= g
    BY DEF CookieInv
  <2>2. PICK f \in 1..Len(flows) :
          /\ y = issue_oidc_state(f, f, flows[f].issued) /\ flows[f].browser = b
          /\ \A h \in 1..Len(flows) : flows[h].browser = b => h <= f
    BY DEF CookieInv
  <2>3. f <= g /\ g <= f
    BY <2>1, <2>2
  <2>4. f = g
    BY SMT, <2>3 DEF Types, OidcTypes
  <2> QED
    BY <2>1, <2>2, <2>4
<1>2. CASE jar[b] = {}
  <2>1. Cardinality(jar[b]) = 0
    BY <1>2, FS_EmptySet
  <2> QED
    BY SMT, <2>1
<1>3. CASE jar[b] # {}
  <2>1. PICK x : jar[b] = {x}
    <3>1. PICK x : x \in jar[b]
      BY <1>3
    <3> QED
      BY <1>1, <3>1
  <2>2. Cardinality(jar[b]) = 1
    BY <2>1, FS_Singleton
  <2> QED
    BY SMT, <2>2
<1> QED
  BY <1>2, <1>3

\* A window never counts more attempts than were made, however the requests that
\* wait for the mutex are ordered (record), and a browser never holds two state
\* cookies (oidc_login).
THEOREM TypeCorrect == Spec => []TypeOK
<1>1. Inv /\ CountInv /\ [Next]_vars => CountInv'
  BY NextCounts DEF Inv
<1>2. Inv /\ CountInv => TypeOK
  <2> SUFFICES ASSUME Inv, CountInv PROVE TypeOK
    OBVIOUS
  <2>1. ASSUME NEW k \in DOMAIN windows PROVE windows[k].count \in 1..site.attempts
    <3>1. k \in Keys /\ windows[k].count \in Nat /\ site \in Sites
      BY DEF Inv, Types, LimiterTypes, WindowType
    <3>2. Tally(k) = windows[k].count
      BY DEF Tally
    <3>3. /\ Tally(k) + Cardinality(Pending(k)) <= attempts /\ attempts \in 0..site.attempts
          /\ windows[k].count >= 1
      BY <3>1 DEF CountInv
    <3>4. Cardinality(Pending(k)) \in Nat
      BY PendingFinite
    <3> QED
      BY SMT, <3>1, <3>2, <3>3, <3>4, AuthEntryAssumption
  <2>2. \A b \in Browsers : Cardinality(jar[b]) <= 1
    BY OneCookie DEF Inv, OidcInv
  <2>3. clock \in 0..MaxClock /\ late \in BOOLEAN /\ DOMAIN windows \subseteq Keys
    BY DEF Inv, Types, LimiterTypes
  <2> QED
    BY <2>1, <2>2, <2>3 DEF TypeOK, CountInv
<1> QED
  BY <1>1, <1>2, InitCounts, Invariance, PTL DEF Spec
=============================================================================
