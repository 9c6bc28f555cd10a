-------------------------- MODULE AuthRateLimiter --------------------------
(***************************************************************************)
(* The fixed-window limiter of the unauthenticated endpoints.  An attempt  *)
(* counts against its client address and its account.  Time is in ticks,   *)
(* several to the second: the wait it answers is in whole seconds.         *)
(***************************************************************************)
EXTENDS Integers, FiniteSets

CONSTANTS
  max_attempts,     \* attempts per window, 0 for no limit
  window,           \* length of a window, in ticks
  TicksPerSecond,
  SWEEP_THRESHOLD   \* number of keys above which expired windows are dropped

ASSUME LimiterAssumption ==
  /\ max_attempts \in Nat /\ window \in Nat /\ SWEEP_THRESHOLD \in Nat
  /\ TicksPerSecond \in Nat \ {0}

NotBlocked == -1

Window(count, reset_at) == [count |-> count, reset_at |-> reset_at]

\* One attempt at time now against the window w of a key, or against none.
CountAfresh(w, now) == Window(1, now + window)
Count(w, now) ==
  LET old == IF w = {} THEN Window(0, now + window) ELSE CHOOSE x \in w : TRUE
      current == IF now >= old.reset_at THEN Window(0, now + window) ELSE old
  IN Window(current.count + 1, current.reset_at)

\* The windows after an attempt against these keys; the map is partial.
Counted(windows, now, keys) ==
  [k \in DOMAIN windows \cup keys |->
     IF k \in keys THEN Count({windows[j] : j \in {k} \cap DOMAIN windows}, now) ELSE windows[k]]

Swept(windows, now) ==
  IF Cardinality(DOMAIN windows) > SWEEP_THRESHOLD
  THEN [k \in {j \in DOMAIN windows : now < windows[j].reset_at} |-> windows[k]]
  ELSE windows

Exhausted(windows, keys) == {k \in keys : windows[k].count > max_attempts}

AtLeast(a, b) == IF a >= b THEN a ELSE b

\* The seconds to wait: of the exhausted windows the last to roll over, in
\* whole seconds, and never zero.
FirstWait(windows, now, keys) ==
  LET k == CHOOSE j \in Exhausted(windows, keys) :
             \A other \in Exhausted(windows, keys) :
               windows[j].reset_at <= windows[other].reset_at
  IN AtLeast((windows[k].reset_at - now) \div TicksPerSecond, 1)
Wait(windows, now, keys) ==
  LET k == CHOOSE j \in Exhausted(windows, keys) :
             \A other \in Exhausted(windows, keys) :
               windows[j].reset_at >= windows[other].reset_at
  IN AtLeast((windows[k].reset_at - now) \div TicksPerSecond, 1)

\* Both keys are counted, exhausted or not.  The new map, and the wait.
record_at(windows, now, keys) ==
  LET counted == Counted(windows, now, keys)
  IN IF max_attempts = 0 THEN [windows |-> windows, wait |-> NotBlocked]
     ELSE [windows |-> Swept(counted, now),
           wait |-> IF Exhausted(counted, keys) = {} THEN NotBlocked
                    ELSE Wait(counted, now, keys)]
=============================================================================
