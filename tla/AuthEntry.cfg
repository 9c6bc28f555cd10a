CONSTANTS
  max_attempts = 1
  window = 4
  TicksPerSecond = 2
  SWEEP_THRESHOLD = 2
  ttl_seconds = 2
  StateTtl = 1
  Leeway = 1
  NoSid = NoSid
  NoNonce = NoNonce
  r1 = r1
  r2 = r2
  ip1 = ip1
  ip2 = ip2
  Callers <- MCCallers
  Ips <- MCIps
  Sites <- MCSites
  Accounts = {a1}
  b1 = b1
  b2 = b2
  Browsers <- MCBrowsers
  Callbacks = {k1, k2}
  MaxClock = 4
  MaxFlows = 2
  NoOne = NoOne
SYMMETRY Symmetry
SPECIFICATION Spec
INVARIANTS
  RollingBudget
  OwnAccountOnly
  OneSessionPerLogin
PROPERTIES
  RetryAfterIsEnough
  OnlyTheLastLoginReturns
CHECK_DEADLOCK FALSE
