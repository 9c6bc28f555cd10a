SPECIFICATION FairSpec
CONSTANTS
  Jobs = {j1, j2}
  Workers = {w1, w2}
  Concurrency = 1
  MaxAttempts = 2
  Stamps = {1, 2}
  MaxFaults = 2
  Strategy = "Exponential"
  InitialDelay = 1
  MaxDelay = 60
  NoJob = NoJob
INVARIANTS ClaimUnique AgreeUntilFault
PROPERTIES ImplementsLedger LiveLeaseNotClaimed EventuallySettled StopCompletes
