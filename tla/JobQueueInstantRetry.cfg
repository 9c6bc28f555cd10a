SPECIFICATION Spec
CONSTANTS
  Jobs = {j1}
  Workers = {w1}
  Concurrency = 2
  MaxAttempts = 3
  Stamps = {1}
  MaxFaults = 0
  Strategy = "Exponential"
  InitialDelay = 1
  MaxDelay = 60
  NoJob = NoJob
PROPERTY NotRetriedInstantly
