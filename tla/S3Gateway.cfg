CONSTANTS
  SkewWindow = 1
  DayLength = 2
  Keys <- MCKeys
  BadKey = 0
  Bodies = {"x", "y"}
  Clients <- MCProxied
  Credentials <- MCCredentials
  NoCreds = NoCreds
  expected_bucket = "pics"
  Mount <- MCMount
  Requests <- MCRequests
  MaxClock = 2
  MaxSends = 2
  Absent = Absent
SPECIFICATION Spec
PROPERTIES
  
  PartsAreNotObjects
  SuccessMeansDone
CHECK_DEADLOCK FALSE
