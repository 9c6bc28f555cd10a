SPECIFICATION FairSpec
CONSTANTS
  Images = {i1}
  Users = {u1}
  Teams = {}
  NoTeam = NoTeam
  Sizes = {1}
  UserCap = 2
  TeamCap = 2
  NKinds = 1
  Runners = {r1, r2}
  Deleters = {d1, d2}
  MaxAttempts = 2
  MaxFaults = 2
  NoImage = NoImage
  NoOwner = NoOwner
  NoWork = NoWork
CHECK_DEADLOCK FALSE
INVARIANTS
  ValidUploadNotDeadLettered
  DoneHasVariant
  LiveHasBlob
  InsertFailureLeavesNoOrphan
  AuditHonest
PROPERTIES
  DeletedIsFinal
  UploadsAndJobsEnd
