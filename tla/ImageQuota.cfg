SPECIFICATION Spec
CONSTANTS
  Images = {i1, i2, i3}
  Users = {u1, u2}
  Teams = {t1}
  NoTeam = NoTeam
  Sizes = {1, 2}
  UserCap = 3
  TeamCap = 2
  NKinds = 0
  Runners = {}
  Deleters = {d1}
  MaxAttempts = 2
  MaxFaults = 0
  NoImage = NoImage
  NoOwner = NoOwner
  NoWork = NoWork
SYMMETRY Symmetry
CHECK_DEADLOCK FALSE
INVARIANTS
  SerialUploadsFitQuota
