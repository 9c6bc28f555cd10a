CONSTANTS
  u1 = u1
  u2 = u2
  t1 = t1
  c1 = c1
  c2 = c2
  Users = {u1, u2}
  Teams = {t1}
  NoUser = NoUser
  NoTeam = NoTeam
  NoRole = NoRole
  NoImage = NoImage
  None = None
  Images = {i1}
  Clients = {c1, c2}
  UserOf <- MCUserOf
  OpsOf <- MCOpsOf
  Bodies <- MCBodies
  InitialRoles <- MCInitialRoles
  SetRoles = {"manager"}
  MaxChanges = 1
SPECIFICATION Spec
INVARIANTS
  
  EveryAccessJustified
  SteadyRightIsServed
  AuthorityHasARoot
CHECK_DEADLOCK FALSE
