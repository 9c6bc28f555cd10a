SPECIFICATION FairSpec
CONSTANTS
  NoUser = NoUser
  NoEmail = NoEmail
  NoIdentity = NoIdentity
  Users = {u1, u2}
  Emails = {e1, e2}
  Identities = {x1}
  Logins = {s1, s2}
  Admins = {a1}
  MaxFaults = 1
INVARIANTS
  
  TokenBelongsToItsIdentity
  OnlyOvertakenLoginsSurviveDisable

  
