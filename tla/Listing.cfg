CONSTANTS
  Ids <- MCIds
  MaxTime = 2
  Kinds = {"images", "users", "teams", "members", "audit", "tail", "objects"}
  Owner <- MCOwner
  Limits = {0, 2, 3}
  Ceiling = 2
  PAGE_SIZE = 2
  MAX_PAGES = 2
  TailLimit = 3
  MaxChanges = 2
SPECIFICATION ListingSpec
INVARIANTS
  WalkIsComplete
  NoRowTwice
PROPERTIES
  FollowerSeesAll
  WalkEnds
CHECK_DEADLOCK FALSE
