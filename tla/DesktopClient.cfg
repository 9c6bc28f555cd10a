CONSTANTS
  Urls <- MCUrls
  Tasks = {t1, t2}
  Main = Main
  None = None
  Chunks = 2
  MaxCommands = 2
  MaxFaults = 1
SPECIFICATION Spec
INVARIANTS
  TokenGoesHome
  CommandsAddUp
  TransfersAreWhole
SYMMETRY MCSymmetry
CHECK_DEADLOCK FALSE
