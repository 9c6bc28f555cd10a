CONSTANTS
  Keys <- MCKeys
  Root = Root
  Parent <- MCParent
  Above <- MCAbove
  Bodies = {"x", "y"}
  Seed = "x"
  Ops = {p1, p2}
  Absent = Absent
  MaxCrashes = 1
SPECIFICATION Spec
INVARIANTS
  ObjectsAreWhole
PROPERTIES
  Atomic
  
SYMMETRY MCSymmetry
CHECK_DEADLOCK FALSE
