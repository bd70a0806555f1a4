SPECIFICATION Spec
CONSTANTS
  GapThreshold = 2
  TokenTarget = 5
  MaxMessages = 3
  Overlap = 2
  Pauses = {0, 2, 3}
  Lengths = {1, 3, 6}
  MaxLength = 5
INVARIANTS WellCut
PROPERTY OnlyTheTailChanges
CHECK_DEADLOCK FALSE
