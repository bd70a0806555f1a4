CONSTANTS
  a = a
  b = b
  Procs = {1, 2}
  Ports = {1, 2}
  Indexes <- MCIndexes
  None = None
  Torn = Torn
SPECIFICATION Spec
SYMMETRY MCSymmetry
INVARIANTS
  OneInstance
  
  FinishedMeansBuilt
CHECK_DEADLOCK FALSE
