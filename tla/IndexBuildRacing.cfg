SPECIFICATION Spec
CONSTANTS
  Chats = {1}
  Messages = {1, 2, 3}
  Late = {3}
  Revisions = {1}
  ChunkList <- MCChunkList
  Builders = {b1, b2}
  BatchSize = 1
  SampleSize = 1
  Limits = {NoLimit}
  NoLimit = NoLimit
  MaxRuns = 3
INVARIANTS CompleteBuildConverges
SYMMETRY BuilderSymmetry
CHECK_DEADLOCK FALSE
