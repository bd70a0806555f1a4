SPECIFICATION Spec
CONSTANTS
  Chats = {1, 2}
  Messages = {1, 2, 3}
  Late = {3}
  Revisions = {1}
  ChunkList <- MCChunkList
  Builders = {b1}
  BatchSize = 2
  SampleSize = 2
  Limits = {NoLimit, 2}
  NoLimit = NoLimit
  MaxRuns = 3
INVARIANTS TypeOK TablesAgree OneScale NoCollision CompleteBuildConverges
 
CHECK_DEADLOCK FALSE
