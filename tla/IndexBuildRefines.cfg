SPECIFICATION FairSpec
CONSTANTS
  Chats = {1, 2}
  Messages = {1, 2}
  Late = {2}
  Revisions = {1}
  ChunkList <- MCChunkList
  Builders = {b1}
  BatchSize = 1
  SampleSize = 2
  Limits = {NoLimit, 2}
  NoLimit = NoLimit
  MaxRuns = 3
PROPERTIES EveryRunEnds SyncsByPosition
CHECK_DEADLOCK FALSE
