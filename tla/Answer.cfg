CONSTANTS
  ann = ann
  bob = bob
  Unset = Unset
  Chats <- MCChats
  Handles <- MCHandles
  Roster <- MCRoster
  Authors <- MCAuthors
  Style <- MCStyle
  ArmTop = 1
  PhraseTop = 1
  InlineLimit = 2
  FusedTop = 2
  RecencySlots = 0
  RrfK = 60
  Sigmoid <- MCSigmoid
  RecencyBoost <- MCFlat
  LexicalBoost <- MCFlat
  Day <- MCDay
  RerankTop = 1
  RerankRecent = 0
  SessionRecent = 0
  Radius = 1
  Arrivals <- MCArrivals
  Queries <- MCQueries
  PageSize = 1
  HitsPerSession = 2
  Lookback = 2
  TailSlack = 1
  TailMax = 2
  ChunkPause = 1
  ChunkLength = 2
  ChunkOverlap = 1
  MaxMessages = 3
SPECIFICATION Spec
INVARIANTS
  FiltersHold
  UnindexedShown
  SenderIsFound
  MessageOncePerSession
  ConversationAroundHit
