CONSTANTS
  direct = direct
  group = group
  ann = ann
  bob = bob
  Unset = Unset
  Chats <- MCChats
  Handles <- MCHandles
  Roster <- MCRoster
  Authors <- MCAuthors
  Style <- MCStyle
  Index <- MCIndex
  Queries <- AskedQueries
  MaxPrunes = 1
  ArmTop = 3
  PhraseTop = 2
  InlineLimit = 2
  FusedTop = 4
  RecencySlots = 1
  RrfK = 60
  Sigmoid <- MCSigmoid
  RecencyBoost <- MCRecencyBoost
  LexicalBoost <- MCLexicalBoost
  Day <- MCDay
  RerankTop = 3
  RerankRecent = 1
  SessionRecent = 2
  Radius = 1
SPECIFICATION Spec
INVARIANTS
  RelevanceTypeOK
  CandidatesOnly
  NewestMatchOnFirstPage
  WordsBeatMereRecency
  RecencyTakesItsShare
  PagesOnce
  TwoArmsOutvoteOne
CHECK_DEADLOCK FALSE
