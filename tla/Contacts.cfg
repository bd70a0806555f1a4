SPECIFICATION Spec
CONSTANTS
  NotNames = {"sunday"}
  FillerWords = {"about"}
  CommonWords = {"about"}
  ShortWords = {}
  OneEdit <- MCOneEdit
  Alike <- MCAlike
  Chats <- MCChats
  Unstyled = Unstyled
  NoHandle = NoHandle
  Books <- MCBooks
  Queries <- MCQueries
  Hosts = {"app", "mcp"}
  NoBook = NoBook
  Unread = Unread
INVARIANTS
  FindsWhomBookNames
  ShownNamesCanBeAsked
  
CHECK_DEADLOCK FALSE
