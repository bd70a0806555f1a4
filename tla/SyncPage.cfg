SPECIFICATION FairSpec
CONSTANTS
  Threads = {t1}
  Clients = {}
  Queries = {"dinner"}
  WarmQuery = "dinner"
  Launches = {"needs_index", "warm"}
  NoReading = NoReading
  MaxLive = 2
  MaxBuilds = 2
  MaxFaults = 1
  GracePolls = 1
  MaxPollFails = 2
INVARIANTS PageTypeOK SyncNeverLooksDone
PROPERTIES SyncGivesButtonBack BannerSettles DoneBuildBecomesVisible
CHECK_DEADLOCK FALSE
