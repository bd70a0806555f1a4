SPECIFICATION ServeSpec
CONSTANTS
  Threads = {t1, t2}
  Clients = {c1}
  Queries = {"dinner", "keys"}
  WarmQuery = "dinner"
  Launches = {"warm"}
  NoReading = NoReading
  MaxLive = 2
  MaxBuilds = 2
  MaxFaults = 0
INVARIANT OneBuildAtATime
CHECK_DEADLOCK FALSE
