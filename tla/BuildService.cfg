SPECIFICATION ServeSpec
CONSTANTS
  Threads = {t1, t2}
  Clients = {c1}
  Queries = {"dinner", "keys"}
  WarmQuery = "dinner"
  Launches = {"needs_index", "cold", "warm"}
  NoReading = NoReading
  MaxLive = 2
  MaxBuilds = 2
  MaxFaults = 1
SYMMETRY ServiceSymmetry
INVARIANTS SettledRankings SettledReading
CHECK_DEADLOCK FALSE
