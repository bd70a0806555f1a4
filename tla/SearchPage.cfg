SPECIFICATION FairSearchSpec
CONSTANTS
  Words = {Golf}
  Golf = Golf
  Lease = Lease
  Blank = Blank
  NoParse = NoParse
  Sessions = {1, 2, 3}
  Ranking <- MCRanking
  PageSize = 1
  Parses <- MCParses
  Threshold = 2
  MaxSearches = 2
  MaxSyncs = 1
  MaxFaults = 1
INVARIANTS NoSessionTwice NothingSkipped NewestSearchOwnsPage
 
CHECK_DEADLOCK FALSE
