SPECIFICATION FairSpec
CONSTANTS
  p1 = p1
  p2 = p2
  p3 = p3
  Procs <- Procs2
  Worlds <- AllWorlds
  Suffixes = {"disabled", "disabled.1"}
  MaxAccts = 3
  MaxToken = 3
  MaxCrashes = 1
INVARIANTS PooledIsLive SingleWriterWhole RemovedForGood
PROPERTIES TokenReachesFile
