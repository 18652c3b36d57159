SPECIFICATION FairSpec
CONSTANTS
  p1 = p1
  p2 = p2
  Procs <- Procs2
  Worlds <- AllWorlds
  Retries = 2
  MaxToken = 2
INVARIANTS SpendsLive OneRecovery FlightShared
PROPERTIES FlagFreed
