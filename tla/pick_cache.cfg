SPECIFICATION FairSpec
CONSTANTS
  p1 = p1
  p2 = p2
  a1 = a1
  a2 = a2
  Procs <- Procs2
  Accts <- Accts2
  Worlds <- AllWorlds
  TTL = 1
  ProbeMax = 1
  Turns = 2
INVARIANTS SteadyIsFound
PROPERTIES RemovedFadesOut
