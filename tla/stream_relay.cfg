SPECIFICATION Spec
CONSTANTS
  Worlds <- AllWorlds
  MaxRetry = 1
  EmptyRetryMax = 0
INVARIANTS OneVoice NothingSilent BodiesClosed
PROPERTY WithinBudget
