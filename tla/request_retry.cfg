SPECIFICATION FairSpec
CONSTANTS
  a1 = a1
  a2 = a2
  a3 = a3
  Accounts <- Accounts3
  Worlds <- AllWorlds
  MaxRetry = 2
  MaxLooks = 2
  FanOut = 2
INVARIANTS NoneLeaks
PROPERTIES WithinBudget NoneTwice GetsOn
