SPECIFICATION Spec
CONSTANTS
  a1 = a1
  a2 = a2
  a3 = a3
  Accounts <- Accounts3
  Worlds <- FanWorld
  MaxRetry = 0
  MaxLooks = 2
  FanOut = 2
INVARIANT WinnerReadable
