SPECIFICATION FairWatch
CONSTANTS
  c1 = c1
  c2 = c2
  loop = loop
  Checkers <- Checkers2
  Loop = loop
  Watches <- Watched
  Windows <- Windows2
  Rounds = 1
  MaxFails = 2
  Batch = 2
  MaxPool = 4
  Cycle = 12
INVARIANTS AnswerDecides Covered
PROPERTIES QuotaReturns
