SPECIFICATION EventsSpec
CONSTANTS
  MaxItems = 3
  MaxPieces = 2
INVARIANTS ChatWhole ClaudeWhole BlocksPaired 
