SPECIFICATION TranslationSpec
CONSTANTS
  Clients = {"chat", "claude", "responses"}
  Bodies <- MCBodies
  Limit = 3
  MaxTurns = 2
  MaxCalls = 2
INVARIANTS NamesRestored HistoryNames Carried
