SPECIFICATION Spec
CONSTANTS
  Payloads <- MCPayloads
  MaxMessages = 2
  Texts <- MCTexts
  Window = 2
  MaxCharacters = 2
  MaxRetries = 0
  RecentLimit = 5
INVARIANTS
  MissingReported
CHECK_DEADLOCK FALSE
