SPECIFICATION Spec
CONSTANTS
  Payloads <- MCPayloads
  MaxMessages = 3
  Texts <- MCTexts
  Window = 2
  MaxCharacters = 2
  MaxRetries = 1
  RecentLimit = 1
INVARIANTS
  TypeOK
  NoFieldAskedTwice
  OneSignalPerGroup
  ConflictsSignalled
  OptOutDominates
  FactsFromContext
  HotLeadsReachAHuman
  SubscribersKnow
PROPERTIES
  OverwriteNeedsCorrection
  ValuesEnterTrusted
  QuestionsStillOpen
  ImplementsDecisions
CHECK_DEADLOCK FALSE
