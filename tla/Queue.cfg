SPECIFICATION FairSpec
CONSTANTS
  Keys = {k1, k2}
  Invalid = {k2}
  Workers = {w1, w2}
  MaxAttempts = 2
  AttemptCap = 3
INVARIANTS
  TypeOK
  ReceiptMatchesEffect
  DeadAfterMaxAttempts
PROPERTIES
  SettledIsFinal
  ImplementsInbox
  EventuallySettled
CHECK_DEADLOCK FALSE
