SPECIFICATION FairSpec
CONSTANTS
  Events = {e1, e2}
  Refused = {e2}
  Publishers = {p1, p2}
  Tokens = {1, 2, 3, 4}
  BatchLimit = 2
  MaxAttempts = 2
  AttemptCap = 2
INVARIANTS
  TypeOK
  PublishedOnce
  DeadAfterMaxAttempts
  CurrentAttempts
PROPERTIES
  ImplementsFeed
  EventuallySettled
CHECK_DEADLOCK FALSE
