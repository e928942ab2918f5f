SPECIFICATION FairSpec
CONSTANTS
  Deliveries = {1, 2, 3, 4, 5}
  Messages = {"m1", "m2", "m3"}
  Contacts = {"c1", "c2"}
  Conversations = {"x1", "x2"}
  MessageOf <- MCMessageOf
  ContactOf <- MCContactOf
  ConversationOf <- MCConversationOf
  Content <- MCContent
  Sent <- MCSent
  Received <- MCReceived
  Informed = {4}
  Workers = {w1}
  WorkOn <- MCWorkOn
  MaxFailures = 1
  None = None
INVARIANTS
  TypeOK
  NoSpuriousConflict
  CursorIsNewest
PROPERTIES
  ImplementsMessageInbox
  EveryDeliveryAnswered
CHECK_DEADLOCK FALSE
