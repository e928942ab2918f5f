SPECIFICATION FairSpec
CONSTANTS
  Messages = {1, 2, 3, 4}
  Conversations = {c1}
  Contacts = {contact}
  c1 = c1
  c2 = c2
  contact = contact
  ConvOf <- OneConversation
  ContactOf <- OneContact
  Kind <- HumanThenOptOut
  Workers = {w1}
  Tokens = {11, 12, 13, 14, 15, 16, 17, 18}
  Window = 2
  FitTogether <- LongFirst
  Ageing = {2}
CHECK_DEADLOCK FALSE
INVARIANTS
  OptOutHonoured
  EndsAreJustified
PROPERTIES
  OptOutEventuallyHonoured
