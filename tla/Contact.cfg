SPECIFICATION Spec
CONSTANTS
  Messages = {1, 2}
  Conversations = {c1, c2}
  Contacts = {contact}
  c1 = c1
  c2 = c2
  contact = contact
  ConvOf <- TwoConversations
  ContactOf <- OneContact
  Kind <- OptOutSecond
  Workers = {w1, w2}
  Tokens = {11, 12, 13, 14, 15, 16, 17, 18}
  Window = 2
  FitTogether <- AllFit
  Ageing = {}
CHECK_DEADLOCK FALSE
PROPERTIES
  NoAutomationAfterOptOut
