SPECIFICATION Spec
CONSTANTS
  Messages = {1, 2}
  Conversations = {c1}
  Contacts = {contact}
  c1 = c1
  c2 = c2
  contact = contact
  ConvOf <- OneConversation
  ContactOf <- OneContact
  Kind <- AllPlain
  Workers = {w1}
  Tokens = {11, 12, 13, 14}
  Window = 2
  FitTogether <- AllFit
  Ageing = {}
CHECK_DEADLOCK FALSE
INVARIANTS
  TargetIsLegal
