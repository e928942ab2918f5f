SPECIFICATION Spec
CONSTANTS
  Messages = {1, 2}
  Conversations = {c1}
  Contacts = {contact}
  c1 = c1
  c2 = c2
  contact = contact
  ConvOf <- OneConversation
  ContactOf <- OneContact
  Kind <- AllPlain
  Workers = {w1, w2}
  Tokens = {11, 12, 13, 14, 15, 16, 17, 18}
  Window = 2
  FitTogether <- AllFit
  Ageing = {1}
CHECK_DEADLOCK FALSE
INVARIANTS
  TypeOK
  AppliedAtMostOnce
  LeaseAgreement
  FreshContext
  RetriedOnlyByExpiry
  ConversationConsistent
PROPERTY
  ImplementsDecisions
