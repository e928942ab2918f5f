---------------------------- MODULE MessageInbox ----------------------------
(***************************************************************************)
(* What conversation ingest promises to the adapters that deliver messages, *)
(* whatever happens concurrently: a message identity is stored once, the    *)
(* deliveries of it get answers that fit what was stored, and a conversation *)
(* reference belongs to one contact.                                        *)
(***************************************************************************)
CONSTANTS
  Deliveries,      \* calls of ingest
  Messages,        \* message identities (the idempotency key)
  MessageOf, ContactOf, ConversationOf,   \* what a delivery refers to
  PayloadOf,       \* its fingerprint
  None

VARIABLES
  stored,          \* the delivery whose message is stored under each identity
  answer           \* what the caller was told

inbox == <<stored, answer>>

Init ==
  /\ stored = [m \in Messages |-> None]
  /\ answer = [d \in Deliveries |-> "none"]

(* Another contact's message is stored in the conversation of d. *)
Clashes(d) ==
  \E m \in Messages : /\ stored[m] # None
                      /\ ConversationOf[stored[m]] = ConversationOf[d]
                      /\ ContactOf[stored[m]] # ContactOf[d]

Tell(d, what) ==
  /\ answer[d] = "none"
  /\ answer' = [answer EXCEPT ![d] = what]

(* The caller may not learn that its message was stored. *)
Store(d) ==
  /\ stored[MessageOf[d]] = None /\ ~Clashes(d)
  /\ stored' = [stored EXCEPT ![MessageOf[d]] = d]
  /\ Tell(d, "created") \/ Tell(d, "failed")

Replay(d) ==
  /\ stored[MessageOf[d]] # None
  /\ PayloadOf[stored[MessageOf[d]]] = PayloadOf[d]
  /\ Tell(d, "replayed")
  /\ UNCHANGED stored

Reject(d) ==
  /\ stored[MessageOf[d]] # None
  /\ PayloadOf[stored[MessageOf[d]]] # PayloadOf[d]
  /\ Tell(d, "conflict")
  /\ UNCHANGED stored

RefuseConversation(d) ==
  /\ Clashes(d)
  /\ Tell(d, "foreign")
  /\ UNCHANGED stored

Fail(d) == Tell(d, "failed") /\ UNCHANGED stored

Next ==
  \E d \in Deliveries :
    Store(d) \/ Replay(d) \/ Reject(d) \/ RefuseConversation(d) \/ Fail(d)

InboxSpec == Init /\ [][Next]_inbox
=============================================================================
