---------------------------- MODULE MessageIngest ----------------------------
(***************************************************************************)
(* Concurrent ingest of conversation messages (IngestConversationMessage):  *)
(* a lookup in a transaction of its own, then one transaction that resolves *)
(* the contact and the conversation under row locks, inserts the message    *)
(* and commits, and a second lookup if another delivery was faster.  The    *)
(* transactions of message processing lock the same rows in another order.  *)
(*                                                                         *)
(* A step is a statement, or statements between which nobody can be seen.   *)
(* A row inserted and not committed is invisible, and whoever inserts the   *)
(* same key waits for its transaction; an inserted row and one selected     *)
(* FOR UPDATE are locked until the transaction ends.  A row remembers the   *)
(* delivery that inserted it.  The lead is inserted and found with its      *)
(* conversation, the processing row, the outbox event and the audit events  *)
(* with the message.                                                        *)
(*                                                                         *)
(* Definitions named ...Without... and the like stand before the            *)
(* definition they vary and are not part of the specification.              *)
(***************************************************************************)
EXTENDS Naturals, FiniteSets

CONSTANTS
  Deliveries,      \* calls of ingest: several may carry the same message
  Messages,        \* message identities (channel, external id, event type)
  Contacts, Conversations,                \* external references
  MessageOf, ContactOf, ConversationOf,   \* functions of the delivery
  Content,         \* all the rest of its payload
  Sent,            \* its external_timestamp
  Received,        \* what the clock of its process says
  Informed,        \* deliveries with a phone, a name or a kind to add
  Workers,         \* transactions of message processing
  WorkOn,          \* the conversation of each
  MaxFailures,     \* bound of the model: failures after which none follows
  None

ASSUME IngestAssumption ==
  /\ MessageOf \in [Deliveries -> Messages]
  /\ ContactOf \in [Deliveries -> Contacts]
  /\ ConversationOf \in [Deliveries -> Conversations]
  /\ Sent \in [Deliveries -> Nat]
  /\ Received \in [Deliveries -> Nat]
  /\ Informed \subseteq Deliveries
  /\ WorkOn \in [Workers -> Conversations]
  /\ Deliveries \cap Workers = {}
  /\ None \notin Deliveries \cup Workers

VARIABLES
  contactBy, conversationBy, messageBy,   \* rows: who inserted them, or None
  contactVersion, conversationVersion,
  last,            \* last_message_id, as the delivery that stored it
  committed,       \* deliveries whose transaction has committed
  contactLock, conversationLock,          \* who has the row locked
  pc,              \* where a delivery is; in the end, its answer
  contactSeen, conversationSeen,          \* versions it has read
  work             \* where a worker's transaction is

rows == <<contactBy, conversationBy, messageBy, contactVersion, conversationVersion,
          last, committed>>
locks == <<contactLock, conversationLock>>
seen == <<contactSeen, conversationSeen>>
vars == <<rows, locks, pc, seen, work>>

Actors == Deliveries \cup Workers
InTransaction == {"contact", "inform", "conversation", "message", "commit"}
Working == {"start", "replay"} \cup InTransaction
(* "changed" and "unresolved" are the three ConcurrencyConflictErrors.      *)
Answers == {"created", "replayed", "conflict", "foreign", "changed", "unresolved", "failed"}

PayloadOf == [d \in Deliveries |->
               <<MessageOf[d], ContactOf[d], ConversationOf[d], Sent[d], Content[d]>>]

Init ==
  /\ contactBy = [c \in Contacts |-> None]
  /\ conversationBy = [x \in Conversations |-> None]
  /\ messageBy = [m \in Messages |-> None]
  /\ contactVersion = [c \in Contacts |-> 0]
  /\ conversationVersion = [x \in Conversations |-> 0]
  /\ last = [x \in Conversations |-> None]
  /\ committed = {}
  /\ contactLock = [c \in Contacts |-> None]
  /\ conversationLock = [x \in Conversations |-> None]
  /\ pc = [d \in Deliveries |-> "start"]
  /\ contactSeen = [d \in Deliveries |-> 0]
  /\ conversationSeen = [d \in Deliveries |-> 0]
  /\ work = [w \in Workers |-> "idle"]

Goto(d, place) == pc' = [pc EXCEPT ![d] = place]
-----------------------------------------------------------------------------
(* The transaction of a ends: its locks are free, and what it inserted is   *)
(* gone unless it commits.                                                  *)
Release(a) ==
  /\ contactLock' = [c \in Contacts |-> IF contactLock[c] = a THEN None ELSE contactLock[c]]
  /\ conversationLock' = [x \in Conversations |->
                           IF conversationLock[x] = a THEN None ELSE conversationLock[x]]

Without(d, by) == [k \in DOMAIN by |-> IF by[k] = d THEN None ELSE by[k]]

RollbackKeepsLocks(d, place) ==
  /\ contactBy' = Without(d, contactBy)
  /\ conversationBy' = Without(d, conversationBy)
  /\ messageBy' = Without(d, messageBy)
  /\ Goto(d, place)
  /\ UNCHANGED <<locks, contactVersion, conversationVersion, last, committed, seen, work>>

Rollback(d, place) ==
  /\ contactBy' = Without(d, contactBy)
  /\ conversationBy' = Without(d, conversationBy)
  /\ messageBy' = Without(d, messageBy)
  /\ Release(d)
  /\ Goto(d, place)
  /\ UNCHANGED <<contactVersion, conversationVersion, last, committed, seen, work>>

(* _existing: the answer to a known message, which is audited and committed *)
(* before it is given.                                                      *)
Lookup(d) ==
  LET by == messageBy[MessageOf[d]]
  IN  /\ pc[d] \in {"start", "replay"}
      /\ \/ /\ by \in committed
            /\ Goto(d, IF PayloadOf[by] = PayloadOf[d] THEN "replayed" ELSE "conflict")
         \/ /\ by \notin committed
            /\ Goto(d, IF pc[d] = "start" THEN "contact" ELSE "unresolved")
      /\ UNCHANGED <<rows, locks, seen, work>>

(* Somebody's committed delivery has told what d could tell of the contact. *)
Known(c) == \E e \in committed \cap Informed : ContactOf[e] = c
Informs(d) == contactBy[ContactOf[d]] # d /\ d \in Informed /\ ~Known(ContactOf[d])

InsertContact(d) ==
  /\ pc[d] = "contact" /\ contactBy[ContactOf[d]] = None
  /\ contactBy' = [contactBy EXCEPT ![ContactOf[d]] = d]
  /\ contactVersion' = [contactVersion EXCEPT ![ContactOf[d]] = 1]
  /\ contactLock' = [contactLock EXCEPT ![ContactOf[d]] = d]
  /\ Goto(d, "conversation")
  /\ UNCHANGED <<conversationBy, messageBy, conversationVersion, last, committed,
                 conversationLock, seen, work>>

LockContactWithoutLock(d) == UNCHANGED contactLock
LockContact(d) ==
  /\ contactLock[ContactOf[d]] = None
  /\ contactLock' = [contactLock EXCEPT ![ContactOf[d]] = d]

FindContact(d) ==
  /\ pc[d] = "contact" /\ contactBy[ContactOf[d]] # None
  /\ LockContact(d)
  /\ contactSeen' = [contactSeen EXCEPT ![d] = contactVersion[ContactOf[d]]]
  /\ Goto(d, IF Informs(d) THEN "inform" ELSE "conversation")
  /\ UNCHANGED <<rows, conversationLock, conversationSeen, work>>

(* The update of the contact is visible, and its version new, at the commit. *)
InformContact(d) ==
  /\ pc[d] = "inform"
  /\ IF contactVersion[ContactOf[d]] = contactSeen[d]
       THEN Goto(d, "conversation") /\ UNCHANGED <<rows, locks, seen, work>>
       ELSE Rollback(d, "changed")
-----------------------------------------------------------------------------
(* An insert that waited for another and lost is answered by the savepoint: *)
(* the conversation is selected again.                                      *)
InsertConversation(d) ==
  /\ pc[d] = "conversation" /\ conversationBy[ConversationOf[d]] = None
  /\ conversationBy' = [conversationBy EXCEPT ![ConversationOf[d]] = d]
  /\ conversationVersion' = [conversationVersion EXCEPT ![ConversationOf[d]] = 1]
  /\ conversationSeen' = [conversationSeen EXCEPT ![d] = 1]
  /\ conversationLock' = [conversationLock EXCEPT ![ConversationOf[d]] = d]
  /\ Goto(d, "message")
  /\ UNCHANGED <<contactBy, messageBy, contactVersion, last, committed, contactLock,
                 contactSeen, work>>

(* _require_contact *)
OwnConversationAlways(d) == TRUE
OwnConversation(d) == ContactOf[conversationBy[ConversationOf[d]]] = ContactOf[d]

FindConversation(d) ==
  /\ pc[d] = "conversation" /\ conversationBy[ConversationOf[d]] # None
  /\ conversationLock[ConversationOf[d]] = None
  /\ \/ /\ OwnConversation(d)
        /\ conversationLock' = [conversationLock EXCEPT ![ConversationOf[d]] = d]
        /\ conversationSeen' = [conversationSeen EXCEPT
                                 ![d] = conversationVersion[ConversationOf[d]]]
        /\ Goto(d, "message")
        /\ UNCHANGED <<rows, contactLock, contactSeen, work>>
     \/ ~OwnConversation(d) /\ Rollback(d, "foreign")

InsertMessage(d) ==
  /\ pc[d] = "message" /\ messageBy[MessageOf[d]] = None
  /\ messageBy' = [messageBy EXCEPT ![MessageOf[d]] = d]
  /\ Goto(d, "commit")
  /\ UNCHANGED <<contactBy, conversationBy, contactVersion, conversationVersion, last,
                 committed, locks, seen, work>>

(* The race is lost: roll back, then answer with what is stored. *)
MessageExists(d) ==
  /\ pc[d] = "message" /\ messageBy[MessageOf[d]] \in committed
  /\ Rollback(d, "replay")

(* touch_with_message: a message that is not older than the conversation's  *)
(* last activity becomes its last message.                                  *)
Activity(x) == IF last[x] = None THEN Received[conversationBy[x]] ELSE Sent[last[x]]

TouchesAlways(d) == TRUE
Touches(d) == Sent[d] >= Activity(ConversationOf[d])

Commit(d) ==
  LET c == ContactOf[d]
      x == ConversationOf[d]
  IN  /\ committed' = committed \cup {d}
      /\ contactVersion' = [contactVersion EXCEPT ![c] = IF Informs(d) THEN @ + 1 ELSE @]
      /\ conversationVersion' = [conversationVersion EXCEPT
                                  ![x] = IF Touches(d) THEN @ + 1 ELSE @]
      /\ last' = [last EXCEPT ![x] = IF Touches(d) THEN d ELSE @]
      /\ Release(d)
      /\ Goto(d, "created") \/ Goto(d, "failed")
      /\ UNCHANGED <<contactBy, conversationBy, messageBy, seen, work>>

Stale(d) == Touches(d) /\ conversationVersion[ConversationOf[d]] # conversationSeen[d]

Finish(d) ==
  /\ pc[d] = "commit"
  /\ IF Stale(d) THEN Rollback(d, "changed") ELSE Commit(d)

(* Any error of the database, a suspended tenant or the end of the process. *)
Fails(d) ==
  /\ pc[d] \in Working
  /\ Cardinality({e \in Deliveries : pc[e] = "failed"}) < MaxFailures
  /\ Rollback(d, "failed")
-----------------------------------------------------------------------------
(* A claim and a recorded failure lock the conversation alone, _prepare and *)
(* _finalize its contact as well; they may give what they lock new versions. *)
WorkerLocksConversation(w) ==
  /\ work[w] = "idle"
  /\ conversationBy[WorkOn[w]] \in committed /\ conversationLock[WorkOn[w]] = None
  /\ conversationLock' = [conversationLock EXCEPT ![WorkOn[w]] = w]
  /\ \E what \in {"claim", "conversation"} : work' = [work EXCEPT ![w] = what]
  /\ UNCHANGED <<rows, contactLock, pc, seen>>

ContactOn(x) == ContactOf[conversationBy[x]]

WorkerLocksContact(w) ==
  /\ work[w] = "conversation" /\ contactLock[ContactOn(WorkOn[w])] = None
  /\ contactLock' = [contactLock EXCEPT ![ContactOn(WorkOn[w])] = w]
  /\ work' = [work EXCEPT ![w] = "both"]
  /\ UNCHANGED <<rows, conversationLock, pc, seen>>

WorkerCommits(w) ==
  /\ work[w] \in {"claim", "both"}
  /\ \E i \in {0, 1} :
       conversationVersion' = [conversationVersion EXCEPT ![WorkOn[w]] = @ + i]
  /\ \/ UNCHANGED contactVersion
     \/ /\ work[w] = "both"
        /\ contactVersion' = [contactVersion EXCEPT ![ContactOn(WorkOn[w])] = @ + 1]
  /\ Release(w)
  /\ work' = [work EXCEPT ![w] = "done"]
  /\ UNCHANGED <<contactBy, conversationBy, messageBy, last, committed, pc, seen>>

WorkerFails(w) ==
  /\ work[w] \in {"claim", "conversation", "both"}
  /\ Release(w)
  /\ work' = [work EXCEPT ![w] = "done"]
  /\ UNCHANGED <<rows, pc, seen>>

(* Whose transaction the next statement of a waits for, or None. *)
DeliveryWaitsFor(d) ==
  CASE pc[d] = "contact" -> contactLock[ContactOf[d]]
    [] pc[d] = "conversation" -> conversationLock[ConversationOf[d]]
    [] pc[d] = "message" /\ messageBy[MessageOf[d]] \notin committed -> messageBy[MessageOf[d]]
    [] OTHER -> None

WorkerWaitsFor(w) ==
  CASE work[w] = "idle" /\ conversationBy[WorkOn[w]] \in committed -> conversationLock[WorkOn[w]]
    [] work[w] = "conversation" -> contactLock[ContactOn(WorkOn[w])]
    [] OTHER -> None

WaitsFor(a) == IF a \in Workers THEN WorkerWaitsFor(a) ELSE DeliveryWaitsFor(a)

Waiting == {a \in Actors : WaitsFor(a) # None}

Deadlocked(a) ==
  \E ring \in SUBSET Waiting : a \in ring /\ ring = {WaitsFor(b) : b \in ring}

(* The database ends one of the transactions that wait for each other. *)
DeadlockVictim(a) ==
  /\ Deadlocked(a)
  /\ IF a \in Workers THEN WorkerFails(a) ELSE Rollback(a, "failed")

DeliveryStep(d) ==
  \/ Lookup(d)
  \/ InsertContact(d)
  \/ FindContact(d)
  \/ InformContact(d)
  \/ InsertConversation(d)
  \/ FindConversation(d)
  \/ InsertMessage(d)
  \/ MessageExists(d)
  \/ Finish(d)

WorkerStep(w) ==
  WorkerLocksConversation(w) \/ WorkerLocksContact(w) \/ WorkerCommits(w)

Next ==
  \/ \E d \in Deliveries : DeliveryStep(d) \/ Fails(d)
  \/ \E w \in Workers : WorkerStep(w) \/ WorkerFails(w)
  \/ \E a \in Actors : DeadlockVictim(a)

Spec == Init /\ [][Next]_vars

(* A transaction that can go on does, and the database detects deadlocks.   *)
Fairness ==
  /\ WF_vars(\E d \in Deliveries : DeliveryStep(d))
  /\ WF_vars(\E w \in Workers : WorkerStep(w))
  /\ WF_vars(\E a \in Actors : DeadlockVictim(a))

FairSpec == Spec /\ Fairness
-----------------------------------------------------------------------------
(* The rows and the transactions hold values of their types; only open      *)
(* transactions have locks and uncommitted rows.                            *)
TypeOK ==
  /\ contactBy \in [Contacts -> Deliveries \cup {None}]
  /\ conversationBy \in [Conversations -> Deliveries \cup {None}]
  /\ messageBy \in [Messages -> Deliveries \cup {None}]
  /\ contactVersion \in [Contacts -> Nat]
  /\ conversationVersion \in [Conversations -> Nat]
  /\ last \in [Conversations -> Deliveries \cup {None}]
  /\ committed \in SUBSET Deliveries
  /\ contactLock \in [Contacts -> Actors \cup {None}]
  /\ conversationLock \in [Conversations -> Actors \cup {None}]
  /\ pc \in [Deliveries -> Working \cup Answers]
  /\ contactSeen \in [Deliveries -> Nat]
  /\ conversationSeen \in [Deliveries -> Nat]
  /\ work \in [Workers -> {"idle", "claim", "conversation", "both", "done"}]
  /\ \A d \in Deliveries : pc[d] \notin InTransaction =>
       /\ \A c \in Contacts : contactLock[c] # d /\ (contactBy[c] = d => d \in committed)
       /\ \A x \in Conversations :
            conversationLock[x] # d /\ (conversationBy[x] = d => d \in committed)
       /\ \A m \in Messages : messageBy[m] = d => d \in committed

(* The versions ingest compares never differ, and a lost race always finds  *)
(* the winner's message: no delivery is answered with a concurrency         *)
(* conflict, because the rows it has read are locked.                       *)
NoSpuriousConflict ==
  \A d \in Deliveries : pc[d] \notin {"changed", "unresolved"}

(* The cursor of a conversation is the newest of its messages, in whatever  *)
(* order they commit; it stays empty only while every message is older than *)
(* the moment at which the first of them was received.                      *)
CursorIsNewest ==
  \A d \in committed :
    LET x == ConversationOf[d]
    IN  IF last[x] = None THEN Sent[d] < Received[conversationBy[x]]
        ELSE /\ Sent[d] <= Sent[last[x]]
             /\ last[x] \in committed /\ ConversationOf[last[x]] = x

(* Transactions that wait for each other are never deliveries alone, which   *)
(* all lock in one order, nor workers alone: ingest meets processing.       *)
DeadlocksMix ==
  \A ring \in SUBSET Waiting : ring # {} /\ ring = {WaitsFor(b) : b \in ring} =>
    ring \cap Deliveries # {} /\ ring \cap Workers # {}

(* Every delivery is answered in the end, also in a deadlock. *)
EveryDeliveryAnswered == <>(\A d \in Deliveries : pc[d] \in Answers)

(* Ingest implements MessageInbox; the two concurrency conflicts have no    *)
(* counterpart there.                                                       *)
Stored == [m \in Messages |-> IF messageBy[m] \in committed THEN messageBy[m] ELSE None]
AnswerOf == [d \in Deliveries |-> IF pc[d] \in Working THEN "none" ELSE pc[d]]

Inbox == INSTANCE MessageInbox WITH stored <- Stored, answer <- AnswerOf

ImplementsMessageInbox == Inbox!InboxSpec
=============================================================================
