------------------------ MODULE MessageIngest_proofs ------------------------
(***************************************************************************)
(* Proofs, for all deliveries, references, payloads, clocks and workers, of *)
(* the safety properties of MessageIngest and of its refinement of          *)
(* MessageInbox.  The invariant says what the row locks give: whoever has   *)
(* a row locked knows its version, and a row that is not committed is       *)
(* locked by the delivery that inserted it.                                 *)
(***************************************************************************)
EXTENDS MessageIngest, TLAPS

ContactRowOK(c) ==
  /\ contactLock[c] # None => contactBy[c] # None
  /\ contactBy[c] # None => contactBy[c] \in committed \/ contactLock[c] = contactBy[c]

ConversationRowOK(x) ==
  /\ conversationLock[x] # None => conversationBy[x] # None
  /\ conversationBy[x] # None =>
       /\ conversationBy[x] \in committed \/ conversationLock[x] = conversationBy[x]
       /\ ConversationOf[conversationBy[x]] = x
  /\ last[x] # None => last[x] \in committed /\ ConversationOf[last[x]] = x

MessageRowOK(m) ==
  messageBy[m] # None =>
    /\ MessageOf[messageBy[m]] = m
    /\ messageBy[m] \in committed \/ pc[messageBy[m]] = "commit"

(* What a committed delivery has left behind stays. *)
CommittedOK(d) ==
  d \in committed =>
    /\ pc[d] \in {"created", "failed"}
    /\ messageBy[MessageOf[d]] = d
    /\ contactBy[ContactOf[d]] \in committed
    /\ conversationBy[ConversationOf[d]] \in committed
    /\ OwnConversation(d)

JobOK(d) ==
  /\ pc[d] = "created" => d \in committed
  /\ pc[d] \in {"inform", "conversation", "message", "commit"} =>
       contactLock[ContactOf[d]] = d /\ contactBy[ContactOf[d]] \in committed \cup {d}
  /\ pc[d] = "inform" => contactSeen[d] = contactVersion[ContactOf[d]]
  /\ pc[d] \in {"message", "commit"} =>
       /\ conversationLock[ConversationOf[d]] = d
       /\ conversationBy[ConversationOf[d]] \in committed \cup {d}
       /\ OwnConversation(d)
       /\ conversationSeen[d] = conversationVersion[ConversationOf[d]]
  /\ pc[d] = "commit" => messageBy[MessageOf[d]] = d
  /\ pc[d] = "replay" => messageBy[MessageOf[d]] \in committed

WorkOK(w) ==
  /\ work[w] \in {"claim", "conversation", "both"} =>
       conversationLock[WorkOn[w]] = w /\ conversationBy[WorkOn[w]] \in committed
  /\ work[w] = "both" => contactLock[ContactOn(WorkOn[w])] = w

ContactsInv == \A c \in Contacts : ContactRowOK(c)
ConversationsInv == \A x \in Conversations : ConversationRowOK(x)
MessagesInv == \A m \in Messages : MessageRowOK(m)
CommittedInv == \A d \in Deliveries : CommittedOK(d)
JobsInv == \A d \in Deliveries : JobOK(d)
WorkInv == \A w \in Workers : WorkOK(w)

Inv == /\ TypeOK
       /\ ContactsInv
       /\ ConversationsInv
       /\ MessagesInv
       /\ CommittedInv
       /\ JobsInv
       /\ WorkInv
       /\ NoSpuriousConflict
       /\ CursorIsNewest

USE IngestAssumption DEF Actors, InTransaction, Working, Answers, rows, locks, seen

LEMMA InitInv == Init => Inv
  BY DEF Init, Inv, TypeOK, ContactsInv, ConversationsInv, MessagesInv, CommittedInv, JobsInv,
     WorkInv, ContactRowOK, ConversationRowOK, MessageRowOK, CommittedOK, JobOK, WorkOK,
     NoSpuriousConflict, CursorIsNewest
-----------------------------------------------------------------------------
(* Nobody else depends on what an open transaction has inserted or locked.  *)
LEMMA RollbackStep ==
  ASSUME Inv, NEW d \in Deliveries, pc[d] \in Working,
         NEW place \in {"replay", "foreign", "failed"},
         place = "replay" => messageBy[MessageOf[d]] \in committed,
         Rollback(d, place)
  PROVE  Inv'
  <1>1. TypeOK'
    BY DEF Inv, TypeOK, Rollback, Without, Release, Goto
  <1>2. ContactsInv'
    BY DEF Inv, TypeOK, ContactsInv, ContactRowOK, CommittedInv, CommittedOK, Rollback,
       Without, Release, Goto
  <1>3. ConversationsInv'
    BY DEF Inv, TypeOK, ConversationsInv, ConversationRowOK, CommittedInv, CommittedOK,
       Rollback, Without, Release, Goto
  <1>4. MessagesInv'
    BY DEF Inv, TypeOK, MessagesInv, MessageRowOK, Rollback, Without, Release, Goto
  <1>5. CommittedInv'
    BY DEF Inv, TypeOK, CommittedInv, CommittedOK, JobsInv, JobOK, OwnConversation,
       Rollback, Without, Release, Goto
  <1>6. JobsInv'
    BY DEF Inv, TypeOK, CommittedInv, CommittedOK, JobsInv, JobOK, OwnConversation,
       Rollback, Without, Release, Goto
  <1>7. WorkInv'
    BY DEF Inv, TypeOK, CommittedInv, CommittedOK, WorkInv, WorkOK, ContactOn, Rollback,
       Without, Release, Goto
  <1>8. NoSpuriousConflict'
    BY DEF Inv, NoSpuriousConflict, Rollback, Without, Release, Goto
  <1>9. CursorIsNewest'
    BY DEF Inv, TypeOK, CommittedInv, CommittedOK, CursorIsNewest, Rollback, Without,
       Release, Goto
  <1> QED BY <1>1, <1>2, <1>3, <1>4, <1>5, <1>6, <1>7, <1>8, <1>9 DEF Inv

(* The second lookup finds the message that won the race.                    *)
LEMMA LookupStep ==
  ASSUME Inv, NEW d \in Deliveries, Lookup(d)
  PROVE  Inv'
  <1>1. TypeOK'
    BY DEF Inv, TypeOK, CommittedInv, CommittedOK, JobsInv, JobOK, NoSpuriousConflict,
       Lookup, Goto
  <1>2. ContactsInv'
    BY DEF Inv, ContactsInv, ContactRowOK, Lookup, Goto
  <1>3. ConversationsInv'
    BY DEF Inv, ConversationsInv, ConversationRowOK, Lookup, Goto
  <1>4. MessagesInv'
    BY DEF Inv, TypeOK, MessagesInv, MessageRowOK, Lookup, Goto
  <1>5. CommittedInv'
    BY DEF Inv, TypeOK, CommittedInv, CommittedOK, OwnConversation, Lookup, Goto
  <1>6. JobsInv'
    BY DEF Inv, TypeOK, JobsInv, JobOK, OwnConversation, Lookup, Goto
  <1>7. WorkInv'
    BY DEF Inv, WorkInv, WorkOK, ContactOn, Lookup, Goto
  <1>8. NoSpuriousConflict'
    BY DEF Inv, TypeOK, JobsInv, JobOK, NoSpuriousConflict, Lookup, Goto
  <1>9. CursorIsNewest'
    BY DEF Inv, CursorIsNewest, Lookup, Goto
  <1> QED BY <1>1, <1>2, <1>3, <1>4, <1>5, <1>6, <1>7, <1>8, <1>9 DEF Inv

LEMMA InsertContactStep ==
  ASSUME Inv, NEW d \in Deliveries, InsertContact(d)
  PROVE  Inv'
  <1>1. TypeOK'
    BY DEF Inv, TypeOK, InsertContact, Goto
  <1>2. ContactsInv'
    BY DEF Inv, TypeOK, ContactsInv, ContactRowOK, InsertContact, Goto
  <1>3. ConversationsInv'
    BY DEF Inv, ConversationsInv, ConversationRowOK, InsertContact, Goto
  <1>4. MessagesInv'
    BY DEF Inv, MessagesInv, MessageRowOK, InsertContact, Goto
  <1>5. CommittedInv'
    BY DEF Inv, TypeOK, CommittedInv, CommittedOK, OwnConversation, InsertContact, Goto
  <1>6. JobsInv'
    BY DEF Inv, TypeOK, JobsInv, JobOK, OwnConversation, InsertContact, Goto
  <1>7. WorkInv'
    BY DEF Inv, ContactsInv, ContactRowOK, WorkInv, WorkOK, ContactOn, InsertContact, Goto
  <1>8. NoSpuriousConflict'
    BY DEF Inv, NoSpuriousConflict, InsertContact, Goto
  <1>9. CursorIsNewest'
    BY DEF Inv, CursorIsNewest, InsertContact, Goto
  <1> QED BY <1>1, <1>2, <1>3, <1>4, <1>5, <1>6, <1>7, <1>8, <1>9 DEF Inv

LEMMA FindContactStep ==
  ASSUME Inv, NEW d \in Deliveries, FindContact(d)
  PROVE  Inv'
  <1>1. TypeOK'
    BY DEF Inv, TypeOK, FindContact, LockContact, Goto, Informs
  <1>2. ContactsInv'
    BY DEF Inv, ContactsInv, ContactRowOK, FindContact, LockContact, Goto, Informs
  <1>3. ConversationsInv'
    BY DEF Inv, ConversationsInv, ConversationRowOK, FindContact, LockContact, Goto, Informs
  <1>4. MessagesInv'
    BY DEF Inv, MessagesInv, MessageRowOK, FindContact, LockContact, Goto, Informs
  <1>5. CommittedInv'
    BY DEF Inv, CommittedInv, CommittedOK, OwnConversation, FindContact, LockContact, Goto,
       Informs
  <1>6. JobsInv'
    BY DEF Inv, TypeOK, ContactsInv, ContactRowOK, JobsInv, JobOK, OwnConversation,
       FindContact, LockContact, Goto, Informs
  <1>7. WorkInv'
    BY DEF Inv, WorkInv, WorkOK, ContactOn, FindContact, LockContact, Goto, Informs
  <1>8. NoSpuriousConflict'
    BY DEF Inv, NoSpuriousConflict, FindContact, LockContact, Goto, Informs
  <1>9. CursorIsNewest'
    BY DEF Inv, CursorIsNewest, FindContact, LockContact, Goto, Informs
  <1> QED BY <1>1, <1>2, <1>3, <1>4, <1>5, <1>6, <1>7, <1>8, <1>9 DEF Inv

LEMMA InsertConversationStep ==
  ASSUME Inv, NEW d \in Deliveries, InsertConversation(d)
  PROVE  Inv'
  <1>1. TypeOK'
    BY DEF Inv, TypeOK, InsertConversation, Goto
  <1>2. ContactsInv'
    BY DEF Inv, ContactsInv, ContactRowOK, InsertConversation, Goto
  <1>3. ConversationsInv'
    BY DEF Inv, TypeOK, ConversationsInv, ConversationRowOK, InsertConversation, Goto
  <1>4. MessagesInv'
    BY DEF Inv, MessagesInv, MessageRowOK, InsertConversation, Goto
  <1>5. CommittedInv'
    BY DEF Inv, TypeOK, CommittedInv, CommittedOK, OwnConversation, InsertConversation, Goto
  <1>6. JobsInv'
    BY DEF Inv, TypeOK, JobsInv, JobOK, OwnConversation, InsertConversation, Goto
  <1>7. WorkInv'
    BY DEF Inv, ConversationsInv, ConversationRowOK, WorkInv, WorkOK, ContactOn,
       InsertConversation, Goto
  <1>8. NoSpuriousConflict'
    BY DEF Inv, NoSpuriousConflict, InsertConversation, Goto
  <1>9. CursorIsNewest'
    BY DEF Inv, TypeOK, CommittedInv, CommittedOK, CursorIsNewest, InsertConversation, Goto
  <1> QED BY <1>1, <1>2, <1>3, <1>4, <1>5, <1>6, <1>7, <1>8, <1>9 DEF Inv

LEMMA FindConversationStep ==
  ASSUME Inv, NEW d \in Deliveries, FindConversation(d), OwnConversation(d)
  PROVE  Inv'
  <1>0. /\ pc[d] = "conversation" /\ conversationBy[ConversationOf[d]] # None
        /\ conversationLock[ConversationOf[d]] = None
        /\ conversationLock' = [conversationLock EXCEPT ![ConversationOf[d]] = d]
        /\ conversationSeen' = [conversationSeen EXCEPT
                                 ![d] = conversationVersion[ConversationOf[d]]]
        /\ pc' = [pc EXCEPT ![d] = "message"]
        /\ UNCHANGED <<rows, contactLock, contactSeen, work>>
    BY DEF FindConversation, Goto
  <1>1. TypeOK'
    <2>1. /\ conversationLock' \in [Conversations -> Actors \cup {None}]
          /\ conversationSeen' \in [Deliveries -> Nat]
          /\ pc' \in [Deliveries -> Working \cup Answers]
      BY <1>0 DEF Inv, TypeOK
    <2>2. ASSUME NEW e \in Deliveries, pc'[e] \notin InTransaction
          PROVE  /\ \A c \in Contacts :
                      contactLock'[c] # e /\ (contactBy'[c] = e => e \in committed')
                 /\ \A x \in Conversations :
                      conversationLock'[x] # e /\ (conversationBy'[x] = e => e \in committed')
                 /\ \A m \in Messages : messageBy'[m] = e => e \in committed'
      <3>1. e # d /\ pc[e] \notin InTransaction
        BY <1>0, <2>2 DEF Inv, TypeOK
      <3> QED BY <1>0, <3>1 DEF Inv, TypeOK
    <2> QED BY <1>0, <2>1, <2>2 DEF Inv, TypeOK
  <1>2. ContactsInv'
    BY <1>0 DEF Inv, ContactsInv, ContactRowOK
  <1>3. ConversationsInv'
    BY <1>0 DEF Inv, TypeOK, ConversationsInv, ConversationRowOK
  <1>4. MessagesInv'
    BY <1>0 DEF Inv, TypeOK, MessagesInv, MessageRowOK
  <1>5. CommittedInv'
    BY <1>0 DEF Inv, TypeOK, ContactsInv, ContactRowOK, ConversationsInv, ConversationRowOK,
       MessagesInv, MessageRowOK, CommittedInv, CommittedOK, JobsInv, JobOK, WorkInv,
       WorkOK, NoSpuriousConflict, OwnConversation
  <1>6. JobsInv'
    BY <1>0 DEF Inv, TypeOK, ConversationsInv, ConversationRowOK, JobsInv, JobOK, OwnConversation
  <1>7. WorkInv'
    BY <1>0 DEF Inv, TypeOK, WorkInv, WorkOK, ContactOn
  <1>8. NoSpuriousConflict'
    BY <1>0 DEF Inv, TypeOK, NoSpuriousConflict
  <1>9. CursorIsNewest'
    BY <1>0 DEF Inv, CursorIsNewest
  <1> QED BY <1>1, <1>2, <1>3, <1>4, <1>5, <1>6, <1>7, <1>8, <1>9 DEF Inv

LEMMA InsertMessageStep ==
  ASSUME Inv, NEW d \in Deliveries, InsertMessage(d)
  PROVE  Inv'
  <1>1. TypeOK'
    BY DEF Inv, TypeOK, InsertMessage, Goto
  <1>2. ContactsInv'
    BY DEF Inv, ContactsInv, ContactRowOK, InsertMessage, Goto
  <1>3. ConversationsInv'
    BY DEF Inv, ConversationsInv, ConversationRowOK, InsertMessage, Goto
  <1>4. MessagesInv'
    BY DEF Inv, TypeOK, MessagesInv, MessageRowOK, InsertMessage, Goto
  <1>5. CommittedInv'
    BY DEF Inv, CommittedInv, CommittedOK, OwnConversation, InsertMessage, Goto
  <1>6. JobsInv'
    BY DEF Inv, TypeOK, JobsInv, JobOK, OwnConversation, InsertMessage, Goto
  <1>7. WorkInv'
    BY DEF Inv, WorkInv, WorkOK, ContactOn, InsertMessage, Goto
  <1>8. NoSpuriousConflict'
    BY DEF Inv, NoSpuriousConflict, InsertMessage, Goto
  <1>9. CursorIsNewest'
    BY DEF Inv, CursorIsNewest, InsertMessage, Goto
  <1> QED BY <1>1, <1>2, <1>3, <1>4, <1>5, <1>6, <1>7, <1>8, <1>9 DEF Inv

(* At the commit the versions are still those that were read.                *)
LEMMA CommitStep ==
  ASSUME Inv, NEW d \in Deliveries, pc[d] = "commit", Commit(d)
  PROVE  Inv'
  <1>1. TypeOK'
    BY DEF Inv, TypeOK, Commit, Release, Touches, Activity, Informs, Goto
  <1>2. ContactsInv'
    BY DEF Inv, ContactsInv, ContactRowOK, Commit, Release, Touches, Activity, Informs, Goto
  <1>3. ConversationsInv'
    BY DEF Inv, ConversationsInv, ConversationRowOK, Commit, Release, Touches, Activity,
       Informs, Goto
  <1>4. MessagesInv'
    BY DEF Inv, TypeOK, MessagesInv, MessageRowOK, Commit, Release, Touches, Activity,
       Informs, Goto
  <1>5. CommittedInv'
    BY DEF Inv, TypeOK, CommittedInv, CommittedOK, JobsInv, JobOK, OwnConversation, Commit,
       Release, Touches, Activity, Informs, Goto
  <1>6. JobsInv'
    BY DEF Inv, TypeOK, JobsInv, JobOK, OwnConversation, Commit, Release, Touches, Activity,
       Informs, Goto
  <1>7. WorkInv'
    BY DEF Inv, TypeOK, WorkInv, WorkOK, ContactOn, Commit, Release, Touches, Activity,
       Informs, Goto
  <1>8. NoSpuriousConflict'
    BY DEF Inv, TypeOK, NoSpuriousConflict, Commit, Release, Touches, Activity, Informs,
       Goto
  <1>9. CursorIsNewest'
    BY DEF Inv, TypeOK, ConversationsInv, ConversationRowOK, JobsInv, JobOK, CursorIsNewest,
       Commit, Release, Touches, Activity, Informs, Goto
  <1> QED BY <1>1, <1>2, <1>3, <1>4, <1>5, <1>6, <1>7, <1>8, <1>9 DEF Inv

LEMMA WorkerLocksConversationStep ==
  ASSUME Inv, NEW w \in Workers, WorkerLocksConversation(w)
  PROVE  Inv'
  <1>1. TypeOK'
    BY DEF Inv, TypeOK, WorkerLocksConversation
  <1>2. ContactsInv'
    BY DEF Inv, ContactsInv, ContactRowOK, WorkerLocksConversation
  <1>3. ConversationsInv'
    BY DEF Inv, TypeOK, ConversationsInv, ConversationRowOK, WorkerLocksConversation
  <1>4. MessagesInv'
    BY DEF Inv, MessagesInv, MessageRowOK, WorkerLocksConversation
  <1>5. CommittedInv'
    BY DEF Inv, CommittedInv, CommittedOK, OwnConversation, WorkerLocksConversation
  <1>6. JobsInv'
    BY DEF Inv, JobsInv, JobOK, OwnConversation, WorkerLocksConversation
  <1>7. WorkInv'
    BY DEF Inv, TypeOK, WorkInv, WorkOK, ContactOn, WorkerLocksConversation
  <1>8. NoSpuriousConflict'
    BY DEF Inv, NoSpuriousConflict, WorkerLocksConversation
  <1>9. CursorIsNewest'
    BY DEF Inv, CursorIsNewest, WorkerLocksConversation
  <1> QED BY <1>1, <1>2, <1>3, <1>4, <1>5, <1>6, <1>7, <1>8, <1>9 DEF Inv

LEMMA WorkerLocksContactStep ==
  ASSUME Inv, NEW w \in Workers, WorkerLocksContact(w)
  PROVE  Inv'
  <1>1. TypeOK'
    BY DEF Inv, TypeOK, WorkInv, WorkOK, ContactOn, WorkerLocksContact
  <1>2. ContactsInv'
    BY DEF Inv, TypeOK, ContactsInv, ContactRowOK, CommittedInv, CommittedOK, WorkInv,
       WorkOK, ContactOn, WorkerLocksContact
  <1>3. ConversationsInv'
    BY DEF Inv, ConversationsInv, ConversationRowOK, WorkerLocksContact
  <1>4. MessagesInv'
    BY DEF Inv, MessagesInv, MessageRowOK, WorkerLocksContact
  <1>5. CommittedInv'
    BY DEF Inv, CommittedInv, CommittedOK, OwnConversation, WorkerLocksContact
  <1>6. JobsInv'
    BY DEF Inv, JobsInv, JobOK, OwnConversation, WorkerLocksContact
  <1>7. WorkInv'
    BY DEF Inv, TypeOK, WorkInv, WorkOK, ContactOn, WorkerLocksContact
  <1>8. NoSpuriousConflict'
    BY DEF Inv, NoSpuriousConflict, WorkerLocksContact
  <1>9. CursorIsNewest'
    BY DEF Inv, CursorIsNewest, WorkerLocksContact
  <1> QED BY <1>1, <1>2, <1>3, <1>4, <1>5, <1>6, <1>7, <1>8, <1>9 DEF Inv

LEMMA WorkerCommitsStep ==
  ASSUME Inv, NEW w \in Workers, WorkerCommits(w)
  PROVE  Inv'
  <1>1. TypeOK'
    BY DEF Inv, TypeOK, WorkInv, WorkOK, ContactOn, WorkerCommits, Release
  <1>2. ContactsInv'
    BY DEF Inv, TypeOK, ContactsInv, ContactRowOK, WorkerCommits, Release
  <1>3. ConversationsInv'
    BY DEF Inv, TypeOK, ConversationsInv, ConversationRowOK, WorkerCommits, Release
  <1>4. MessagesInv'
    BY DEF Inv, MessagesInv, MessageRowOK, WorkerCommits, Release
  <1>5. CommittedInv'
    BY DEF Inv, CommittedInv, CommittedOK, OwnConversation, WorkerCommits, Release
  <1>6. JobsInv'
    <2>1. ASSUME NEW d \in Deliveries, NEW c \in Contacts, contactLock[c] = d
          PROVE  contactLock'[c] = d /\ contactVersion'[c] = contactVersion[c]
      BY <2>1 DEF Inv, TypeOK, WorkInv, WorkOK, WorkerCommits, Release
    <2>2. ASSUME NEW d \in Deliveries, NEW x \in Conversations, conversationLock[x] = d
          PROVE  conversationLock'[x] = d /\ conversationVersion'[x] = conversationVersion[x]
      BY <2>2 DEF Inv, TypeOK, WorkInv, WorkOK, WorkerCommits, Release
    <2>3. UNCHANGED <<contactBy, conversationBy, messageBy, committed, pc, seen>>
      BY DEF WorkerCommits
    <2> QED BY <2>1, <2>2, <2>3 DEF Inv, JobsInv, JobOK, OwnConversation
  <1>7. WorkInv'
    BY DEF Inv, TypeOK, WorkInv, WorkOK, ContactOn, WorkerCommits, Release
  <1>8. NoSpuriousConflict'
    BY DEF Inv, NoSpuriousConflict, WorkerCommits, Release
  <1>9. CursorIsNewest'
    BY DEF Inv, CursorIsNewest, WorkerCommits, Release
  <1> QED BY <1>1, <1>2, <1>3, <1>4, <1>5, <1>6, <1>7, <1>8, <1>9 DEF Inv

LEMMA WorkerFailsStep ==
  ASSUME Inv, NEW w \in Workers, WorkerFails(w)
  PROVE  Inv'
  <1>1. TypeOK'
    BY DEF Inv, TypeOK, WorkerFails, Release
  <1>2. ContactsInv'
    BY DEF Inv, TypeOK, ContactsInv, ContactRowOK, WorkerFails, Release
  <1>3. ConversationsInv'
    BY DEF Inv, TypeOK, ConversationsInv, ConversationRowOK, WorkerFails, Release
  <1>4. MessagesInv'
    BY DEF Inv, MessagesInv, MessageRowOK, WorkerFails, Release
  <1>5. CommittedInv'
    BY DEF Inv, CommittedInv, CommittedOK, OwnConversation, WorkerFails, Release
  <1>6. JobsInv'
    BY DEF Inv, JobsInv, JobOK, OwnConversation, WorkerFails, Release
  <1>7. WorkInv'
    BY DEF Inv, TypeOK, WorkInv, WorkOK, ContactOn, WorkerFails, Release
  <1>8. NoSpuriousConflict'
    BY DEF Inv, NoSpuriousConflict, WorkerFails, Release
  <1>9. CursorIsNewest'
    BY DEF Inv, CursorIsNewest, WorkerFails, Release
  <1> QED BY <1>1, <1>2, <1>3, <1>4, <1>5, <1>6, <1>7, <1>8, <1>9 DEF Inv

-----------------------------------------------------------------------------
(* The versions compared never differ: the other branches are not taken.     *)
LEMMA InformStep ==
  ASSUME Inv, NEW d \in Deliveries, InformContact(d)
  PROVE  Inv'
  <1>1. /\ pc[d] = "inform" /\ pc' = [pc EXCEPT ![d] = "conversation"]
        /\ UNCHANGED <<rows, locks, seen, work>>
    BY DEF Inv, JobsInv, JobOK, InformContact, Goto
  <1>2. TypeOK'
    BY <1>1 DEF Inv, TypeOK
  <1>3. ContactsInv' /\ ConversationsInv' /\ WorkInv' /\ CursorIsNewest'
    BY <1>1 DEF Inv, ContactsInv, ContactRowOK, ConversationsInv, ConversationRowOK,
       WorkInv, WorkOK, ContactOn, CursorIsNewest
  <1>4. MessagesInv'
    BY <1>1 DEF Inv, TypeOK, MessagesInv, MessageRowOK
  <1>5. CommittedInv'
    BY <1>1 DEF Inv, TypeOK, CommittedInv, CommittedOK, OwnConversation
  <1>6. JobsInv'
    BY <1>1 DEF Inv, TypeOK, JobsInv, JobOK, OwnConversation
  <1>7. NoSpuriousConflict'
    BY <1>1 DEF Inv, TypeOK, NoSpuriousConflict
  <1> QED BY <1>2, <1>3, <1>4, <1>5, <1>6, <1>7 DEF Inv

LEMMA FinishCommits ==
  ASSUME Inv, NEW d \in Deliveries, Finish(d)
  PROVE  pc[d] = "commit" /\ Commit(d)
  BY DEF Inv, JobsInv, JobOK, Finish, Stale

LEMMA WaitingWork ==
  ASSUME NEW d \in Deliveries, d \notin Workers, WaitsFor(d) # None
  PROVE  pc[d] \in Working
  BY DEF WaitsFor, DeliveryWaitsFor

(* Every other step that ends a transaction is a rollback. *)
LEMMA RollbackCases ==
  ASSUME Inv, NEW d \in Deliveries,
         \/ MessageExists(d)
         \/ FindConversation(d) /\ ~OwnConversation(d)
         \/ Fails(d)
         \/ d \notin Workers /\ DeadlockVictim(d)
  PROVE  Inv'
  <1>1. CASE MessageExists(d)
    BY <1>1, RollbackStep DEF MessageExists
  <1>2. CASE FindConversation(d) /\ ~OwnConversation(d)
    BY <1>2, RollbackStep DEF FindConversation
  <1>3. CASE Fails(d)
    BY <1>3, RollbackStep DEF Fails
  <1>4. CASE d \notin Workers /\ DeadlockVictim(d)
    <2>1. pc[d] \in Working /\ Rollback(d, "failed")
      BY <1>4, WaitingWork DEF DeadlockVictim, Deadlocked, Waiting
    <2> QED BY <2>1, RollbackStep
  <1> QED BY <1>1, <1>2, <1>3, <1>4

LEMMA UnchangedStep ==
  ASSUME Inv, UNCHANGED vars
  PROVE  Inv'
  BY DEF vars, Inv, TypeOK, ContactsInv, ContactRowOK, ConversationsInv, ConversationRowOK,
     MessagesInv, MessageRowOK, CommittedInv, CommittedOK, OwnConversation, JobsInv, JobOK,
     WorkInv, WorkOK, ContactOn, NoSpuriousConflict, CursorIsNewest

LEMMA NextStep ==
  ASSUME Inv, [Next]_vars
  PROVE  Inv'
  <1>1. ASSUME NEW d \in Deliveries, DeliveryStep(d) PROVE Inv'
    <2>1. CASE Lookup(d) BY <2>1, LookupStep
    <2>2. CASE InsertContact(d) BY <2>2, InsertContactStep
    <2>3. CASE FindContact(d) BY <2>3, FindContactStep
    <2>4. CASE InformContact(d) BY <2>4, InformStep
    <2>5. CASE InsertConversation(d) BY <2>5, InsertConversationStep
    <2>6. CASE FindConversation(d) BY <2>6, FindConversationStep, RollbackCases
    <2>7. CASE InsertMessage(d) BY <2>7, InsertMessageStep
    <2>8. CASE MessageExists(d) BY <2>8, RollbackCases
    <2>9. CASE Finish(d) BY <2>9, FinishCommits, CommitStep
    <2> QED BY <1>1, <2>1, <2>2, <2>3, <2>4, <2>5, <2>6, <2>7, <2>8, <2>9 DEF DeliveryStep
  <1>2. ASSUME NEW d \in Deliveries, Fails(d) PROVE Inv'
    BY <1>2, RollbackCases
  <1>3. ASSUME NEW w \in Workers, WorkerStep(w) \/ WorkerFails(w) PROVE Inv'
    BY <1>3, WorkerLocksConversationStep, WorkerLocksContactStep, WorkerCommitsStep,
       WorkerFailsStep DEF WorkerStep
  <1>4. ASSUME NEW a \in Actors, DeadlockVictim(a) PROVE Inv'
    <2>1. CASE a \in Workers
      BY <1>4, <2>1, WorkerFailsStep DEF DeadlockVictim
    <2>2. CASE a \in Deliveries /\ a \notin Workers
      BY <1>4, <2>2, RollbackCases
    <2> QED BY <2>1, <2>2
  <1>5. CASE UNCHANGED vars
    BY <1>5, UnchangedStep
  <1> QED BY <1>1, <1>2, <1>3, <1>4, <1>5 DEF Next

(* The invariant of ingest holds in every state. *)
THEOREM IngestInvariance == Spec => []Inv
  <1>1. Inv /\ [Next]_vars => Inv'
    BY NextStep
  <1> QED BY InitInv, <1>1, PTL DEF Spec

(* Rows and transactions hold values of their types, and only open           *)
(* transactions have locks and uncommitted rows.                            *)
THEOREM IngestTypeCorrect == Spec => []TypeOK
  <1>1. Inv => TypeOK
    BY DEF Inv
  <1> QED BY <1>1, IngestInvariance, PTL

(* No delivery is answered with a concurrency conflict. *)
THEOREM ConflictsAreImpossible == Spec => []NoSpuriousConflict
  <1>1. Inv => NoSpuriousConflict
    BY DEF Inv
  <1> QED BY <1>1, IngestInvariance, PTL

(* A conversation's cursor is its newest message, whatever the order of the  *)
(* commits.                                                                 *)
THEOREM CursorFollows == Spec => []CursorIsNewest
  <1>1. Inv => CursorIsNewest
    BY DEF Inv
  <1> QED BY <1>1, IngestInvariance, PTL
-----------------------------------------------------------------------------
(* A lock tells how far its owner is: the contact is locked before the       *)
(* conversation by deliveries, and after it by workers.                     *)
Ahead == {"inform", "conversation", "message", "commit"}

ContactOwner(c) ==
  /\ contactLock[c] \in Deliveries => pc[contactLock[c]] \in Ahead
  /\ contactLock[c] \in Workers => work[contactLock[c]] = "both"

ConversationOwner(x) ==
  /\ conversationLock[x] \in Deliveries => pc[conversationLock[x]] \in {"message", "commit"}
  /\ conversationLock[x] \in Workers =>
       work[conversationLock[x]] \in {"claim", "conversation", "both"}

Owners ==
  /\ \A c \in Contacts : ContactOwner(c)
  /\ \A x \in Conversations : ConversationOwner(x)

LEMMA OwnersFirst == Init => Owners
  BY DEF Init, Owners, ContactOwner, ConversationOwner

LEMMA RollbackOwners ==
  ASSUME Inv, Owners, NEW d \in Deliveries, NEW place, Rollback(d, place)
  PROVE  Owners'
  BY DEF Inv, TypeOK, Owners, ContactOwner, ConversationOwner, Rollback, Release, Goto

LEMMA WorkerFailsOwners ==
  ASSUME Inv, Owners, NEW w \in Workers, WorkerFails(w)
  PROVE  Owners'
  BY DEF Inv, TypeOK, Owners, ContactOwner, ConversationOwner, WorkerFails, Release

LEMMA DeliveryOwners ==
  ASSUME Inv, Owners, NEW d \in Deliveries, DeliveryStep(d)
  PROVE  Owners'
  <1> USE DEF Inv, TypeOK, Owners, ContactOwner, ConversationOwner, Ahead, Goto
  <1>1. CASE Lookup(d)
    BY <1>1 DEF Lookup
  <1>2. CASE InsertContact(d)
    BY <1>2 DEF InsertContact
  <1>3. CASE FindContact(d)
    BY <1>3 DEF FindContact, LockContact
  <1>4. CASE InformContact(d)
    <2>1. CASE Rollback(d, "changed")
      BY <2>1, RollbackOwners
    <2> QED BY <1>4, <2>1 DEF InformContact
  <1>5. CASE InsertConversation(d)
    BY <1>5 DEF InsertConversation
  <1>6. CASE FindConversation(d)
    <2>1. CASE Rollback(d, "foreign")
      BY <2>1, RollbackOwners
    <2>2. CASE /\ pc[d] = "conversation" /\ pc' = [pc EXCEPT ![d] = "message"]
               /\ conversationLock' = [conversationLock EXCEPT ![ConversationOf[d]] = d]
               /\ UNCHANGED <<contactLock, work>>
      <3>1. \A c \in Contacts : ContactOwner(c)'
        BY <2>2
      <3>2. \A x \in Conversations : ConversationOwner(x)'
        BY <2>2
      <3> QED BY <3>1, <3>2
    <2> QED BY <1>6, <2>1, <2>2 DEF FindConversation
  <1>7. CASE InsertMessage(d)
    BY <1>7 DEF InsertMessage
  <1>8. CASE MessageExists(d)
    BY <1>8, RollbackOwners DEF MessageExists
  <1>9. CASE Finish(d)
    <2>1. CASE Rollback(d, "changed")
      BY <2>1, RollbackOwners
    <2>2. CASE Commit(d)
      BY <2>2 DEF Commit, Release
    <2> QED BY <1>9, <2>1, <2>2 DEF Finish
  <1> QED BY <1>1, <1>2, <1>3, <1>4, <1>5, <1>6, <1>7, <1>8, <1>9 DEF DeliveryStep

LEMMA WorkerOwners ==
  ASSUME Inv, Owners, NEW w \in Workers, WorkerStep(w)
  PROVE  Owners'
  <1> USE DEF Inv, TypeOK, Owners, ContactOwner, ConversationOwner
  <1>1. CASE WorkerLocksConversation(w)
    BY <1>1 DEF WorkerLocksConversation
  <1>2. CASE WorkerLocksContact(w)
    BY <1>2 DEF WorkerLocksContact
  <1>3. CASE WorkerCommits(w)
    BY <1>3 DEF WorkerCommits, Release
  <1> QED BY <1>1, <1>2, <1>3 DEF WorkerStep

LEMMA OwnersStep == Inv /\ Owners /\ [Next]_vars => Owners'
  <1> SUFFICES ASSUME Inv, Owners, [Next]_vars PROVE Owners'
    OBVIOUS
  <1>1. ASSUME NEW d \in Deliveries, DeliveryStep(d) \/ Fails(d) PROVE Owners'
    BY <1>1, DeliveryOwners, RollbackOwners DEF Fails
  <1>2. ASSUME NEW w \in Workers, WorkerStep(w) \/ WorkerFails(w) PROVE Owners'
    BY <1>2, WorkerOwners, WorkerFailsOwners
  <1>3. ASSUME NEW a \in Actors, DeadlockVictim(a) PROVE Owners'
    BY <1>3, RollbackOwners, WorkerFailsOwners DEF DeadlockVictim
  <1>4. CASE UNCHANGED vars
    BY <1>4 DEF vars, Owners, ContactOwner, ConversationOwner
  <1> QED BY <1>1, <1>2, <1>3, <1>4 DEF Next

(* A delivery waits for deliveries that are further, a worker for workers    *)
(* that are further; none of them waits at its last place.                  *)
LEMMA DeliveriesWaitAhead ==
  ASSUME Inv, Owners, NEW d \in Deliveries, NEW e \in Deliveries, DeliveryWaitsFor(d) = e
  PROVE  \/ pc[d] = "contact" /\ pc[e] \in Ahead
         \/ pc[d] = "conversation" /\ pc[e] \in {"message", "commit"}
         \/ pc[d] = "message" /\ pc[e] = "commit"
  <1>1. /\ ContactOwner(ContactOf[d]) /\ ConversationOwner(ConversationOf[d])
        /\ MessageRowOK(MessageOf[d])
    BY DEF Inv, MessagesInv, Owners
  <1> QED BY <1>1 DEF DeliveryWaitsFor, ContactOwner, ConversationOwner, MessageRowOK

LEMMA WorkersWaitAhead ==
  ASSUME Inv, Owners, NEW w \in Workers, NEW v \in Workers, WorkerWaitsFor(w) = v
  PROVE  \/ work[w] = "idle" /\ work[v] \in {"claim", "conversation", "both"}
         \/ work[w] = "conversation" /\ work[v] = "both"
  <1>1. ConversationOwner(WorkOn[w])
    BY DEF Owners
  <1>2. work[w] = "conversation" => ContactOwner(ContactOn(WorkOn[w]))
    BY DEF Inv, TypeOK, WorkInv, WorkOK, Owners, ContactOn
  <1> QED BY <1>1, <1>2 DEF WorkerWaitsFor, ContactOwner, ConversationOwner

(* Every deadlock has a transaction of ingest and one of processing in it:   *)
(* deliveries alone, and workers alone, cannot wait for each other.         *)
THEOREM DeadlocksNeedBoth == Spec => []DeadlocksMix
  <1>1. Inv /\ Owners => DeadlocksMix
    <2> SUFFICES ASSUME Inv, Owners, NEW ring \in SUBSET Waiting, ring # {},
                        ring = {WaitsFor(b) : b \in ring}
                 PROVE  ring \cap Deliveries # {} /\ ring \cap Workers # {}
      BY DEF DeadlocksMix
    <2>1. \A a \in ring : a \in Deliveries \cup Workers /\ WaitsFor(a) \in ring
      BY DEF Waiting
    <2>2. ASSUME ring \subseteq Deliveries PROVE FALSE
      <3>1. ASSUME NEW d \in ring
            PROVE  DeliveryWaitsFor(d) \in ring /\ DeliveryWaitsFor(d) \in Deliveries
        BY <2>1, <2>2 DEF WaitsFor
      <3>2. \A d \in ring : pc[d] # "commit"
        BY <2>2, <3>1, DeliveriesWaitAhead
      <3>3. \A d \in ring : pc[d] # "message"
        BY <2>2, <3>1, <3>2, DeliveriesWaitAhead
      <3>4. \A d \in ring : pc[d] # "conversation"
        BY <2>2, <3>1, <3>2, <3>3, DeliveriesWaitAhead
      <3>5. \A d \in ring : pc[d] = "contact" /\ pc[DeliveryWaitsFor(d)] \in Ahead
        BY <2>2, <3>1, <3>2, <3>3, <3>4, DeliveriesWaitAhead
      <3> QED BY <3>1, <3>5 DEF Ahead
    <2>3. ASSUME ring \subseteq Workers PROVE FALSE
      <3>1. ASSUME NEW w \in ring
            PROVE  WorkerWaitsFor(w) \in ring /\ WorkerWaitsFor(w) \in Workers
        BY <2>1, <2>3 DEF WaitsFor
      <3>2. \A w \in ring : work[w] # "both"
        BY <2>3, <3>1, WorkersWaitAhead
      <3>3. \A w \in ring : work[w] = "idle" /\ work[WorkerWaitsFor(w)] # "idle"
        BY <2>3, <3>1, <3>2, WorkersWaitAhead
      <3> QED BY <3>1, <3>3
    <2> QED BY <2>1, <2>2, <2>3
  <1>2. Inv /\ Owners /\ [Next]_vars => Owners'
    BY OwnersStep
  <1> QED BY <1>1, <1>2, OwnersFirst, IngestInvariance, PTL DEF Spec
-----------------------------------------------------------------------------
(* What is stored changes only when a transaction commits.                   *)
LEMMA RollbackStores ==
  ASSUME Inv, NEW d \in Deliveries, pc[d] \in Working, NEW place, Rollback(d, place)
  PROVE  Stored' = Stored
  <1>1. d \notin committed
    BY DEF Inv, CommittedInv, CommittedOK
  <1>2. ASSUME NEW m \in Messages PROVE Stored'[m] = Stored[m]
    BY <1>1 DEF Inv, TypeOK, Stored, Rollback, Without
  <1> QED BY <1>2 DEF Stored

(* The answer of a delivery, and nobody else's, follows its place.           *)
LEMMA AnswerMoves ==
  ASSUME Inv, NEW d \in Deliveries, NEW place \in Working \cup Answers,
         pc[d] \in Working, Goto(d, place)
  PROVE  AnswerOf' = [AnswerOf EXCEPT ![d] = IF place \in Working THEN "none" ELSE place]
  BY DEF Inv, TypeOK, AnswerOf, Goto

LEMMA AnswerStays ==
  ASSUME Inv, NEW d \in Deliveries, NEW place \in Working, pc[d] \in Working, Goto(d, place)
  PROVE  AnswerOf' = AnswerOf
  BY DEF Inv, TypeOK, AnswerOf, Goto

LEMMA Open ==
  ASSUME Inv, NEW d \in Deliveries, pc[d] \in Working
  PROVE  AnswerOf[d] = "none"
  BY DEF AnswerOf

(* A transaction that ends without a commit is a failure, or silent.         *)
LEMMA FailureIsTold ==
  ASSUME Inv, NEW d \in Deliveries, pc[d] \in Working, Rollback(d, "failed")
  PROVE  Inbox!Fail(d)
  BY RollbackStores, AnswerMoves, Open DEF Rollback, Inbox!Fail, Inbox!Tell

LEMMA LookupAnswers ==
  ASSUME Inv, Inv', NEW d \in Deliveries, Lookup(d)
  PROVE  Inbox!Replay(d) \/ Inbox!Reject(d) \/ UNCHANGED <<Stored, AnswerOf>>
  <1> DEFINE by == messageBy[MessageOf[d]]
  <1>0. Stored' = Stored
    BY DEF Lookup, Stored
  <1>1. CASE by \in committed
    <2>1. Stored[MessageOf[d]] = by /\ by # None
      BY <1>1 DEF Inv, TypeOK, Stored
    <2>2. CASE PayloadOf[by] = PayloadOf[d]
      <3>1. Goto(d, "replayed")
        BY <1>1, <2>2 DEF Lookup
      <3>2. Inbox!Tell(d, "replayed")
        BY <3>1, AnswerMoves, Open DEF Lookup, Inbox!Tell
      <3> QED BY <1>0, <2>1, <2>2, <3>2 DEF Inbox!Replay
    <2>3. CASE PayloadOf[by] # PayloadOf[d]
      <3>1. Goto(d, "conflict")
        BY <1>1, <2>3 DEF Lookup
      <3>2. Inbox!Tell(d, "conflict")
        BY <3>1, AnswerMoves, Open DEF Lookup, Inbox!Tell
      <3> QED BY <1>0, <2>1, <2>3, <3>2 DEF Inbox!Reject
    <2> QED BY <2>2, <2>3
  <1>2. CASE by \notin committed
    <2>1. pc[d] = "start" /\ Goto(d, "contact")
      BY <1>2 DEF Inv, JobsInv, JobOK, Lookup
    <2> QED BY <1>0, <2>1, AnswerStays
  <1> QED BY <1>1, <1>2

(* A conversation with a contact of its own has a stored message of it.      *)
LEMMA ForeignIsTold ==
  ASSUME Inv, NEW d \in Deliveries, FindConversation(d), ~OwnConversation(d)
  PROVE  Inbox!RefuseConversation(d)
  <1> DEFINE e == conversationBy[ConversationOf[d]]
  <1>1. pc[d] = "conversation" /\ Rollback(d, "foreign")
    BY DEF FindConversation
  <1>2. e \in committed /\ ConversationOf[e] = ConversationOf[d] /\ ContactOf[e] # ContactOf[d]
    BY DEF Inv, ConversationsInv, ConversationRowOK, TypeOK, FindConversation, OwnConversation
  <1>3. e \in Deliveries /\ messageBy[MessageOf[e]] = e
    BY <1>2 DEF Inv, TypeOK, CommittedInv, CommittedOK
  <1>4. MessageOf[e] \in Messages /\ Stored[MessageOf[e]] = e /\ e # None
    BY <1>2, <1>3 DEF Stored
  <1>5. Inbox!Clashes(d)
    BY <1>2, <1>4 DEF Inbox!Clashes
  <1>6. Stored' = Stored
    BY <1>1, RollbackStores
  <1>7. Inbox!Tell(d, "foreign")
    BY <1>1, AnswerMoves, Open DEF Rollback, Inbox!Tell
  <1> QED BY <1>5, <1>6, <1>7 DEF Inbox!RefuseConversation

(* A commit stores a message that was not stored, in a conversation that is  *)
(* the contact's own.                                                       *)
LEMMA CommitStores ==
  ASSUME Inv, NEW d \in Deliveries, pc[d] = "commit", Commit(d)
  PROVE  Inbox!Store(d)
  <1>1. messageBy[MessageOf[d]] = d /\ d \notin committed /\ MessageOf[d] \in Messages
    BY DEF Inv, JobsInv, JobOK, CommittedInv, CommittedOK
  <1>2. Stored[MessageOf[d]] = None
    BY <1>1 DEF Stored
  <1>3. Stored' = [Stored EXCEPT ![MessageOf[d]] = d]
    <2>1. messageBy' = messageBy /\ committed' = committed \cup {d}
      BY DEF Commit
    <2>2. ASSUME NEW m \in Messages, m # MessageOf[d] PROVE Stored'[m] = Stored[m]
      BY <2>1, <2>2 DEF Inv, TypeOK, MessagesInv, MessageRowOK, Stored
    <2>3. Stored'[MessageOf[d]] = d
      BY <1>1, <2>1 DEF Stored
    <2> QED BY <2>2, <2>3 DEF Stored
  <1>4. ~Inbox!Clashes(d)
    <2> SUFFICES ASSUME NEW m \in Messages, Stored[m] # None,
                        ConversationOf[Stored[m]] = ConversationOf[d]
                 PROVE  ContactOf[Stored[m]] = ContactOf[d]
      BY DEF Inbox!Clashes
    <2>1. Stored[m] \in committed /\ Stored[m] \in Deliveries
      BY DEF Inv, TypeOK, Stored
    <2> QED BY <2>1 DEF Inv, CommittedInv, CommittedOK, JobsInv, JobOK, OwnConversation
  <1>5. Inbox!Tell(d, "created") \/ Inbox!Tell(d, "failed")
    <2>1. CASE Goto(d, "created")
      BY <2>1, AnswerMoves, Open DEF Inbox!Tell
    <2>2. CASE Goto(d, "failed")
      BY <2>2, AnswerMoves, Open DEF Inbox!Tell
    <2> QED BY <2>1, <2>2 DEF Commit
  <1> QED BY <1>2, <1>3, <1>4, <1>5 DEF Inbox!Store

(* The other steps of a delivery, and those of the workers, are silent.      *)
LEMMA SilentStep ==
  ASSUME Inv, NEW d \in Deliveries,
         \/ InsertContact(d)
         \/ FindContact(d)
         \/ InformContact(d)
         \/ InsertConversation(d)
         \/ FindConversation(d) /\ OwnConversation(d)
         \/ InsertMessage(d)
         \/ MessageExists(d)
  PROVE  UNCHANGED <<Stored, AnswerOf>>
  <1>1. CASE InsertContact(d)
    BY <1>1, AnswerStays DEF InsertContact, Stored
  <1>2. CASE FindContact(d)
    <2>1. \E place \in {"inform", "conversation"} : pc[d] = "contact" /\ Goto(d, place)
      BY <1>2 DEF FindContact
    <2> QED BY <1>2, <2>1, AnswerStays DEF FindContact, Stored
  <1>3. CASE InformContact(d)
    <2>1. pc[d] = "inform" /\ Goto(d, "conversation") /\ UNCHANGED rows
      BY <1>3 DEF Inv, JobsInv, JobOK, InformContact
    <2> QED BY <2>1, AnswerStays DEF Stored
  <1>4. CASE InsertConversation(d)
    BY <1>4, AnswerStays DEF InsertConversation, Stored
  <1>5. CASE FindConversation(d) /\ OwnConversation(d)
    BY <1>5, AnswerStays DEF FindConversation, Stored
  <1>6. CASE InsertMessage(d)
    <2>1. pc[d] = "message" /\ d \notin committed /\ messageBy[MessageOf[d]] = None
      BY <1>6 DEF InsertMessage, Inv, CommittedInv, CommittedOK
    <2>2. committed' = committed /\ messageBy' = [messageBy EXCEPT ![MessageOf[d]] = d]
      BY <1>6 DEF InsertMessage
    <2>3. ASSUME NEW m \in Messages PROVE Stored'[m] = Stored[m]
      BY <2>1, <2>2 DEF Inv, TypeOK, Stored
    <2> QED BY <1>6, <2>1, <2>3, AnswerStays DEF InsertMessage, Stored
  <1>7. CASE MessageExists(d)
    BY <1>7, RollbackStores, AnswerStays DEF MessageExists, Rollback
  <1> QED BY <1>1, <1>2, <1>3, <1>4, <1>5, <1>6, <1>7

LEMMA WorkersAreSilent ==
  ASSUME NEW w \in Workers, WorkerStep(w) \/ WorkerFails(w)
  PROVE  UNCHANGED <<Stored, AnswerOf>>
  <1>1. UNCHANGED <<messageBy, committed, pc>>
    BY DEF WorkerStep, WorkerLocksConversation, WorkerLocksContact, WorkerCommits, WorkerFails
  <1> QED BY <1>1 DEF Stored, AnswerOf

LEMMA StepImplements ==
  ASSUME Inv, Inv', [Next]_vars
  PROVE  [Inbox!Next]_<<Stored, AnswerOf>>
  <1> DEFINE Silent == UNCHANGED <<Stored, AnswerOf>>
  <1>1. ASSUME NEW d \in Deliveries, DeliveryStep(d) PROVE Inbox!Next \/ Silent
    <2>1. CASE Lookup(d) BY <2>1, LookupAnswers DEF Inbox!Next
    <2>2. CASE FindConversation(d) /\ ~OwnConversation(d)
      BY <2>2, ForeignIsTold DEF Inbox!Next
    <2>3. CASE Finish(d) BY <2>3, FinishCommits, CommitStores DEF Inbox!Next
    <2>4. CASE ~(Lookup(d) \/ Finish(d) \/ (FindConversation(d) /\ ~OwnConversation(d)))
      BY <1>1, <2>4, SilentStep DEF DeliveryStep
    <2> QED BY <2>1, <2>2, <2>3, <2>4
  <1>2. ASSUME NEW d \in Deliveries, Fails(d) PROVE Inbox!Next \/ Silent
    BY <1>2, FailureIsTold DEF Fails, Inbox!Next
  <1>3. ASSUME NEW w \in Workers, WorkerStep(w) \/ WorkerFails(w) PROVE Inbox!Next \/ Silent
    BY <1>3, WorkersAreSilent
  <1>4. ASSUME NEW a \in Actors, DeadlockVictim(a) PROVE Inbox!Next \/ Silent
    <2>1. CASE a \in Workers
      BY <1>4, <2>1, WorkersAreSilent DEF DeadlockVictim
    <2>2. CASE a \in Deliveries /\ a \notin Workers
      <3>1. pc[a] \in Working /\ Rollback(a, "failed")
        BY <1>4, <2>2, WaitingWork DEF DeadlockVictim, Deadlocked, Waiting
      <3> QED BY <2>2, <3>1, FailureIsTold DEF Inbox!Next
    <2> QED BY <2>1, <2>2
  <1>5. CASE UNCHANGED vars
    BY <1>5 DEF vars, Stored, AnswerOf
  <1> QED BY <1>1, <1>2, <1>3, <1>4, <1>5 DEF Next

(* Ingest implements MessageInbox: identities are stored once, answers fit   *)
(* what is stored, and a conversation is one contact's.                     *)
THEOREM IngestRefinement == Spec => ImplementsMessageInbox
  <1>1. Init => Inbox!Init
    BY DEF Init, Inbox!Init, Stored, AnswerOf
  <1>2. Inv /\ Inv' /\ [Next]_vars => [Inbox!Next]_<<Stored, AnswerOf>>
    BY StepImplements
  <1> QED BY <1>1, <1>2, IngestInvariance, PTL
    DEF Spec, ImplementsMessageInbox, Inbox!InboxSpec, Inbox!inbox
=============================================================================
