-------------------- MODULE ConversationProcessing_proofs --------------------
(***************************************************************************)
(* Proofs, for every set of messages, conversations, contacts, workers and *)
(* tokens and every context window, of the safety properties of            *)
(* ConversationProcessing.  The argument is about leases: a token is fresh *)
(* when it is given out, a conversation holds one token, and every change  *)
(* of a lead is made by the worker that holds the conversation's token.    *)
(***************************************************************************)
EXTENDS ConversationProcessing, FiniteSetTheorems, TLAPS

(* A worker about to record a conflict has lost its row or its conversation: *)
(* tokens are never reused, so it does not get them back.                    *)
ConflictMeansLost ==
  \A w \in Workers : job[w].pc = "failing" /\ job[w].failure = "conflict" =>
                       ~HoldsRow(w) \/ ~HoldsConversation(w)

LeaseInv ==
  /\ TypeOK
  /\ LeaseAgreement
  /\ FreshContext
  /\ ConflictMeansLost
  /\ RetriedOnlyByExpiry

(* The two ways a worker ends its claim with a change of rows: without and   *)
(* with an application of a result.                                          *)
Settle(w, status) ==
  /\ HoldsConversation(w)
  /\ Finish(w, status, conversation[ConvOf[job[w].message]].state)
  /\ GoIdle(w)
  /\ UNCHANGED business

MayApply(w) ==
  /\ job[w].pc = "extracted"
  /\ HoldsRow(w) /\ HoldsConversation(w)
  /\ OptedOut(w) \/ Paused(w) => draft[w].outcome = "opt_out"
  /\ Duplicates(w) = {} /\ ~AlreadyApplied(w)

Applies(w) ==
  /\ MayApply(w)
  /\ \E handedOff \in HandoffChoices(w), profileChanged \in BOOLEAN :
       Apply(w, handedOff, profileChanged)

Settled == {"blocked_do_not_contact", "blocked_handoff", "completed", "invalid_extraction"}
-----------------------------------------------------------------------------
(* A context is made of the messages it is selected from.                    *)
LEMMA SelectedAmong ==
  ASSUME NEW messages, NEW context \in Selections(messages)
  PROVE  context \subseteq messages
  BY DEF Selections, Eligible

LEMMA InitLeaseInv == Init => LeaseInv
  BY ConstantsAssumption
  DEF Init, LeaseInv, TypeOK, LeaseAgreement, FreshContext, ConflictMeansLost,
      RetriedOnlyByExpiry, Rows, Leases, Jobs, Scans, Drafts, ProcessingStatus, Terminal,
      Waiting, ConversationState, Failures, Idle, NoScan, NoDraft, None, Reading, Working

(* Whatever a working worker does is one of a few things. *)
Outcome(w) ==
  \/ GiveUp(w)
  \/ RollBack(w, "conflict") /\ (~HoldsRow(w) \/ ~HoldsConversation(w))
  \/ RollBack(w, "invalid_extraction")
  \/ \E status \in Settled : Settle(w, status)
  \/ job[w].pc = "claimed" /\ ReadContext(w)
  \/ /\ job[w].pc = "prepared"
     /\ \E context \in SUBSET Messages, outcome \in Outcomes :
          draft' = [draft EXCEPT ![w] = [@ EXCEPT !.context = context, !.outcome = outcome]]
     /\ job' = [job EXCEPT ![w].pc = "extracted"]
     /\ UNCHANGED <<rows, business, scan>>
  \/ Applies(w)

LEMMA WorkKinds ==
  ASSUME LeaseInv, NEW w \in Workers,
         Prepare(w) \/ Extract(w) \/ Finalize(w) \/ RecordFailure(w)
  PROVE  Working(w) /\ Outcome(w)
  <1>1. Working(w)
    BY DEF Prepare, Extract, Finalize, RecordFailure, Working
  <1> SUFFICES Outcome(w)
    BY <1>1
  <1>2. ASSUME NEW status \in Settled, CompleteBlocked(w, status) PROVE Outcome(w)
    <2>1. CASE LeaseLost(w)
      BY <1>2, <2>1 DEF CompleteBlocked, LeaseLost, Outcome
    <2>2. CASE ~LeaseLost(w)
      <3>1. Settle(w, status)
        BY <1>2, <2>2 DEF CompleteBlocked, LeaseLost, Settle
      <3> QED BY <3>1 DEF Outcome
    <2> QED BY <2>1, <2>2
  <1>3. CASE Prepare(w)
    <2>1. CASE RollBack(w, "conflict") /\ ~HoldsRow(w)
      BY <2>1 DEF Outcome
    <2>2. CASE CompleteBlocked(w, "blocked_do_not_contact")
      BY <1>2, <2>2 DEF Settled
    <2>3. CASE CompleteBlocked(w, "blocked_handoff")
      BY <1>2, <2>3 DEF Settled
    <2>4. CASE job[w].pc = "claimed" /\ ReadContext(w)
      BY <2>4 DEF Outcome
    <2> QED BY <1>3, <2>1, <2>2, <2>3, <2>4 DEF Prepare
  <1>4. CASE Extract(w)
    <2>1. CASE RollBack(w, "invalid_extraction")
      BY <2>1 DEF Outcome
    <2>2. CASE ~RollBack(w, "invalid_extraction")
      <3>1. PICK context \in Selections(draft[w].context) :
              /\ \E outcome \in OutcomesOf(context) : draft' =
                   [draft EXCEPT ![w] = [@ EXCEPT !.context = context, !.outcome = outcome]]
              /\ job[w].pc = "prepared" /\ job' = [job EXCEPT ![w].pc = "extracted"]
              /\ UNCHANGED <<rows, business, scan>>
        BY <1>4, <2>2 DEF Extract
      <3>2. context \in SUBSET Messages
        BY SelectedAmong DEF LeaseInv, TypeOK, Drafts
      <3>3. OutcomesOf(context) \subseteq Outcomes
        BY DEF OutcomesOf, Outcomes
      <3> QED BY <3>1, <3>2, <3>3 DEF Outcome
    <2> QED BY <2>1, <2>2
  <1>5. CASE Finalize(w)
    <2> DEFINE optOut == draft[w].outcome = "opt_out"
    <2>1. CASE Fenced(w)
      <3>1. RollBack(w, "conflict") /\ job[w].pc = "extracted"
        BY <1>5, <2>1 DEF Finalize
      <3>2. ~HoldsRow(w) \/ ~HoldsConversation(w)
        BY <2>1, <3>1 DEF Fenced, LeaseInv, FreshContext, Reading
      <3> QED BY <3>1, <3>2 DEF Outcome
    <2>2. CASE ~Fenced(w) /\ OptedOut(w) /\ ~optOut
      <3>1. CompleteBlocked(w, "blocked_do_not_contact")
        BY <1>5, <2>2 DEF Finalize
      <3> QED BY <1>2, <3>1 DEF Settled
    <2>3. CASE ~Fenced(w) /\ ~(OptedOut(w) /\ ~optOut) /\ Paused(w) /\ ~optOut
      <3>1. CompleteBlocked(w, "blocked_handoff")
        BY <1>5, <2>3 DEF Finalize
      <3> QED BY <1>2, <3>1 DEF Settled
    <2>4. CASE FinalizeDuplicate(w)
      <3>1. CASE GiveUp(w)
        BY <3>1 DEF Outcome
      <3>2. CASE CompleteBlocked(w, "completed")
        BY <1>2, <3>2 DEF Settled
      <3> QED BY <2>4, <3>1, <3>2 DEF FinalizeDuplicate
    <2>5. CASE /\ ~Fenced(w) /\ ~(OptedOut(w) /\ ~optOut) /\ ~(Paused(w) /\ ~optOut)
               /\ ~FinalizeDuplicate(w)
      <3>1. FinalizeNew(w) /\ Duplicates(w) = {} /\ job[w].pc = "extracted"
        BY <1>5, <2>5 DEF Finalize
      <3>2. PICK handedOff \in HandoffChoices(w), profileChanged \in BOOLEAN :
              IF AlreadyApplied(w) \/ ~Legal(w, handedOff) THEN GiveUp(w)
              ELSE IF LeaseLost(w) THEN RollBack(w, "conflict")
              ELSE Apply(w, handedOff, profileChanged)
        BY <3>1 DEF FinalizeNew
      <3>3. CASE AlreadyApplied(w) \/ ~Legal(w, handedOff)
        BY <3>2, <3>3 DEF Outcome
      <3>4. CASE ~AlreadyApplied(w) /\ Legal(w, handedOff) /\ LeaseLost(w)
        BY <3>2, <3>4 DEF LeaseLost, Outcome
      <3>5. CASE ~AlreadyApplied(w) /\ Legal(w, handedOff) /\ ~LeaseLost(w)
        <4>1. Apply(w, handedOff, profileChanged)
          BY <3>2, <3>5
        <4>2. MayApply(w)
          BY <2>5, <3>1, <3>5 DEF MayApply, Fenced, LeaseLost
        <4>3. Applies(w)
          BY <4>1, <4>2 DEF Applies
        <4> QED BY <4>3 DEF Outcome
      <3> QED BY <3>3, <3>4, <3>5
    <2> QED BY <1>5, <2>1, <2>2, <2>3, <2>4, <2>5
  <1>6. CASE RecordFailure(w)
    <2>1. CASE HoldsRow(w) /\ ~LeaseLost(w)
      <3>1. job[w].failure = "invalid_extraction"
        BY <1>6, <2>1 DEF RecordFailure, LeaseInv, ConflictMeansLost, LeaseLost, TypeOK,
                          Jobs, Failures
      <3>2. Settle(w, "invalid_extraction")
        BY <1>6, <2>1, <3>1 DEF RecordFailure, FailureStatus, Settle, LeaseLost
      <3> QED BY <3>2 DEF Outcome, Settled
    <2>2. CASE ~(HoldsRow(w) /\ ~LeaseLost(w))
      <3>1. GiveUp(w)
        BY <1>6, <2>2 DEF RecordFailure, GiveUp
      <3> QED BY <3>1 DEF Outcome
    <2> QED BY <2>1, <2>2
  <1> QED BY <1>3, <1>4, <1>5, <1>6

-----------------------------------------------------------------------------
(* What the parts of an action do to the rows and to the workers. *)
LEMMA Finished ==
  ASSUME TypeOK, NEW w \in Workers, Working(w), HoldsConversation(w),
         NEW status \in ProcessingStatus, NEW state \in ConversationState,
         Finish(w, status, state)
  PROVE  /\ processing' \in [Messages -> Rows]
         /\ conversation' \in [Conversations -> Leases]
         /\ live' \in SUBSET Tokens /\ aged' = aged
         /\ \A m \in Messages : processing'[m] =
              IF m = job[w].message THEN [status |-> status, token |-> None] ELSE processing[m]
         /\ \A c \in Conversations : conversation'[c] =
              IF c = ConvOf[job[w].message]
                THEN [state |-> state, message |-> None, token |-> None] ELSE conversation[c]
  <1> DEFINE lease == [state |-> state, message |-> None, token |-> None]
             row == [status |-> status, token |-> None]
             c == ConvOf[job[w].message]
  <1>1. job[w].message \in Messages /\ c \in Conversations
    BY ConstantsAssumption DEF TypeOK
  <1>2. row \in Rows /\ lease \in Leases
    BY DEF Rows, Leases
  <1>3. processing' = [processing EXCEPT ![job[w].message] = row]
    BY DEF Finish
  <1>4. conversation' = [conversation EXCEPT ![c] = lease]
    BY DEF Finish
  <1>5. live' \in SUBSET Tokens /\ aged' = aged
    BY DEF Finish, TypeOK
  <1> HIDE DEF lease, row, c
  <1>6. /\ processing' \in [Messages -> Rows]
        /\ \A m \in Messages : processing'[m] = IF m = job[w].message THEN row ELSE processing[m]
    BY <1>1, <1>2, <1>3 DEF TypeOK
  <1>7. /\ conversation' \in [Conversations -> Leases]
        /\ \A d \in Conversations : conversation'[d] = IF d = c THEN lease ELSE conversation[d]
    BY <1>1, <1>2, <1>4 DEF TypeOK
  <1> QED BY <1>5, <1>6, <1>7 DEF lease, row, c

(* The workers' part of TypeOK. *)
WorkersOK ==
  /\ job \in [Workers -> Jobs]
  /\ draft \in [Workers -> Drafts]
  /\ \A w \in Workers :
       /\ Working(w) => job[w].message \in Messages /\ job[w].token \in Tokens
       /\ job[w].pc = "extracted" => draft[w].outcome \in Outcomes
       /\ job[w].pc = "failing" => job[w].failure # "none"

LEMMA Idled ==
  ASSUME TypeOK, NEW w \in Workers, GoIdle(w)
  PROVE  /\ WorkersOK'
         /\ job'[w] = Idle
         /\ \A v \in Workers : v # w => job'[v] = job[v] /\ draft'[v] = draft[v]
  <1>1. Idle \in Jobs /\ NoDraft \in Drafts /\ Idle.pc = "idle"
    BY DEF Idle, NoDraft, Jobs, Drafts, Failures
  <1>2. job' = [job EXCEPT ![w] = Idle] /\ draft' = [draft EXCEPT ![w] = NoDraft]
    BY DEF GoIdle
  <1> QED BY <1>1, <1>2 DEF TypeOK, WorkersOK, Working

LEMMA RolledBack ==
  ASSUME TypeOK, NEW w \in Workers, Working(w), NEW failure \in Failures \ {"none"},
         RollBack(w, failure)
  PROVE  /\ WorkersOK'
         /\ job'[w].pc = "failing" /\ job'[w].failure = failure
         /\ job'[w].message = job[w].message /\ job'[w].token = job[w].token
         /\ \A v \in Workers : v # w => job'[v] = job[v] /\ draft'[v] = draft[v]
  <1> DEFINE rolled == [job[w] EXCEPT !.pc = "failing", !.failure = failure]
  <1>1. /\ rolled \in Jobs /\ NoDraft \in Drafts
        /\ rolled.pc = "failing" /\ rolled.failure = failure
        /\ rolled.message = job[w].message /\ rolled.token = job[w].token
    BY DEF NoDraft, Jobs, Drafts, TypeOK
  <1>2. job' = [job EXCEPT ![w] = rolled] /\ draft' = [draft EXCEPT ![w] = NoDraft]
    BY DEF RollBack
  <1> HIDE DEF rolled
  <1> QED BY <1>1, <1>2 DEF TypeOK, WorkersOK, Working

RowsOK ==
  /\ processing \in [Messages -> Rows]
  /\ conversation \in [Conversations -> Leases]
  /\ live \in SUBSET Tokens
  /\ aged \in Ageing \cup {None}

BusinessOK ==
  /\ doNotContact \in SUBSET Contacts
  /\ handoff \in SUBSET Conversations
  /\ question \in SUBSET Conversations
  /\ leadVersion \in [Conversations -> Nat]
  /\ executions \in SUBSET Executions

LEMMA TypeParts ==
  /\ TypeOK <=> RowsOK /\ BusinessOK /\ WorkersOK /\ scan \in [Workers -> Scans]
  /\ TypeOK' <=> RowsOK' /\ BusinessOK' /\ WorkersOK' /\ (scan \in [Workers -> Scans])'
  BY DEF TypeOK, RowsOK, BusinessOK, WorkersOK

LEMMA UnchangedParts ==
  /\ RowsOK /\ UNCHANGED rows => RowsOK'
  /\ BusinessOK /\ UNCHANGED business => BusinessOK'
  /\ WorkersOK /\ UNCHANGED <<job, draft>> => WorkersOK'
  /\ scan \in [Workers -> Scans] /\ UNCHANGED scan => (scan \in [Workers -> Scans])'
  <1>1. RowsOK /\ UNCHANGED rows => RowsOK'
    BY DEF RowsOK, rows
  <1>2. BusinessOK /\ UNCHANGED business => BusinessOK'
    BY DEF BusinessOK, business
  <1>3. WorkersOK /\ UNCHANGED <<job, draft>> => WorkersOK'
    BY DEF WorkersOK, Working
  <1> QED BY <1>1, <1>2, <1>3

(* A claim gives a worker a message and a token. *)
LEMMA Claimed ==
  ASSUME TypeOK, NEW w \in Workers, NEW m \in Messages, NEW t \in Tokens, ClaimLock(w, m, t)
  PROVE  /\ WorkersOK' /\ RowsOK' /\ (scan \in [Workers -> Scans])'
         /\ job'[w] = [pc |-> "claimed", message |-> m, token |-> t, failure |-> "none"]
         /\ \A v \in Workers : v # w => job'[v] = job[v]
         /\ \A n \in Messages : processing'[n] =
              IF n = m THEN [status |-> "processing", token |-> t] ELSE processing[n]
         /\ \A c \in Conversations : c # ConvOf[m] => conversation'[c] = conversation[c]
         /\ conversation'[ConvOf[m]].state = conversation[ConvOf[m]].state
         /\ conversation'[ConvOf[m]].message = m /\ conversation'[ConvOf[m]].token = t
  <1> DEFINE c == ConvOf[m]
             claim == [pc |-> "claimed", message |-> m, token |-> t, failure |-> "none"]
             row == [status |-> "processing", token |-> t]
             lease == [conversation[c] EXCEPT !.message = m, !.token = t]
  <1>1. c \in Conversations
    BY ConstantsAssumption
  <1>2. claim \in Jobs /\ row \in Rows /\ NoScan \in Scans
        /\ claim.pc = "claimed" /\ claim.message = m /\ claim.token = t
    BY DEF Jobs, Failures, Rows, ProcessingStatus, NoScan, Scans
  <1>3. /\ lease \in Leases
        /\ lease.state = conversation[c].state /\ lease.message = m /\ lease.token = t
    BY <1>1 DEF TypeOK, Leases
  <1>4. /\ processing' = [processing EXCEPT ![m] = row]
        /\ conversation' = [conversation EXCEPT ![c] = lease]
        /\ live' = live \cup {t}
        /\ job' = [job EXCEPT ![w] = claim]
        /\ scan' = [scan EXCEPT ![w] = NoScan]
        /\ draft' = draft /\ aged' = aged
    BY DEF ClaimLock
  <1> HIDE DEF c, claim, row, lease
  <1>5. RowsOK'
    BY <1>1, <1>2, <1>3, <1>4 DEF TypeOK, RowsOK
  <1>6. WorkersOK'
    BY <1>2, <1>4 DEF TypeOK, WorkersOK, Working
  <1>7. (scan \in [Workers -> Scans])'
    BY <1>2, <1>4 DEF TypeOK
  <1>8. \A n \in Messages : processing'[n] = IF n = m THEN row ELSE processing[n]
    BY <1>4 DEF TypeOK
  <1>9. /\ conversation'[c] = lease
        /\ \A d \in Conversations : d # c => conversation'[d] = conversation[d]
    BY <1>1, <1>4 DEF TypeOK
  <1>10. job'[w] = claim /\ \A v \in Workers : v # w => job'[v] = job[v]
    BY <1>4 DEF TypeOK
  <1> QED BY <1>3, <1>5, <1>6, <1>7, <1>8, <1>9, <1>10 DEF c, claim, row

LEMMA ContextRead ==
  ASSUME TypeOK, NEW w \in Workers, job[w].pc = "claimed", ReadContext(w)
  PROVE  /\ WorkersOK'
         /\ job'[w] = [job[w] EXCEPT !.pc = "prepared"]
         /\ job'[w].message = job[w].message /\ job'[w].token = job[w].token
         /\ draft'[w].version = leadVersion[ConvOf[job[w].message]]
         /\ \A v \in Workers : v # w => job'[v] = job[v] /\ draft'[v] = draft[v]
  <1> DEFINE c == ConvOf[job[w].message]
             read == [job[w] EXCEPT !.pc = "prepared"]
             new == [context |-> Ingested(c), outcome |-> "none", version |-> leadVersion[c]]
  <1>1. c \in Conversations
    BY ConstantsAssumption DEF TypeOK, Working
  <1>2. Ingested(c) \subseteq Messages
    BY DEF Ingested
  <1>3. read \in Jobs /\ read.pc = "prepared"
        /\ read.message = job[w].message /\ read.token = job[w].token
    BY DEF TypeOK, Jobs
  <1>4. new \in Drafts /\ new.version = leadVersion[c]
    BY <1>1, <1>2 DEF TypeOK, Drafts
  <1>5. job' = [job EXCEPT ![w] = read] /\ draft' = [draft EXCEPT ![w] = new]
    BY DEF ReadContext
  <1>6. Working(w)
    BY DEF Working
  <1> HIDE DEF c, read, new
  <1>7. WorkersOK'
    BY <1>3, <1>4, <1>5, <1>6 DEF TypeOK, WorkersOK, Working
  <1>8. job'[w] = read /\ draft'[w] = new
        /\ \A v \in Workers : v # w => job'[v] = job[v] /\ draft'[v] = draft[v]
    BY <1>5 DEF TypeOK
  <1> QED BY <1>3, <1>4, <1>7, <1>8 DEF c, read

LEMMA Extracted ==
  ASSUME TypeOK, NEW w \in Workers, NEW outcome \in Outcomes, NEW context \in SUBSET Messages,
         job[w].pc = "prepared",
         draft' = [draft EXCEPT ![w] = [@ EXCEPT !.context = context, !.outcome = outcome]],
         job' = [job EXCEPT ![w].pc = "extracted"]
  PROVE  /\ WorkersOK'
         /\ job'[w] = [job[w] EXCEPT !.pc = "extracted"]
         /\ job'[w].message = job[w].message /\ job'[w].token = job[w].token
         /\ draft'[w].version = draft[w].version
         /\ \A v \in Workers : v # w => job'[v] = job[v] /\ draft'[v] = draft[v]
  <1> DEFINE next == [job[w] EXCEPT !.pc = "extracted"]
             new == [draft[w] EXCEPT !.context = context, !.outcome = outcome]
  <1>1. next \in Jobs /\ next.pc = "extracted"
        /\ next.message = job[w].message /\ next.token = job[w].token
    BY DEF TypeOK, Jobs
  <1>2. new \in Drafts /\ new.version = draft[w].version /\ new.outcome = outcome
    BY DEF TypeOK, Drafts
  <1>3. job' = [job EXCEPT ![w] = next] /\ draft' = [draft EXCEPT ![w] = new]
    OBVIOUS
  <1>4. Working(w)
    BY DEF Working
  <1> HIDE DEF next, new
  <1>5. WorkersOK'
    BY <1>1, <1>2, <1>3, <1>4 DEF TypeOK, WorkersOK, Working
  <1>6. job'[w] = next /\ draft'[w] = new
        /\ \A v \in Workers : v # w => job'[v] = job[v] /\ draft'[v] = draft[v]
    BY <1>3 DEF TypeOK
  <1> QED BY <1>1, <1>2, <1>5, <1>6 DEF next

(* An application writes the business rows of one conversation and ends the *)
(* claim.                                                                   *)
Ends(w, status, state) ==
  /\ Working(w) /\ HoldsConversation(w)
  /\ Finish(w, status, state)
  /\ GoIdle(w)
  /\ \A c \in Conversations :
       c # ConvOf[job[w].message] => leadVersion'[c] = leadVersion[c]

LEMMA Applied ==
  ASSUME TypeOK, NEW w \in Workers, Applies(w)
  PROVE  BusinessOK' /\ \E state \in ConversationState : Ends(w, "completed", state)
  <1> DEFINE c == ConvOf[job[w].message]
             outcome == draft[w].outcome
  <1>1. PICK handedOff \in HandoffChoices(w), profileChanged \in BOOLEAN :
          Apply(w, handedOff, profileChanged)
    BY DEF Applies
  <1>2. job[w].pc = "extracted" /\ HoldsConversation(w) /\ Working(w)
    BY DEF Applies, MayApply, Working
  <1>3. /\ job[w].message \in Messages /\ c \in Conversations /\ ContactOf[c] \in Contacts
        /\ outcome \in Outcomes
    BY <1>2, ConstantsAssumption DEF TypeOK
  <1>4. Target(outcome, handedOff) \in ConversationState
    BY DEF Target, ConversationState
  <1>5. /\ executions' = executions \cup {[context |-> draft[w].context, outcome |-> outcome,
                                          message |-> job[w].message]}
        /\ doNotContact' \in {doNotContact, doNotContact \cup {ContactOf[c]}}
        /\ handoff' \in {handoff, handoff \ {c}, handoff \cup {c}}
        /\ question' = QuestionsAfter(c, outcome, handedOff, profileChanged)
        /\ leadVersion' = [leadVersion EXCEPT ![c] = @ + 1]
        /\ Finish(w, "completed", Target(outcome, handedOff))
        /\ GoIdle(w)
    BY <1>1 DEF Apply
  <1>6. question' \subseteq question \cup {c}
    BY <1>5 DEF QuestionsAfter
  <1>7. [context |-> draft[w].context, outcome |-> outcome,
         message |-> job[w].message] \in Executions
    BY <1>3 DEF TypeOK, Drafts, Executions
  <1> HIDE DEF c, outcome
  <1>8. leadVersion' \in [Conversations -> Nat]
    BY <1>3, <1>5 DEF TypeOK
  <1>9. BusinessOK'
    BY <1>3, <1>5, <1>6, <1>7, <1>8 DEF TypeOK, BusinessOK
  <1>10. \A d \in Conversations : d # c => leadVersion'[d] = leadVersion[d]
    BY <1>5 DEF TypeOK
  <1>11. Ends(w, "completed", Target(outcome, handedOff))
    BY <1>2, <1>5, <1>10 DEF Ends, c
  <1> QED BY <1>4, <1>9, <1>11

LEMMA Ended ==
  ASSUME TypeOK, NEW w \in Workers, NEW status \in Settled, Settle(w, status), Working(w)
  PROVE  BusinessOK' /\ \E state \in ConversationState : Ends(w, status, state)
  <1>1. conversation[ConvOf[job[w].message]].state \in ConversationState
    BY ConstantsAssumption DEF TypeOK, Leases
  <1>2. BusinessOK'
    BY TypeParts, UnchangedParts DEF Settle
  <1>3. Ends(w, status, conversation[ConvOf[job[w].message]].state)
    BY DEF Settle, Ends, business
  <1> QED BY <1>1, <1>2, <1>3
-----------------------------------------------------------------------------
(* The lease argument, by the kind of step. *)
Leased == LeaseAgreement /\ FreshContext /\ ConflictMeansLost /\ RetriedOnlyByExpiry

(* A step of one worker that changes no row. *)
LEMMA PrivateStep ==
  ASSUME LeaseInv, NEW w \in Workers, UNCHANGED <<rows, business>>,
         \A v \in Workers : v # w => job'[v] = job[v] /\ draft'[v] = draft[v],
         job'[w].pc \in {"prepared", "extracted", "failing"} =>
           job'[w].message = job[w].message /\ job'[w].token = job[w].token,
         job'[w].pc \in {"prepared", "extracted"} /\ HoldsConversation(w) =>
           draft'[w].version = leadVersion[ConvOf[job[w].message]],
         job'[w].pc = "failing" /\ job'[w].failure = "conflict" =>
           ~HoldsRow(w) \/ ~HoldsConversation(w)
  PROVE  Leased'
  <1>1. UNCHANGED <<processing, conversation, leadVersion>>
    BY DEF rows, business
  <1>2. LeaseAgreement' /\ RetriedOnlyByExpiry'
    BY <1>1 DEF LeaseInv, LeaseAgreement, RetriedOnlyByExpiry
  <1>3. FreshContext'
    BY <1>1 DEF LeaseInv, FreshContext, Reading, HoldsConversation
  <1>4. ConflictMeansLost'
    BY <1>1 DEF LeaseInv, ConflictMeansLost, HoldsRow, HoldsConversation
  <1> QED BY <1>2, <1>3, <1>4 DEF Leased

(* The end of a claim. *)
LEMMA EndStep ==
  ASSUME LeaseInv, NEW w \in Workers, NEW status \in Settled, NEW state \in ConversationState,
         Ends(w, status, state)
  PROVE  Leased'
  <1> DEFINE m == job[w].message
             c == ConvOf[m]
  <1>1. TypeOK /\ Working(w) /\ HoldsConversation(w) /\ GoIdle(w)
    BY DEF LeaseInv, Ends
  <1>2. m \in Messages /\ c \in Conversations
    BY <1>1, ConstantsAssumption DEF TypeOK
  <1>3. status \in ProcessingStatus
    BY DEF Settled, ProcessingStatus, Terminal
  <1>4. /\ \A n \in Messages : processing'[n] =
             IF n = m THEN [status |-> status, token |-> None] ELSE processing[n]
        /\ \A d \in Conversations : conversation'[d] =
             IF d = c THEN [state |-> state, message |-> None, token |-> None]
             ELSE conversation[d]
    BY <1>1, <1>3, Finished DEF Ends
  <1>5. job'[w] = Idle /\ \A v \in Workers : v # w => job'[v] = job[v] /\ draft'[v] = draft[v]
    BY <1>1, Idled
  <1>6. \A d \in Conversations : d # c => leadVersion'[d] = leadVersion[d]
    BY DEF Ends
  <1> HIDE DEF m
  <1>7. LeaseAgreement'
    BY <1>2, <1>4 DEF LeaseInv, LeaseAgreement
  <1>8. RetriedOnlyByExpiry'
    BY <1>4 DEF LeaseInv, RetriedOnlyByExpiry, Settled
  <1>9. \A v \in Workers : Working(v) => /\ job[v].message \in Messages
                                       /\ ConvOf[job[v].message] \in Conversations
                                       /\ job[v].token # None
    BY <1>1, ConstantsAssumption DEF TypeOK, None
  <1>10. FreshContext'
    <2> SUFFICES ASSUME NEW v \in Workers, Reading(v)', HoldsConversation(v)'
                 PROVE  (draft[v].version = leadVersion[ConvOf[job[v].message]])'
      BY DEF FreshContext
    <2>1. v # w
      BY <1>5 DEF Reading, Idle
    <2>2. job'[v] = job[v] /\ draft'[v] = draft[v] /\ Working(v) /\ Reading(v)
      BY <1>5, <2>1 DEF Reading, Working
    <2>3. ConvOf[job[v].message] # c
      BY <1>2, <1>4, <1>9, <2>2 DEF HoldsConversation
    <2> QED BY <1>4, <1>6, <1>9, <2>2, <2>3 DEF LeaseInv, FreshContext, HoldsConversation
  <1>11. ConflictMeansLost'
    <2> SUFFICES ASSUME NEW v \in Workers, job'[v].pc = "failing", job'[v].failure = "conflict",
                        HoldsRow(v)', HoldsConversation(v)'
                 PROVE  FALSE
      BY DEF ConflictMeansLost
    <2>1. v # w
      BY <1>5 DEF Idle
    <2>2. job'[v] = job[v] /\ Working(v)
      BY <1>5, <2>1 DEF Working
    <2>3. ConvOf[job[v].message] # c
      BY <1>2, <1>4, <1>9, <2>2 DEF HoldsConversation
    <2>4. HoldsRow(v) /\ HoldsConversation(v)
      BY <1>4, <1>9, <2>2, <2>3 DEF HoldsRow, HoldsConversation
    <2> QED BY <2>2, <2>4 DEF LeaseInv, ConflictMeansLost
  <1> QED BY <1>7, <1>8, <1>10, <1>11 DEF Leased

(* A claim: its token is new, so nobody holds it yet. *)
LEMMA ClaimStep ==
  ASSUME LeaseInv, NEW w \in Workers, NEW m \in Messages, NEW t \in Tokens, ClaimLock(w, m, t)
  PROVE  Leased'
  <1> DEFINE c == ConvOf[m]
  <1>1. TypeOK /\ c \in Conversations /\ t # None
    BY ConstantsAssumption DEF LeaseInv, None
  <1>2. /\ \A v \in Workers : job[v].token # t
        /\ \A d \in Conversations : conversation[d].token # t
    BY DEF ClaimLock, NewToken, Referenced
  <1>3. /\ job'[w] = [pc |-> "claimed", message |-> m, token |-> t, failure |-> "none"]
        /\ \A v \in Workers : v # w => job'[v] = job[v]
        /\ \A n \in Messages : processing'[n] =
             IF n = m THEN [status |-> "processing", token |-> t] ELSE processing[n]
        /\ \A d \in Conversations : d # c => conversation'[d] = conversation[d]
        /\ conversation'[c].message = m /\ conversation'[c].token = t
    BY <1>1, Claimed
  <1>4. draft' = draft /\ leadVersion' = leadVersion
    BY DEF ClaimLock, business
  <1>5. LeaseAgreement'
    <2> SUFFICES ASSUME NEW d \in Conversations, conversation'[d].token # None
                 PROVE  /\ conversation'[d].message \in Messages
                        /\ ConvOf[conversation'[d].message] = d
                        /\ processing'[conversation'[d].message] =
                             [status |-> "processing", token |-> conversation'[d].token]
      BY DEF LeaseAgreement
    <2>1. CASE d = c
      BY <1>3, <2>1
    <2>2. CASE d # c
      <3>1. conversation'[d] = conversation[d]
        BY <1>3, <2>2
      <3> QED BY <1>3, <2>2, <3>1 DEF LeaseInv, LeaseAgreement
    <2> QED BY <2>1, <2>2
  <1>6. RetriedOnlyByExpiry'
    BY <1>3 DEF LeaseInv, RetriedOnlyByExpiry
  <1>7. \A v \in Workers : Working(v) => /\ job[v].message \in Messages
                                       /\ ConvOf[job[v].message] \in Conversations
    BY <1>1, ConstantsAssumption DEF TypeOK
  <1>8. ASSUME NEW v \in Workers, v # w, Working(v), HoldsConversation(v)'
        PROVE  HoldsConversation(v) /\ ConvOf[job[v].message] # c
    BY <1>2, <1>3, <1>7, <1>8 DEF HoldsConversation
  <1>9. FreshContext'
    <2> SUFFICES ASSUME NEW v \in Workers, Reading(v)', HoldsConversation(v)'
                 PROVE  (draft[v].version = leadVersion[ConvOf[job[v].message]])'
      BY DEF FreshContext
    <2>1. v # w
      BY <1>3 DEF Reading
    <2>2. job'[v] = job[v] /\ Reading(v) /\ Working(v)
      BY <1>3, <2>1 DEF Reading, Working
    <2> QED BY <1>4, <1>8, <2>1, <2>2 DEF LeaseInv, FreshContext
  <1>10. ConflictMeansLost'
    <2> SUFFICES ASSUME NEW v \in Workers, job'[v].pc = "failing", job'[v].failure = "conflict",
                        HoldsRow(v)', HoldsConversation(v)'
                 PROVE  FALSE
      BY DEF ConflictMeansLost
    <2>1. v # w
      BY <1>3
    <2>2. job'[v] = job[v] /\ Working(v)
      BY <1>3, <2>1 DEF Working
    <2>3. HoldsConversation(v) /\ ConvOf[job[v].message] # c
      BY <1>8, <2>1, <2>2
    <2>4. HoldsRow(v)
      BY <1>3, <1>7, <2>2, <2>3 DEF HoldsRow
    <2> QED BY <2>2, <2>3, <2>4 DEF LeaseInv, ConflictMeansLost
  <1> QED BY <1>5, <1>6, <1>9, <1>10 DEF Leased

(* Arrival of a message and expiry of a lease. *)
LEMMA EnvironmentStep ==
  ASSUME LeaseInv, \/ \E m \in Messages : Ingest(m)
                   \/ \E t \in Tokens : LeaseExpires(t)
                   \/ \E m \in Ageing : GrowsOld(m)
  PROVE  TypeOK' /\ Leased'
  <1>1. TypeOK
    BY DEF LeaseInv
  <1>2. ASSUME NEW m \in Messages, Ingest(m) PROVE TypeOK' /\ Leased'
    <2> DEFINE row == [processing[m] EXCEPT !.status = "pending"]
    <2>1. /\ processing[m] \in Rows /\ processing[m].status = "absent"
          /\ processing' = [processing EXCEPT ![m] = row]
          /\ UNCHANGED <<conversation, live, aged, business, job, scan, draft>>
      BY <1>1, <1>2 DEF Ingest, TypeOK, local
    <2>2. row \in Rows /\ row.status = "pending"
      BY <2>1 DEF Rows, ProcessingStatus, Waiting
    <2> HIDE DEF row
    <2>3. RowsOK'
      BY <1>1, <2>1, <2>2 DEF TypeOK, RowsOK
    <2>4. TypeOK'
      BY <1>1, <2>1, <2>3, TypeParts, UnchangedParts
    <2>5. \A n \in Messages : processing'[n] = IF n = m THEN row ELSE processing[n]
      BY <1>1, <2>1 DEF TypeOK
    <2>6. \A n \in Messages, t \in Tokens :
            processing[n] = [status |-> "processing", token |-> t] => n # m
      BY <2>1
    <2>7. LeaseAgreement'
      BY <1>1, <2>1, <2>5, <2>6 DEF LeaseInv, LeaseAgreement, TypeOK, Leases
    <2>8. RetriedOnlyByExpiry'
      BY <2>2, <2>5 DEF LeaseInv, RetriedOnlyByExpiry
    <2>9. leadVersion' = leadVersion
      BY <2>1 DEF business
    <2>10. FreshContext'
      BY <2>1, <2>9 DEF LeaseInv, FreshContext, Reading, HoldsConversation
    <2>11. ConflictMeansLost'
      <3> SUFFICES ASSUME NEW v \in Workers, job[v].pc = "failing", job[v].failure = "conflict",
                          HoldsRow(v)', HoldsConversation(v)'
                   PROVE  FALSE
        BY <2>1 DEF ConflictMeansLost
      <3>1. job[v].message \in Messages
        BY <1>1 DEF TypeOK, Working
      <3>2. HoldsRow(v) /\ HoldsConversation(v)
        BY <2>1, <2>2, <2>5, <3>1 DEF HoldsRow, HoldsConversation
      <3> QED BY <3>2 DEF LeaseInv, ConflictMeansLost
    <2> QED BY <2>4, <2>7, <2>8, <2>10, <2>11 DEF Leased
  <1>3. CASE (\E t \in Tokens : LeaseExpires(t)) \/ (\E m \in Ageing : GrowsOld(m))
    <2>1. UNCHANGED <<processing, conversation, business, job, scan, draft>>
      BY <1>3 DEF LeaseExpires, GrowsOld, local
    <2>2. RowsOK'
      BY <1>1, <1>3 DEF LeaseExpires, GrowsOld, TypeOK, RowsOK
    <2>3. TypeOK'
      BY <1>1, <2>1, <2>2, TypeParts, UnchangedParts
    <2>4. leadVersion' = leadVersion
      BY <2>1 DEF business
    <2>5. LeaseAgreement' /\ RetriedOnlyByExpiry'
      BY <2>1 DEF LeaseInv, LeaseAgreement, RetriedOnlyByExpiry
    <2>6. FreshContext' /\ ConflictMeansLost'
      BY <2>1, <2>4 DEF LeaseInv, FreshContext, Reading, HoldsConversation, ConflictMeansLost,
                        HoldsRow
    <2> QED BY <2>3, <2>5, <2>6 DEF Leased
  <1> QED BY <1>2, <1>3

(* What a working worker does, whatever it is. *)
LEMMA WorkStep ==
  ASSUME LeaseInv, NEW w \in Workers,
         Prepare(w) \/ Extract(w) \/ Finalize(w) \/ RecordFailure(w)
  PROVE  TypeOK' /\ Leased'
  <1>1. Working(w) /\ Outcome(w) /\ TypeOK
    BY WorkKinds DEF LeaseInv
  <1>2. RowsOK /\ BusinessOK /\ WorkersOK /\ scan \in [Workers -> Scans]
    BY <1>1, TypeParts
  <1>3. CASE GiveUp(w)
    <2>1. UNCHANGED <<rows, business, scan>> /\ GoIdle(w)
      BY <1>3 DEF GiveUp, GoIdle
    <2>2. WorkersOK' /\ job'[w] = Idle
          /\ \A v \in Workers : v # w => job'[v] = job[v] /\ draft'[v] = draft[v]
      BY <1>1, <2>1, Idled
    <2>3. TypeOK'
      BY <1>2, <2>1, <2>2, TypeParts, UnchangedParts
    <2>4. Leased'
      BY <2>1, <2>2, PrivateStep DEF Idle
    <2> QED BY <2>3, <2>4
  <1>4. ASSUME NEW failure \in Failures \ {"none"}, RollBack(w, failure),
               failure = "conflict" => ~HoldsRow(w) \/ ~HoldsConversation(w)
        PROVE  TypeOK' /\ Leased'
    <2>1. UNCHANGED <<rows, business, scan>>
      BY <1>4 DEF RollBack
    <2>2. /\ WorkersOK'
          /\ job'[w].pc = "failing" /\ job'[w].failure = failure
          /\ job'[w].message = job[w].message /\ job'[w].token = job[w].token
          /\ \A v \in Workers : v # w => job'[v] = job[v] /\ draft'[v] = draft[v]
      BY <1>1, <1>4, RolledBack
    <2>3. TypeOK'
      BY <1>2, <2>1, <2>2, TypeParts, UnchangedParts
    <2>4. Leased'
      BY <1>4, <2>1, <2>2, PrivateStep
    <2> QED BY <2>3, <2>4
  <1>5. ASSUME NEW status \in Settled, BusinessOK',
               \E state \in ConversationState : Ends(w, status, state)
        PROVE  TypeOK' /\ Leased'
    <2>1. PICK state \in ConversationState : Ends(w, status, state)
      BY <1>5
    <2>2. status \in ProcessingStatus
      BY DEF Settled, ProcessingStatus, Terminal
    <2>3. RowsOK'
      BY <1>1, <2>1, <2>2, Finished DEF Ends, RowsOK, TypeOK
    <2>4. WorkersOK' /\ UNCHANGED scan
      BY <1>1, <2>1, Idled DEF Ends, GoIdle
    <2>5. TypeOK'
      BY <1>2, <1>5, <2>3, <2>4, TypeParts, UnchangedParts
    <2>6. Leased'
      BY <2>1, EndStep
    <2> QED BY <2>5, <2>6
  <1>6. CASE job[w].pc = "claimed" /\ ReadContext(w)
    <2>1. UNCHANGED <<rows, business, scan>>
      BY <1>6 DEF ReadContext
    <2>2. /\ WorkersOK'
          /\ job'[w] = [job[w] EXCEPT !.pc = "prepared"]
          /\ job'[w].message = job[w].message /\ job'[w].token = job[w].token
          /\ draft'[w].version = leadVersion[ConvOf[job[w].message]]
          /\ \A v \in Workers : v # w => job'[v] = job[v] /\ draft'[v] = draft[v]
      BY <1>1, <1>6, ContextRead
    <2>3. job'[w].pc = "prepared"
      BY <1>1, <2>2 DEF TypeOK, Jobs
    <2>4. TypeOK'
      BY <1>2, <2>1, <2>2, TypeParts, UnchangedParts
    <2>5. Leased'
      BY <2>1, <2>2, <2>3, PrivateStep
    <2> QED BY <2>4, <2>5
  <1>7. CASE /\ job[w].pc = "prepared"
             /\ \E context \in SUBSET Messages, outcome \in Outcomes :
                  draft' = [draft EXCEPT ![w] =
                              [@ EXCEPT !.context = context, !.outcome = outcome]]
             /\ job' = [job EXCEPT ![w].pc = "extracted"]
             /\ UNCHANGED <<rows, business, scan>>
    <2>1. UNCHANGED <<rows, business, scan>>
      BY <1>7
    <2>2. /\ WorkersOK'
          /\ job'[w] = [job[w] EXCEPT !.pc = "extracted"]
          /\ job'[w].message = job[w].message /\ job'[w].token = job[w].token
          /\ draft'[w].version = draft[w].version
          /\ \A v \in Workers : v # w => job'[v] = job[v] /\ draft'[v] = draft[v]
      BY <1>1, <1>7, Extracted
    <2>3. job'[w].pc = "extracted"
      BY <1>1, <2>2 DEF TypeOK, Jobs
    <2>4. HoldsConversation(w) => draft[w].version = leadVersion[ConvOf[job[w].message]]
      BY <1>7 DEF LeaseInv, FreshContext, Reading
    <2>5. TypeOK'
      BY <1>2, <2>1, <2>2, TypeParts, UnchangedParts
    <2>6. Leased'
      BY <2>1, <2>2, <2>3, <2>4, PrivateStep
    <2> QED BY <2>5, <2>6
  <1>8. CASE \E status \in Settled : Settle(w, status)
    BY <1>1, <1>5, <1>8, Ended
  <1>9. CASE Applies(w)
    BY <1>1, <1>5, <1>9, Applied DEF Settled
  <1>10. {"conflict", "invalid_extraction"} \subseteq Failures \ {"none"}
    BY DEF Failures
  <1> QED BY <1>1, <1>3, <1>4, <1>6, <1>7, <1>8, <1>9, <1>10 DEF Outcome

(* Scanning, finding nothing and abandoning concern the worker alone. *)
LEMMA AsideStep ==
  ASSUME LeaseInv, NEW w \in Workers, ClaimScan(w) \/ ClaimNothing(w) \/ Abandon(w)
  PROVE  TypeOK' /\ Leased'
  <1>1. TypeOK
    BY DEF LeaseInv
  <1>2. RowsOK /\ BusinessOK /\ WorkersOK /\ scan \in [Workers -> Scans]
    BY <1>1, TypeParts
  <1>3. UNCHANGED <<rows, business>>
    BY DEF ClaimScan, ClaimNothing, Abandon
  <1>4. /\ WorkersOK'
        /\ job'[w].pc \in {"scanned", "idle"}
        /\ \A v \in Workers : v # w => job'[v] = job[v] /\ draft'[v] = draft[v]
    <2>1. Idle \in Jobs /\ NoDraft \in Drafts /\ Idle.pc = "idle"
      BY DEF Idle, NoDraft, Jobs, Drafts, Failures
    <2>2. CASE ClaimScan(w)
      <3> DEFINE scanning == [job[w] EXCEPT !.pc = "scanned"]
      <3>1. scanning \in Jobs /\ scanning.pc = "scanned"
        BY <1>1 DEF TypeOK, Jobs
      <3>2. job' = [job EXCEPT ![w] = scanning] /\ draft' = draft
        BY <2>2 DEF ClaimScan
      <3> HIDE DEF scanning
      <3> QED BY <1>1, <3>1, <3>2 DEF TypeOK, WorkersOK, Working
    <2>3. CASE ClaimNothing(w)
      BY <1>1, <2>1, <2>3 DEF ClaimNothing, TypeOK, WorkersOK, Working
    <2>4. CASE Abandon(w)
      BY <1>1, <2>1, <2>4 DEF Abandon, TypeOK, WorkersOK, Working
    <2> QED BY <2>2, <2>3, <2>4
  <1>5. (scan \in [Workers -> Scans])'
    <2>1. NoScan \in Scans
      BY DEF NoScan, Scans
    <2>2. CASE ClaimScan(w)
      <3> DEFINE snapshot == [seen |-> Candidates,
                              expired |-> {t \in Tokens \ live : \E c \in Conversations :
                                                                  conversation[c].token = t}]
      <3>1. snapshot \in Scans
        BY DEF Scans, Candidates
      <3>2. scan' = [scan EXCEPT ![w] = snapshot]
        BY <2>2 DEF ClaimScan
      <3> HIDE DEF snapshot
      <3> QED BY <1>2, <3>1, <3>2
    <2>3. CASE ClaimNothing(w) \/ Abandon(w)
      BY <1>2, <2>1, <2>3 DEF ClaimNothing, Abandon
    <2> QED BY <2>2, <2>3
  <1>6. TypeOK'
    BY <1>2, <1>3, <1>4, <1>5, TypeParts, UnchangedParts
  <1>7. Leased'
    BY <1>3, <1>4, PrivateStep
  <1> QED BY <1>6, <1>7

LEMMA LeaseStep == LeaseInv /\ [Next]_vars => LeaseInv'
  <1> SUFFICES ASSUME LeaseInv, [Next]_vars PROVE TypeOK' /\ Leased'
    BY DEF LeaseInv, Leased
  <1>1. CASE \/ \E m \in Messages : Ingest(m)
             \/ \E t \in Tokens : LeaseExpires(t)
             \/ \E m \in Ageing : GrowsOld(m)
    BY <1>1, EnvironmentStep
  <1>2. CASE \E w \in Workers : ClaimScan(w) \/ ClaimNothing(w) \/ Abandon(w)
    BY <1>2, AsideStep
  <1>3. CASE \E w \in Workers : Prepare(w) \/ Extract(w) \/ Finalize(w) \/ RecordFailure(w)
    BY <1>3, WorkStep
  <1>4. ASSUME NEW w \in Workers, NEW m \in Messages, NEW t \in Tokens, ClaimLock(w, m, t)
        PROVE  TypeOK' /\ Leased'
    <2>1. TypeOK /\ BusinessOK
      BY TypeParts DEF LeaseInv
    <2>2. WorkersOK' /\ RowsOK' /\ (scan \in [Workers -> Scans])'
      BY <1>4, <2>1, Claimed
    <2>3. BusinessOK'
      BY <1>4, <2>1, UnchangedParts DEF ClaimLock
    <2>4. Leased'
      BY <1>4, ClaimStep
    <2> QED BY <2>2, <2>3, <2>4, TypeParts
  <1>5. CASE UNCHANGED vars
    <2>1. UNCHANGED <<rows, business, scan, job, draft>>
      BY <1>5 DEF vars, local
    <2>2. UNCHANGED <<processing, conversation, leadVersion>>
      BY <2>1 DEF rows, business
    <2>3. TypeOK'
      BY <2>1, TypeParts, UnchangedParts DEF LeaseInv
    <2>4. Leased'
      BY <2>1, <2>2 DEF LeaseInv, Leased, LeaseAgreement, FreshContext, ConflictMeansLost,
                        RetriedOnlyByExpiry, Reading, HoldsRow, HoldsConversation
    <2> QED BY <2>3, <2>4
  <1> QED BY <1>1, <1>2, <1>3, <1>4, <1>5 DEF Next, Step

(* The lease invariant holds in every reachable state. *)
THEOREM LeaseInvariance == Spec => []LeaseInv
  BY InitLeaseInv, LeaseStep, PTL DEF Spec

(* The rows and the workers hold values of their types. *)
THEOREM ProcessingTypeCorrect == Spec => []TypeOK
  BY LeaseInvariance, PTL DEF LeaseInv

(* A leased conversation and the row of its message are one claim.          *)
THEOREM LeasesAgree == Spec => []LeaseAgreement
  BY LeaseInvariance, PTL DEF LeaseInv

(* The holder of a conversation's lease has read the current lead, so its   *)
(* result is applied on the context it was computed from.                   *)
THEOREM ContextIsFresh == Spec => []FreshContext
  BY LeaseInvariance, PTL DEF LeaseInv

(* No conversation message becomes retryable or permanently failed: the     *)
(* expiry of a lease is the only retry.                                     *)
THEOREM ExpiryIsTheOnlyRetry == Spec => []RetriedOnlyByExpiry
  BY LeaseInvariance, PTL DEF LeaseInv
-----------------------------------------------------------------------------
(* Only an application changes business rows or the state of a conversation. *)
Quiet == UNCHANGED business /\ \A c \in Conversations : conversation'[c].state = conversation[c].state

LEMMA ClaimIsQuiet ==
  ASSUME LeaseInv, NEW w \in Workers, NEW m \in Messages, NEW t \in Tokens, ClaimLock(w, m, t)
  PROVE  Quiet
  <1> DEFINE c == ConvOf[m]
  <1>1. TypeOK /\ c \in Conversations
    BY ConstantsAssumption DEF LeaseInv
  <1>2. /\ job'[w] = [pc |-> "claimed", message |-> m, token |-> t, failure |-> "none"]
        /\ \A v \in Workers : v # w => job'[v] = job[v]
        /\ \A n \in Messages : processing'[n] =
             IF n = m THEN [status |-> "processing", token |-> t] ELSE processing[n]
        /\ \A d \in Conversations : d # c => conversation'[d] = conversation[d]
        /\ conversation'[c].state = conversation[c].state
    BY <1>1, Claimed
  <1>3. UNCHANGED business
    BY DEF ClaimLock
  <1> HIDE DEF c
  <1>4. ASSUME NEW d \in Conversations
        PROVE  conversation'[d].state = conversation[d].state
    BY <1>2
  <1> QED BY <1>3, <1>4 DEF Quiet

LEMMA QuietOrApplies ==
  ASSUME LeaseInv, [Next]_vars
  PROVE  Quiet \/ \E w \in Workers : Applies(w)
  <1>1. TypeOK
    BY DEF LeaseInv
  <1>2. UNCHANGED <<rows, business>> => Quiet
    BY DEF rows, Quiet
  <1>3. CASE \E m \in Messages : Ingest(m)
    BY <1>3 DEF Ingest, Quiet
  <1>4. CASE (\E t \in Tokens : LeaseExpires(t)) \/ (\E m \in Ageing : GrowsOld(m))
    BY <1>4 DEF LeaseExpires, GrowsOld, Quiet
  <1>5. CASE \E w \in Workers : ClaimScan(w) \/ ClaimNothing(w) \/ Abandon(w)
    BY <1>2, <1>5 DEF ClaimScan, ClaimNothing, Abandon
  <1>6. CASE \E w \in Workers, m \in Messages, t \in Tokens : ClaimLock(w, m, t)
    BY <1>6, ClaimIsQuiet
  <1>7. ASSUME NEW w \in Workers,
               Prepare(w) \/ Extract(w) \/ Finalize(w) \/ RecordFailure(w)
        PROVE  Quiet \/ Applies(w)
    <2>1. Working(w) /\ Outcome(w)
      BY <1>7, WorkKinds
    <2>2. ASSUME NEW status \in Settled, Settle(w, status) PROVE Quiet
      <3> DEFINE c == ConvOf[job[w].message]
      <3>1. status \in ProcessingStatus
        BY DEF Settled, ProcessingStatus, Terminal
      <3>2. c \in Conversations /\ conversation[c].state \in ConversationState
        BY <1>1, <2>1, ConstantsAssumption DEF TypeOK, Leases
      <3>3. /\ HoldsConversation(w) /\ Finish(w, status, conversation[c].state)
            /\ UNCHANGED business
        BY <2>2 DEF Settle
      <3>4. \A d \in Conversations : conversation'[d] =
              IF d = c THEN [state |-> conversation[c].state, message |-> None, token |-> None]
              ELSE conversation[d]
        BY <1>1, <2>1, <3>1, <3>2, <3>3, Finished
      <3> QED BY <3>2, <3>3, <3>4 DEF Quiet
    <2>3. CASE GiveUp(w) \/ RollBack(w, "conflict") \/ RollBack(w, "invalid_extraction")
               \/ ReadContext(w) \/ UNCHANGED <<rows, business, scan>>
      BY <1>2, <2>3 DEF GiveUp, RollBack, ReadContext
    <2> QED BY <2>1, <2>2, <2>3 DEF Outcome
  <1>8. CASE UNCHANGED vars
    BY <1>2, <1>8 DEF vars
  <1> QED BY <1>3, <1>4, <1>5, <1>6, <1>7, <1>8 DEF Next, Step

(* What an application does to the conversation it is for, by outcome; the  *)
(* other conversations keep their state, handoff and question.              *)
OptOutApplied(c) ==
  /\ doNotContact' = doNotContact \cup {ContactOf[c]}
  /\ handoff' = handoff \ {c} /\ question' = question \ {c}
  /\ conversation'[c].state = "do_not_contact"

HandoffApplied(c) ==
  /\ doNotContact' = doNotContact /\ c \notin handoff
  /\ handoff' = handoff \cup {c} /\ question' = question \ {c}
  /\ conversation'[c].state = "waiting_human"

AnswerApplied(c) ==
  /\ doNotContact' = doNotContact
  /\ handoff' = handoff /\ c \notin handoff
  /\ \/ question' = question \cup {c} /\ conversation'[c].state = "waiting_customer"
     \/ question' \in {question, question \ {c}} /\ conversation'[c].state = "qualifying"

LEMMA ApplicationStory ==
  ASSUME LeaseInv, NEW w \in Workers, Applies(w)
  PROVE  LET c == ConvOf[job[w].message]
         IN  /\ c \in Conversations
             /\ \A d \in Conversations : d # c => conversation'[d].state = conversation[d].state
             /\ \/ OptOutApplied(c)
                \/ ~OptedOut(w) /\ (HandoffApplied(c) \/ AnswerApplied(c))
  <1> DEFINE c == ConvOf[job[w].message]
             outcome == draft[w].outcome
  <1>1. TypeOK /\ MayApply(w)
    BY DEF LeaseInv, Applies
  <1>2. PICK handedOff \in HandoffChoices(w), profileChanged \in BOOLEAN :
          Apply(w, handedOff, profileChanged)
    BY DEF Applies
  <1>3. Working(w) /\ HoldsConversation(w) /\ c \in Conversations
    BY <1>1, ConstantsAssumption DEF MayApply, Working, TypeOK
  <1>4. outcome \in Outcomes
    BY <1>1 DEF TypeOK, MayApply
  <1>5. Target(outcome, handedOff) \in ConversationState /\ "completed" \in ProcessingStatus
    BY DEF Target, ConversationState, ProcessingStatus, Terminal
  <1>6. \A d \in Conversations : conversation'[d] =
          IF d = c THEN [state |-> Target(outcome, handedOff), message |-> None, token |-> None]
          ELSE conversation[d]
    <2>1. Finish(w, "completed", Target(outcome, handedOff))
      BY <1>2 DEF Apply
    <2> QED BY <1>1, <1>3, <1>5, <2>1, Finished
  <1>7. conversation'[c].state = Target(outcome, handedOff)
    BY <1>3, <1>6
  <1>8. \A d \in Conversations : d # c => conversation'[d].state = conversation[d].state
    BY <1>6
  <1>9. /\ doNotContact' = IF outcome = "opt_out"
                            THEN doNotContact \cup {ContactOf[c]} ELSE doNotContact
        /\ handoff' = IF outcome = "opt_out" THEN handoff \ {c}
                      ELSE IF handedOff THEN handoff \cup {c} ELSE handoff
        /\ question' = QuestionsAfter(c, outcome, handedOff, profileChanged)
    BY <1>2 DEF Apply
  <1>10. OptedOut(w) \/ c \in handoff => outcome = "opt_out"
    BY <1>1 DEF MayApply, Paused
  <1> HIDE DEF c, outcome
  <1>11. CASE outcome = "opt_out"
    <2>1. question' = question \ {c}
      BY <1>9, <1>11 DEF QuestionsAfter
    <2>2. conversation'[c].state = "do_not_contact"
      BY <1>7, <1>11 DEF Target
    <2>3. OptOutApplied(c)
      BY <1>9, <1>11, <2>1, <2>2 DEF OptOutApplied
    <2> QED BY <1>3, <1>8, <2>3 DEF c
  <1>12. CASE outcome # "opt_out" /\ handedOff
    <2>1. question' = question \ {c}
      BY <1>9, <1>12 DEF QuestionsAfter
    <2>2. conversation'[c].state = "waiting_human"
      BY <1>7, <1>12 DEF Target
    <2>3. HandoffApplied(c)
      BY <1>9, <1>10, <1>12, <2>1, <2>2 DEF HandoffApplied
    <2> QED BY <1>3, <1>8, <1>10, <1>12, <2>3 DEF c
  <1>13. CASE outcome # "opt_out" /\ ~handedOff
    <2>1. ASSUME outcome = "ask" PROVE AnswerApplied(c)
      <3>1. question' = question \cup {c}
        BY <1>9, <1>13, <2>1 DEF QuestionsAfter
      <3>2. conversation'[c].state = "waiting_customer"
        BY <1>7, <1>13, <2>1 DEF Target
      <3> QED BY <1>9, <1>10, <1>13, <3>1, <3>2 DEF AnswerApplied
    <2>2. ASSUME outcome # "ask" PROVE AnswerApplied(c)
      <3>1. question' \in {question, question \ {c}}
        BY <1>9, <1>13, <2>2 DEF QuestionsAfter
      <3>2. conversation'[c].state = "qualifying"
        BY <1>7, <1>13, <2>2 DEF Target
      <3> QED BY <1>9, <1>10, <1>13, <3>1, <3>2 DEF AnswerApplied
    <2>3. AnswerApplied(c)
      BY <2>1, <2>2
    <2> QED BY <1>3, <1>8, <1>10, <1>13, <2>3 DEF c
  <1> QED BY <1>11, <1>12, <1>13
-----------------------------------------------------------------------------
ConsistentAt(c) ==
  /\ conversation[c].state = "waiting_human" <=> c \in handoff
  /\ conversation[c].state = "waiting_customer" => c \in question
  /\ c \in question => conversation[c].state \in {"qualifying", "waiting_customer"}
  /\ conversation[c].state = "do_not_contact" => ContactOf[c] \in doNotContact

(* The story of a conversation survives every step: most steps do not touch *)
(* it, and an application writes state, handoff and question together.      *)
LEMMA ConsistentStep ==
  ASSUME LeaseInv, ConversationConsistent, [Next]_vars
  PROVE  ConversationConsistent'
  <1>1. \A d \in Conversations : ConsistentAt(d)
    BY DEF ConversationConsistent, ConsistentAt
  <1>2. CASE Quiet
    BY <1>1, <1>2 DEF Quiet, ConversationConsistent, ConsistentAt, business
  <1>3. ASSUME NEW w \in Workers, Applies(w) PROVE ConversationConsistent'
    <2>1. PICK c \in Conversations :
          /\ \A d \in Conversations : d # c => conversation'[d].state = conversation[d].state
          /\ OptOutApplied(c) \/ HandoffApplied(c) \/ AnswerApplied(c)
      BY <1>3, ApplicationStory
    <2>2. ASSUME NEW d \in Conversations, d # c PROVE ConsistentAt(d)'
      <3>1. /\ d \in handoff' <=> d \in handoff
            /\ d \in question' <=> d \in question
            /\ doNotContact \subseteq doNotContact'
        BY <2>1, <2>2 DEF OptOutApplied, HandoffApplied, AnswerApplied
      <3>2. ConsistentAt(d) /\ conversation'[d].state = conversation[d].state
        BY <1>1, <2>1, <2>2
      <3> QED BY <3>1, <3>2 DEF ConsistentAt
    <2>3. ConsistentAt(c)'
      <3>1. CASE OptOutApplied(c)
        BY <3>1 DEF OptOutApplied, ConsistentAt
      <3>2. CASE HandoffApplied(c)
        BY <3>2 DEF HandoffApplied, ConsistentAt
      <3>3. CASE AnswerApplied(c)
        BY <1>1, <2>1, <3>3 DEF AnswerApplied, ConsistentAt
      <3> QED BY <2>1, <3>1, <3>2, <3>3
    <2>4. \A d \in Conversations : ConsistentAt(d)'
      BY <2>2, <2>3
    <2> QED BY <2>4 DEF ConversationConsistent, ConsistentAt
  <1> QED BY <1>2, <1>3, QuietOrApplies

(* The state, the handoff and the pending question of a conversation always *)
(* agree, and an opted-out conversation belongs to an opted-out contact.    *)
THEOREM StoryIsConsistent == Spec => []ConversationConsistent
  <1>1. Init => ConversationConsistent
    BY DEF Init, ConversationConsistent
  <1>2. LeaseInv /\ ConversationConsistent /\ [Next]_vars => ConversationConsistent'
    BY ConsistentStep
  <1> QED BY <1>1, <1>2, LeaseInvariance, PTL DEF Spec

(* No step of any worker, whenever it read its context, resumes automation  *)
(* for a contact that has opted out.                                        *)
THEOREM OptOutStopsAutomation == Spec => NoAutomationAfterOptOut
  <1> DEFINE Stopped(d) ==
        ContactOf[d] \in doNotContact =>
          /\ ContactOf[d] \in doNotContact'
          /\ d \in question' => d \in question
          /\ d \in handoff' => d \in handoff
          /\ conversation'[d].state \in {conversation[d].state, "do_not_contact"}
  <1>1. ASSUME LeaseInv, [Next]_vars PROVE \A d \in Conversations : Stopped(d)
    <2>1. CASE Quiet
      BY <2>1 DEF Quiet, business
    <2>2. ASSUME NEW w \in Workers, Applies(w) PROVE \A d \in Conversations : Stopped(d)
      <3>1. PICK c \in Conversations :
            /\ \A d \in Conversations : d # c => conversation'[d].state = conversation[d].state
            /\ \/ OptOutApplied(c)
               \/ ContactOf[c] \notin doNotContact /\ (HandoffApplied(c) \/ AnswerApplied(c))
        BY <1>1, <2>2, ApplicationStory DEF OptedOut
      <3>2. ASSUME NEW d \in Conversations, d # c PROVE Stopped(d)
        <4>1. /\ d \in handoff' <=> d \in handoff
              /\ d \in question' <=> d \in question
              /\ doNotContact \subseteq doNotContact'
          BY <3>1, <3>2 DEF OptOutApplied, HandoffApplied, AnswerApplied
        <4> QED BY <3>1, <3>2, <4>1
      <3>3. Stopped(c)
        BY <3>1 DEF OptOutApplied
      <3> QED BY <3>2, <3>3
    <2> QED BY <1>1, <2>1, <2>2, QuietOrApplies
  <1>2. LeaseInv /\ [Next]_vars =>
          [\A c \in Conversations : ContactOf[c] \in doNotContact =>
             /\ ContactOf[c] \in doNotContact'
             /\ c \in question' => c \in question
             /\ c \in handoff' => c \in handoff
             /\ conversation'[c].state \in {conversation[c].state, "do_not_contact"}]_vars
    BY <1>1
  <1> QED BY <1>2, LeaseInvariance, PTL DEF Spec, NoAutomationAfterOptOut
-----------------------------------------------------------------------------
OnceInv == AppliedAtMostOnce /\ IsFiniteSet(executions)

AppliedTo(c) == {e \in executions : ConvOf[e.message] = c}

LEMMA OnceStep ==
  ASSUME LeaseInv, OnceInv, [Next]_vars
  PROVE  OnceInv'
  <1>1. CASE Quiet
    <2>1. UNCHANGED <<executions, leadVersion>>
      BY <1>1 DEF Quiet, business
    <2> QED BY <2>1 DEF OnceInv, AppliedAtMostOnce
  <1>2. ASSUME NEW w \in Workers, Applies(w) PROVE OnceInv'
    <2>1. /\ TypeOK /\ job[w].message \in Messages
          /\ Duplicates(w) = {} /\ ~AlreadyApplied(w)
      BY <1>2 DEF LeaseInv, TypeOK, Applies, MayApply, Working
    <2>2. PICK c \in Conversations : c = ConvOf[job[w].message]
      BY <2>1, ConstantsAssumption
    <2>3. PICK new : /\ new.message = job[w].message /\ new.context = draft[w].context
                     /\ executions' = executions \cup {new}
                     /\ leadVersion' = [leadVersion EXCEPT ![c] = @ + 1]
      BY <1>2, <2>2 DEF Applies, Apply
    <2>4. \A e \in executions : e.message # new.message /\ e.context # new.context
      BY <2>1, <2>3 DEF Duplicates, AlreadyApplied
    <2>5. \A e, f \in executions' : e.message = f.message \/ e.context = f.context => e = f
      BY <2>3, <2>4 DEF OnceInv, AppliedAtMostOnce
    <2>6. IsFiniteSet(executions')
      BY <2>3, FS_AddElement DEF OnceInv
    <2>7. ASSUME NEW d \in Conversations PROVE leadVersion'[d] = 1 + Cardinality(AppliedTo(d)')
      <3>1. /\ IsFiniteSet(AppliedTo(d)) /\ new \notin AppliedTo(d)
            /\ leadVersion[d] = 1 + Cardinality(AppliedTo(d)) /\ leadVersion[d] \in Nat
        <4>1. IsFiniteSet(AppliedTo(d))
          BY FS_Subset DEF OnceInv, AppliedTo
        <4>2. leadVersion[d] = 1 + Cardinality(AppliedTo(d))
          BY DEF OnceInv, AppliedAtMostOnce, AppliedTo
        <4> QED BY <2>1, <2>4, <4>1, <4>2 DEF AppliedTo, TypeOK
      <3>2. CASE d = c
        <4>1. AppliedTo(d)' = AppliedTo(d) \cup {new}
          BY <2>2, <2>3, <3>2 DEF AppliedTo
        <4>2. Cardinality(AppliedTo(d)') = Cardinality(AppliedTo(d)) + 1
          BY <3>1, <4>1, FS_AddElement
        <4>3. leadVersion'[d] = leadVersion[d] + 1
          BY <2>1, <2>3, <3>2 DEF TypeOK
        <4>4. Cardinality(AppliedTo(d)) \in Nat
          BY <3>1, FS_CardinalityType
        <4> QED BY <3>1, <4>2, <4>3, <4>4
      <3>3. CASE d # c
        <4>1. AppliedTo(d)' = AppliedTo(d)
          BY <2>2, <2>3, <3>3 DEF AppliedTo
        <4>2. leadVersion'[d] = leadVersion[d]
          BY <2>1, <2>3, <3>3 DEF TypeOK
        <4> QED BY <3>1, <4>1, <4>2
      <3> QED BY <3>2, <3>3
    <2> QED BY <2>5, <2>6, <2>7 DEF OnceInv, AppliedAtMostOnce, AppliedTo
  <1> QED BY <1>1, <1>2, QuietOrApplies

(* Neither a message nor a selected context is applied twice, and the lead  *)
(* changes exactly once per application, however often a message is claimed.*)
THEOREM AppliedOnce == Spec => []AppliedAtMostOnce
  <1>1. Init => OnceInv
    <2> SUFFICES ASSUME Init PROVE OnceInv
      OBVIOUS
    <2>1. executions = {} /\ leadVersion = [c \in Conversations |-> 1]
      BY DEF Init
    <2>2. ASSUME NEW c \in Conversations
          PROVE  Cardinality({e \in executions : ConvOf[e.message] = c}) = 0
      <3>1. {e \in executions : ConvOf[e.message] = c} = {}
        BY <2>1
      <3> QED BY <3>1, FS_EmptySet
    <2>3. IsFiniteSet(executions)
      BY <2>1, FS_EmptySet
    <2> QED BY <2>1, <2>2, <2>3 DEF OnceInv, AppliedAtMostOnce
  <1>2. LeaseInv /\ OnceInv /\ [Next]_vars => OnceInv'
    BY OnceStep
  <1>3. OnceInv => AppliedAtMostOnce
    BY DEF OnceInv
  <1> QED BY <1>1, <1>2, <1>3, LeaseInvariance, PTL DEF Spec
-----------------------------------------------------------------------------
(* An application decides the message of its worker as MessageDecisions says. *)
LEMMA ApplicationDecides ==
  ASSUME LeaseInv, NEW w \in Workers, Applies(w)
  PROVE  Decisions!DecisionsNext
  <1>0. TypeOK /\ MayApply(w) /\ job[w].message \in Messages
    BY DEF LeaseInv, Applies, MayApply, TypeOK, Working
  <1>1. PICK m \in Messages : m = job[w].message
    BY <1>0
  <1> DEFINE c == ConvOf[m]
             decided == {e.message : e \in executions}
  <1>2. m \notin decided
    BY <1>0, <1>1 DEF MayApply, AlreadyApplied
  <1>3. PICK new : new.message = m /\ executions' = executions \cup {new}
    BY <1>1 DEF Applies, Apply
  <1>4. {e.message : e \in executions'} = decided \cup {m}
    BY <1>3
  <1>5. Decisions!Decide(m)
    BY <1>2, <1>4 DEF Decisions!Decide
  <1>6. \/ OptOutApplied(c)
        \/ ContactOf[c] \notin doNotContact /\ (HandoffApplied(c) \/ AnswerApplied(c))
    BY <1>1, ApplicationStory DEF OptedOut
  <1> HIDE DEF decided
  <1>7. Decisions!Answer(m) \/ Decisions!HandOff(m) \/ Decisions!Stop(m)
    <2>1. CASE OptOutApplied(c)
      BY <1>5, <2>1 DEF OptOutApplied, Decisions!Stop
    <2>2. CASE ContactOf[c] \notin doNotContact /\ HandoffApplied(c)
      BY <1>5, <2>2 DEF HandoffApplied, Decisions!HandOff, Decisions!Automated
    <2>3. CASE ContactOf[c] \notin doNotContact /\ AnswerApplied(c)
      BY <1>5, <2>3 DEF AnswerApplied, Decisions!Answer, Decisions!Automated
    <2> QED BY <1>6, <2>1, <2>2, <2>3
  <1> QED BY <1>7 DEF Decisions!DecisionsNext

(* Processing implements MessageDecisions: what workers, leases, retries and *)
(* races add are stuttering steps.                                           *)
THEOREM DecisionsRefinement == Spec => ImplementsDecisions
  <1>1. Init => Decisions!DecisionsInit
    BY DEF Init, Decisions!DecisionsInit
  <1>2. LeaseInv /\ [Next]_vars => [Decisions!DecisionsNext]_Decisions!decisionVars
    <2>1. Quiet => UNCHANGED Decisions!decisionVars
      BY DEF Quiet, business, Decisions!decisionVars
    <2> QED BY <2>1, QuietOrApplies, ApplicationDecides
  <1> QED BY <1>1, <1>2, LeaseInvariance, PTL
          DEF Spec, ImplementsDecisions, Decisions!DecisionsSpec
=============================================================================
