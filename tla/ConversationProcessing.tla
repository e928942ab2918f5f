----------------------- MODULE ConversationProcessing -----------------------
(***************************************************************************)
(* Processing of inbound conversation messages by concurrent workers.      *)
(*                                                                         *)
(* A message is ingested with one processing row.  A worker claims a due   *)
(* message by leasing its conversation, reads the context, calls the       *)
(* extraction provider with no transaction open, and applies the result in *)
(* one final transaction, or records a failure in another one.  Each       *)
(* database transaction of the code is one step, except the claim: it is a *)
(* scan (the statement's snapshot) and a lock (the re-check PostgreSQL     *)
(* makes of the locked conversation row under READ COMMITTED), because     *)
(* other transactions commit between the two.                              *)
(*                                                                         *)
(* Messages are numbers in the order of their external timestamps; they    *)
(* may arrive in any order.  Of their texts it matters what the patterns   *)
(* find in them (Kind) and which fit together in one context.  A lease     *)
(* token stands for its expiry as well, for the rows of one claim share    *)
(* both: "live" are the tokens whose lease_until is in the future.         *)
(*                                                                         *)
(* Definitions named ...Without..., ...Ignored, ...Any... and the like      *)
(* stand before the definition they vary and are not part of the           *)
(* specification: they are the mistakes the properties are there to catch. *)
(***************************************************************************)
EXTENDS Naturals, FiniteSets, ConversationStates

CONSTANTS
  Messages,        \* inbound messages, numbered by external timestamp
  Conversations,   \* conversations, each with its one lead
  Contacts,
  ConvOf,          \* the conversation of a message
  ContactOf,       \* the contact of a conversation
  Kind,            \* what the deterministic patterns find in a message
  Workers,
  Tokens,          \* lease tokens; an unreferenced one is as good as a new UUID
  Window,          \* ContextLimits.max_messages
  FitTogether,     \* sets of messages whose texts, redacted, keep to max_characters
  Ageing           \* messages that may become older than max_age_days

Kinds == {"plain", "opt_out", "human"}

ASSUME ConstantsAssumption ==
  /\ Messages \subseteq Nat \ {0}
  /\ Tokens \subseteq Nat \ {0}
  /\ ConvOf \in [Messages -> Conversations]
  /\ ContactOf \in [Conversations -> Contacts]
  /\ Kind \in [Messages -> Kinds]
  /\ Window \in Nat \ {0}
  /\ FitTogether \subseteq SUBSET Messages
  /\ \A fitting \in FitTogether : \A part \in SUBSET fitting : part \in FitTogether
  /\ Ageing \subseteq Messages

None == 0                 \* no message, no token

VARIABLES
  processing,      \* message_processing row of each message
  conversation,    \* state and processing lease of each conversation
  live,            \* tokens whose lease has not expired
  aged,            \* the newest message that is older than max_age_days
  doNotContact,    \* contacts with do_not_contact set
  handoff,         \* conversations with an active handoff request
  question,        \* conversations with a pending question
  leadVersion,     \* version column of the lead of each conversation
  executions,      \* extraction_executions rows, one per application
  job,             \* claim and program counter of each worker
  scan,            \* what a claiming worker saw in its snapshot
  draft            \* what a processing worker read and extracted

rows == <<processing, conversation, live, aged>>
business == <<doNotContact, handoff, question, leadVersion, executions>>
local == <<job, scan, draft>>
vars == <<rows, business, local>>

Waiting == {"pending", "retryable_failure"}
Terminal == {"completed", "blocked_do_not_contact", "blocked_handoff",
             "permanent_failure", "invalid_extraction"}
ProcessingStatus == {"absent", "processing"} \cup Waiting \cup Terminal

Outcomes == {"ask", "no_question", "opt_out"}   \* what an extraction can lead to

Rows == [status : ProcessingStatus, token : Tokens \cup {None}]
Leases == [state : ConversationState, message : Messages \cup {None},
           token : Tokens \cup {None}]
Executions == [context : SUBSET Messages, message : Messages, outcome : Outcomes]
Failures == {"none", "conflict", "invalid_extraction"}
Jobs == [pc : {"idle", "scanned", "claimed", "prepared", "extracted", "failing"},
         message : Messages \cup {None}, token : Tokens \cup {None}, failure : Failures]
Scans == [seen : SUBSET Messages, expired : SUBSET Tokens]
Drafts == [context : SUBSET Messages, version : Nat, outcome : Outcomes \cup {"none"}]

Idle == [pc |-> "idle", message |-> None, token |-> None, failure |-> "none"]
NoScan == [seen |-> {}, expired |-> {}]
NoDraft == [context |-> {}, version |-> 0, outcome |-> "none"]

Init ==
  /\ processing = [m \in Messages |-> [status |-> "absent", token |-> None]]
  /\ conversation = [c \in Conversations |-> [state |-> "open", message |-> None, token |-> None]]
  /\ live = {}
  /\ aged = None
  /\ doNotContact = {}
  /\ handoff = {}
  /\ question = {}
  /\ leadVersion = [c \in Conversations |-> 1]
  /\ executions = {}
  /\ job = [w \in Workers |-> Idle]
  /\ scan = [w \in Workers |-> NoScan]
  /\ draft = [w \in Workers |-> NoDraft]
-----------------------------------------------------------------------------
(* Ingest of a new message.  A redelivered one changes no row here. *)
Ingest(m) ==
  /\ processing[m].status = "absent"
  /\ processing' = [processing EXCEPT ![m].status = "pending"]
  /\ UNCHANGED <<conversation, live, aged, business, local>>

(* The claim, first half: the candidates of the statement's snapshot. *)
Due(m) ==
  \/ processing[m].status \in Waiting
  \/ processing[m].status = "processing" /\ processing[m].token \notin live

Unleased(c) == conversation[c].token = None \/ conversation[c].token \notin live

Candidates == {m \in Messages : Due(m) /\ Unleased(ConvOf[m])}

ClaimScan(w) ==
  /\ job[w].pc = "idle"
  /\ Candidates # {}
  /\ job' = [job EXCEPT ![w].pc = "scanned"]
  /\ scan' = [scan EXCEPT ![w] =
                [seen |-> Candidates,
                 expired |-> {t \in Tokens \ live : \E c \in Conversations :
                                                      conversation[c].token = t}]]
  /\ UNCHANGED <<rows, business, draft>>

(* The claim, second half.  Only the conversation is locked, so only the    *)
(* conversation is read again, with the time the claim started; the         *)
(* processing row is overwritten whatever its status has become.            *)
StillUnleased(w, c) ==
  conversation[c].token = None \/ conversation[c].token \in scan[w].expired

(* SKIP LOCKED: another transaction may hold the row of c at this instant. *)
MayBeLocked(w, c) ==
  \/ \E v \in Workers \ {w} :
       \/ \E m \in scan[v].seen : ConvOf[m] = c
       \/ job[v].message # None /\ ConvOf[job[v].message] = c
  \/ \E m \in Messages : ConvOf[m] = c /\ processing[m].status = "absent"

Skipped(w, m) == ~StillUnleased(w, ConvOf[m]) \/ MayBeLocked(w, ConvOf[m])

Referenced(t) ==
  \/ \E m \in Messages : processing[m].token = t
  \/ \E c \in Conversations : conversation[c].token = t
  \/ \E w \in Workers : job[w].token = t \/ t \in scan[w].expired

NewToken(t) ==
  /\ ~Referenced(t)
  /\ \A u \in Tokens : u < t => Referenced(u)   \* one name for all the new UUIDs

ClaimLock(w, m, t) ==
  /\ job[w].pc = "scanned"
  /\ m \in scan[w].seen /\ StillUnleased(w, ConvOf[m])
  /\ \A n \in scan[w].seen : n < m => Skipped(w, n)
  /\ NewToken(t)
  /\ processing' = [processing EXCEPT ![m] = [status |-> "processing", token |-> t]]
  /\ conversation' = [conversation EXCEPT ![ConvOf[m]].message = m, ![ConvOf[m]].token = t]
  /\ live' = live \cup {t}
  /\ job' = [job EXCEPT ![w] = [pc |-> "claimed", message |-> m, token |-> t,
                                failure |-> "none"]]
  /\ scan' = [scan EXCEPT ![w] = NoScan]
  /\ UNCHANGED <<aged, business, draft>>

ClaimNothing(w) ==
  /\ job[w].pc = "scanned"
  /\ \A m \in scan[w].seen : Skipped(w, m)
  /\ job' = [job EXCEPT ![w] = Idle]
  /\ scan' = [scan EXCEPT ![w] = NoScan]
  /\ UNCHANGED <<rows, business, draft>>
-----------------------------------------------------------------------------
(* How the transaction of a worker ends. *)
HoldsRow(w) ==
  processing[job[w].message] = [status |-> "processing", token |-> job[w].token]

HoldsConversation(w) ==
  LET lease == conversation[ConvOf[job[w].message]]
  IN  lease.message = job[w].message /\ lease.token = job[w].token

GoIdle(w) ==
  /\ job' = [job EXCEPT ![w] = Idle]
  /\ draft' = [draft EXCEPT ![w] = NoDraft]
  /\ UNCHANGED scan

(* Rolled back with an error that the worker answers by recording a failure. *)
RollBackWithoutClaim(w, failure) ==
  /\ job' = [job EXCEPT ![w] = [Idle EXCEPT !.pc = "failing", !.failure = failure]]
  /\ draft' = [draft EXCEPT ![w] = NoDraft]
  /\ UNCHANGED <<rows, business, scan>>

RollBack(w, failure) ==
  /\ job' = [job EXCEPT ![w].pc = "failing", ![w].failure = failure]
  /\ draft' = [draft EXCEPT ![w] = NoDraft]
  /\ UNCHANGED <<rows, business, scan>>

(* Rolled back with an error nobody handles: the lease has to expire. *)
GiveUp(w) == GoIdle(w) /\ UNCHANGED <<rows, business>>

(* processing.complete and processing.fail release the row and, if it is    *)
(* still this claim's, the lease of the conversation; when the lease is     *)
(* lost the update finds no row and the transaction is rolled back.         *)
LeaseLostIgnored(w) == FALSE
LeaseLost(w) == ~HoldsConversation(w)

FinishWithoutRelease(w, status, state) ==
  /\ processing' = [processing EXCEPT ![job[w].message] = [status |-> status, token |-> None]]
  /\ conversation' = [conversation EXCEPT ![ConvOf[job[w].message]].state = state]
  /\ live' = live \ {job[w].token}
  /\ UNCHANGED aged

Finish(w, status, state) ==
  LET c == ConvOf[job[w].message]
  IN  /\ processing' = [processing EXCEPT ![job[w].message] =
                           [status |-> status, token |-> None]]
      /\ conversation' = [conversation EXCEPT ![c] =
                             IF HoldsConversation(w)
                               THEN [state |-> state, message |-> None, token |-> None]
                               ELSE [@ EXCEPT !.state = state]]
      /\ live' = live \ {job[w].token}
      /\ UNCHANGED aged

CompleteBlocked(w, status) ==
  IF LeaseLost(w) THEN RollBack(w, "conflict")
  ELSE /\ Finish(w, status, conversation[ConvOf[job[w].message]].state)
       /\ GoIdle(w)
       /\ UNCHANGED business
-----------------------------------------------------------------------------
(* Reading the messages of the conversation (list_context, whose limit of 50 *)
(* is the largest Window the configuration allows).                          *)
Ingested(c) == {m \in Messages : ConvOf[m] = c /\ processing[m].status # "absent"}

OptedOutHere(w) == conversation[ConvOf[job[w].message]].state = "do_not_contact"
OptedOut(w) == ContactOf[ConvOf[job[w].message]] \in doNotContact

Paused(w) == ConvOf[job[w].message] \in handoff

(* An opt-out is processed although a handoff pauses the conversation. *)
BlockedByAnyHandoff(w) == Paused(w)
BlockedByHandoff(w) == Paused(w) /\ Kind[job[w].message] # "opt_out"

ReadContext(w) ==
  /\ job' = [job EXCEPT ![w].pc = "prepared"]
  /\ LET c == ConvOf[job[w].message]
     IN  draft' = [draft EXCEPT ![w] = [context |-> Ingested(c), outcome |-> "none",
                                        version |-> leadVersion[c]]]
  /\ UNCHANGED <<rows, business, scan>>

Prepare(w) ==
  /\ job[w].pc = "claimed"
  /\ \/ ~HoldsRow(w) /\ RollBack(w, "conflict")
     \/ HoldsRow(w) /\ OptedOut(w) /\ CompleteBlocked(w, "blocked_do_not_contact")
     \/ /\ HoldsRow(w) /\ ~OptedOut(w) /\ BlockedByHandoff(w)
        /\ CompleteBlocked(w, "blocked_handoff")
     \/ HoldsRow(w) /\ ~OptedOut(w) /\ ~BlockedByHandoff(w) /\ ReadContext(w)

(* The context of the extraction: the newest Window of the messages that are *)
(* not too old, or the newest message if all are; of these, from the newest  *)
(* on, each that fits with those selected before it.  The newest is cut to   *)
(* fit.  There is exactly one such set, for whether a message is selected    *)
(* depends on the newer ones.                                                *)
NewerIn(messages, m) == {n \in messages : n > m}

EligibleByAgeAlone(messages) ==
  LET young == {m \in messages : m > aged}
  IN  {m \in young : Cardinality(NewerIn(young, m)) < Window}

Eligible(messages) ==
  LET young == {m \in messages : m > aged}
      considered == IF young # {} THEN young
                    ELSE {m \in messages : NewerIn(messages, m) = {}}
  IN  {m \in considered : Cardinality(NewerIn(considered, m)) < Window}

HasRoom(selected, m) ==
  LET newer == NewerIn(selected, m)
  IN  newer = {} \/ newer \cup {m} \in FitTogether

Selections(messages) ==
  {selected \in SUBSET Eligible(messages) :
     \A m \in Eligible(messages) : m \in selected <=> HasRoom(selected, m)}

(* The provider call, outside any transaction.  Opt-out and human requests  *)
(* found by the patterns in any selected message decide; otherwise the      *)
(* provider may ask, not ask, or report an opt-out of its own.              *)
OutcomesOf(context) ==
  IF \E m \in context : Kind[m] = "opt_out" THEN {"opt_out"}
  ELSE IF \E m \in context : Kind[m] = "human" THEN {"no_question", "opt_out"}
  ELSE Outcomes

Extract(w) ==
  /\ job[w].pc = "prepared"
  /\ \E context \in Selections(draft[w].context) :
       IF job[w].message \in context
         THEN /\ \E outcome \in OutcomesOf(context) :
                   draft' = [draft EXCEPT ![w] = [@ EXCEPT !.context = context, !.outcome = outcome]]
              /\ job' = [job EXCEPT ![w].pc = "extracted"]
              /\ UNCHANGED <<rows, business, scan>>
         ELSE RollBack(w, "invalid_extraction")
-----------------------------------------------------------------------------
(* The final transaction. *)
Duplicates(w) == {e \in executions : e.context = draft[w].context}

(* uq_extraction_processing: one execution per processing row. *)
NeverAlreadyApplied(w) == FALSE
AlreadyApplied(w) == \E e \in executions : e.message = job[w].message

TargetPaused(outcome, handedOff) ==
  IF outcome = "opt_out" \/ handedOff THEN "automated_paused"
  ELSE IF outcome = "ask" THEN "waiting_customer"
  ELSE "qualifying"

Target(outcome, handedOff) ==
  IF outcome = "opt_out" THEN "do_not_contact"
  ELSE IF handedOff THEN "waiting_human"
  ELSE IF outcome = "ask" THEN "waiting_customer"
  ELSE "qualifying"

(* Scoring may require a handoff, a human request always does, an opt-out   *)
(* never.                                                                   *)
HandoffChoices(w) ==
  IF draft[w].outcome = "opt_out" THEN {FALSE}
  ELSE IF \E m \in draft[w].context : Kind[m] = "human" THEN {TRUE}
  ELSE BOOLEAN

Legal(w, handedOff) ==
  LET state == conversation[ConvOf[job[w].message]].state
      target == Target(draft[w].outcome, handedOff)
  IN  state = target \/ target \in AllowedFrom[state]

(* A changed profile cancels the pending question; so do an opt-out and a   *)
(* handoff; otherwise a suggested question becomes pending.                 *)
QuestionsAfterWithoutHandoff(c, outcome, handedOff, profileChanged) ==
  LET kept == IF profileChanged \/ outcome = "opt_out" THEN question \ {c} ELSE question
  IN  IF outcome = "ask" THEN kept \cup {c} ELSE kept

QuestionsAfter(c, outcome, handedOff, profileChanged) ==
  LET cancelled == profileChanged \/ outcome = "opt_out" \/ handedOff
      kept == IF cancelled THEN question \ {c} ELSE question
  IN  IF outcome = "ask" /\ ~handedOff THEN kept \cup {c} ELSE kept

Apply(w, handedOff, profileChanged) ==
  LET c == ConvOf[job[w].message]
      outcome == draft[w].outcome
  IN  /\ executions' = executions \cup {[context |-> draft[w].context, outcome |-> outcome,
                                         message |-> job[w].message]}
      /\ doNotContact' = IF outcome = "opt_out"
                           THEN doNotContact \cup {ContactOf[c]} ELSE doNotContact
      /\ handoff' = IF outcome = "opt_out" THEN handoff \ {c}
                    ELSE IF handedOff THEN handoff \cup {c} ELSE handoff
      /\ question' = QuestionsAfter(c, outcome, handedOff, profileChanged)
      /\ leadVersion' = [leadVersion EXCEPT ![c] = @ + 1]
      /\ Finish(w, "completed", Target(outcome, handedOff))
      /\ GoIdle(w)

FinalizeNew(w) ==
  \E handedOff \in HandoffChoices(w), profileChanged \in BOOLEAN :
    IF AlreadyApplied(w) \/ ~Legal(w, handedOff) THEN GiveUp(w)
    ELSE IF LeaseLost(w) THEN RollBack(w, "conflict")
    ELSE Apply(w, handedOff, profileChanged)

(* The hash covers the whole result, so two results with the same outcome   *)
(* may differ as well.                                                      *)
FinalizeDuplicate(w) ==
  \/ GiveUp(w)
  \/ /\ \A e \in Duplicates(w) : e.outcome = draft[w].outcome
     /\ CompleteBlocked(w, "completed")

Fenced(w) ==
  ~HoldsRow(w) \/ leadVersion[ConvOf[job[w].message]] # draft[w].version

Finalize(w) ==
  /\ job[w].pc = "extracted"
  /\ LET optOut == draft[w].outcome = "opt_out"
     IN  IF Fenced(w) THEN RollBack(w, "conflict")
         ELSE IF OptedOut(w) /\ ~optOut THEN CompleteBlocked(w, "blocked_do_not_contact")
         ELSE IF Paused(w) /\ ~optOut THEN CompleteBlocked(w, "blocked_handoff")
         ELSE IF Duplicates(w) # {} THEN FinalizeDuplicate(w)
         ELSE FinalizeNew(w)

(* Recording a failure.  A conflict is retryable until the attempts run out. *)
FailureStatus(failure) ==
  IF failure = "conflict" THEN {"retryable_failure", "permanent_failure"} ELSE {failure}

RecordFailure(w) ==
  /\ job[w].pc = "failing"
  /\ IF HoldsRow(w) /\ ~LeaseLost(w)
       THEN \E status \in FailureStatus(job[w].failure) :
              Finish(w, status, conversation[ConvOf[job[w].message]].state)
       ELSE UNCHANGED rows
  /\ GoIdle(w)
  /\ UNCHANGED business

(* A crash, a database error, a suspended tenant: whatever leaves the worker *)
(* loop with the claim's rows as they are.                                   *)
Abandon(w) ==
  /\ job[w].pc # "idle"
  /\ job' = [job EXCEPT ![w] = Idle]
  /\ scan' = [scan EXCEPT ![w] = NoScan]
  /\ draft' = [draft EXCEPT ![w] = NoDraft]
  /\ UNCHANGED <<rows, business>>

LeaseExpires(t) ==
  /\ t \in live
  /\ live' = live \ {t}
  /\ UNCHANGED <<processing, conversation, aged, business, local>>

(* Time passes for a message, and with it for the older ones.                *)
GrowsOld(m) ==
  /\ m > aged
  /\ aged' = m
  /\ UNCHANGED <<processing, conversation, live, business, local>>

Step(w) ==
  \/ ClaimScan(w)
  \/ \E m \in Messages, t \in Tokens : ClaimLock(w, m, t)
  \/ ClaimNothing(w)
  \/ Prepare(w)
  \/ Extract(w)
  \/ Finalize(w)
  \/ RecordFailure(w)

Next ==
  \/ \E m \in Messages : Ingest(m)
  \/ \E w \in Workers : Step(w) \/ Abandon(w)
  \/ \E t \in Tokens : LeaseExpires(t)
  \/ \E m \in Ageing : GrowsOld(m)

Spec == Init /\ [][Next]_vars

(* Workers poll for ever and leases run out.  A worker may be interrupted   *)
(* any number of times, but not at the same point each time a message is    *)
(* retried, hence strong fairness after the claim.                          *)
Fairness ==
  /\ \A w \in Workers :
       /\ WF_vars(ClaimScan(w))
       /\ SF_vars(\E m \in Messages, t \in Tokens : ClaimLock(w, m, t))
       /\ SF_vars(Prepare(w))
       /\ SF_vars(Extract(w))
       /\ SF_vars(Finalize(w))
       /\ SF_vars(RecordFailure(w))
  /\ \A t \in Tokens : WF_vars(LeaseExpires(t))

FairSpec == Spec /\ Fairness
-----------------------------------------------------------------------------
Working(w) == job[w].pc \notin {"idle", "scanned"}

(* The rows and the workers hold values the code can store in them: a        *)
(* working worker has a claim, an extracted one an outcome, a failing one an *)
(* error to record.                                                          *)
TypeOK ==
  /\ processing \in [Messages -> Rows]
  /\ conversation \in [Conversations -> Leases]
  /\ live \in SUBSET Tokens
  /\ aged \in Ageing \cup {None}
  /\ doNotContact \in SUBSET Contacts
  /\ handoff \in SUBSET Conversations
  /\ question \in SUBSET Conversations
  /\ leadVersion \in [Conversations -> Nat]
  /\ executions \in SUBSET Executions
  /\ job \in [Workers -> Jobs]
  /\ scan \in [Workers -> Scans]
  /\ draft \in [Workers -> Drafts]
  /\ \A w \in Workers :
       /\ Working(w) => job[w].message \in Messages /\ job[w].token \in Tokens
       /\ job[w].pc = "extracted" => draft[w].outcome \in Outcomes
       /\ job[w].pc = "failing" => job[w].failure # "none"

(* At-most-once application (delivery-3-impact-analysis.md:98): neither a    *)
(* message nor a selected context is applied twice, and the lead of a        *)
(* conversation changed once per application, whatever the number of claims. *)
AppliedAtMostOnce ==
  /\ \A e, f \in executions :
       e.message = f.message \/ e.context = f.context => e = f
  /\ \A c \in Conversations :
       leadVersion[c] = 1 + Cardinality({e \in executions : ConvOf[e.message] = c})

(* The lease of a conversation and the row of its message are one claim: a   *)
(* conversation that holds a token names the message whose row is being      *)
(* processed under that very token (claim_next, complete, fail).             *)
LeaseAgreement ==
  \A c \in Conversations : conversation[c].token # None =>
    /\ conversation[c].message \in Messages
    /\ ConvOf[conversation[c].message] = c
    /\ processing[conversation[c].message] =
         [status |-> "processing", token |-> conversation[c].token]

(* While a worker still holds its conversation, nobody else changed the lead *)
(* it read: the version comparison of _finalize is implied by the lease.     *)
Reading(w) == job[w].pc \in {"prepared", "extracted"}

FreshContext ==
  \A w \in Workers : Reading(w) /\ HoldsConversation(w) =>
                        draft[w].version = leadVersion[ConvOf[job[w].message]]

(* A conflict never finds the lease it would release, so no row becomes      *)
(* retryable or exhausts its attempts: an expired lease is the only retry    *)
(* of a conversation message, and max_attempts does not limit it.            *)
RetriedOnlyByExpiry ==
  \A m \in Messages : processing[m].status \notin {"retryable_failure", "permanent_failure"}

(* State, handoff and question of a conversation tell one story, although    *)
(* they are written by different repositories.                               *)
ConversationConsistent ==
  \A c \in Conversations :
    /\ conversation[c].state = "waiting_human" <=> c \in handoff
    /\ conversation[c].state = "waiting_customer" => c \in question
    /\ c \in question => conversation[c].state \in {"qualifying", "waiting_customer"}
    /\ conversation[c].state = "do_not_contact" => ContactOf[c] \in doNotContact

(* After an opt-out of the contact no transaction, started before or after   *)
(* it, from any of the contact's conversations, asks a question, requests a  *)
(* handoff or resumes automation.                                            *)
NoAutomationAfterOptOut ==
  [][\A c \in Conversations : ContactOf[c] \in doNotContact =>
       /\ ContactOf[c] \in doNotContact'
       /\ c \in question' => c \in question
       /\ c \in handoff' => c \in handoff
       /\ conversation'[c].state \in {conversation[c].state, "do_not_contact"}]_vars

(* Completed states are durable (delivery-3-impact-analysis.md:177-178): a   *)
(* message whose result was applied is not taken up again.                   *)
AppliedStaysCompleted ==
  \A e \in executions : processing[e.message].status = "completed"

(* Opt-outs have absolute precedence: one that was handled is registered.    *)
OptOutHonoured ==
  \A m \in Messages : Kind[m] = "opt_out" /\ processing[m].status \in Terminal =>
                         ContactOf[ConvOf[m]] \in doNotContact

(* An opt-out leaves no question and no handoff of the contact behind it     *)
(* (delivery-3-impact-analysis.md:191-192).                                  *)
OptOutCancelsEverything ==
  \A c \in Conversations : ContactOf[c] \in doNotContact =>
                             c \notin question /\ c \notin handoff

(* Newer messages leave m no room: they fill the window, do not fit in the   *)
(* characters together with it, or are there when it is too old.             *)
Crowded(newer, m) ==
  /\ newer # {}
  /\ \/ Cardinality(newer) >= Window
     \/ newer \cup {m} \notin FitTogether
     \/ m <= aged

Overtaken(m) == Crowded(NewerIn(Ingested(ConvOf[m]), m), m)

(* No message gets lost on the way to the end of its processing: a completed *)
(* one was in the context of a result that was applied, an opt-out as an     *)
(* opt-out; one that was blocked is of a contact that opted out, or of a     *)
(* conversation that was handed to a human and, unless the contact opted out *)
(* since, still is; and one whose extraction is invalid was overtaken by     *)
(* newer messages that leave it no room in a context.                        *)
EndsAreJustified ==
  \A m \in Messages :
    LET status == processing[m].status
        stopped == ContactOf[ConvOf[m]] \in doNotContact
    IN  /\ status = "completed" =>
             \E e \in executions : m \in e.context /\ (Kind[m] = "opt_out" => stopped)
        /\ status = "blocked_do_not_contact" => stopped
        /\ status = "blocked_handoff" =>
             (ConvOf[m] \in handoff /\ Kind[m] # "opt_out") \/ stopped
        /\ status = "invalid_extraction" => Overtaken(m)
        /\ status # "permanent_failure"

(* The conversation state chosen for a result is one the state machine lets  *)
(* the conversation reach.                                                   *)
TargetIsLegal ==
  \A w \in Workers :
    /\ job[w].pc = "extracted" /\ ~Fenced(w) /\ ~OptedOut(w) /\ ~Paused(w)
    /\ Duplicates(w) = {} /\ ~AlreadyApplied(w)
    =>
      \A handedOff \in HandoffChoices(w) : Legal(w, handedOff)

(* The state machine refuses no other change of a conversation than that     *)
(* one: a question as the first thing to come of an open conversation.       *)
IllegalOnlyAtFirst ==
  \A w \in Workers :
    /\ job[w].pc = "extracted"
    /\ draft[w].outcome = "opt_out" \/ (~OptedOut(w) /\ ~Paused(w))
    =>
      \A handedOff \in HandoffChoices(w) :
        \/ Legal(w, handedOff)
        \/ /\ conversation[ConvOf[job[w].message]].state = "open"
           /\ Target(draft[w].outcome, handedOff) = "waiting_customer"

(* A message whose processing ended is changed by no worker that had it, in  *)
(* whatever order they finish: only a new claim takes it up again, with a    *)
(* snapshot in which it was due and of a conversation that nobody leases.    *)
ReopenedByStaleScan ==
  [][\A m \in Messages :
       processing[m].status \in Terminal /\ processing'[m] # processing[m] =>
         \E w \in Workers :
           /\ m \in scan[w].seen /\ StillUnleased(w, ConvOf[m])
           /\ job'[w].pc = "claimed" /\ job'[w].message = m]_vars

(* An ingested opt-out is registered in the end.                             *)
OptOutEventuallyHonoured ==
  \A m \in Messages : Kind[m] = "opt_out" =>
    (processing[m].status # "absent" ~> ContactOf[ConvOf[m]] \in doNotContact)

(* Claims, leases, retries, races and failures behind it, processing decides *)
(* as MessageDecisions says: each message at most once, nothing but an       *)
(* opt-out for a conversation that waits for a human, and nothing that       *)
(* resumes or interrupts a contact that opted out.                           *)
Decisions == INSTANCE MessageDecisions WITH
  decided <- {e.message : e \in executions}, stopped <- doNotContact,
  paused <- handoff, asking <- question

ImplementsDecisions == Decisions!DecisionsSpec
=============================================================================
