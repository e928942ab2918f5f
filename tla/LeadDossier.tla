------------------------------ MODULE LeadDossier ------------------------------
(**************************************************************************)
(* What processing the messages of one conversation makes of its lead: the  *)
(* profile, its conflicts and signals, the evaluation, the questions, the   *)
(* handoff, the states of lead and conversation, and what the subscribers   *)
(* of its events are told.                                                  *)
(*                                                                          *)
(* One worker has the conversation at a time and what it read of the lead   *)
(* is current when it commits (LeaseAgreement and FreshContext of           *)
(* ConversationProcessing), so a job is prepared, extracted and applied by  *)
(* three steps between which only messages arrive.  Messages are numbered   *)
(* by arrival and sent in that order.  The provider is external: it fails,  *)
(* or answers with any payload of Payloads.                                 *)
(*                                                                          *)
(* Mutated forms of a definition stand before it and are not part of the    *)
(* specification: they are mistakes the properties are there to catch.      *)
(**************************************************************************)
EXTENDS TelecomExtraction, LeadScoring, ConversationStates, ExtractionContext

CONSTANTS
  Payloads,       \* what the provider may answer
  MaxMessages,    \* bound of the instance: messages of the conversation
  MaxRetries,     \* calls of the provider after the first
  RecentLimit     \* questions that are not asked again

ASSUME DossierAssumption ==
  /\ MaxMessages \in Nat \ {0}
  /\ MaxRetries \in Nat
  /\ RecentLimit \in Nat

(* What the schema guarantees of an answer it does not refuse.               *)
WellTyped(p) ==
  /\ Len(p.fields) \in Nat /\ DOMAIN p.fields = 1..Len(p.fields)
  /\ Len(p.signals) \in Nat /\ DOMAIN p.signals = 1..Len(p.signals)
  /\ p.opportunity.primary \in Opportunities
  /\ p.handoff.value \in {None, "general", "specialized"}
  /\ \A c \in p.controls : c.confidence \in 0..100
  /\ \A i \in DOMAIN p.fields : /\ p.fields[i].message \in Nat \ {0}
                               /\ p.fields[i].confidence \in 0..100
  /\ \A i \in DOMAIN p.signals : p.signals[i].confidence \in 0..100
  /\ p.opportunity.confidence \in 0..100

ASSUME PayloadsAssumption == \A p \in Payloads : p.wellFormed => WellTyped(p)

VARIABLES
  inbox,          \* message -> its text
  aged,           \* the newest message older than the limit of age, or 0
  handled,        \* the messages whose processing is in a terminal state
  executions,     \* stored extractions: the message and its context
  facts,          \* field -> current value of the profile
  conflicts,      \* fields with an open conflict
  signals,        \* code of an active signal -> its confidence
  lead,           \* primary opportunity and state
  evaluation,     \* the current qualification
  asked,          \* the fields of the questions asked, in order
  pending,        \* whether the last question is pending
  conversation,   \* its state
  handoff,        \* its request for a person: status and kind
  optedOut,       \* the contact asked for no more contact
  told,           \* what a subscriber of all events knows
  job             \* the memory of the worker

records == <<facts, conflicts, signals, lead, evaluation, asked, pending, conversation,
             handoff, optedOut, told>>
vars == <<inbox, aged, handled, executions, records, job>>

Idle == [pc |-> "idle"]
NotEvaluated == [opportunity |-> None, missing |-> {}, score |-> 0,
                 classification |-> None, action |-> None, handoff |-> FALSE,
                 specialized |-> FALSE]
NoHandoff == [status |-> "none", kind |-> None]
NothingTold == [fields |-> {}, score |-> 0, classification |-> None,
                optedOut |-> FALSE, handedOff |-> FALSE, paused |-> FALSE]

Init ==
  /\ inbox = <<>> /\ aged = 0 /\ handled = {} /\ executions = {}
  /\ facts = <<>> /\ conflicts = {} /\ signals = <<>>
  /\ lead = [opportunity |-> "unidentified", state |-> "new"]
  /\ evaluation = NotEvaluated
  /\ asked = <<>> /\ pending = FALSE
  /\ conversation = "open" /\ handoff = NoHandoff /\ optedOut = FALSE
  /\ told = NothingTold
  /\ job = Idle

Messages == DOMAIN inbox
-----------------------------------------------------------------------------
Receive(text) ==
  /\ Len(inbox) < MaxMessages
  /\ inbox' = Append(inbox, text)
  /\ UNCHANGED <<aged, handled, executions, records, job>>

(* Time passes, and the oldest messages leave the context.                   *)
Age ==
  /\ aged < Len(inbox)
  /\ aged' = aged + 1
  /\ UNCHANGED <<inbox, handled, executions, records, job>>

Unhandled == Messages \ handled
Oldest == CHOOSE m \in Unhandled : \A n \in Unhandled : m <= n

(* An opted-out contact is left alone; a handoff keeps everything but an     *)
(* opt-out waiting for the human.                                            *)
Blocked(m) ==
  \/ optedOut
  \/ handoff.status = "requested" /\ "do_not_contact" \notin inbox[m].says

Block ==
  /\ job = Idle /\ Unhandled # {} /\ Blocked(Oldest)
  /\ handled' = handled \cup {Oldest}
  /\ UNCHANGED <<inbox, aged, executions, records, job>>

Prepare ==
  /\ job = Idle /\ Unhandled # {} /\ ~Blocked(Oldest)
  /\ \E selected \in Selections(inbox, aged) :
       job' = [pc |-> "calling", message |-> Oldest, context |-> selected, attempt |-> 0]
  /\ UNCHANGED <<inbox, aged, handled, executions, records>>

Recent == {asked[i] : i \in {j \in DOMAIN asked : j > Len(asked) - RecentLimit}}

Extracted(extraction) ==
  job' = [pc |-> "extracted", message |-> job.message, context |-> job.context,
          extraction |-> extraction]

(* What the adapter makes of a failure of the provider, and which of the     *)
(* errors the extraction tries again: the transient ones and an answer that  *)
(* was invalid.                                                              *)
Retryable ==
  [timeout             |-> TRUE,  rate_limit       |-> TRUE,
   connection          |-> TRUE,  server_error     |-> TRUE,
   incomplete_response |-> TRUE,  invalid_response |-> TRUE,
   authentication      |-> FALSE, client_error     |-> FALSE,
   refused             |-> FALSE, empty_response   |-> FALSE]

(* A failed attempt is repeated while attempts remain; then the extraction   *)
(* degrades to what the code knows without the provider.                     *)
Failed(failure) ==
  IF Retryable[failure] /\ job.attempt < MaxRetries
    THEN job' = [job EXCEPT !.attempt = @ + 1]
    ELSE Extracted(Degraded(lead.opportunity, Max(job.context), Heard(inbox, job.context),
                            facts))

ProviderFails(failure) ==
  /\ job.pc = "calling"
  /\ Failed(failure)
  /\ UNCHANGED <<inbox, aged, handled, executions, records>>

ProviderAnswers(p) ==
  /\ job.pc = "calling"
  /\ IF Normalizable(p, job.context)
       THEN Extracted(Accept(p, Heard(inbox, job.context), facts, Recent))
       ELSE Failed("invalid_response")
  /\ UNCHANGED <<inbox, aged, handled, executions, records>>

(* A crash, or an error nobody handles: the message is claimed again once    *)
(* its lease has expired.                                                    *)
GiveUp ==
  /\ job # Idle
  /\ job' = Idle
  /\ UNCHANGED <<inbox, aged, handled, executions, records>>
-----------------------------------------------------------------------------
(* IncrementalLeadProfileApplier: which fields of the extraction become      *)
(* current, and which open a conflict.                                       *)
StatusOf(item) ==
  CASE item.treatment = "auto_accept" -> "accepted"
    [] item.treatment = "provisional" -> "hypothesis"
    [] OTHER                          -> "rejected"

Candidates(x) ==
  {f \in DOMAIN x.fields :
     x.fields[f].treatment \in {"auto_accept", "provisional", "contradicted"}}

Differs(item, f) == facts[f].value # item.value

Stronger(item, f) == item.confidence > facts[f].confidence

Corrects(item, f, correction) ==
  Differs(item, f) /\ correction /\ item.state = "observed"

BecomesCurrentIfUnknown(item, f, correction) ==
  \/ f \notin DOMAIN facts
  \/ Corrects(item, f, correction)
  \/ ~Differs(item, f) /\ item.message # facts[f].message /\ Stronger(item, f)

BecomesCurrent(item, f, correction) ==
  IF f \notin DOMAIN facts THEN StatusOf(item) # "rejected"
  ELSE \/ Corrects(item, f, correction)
       \/ /\ Differs(item, f)
          /\ Stronger(item, f) /\ item.state = "observed" /\ StatusOf(item) = "accepted"
       \/ /\ ~Differs(item, f)
          /\ item.message # facts[f].message
          /\ \/ Stronger(item, f)
             \/ facts[f].status = "hypothesis" /\ StatusOf(item) = "accepted"

Written(x, correction) ==
  {f \in Candidates(x) : BecomesCurrent(x.fields[f], f, correction)}

FactsAfter(x, m, correction) ==
  LET written == Written(x, correction)
      Fact(f) ==
        LET item == x.fields[f]
        IN  [value |-> item.value, message |-> item.message, confidence |-> item.confidence,
             status |-> IF f \in DOMAIN facts /\ Corrects(item, f, correction)
                          THEN "accepted" ELSE StatusOf(item),
             writer |-> m]
  IN  [f \in DOMAIN facts \cup written |-> IF f \in written THEN Fact(f) ELSE facts[f]]

(* A conflict is recorded for every value that differs, and is open unless   *)
(* the value gives way.                                                      *)
Contested(x) == {f \in Candidates(x) \cap DOMAIN facts : Differs(x.fields[f], f)}

Disputed(x, correction) == Contested(x) \ Written(x, correction)
-----------------------------------------------------------------------------
(* persist_signals: a signal deactivates what is active of its exclusive     *)
(* groups, the signals inserted before it included.                          *)
IntentGroup ==
  {"general_information", "asks_price", "asks_monthly_payment", "asks_availability",
   "compares_products", "asks_requirements", "requests_quote", "requests_portability",
   "wants_contract_now", "research_only"}

UrgencyGroup ==
  {"research_only", "purchase_over_three_months", "purchase_over_six_months", "next_month",
   "this_week", "immediate"}

BudgetGroup ==
  {"budget_unspecified", "budget_incompatible", "accepts_alternatives", "budget_compatible",
   "budget_and_payment_defined", "budget_incompatible_no_alternatives"}

Excludes(s, t) == \E group \in {IntentGroup, UrgencyGroup, BudgetGroup} : {s, t} \subseteq group

Of(proposed, s) == {q \in proposed : q.code = s}

Codes(proposed) == {q.code : q \in proposed}

SignalsAfterWithoutDeactivation(proposed) ==
  [s \in DOMAIN signals \cup Codes(proposed) |->
     Max((IF s \in DOMAIN signals THEN {signals[s]} ELSE {})
         \cup {q.confidence : q \in Of(proposed, s)})]

SignalsAfterForgetting(proposed) ==
  [s \in Codes(proposed) |-> Max({q.confidence : q \in Of(proposed, s)})]

(* What is inserted for a code: the last firm proposal, or else the first,   *)
(* at the place of the first.                                                *)
Place(proposed, s) == Min({q.place : q \in Of(proposed, s)})

Inserted(proposed, s) ==
  LET firm == {q \in Of(proposed, s) : q.firm}
  IN  IF firm # {} THEN CHOOSE q \in firm : \A r \in firm : r.place <= q.place
      ELSE CHOOSE q \in Of(proposed, s) : q.place = Place(proposed, s)

Remaining(proposed) == {s \in DOMAIN signals : \A c \in Codes(proposed) : ~Excludes(c, s)}

Entering(proposed) ==
  {c \in Codes(proposed) : \A d \in Codes(proposed) :
     Excludes(c, d) => ~(Place(proposed, c) < Place(proposed, d))}

SignalsAfter(proposed) ==
  [s \in Remaining(proposed) \cup Entering(proposed) |->
     Max((IF s \in Remaining(proposed) THEN {signals[s]} ELSE {})
         \cup (IF s \in Entering(proposed) THEN {Inserted(proposed, s).confidence} ELSE {}))]
-----------------------------------------------------------------------------
(* The evaluation sees the opportunity of the lead as it was, for the lead   *)
(* is updated last, and the missing information of the evaluation before it. *)
EvaluationAfter(active) ==
  LET result == Evaluate(lead.opportunity, active)
  IN  [opportunity |-> lead.opportunity, missing |-> evaluation.missing,
       score |-> result.score, classification |-> result.classification,
       action |-> result.action, handoff |-> result.handoff,
       specialized |-> result.specialized]

OpportunityAfter(x) ==
  IF lead.opportunity = "unidentified" THEN x.opportunity ELSE lead.opportunity

LeadTarget(optOut, result) ==
  IF optOut THEN "do_not_contact"
  ELSE IF result.missing # {} THEN "incomplete_information"
  ELSE IF result.classification \in {"warm", "hot", "priority"} THEN "qualified"
  ELSE "qualifying"

ConversationTarget(optOut, handedOff, question) ==
  IF optOut THEN "do_not_contact"
  ELSE IF handedOff THEN "waiting_human"
  ELSE IF question # None THEN "waiting_customer"
  ELSE "qualifying"

(* An active handoff is kept; an opt-out cancels it.                         *)
HandoffAfter(optOut, handedOff, specialized) ==
  IF optOut /\ handoff.status = "requested" THEN [handoff EXCEPT !.status = "cancelled"]
  ELSE IF handedOff /\ handoff.status # "requested"
    THEN [status |-> "requested", kind |-> IF specialized THEN "specialized" ELSE "general"]
  ELSE handoff

QuestionStandsThroughChanges(changed, optOut, handedOff) == pending /\ ~optOut /\ ~handedOff

(* A pending question is cancelled by a change of the profile, and kept when *)
(* another one would be asked.                                               *)
QuestionStands(changed, optOut, handedOff) ==
  pending /\ ~optOut /\ ~handedOff /\ changed = {}

AnnouncedOnce(changed, disputed, result, optOut, handedOff) ==
  {[event |-> "QualificationEvaluationCreated", score |-> result.score]}
  \cup When(changed # {}, {[event |-> "LeadProfileUpdated", fields |-> changed]})
  \cup When(evaluation = NotEvaluated,
            {[event |-> "LeadClassificationChanged", current |-> result.classification]})
  \cup When(optOut, {[event |-> "DoNotContactRegistered"]})
  \cup When(handedOff, {[event |-> "HandoffRequested"]})
  \cup When(optOut \/ handedOff, {[event |-> "ConversationAutomationPaused"]})

(* The events of an application, and what a subscriber makes of them.        *)
Announced(changed, disputed, result, optOut, handedOff) ==
  {[event |-> "QualificationEvaluationCreated", score |-> result.score]}
  \cup When(changed # {} \/ disputed,
            {[event |-> "LeadProfileUpdated", fields |-> changed]})
  \cup When(result.classification # evaluation.classification,
            {[event |-> "LeadClassificationChanged", current |-> result.classification]})
  \cup When(optOut, {[event |-> "DoNotContactRegistered"]})
  \cup When(handedOff, {[event |-> "HandoffRequested"]})
  \cup When(optOut \/ handedOff, {[event |-> "ConversationAutomationPaused"]})

AfterEvents(view, events) ==
  LET Event(name) == {e \in events : e.event = name}
      The(name) == CHOOSE e \in Event(name) : TRUE
      Says(name) == Event(name) # {}
  IN  [fields |-> view.fields \cup UNION {e.fields : e \in Event("LeadProfileUpdated")},
       score |-> IF Says("QualificationEvaluationCreated")
                   THEN The("QualificationEvaluationCreated").score ELSE view.score,
       classification |-> IF Says("LeadClassificationChanged")
                            THEN The("LeadClassificationChanged").current
                            ELSE view.classification,
       optedOut |-> view.optedOut \/ Says("DoNotContactRegistered"),
       handedOff |-> view.handedOff \/ Says("HandoffRequested"),
       paused |-> view.paused \/ Says("ConversationAutomationPaused")]

CompleteWithoutMessage ==
  /\ job' = Idle
  /\ UNCHANGED <<inbox, aged, handled>>

Complete ==
  /\ handled' = handled \cup {job.message}
  /\ job' = Idle
  /\ UNCHANGED <<inbox, aged>>

(* A result about other messages is refused for good; one whose context has  *)
(* been applied before changes nothing, if it is the same.  If it is not,    *)
(* the worker gives up.                                                      *)
Refuse ==
  /\ job.pc = "extracted"
  /\ \/ job.message \notin job.context
     \/ \E x \in executions : x.context = job.context
  /\ Complete
  /\ UNCHANGED <<executions, records>>

(* The final transaction; a transition the state machines do not allow       *)
(* leaves the worker to give up.                                             *)
Apply ==
  LET x == job.extraction
      correction == "correction" \in inbox[job.message].says
      changed == Written(x, correction)
      optOut == "do_not_contact" \in x.controls
      active == SignalsAfter(x.signals)
      result == EvaluationAfter(active)
      handedOff == ~optOut /\ (x.handoff # None \/ result.handoff)
      specialized == x.handoff = "specialized" \/ result.specialized
      question == IF optOut \/ handedOff THEN None ELSE x.question
      stands == QuestionStands(changed, optOut, handedOff)
      target == ConversationTarget(optOut, handedOff, question)
      leadTarget == LeadTarget(optOut, result)
  IN  /\ job.pc = "extracted"
      /\ job.message \in job.context
      /\ \A e \in executions : e.context # job.context
      /\ target \in {conversation} \cup AllowedFrom[conversation]
      /\ LeadMayBecome(lead.state, leadTarget)
      /\ executions' = executions \cup {[message |-> job.message, context |-> job.context]}
      /\ facts' = FactsAfter(x, job.message, correction)
      /\ conflicts' = conflicts \cup Disputed(x, correction)
      /\ signals' = active
      /\ evaluation' = result
      /\ lead' = [opportunity |-> OpportunityAfter(x), state |-> leadTarget]
      /\ asked' = IF question # None /\ ~stands THEN Append(asked, question) ELSE asked
      /\ pending' = (stands \/ question # None)
      /\ conversation' = target
      /\ handoff' = HandoffAfter(optOut, handedOff, specialized)
      /\ optedOut' = (optedOut \/ optOut)
      /\ told' = AfterEvents(told, Announced(changed, Contested(x) # {}, result, optOut,
                                             handedOff))
      /\ Complete

Next ==
  \/ \E text \in Texts : Receive(text)
  \/ Age
  \/ Block
  \/ Prepare
  \/ \E failure \in DOMAIN Retryable : ProviderFails(failure)
  \/ \E p \in Payloads : ProviderAnswers(p)
  \/ GiveUp
  \/ Refuse
  \/ Apply

Spec == Init /\ [][Next]_vars
-----------------------------------------------------------------------------
(* The rows and the memory of the worker hold values of their types.         *)
TypeOK ==
  /\ inbox \in Seq(Texts) /\ Len(inbox) <= MaxMessages
  /\ aged \in 0..Len(inbox)
  /\ handled \subseteq Messages
  /\ executions \subseteq [message : handled, context : SUBSET Messages]
  /\ \A f \in DOMAIN facts :
       /\ facts[f].confidence \in 0..100
       /\ facts[f].status \in {"accepted", "hypothesis", "rejected"}
       /\ facts[f].writer \in handled
  /\ conflicts \subseteq DOMAIN facts
  /\ \A s \in DOMAIN signals : signals[s] \in 0..100
  /\ lead.opportunity \in Opportunities /\ lead.state \in LeadState
  /\ evaluation.score \in 0..100
  /\ pending => asked # <<>>
  /\ conversation \in ConversationState
  /\ handoff \in [status : {"none", "requested", "cancelled"},
                  kind : {None, "general", "specialized"}]
  /\ job # Idle => /\ job.pc \in {"calling", "extracted"}
                   /\ job.message \in Messages \ handled
                   /\ job.context \subseteq Messages

(* A value of the profile gives way to another one only when the message     *)
(* being processed says that it corrects it: "neither value replaces the     *)
(* other" (ContradictionReconciler), whatever the confidence of the new one. *)
OverwriteNeedsCorrection ==
  [][\A f \in DOMAIN facts \cap DOMAIN facts' :
       facts'[f].value # facts[f].value =>
         "correction" \in inbox[facts'[f].writer].says]_vars

(* A value enters the profile, or replaces another one, only as an accepted  *)
(* value or a hypothesis, and with the confidence a hypothesis needs unless  *)
(* the customer worded it as a correction: reinforcement, which may degrade  *)
(* a known value, never brings in another one.                               *)
ValuesEnterTrusted ==
  [][\A f \in DOMAIN facts' :
       \/ f \in DOMAIN facts /\ facts'[f].value = facts[f].value
       \/ /\ facts'[f].status \in {"accepted", "hypothesis"}
          /\ \/ facts'[f].confidence >= Provisional
             \/ "correction" \in inbox[facts'[f].writer].says]_vars

(* No field is asked for twice within RecentLimit consecutive questions,     *)
(* though questions stay pending, are cancelled and are asked again.         *)
NoFieldAskedTwice ==
  \A i, j \in DOMAIN asked : i < j /\ asked[i] = asked[j] => j - i > RecentLimit

(* At most one active signal of each exclusive group, also when one          *)
(* extraction proposes several and though research_only is in two groups.    *)
OneSignalPerGroup ==
  \A s, t \in DOMAIN signals : Excludes(s, t) => s = t

(* Whatever stays in dispute reaches the scoring: while a field has an open  *)
(* conflict, the lead has an active signal of contradictory information.     *)
ConflictsSignalled ==
  conflicts # {} => "contradictory_information" \in DOMAIN signals

(* An opt-out has absolute priority: contact, lead and conversation agree    *)
(* about it, and after it the contact is asked nothing and handed to nobody  *)
(* and the evaluation says stop, whether a pattern or the provider heard it, *)
(* also when the provider was unavailable, a person had been asked for       *)
(* before, or the other signals call for an advisor.                         *)
OptOutDominates ==
  /\ conversation = "do_not_contact" <=> optedOut
  /\ lead.state = "do_not_contact" <=> optedOut
  /\ optedOut =>
       /\ ~pending /\ handoff.status # "requested"
       /\ evaluation.action = "stop_automation" /\ ~evaluation.handoff

(* A current value comes from a message that was in the context of the       *)
(* extraction that wrote it, whichever message the provider names.           *)
FactsFromContext ==
  \A f \in DOMAIN facts :
    \E x \in executions : x.message = facts[f].writer /\ facts[f].message \in x.context

(* No step makes known what a question it leaves pending asks for: a         *)
(* customer is not asked for what the profile has just learned, though the   *)
(* question of the extraction, the pending one and the profile are decided   *)
(* by different parts.                                                       *)
QuestionsStillOpen ==
  [][pending' => asked'[Len(asked')] \notin DOMAIN facts' \ DOMAIN facts]_vars

(* A lead that scores hot or priority does not stay with the automation,     *)
(* whatever the rules of the policy make of its action.                      *)
HotLeadsReachAHuman ==
  evaluation.classification \in {"hot", "priority"} =>
    conversation \in {"waiting_human", "do_not_contact"}

(* A subscriber that has taken every event knows the profile's fields, the   *)
(* score and the classification, and whether the contact has opted out, a    *)
(* person has been asked for and the automation is paused, though most       *)
(* events are sent only when a transaction thinks that something changed.    *)
SubscribersKnow ==
  /\ told.fields = DOMAIN facts
  /\ told.score = evaluation.score
  /\ told.classification = evaluation.classification
  /\ told.optedOut = optedOut
  /\ told.handedOff = (handoff.status # "none")
  /\ told.paused = (conversation \in {"waiting_human", "do_not_contact"})

(* What the opportunity of an evaluation requires and the profile does not   *)
(* know is missing information, and the evaluation reports that there is     *)
(* some.                                                                     *)
MissingReported ==
  /\ evaluation # NotEvaluated
  /\ Missing(evaluation.opportunity, DOMAIN facts) # {}
  => evaluation.missing # {}

(* The state machines refuse no result but the one of a first message that   *)
(* asks a question: open conversations do not wait for the customer.  The    *)
(* lead may always become what a result makes of it.                         *)
OnlyFirstQuestionRefused ==
  job.pc = "extracted" /\ job.message \in job.context =>
    LET x == job.extraction
        optOut == "do_not_contact" \in x.controls
        result == EvaluationAfter(SignalsAfter(x.signals))
        handedOff == ~optOut /\ (x.handoff # None \/ result.handoff)
        question == IF optOut \/ handedOff THEN None ELSE x.question
        target == ConversationTarget(optOut, handedOff, question)
    IN  /\ LeadMayBecome(lead.state, LeadTarget(optOut, result))
        /\ \/ target \in {conversation} \cup AllowedFrom[conversation]
           \/ conversation = "open" /\ target = "waiting_customer"

(* A message stays out of the context of its own extraction, and is refused,  *)
(* only if a newer one is in it; no context is larger than the window.      *)
ContextIsRecent ==
  job # Idle =>
    /\ \E n \in job.context : n >= job.message
    /\ Cardinality(job.context) <= Window

(* The records of a lead change as MessageDecisions says they may, for the   *)
(* results the code computes from texts, payloads, profile and scoring as    *)
(* for the outcomes that ConversationProcessing picks: each message decides  *)
(* at most once, and nothing but an opt-out while a person is requested.     *)
Promised == INSTANCE MessageDecisions WITH
  Messages <- 1..MaxMessages,
  ConvOf <- [m \in 1..MaxMessages |-> "conversation"],
  ContactOf <- [c \in {"conversation"} |-> "contact"],
  decided <- {x.message : x \in executions},
  stopped <- When(optedOut, {"contact"}),
  paused <- When(handoff.status = "requested", {"conversation"}),
  asking <- When(pending, {"conversation"})

ImplementsDecisions == Promised!DecisionsSpec
=============================================================================
