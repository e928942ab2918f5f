# Verification of the commercial automation platform

TLA+ specifications, TLC model checks and TLAPS proofs for the core of
`saas_platform`: the synthetic event pipeline with its PostgreSQL queue, the
intake and processing of conversation messages with the outbox behind it, and what
processing makes of a lead. Paths below are
relative to the repository root; `postgres_queue.py`, `application.py` and the
like without a directory are in `src/saas_platform/infrastructure/` and
`src/saas_platform/modules/telecom_conversations/`.

## 1. The system

Everything is a Python process over one PostgreSQL database: an API process
accepts events and messages, worker processes poll. There is no broker and no
shared memory; processes meet only in rows, and every operation is one or a few
READ COMMITTED transactions. Work is taken with `SELECT … FOR UPDATE SKIP LOCKED`
and held with a lease (an expiry time, and for conversations a random token).

| Component | State | Operations | Interacts with |
|---|---|---|---|
| Synthetic events (`modules/synthetic_events`) | `synthetic_events`, `outbox_items`, `consumer_receipts`, audit rows | accept (event + outbox row), process (receipt + effect) | queue |
| Leased queue (`postgres_queue.py`) | `queue_messages`: status, attempts, available_at, lease_until | dispatch_batch, claim, complete, fail, run_cycle | outbox rows, event processor |
| Conversation ingest (`application.py` IngestConversationMessage) | `contacts`, `leads`, `conversations`, `conversation_messages`, `message_processing` | execute, with a second transaction for a lost race | processing, outbox |
| Message claim (`postgres_jobs.py`) | lease of `conversations`, status/token of `message_processing` | claim_next | processing |
| Message processing (`application.py` ProcessConversationMessage) | everything of the conversation: execution, profile, evaluation, lead, handoff, question, preference | `_prepare`, extraction call, `_finalize`, `_record_failure` | extraction, scoring, state machines, outbox |
| Extraction (`modules/telecom_extraction`) | none kept; per call: context, attempts | prepare context, attempt and retry, degrade, normalise, resolve confidence, reconcile, decide, map | provider (external), profile |
| Lead qualification (`modules/lead_qualification`) | none; a policy value | score, penalties, bands, decisions | extraction result, lead |
| Profile application (`profile.py`) | facts, conflicts, signals of a lead | plan | extraction result |
| State machines (`domain.py`) | states of conversation, lead, handoff | transition | processing |
| Conversation outbox (`postgres_jobs.py`) | `conversation_outbox_events` | claim, publish, complete, fail | sink (external) |
| Tenancy, database, configuration, bootstrap, observability, API, worker entrypoints | tenant row, settings, metrics | activation check, RLS scope, wiring, polling loop | all |

### What is hard in it, and what must hold

*Queue.* A delivery is three transactions (claim, process, complete) with a
crash, an expired lease or a lost answer possible between any two. The row has
no owner, so a worker acts on whatever delivery is current. Correct means: the
effect happens once, never after an acknowledgement, a settled row stays
settled, a valid message is not given up before `max_attempts` deliveries, and
every accepted event is settled in the end.

*Conversation processing.* The provider call takes longer than a lease may
last; two workers can hold results for one message; other messages of the
conversation and other conversations of the contact commit in between; the claim
itself reads two moments of the database. Correct means: a result is applied at
most once, on the context it was computed from, by the holder of the
conversation's lease; the rows that tell a conversation's story agree; an opt-out
wins over everything, before, during and after it commits, and is not lost.

*Ingest.* Concurrent deliveries of one message must produce one message and the
same answer. *Outbox.* At-least-once publication with leases and backoff.
*Locks.* Ingest, worker and claimer lock the same rows in different orders.
*Pure parts.* Scoring, confidence, contradiction handling, profile updates and
context selection are functions whose boundary cases (thresholds, windows, ties)
are worth checking against a reference definition.

The hazards, at the lines where they bite, are listed in `PROJECT.json`.

## 2. Modules

| Module | Models | Role |
|---|---|---|
| `EffectInbox` | the promise of the event pipeline | abstract specification |
| `SyntheticQueue` | `synthetic_events/postgres.py`, `postgres_queue.py` | detailed specification, implements `EffectInbox` |
| `SyntheticQueue_proofs` | – | its theorems |
| `MessageDecisions` | the promise of message processing | abstract specification |
| `ConversationProcessing` | `postgres_jobs.py` claim, `application.py` processing, the repositories in `postgres.py` they call | detailed specification, implements `MessageDecisions` |
| `ConversationProcessing_proofs`, `ConversationEnds_proofs` | – | its theorems: leases, story and decisions; how messages end |
| `MCConversationProcessing` | – | instances for TLC |
| `EventFeed` | the promise of the outbox | abstract specification |
| `ConversationOutbox` | publisher in `postgres_jobs.py`, `PostgresOutboxRepository.add` | detailed specification, implements `EventFeed` |
| `ConversationOutbox_proofs` | – | its theorems |
| `MessageInbox` | the promise of ingest | abstract specification |
| `MessageIngest` | `IngestConversationMessage`, the repositories it calls and their row locks | detailed specification, implements `MessageInbox` |
| `MessageIngest_proofs` | – | its theorems |
| `MCMessageIngest` | – | instance for TLC |
| `ConversationStates` | `ConversationStateMachine`, `LeadStateMachine` in `domain.py` | pure; shared |
| `ExtractionContext` | `telecom_extraction/context.py` | pure |
| `TelecomExtraction` | `telecom_extraction/processing.py`, the tables of `contracts.py` and `domain.py` it uses | pure |
| `LeadScoring` | `lead_qualification/scoring.py`, `default_policy.py` | pure |
| `LeadDossier` | the rows `_finalize` writes for a lead, `profile.py`, the events it announces, the attempt loop of `telecom_extraction/application.py`, and the four above | detailed specification, implements `MessageDecisions` |
| `LeadDossier_proofs`, `LeadHistory_proofs`, `LeadDecisions_proofs` | – | its theorems: what the rows and the scores are; where they come from; what is decided, and in which context |
| `MCLeadDossier` | – | the provider's answers for TLC |

### SyntheticQueue

One key stands for an event, its outbox row and its queue message (unique
constraints make the relation one to one). `event`, `outbox`, `queue`,
`receipts` and `effects` are the rows, `job` is what a worker process holds in
memory. Time is reduced to two facts of a row: `due` (`available_at <= now`)
and `live` (`lease_until > now`); `BackoffElapses` and `LeaseExpires` change
them. Each database transaction is one action: `Accept`, `DispatchBatch` (any
subset of the pending rows, for SKIP LOCKED and the batch limit), `Claim`,
`Process`, `Complete`, `Fail`. `Process` may commit and still report an error
(`pc = "failing"`), `CompleteFails` likewise; `ProcessFails` is any transient
error, `ProcessRejects` a `PermanentError` (unknown type, malformed payload,
hash mismatch), which concerns the messages of the constant `Invalid`. `Crash`
is the death of the process and also an error raised by `fail` itself.

`attempts` saturates at `AttemptCap`; the only comparison the code makes is with
`MaxAttempts`, which is below the cap.

### ConversationProcessing

Messages are numbers in the order of their external timestamps. `processing` is
the `message_processing` row, `conversation` the state and lease of the
conversation, `live` the tokens whose `lease_until` is in the future (row and
conversation of one claim share token and expiry). `doNotContact`, `handoff`,
`question`, `leadVersion` and `executions` are the business rows. `job`, `scan`
and `draft` are the memory of a worker. `aged` is the clock's part in the context: the
newest message older than `max_age_days`; `GrowsOld` moves it, the older messages with it.

Every transaction is one action, with one exception. `claim_next` is two:
`ClaimScan` takes the snapshot of the statement, `ClaimLock` locks a candidate's
conversation. PostgreSQL, under READ COMMITTED, re-evaluates the condition with
the new version of the *locked* row only, so the conversation is checked again
and the processing row is not; the update of the processing row has no condition
on its status. `ClaimNothing` is the claim that finds all candidates locked or
leased. `ClaimLock` takes the oldest candidate not skipped (order by
`external_timestamp`); `MayBeLocked` says when SKIP LOCKED may have skipped one,
which makes processing out of order possible.

`Prepare` is `_prepare` with its early ends (stale claim, opted-out contact,
active handoff unless the message is an opt-out), and reads the messages of the
conversation. `Extract` selects the context from them (`Selections`), which is the code's
preparation at the start of the extraction, and is the provider call and
`_validate_extraction`: a result is refused when the claimed message is not in the context.
`Finalize` is `_finalize`: the fence on status, token
and lead version, the two re-checks, the duplicate application, and `Apply`,
which is every row the transaction writes. `RecordFailure` is `_record_failure`.
`Abandon` is a crash, a database error or a suspended tenant. An error that no
handler of `execute` catches (`GiveUp`) leaves the lease to expire, as the worker
loop does.

`MessageDecisions` says what of all this the business sees: messages decided once
each, contacts stopped, conversations paused for a human, questions open. Its steps
are `Answer`, `HandOff` and `Stop`; claims, leases, extractions, failures and retries
are silent. The refinement maps a message to decided when an execution is stored for
it, and reads the three sets off `doNotContact`, `handoff` and `question`.

Abstractions: the provider's result is one of the outcomes the decision service
can produce for the messages selected (`OutcomesOf`); completed and
completed_degraded are one status; the attempts counter is not kept, a conflict
may be retryable or final; the context is selected by all three limits of the code
(`Eligible`: age, unless all messages are too old, and number; `HasRoom`: characters, the
newest message being cut to fit), but lengths are reduced to the constant `FitTogether`,
the sets of messages whose redacted texts keep to `max_characters` together
(`ExtractionContext` has the lengths themselves), and the constant `Ageing` bounds the
messages that live to be too old; profile, score, lead state, tenant, kind of handoff and
text are not kept. `automation_active` is a function of the state. A closed
conversation and `human_active` are not reachable by the code in this
repository: nothing calls the transitions a human actor would make. A lease token
no row or worker mentions stands for a new UUID, and `NewToken` always picks the
first one, so that states differing in names of tokens only are one state.

### ConversationOutbox

`status`, `attempts` and `token` are columns of `conversation_outbox_events`, `due`
and `live` the two comparisons with the clock, `audits` the
`conversation_outbox.published` audit rows of an event, `taken` what the sink knows.
`job` is a publisher in `publish_batch`: the rest of its batch, the event in hand,
and the attempts the claim returned, on which it decides dead or retry although
another publisher may have claimed the event since.

`Add` is the insert of the ingest or processing transaction. `Claim` takes any
part of the due events that fits the limit (order by due time and SKIP LOCKED) and
raises the attempts of all of them. Then, event by event and in any order: the sink
takes it (`Deliver`), raises having taken it or not (`DeliverFails`), or refuses it
for good (`Refuse`, for the events of `Refused`); `Acknowledge` and `Fail` are
`_complete` and `_fail`, fenced by status and token. A lost lease and a lost answer
of the database look alike to the publisher: in `_complete` they are a transient
failure of the event (`AcknowledgeFails`), in `_fail` they end the batch
(`FailFails`), whose remaining events wait for the lease. Those events have used
up an attempt without being offered.

`EventFeed` says what those who listen see of it: events announced, handed to the sink,
published, given up. The mapping reads the sets off the `status` column and `taken`;
claims, leases, retries, crashes and lost answers are silent. A stale publisher may hand
the sink an event that is published or even given up: delivery is at least once.

The events of a batch have tokens of their own in the code and share one here: a row
is always looked up by event *and* token, and the batch has one expiry. The sink
that ships (`LoggingOutboxEventSink`) never fails; the port allows both kinds of
failure.

### MessageIngest

A delivery is one call of `execute`; several deliveries may carry one message, or one
identity with different payloads. Rows are known by the delivery that inserted them
(`contactBy`, `conversationBy`, `messageBy`); they are visible when it is in
`committed`. Lead, processing row, audit events and outbox event stand and fall
with the conversation or the message and have no variables. `contactLock` and
`conversationLock` are row locks, held until the transaction ends.

`Lookup` is `_existing`, a transaction of its own, before and after the main one.
`InsertContact`, `FindContact` and `InformContact` are `contacts.resolve`
(`ON CONFLICT DO NOTHING`, then `SELECT FOR UPDATE`, then an update under the
version read); `InsertConversation` and `FindConversation` are `resolve_with_lead`
with its savepoint and `_require_contact`; `InsertMessage` and `MessageExists` are the
two outcomes of `messages.insert`; `Finish` is `touch_with_message` and the commit, whose
answer may be lost. `Fails` is any error or the end of the process.

The workers are transactions of message processing, reduced to what ingest meets:
a claim or a recorded failure locks the conversation, `_prepare` and `_finalize`
lock the conversation and then the contact, and they may give both new versions.
Ingest takes the same locks in the opposite order, so the two can wait for each other;
`DeadlockVictim` is the database ending one of a ring of waiting transactions. The
victim of a deadlock gets a persistence error, and nothing retries the delivery but
its sender.

The clock is a constant per delivery (`Received`): processes may run on different
hosts. The answers are the final values of `pc`. The plain `ConflictError`s of
`resolve` and `resolve_with_lead` need a row that disappears and nothing deletes
rows, so they have no value there; the three `ConcurrencyConflictError`s have, and
`NoSpuriousConflict` says that they do not happen.

Two details a reader may not expect: a delivery that loses a race for a
*conversation* reference gets an `IdempotencyConflictError` without the audit event
that a reused *message* identity leaves; and a conversation opens with the time of
its ingestion as last activity, so that a first message, sent before it was received,
does not become `last_message_id` (`CursorIsNewest` states exactly this).

### LeadDossier

`ConversationProcessing` says when a result is applied and leaves out what is in it;
`LeadDossier` says what it does, over the messages of one conversation. It assumes what
is proved there: one worker has the conversation at a time and the lead it read is
the one it changes (`LeaseAgreement`, `FreshContext`). So a job is three steps
between which only messages arrive, and messages are handled in the order they were
sent.

`inbox` keeps of a message what the patterns of the code find in it (a correction, a
wish for a human, an opt-out) and its length. `aged` is the newest message older
than the limit of age. `facts`, `conflicts`, `signals`, `lead`, `evaluation`, `asked`
with `pending`, `conversation`, `handoff` and `optedOut` are the rows, `executions` the
stored extractions, and `told` what a subscriber of the outbox events knows that has
taken them all in order.

`Receive` is an ingested message, `Age` time passing, `Prepare` and `Block` are
`_prepare`. `ExtractionContext` selects the context: of the messages young enough (or
the newest alone) the newest `Window`, and of these, from the newest on, what fits in
`MaxCharacters`, passing over a message that does not fit. It states this as the
set that agrees with the newer choices, and the loop of the code is checked to
compute that set. `ProviderFails` and `ProviderAnswers` are an attempt of the extraction
use case, which is repeated if the adapter calls the failure transient (`Retryable`) and
attempts remain, and degrades to the fallback result otherwise; an answer that
cannot be normalised is a failure like the others. `Refuse` and `Apply` are
`_finalize`, and `GiveUp` is a crash or an error nobody handles. A repeated context
whose result is the same completes the message, one whose result differs is a
conflict nobody handles: `Refuse` and `GiveUp` are the two outcomes. A transition that
`ConversationStates` does not allow is such an error too, so `Apply` requires both
transitions to be legal.

The answer of the provider is a record: items of profile, signals and controls, with
the message each names and its confidence in percent. Of an evidence it keeps whether it
is verbatim, of the values whether their units can be normalised, of the question the
field it is about. `TelecomExtraction` takes it from there as `processing.py` does:
normalise and refuse, resolve confidence, reconcile with itself and with the profile,
decide on controls, handoff and question, map to signals. The dictionary of signal
candidates is a set of proposals with their places in it. `LeadScoring` is the engine
with the shipped policy, to the point: worth of each signal and level, penalties,
bands, the ordered rules with their conditions, and which of them asks for a person.

`Apply` follows `_finalize` to the order in which rows are read: the evaluation is made
with the opportunity of the lead as it was before this message and with the missing
information of the evaluation before, because the lead is updated last and the profile
is loaded again before the evaluation is stored.

`Announced` are the events of an application with the conditions under which
`_finalize` sends each, `AfterEvents` what a subscriber makes of them. Delivery of the
events is `ConversationOutbox`; it may reorder events whose publication is retried, and
`SubscribersKnow` is a statement about their contents only.

`ImplementsDecisions` maps the dossier to `MessageDecisions` for one conversation of one
contact, so that both specifications of `_finalize`, the one that picks outcomes and the
one that computes them, keep to the same promise.

Left out: texts and redaction, the summary, secondary opportunities, the overall
confidence, priority and source of a handoff, and facts confirmed by a person, which
nothing in the repository writes. `RecentLimit` is five in the code.

Definitions such as `LeaseLostIgnored` or `FinishWithoutRelease` are deliberate
mistakes, used to check that a property notices them; the specifications do not
use them.

## 3. Model checking

Run inside this directory: `tlc -workers 2 -config <cfg> <module>`.

| Run | Instance | Shows |
|---|---|---|
| `queue` | 2 keys, one invalid, 2 workers, `MaxAttempts` 2, cap 3; 24 012 states | `ReceiptMatchesEffect`, `DeadAfterMaxAttempts`, `SettledIsFinal`, `EventuallySettled`, implements `EffectInbox` |
| `conversation` | 2 messages of one conversation, of which the first may grow too old, 2 workers, 8 tokens; 1 250 406 states | `AppliedAtMostOnce`, `LeaseAgreement`, `FreshContext`, `RetriedOnlyByExpiry`, `ConversationConsistent`, implements `MessageDecisions` |
| `contact` | 2 messages of two conversations of one contact, the second an opt-out, 2 workers; 265 269 states | `NoAutomationAfterOptOut` |
| `opt_out` | human request of 3 characters, plain message, opt-out, plain message, of 1 character each; the first two may grow too old; 1 worker, window 2, 3 characters; 104 079 states | `OptOutHonoured`, `EndsAreJustified`, `OptOutEventuallyHonoured` |
| `outbox` | 2 events, one refused by the sink, 2 publishers, batches of up to 2, `MaxAttempts` 2; 104 678 states | `PublishedOnce`, `DeadAfterMaxAttempts`, `CurrentAttempts`, `EventuallySettled`, implements `EventFeed` |
| `ingest` | 5 deliveries: a message twice, its identity from another contact and conversation, a later message, a foreign conversation; 1 processing transaction; 1 failure besides deadlocks; 304 332 states | `NoSpuriousConflict`, `CursorIsNewest`, `EveryDeliveryAnswered`, implements `MessageInbox` |
| `dossier` | 3 messages of 5 texts (of length 1 or 2), window 2, 2 characters, one retry, one recent question, six answers of the provider about each message; 260 314 states | `OverwriteNeedsCorrection`, `ValuesEnterTrusted`, `NoFieldAskedTwice`, `QuestionsStillOpen`, `OneSignalPerGroup`, `ConflictsSignalled`, `OptOutDominates`, `HotLeadsReachAHuman`, `FactsFromContext`, `SubscribersKnow`, implements `MessageDecisions` |
| `missing_information` | 2 messages, no retry | `MissingReported` does **not** hold |
| `claim_race` | 2 messages, 2 workers | `AppliedStaysCompleted` does **not** hold |
| `first_question` | 2 messages, 1 worker | `TargetIsLegal` does **not** hold |
| `other_conversation` | 3 messages, 2 conversations, 1 worker | `OptOutCancelsEverything` does **not** hold |
| `opt_out_lost` | 3 messages, window 2, 1 worker | `OptOutHonoured` does **not** hold |

Why the bounds are enough: the protocols relate one row with its claims, so the
interesting cases need two workers on one message (one stale, one current), a
second message of the same conversation (lease, lead version, question, handoff)
and a second conversation of the contact (opt-out). Tokens are as many as rows and workers can
refer to at once, so that a new one always exists. The deliveries of `ingest` meet
at each row in turn: contact, conversation, message. For the dossier three messages
are needed for two questions, because the first cannot ask one (counterexample 3),
which is what the limit of one recent question needs; with a window of two each message
is in the context of its own job and of its neighbour's, and with two characters a long
message pushes out its neighbour. In `opt_out` the long request fits with no other message,
is behind three more, and grows too old: each of the three limits alone leaves it or the
plain message after it out of a context, and TLC was seen to end a message as invalid for
each of them; the opt-out itself has a newer message, with which it fits, so that the run
is not about the newest message only. The answers were chosen so that a field
is contradicted within a payload and against the profile, is superseded by a
correction, and meets each treatment by confidence, and so that a score becomes
warm and hot. The runs have been seen to reach each of these. `MCLeadDossier` also
compares the selection of `ExtractionContext` with the loop of the code for all
conversations of up to four messages of lengths one to four, every age, a window of
three and three characters (`SelectionIsTheLoop`). Deadlock is not checked: a run
of the queue ends when every event is settled and no request comes, one of the
conversations when every message is final.

Fairness. `worker.py` polls until it is told to stop: a step that stays possible is
taken (weak fairness of claims and dispatch), and time passes (leases and
backoff run out). The steps after a claim, up to recording a failure, are interrupted by crashes,
lost leases and other workers' commits; they are strongly fair, which says that work
claimed for ever does not meet an interruption at the same step each time. For the
queue the step may be taken by any worker for any message; for the outbox each
event is now and then offered before the lease of its batch is lost, which its place
in the batch could otherwise prevent. For ingest: a transaction
that can go on does, and the database detects deadlocks. Nothing is assumed of
requests, of the choice of outcomes or of crashes.

### What the counterexamples say

1. **Missing information is forgotten** (`missing_information`). `profile.plan` computes
   what the extraction leaves missing, then `_finalize` loads the profile again and takes
   the missing information of the evaluation before, at first none. No evaluation ever
   reports any, and the lead state `incomplete_information` is never reached.
2. **A completed message is taken up again** (`claim_race`). The claimer's snapshot
   sees an expired lease, the slow worker commits its result and frees the
   conversation, the claimer locks it, finds it free and overwrites the completed
   row. The unique constraints keep the result from being applied twice
   (`AppliedAtMostOnce` holds), but the message is processed again, and ends as
   a duplicate, blocked, or stuck behind an unhandled error.
3. **A first question is illegal** (`first_question`). `_conversation_target`
   answers a question with `waiting_customer`, which the state machine does not allow
   from `open`. The error is handled nowhere; the message, the oldest, is retried
   at every lease expiry.
4. **Opt-out and the contact's other conversations** (`other_conversation`). The
   preference is the contact's, the cancellation the conversation's. No
   automation acts on what is left (`NoAutomationAfterOptOut` holds), but the
   question stays pending and the handoff active.
5. **Opt-out outside the context** (`opt_out_lost`). The context keeps the newest
   `max_messages` messages; an opt-out claimed late is not among them, the result is
   rejected and the message ends `invalid_extraction`. The run shows the window; the other
   limits of the context do the same with a single newer message, when the opt-out is older
   than `max_age_days` or when the newer message fills `max_characters` (a message may have
   20 000, the default is 12 000). The property holds while all three limits leave the
   opt-out room: `opt_out` checks it on an instance, `OptOutsAreHonoured` proves it.

### Observations

What modelling showed besides, without a run of its own:

- The queue's `claim` counts deliveries and compares them with nothing; only `fail`
  does (`postgres_queue.py:152`). A message that ends its worker's process is
  delivered again for ever.
- An evaluation scores the opportunity the lead had one application earlier; the
  criteria that depend on plan or device lag by a message.
- A value of low confidence, and even of status rejected, becomes current when a
  correction repeats it or when it reinforces a value with more confidence than the
  last (`profile.py:187-211`).
- The signals of intent, urgency and opportunity get the confidence of the
  *opportunity* (`processing.py:972-1014`), so one between 0.65 and 0.70 is active and
  not usable for scoring.
- A `business_account` below the threshold is treated as unidentified but still
  suggests a handoff, which looks at the opportunity before the threshold.
- The text of a fallback question may be of another field than the one recorded
  (`processing.py:766-779`), and a new question is dropped while one is pending, even about
  another field.
- A repeated value with more confidence replaces the fact it repeats together with its
  status, so that an accepted value can become a hypothesis again; and a correction
  enters whatever its confidence (`ValuesEnterTrusted` states what is left).
- A question may be about a field whose contradiction the same message resolves by a
  correction: the question is chosen before the profile is changed.
- Each event is published with its own backoff. A subscriber that takes them in the order
  of their publication may see a classification that has been superseded.
- An open conflict stays open after a correction resolves it, and
  `contradictory_information`, in no exclusive group, is never deactivated. This is what
  makes `ConflictsSignalled` hold.
- A contradiction of confidence 0.70 or more leads to a handoff
  (rule 600 of the policy), so the clarifying question is asked only for doubtful ones.

## 4. Proofs

### The queue

`tlapm SyntheticQueue_proofs.tla`. For every set of keys and workers and every
`MaxAttempts` below the cap:

- `Invariance`: `IInv` is inductive. It joins the invariants of the run with what
  they need: no worker remembers more attempts than its row counts
  (`ClaimNotAhead`; else a stale claim could declare a message dead early), every
  queue row has an event (`RowsHaveEvents`), and invalid messages alone meet
  permanent errors and never get a receipt (`InvalidNeverApplied`). The proof is
  split by action (`TypeStep`, `InvalidStep`, `InvStep`).
- `TypeCorrect`, `EffectAtMostOnce`, `AcknowledgementFollowsEffect`,
  `DeadMeansExhausted` follow from it.
- `SettlementIsFinal`: no step of the specification reopens a settled row
  (`CompletedRows`, `FailedRows` say what `complete` and `fail` do to a row,
  whoever calls them).
- `Refinement`: initial states and steps of the queue map to initial states and
  steps or stutters of `EffectInbox`.

The assumptions are those the modules name: `InvalidAssumption`,
`AttemptsAssumption`, `NoKeyAssumption`.

### Conversation processing

`tlapm ConversationProcessing_proofs.tla`. For every set of messages,
conversations, contacts, workers and tokens, every assignment of messages to
conversations and of conversations to contacts, every window, all lengths (as far as
`FitTogether` is closed under subsets) and all ages (`ConstantsAssumption`):

- `LeaseInvariance`: `LeaseInv` is inductive. A token is fresh when it is given
  out (`NewToken`), a conversation holds one token, and the lead of a conversation
  changes only in a transaction of the worker that holds it. The typed rows,
  `LeaseAgreement`, `FreshContext` and `RetriedOnlyByExpiry` need each other, and one
  strengthening: a worker about to record a conflict has already lost its row or
  its conversation (`ConflictMeansLost`), and cannot get it back because tokens
  are not reused. Without it the recorded conflict could make a row retryable.
  The proof first reduces everything a working worker can do to seven kinds of
  step (`WorkKinds`: give up, roll back, settle, read, extract, apply), says what
  each does to the rows (`Finished`, `Claimed`, `ContextRead`, ...), and then that
  each preserves the invariant (`ClaimStep`, `WorkStep`, `EnvironmentStep`).
- `ProcessingTypeCorrect`, `LeasesAgree`, `ContextIsFresh` and
  `ExpiryIsTheOnlyRetry` are its conjuncts.
- A step is quiet (no business row and no conversation state changes) or it is the
  application of a result (`QuietOrApplies`), and an application is an opt-out, a
  handoff or an answer, the last two only for a contact that has not opted out
  (`ApplicationStory`). From these two lemmas follow `StoryIsConsistent`,
  `OptOutStopsAutomation` and, with finite sets, `AppliedOnce`: the application's
  guards exclude a second execution for the message or the context, and each
  execution moves the lead by one.

- `DecisionsRefinement`: a quiet step is silent in `MessageDecisions`, and an application
  is `Stop`, `HandOff` or `Answer` of its worker's message (`ApplicationDecides`), by the
  same two lemmas and the check for duplicates.

`tlapm ConversationEnds_proofs.tla` adds how messages end:

- `EndsJustified`: a message that was ended was applied, or is blocked by an opt-out or
  by a handoff that exists, or was left out of the context because newer messages of its
  conversation fill the window, do not fit in the characters together with it, or are there
  when it is too old (`Overtaken`). The invariant (`EndsInvariance`) says what
  workers have in hand: a claimed message that is not among those selected for it is
  overtaken (`LeftOutIsCrowded`), an extraction that has an opt-out in its context is one,
  and an execution that makes another a duplicate had the same context, and so heard the
  same opt-out. Then each of the places where a message settles gives its reason, and the
  reasons last: an opt-out is for good, a handoff is cancelled by an opt-out only, newer
  messages stay and age goes one way (`CrowdedStays`, `TimePasses`).
- `OptOutsAreHonoured` follows, if the limits leave every opt-out room (`OptOutsHaveRoom`):
  the newer messages of its conversation, if there are any, are fewer than the window holds
  and fit together with it, and it does not grow too old. Each of these is needed
  (counterexample 5).
- `OnlyTheFirstQuestionIsRefused`, `OnlyAClaimReopens`: the counterexamples 3 and 2 are the
  only ones of their kind. The state machine refuses nothing but a question that comes
  first, because the states a conversation can be in agree with handoff and opt-out
  (`StoryIsConsistent`); a row that reached its end is changed by no worker that had
  it, because the holder of a lease works on a row that is being processed.

`AppliedOnce` does not rest on the leases alone: the claim race (counterexample 2)
does reopen an applied message, and it is the check for duplicates together with
the unique constraint that keeps the result from being applied again.

### The outbox

`tlapm ConversationOutbox_proofs.tla`. For every set of events, publishers and
tokens, every limit of batches and every `MaxAttempts` within the cap
(`OutboxAssumption`, `NoEventAssumption`):

- `OutboxInvariance`: the typed rows, `PublishedOnce` and `DeadAfterMaxAttempts` are
  inductive together with `JobsInv`, what a publisher remembers: the sink has taken
  the event it acknowledges, a refused one is in `Refused`, and the attempts it was
  given are those of the row as long as the row keeps its token. The last part
  carries the argument: a claim's token is fresh, so the publisher that holds a row is
  the last that claimed it, and its count is current (`AttemptsAreCurrent`).
- `OutboxTypeCorrect`, `PublicationIsOnce`, `DeadMeansGivenUp` are its conjuncts.
- `OutboxRefinement`: the outbox implements `EventFeed`. The fence makes each settlement that
  of an open event (`PublishIsPublish`, `FailureIsGiveUp`), whether its answer is
  lost or not, and what a batch holds was announced before and stays so (`Handed`).
- `OutboxSettlementIsFinal`: a settled row has no token (`TypeOK`), a publisher always
  has one, so the fence of `_complete` and `_fail` excludes it; and a claim takes no
  settled row.

### Ingest

`tlapm MessageIngest_proofs.tla`. For every set of deliveries, references, payloads,
clocks and workers (`IngestAssumption`):

- `IngestInvariance`: the invariant says what row locks give. A row that is not
  committed is locked by the delivery that inserted it (`ContactRowOK`,
  `ConversationRowOK`, `MessageRowOK`), whoever has a row locked knows its version
  (`JobOK`), what a committed delivery refers to is committed and of its own contact
  (`CommittedOK`), and a worker has locked what it changes (`WorkOK`). One lemma per
  step, one leaf per part.
- `IngestTypeCorrect`, `ConflictsAreImpossible` and `CursorFollows` are its conjuncts.
- `DeadlocksNeedBoth`: a lock tells how far its owner is (`Owners`). A delivery that waits for
  a delivery waits for one that is further in the order contact, conversation, message,
  a worker that waits for a worker for one further in the order conversation, contact,
  and the furthest wait for nobody; so every ring has both kinds in it.
- `IngestRefinement`: a commit is `Store` of `MessageInbox`, the lookups and the
  refused conversation are its other answers, every rollback is a failure told to the
  caller or silent, and all else is silent. A refused conversation has a stored
  message of another contact because whoever inserted it has committed one.

### The dossier

`tlapm LeadDossier_proofs.tla`. For every set of answers the schema lets pass, every
texts and limits of the context, number of retries and limit of recent questions
(`DossierAssumption`, `PayloadsAssumption`, `ContextAssumption`):

- `DossierInvariance`: the invariant ties the result in the worker's memory to the rows
  it will be applied to (`ExtractionOK`). Every value that differs from the profile's is
  marked as contradicted and signalled (`DifferencesKnown`); the question is not about a
  recently asked field; proposals have places of their own (`PlacesOK`); an accepted
  opt-out is proposed with confidence, and by nothing else (`OptOutProposed`).
- `OptOutIsAbsolute`: a control is accepted with confidence 85 or more
  (`ControlIsSure`), its signal belongs to no exclusive group and so survives the insertion
  of the others (`FreeSignalStays`), is usable (`OptOutIsSignalled`), and the scoring
  puts it before every rule (`StopMeansStop`). The degraded result has the same form
  (`DegradedIsOK`).
- `SignalsAreExclusive`: of two proposals of a group the one inserted later remains
  (`OneSignalEnters`), because no two have one place.
- `ConflictsReachScoring`, `QuestionsAreNew` and `OnlyCorrectionsOverwrite` follow from
  `ExtractionOK`. For the last: a contradicted value is rejected, so that only the
  branch for corrections can replace one. For `QuestionsAreNew` the field the code
  chooses must exist (`QuestionIsNew`), which needs least elements (`MinExists`, from the
  well-foundedness of the natural numbers).

- `HotLeadsAreHandedOver`: the score is a number (`WorthIsNumber`, `ScoreBounds`), so exactly
  one band has it (`BandExists`). The bands of hot and priority leads ask for a person, and
  so does every rule that may come before them except the one for an opt-out
  (`HotMeansHandoff`).
- `OpenQuestionsAreOpen`: a pending question survives only a transaction that changes no
  field; a new one is appended (`QuestionIsAppended`), and what the transaction makes
  newly known is among the accepted fields of the extraction, which its question is
  not about (`ExtractionOK`).

- `SignalsCostTheirPenalty`: points grow with the signals in each dimension and below its cap
  (`PointsGrow`), so that a signal costs a lead at most its penalty.
- `PriorityIsComplete`: without a need, an intent or a budget the caps of the other
  dimensions leave at most 80 points, and the band of priority leads begins at 85. (A *hot*
  lead, from 70, may have shown no intent at all.)

`tlapm LeadHistory_proofs.tla` adds where the rows come from. The reconciler orders the
mentions of a field by two keys, and chooses with CHOOSE: the argument needs that a
finite order by two keys has a greatest and a least element (`GreatestByTwoKeys`), so
that the chosen value is one of the payload's.

- `HistoryInvariance`: types, origins and what was told are inductive together with
  `JobHistory` (the result in memory is about messages of its context and heard the
  opt-outs in it; while a person is asked for only an opt-out is processed) and with
  `WaitingIsRequested`.
- `DossierTypeCorrect` and `FactsHaveSources` are its conjuncts: every chosen value has its
  message in the context and its confidence between 0 and 100 (`SourcesOK`, of accepted
  and degraded results).
- `EventsSuffice`: the six kinds of event of an application, sent under conditions on rows
  read before it, tell exactly the difference (`EventsTell`). For the pause the argument
  is that automation resumes in no way a subscriber would have to be told of: an opt-out
  is for good, and a requested handoff lets only an opt-out pass.
- `OnlyTrustedValuesEnter`: a value that differs from the profile's is marked as
  contradicted and so enters by correction alone; a new field needs a status, and so
  the confidence for provisional use.

`tlapm LeadDecisions_proofs.tla` adds what is decided:

- `DossierDecides`: every application is `Stop`, `HandOff` or `Answer` of its message
  (`DecisionStep`). It needs that an open handoff lets only an opt-out pass, and that what a
  context says is in the result (`SourcesOK`).
- `ResultsAreNotRefused`: lead and conversation may become what the transaction makes of
  them, but for a first question. The reason is in `StatesInv`: no evaluation reports
  missing information (counterexample 1), so that a lead never becomes
  `incomplete_information`.
- `ContextIsDetermined`: the newest message on which two selections differ would fit in both
  or in none; and a selection of the newer messages extends to the next older one, so that
  there is one, by the least message from which on there is. `ContextsAreRecent` follows.

Some statements are theorems and not in a run: `AcknowledgedAfterEffect` and `SettledIsFinal` of
the outbox, which the refinements imply, and `IllegalOnlyAtFirst`, `ReopenedByStaleScan`,
`OnlyFirstQuestionRefused`, `ContextIsRecent` and `DeadlocksMix`, which TLC confirmed on the
instances of the runs before they were proved.

Only model-checked: liveness (`EventuallySettled` of queue and outbox,
`EveryDeliveryAnswered`, `OptOutEventuallyHonoured`), which needs fairness and ENABLED; and
that the one selection of a context is what the loop of the code computes, which needs
induction over the messages for a recursive function and for the sum of the lengths.

## 5. Plan

Done, in this order: `EffectInbox` and `SyntheticQueue`; `ConversationProcessing`;
`ConversationOutbox`; `MessageIngest` with its locks and deadlocks and `MessageInbox`;
`LeadDossier` with `TelecomExtraction` and `LeadScoring`; `MessageDecisions`; `EventFeed`;
each with its runs and proofs.

Left: the sum of lengths in `Consumed`, to prove that a context keeps to its characters;
human actors and the handoff state machine, once
the repository has code that calls them; publication of a scoring policy, once it is
stored.

## 6. Not modelled

Text (prompts, redaction, summaries, formatting), HTTP, authentication, settings, metrics, RLS
policies and migrations: they hold no protocol state. Tenants: every statement is
scoped by one, and no step relates two. Human actors: the repository has no code
that acts for them, and so the transitions of `HandoffStateMachine` beyond a request and
its cancellation, the reopening of conversations and the later states of a lead are not
reached. Policies: one is built in, and the validation of its totals, weights and
versions runs once, when it is built. The provider and the outbox sink are external.
