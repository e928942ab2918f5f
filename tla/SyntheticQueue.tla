--------------------------- MODULE SyntheticQueue ---------------------------
(***************************************************************************)
(* The synthetic walking skeleton: the API stores an event and an outbox   *)
(* row in one transaction, a dispatcher moves the row to a leased queue,   *)
(* workers claim the queue message, apply the event behind a receipt, and  *)
(* acknowledge in a second transaction.  Every database transaction of the *)
(* code is one step here; what may happen between two transactions of one  *)
(* worker (a crash, an expired lease, another worker) is another step.     *)
(*                                                                         *)
(* Definitions named ...Without..., ...Early and the like stand before the  *)
(* definition they vary and are not part of the specification: they are the *)
(* mistakes that the properties are there to catch.                         *)
(*                                                                         *)
(* One event has one idempotency key, one outbox row and, by the unique    *)
(* constraint on the source outbox row, one queue message, so a key names  *)
(* all of them.  A replayed request and a request that reuses a key with   *)
(* another payload change no row and are left out.                         *)
(***************************************************************************)
EXTENDS Naturals

CONSTANTS
  Keys,          \* idempotency keys
  Invalid,       \* keys whose message the consumer rejects for good
  Workers,       \* worker processes
  MaxAttempts,   \* PostgresQueue.max_attempts
  AttemptCap     \* bound of the model: the attempts column saturates here

ASSUME InvalidAssumption == Invalid \subseteq Keys

ASSUME AttemptsAssumption ==
  /\ MaxAttempts \in Nat \ {0}
  /\ AttemptCap \in Nat
  /\ AttemptCap > MaxAttempts

VARIABLES
  event,         \* synthetic_events.status of each key, "none" before the request
  outbox,        \* outbox_items.status
  queue,         \* the queue_messages row
  receipts,      \* keys of the consumer_receipts rows
  effects,       \* number of synthetic_event.processed audit rows of each key
  job            \* what each worker is doing

vars == <<event, outbox, queue, receipts, effects, job>>

NoKey == "no key"
ASSUME NoKeyAssumption == NoKey \notin Keys

QueueStatus == {"none", "available", "leased", "completed", "dead"}
Steps == {"idle", "claimed", "processed", "failing", "rejecting"}
Jobs == [pc : Steps, key : Keys \cup {NoKey}, attempts : 0 .. AttemptCap]
QueueRows == [status : QueueStatus, attempts : 0 .. AttemptCap,
              due : BOOLEAN,   \* available_at <= now
              live : BOOLEAN]  \* lease_until > now

Idle == [pc |-> "idle", key |-> NoKey, attempts |-> 0]
NoRow == [status |-> "none", attempts |-> 0, due |-> FALSE, live |-> FALSE]

Settled(k) == queue[k].status \in {"completed", "dead"}

Init ==
  /\ event = [k \in Keys |-> "none"]
  /\ outbox = [k \in Keys |-> "none"]
  /\ queue = [k \in Keys |-> NoRow]
  /\ receipts = {}
  /\ effects = [k \in Keys |-> 0]
  /\ job = [w \in Workers |-> Idle]
-----------------------------------------------------------------------------
(* The API transaction. *)
Accept(k) ==
  /\ event[k] = "none"
  /\ event' = [event EXCEPT ![k] = "accepted"]
  /\ outbox' = [outbox EXCEPT ![k] = "pending"]
  /\ UNCHANGED <<queue, receipts, effects, job>>

(* One dispatcher transaction.  SKIP LOCKED and the limit leave any part of *)
(* the pending rows to other dispatchers or later cycles.                   *)
NewRowAsPending == [status |-> "pending", attempts |-> 0, due |-> TRUE, live |-> FALSE]
NewRow == [status |-> "available", attempts |-> 0, due |-> TRUE, live |-> FALSE]

DispatchBatch(batch) ==
  /\ batch # {}
  /\ \A k \in batch : outbox[k] = "pending"
  /\ queue' = [k \in Keys |->
                 IF k \in batch /\ queue[k].status = "none" THEN NewRow ELSE queue[k]]
  /\ outbox' = [k \in Keys |-> IF k \in batch THEN "published" ELSE outbox[k]]
  /\ UNCHANGED <<event, receipts, effects, job>>

(* claim(): no upper bound on attempts, and no owner is stored in the row. *)
ClaimableOnce(k) == queue[k].due /\ queue[k].status = "available"

Claimable(k) ==
  /\ queue[k].due
  /\ \/ queue[k].status = "available"
     \/ queue[k].status = "leased" /\ ~queue[k].live

NextAttempt(k) ==
  IF queue[k].attempts < AttemptCap THEN queue[k].attempts + 1 ELSE AttemptCap

Claim(w, k) ==
  /\ job[w].pc = "idle"
  /\ Claimable(k)
  /\ queue' = [queue EXCEPT ![k] = [@ EXCEPT !.status = "leased", !.live = TRUE,
                                             !.attempts = NextAttempt(k)]]
  /\ job' = [job EXCEPT ![w] = [pc |-> "claimed", key |-> k, attempts |-> NextAttempt(k)]]
  /\ UNCHANGED <<event, outbox, receipts, effects>>

(* The processing transaction: receipt, then effect, both or none.  Its     *)
(* commit may be lost on the way back, and then the worker sees an error.   *)
EffectDueWithoutReceipt(k) == event[k] # "none"
EffectDue(k) == k \notin receipts /\ event[k] = "accepted"

Process(w, k) ==
  /\ job[w].pc = "claimed" /\ job[w].key = k /\ k \notin Invalid
  /\ receipts' = receipts \cup {k}
  /\ IF EffectDue(k)
       THEN /\ event' = [event EXCEPT ![k] = "processed"]
            /\ effects' = [effects EXCEPT ![k] = @ + 1]
       ELSE UNCHANGED <<event, effects>>
  /\ \E pc \in {"processed", "failing"} : job' = [job EXCEPT ![w].pc = pc]
  /\ UNCHANGED <<outbox, queue>>

(* Any claimed message may meet a transient error; an invalid one (unknown  *)
(* type, malformed payload, hash mismatch) a PermanentError.                *)
ProcessFails(w) ==
  /\ job[w].pc = "claimed"
  /\ job' = [job EXCEPT ![w].pc = "failing"]
  /\ UNCHANGED <<event, outbox, queue, receipts, effects>>

ProcessRejects(w, k) ==
  /\ job[w].pc = "claimed" /\ job[w].key = k /\ k \in Invalid
  /\ job' = [job EXCEPT ![w].pc = "rejecting"]
  /\ UNCHANGED <<event, outbox, queue, receipts, effects>>

(* complete() and fail(): whoever calls them, a leased row is settled or      *)
(* released, and any other row is left alone.                                *)
Completed(k) ==
  IF queue[k].status = "leased"
    THEN [queue EXCEPT ![k] = [@ EXCEPT !.status = "completed", !.live = FALSE]]
    ELSE queue

CompleteBeforeEffect(w, k) ==
  /\ job[w].pc \in {"claimed", "processed"} /\ job[w].key = k
  /\ queue' = Completed(k)
  /\ job' = [job EXCEPT ![w] = Idle]
  /\ UNCHANGED <<event, outbox, receipts, effects>>

Complete(w, k) ==
  /\ job[w].pc = "processed" /\ job[w].key = k
  /\ queue' = Completed(k)
  /\ job' = [job EXCEPT ![w] = IF queue[k].status \in {"leased", "completed"}
                                 THEN Idle ELSE [@ EXCEPT !.pc = "failing"]]
  /\ UNCHANGED <<event, outbox, receipts, effects>>

CompleteFails(w, k) ==
  /\ job[w].pc = "processed" /\ job[w].key = k
  /\ queue' \in {queue, Completed(k)}
  /\ job' = [job EXCEPT ![w].pc = "failing"]
  /\ UNCHANGED <<event, outbox, receipts, effects>>

(* fail(): the decision uses the attempts the worker read at its claim. *)
IsDeadEarly(w) == job[w].pc = "rejecting" \/ job[w].attempts + 1 >= MaxAttempts
IsDead(w) == job[w].pc = "rejecting" \/ job[w].attempts >= MaxAttempts

FailedAnyStatus(w, k) ==
  [queue EXCEPT ![k] = [@ EXCEPT !.status = IF IsDead(w) THEN "dead" ELSE "available",
                                 !.due = FALSE, !.live = FALSE]]

Failed(w, k) ==
  IF queue[k].status = "leased"
    THEN [queue EXCEPT ![k] = [@ EXCEPT !.status = IF IsDead(w) THEN "dead" ELSE "available",
                                        !.due = FALSE, !.live = FALSE]]
    ELSE queue

Fail(w, k) ==
  /\ job[w].pc \in {"failing", "rejecting"} /\ job[w].key = k
  /\ queue' = Failed(w, k)
  /\ job' = [job EXCEPT ![w] = Idle]
  /\ UNCHANGED <<event, outbox, receipts, effects>>

(* The process dies, or fail() itself raises and the cycle is given up. *)
Crash(w) ==
  /\ job[w].pc # "idle"
  /\ job' = [job EXCEPT ![w] = Idle]
  /\ UNCHANGED <<event, outbox, queue, receipts, effects>>

LeaseExpires(k) ==
  /\ queue[k].live
  /\ queue' = [queue EXCEPT ![k].live = FALSE]
  /\ UNCHANGED <<event, outbox, receipts, effects, job>>

BackoffElapses(k) ==
  /\ queue[k].status = "available" /\ ~queue[k].due
  /\ queue' = [queue EXCEPT ![k].due = TRUE]
  /\ UNCHANGED <<event, outbox, receipts, effects, job>>

WorkerStep(w, k) ==
  \/ Claim(w, k)
  \/ Process(w, k)
  \/ ProcessRejects(w, k)
  \/ Complete(w, k)
  \/ CompleteFails(w, k)
  \/ Fail(w, k)

Next ==
  \/ \E k \in Keys : Accept(k) \/ LeaseExpires(k) \/ BackoffElapses(k)
  \/ \E batch \in SUBSET Keys : DispatchBatch(batch)
  \/ \E w \in Workers, k \in Keys : WorkerStep(w, k)
  \/ \E w \in Workers : ProcessFails(w) \/ Crash(w)

Spec == Init /\ [][Next]_vars

(* The worker loop runs for ever and time passes.  Claimed messages may     *)
(* crash their workers or lose their leases any number of times, but the    *)
(* steps after a claim are not interrupted always: strong fairness of each  *)
(* kind of step, whichever worker and message take it.  An invalid message  *)
(* fails for the reason that makes it invalid.  Requests have no fairness.  *)
Fairness ==
  /\ WF_vars(\E batch \in SUBSET Keys : DispatchBatch(batch))
  /\ WF_vars(\E w \in Workers, k \in Keys : Claim(w, k))
  /\ WF_vars(\E k \in Keys : LeaseExpires(k))
  /\ WF_vars(\E k \in Keys : BackoffElapses(k))
  /\ SF_vars(\E w \in Workers, k \in Keys : Process(w, k))
  /\ SF_vars(\E w \in Workers, k \in Keys : ProcessRejects(w, k))
  /\ SF_vars(\E w \in Workers, k \in Keys : Complete(w, k))
  /\ SF_vars(\E w \in Workers, k \in Keys : Fail(w, k))

FairSpec == Spec /\ Fairness
-----------------------------------------------------------------------------
(* The rows and the workers hold values the code can store in them. *)
TypeOK ==
  /\ event \in [Keys -> {"none", "accepted", "processed"}]
  /\ outbox \in [Keys -> {"none", "pending", "published"}]
  /\ queue \in [Keys -> QueueRows]
  /\ receipts \in SUBSET Keys
  /\ effects \in [Keys -> Nat]
  /\ job \in [Workers -> Jobs]
  /\ \A w \in Workers : job[w].pc # "idle" => job[w].key \in Keys

(* The receipt, the status of the event and its effect are one fact: a      *)
(* redelivered message finds all of them or none (postgres.py process).     *)
ReceiptMatchesEffect ==
  \A k \in Keys :
    /\ effects[k] = IF k \in receipts THEN 1 ELSE 0
    /\ event[k] = "processed" <=> k \in receipts

(* A message is acknowledged only after its effect, although the effect and *)
(* the acknowledgement are separate transactions, any worker may complete   *)
(* any leased row and a stale worker keeps running.                         *)
AcknowledgedAfterEffect ==
  /\ \A k \in Keys : queue[k].status = "completed" => k \in receipts
  /\ \A w \in Workers : job[w].pc = "processed" => job[w].key \in receipts

(* No valid message is given up before it was delivered max_attempts times, *)
(* even when the worker that gives it up decides on an old attempts value;  *)
(* and no invalid one is ever acknowledged.                                 *)
DeadAfterMaxAttempts ==
  /\ \A k \in Keys \ Invalid : queue[k].status = "dead" => queue[k].attempts >= MaxAttempts
  /\ \A k \in Invalid : queue[k].status # "completed"

(* A settled message stays settled: no late complete or fail of a worker    *)
(* whose lease expired reopens a completed or dead row.                     *)
SettledIsFinal ==
  [][\A k \in Keys : Settled(k) => queue'[k].status = queue[k].status]_vars

(* Every accepted event is settled in the end. *)
EventuallySettled == \A k \in Keys : event[k] # "none" ~> Settled(k)

(* The transport implements the promise of EffectInbox. *)
Inbox == INSTANCE EffectInbox WITH
  accepted <- {k \in Keys : event[k] # "none"},
  effects <- effects,
  acknowledged <- {k \in Keys : queue[k].status = "completed"}

ImplementsInbox == Inbox!InboxSpec
=============================================================================
