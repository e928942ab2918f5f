------------------------- MODULE ConversationOutbox -------------------------
(***************************************************************************)
(* Publication of the conversation outbox.  Ingest and processing add      *)
(* events in their own transactions; publishers take batches of due events *)
(* under a lease, hand each event to the sink, and acknowledge it or record  *)
(* a failure in a transaction of its own, fenced by the lease token.       *)
(*                                                                         *)
(* A batch shares one expiry, and its events have tokens of their own; a   *)
(* row is always matched by event and token, so one token per batch stands *)
(* for them.  The events of a batch are handled in the order of their due  *)
(* time, which the model does not keep: any order.                         *)
(*                                                                         *)
(* Definitions named ...Without..., ...Early and the like stand before the *)
(* definition they vary and are not part of the specification: they are    *)
(* the mistakes the properties are there to catch.                         *)
(***************************************************************************)
EXTENDS Naturals, FiniteSets

CONSTANTS
  Events,        \* event keys; the unique constraint makes a key one row
  Refused,       \* events the sink refuses for good (PermanentError)
  Publishers,
  Tokens,        \* lease tokens of batches
  BatchLimit,    \* outbox_batch_size
  MaxAttempts,   \* outbox_max_attempts
  AttemptCap     \* bound of the model: the attempts column saturates here

ASSUME OutboxAssumption ==
  /\ Refused \subseteq Events
  /\ Tokens \subseteq Nat \ {0}
  /\ BatchLimit \in Nat \ {0}
  /\ MaxAttempts \in Nat \ {0}
  /\ AttemptCap \in Nat /\ AttemptCap >= MaxAttempts

None == 0                   \* no token

VARIABLES
  status,        \* status column of each event, "absent" before it is added
  attempts,      \* attempts column
  token,         \* lease_token column
  due,           \* events with next_attempt_at <= now
  live,          \* tokens with lease_until > now
  audits,        \* number of conversation_outbox.published audit rows
  taken,         \* events the sink has taken, once or more often
  job            \* batch and program counter of each publisher

rows == <<status, attempts, token, due, live, audits>>
vars == <<rows, taken, job>>

Settled == {"published", "dead"}
Status == {"absent", "pending", "publishing", "retry"} \cup Settled
NoEvent == "no event"
ASSUME NoEventAssumption == NoEvent \notin Events

(* At "batch" the publisher is between two events; "delivered" and "failing" *)
(* concern the current one.  claimed are the attempts a claim returned.     *)
Jobs == [pc : {"idle", "batch", "delivered", "failing", "refused"},
         token : Tokens \cup {None}, rest : SUBSET Events,
         current : Events \cup {NoEvent}, claimed : [Events -> 0 .. AttemptCap]]

Idle == [pc |-> "idle", token |-> None, rest |-> {}, current |-> NoEvent,
         claimed |-> [e \in Events |-> 0]]

Init ==
  /\ status = [e \in Events |-> "absent"]
  /\ attempts = [e \in Events |-> 0]
  /\ token = [e \in Events |-> None]
  /\ due = {}
  /\ live = {}
  /\ audits = [e \in Events |-> 0]
  /\ taken = {}
  /\ job = [p \in Publishers |-> Idle]
-----------------------------------------------------------------------------
(* An event is added with the state change it tells of; a second event with *)
(* its key changes no row.                                                  *)
Add(e) ==
  /\ status[e] = "absent"
  /\ status' = [status EXCEPT ![e] = "pending"]
  /\ due' = due \cup {e}
  /\ UNCHANGED <<attempts, token, live, audits, taken, job>>

ClaimableInAnyStatus(e) ==
  /\ e \in due /\ status[e] # "absent"
  /\ status[e] \in {"pending", "retry"} \/ token[e] \notin live

ClaimableOnce(e) == e \in due /\ status[e] \in {"pending", "retry"}

Claimable(e) ==
  /\ e \in due
  /\ \/ status[e] \in {"pending", "retry"}
     \/ status[e] = "publishing" /\ token[e] \notin live

(* SKIP LOCKED and the limit: any part of the due events that fits.  An      *)
(* empty claim changes nothing.                                             *)
Batches == {batch \in SUBSET {e \in Events : Claimable(e)} :
              batch # {} /\ Cardinality(batch) <= BatchLimit}

NextAttempt(n) == IF n < AttemptCap THEN n + 1 ELSE AttemptCap

Fresh(t) ==
  /\ \A e \in Events : token[e] # t
  /\ \A p \in Publishers : job[p].token # t

NewTokens == {t \in Tokens : Fresh(t) /\ \A u \in Tokens : u < t => ~Fresh(u)}

Claim(p, batch, t) ==
  /\ job[p].pc = "idle"
  /\ status' = [e \in Events |-> IF e \in batch THEN "publishing" ELSE status[e]]
  /\ attempts' = [e \in Events |-> IF e \in batch THEN NextAttempt(attempts[e])
                                   ELSE attempts[e]]
  /\ token' = [e \in Events |-> IF e \in batch THEN t ELSE token[e]]
  /\ live' = {u \in live : ~Fresh(u)} \cup {t}
  /\ job' = [job EXCEPT ![p] =
               [pc |-> "batch", token |-> t, rest |-> batch, current |-> NoEvent,
                claimed |-> [e \in Events |-> IF e \in batch THEN NextAttempt(attempts[e])
                                              ELSE 0]]]
  /\ UNCHANGED <<due, audits, taken>>

ClaimBatch(p) == \E batch \in Batches, t \in NewTokens : Claim(p, batch, t)
-----------------------------------------------------------------------------
(* The sink returns, or raises with or without having taken the event.      *)
Handle(p, e, pc) ==
  job' = [job EXCEPT ![p].pc = pc, ![p].current = e, ![p].rest = @ \ {e}]

Deliver(p, e) ==
  /\ job[p].pc = "batch" /\ e \in job[p].rest \ Refused
  /\ taken' = taken \cup {e}
  /\ Handle(p, e, "delivered")
  /\ UNCHANGED rows

DeliverFails(p, e) ==
  /\ job[p].pc = "batch" /\ e \in job[p].rest \ Refused
  /\ taken' \in {taken, taken \cup {e}}
  /\ Handle(p, e, "failing")
  /\ UNCHANGED rows

Refuse(p, e) ==
  /\ job[p].pc = "batch" /\ e \in job[p].rest \cap Refused
  /\ Handle(p, e, "refused")
  /\ UNCHANGED <<rows, taken>>

(* The fence of _complete and _fail. *)
HoldsIgnored(p) == job[p].current # NoEvent
HoldsWithoutToken(p) == status[job[p].current] = "publishing"
Holds(p) ==
  /\ status[job[p].current] = "publishing"
  /\ token[job[p].current] = job[p].token

NextEvent(p) ==
  job' = [job EXCEPT ![p] = IF job[p].rest = {} THEN Idle
                            ELSE [@ EXCEPT !.pc = "batch", !.current = NoEvent,
                                           !.claimed[job[p].current] = 0]]

PublishWithoutRelease(e) ==
  /\ status' = [status EXCEPT ![e] = "published"]
  /\ audits' = [audits EXCEPT ![e] = @ + 1]
  /\ UNCHANGED <<attempts, token, due, live>>

Publish(e) ==
  /\ status' = [status EXCEPT ![e] = "published"]
  /\ token' = [token EXCEPT ![e] = None]
  /\ audits' = [audits EXCEPT ![e] = @ + 1]
  /\ UNCHANGED <<attempts, due, live>>

Acknowledge(p) ==
  /\ job[p].pc = "delivered" /\ Holds(p)
  /\ Publish(job[p].current)
  /\ NextEvent(p)
  /\ UNCHANGED taken

(* A lost lease and any database error are transient failures of the event, *)
(* also when the commit took place and only its answer was lost.            *)
AcknowledgeFails(p) ==
  /\ job[p].pc = "delivered"
  /\ UNCHANGED rows \/ (Holds(p) /\ Publish(job[p].current))
  /\ job' = [job EXCEPT ![p].pc = "failing"]
  /\ UNCHANGED taken

IsDeadEarly(p) == job[p].pc = "refused" \/ job[p].claimed[job[p].current] >= MaxAttempts - 1
IsDead(p) == job[p].pc = "refused" \/ job[p].claimed[job[p].current] >= MaxAttempts

RecordFailure(p) ==
  LET e == job[p].current
  IN  /\ status' = [status EXCEPT ![e] = IF IsDead(p) THEN "dead" ELSE "retry"]
      /\ token' = [token EXCEPT ![e] = None]
      /\ due' = due \ {e}
      /\ UNCHANGED <<attempts, live, audits>>

Fail(p) ==
  /\ job[p].pc \in {"failing", "refused"} /\ Holds(p)
  /\ RecordFailure(p)
  /\ NextEvent(p)
  /\ UNCHANGED taken

(* _fail raises out of publish_batch: the rest of the batch waits for the   *)
(* lease to expire.                                                         *)
FailFails(p) ==
  /\ job[p].pc \in {"failing", "refused"}
  /\ UNCHANGED rows \/ (Holds(p) /\ RecordFailure(p))
  /\ job' = [job EXCEPT ![p] = Idle]
  /\ UNCHANGED taken

Crash(p) ==
  /\ job[p].pc # "idle"
  /\ job' = [job EXCEPT ![p] = Idle]
  /\ UNCHANGED <<rows, taken>>

LeaseExpires(t) ==
  /\ t \in live
  /\ live' = live \ {t}
  /\ UNCHANGED <<status, attempts, token, due, audits, taken, job>>

BackoffElapses(e) ==
  /\ status[e] = "retry" /\ e \notin due
  /\ due' = due \cup {e}
  /\ UNCHANGED <<status, attempts, token, live, audits, taken, job>>

Offer(p, e) == Deliver(p, e) \/ DeliverFails(p, e) \/ Refuse(p, e)
Settle(p) == Acknowledge(p) \/ Fail(p)

Next ==
  \/ \E e \in Events : Add(e) \/ BackoffElapses(e)
  \/ \E p \in Publishers :
       \/ ClaimBatch(p)
       \/ \E e \in Events : Offer(p, e)
       \/ Settle(p)
       \/ AcknowledgeFails(p)
       \/ FailFails(p)
       \/ Crash(p)
  \/ \E t \in Tokens : LeaseExpires(t)

Spec == Init /\ [][Next]_vars

(* Publishers poll for ever and do not stop in a batch, leases and backoffs *)
(* run out.  An event claimed again and again is now and then offered, and  *)
(* its outcome recorded, before the lease of its batch is lost.             *)
Proceed(p) ==
  (\E e \in Events : Offer(p, e)) \/ Settle(p) \/ AcknowledgeFails(p) \/ FailFails(p)

OfferInTime(p, e) == status[e] = "publishing" /\ token[e] = job[p].token /\ Offer(p, e)

Fairness ==
  /\ WF_vars(\E e \in Events : BackoffElapses(e))
  /\ WF_vars(\E t \in Tokens : LeaseExpires(t))
  /\ \A p \in Publishers :
       /\ WF_vars(ClaimBatch(p))
       /\ WF_vars(Proceed(p))
  /\ \A e \in Events : SF_vars(\E p \in Publishers : OfferInTime(p, e))
  /\ SF_vars(\E p \in Publishers : Settle(p))

FairSpec == Spec /\ Fairness
-----------------------------------------------------------------------------
(* The rows hold values of their columns; only a row being published has a  *)
(* token (ck_conversation_outbox_lease), and a publisher that works on an   *)
(* event has one.                                                           *)
TypeOK ==
  /\ status \in [Events -> Status]
  /\ attempts \in [Events -> 0 .. AttemptCap]
  /\ token \in [Events -> Tokens \cup {None}]
  /\ due \in SUBSET Events
  /\ live \in SUBSET Tokens
  /\ audits \in [Events -> Nat]
  /\ taken \in SUBSET Events
  /\ job \in [Publishers -> Jobs]
  /\ \A e \in Events : status[e] = "publishing" <=> token[e] # None
  /\ \A p \in Publishers :
       job[p].pc \in {"delivered", "failing", "refused"} => job[p].current \in Events

(* An event is published only after the sink took it, and its publication is *)
(* audited exactly once, however many publishers delivered it and however   *)
(* many answers of the database were lost.                                  *)
PublishedOnce ==
  \A e \in Events :
    /\ status[e] = "published" => e \in taken
    /\ audits[e] = IF status[e] = "published" THEN 1 ELSE 0

(* A dead event was refused by the sink for good or claimed max_attempts    *)
(* times: the failure of a stale publisher does not end it early.           *)
DeadAfterMaxAttempts ==
  \A e \in Events : status[e] = "dead" => e \in Refused \/ attempts[e] >= MaxAttempts

(* A publisher that still holds the row of an event decides on its current  *)
(* number of attempts, although it compares the number it was given when it *)
(* claimed the batch (ClaimedOutboxEvent.attempts).                         *)
CurrentAttempts ==
  \A p \in Publishers : job[p].current # NoEvent /\ Holds(p) =>
    job[p].claimed[job[p].current] = attempts[job[p].current]

(* A published event is not failed by a publisher that lost the answer or   *)
(* the lease, and a dead one is not published by a slow one.                *)
SettledIsFinal ==
  [][\A e \in Events : status[e] \in Settled =>
       status'[e] = status[e] /\ attempts'[e] = attempts[e] /\ token'[e] = None]_vars

(* Seen by those who listen, batches, leases, tokens and retries disappear:  *)
(* the rows tell what was announced, published and given up (EventFeed).    *)
Feed == INSTANCE EventFeed WITH
          announced <- {e \in Events : status[e] # "absent"},
          published <- {e \in Events : status[e] = "published"},
          givenUp <- {e \in Events : status[e] = "dead"}

(* Whatever publishers race, crash or answer late, the sink is handed only  *)
(* announced events, never one it refuses; an event is published after the   *)
(* sink took it, and what is published or given up stays so.                *)
ImplementsFeed == Feed!FeedSpec

(* Every event that was added is published or given up in the end.          *)
EventuallySettled ==
  \A e \in Events : status[e] # "absent" ~> status[e] \in Settled
=============================================================================
