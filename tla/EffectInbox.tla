---------------------------- MODULE EffectInbox ----------------------------
(***************************************************************************)
(* What the synthetic walking skeleton promises its caller, whatever the   *)
(* transport does: an accepted event has its effect at most once, only     *)
(* after it was accepted, and is acknowledged only after the effect.       *)
(* Outbox, queue rows, leases, attempts, receipts and workers are absent:  *)
(* SyntheticQueue implements this specification with all of them.          *)
(***************************************************************************)
EXTENDS Naturals

CONSTANT Keys            \* idempotency keys, one per synthetic event

VARIABLES
  accepted,              \* keys of the events stored by the API
  effects,               \* how many times each event took its effect
  acknowledged           \* keys whose delivery is finished for good

inboxVars == <<accepted, effects, acknowledged>>

InboxInit ==
  /\ accepted = {}
  /\ effects = [k \in Keys |-> 0]
  /\ acknowledged = {}

AcceptOnce(k) ==
  /\ k \notin accepted
  /\ accepted' = accepted \cup {k}
  /\ UNCHANGED <<effects, acknowledged>>

ApplyOnce(k) ==
  /\ k \in accepted
  /\ effects[k] = 0
  /\ effects' = [effects EXCEPT ![k] = 1]
  /\ UNCHANGED <<accepted, acknowledged>>

Acknowledge(k) ==
  /\ effects[k] = 1
  /\ acknowledged' = acknowledged \cup {k}
  /\ UNCHANGED <<accepted, effects>>

InboxNext == \E k \in Keys : AcceptOnce(k) \/ ApplyOnce(k) \/ Acknowledge(k)

InboxSpec == InboxInit /\ [][InboxNext]_inboxVars
=============================================================================
