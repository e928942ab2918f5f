---------------------- MODULE ConversationOutbox_proofs ----------------------
(***************************************************************************)
(* Proofs, for all sets of events, publishers and tokens and all limits, of *)
(* the safety properties of ConversationOutbox.  Two facts carry them: the *)
(* token of a claim is fresh, so a publisher that holds a row is the last  *)
(* one that claimed it; and a settled row has no token, so nobody holds it.*)
(***************************************************************************)
EXTENDS ConversationOutbox, TLAPS

Working(p) == job[p].pc \in {"delivered", "failing", "refused"}
InHand(p) == job[p].rest \cup {job[p].current}

(* What a publisher remembers is true of the rows: the attempts a claim      *)
(* returned are those of the row as long as the row keeps the token.        *)
JobOK(p) ==
  /\ job[p].pc = "idle" => job[p].rest = {}
  /\ job[p].pc \in {"idle", "batch"} => job[p].current = NoEvent
  /\ job[p].pc # "idle" => job[p].token # None
  /\ job[p].pc = "delivered" => job[p].current \in taken
  /\ job[p].pc = "refused" => job[p].current \in Refused
  /\ job[p].current \notin job[p].rest
  /\ \A e \in Events : e \in InHand(p) /\ token[e] = job[p].token =>
                         job[p].claimed[e] = attempts[e]

JobsInv == \A p \in Publishers : JobOK(p)

Inv == TypeOK /\ JobsInv /\ PublishedOnce /\ DeadAfterMaxAttempts

(* The parts of the invariant that are about rows only. *)
RowsInv ==
  /\ status \in [Events -> Status]
  /\ attempts \in [Events -> 0 .. AttemptCap]
  /\ token \in [Events -> Tokens \cup {None}]
  /\ due \in SUBSET Events
  /\ live \in SUBSET Tokens
  /\ audits \in [Events -> Nat]
  /\ taken \in SUBSET Events
  /\ \A e \in Events : status[e] = "publishing" <=> token[e] # None
  /\ PublishedOnce
  /\ DeadAfterMaxAttempts

JobsTyped ==
  /\ job \in [Publishers -> Jobs]
  /\ \A p \in Publishers : Working(p) => job[p].current \in Events

LEMMA Parts == Inv <=> RowsInv /\ JobsTyped /\ JobsInv
  BY DEF Inv, RowsInv, JobsTyped, TypeOK, Working

LEMMA PartsAfter == RowsInv' /\ JobsTyped' /\ JobsInv' => Inv'
  BY DEF Inv, RowsInv, JobsTyped, TypeOK, Working

LEMMA InitInv == Init => Inv
  BY OutboxAssumption, NoEventAssumption
  DEF Init, Inv, TypeOK, JobsInv, JobOK, PublishedOnce, DeadAfterMaxAttempts, Idle, Jobs,
      Status, Settled, None, InHand
-----------------------------------------------------------------------------
(* A publisher goes on with part of what it has in hand, under its token.    *)
Moves(p) ==
  /\ job' \in [Publishers -> Jobs]
  /\ \A q \in Publishers : q # p => job'[q] = job[q]
  /\ job'[p].pc \in {"delivered", "failing", "refused"} => job'[p].current \in Events
  /\ job'[p].pc = "idle" => job'[p].rest = {}
  /\ job'[p].pc \in {"idle", "batch"} => job'[p].current = NoEvent
  /\ job'[p].pc # "idle" => job[p].pc # "idle" /\ job'[p].token = job[p].token
  /\ job'[p].current \notin job'[p].rest
  /\ \A e \in Events : e \in job'[p].rest \cup {job'[p].current} =>
       e \in InHand(p) /\ job'[p].claimed[e] = job[p].claimed[e]

LEMMA MovesKeepJobs ==
  ASSUME Inv, NEW p \in Publishers, Moves(p),
         job'[p].pc = "delivered" => job'[p].current \in taken',
         job'[p].pc = "refused" => job'[p].current \in Refused,
         taken \subseteq taken', attempts' = attempts,
         \A e \in Events : token'[e] \in {token[e], None}
  PROVE  JobsTyped' /\ JobsInv'
  <1>1. JobsTyped'
    BY DEF Moves, JobsTyped, Working, Inv, TypeOK
  <1>2. ASSUME NEW q \in Publishers, q # p PROVE JobOK(q)'
    <2>1. job'[q] = job[q] /\ JobOK(q)
      BY <1>2 DEF Moves, Inv, JobsInv
    <2>2. ASSUME NEW e \in Events, e \in InHand(q), token'[e] = job[q].token
          PROVE  job[q].claimed[e] = attempts[e]
      <3>1. job[q].pc # "idle"
        BY <2>1, <2>2, NoEventAssumption DEF JobOK, InHand
      <3>2. token[e] = job[q].token
        BY <2>1, <2>2, <3>1 DEF JobOK
      <3> QED BY <2>1, <2>2, <3>2 DEF JobOK
    <2> QED BY <2>1, <2>2 DEF JobOK, InHand
  <1>3. JobOK(p)'
    <2>1. JobOK(p)
      BY DEF Inv, JobsInv
    <2>2. ASSUME NEW e \in Events, e \in job'[p].rest \cup {job'[p].current},
                 token'[e] = job'[p].token
          PROVE  job'[p].claimed[e] = attempts[e]
      <3>1. job'[p].pc # "idle"
        BY <2>2, NoEventAssumption DEF Moves
      <3>2. token[e] = job[p].token
        BY <2>1, <2>2, <3>1 DEF JobOK, Moves
      <3> QED BY <2>1, <2>2, <3>2 DEF JobOK, Moves
    <2> QED BY <2>1, <2>2 DEF JobOK, InHand, Moves
  <1> QED BY <1>1, <1>2, <1>3 DEF JobsInv

LEMMA NextEventMoves ==
  ASSUME Inv, NEW p \in Publishers, Working(p), NextEvent(p)
  PROVE  Moves(p) /\ job'[p].pc \in {"idle", "batch"}
  <1>1. /\ job \in [Publishers -> Jobs] /\ job[p] \in Jobs
        /\ job[p].current \in Events /\ job[p].current \notin job[p].rest
    BY DEF Inv, TypeOK, JobsInv, JobOK, Working
  <1>2. CASE job[p].rest = {}
    <2>1. job' = [job EXCEPT ![p] = Idle]
      BY <1>2 DEF NextEvent
    <2>2. Idle \in Jobs
      BY OutboxAssumption DEF Idle, Jobs
    <2>3. job'[p] = Idle
      BY <1>1, <2>1
    <2> QED BY <1>1, <2>1, <2>2, <2>3, NoEventAssumption DEF Moves, Idle
  <1>3. CASE job[p].rest # {}
    <2> DEFINE claimed == [job[p].claimed EXCEPT ![job[p].current] = 0]
               next == [job[p] EXCEPT !.pc = "batch", !.current = NoEvent, !.claimed = claimed]
    <2>1. job' = [job EXCEPT ![p] = next]
      BY <1>1, <1>3 DEF NextEvent, Jobs
    <2>2. /\ claimed \in [Events -> 0 .. AttemptCap]
          /\ \A e \in Events : e # job[p].current => claimed[e] = job[p].claimed[e]
      BY <1>1, OutboxAssumption DEF Jobs
    <2> HIDE DEF claimed
    <2>3. /\ next \in Jobs /\ next.pc = "batch" /\ next.current = NoEvent
          /\ next.rest = job[p].rest /\ next.token = job[p].token /\ next.claimed = claimed
      BY <1>1, <2>2 DEF Jobs
    <2> HIDE DEF next
    <2>4. job'[p] = next
      BY <1>1, <2>1
    <2>5. NoEvent \notin job[p].rest
      BY <1>1, NoEventAssumption DEF Jobs
    <2>6. ASSUME NEW e \in Events, e \in job'[p].rest \cup {job'[p].current}
          PROVE  e \in InHand(p) /\ job'[p].claimed[e] = job[p].claimed[e]
      <3>1. e \in job[p].rest /\ e # job[p].current
        BY <1>1, <2>3, <2>4, <2>6, NoEventAssumption
      <3> QED BY <2>2, <2>3, <2>4, <3>1 DEF InHand
    <2>7. job' \in [Publishers -> Jobs] /\ \A q \in Publishers : q # p => job'[q] = job[q]
      BY <1>1, <2>1, <2>3
    <2>8. job[p].pc # "idle"
      BY DEF Working
    <2> QED BY <2>3, <2>4, <2>5, <2>6, <2>7, <2>8 DEF Moves
  <1> QED BY <1>2, <1>3

LEMMA StopMoves ==
  ASSUME Inv, NEW p \in Publishers, job' = [job EXCEPT ![p] = Idle]
  PROVE  Moves(p) /\ job'[p].pc = "idle"
  <1>1. job \in [Publishers -> Jobs]
    BY DEF Inv, TypeOK
  <1>2. Idle \in Jobs
    BY OutboxAssumption DEF Idle, Jobs
  <1> QED BY <1>1, <1>2, NoEventAssumption DEF Moves, Idle

LEMMA HandleMoves ==
  ASSUME Inv, NEW p \in Publishers, NEW e \in job[p].rest, job[p].pc = "batch",
         NEW pc \in {"delivered", "failing", "refused"}, Handle(p, e, pc)
  PROVE  Moves(p) /\ job'[p].pc = pc /\ job'[p].current = e
  <1>1. /\ job \in [Publishers -> Jobs] /\ job[p] \in Jobs /\ e \in Events
    BY DEF Inv, TypeOK, Jobs
  <1> DEFINE next == [job[p] EXCEPT !.pc = pc, !.current = e, !.rest = @ \ {e}]
  <1>2. job' = [job EXCEPT ![p] = next]
    BY <1>1 DEF Handle, Jobs
  <1>3. /\ next \in Jobs /\ next.pc = pc /\ next.current = e /\ next.rest = job[p].rest \ {e}
        /\ next.token = job[p].token /\ next.claimed = job[p].claimed
    BY <1>1 DEF Jobs
  <1> HIDE DEF next
  <1>4. job'[p] = next
    BY <1>1, <1>2
  <1> QED BY <1>1, <1>2, <1>3, <1>4 DEF Moves, InHand

LEMMA FailingMoves ==
  ASSUME Inv, NEW p \in Publishers, job[p].pc = "delivered",
         job' = [job EXCEPT ![p].pc = "failing"]
  PROVE  Moves(p) /\ job'[p].pc = "failing"
  <1>1. /\ job \in [Publishers -> Jobs] /\ job[p] \in Jobs /\ JobOK(p)
        /\ job[p].current \in Events
    BY DEF Inv, TypeOK, JobsInv
  <1> DEFINE next == [job[p] EXCEPT !.pc = "failing"]
  <1>2. job' = [job EXCEPT ![p] = next]
    BY <1>1 DEF Jobs
  <1>3. /\ next \in Jobs /\ next.pc = "failing" /\ next.current = job[p].current
        /\ next.rest = job[p].rest /\ next.token = job[p].token /\ next.claimed = job[p].claimed
    BY <1>1 DEF Jobs
  <1> HIDE DEF next
  <1>4. job'[p] = next
    BY <1>1, <1>2
  <1> QED BY <1>1, <1>2, <1>3, <1>4 DEF Moves, InHand, JobOK
-----------------------------------------------------------------------------
(* What a transaction of a publisher does to the rows. *)
RowsMove == attempts' = attempts /\ \A e \in Events : token'[e] \in {token[e], None}

LEMMA RowsStay ==
  ASSUME Inv, UNCHANGED rows, taken \subseteq taken', taken' \in SUBSET Events
  PROVE  RowsInv' /\ RowsMove
  BY Parts DEF rows, RowsInv, PublishedOnce, DeadAfterMaxAttempts, RowsMove

LEMMA PublishKeepsRows ==
  ASSUME Inv, NEW p \in Publishers, job[p].pc = "delivered", Holds(p),
         Publish(job[p].current), UNCHANGED taken
  PROVE  RowsInv' /\ RowsMove
  <1> DEFINE e == job[p].current
  <1>1. e \in Events /\ e \in taken /\ status[e] = "publishing" /\ RowsInv
    BY Parts DEF Inv, TypeOK, JobsInv, JobOK, Holds
  <1>2. /\ status' = [status EXCEPT ![e] = "published"]
        /\ token' = [token EXCEPT ![e] = None]
        /\ audits' = [audits EXCEPT ![e] = @ + 1]
        /\ UNCHANGED <<attempts, due, live>>
    BY DEF Publish
  <1> HIDE DEF e
  <1>3. /\ status' \in [Events -> Status] /\ token' \in [Events -> Tokens \cup {None}]
        /\ audits' \in [Events -> Nat]
    BY <1>1, <1>2 DEF RowsInv, Status, Settled
  <1>4. \A d \in Events : status'[d] = "publishing" <=> token'[d] # None
    BY <1>1, <1>2 DEF RowsInv
  <1>5. PublishedOnce'
    BY <1>1, <1>2 DEF RowsInv, PublishedOnce
  <1>6. DeadAfterMaxAttempts'
    BY <1>1, <1>2 DEF RowsInv, DeadAfterMaxAttempts
  <1>7. RowsMove
    BY <1>1, <1>2 DEF RowsInv, RowsMove
  <1> QED BY <1>1, <1>2, <1>3, <1>4, <1>5, <1>6, <1>7 DEF RowsInv

LEMMA FailureKeepsRows ==
  ASSUME Inv, NEW p \in Publishers, job[p].pc \in {"failing", "refused"}, Holds(p),
         RecordFailure(p), UNCHANGED taken
  PROVE  RowsInv' /\ RowsMove
  <1> DEFINE e == job[p].current
  <1>1. /\ e \in Events /\ status[e] = "publishing" /\ RowsInv
        /\ job[p].claimed[e] = attempts[e]
        /\ job[p].pc = "refused" => e \in Refused
    BY Parts DEF Inv, TypeOK, JobsInv, JobOK, Holds, InHand
  <1>2. PICK new \in {"dead", "retry"} :
          /\ new = "dead" => e \in Refused \/ attempts[e] >= MaxAttempts
          /\ status' = [status EXCEPT ![e] = new]
    BY <1>1 DEF RecordFailure, IsDead
  <1>3. /\ token' = [token EXCEPT ![e] = None] /\ due' = due \ {e}
        /\ UNCHANGED <<attempts, live, audits>>
    BY DEF RecordFailure
  <1> HIDE DEF e
  <1>4. status' \in [Events -> Status] /\ token' \in [Events -> Tokens \cup {None}]
    BY <1>1, <1>2, <1>3 DEF RowsInv, Status, Settled
  <1>5. \A d \in Events : status'[d] = "publishing" <=> token'[d] # None
    BY <1>1, <1>2, <1>3 DEF RowsInv
  <1>6. PublishedOnce'
    BY <1>1, <1>2, <1>3 DEF RowsInv, PublishedOnce
  <1>7. DeadAfterMaxAttempts'
    BY <1>1, <1>2, <1>3 DEF RowsInv, DeadAfterMaxAttempts
  <1>8. RowsMove
    BY <1>1, <1>3 DEF RowsInv, RowsMove
  <1> QED BY <1>1, <1>3, <1>4, <1>5, <1>6, <1>7, <1>8 DEF RowsInv
-----------------------------------------------------------------------------
LEMMA ClaimStep ==
  ASSUME Inv, NEW p \in Publishers, ClaimBatch(p)
  PROVE  Inv'
  <1>1. PICK batch \in Batches, t \in NewTokens : Claim(p, batch, t)
    BY DEF ClaimBatch
  <1>2. /\ RowsInv /\ JobsTyped /\ JobsInv
        /\ t \in Tokens /\ Fresh(t) /\ t # None
        /\ batch \subseteq Events
        /\ \A e \in batch : status[e] \in {"pending", "retry", "publishing"}
    BY Parts, OutboxAssumption DEF NewTokens, Batches, Claimable, None
  <1>3. /\ status' = [e \in Events |-> IF e \in batch THEN "publishing" ELSE status[e]]
        /\ attempts' = [e \in Events |-> IF e \in batch THEN NextAttempt(attempts[e])
                                         ELSE attempts[e]]
        /\ token' = [e \in Events |-> IF e \in batch THEN t ELSE token[e]]
        /\ live' = {u \in live : ~Fresh(u)} \cup {t}
        /\ UNCHANGED <<due, audits, taken>>
    BY <1>1 DEF Claim
  <1> DEFINE claimed == [e \in Events |-> IF e \in batch THEN NextAttempt(attempts[e]) ELSE 0]
             new == [pc |-> "batch", token |-> t, rest |-> batch, current |-> NoEvent,
                     claimed |-> claimed]
  <1>4. job' = [job EXCEPT ![p] = new]
    BY <1>1 DEF Claim
  <1>5. \A e \in Events : /\ NextAttempt(attempts[e]) \in 0 .. AttemptCap
                          /\ NextAttempt(attempts[e]) >= attempts[e]
    BY <1>2, OutboxAssumption DEF NextAttempt, RowsInv
  <1>6. claimed \in [Events -> 0 .. AttemptCap]
    BY <1>5, OutboxAssumption
  <1>7. \A e \in batch : claimed[e] = attempts'[e]
    BY <1>2, <1>3
  <1> HIDE DEF claimed
  <1>8. /\ new \in Jobs /\ new.pc = "batch" /\ new.token = t /\ new.rest = batch
        /\ new.current = NoEvent /\ new.claimed = claimed
    BY <1>2, <1>6 DEF Jobs
  <1> HIDE DEF new
  <1>9. /\ job' \in [Publishers -> Jobs] /\ job'[p] = new
        /\ \A q \in Publishers : q # p => job'[q] = job[q]
    BY <1>2, <1>4, <1>8 DEF JobsTyped
  <1>10. RowsInv'
    <2>1. status' \in [Events -> Status] /\ token' \in [Events -> Tokens \cup {None}]
      BY <1>2, <1>3 DEF RowsInv, Status
    <2>2. attempts' \in [Events -> 0 .. AttemptCap]
      BY <1>2, <1>3, <1>5 DEF RowsInv
    <2>3. \A e \in Events : status'[e] = "publishing" <=> token'[e] # None
      BY <1>2, <1>3 DEF RowsInv
    <2>4. PublishedOnce'
      BY <1>2, <1>3 DEF RowsInv, PublishedOnce
    <2>5. DeadAfterMaxAttempts'
      BY <1>2, <1>3 DEF RowsInv, DeadAfterMaxAttempts
    <2>6. due' \in SUBSET Events /\ live' \in SUBSET Tokens /\ audits' \in [Events -> Nat]
          /\ taken' \in SUBSET Events
      BY <1>2, <1>3 DEF RowsInv
    <2> QED BY <2>1, <2>2, <2>3, <2>4, <2>5, <2>6 DEF RowsInv
  <1>11. JobsTyped'
    BY <1>2, <1>8, <1>9 DEF JobsTyped, Working
  <1>12. JobOK(p)'
    <2>1. NoEvent \notin batch
      BY <1>2, NoEventAssumption
    <2>2. \A e \in Events : e \in batch \cup {NoEvent} => claimed[e] = attempts'[e]
      BY <1>7, NoEventAssumption
    <2> QED BY <1>2, <1>8, <1>9, <2>1, <2>2 DEF JobOK, InHand
  <1>13. ASSUME NEW q \in Publishers, q # p PROVE JobOK(q)'
    <2>1. job'[q] = job[q] /\ JobOK(q) /\ job[q].token # t
      BY <1>2, <1>9, <1>13 DEF JobsInv, Fresh
    <2>2. \A e \in Events : token'[e] = job[q].token =>
            token[e] = job[q].token /\ attempts'[e] = attempts[e]
      BY <1>3, <2>1
    <2> QED BY <1>3, <2>1, <2>2 DEF JobOK, InHand
  <1> QED BY <1>10, <1>11, <1>12, <1>13, PartsAfter DEF JobsInv

LEMMA InvStep == Inv /\ [Next]_vars => Inv'
  <1> SUFFICES ASSUME Inv, [Next]_vars PROVE Inv'
    OBVIOUS
  <1>1. taken \in SUBSET Events
    BY DEF Inv, TypeOK
  <1>2. ASSUME NEW p \in Publishers, Moves(p),
               job'[p].pc = "delivered" => job'[p].current \in taken',
               job'[p].pc = "refused" => job'[p].current \in Refused,
               taken \subseteq taken', RowsInv', RowsMove
        PROVE  Inv'
    BY <1>2, MovesKeepJobs, PartsAfter DEF RowsMove
  <1>3. ASSUME NEW e \in Events, Add(e) \/ BackoffElapses(e) PROVE Inv'
    <2>1. UNCHANGED <<attempts, token, live, audits, taken, job>> /\ due' = due \cup {e}
      BY <1>3 DEF Add, BackoffElapses
    <2>2. \/ status' = status
          \/ status[e] = "absent" /\ status' = [status EXCEPT ![e] = "pending"]
      BY <1>3 DEF Add, BackoffElapses
    <2>3. RowsInv'
      <3>1. status' \in [Events -> Status] /\ due' \in SUBSET Events
        BY <2>1, <2>2, Parts DEF RowsInv, Status
      <3>2. \A d \in Events : status'[d] = "publishing" <=> token'[d] # None
        BY <2>1, <2>2, Parts DEF RowsInv
      <3>3. PublishedOnce' /\ DeadAfterMaxAttempts'
        BY <2>1, <2>2, Parts DEF RowsInv, PublishedOnce, DeadAfterMaxAttempts
      <3> QED BY <2>1, <3>1, <3>2, <3>3, Parts DEF RowsInv
    <2>4. JobsTyped' /\ JobsInv'
      BY <2>1, Parts DEF JobsTyped, Working, JobsInv, JobOK, InHand
    <2> QED BY <2>3, <2>4, PartsAfter
  <1>4. ASSUME NEW t \in Tokens, LeaseExpires(t) PROVE Inv'
    BY <1>4 DEF LeaseExpires, Inv, TypeOK, JobsInv, JobOK, InHand, PublishedOnce,
                DeadAfterMaxAttempts
  <1>5. ASSUME NEW p \in Publishers, NEW e \in Events, Offer(p, e) PROVE Inv'
    <2>1. job[p].pc = "batch" /\ e \in job[p].rest /\ UNCHANGED rows
      BY <1>5 DEF Offer, Deliver, DeliverFails, Refuse
    <2>2. taken' \in {taken, taken \cup {e}}
      BY <1>5 DEF Offer, Deliver, DeliverFails, Refuse
    <2>3. RowsInv' /\ RowsMove
      BY <1>1, <2>1, <2>2, RowsStay
    <2>4. PICK pc \in {"delivered", "failing", "refused"} :
            /\ Handle(p, e, pc)
            /\ pc = "delivered" => e \in taken'
            /\ pc = "refused" => e \in Refused
      BY <1>5 DEF Offer, Deliver, DeliverFails, Refuse
    <2>5. Moves(p) /\ job'[p].pc = pc /\ job'[p].current = e
      BY <2>1, <2>4, HandleMoves
    <2> QED BY <1>2, <2>2, <2>3, <2>4, <2>5
  <1>6. ASSUME NEW p \in Publishers, Settle(p) PROVE Inv'
    <2>1. Working(p) /\ NextEvent(p) /\ UNCHANGED taken
      BY <1>6 DEF Settle, Acknowledge, Fail, Working
    <2>2. RowsInv' /\ RowsMove
      <3>1. CASE Acknowledge(p)
        BY <3>1, PublishKeepsRows DEF Acknowledge
      <3>2. CASE Fail(p)
        BY <3>2, FailureKeepsRows DEF Fail
      <3> QED BY <1>6, <3>1, <3>2 DEF Settle
    <2>3. Moves(p) /\ job'[p].pc \in {"idle", "batch"}
      BY <2>1, NextEventMoves
    <2> QED BY <1>2, <2>1, <2>2, <2>3
  <1>7. ASSUME NEW p \in Publishers, AcknowledgeFails(p) PROVE Inv'
    <2>1. RowsInv' /\ RowsMove /\ UNCHANGED taken
      <3>1. CASE UNCHANGED rows
        BY <1>1, <1>7, <3>1, RowsStay DEF AcknowledgeFails
      <3>2. CASE Holds(p) /\ Publish(job[p].current)
        BY <1>7, <3>2, PublishKeepsRows DEF AcknowledgeFails
      <3> QED BY <1>7, <3>1, <3>2 DEF AcknowledgeFails
    <2>2. Moves(p) /\ job'[p].pc = "failing"
      BY <1>7, FailingMoves DEF AcknowledgeFails
    <2> QED BY <1>2, <2>1, <2>2
  <1>8. ASSUME NEW p \in Publishers, FailFails(p) \/ Crash(p) PROVE Inv'
    <2>1. RowsInv' /\ RowsMove /\ UNCHANGED taken
      <3>1. CASE UNCHANGED rows
        BY <1>1, <1>8, <3>1, RowsStay DEF FailFails, Crash
      <3>2. CASE FailFails(p) /\ Holds(p) /\ RecordFailure(p)
        BY <3>2, FailureKeepsRows DEF FailFails
      <3> QED BY <1>8, <3>1, <3>2 DEF FailFails, Crash
    <2>2. Moves(p) /\ job'[p].pc = "idle"
      BY <1>8, StopMoves DEF FailFails, Crash
    <2> QED BY <1>2, <2>1, <2>2
  <1>9. CASE UNCHANGED vars
    BY <1>9 DEF vars, rows, Inv, TypeOK, JobsInv, JobOK, InHand, PublishedOnce,
                DeadAfterMaxAttempts
  <1> QED BY <1>3, <1>4, <1>5, <1>6, <1>7, <1>8, <1>9, ClaimStep DEF Next

(* The invariant that joins rows and publishers holds for any events,       *)
(* publishers, tokens and limits.                                           *)
THEOREM OutboxInvariance == Spec => []Inv
  BY InitInv, InvStep, PTL DEF Spec

(* The rows hold values of their columns, and exactly the rows being        *)
(* published have a token.                                                  *)
THEOREM OutboxTypeCorrect == Spec => []TypeOK
  BY OutboxInvariance, PTL DEF Inv

(* Publication follows delivery and is audited exactly once.                *)
THEOREM PublicationIsOnce == Spec => []PublishedOnce
  BY OutboxInvariance, PTL DEF Inv

(* No event is given up before max_attempts claims unless the sink refuses  *)
(* it for good.                                                             *)
THEOREM DeadMeansGivenUp == Spec => []DeadAfterMaxAttempts
  BY OutboxInvariance, PTL DEF Inv

(* The holder of a row decides on its current number of attempts.           *)
THEOREM AttemptsAreCurrent == Spec => []CurrentAttempts
  <1>1. Inv => CurrentAttempts
    <2> SUFFICES ASSUME Inv, NEW p \in Publishers, job[p].current # NoEvent, Holds(p)
                 PROVE  job[p].claimed[job[p].current] = attempts[job[p].current]
      BY DEF CurrentAttempts
    <2>1. JobOK(p) /\ job[p].current \in Events
      BY DEF Inv, TypeOK, JobsInv, Jobs
    <2> QED BY <2>1 DEF JobOK, InHand, Holds
  <1> QED BY <1>1, OutboxInvariance, PTL

(* No step reopens, fails or publishes again an event that is settled.      *)
THEOREM OutboxSettlementIsFinal == Spec => SettledIsFinal
  <1> DEFINE Kept(e) == status[e] \in Settled =>
                          status'[e] = status[e] /\ attempts'[e] = attempts[e] /\ token'[e] = None
  <1>1. ASSUME Inv, Inv', [Next]_vars, NEW e \in Events PROVE Kept(e)
    <2> SUFFICES ASSUME status[e] \in Settled
                 PROVE  status'[e] = status[e] /\ attempts'[e] = attempts[e] /\ token'[e] = None
      OBVIOUS
    <2>1. ASSUME status'[e] = status[e], attempts'[e] = attempts[e] PROVE Kept(e)
      BY <1>1, <2>1 DEF Inv, TypeOK, Settled
    <2>2. CASE UNCHANGED <<status, attempts>>
      BY <2>1, <2>2
    <2>3. ASSUME NEW d \in Events, Add(d) PROVE Kept(e)
      BY <1>1, <2>1, <2>3 DEF Add, Inv, TypeOK, Settled
    <2>4. ASSUME NEW p \in Publishers, ClaimBatch(p) PROVE Kept(e)
      <3>1. PICK batch \in Batches, t \in NewTokens : Claim(p, batch, t)
        BY <2>4 DEF ClaimBatch
      <3>2. e \notin batch
        BY DEF Batches, Claimable, Settled
      <3> QED BY <2>1, <3>1, <3>2 DEF Claim
    <2>5. ASSUME NEW p \in Publishers, Holds(p),
                 Publish(job[p].current) \/ RecordFailure(p)
          PROVE  Kept(e)
      <3>1. e # job[p].current
        BY <2>5 DEF Holds, Settled
      <3>2. status'[e] = status[e] /\ attempts'[e] = attempts[e]
        BY <1>1, <2>5, <3>1 DEF Publish, RecordFailure, Inv, TypeOK
      <3> QED BY <2>1, <3>2
    <2>6. ASSUME NEW p \in Publishers, \E d \in Events : Offer(p, d) PROVE Kept(e)
      BY <2>2, <2>6 DEF Offer, Deliver, DeliverFails, Refuse, rows
    <2>7. ASSUME NEW p \in Publishers,
                 Settle(p) \/ AcknowledgeFails(p) \/ FailFails(p) \/ Crash(p)
          PROVE  Kept(e)
      BY <2>2, <2>5, <2>7 DEF Settle, Acknowledge, Fail, AcknowledgeFails, FailFails, Crash, rows
    <2> QED BY <1>1, <2>2, <2>3, <2>4, <2>6, <2>7
            DEF Next, BackoffElapses, LeaseExpires, vars, rows
  <1>2. Inv /\ Inv' /\ [Next]_vars =>
          [\A e \in Events : status[e] \in Settled =>
             status'[e] = status[e] /\ attempts'[e] = attempts[e] /\ token'[e] = None]_vars
    BY <1>1
  <1> QED BY <1>2, OutboxInvariance, PTL DEF Spec, SettledIsFinal
-----------------------------------------------------------------------------
(* What a publisher has not yet handed to the sink has been announced: rows  *)
(* are never taken back, so it stays so after the lease is lost.            *)
Handed == \A p \in Publishers : \A e \in job[p].rest : status[e] # "absent"

announced == {e \in Events : status[e] # "absent"}
published == {e \in Events : status[e] = "published"}
givenUp == {e \in Events : status[e] = "dead"}

LEMMA HandedFirst == Init => Handed
  BY DEF Init, Handed, Idle

(* A row, once added, stays; a publisher's rest only shrinks between claims. *)
LEMMA HandedStep == Inv /\ Handed /\ [Next]_vars => Handed'
  <1> SUFFICES ASSUME Inv, Handed, [Next]_vars PROVE Handed'
    OBVIOUS
  <1>1. /\ status \in [Events -> Status] /\ job \in [Publishers -> Jobs]
        /\ \A p \in Publishers : job[p] \in Jobs /\ job[p].rest \subseteq Events
    BY DEF Inv, TypeOK, Jobs
  <1>2. ASSUME \A e \in Events : status[e] # "absent" => status'[e] # "absent",
               \A p \in Publishers : job'[p].rest \subseteq job[p].rest
        PROVE  Handed'
    BY <1>1, <1>2 DEF Handed
  <1>3. ASSUME NEW p \in Publishers, Holds(p), Publish(job[p].current) \/ RecordFailure(p)
        PROVE  \A e \in Events : status[e] # "absent" => status'[e] # "absent"
    BY <1>1, <1>3 DEF Publish, RecordFailure
  <1>4. ASSUME NEW p \in Publishers,
               \/ \E e \in Events, pc \in {"delivered", "failing", "refused"} : Handle(p, e, pc)
               \/ NextEvent(p)
               \/ job' = [job EXCEPT ![p].pc = "failing"]
               \/ job' = [job EXCEPT ![p] = Idle]
        PROVE  \A q \in Publishers : job'[q].rest \subseteq job[q].rest
    <2>1. ASSUME NEW e \in Events, NEW pc \in {"delivered", "failing", "refused"}, Handle(p, e, pc)
          PROVE  \A q \in Publishers : job'[q].rest \subseteq job[q].rest
      BY <1>1, <2>1 DEF Handle, Jobs
    <2>2. CASE job' = [job EXCEPT ![p] = Idle]
      BY <1>1, <2>2 DEF Idle
    <2>3. CASE NextEvent(p)
      <3>1. CASE job[p].rest = {}
        BY <2>2, <2>3, <3>1 DEF NextEvent
      <3>2. CASE job[p].rest # {}
        BY <1>1, <2>3, <3>2 DEF NextEvent, Jobs
      <3> QED BY <3>1, <3>2
    <2>4. CASE job' = [job EXCEPT ![p].pc = "failing"]
      BY <1>1, <2>4 DEF Jobs
    <2> QED BY <1>4, <2>1, <2>2, <2>3, <2>4
  <1>5. ASSUME NEW e \in Events, Add(e) \/ BackoffElapses(e) PROVE Handed'
    BY <1>1, <1>2, <1>5 DEF Add, BackoffElapses
  <1>6. ASSUME NEW t \in Tokens, LeaseExpires(t) PROVE Handed'
    BY <1>2, <1>6 DEF LeaseExpires
  <1>7. ASSUME NEW p \in Publishers, ClaimBatch(p) PROVE Handed'
    <2>1. PICK batch \in Batches, t \in NewTokens : Claim(p, batch, t)
      BY <1>7 DEF ClaimBatch
    <2>2. batch \subseteq Events /\ \A e \in batch : status'[e] # "absent"
      BY <2>1 DEF Batches, Claim
    <2>3. \A e \in Events : status[e] # "absent" => status'[e] # "absent"
      BY <2>1 DEF Claim
    <2>4. job'[p].rest = batch /\ \A q \in Publishers : q # p => job'[q] = job[q]
      BY <1>1, <2>1 DEF Claim
    <2> QED BY <1>1, <2>2, <2>3, <2>4 DEF Handed
  <1>8. ASSUME NEW p \in Publishers, NEW e \in Events, Offer(p, e) PROVE Handed'
    <2>1. status' = status
      BY <1>8 DEF Offer, Deliver, DeliverFails, Refuse, rows
    <2>2. PICK pc \in {"delivered", "failing", "refused"} : Handle(p, e, pc)
      BY <1>8 DEF Offer, Deliver, DeliverFails, Refuse
    <2> QED BY <1>2, <1>4, <2>1, <2>2
  <1>9. ASSUME NEW p \in Publishers,
               Settle(p) \/ AcknowledgeFails(p) \/ FailFails(p) \/ Crash(p)
        PROVE  Handed'
    <2>1. status' = status \/ (Holds(p) /\ (Publish(job[p].current) \/ RecordFailure(p)))
      BY <1>9 DEF Settle, Acknowledge, Fail, AcknowledgeFails, FailFails, Crash, rows
    <2>2. \/ NextEvent(p)
          \/ job' = [job EXCEPT ![p].pc = "failing"]
          \/ job' = [job EXCEPT ![p] = Idle]
      BY <1>9 DEF Settle, Acknowledge, Fail, AcknowledgeFails, FailFails, Crash
    <2> QED BY <1>2, <1>3, <1>4, <2>1, <2>2
  <1>10. CASE UNCHANGED vars
    BY <1>10 DEF vars, rows, Handed
  <1> QED BY <1>5, <1>6, <1>7, <1>8, <1>9, <1>10 DEF Next

LEMMA FeedFirst == Init => Feed!FeedInit
  BY DEF Init, Feed!FeedInit

LEMMA UnseenStep ==
  ASSUME announced' = announced, taken' = taken, published' = published, givenUp' = givenUp
  PROVE  UNCHANGED Feed!feedVars
  BY DEF announced, published, givenUp, Feed!feedVars

(* A publication that the fence lets through is one of an open event that    *)
(* the sink took.                                                           *)
LEMMA PublishIsPublish ==
  ASSUME Inv, NEW p \in Publishers, job[p].pc = "delivered", Holds(p),
         Publish(job[p].current), taken' = taken
  PROVE  Feed!FeedNext
  <1>0. PICK e \in Events : e = job[p].current
    BY DEF Inv, TypeOK
  <1>1. e \in taken /\ status[e] = "publishing" /\ status \in [Events -> Status]
    BY <1>0 DEF Inv, TypeOK, JobsInv, JobOK, Holds
  <1>2. status' = [status EXCEPT ![e] = "published"]
    BY <1>0 DEF Publish
  <1>3. Feed!Open(e)
    BY <1>1 DEF Feed!Open
  <1>4. /\ {d \in Events : status'[d] = "published"} =
             {d \in Events : status[d] = "published"} \cup {e}
        /\ {d \in Events : status'[d] # "absent"} = {d \in Events : status[d] # "absent"}
        /\ {d \in Events : status'[d] = "dead"} = {d \in Events : status[d] = "dead"}
    BY <1>1, <1>2
  <1>5. Feed!Publish(e)
    BY <1>1, <1>3, <1>4 DEF Feed!Publish
  <1> QED BY <1>1, <1>5 DEF Feed!FeedNext

(* A failure that the fence lets through is a retry, which nobody sees, or   *)
(* the end of an open event.                                                *)
LEMMA FailureIsGiveUp ==
  ASSUME Inv, NEW p \in Publishers, job[p].pc \in {"failing", "refused"}, Holds(p),
         RecordFailure(p), taken' = taken
  PROVE  Feed!FeedNext \/ UNCHANGED Feed!feedVars
  <1>0. PICK e \in Events : e = job[p].current
    BY DEF Inv, TypeOK
  <1>1. status[e] = "publishing" /\ status \in [Events -> Status]
    BY <1>0 DEF Inv, TypeOK, JobsInv, JobOK, Holds
  <1>2. PICK new \in {"dead", "retry"} : status' = [status EXCEPT ![e] = new]
    BY <1>0 DEF RecordFailure
  <1>3. /\ {d \in Events : status'[d] = "published"} = {d \in Events : status[d] = "published"}
        /\ {d \in Events : status'[d] # "absent"} = {d \in Events : status[d] # "absent"}
    BY <1>1, <1>2
  <1>4. CASE new = "retry"
    <2>1. {d \in Events : status'[d] = "dead"} = {d \in Events : status[d] = "dead"}
      BY <1>1, <1>2, <1>4
    <2> QED BY <1>3, <2>1, UnseenStep DEF announced, published, givenUp
  <1>5. CASE new = "dead"
    <2>1. {d \in Events : status'[d] = "dead"} = {d \in Events : status[d] = "dead"} \cup {e}
      BY <1>1, <1>2, <1>5
    <2>2. Feed!Open(e)
      BY <1>1 DEF Feed!Open
    <2>3. Feed!GiveUp(e)
      BY <1>3, <2>1, <2>2 DEF Feed!GiveUp
    <2> QED BY <1>1, <2>3 DEF Feed!FeedNext
  <1> QED BY <1>4, <1>5

LEMMA FeedStep == Inv /\ Handed /\ [Next]_vars => [Feed!FeedNext]_Feed!feedVars
  <1> SUFFICES ASSUME Inv, Handed, [Next]_vars
               PROVE  Feed!FeedNext \/ UNCHANGED Feed!feedVars
    OBVIOUS
  <1>1. status \in [Events -> Status] /\ taken \in SUBSET Events
    BY DEF Inv, TypeOK
  <1>2. CASE UNCHANGED <<status, taken>>
    BY <1>2, UnseenStep DEF announced, published, givenUp
  <1>3. ASSUME NEW e \in Events, Add(e) PROVE Feed!FeedNext
    <2>1. status[e] = "absent" /\ status' = [status EXCEPT ![e] = "pending"] /\ taken' = taken
      BY <1>3 DEF Add
    <2>2. /\ {d \in Events : status'[d] # "absent"} =
               {d \in Events : status[d] # "absent"} \cup {e}
          /\ {d \in Events : status'[d] = "published"} = {d \in Events : status[d] = "published"}
          /\ {d \in Events : status'[d] = "dead"} = {d \in Events : status[d] = "dead"}
      BY <1>1, <2>1
    <2>3. Feed!Announce(e)
      BY <2>1, <2>2 DEF Feed!Announce
    <2> QED BY <2>3 DEF Feed!FeedNext
  <1>4. ASSUME NEW p \in Publishers, ClaimBatch(p) PROVE UNCHANGED Feed!feedVars
    <2>1. PICK batch \in Batches, t \in NewTokens : Claim(p, batch, t)
      BY <1>4 DEF ClaimBatch
    <2>2. \A d \in batch : status[d] \in {"pending", "retry", "publishing"}
      BY DEF Batches, Claimable
    <2>3. /\ status' = [d \in Events |-> IF d \in batch THEN "publishing" ELSE status[d]]
          /\ taken' = taken
      BY <2>1 DEF Claim
    <2>4. announced' = announced /\ published' = published /\ givenUp' = givenUp
      BY <2>2, <2>3 DEF announced, published, givenUp
    <2> QED BY <2>3, <2>4, UnseenStep
  <1>5. ASSUME NEW p \in Publishers, NEW e \in Events, Offer(p, e)
        PROVE  Feed!FeedNext \/ UNCHANGED Feed!feedVars
    <2>1. status' = status /\ e \in job[p].rest
      BY <1>5 DEF Offer, Deliver, DeliverFails, Refuse, rows
    <2>2. CASE taken' = taken
      BY <1>2, <2>1, <2>2
    <2>3. CASE taken' = taken \cup {e} /\ e \notin Refused
      <3>1. status[e] # "absent"
        BY <2>1 DEF Handed
      <3>2. Feed!Take(e)
        BY <2>1, <2>3, <3>1 DEF Feed!Take
      <3> QED BY <3>2 DEF Feed!FeedNext
    <2> QED BY <1>5, <2>2, <2>3 DEF Offer, Deliver, DeliverFails, Refuse
  <1>6. ASSUME NEW p \in Publishers,
               Settle(p) \/ AcknowledgeFails(p) \/ FailFails(p) \/ Crash(p)
        PROVE  Feed!FeedNext \/ UNCHANGED Feed!feedVars
    <2>1. \/ UNCHANGED <<status, taken>>
          \/ job[p].pc = "delivered" /\ Holds(p) /\ Publish(job[p].current) /\ taken' = taken
          \/ /\ job[p].pc \in {"failing", "refused"} /\ Holds(p)
             /\ RecordFailure(p) /\ taken' = taken
      BY <1>6 DEF Settle, Acknowledge, Fail, AcknowledgeFails, FailFails, Crash, rows
    <2> QED BY <1>2, <2>1, PublishIsPublish, FailureIsGiveUp
  <1> QED BY <1>2, <1>3, <1>4, <1>5, <1>6 DEF Next, BackoffElapses, LeaseExpires, vars, rows

(* The outbox implements EventFeed for any events, publishers, tokens and     *)
(* limits: crashes, lost leases and lost answers are invisible to those who *)
(* listen, apart from repeated deliveries.                                  *)
THEOREM OutboxRefinement == Spec => ImplementsFeed
  <1>1. Spec => []Handed
    BY HandedFirst, HandedStep, OutboxInvariance, PTL DEF Spec
  <1> QED BY <1>1, FeedFirst, FeedStep, OutboxInvariance, PTL
          DEF Spec, ImplementsFeed, Feed!FeedSpec
=============================================================================
