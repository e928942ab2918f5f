------------------------ MODULE SyntheticQueue_proofs ------------------------
(***************************************************************************)
(* Proofs, for every set of keys and workers and every max_attempts, of    *)
(* the safety properties of SyntheticQueue and of its refinement of        *)
(* EffectInbox.  All of them rest on one inductive invariant, IInv.        *)
(***************************************************************************)
EXTENDS SyntheticQueue, TLAPS

(* The attempts a worker read at its claim never exceed the row's: this is  *)
(* what makes a decision to give up, taken on an old value, a late one.     *)
ClaimNotAhead ==
  \A w \in Workers : job[w].pc # "idle" => job[w].attempts <= queue[job[w].key].attempts

(* Outbox rows, queue rows and jobs exist only for accepted events. *)
RowsHaveEvents ==
  /\ \A k \in Keys : outbox[k] # "none" => event[k] # "none"
  /\ \A k \in Keys : queue[k].status # "none" => event[k] # "none"
  /\ \A w \in Workers : job[w].pc # "idle" => queue[job[w].key].status # "none"

(* Only invalid messages meet permanent errors, and they have no receipt. *)
InvalidNeverApplied ==
  /\ receipts \cap Invalid = {}
  /\ \A w \in Workers : job[w].pc = "rejecting" => job[w].key \in Invalid

(* The first half of DeadAfterMaxAttempts; the second follows from the two  *)
(* facts above and AcknowledgedAfterEffect.                                 *)
DeadExhausted ==
  \A k \in Keys \ Invalid : queue[k].status = "dead" => queue[k].attempts >= MaxAttempts

IInv ==
  /\ TypeOK
  /\ InvalidNeverApplied
  /\ ReceiptMatchesEffect
  /\ AcknowledgedAfterEffect
  /\ ClaimNotAhead
  /\ DeadExhausted
  /\ RowsHaveEvents

LEMMA InitInv == Init => IInv
  BY AttemptsAssumption, NoKeyAssumption, InvalidAssumption
  DEF Init, IInv, TypeOK, InvalidNeverApplied, ReceiptMatchesEffect, AcknowledgedAfterEffect, ClaimNotAhead,
      DeadExhausted, RowsHaveEvents, QueueRows, QueueStatus, Jobs, Steps, Idle, NoRow

(* The attempts column only grows and stays in its range. *)
LEMMA NextAttemptBounds ==
  ASSUME TypeOK, NEW k \in Keys
  PROVE  /\ NextAttempt(k) \in 0 .. AttemptCap
         /\ NextAttempt(k) >= queue[k].attempts
  BY AttemptsAssumption DEF TypeOK, QueueRows, NextAttempt

(* complete() and fail() touch one row, only if it is leased, and never its attempts. *)
LEMMA CompletedRows ==
  ASSUME TypeOK, NEW k \in Keys
  PROVE  /\ Completed(k) \in [Keys -> QueueRows]
         /\ \A j \in Keys :
              /\ Completed(k)[j].attempts = queue[j].attempts
              /\ \/ Completed(k)[j].status = queue[j].status
                 \/ /\ j = k /\ queue[j].status = "leased"
                    /\ Completed(k)[j].status = "completed"
  BY DEF TypeOK, Completed, QueueRows, QueueStatus

LEMMA FailedRows ==
  ASSUME TypeOK, NEW w \in Workers, NEW k \in Keys
  PROVE  /\ Failed(w, k) \in [Keys -> QueueRows]
         /\ \A j \in Keys :
              /\ Failed(w, k)[j].attempts = queue[j].attempts
              /\ \/ Failed(w, k)[j].status = queue[j].status
                 \/ /\ j = k /\ queue[j].status = "leased"
                    /\ \/ IsDead(w) /\ Failed(w, k)[j].status = "dead"
                       \/ Failed(w, k)[j].status = "available"
  BY DEF TypeOK, Failed, QueueRows, QueueStatus

(* The type invariant is kept by every step. *)
LEMMA TypeStep == TypeOK /\ [Next]_vars => TypeOK'
  <1> SUFFICES ASSUME TypeOK, [Next]_vars PROVE TypeOK'
    OBVIOUS
  <1> USE DEF TypeOK
  <1>1. ASSUME NEW k \in Keys, Accept(k) PROVE TypeOK'
    BY <1>1 DEF Accept
  <1>2. ASSUME NEW k \in Keys, LeaseExpires(k) PROVE TypeOK'
    BY <1>2 DEF LeaseExpires, QueueRows
  <1>3. ASSUME NEW k \in Keys, BackoffElapses(k) PROVE TypeOK'
    BY <1>3 DEF BackoffElapses, QueueRows
  <1>4. ASSUME NEW batch \in SUBSET Keys, DispatchBatch(batch) PROVE TypeOK'
    BY <1>4, AttemptsAssumption DEF DispatchBatch, NewRow, QueueRows, QueueStatus
  <1>5. ASSUME NEW w \in Workers, NEW k \in Keys, Claim(w, k) PROVE TypeOK'
    <2>1. queue' \in [Keys -> QueueRows]
      BY <1>5, NextAttemptBounds DEF Claim, QueueRows, QueueStatus
    <2>2. job' \in [Workers -> Jobs]
      BY <1>5, NextAttemptBounds DEF Claim, Jobs, Steps
    <2>3. \A v \in Workers : job'[v].pc # "idle" => job'[v].key \in Keys
      BY <1>5 DEF Claim
    <2> QED BY <1>5, <2>1, <2>2, <2>3 DEF Claim
  <1>6. ASSUME NEW w \in Workers, NEW k \in Keys, Process(w, k) PROVE TypeOK'
    <2>1. receipts' \in SUBSET Keys /\ queue' = queue /\ outbox' = outbox
      BY <1>6 DEF Process
    <2>2. /\ event' \in [Keys -> {"none", "accepted", "processed"}]
          /\ effects' \in [Keys -> Nat]
      BY <1>6 DEF Process
    <2>3. job' \in [Workers -> Jobs] /\ \A v \in Workers : job'[v].pc # "idle" => job'[v].key \in Keys
      BY <1>6 DEF Process, Jobs, Steps
    <2> QED BY <2>1, <2>2, <2>3
  <1>7. ASSUME NEW w \in Workers, NEW k \in Keys, Complete(w, k) PROVE TypeOK'
    <2>1. queue' \in [Keys -> QueueRows]
      BY <1>7, CompletedRows DEF Complete
    <2> QED BY <1>7, <2>1, AttemptsAssumption DEF Complete, Idle, Jobs, Steps
  <1>8. ASSUME NEW w \in Workers, NEW k \in Keys, CompleteFails(w, k) PROVE TypeOK'
    <2>1. queue' \in [Keys -> QueueRows]
      BY <1>8, CompletedRows DEF CompleteFails
    <2> QED BY <1>8, <2>1 DEF CompleteFails, Jobs, Steps
  <1>9. ASSUME NEW w \in Workers, NEW k \in Keys, Fail(w, k) PROVE TypeOK'
    <2>1. queue' \in [Keys -> QueueRows]
      BY <1>9, FailedRows DEF Fail
    <2> QED BY <1>9, <2>1, AttemptsAssumption DEF Fail, Idle, Jobs, Steps
  <1>10. ASSUME NEW w \in Workers, ProcessFails(w) PROVE TypeOK'
    BY <1>10 DEF ProcessFails, Jobs, Steps
  <1>13. ASSUME NEW w \in Workers, NEW k \in Keys, ProcessRejects(w, k) PROVE TypeOK'
    BY <1>13 DEF ProcessRejects, Jobs, Steps
  <1>11. ASSUME NEW w \in Workers, Crash(w) PROVE TypeOK'
    BY <1>11, AttemptsAssumption DEF Crash, Idle, Jobs, Steps
  <1>12. CASE UNCHANGED vars
    BY <1>12 DEF vars
  <1> QED BY <1>1, <1>2, <1>3, <1>4, <1>5, <1>6, <1>7, <1>8, <1>9, <1>10, <1>11, <1>12,
            <1>13
          DEF Next, WorkerStep

(* Neither a receipt nor a permanent error ever falls on the wrong key.     *)
LEMMA InvalidStep == TypeOK /\ InvalidNeverApplied /\ [Next]_vars => InvalidNeverApplied'
  <1> SUFFICES ASSUME TypeOK, InvalidNeverApplied, [Next]_vars PROVE InvalidNeverApplied'
    OBVIOUS
  <1> USE DEF InvalidNeverApplied
  <1>1. ASSUME NEW w \in Workers, ProcessFails(w) \/ \E k \in Keys : ProcessRejects(w, k)
        PROVE InvalidNeverApplied'
    BY <1>1 DEF ProcessFails, ProcessRejects, TypeOK, Jobs
  <1>2. ASSUME NEW w \in Workers, NEW k \in Keys, Claim(w, k) PROVE InvalidNeverApplied'
    BY <1>2 DEF Claim, TypeOK
  <1>3. ASSUME NEW w \in Workers, NEW k \in Keys, Process(w, k) PROVE InvalidNeverApplied'
    <2>1. receipts' \cap Invalid = {}
      BY <1>3 DEF Process
    <2>2. \A v \in Workers : /\ job'[v].pc = "rejecting" => job[v].pc = "rejecting"
                             /\ job'[v].key = job[v].key
      BY <1>3 DEF Process, TypeOK, Jobs
    <2> QED BY <2>1, <2>2
  <1>4. ASSUME NEW w \in Workers, NEW k \in Keys, Complete(w, k) \/ CompleteFails(w, k) \/ Fail(w, k)
        PROVE InvalidNeverApplied'
    <2>1. \A v \in Workers : job'[v].pc = "rejecting" => /\ job[v].pc = "rejecting"
                                                         /\ job'[v].key = job[v].key
      BY <1>4 DEF Complete, CompleteFails, Fail, Idle, TypeOK, Jobs
    <2>2. receipts' = receipts
      BY <1>4 DEF Complete, CompleteFails, Fail
    <2> QED BY <2>1, <2>2
  <1>5. ASSUME NEW w \in Workers, Crash(w) PROVE InvalidNeverApplied'
    BY <1>5 DEF Crash, Idle, TypeOK
  <1>6. ASSUME NEW k \in Keys, Accept(k) \/ LeaseExpires(k) \/ BackoffElapses(k)
        PROVE InvalidNeverApplied'
    BY <1>6 DEF Accept, LeaseExpires, BackoffElapses
  <1>7. ASSUME NEW batch \in SUBSET Keys, DispatchBatch(batch) PROVE InvalidNeverApplied'
    BY <1>7 DEF DispatchBatch
  <1>8. CASE UNCHANGED vars
    BY <1>8 DEF vars
  <1> QED BY <1>1, <1>2, <1>3, <1>4, <1>5, <1>6, <1>7, <1>8 DEF Next, WorkerStep

(* One step keeps the rest of the invariant.  The steps that disturb it are *)
(* the claim (which raises attempts), the effect with its receipt, and the  *)
(* two acknowledgements.                                                    *)
LEMMA InvStep == IInv /\ [Next]_vars => IInv'
  <1> SUFFICES ASSUME IInv, [Next]_vars PROVE IInv'
    OBVIOUS
  <1> USE DEF IInv
  <1>0. TypeOK' /\ InvalidNeverApplied'
    BY TypeStep, InvalidStep
  <1> DEFINE Rest == /\ ReceiptMatchesEffect
                     /\ AcknowledgedAfterEffect
                     /\ ClaimNotAhead
                     /\ DeadExhausted
                     /\ RowsHaveEvents
  <1> USE DEF ReceiptMatchesEffect, AcknowledgedAfterEffect, ClaimNotAhead,
              DeadExhausted, RowsHaveEvents
  <1>1. ASSUME NEW k \in Keys, Accept(k) PROVE Rest'
    BY <1>1 DEF Accept, TypeOK
  <1>2. ASSUME NEW k \in Keys, LeaseExpires(k) PROVE Rest'
    BY <1>2 DEF LeaseExpires, TypeOK, QueueRows
  <1>3. ASSUME NEW k \in Keys, BackoffElapses(k) PROVE Rest'
    BY <1>3 DEF BackoffElapses, TypeOK, QueueRows
  <1>4. ASSUME NEW batch \in SUBSET Keys, DispatchBatch(batch) PROVE Rest'
    <2>1. \A k \in Keys : \/ queue'[k] = queue[k]
                          \/ /\ k \in batch /\ queue[k].status = "none"
                             /\ queue'[k].status = "available" /\ queue'[k].attempts = 0
      BY <1>4 DEF DispatchBatch, NewRow, TypeOK
    <2>2. \A k \in batch : outbox[k] = "pending"
      BY <1>4 DEF DispatchBatch
    <2>3. \A k \in Keys : outbox'[k] = outbox[k] \/ k \in batch
      BY <1>4 DEF DispatchBatch, TypeOK
    <2>4. UNCHANGED <<event, receipts, effects, job>>
      BY <1>4 DEF DispatchBatch
    <2>5. ReceiptMatchesEffect' /\ AcknowledgedAfterEffect' /\ DeadExhausted'
      BY <2>1, <2>4 DEF TypeOK
    <2>6. RowsHaveEvents'
      BY <2>1, <2>2, <2>3, <2>4 DEF TypeOK
    <2>7. ClaimNotAhead'
      <3> SUFFICES ASSUME NEW w \in Workers, job'[w].pc # "idle"
                   PROVE job'[w].attempts <= queue'[job'[w].key].attempts
        OBVIOUS
      <3>1. job[w].key \in Keys /\ job[w].attempts <= queue[job[w].key].attempts
        BY <2>4 DEF TypeOK
      <3>2. queue[job[w].key].status # "none"
        BY <2>4
      <3> QED BY <2>1, <2>4, <3>1, <3>2
    <2> QED BY <2>5, <2>6, <2>7
  <1>5. ASSUME NEW w \in Workers, NEW k \in Keys, Claim(w, k) PROVE Rest'
    <2>1. /\ queue'[k].status = "leased" /\ queue'[k].attempts = NextAttempt(k)
          /\ queue[k].status \in {"available", "leased"}
          /\ \A j \in Keys \ {k} : queue'[j] = queue[j]
      BY <1>5 DEF Claim, Claimable, TypeOK, QueueRows
    <2>2. /\ job'[w].pc = "claimed" /\ job'[w].key = k
          /\ job'[w].attempts = NextAttempt(k)
          /\ \A v \in Workers \ {w} : job'[v] = job[v]
      BY <1>5 DEF Claim, TypeOK
    <2>3. \A j \in Keys : queue[j].attempts <= queue'[j].attempts /\ queue[j].attempts \in Nat
                         /\ queue'[j].attempts \in Nat
      BY <1>0, <2>1, NextAttemptBounds DEF TypeOK, QueueRows
    <2>4. \A v \in Workers : job[v].attempts \in Nat
      BY DEF TypeOK, Jobs
    <2>5. ClaimNotAhead'
      BY <1>0, <2>1, <2>2, <2>3, <2>4 DEF TypeOK
    <2> QED BY <1>5, <2>1, <2>2, <2>3, <2>5, AttemptsAssumption DEF Claim, TypeOK
  <1>6. ASSUME NEW w \in Workers, NEW k \in Keys, Process(w, k) PROVE Rest'
    <2>1. \A v \in Workers : /\ job'[v].key = job[v].key
                             /\ job'[v].attempts = job[v].attempts
                             /\ job'[v].pc # "idle" => job[v].pc # "idle"
                             /\ job'[v].pc = "processed" => v = w \/ job[v].pc = "processed"
      BY <1>6 DEF Process, TypeOK, Jobs
    <2>2. /\ job[w].pc # "idle" /\ job[w].key = k /\ event[k] # "none"
          /\ receipts' = receipts \cup {k}
          /\ UNCHANGED <<outbox, queue>>
      BY <1>6 DEF Process, TypeOK
    <2>3. k \in receipts \/ event[k] = "accepted"
      BY <2>2 DEF TypeOK
    <2>4. ReceiptMatchesEffect' /\ \A j \in Keys : event[j] # "none" => event'[j] # "none"
      BY <1>6, <2>2, <2>3 DEF Process, EffectDue, TypeOK
    <2> QED BY <2>1, <2>2, <2>4 DEF TypeOK
  <1>7. ASSUME NEW w \in Workers, NEW k \in Keys, Complete(w, k) PROVE Rest'
    <2>1. /\ \A v \in Workers \ {w} : job'[v] = job[v]
          /\ job'[w].pc \in {"idle", "failing"} /\ job[w].pc # "idle"
          /\ job'[w].pc = "failing" => /\ job'[w].key = job[w].key
                                      /\ job'[w].attempts = job[w].attempts
      BY <1>7 DEF Complete, Idle, TypeOK, Jobs
    <2>2. /\ k \in receipts
          /\ queue' = Completed(k)
          /\ UNCHANGED <<event, outbox, receipts, effects>>
      BY <1>7 DEF Complete, TypeOK
    <2>4. \A j \in Keys :
            /\ queue'[j].attempts = queue[j].attempts
            /\ \/ queue'[j].status = queue[j].status
               \/ j = k /\ queue[j].status = "leased" /\ queue'[j].status = "completed"
      BY <2>2, CompletedRows
    <2>5. ReceiptMatchesEffect'
      BY <2>2 DEF TypeOK
    <2>6. AcknowledgedAfterEffect'
      BY <2>1, <2>2, <2>4 DEF TypeOK
    <2>7. ClaimNotAhead'
      BY <2>1, <2>2, <2>4 DEF TypeOK
    <2>8. DeadExhausted'
      BY <2>2, <2>4 DEF TypeOK
    <2>9. RowsHaveEvents'
      BY <2>1, <2>2, <2>4 DEF TypeOK
    <2> QED BY <2>5, <2>6, <2>7, <2>8, <2>9
  <1>8. ASSUME NEW w \in Workers, NEW k \in Keys, CompleteFails(w, k) PROVE Rest'
    <2>1. \A v \in Workers : /\ job'[v].pc # "idle" => job[v].pc # "idle"
                             /\ job'[v].key = job[v].key
                             /\ job'[v].attempts = job[v].attempts
                             /\ job'[v].pc = "processed" => job[v].pc = "processed"
      BY <1>8 DEF CompleteFails, TypeOK, Jobs
    <2>2. /\ k \in receipts
          /\ queue' \in {queue, Completed(k)}
          /\ UNCHANGED <<event, outbox, receipts, effects>>
      BY <1>8 DEF CompleteFails, TypeOK
    <2>4. \A j \in Keys :
            /\ queue'[j].attempts = queue[j].attempts
            /\ \/ queue'[j].status = queue[j].status
               \/ j = k /\ queue[j].status = "leased" /\ queue'[j].status = "completed"
      BY <2>2, CompletedRows
    <2>5. ReceiptMatchesEffect'
      BY <2>2 DEF TypeOK
    <2>6. AcknowledgedAfterEffect'
      BY <2>1, <2>2, <2>4 DEF TypeOK
    <2>7. ClaimNotAhead'
      BY <2>1, <2>2, <2>4 DEF TypeOK
    <2>8. DeadExhausted'
      BY <2>2, <2>4 DEF TypeOK
    <2>9. RowsHaveEvents'
      BY <2>1, <2>2, <2>4 DEF TypeOK
    <2> QED BY <2>5, <2>6, <2>7, <2>8, <2>9
  <1>9. ASSUME NEW w \in Workers, NEW k \in Keys, Fail(w, k) PROVE Rest'
    <2>1. \A v \in Workers : job'[v].pc # "idle" => /\ v # w
                                                  /\ job'[v] = job[v]
      BY <1>9 DEF Fail, Idle, TypeOK, Jobs
    <2>2. /\ queue' = Failed(w, k)
          /\ UNCHANGED <<event, outbox, receipts, effects>>
      BY <1>9 DEF Fail
    <2>3. IsDead(w) => k \in Invalid \/ queue[k].attempts >= MaxAttempts
      <3>1. job[w].pc = "rejecting" => k \in Invalid
        BY <1>9 DEF Fail, InvalidNeverApplied
      <3>2. job[w].attempts >= MaxAttempts => queue[k].attempts >= MaxAttempts
        BY <1>9, AttemptsAssumption DEF Fail, TypeOK, Jobs, QueueRows
      <3> QED BY <3>1, <3>2 DEF IsDead
    <2>4. \A j \in Keys :
            /\ queue'[j].attempts = queue[j].attempts
            /\ \/ queue'[j].status = queue[j].status
               \/ /\ j = k /\ queue[j].status = "leased"
                  /\ (IsDead(w) /\ queue'[j].status = "dead") \/ queue'[j].status = "available"
      BY <2>2, FailedRows
    <2>5. ReceiptMatchesEffect'
      BY <2>2 DEF TypeOK
    <2>6. AcknowledgedAfterEffect'
      BY <2>1, <2>2, <2>4 DEF TypeOK
    <2>7. ClaimNotAhead'
      BY <2>1, <2>2, <2>4 DEF TypeOK
    <2>8. DeadExhausted'
      BY <2>2, <2>3, <2>4 DEF TypeOK
    <2>9. RowsHaveEvents'
      BY <2>1, <2>2, <2>4 DEF TypeOK
    <2> QED BY <2>5, <2>6, <2>7, <2>8, <2>9
  <1>10. ASSUME NEW w \in Workers, ProcessFails(w) \/ \E k \in Keys : ProcessRejects(w, k)
         PROVE Rest'
    <2>1. \A v \in Workers : /\ job'[v].pc # "idle" => job[v].pc # "idle"
                             /\ job'[v].key = job[v].key
                             /\ job'[v].attempts = job[v].attempts
                             /\ job'[v].pc = "processed" => job[v].pc = "processed"
      BY <1>10 DEF ProcessFails, ProcessRejects, TypeOK, Jobs
    <2>2. UNCHANGED <<event, outbox, queue, receipts, effects>>
      BY <1>10 DEF ProcessFails, ProcessRejects
    <2> QED BY <2>1, <2>2 DEF TypeOK
  <1>11. ASSUME NEW w \in Workers, Crash(w) PROVE Rest'
    BY <1>11 DEF Crash, Idle, TypeOK, Jobs, Steps
  <1>12. CASE UNCHANGED vars
    <2>1. /\ event' = event /\ outbox' = outbox /\ queue' = queue
          /\ receipts' = receipts /\ effects' = effects /\ job' = job
      BY <1>12 DEF vars
    <2> QED BY <1>0, <2>1
  <1>13. Rest'
    BY <1>1, <1>2, <1>3, <1>4, <1>5, <1>6, <1>7, <1>8, <1>9, <1>10, <1>11, <1>12
    DEF Next, WorkerStep
  <1> QED BY <1>0, <1>13

(* IInv holds in every reachable state. *)
THEOREM Invariance == Spec => []IInv
  BY InitInv, InvStep, PTL DEF Spec

(* The rows and the jobs always hold values the code can store. *)
THEOREM TypeCorrect == Spec => []TypeOK
  BY Invariance, PTL DEF IInv

(* Receipt, event status and effect agree in every reachable state, so the  *)
(* effect is applied at most once whatever is redelivered.                  *)
THEOREM EffectAtMostOnce == Spec => []ReceiptMatchesEffect
  BY Invariance, PTL DEF IInv

(* No acknowledgement precedes its effect. *)
THEOREM AcknowledgementFollowsEffect == Spec => []AcknowledgedAfterEffect
  BY Invariance, PTL DEF IInv

(* A message is given up only after max_attempts deliveries. *)
THEOREM DeadMeansExhausted == Spec => []DeadAfterMaxAttempts
  <1>1. IInv => DeadAfterMaxAttempts
    BY InvalidAssumption
    DEF IInv, DeadAfterMaxAttempts, DeadExhausted, AcknowledgedAfterEffect, InvalidNeverApplied
  <1> QED BY <1>1, Invariance, PTL

(* No step reopens a completed or dead row, because the three statements    *)
(* that change a row's status all demand an available or a leased one.      *)
LEMMA SettledStep ==
  IInv /\ [Next]_vars => \A k \in Keys : Settled(k) => queue'[k].status = queue[k].status
  <1> SUFFICES ASSUME IInv, [Next]_vars, NEW j \in Keys, Settled(j)
               PROVE queue'[j].status = queue[j].status
    OBVIOUS
  <1> USE DEF IInv, TypeOK, QueueRows, Settled
  <1>1. ASSUME NEW k \in Keys, LeaseExpires(k) \/ BackoffElapses(k)
        PROVE queue'[j].status = queue[j].status
    BY <1>1 DEF LeaseExpires, BackoffElapses
  <1>2. ASSUME NEW batch \in SUBSET Keys, DispatchBatch(batch)
        PROVE queue'[j].status = queue[j].status
    BY <1>2 DEF DispatchBatch
  <1>3. ASSUME NEW w \in Workers, NEW k \in Keys, Claim(w, k)
        PROVE queue'[j].status = queue[j].status
    BY <1>3 DEF Claim, Claimable
  <1>4. ASSUME NEW w \in Workers, NEW k \in Keys, Complete(w, k) \/ CompleteFails(w, k)
        PROVE queue'[j].status = queue[j].status
    BY <1>4 DEF Complete, CompleteFails, Completed
  <1>5. ASSUME NEW w \in Workers, NEW k \in Keys, Fail(w, k)
        PROVE queue'[j].status = queue[j].status
    BY <1>5 DEF Fail, Failed
  <1>6. ASSUME NEW k \in Keys, Accept(k) PROVE queue' = queue
    BY <1>6 DEF Accept
  <1>7. ASSUME NEW w \in Workers, NEW k \in Keys, Process(w, k) PROVE queue' = queue
    BY <1>7 DEF Process
  <1>8. ASSUME NEW w \in Workers, Crash(w) \/ ProcessFails(w) \/ \E k \in Keys : ProcessRejects(w, k)
        PROVE queue' = queue
    BY <1>8 DEF ProcessFails, ProcessRejects, Crash
  <1>9. UNCHANGED vars => queue' = queue
    BY DEF vars
  <1> QED BY <1>1, <1>2, <1>3, <1>4, <1>5, <1>6, <1>7, <1>8, <1>9 DEF Next, WorkerStep

(* A settled message is settled for good. *)
THEOREM SettlementIsFinal == Spec => SettledIsFinal
  <1>1. IInv /\ [Next]_vars =>
          [\A k \in Keys : Settled(k) => queue'[k].status = queue[k].status]_vars
    BY SettledStep
  <1> QED BY <1>1, Invariance, PTL DEF Spec, SettledIsFinal
-----------------------------------------------------------------------------
(* The refinement.  Accept maps to AcceptOnce, an effective Process to      *)
(* ApplyOnce, the commit of complete() to Acknowledge, and every other step *)
(* of dispatcher, queue and workers to a stutter.                           *)
LEMMA InboxInitStep == Init => Inbox!InboxInit
  BY DEF Init, NoRow, Inbox!InboxInit

LEMMA InboxNextStep == IInv /\ [Next]_vars => [Inbox!InboxNext]_(Inbox!inboxVars)
  <1> SUFFICES ASSUME IInv, [Next]_vars PROVE [Inbox!InboxNext]_(Inbox!inboxVars)
    OBVIOUS
  <1> DEFINE Accepted == {k \in Keys : event[k] # "none"}
             Acked == {k \in Keys : queue[k].status = "completed"}
             Same == Accepted' = Accepted /\ effects' = effects /\ Acked' = Acked
  <1> USE DEF IInv, TypeOK, Inbox!InboxNext, Inbox!inboxVars
  <1>0. Same => UNCHANGED Inbox!inboxVars
    OBVIOUS
  <1>1. ASSUME NEW k \in Keys, Accept(k) PROVE Inbox!InboxNext
    <2>1. Accepted' = Accepted \cup {k} /\ k \notin Accepted
      BY <1>1 DEF Accept
    <2>2. effects' = effects /\ Acked' = Acked
      BY <1>1 DEF Accept
    <2> QED BY <2>1, <2>2 DEF Inbox!AcceptOnce
  <1>2. ASSUME NEW w \in Workers, NEW k \in Keys, Process(w, k)
        PROVE Same \/ Inbox!InboxNext
    <2>1. Acked' = Acked
      BY <1>2 DEF Process
    <2>2. CASE EffectDue(k)
      <3>1. Accepted' = Accepted /\ k \in Accepted
        BY <1>2, <2>2 DEF Process, EffectDue
      <3>2. effects[k] = 0 /\ effects' = [effects EXCEPT ![k] = 1]
        BY <1>2, <2>2 DEF Process, EffectDue, ReceiptMatchesEffect
      <3> QED BY <2>1, <3>1, <3>2 DEF Inbox!ApplyOnce
    <2>3. CASE ~EffectDue(k)
      BY <1>2, <2>1, <2>3 DEF Process
    <2> QED BY <2>2, <2>3
  <1>3. ASSUME NEW w \in Workers, NEW k \in Keys, Complete(w, k) \/ CompleteFails(w, k)
        PROVE Same \/ Inbox!InboxNext
    <2>1. Accepted' = Accepted /\ effects' = effects /\ queue' \in {queue, Completed(k)}
      BY <1>3 DEF Complete, CompleteFails
    <2>2. CASE Acked' = Acked
      BY <2>1, <2>2
    <2>3. CASE Acked' # Acked
      <3>1. queue' = Completed(k) /\ queue[k].status = "leased"
        BY <2>1, <2>3 DEF Completed
      <3>2. Acked' = Acked \cup {k}
        BY <3>1 DEF Completed, QueueRows
      <3>3. effects[k] = 1
        BY <1>3 DEF Complete, CompleteFails, AcknowledgedAfterEffect, ReceiptMatchesEffect
      <3> QED BY <2>1, <3>2, <3>3 DEF Inbox!Acknowledge
    <2> QED BY <2>2, <2>3
  <1>4. ASSUME NEW w \in Workers, NEW k \in Keys, Claim(w, k) PROVE Same
    BY <1>4 DEF Claim, Claimable, QueueRows
  <1>5. ASSUME NEW w \in Workers, NEW k \in Keys, Fail(w, k) PROVE Same
    BY <1>5 DEF Fail, Failed, QueueRows
  <1>6. ASSUME NEW k \in Keys, LeaseExpires(k) \/ BackoffElapses(k) PROVE Same
    <2>1. \A j \in Keys : queue'[j].status = queue[j].status
      BY <1>6 DEF LeaseExpires, BackoffElapses, QueueRows
    <2> QED BY <1>6, <2>1 DEF LeaseExpires, BackoffElapses
  <1>7. ASSUME NEW batch \in SUBSET Keys, DispatchBatch(batch) PROVE Same
    BY <1>7 DEF DispatchBatch, NewRow
  <1>8. ASSUME NEW w \in Workers, Crash(w) \/ ProcessFails(w) \/ \E k \in Keys : ProcessRejects(w, k)
        PROVE Same
    BY <1>8 DEF ProcessFails, ProcessRejects, Crash
  <1>9. CASE UNCHANGED vars
    BY <1>9 DEF vars
  <1> QED BY <1>0, <1>1, <1>2, <1>3, <1>4, <1>5, <1>6, <1>7, <1>8, <1>9 DEF Next, WorkerStep

(* The queue, for any number of keys and workers, keeps the promise of the  *)
(* EffectInbox: at most one effect per accepted event, acknowledged after.  *)
THEOREM Refinement == Spec => ImplementsInbox
  BY InboxInitStep, InboxNextStep, Invariance, PTL DEF Spec, ImplementsInbox, Inbox!InboxSpec
=============================================================================
