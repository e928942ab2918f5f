----------------------- MODULE ConversationEnds_proofs -----------------------
(***************************************************************************)
(* How the processing of a message of ConversationProcessing may end, for  *)
(* every instance: EndsAreJustified, and from it OptOutHonoured wherever   *)
(* the limits of the context leave room for the opt-outs (elsewhere it is  *)
(* false: run opt_out_lost).  The argument follows a message from what a   *)
(* worker reads, over the context selected of it, to the execution it      *)
(* stores: the message is in it, or newer messages leave it no room.       *)
(***************************************************************************)
EXTENDS ConversationProcessing_proofs

Known == {m \in Messages : processing[m].status # "absent"}

AsksToStop(context) == \E m \in context : Kind[m] = "opt_out"

(* A worker has read messages of its conversation, its own among them, which *)
(* is in the context too once it has extracted; what it has extracted of an  *)
(* opt-out is one, and it fails for a message that was overtaken or for a    *)
(* conflict.                                                                 *)
DraftOK(w) ==
  /\ Reading(w) => /\ job[w].message \in draft[w].context
                   /\ draft[w].context \subseteq Ingested(ConvOf[job[w].message])
  /\ job[w].pc = "extracted" /\ AsksToStop(draft[w].context) => draft[w].outcome = "opt_out"
  /\ job[w].pc = "failing" => job[w].failure = "conflict" \/ Overtaken(job[w].message)

DraftsOK == \A w \in Workers : DraftOK(w)

ExecutionsOK ==
  \A e \in executions :
    /\ \A m \in e.context : ConvOf[m] = ConvOf[e.message]
    /\ e.outcome = "opt_out" => ContactOf[ConvOf[e.message]] \in doNotContact

EndsInv == IsFiniteSet(Known) /\ DraftsOK /\ ExecutionsOK /\ EndsAreJustified
-----------------------------------------------------------------------------
(* A step changes the row of one message and forgets none.                   *)
OneRow(m) ==
  \A n \in Messages :
    processing'[n] = processing[n] \/ (n = m /\ processing'[n].status # "absent")

(* A claim starts over and takes no row to a terminal state.                 *)
LEMMA ClaimIsHarmless ==
  ASSUME TypeOK, NEW w \in Workers, NEW n \in Messages, NEW t \in Tokens, ClaimLock(w, n, t)
  PROVE  /\ job'[w].pc = "claimed" /\ job'[w].message = n
         /\ \A v \in Workers : v # w => job'[v] = job[v] /\ draft'[v] = draft[v]
         /\ \A m \in Messages :
              processing'[m] = processing[m] \/ processing'[m].status = "processing"
         /\ OneRow(n)
  <1>1. /\ job'[w] = [pc |-> "claimed", message |-> n, token |-> t, failure |-> "none"]
        /\ \A v \in Workers : v # w => job'[v] = job[v]
        /\ \A m \in Messages : processing'[m] =
             IF m = n THEN [status |-> "processing", token |-> t] ELSE processing[m]
    BY Claimed
  <1>2. draft' = draft
    BY DEF ClaimLock
  <1>3. OneRow(n)
    BY <1>1 DEF OneRow
  <1> QED BY <1>1, <1>2, <1>3

LEMMA OwnRowOnly ==
  ASSUME LeaseInv, NEW w \in Workers,
         Prepare(w) \/ Extract(w) \/ Finalize(w) \/ RecordFailure(w)
  PROVE  OneRow(job[w].message)
  <1>1. TypeOK /\ Working(w) /\ Outcome(w)
    BY WorkKinds DEF LeaseInv
  <1>2. CASE UNCHANGED processing
    BY <1>2 DEF OneRow
  <1>3. ASSUME NEW status \in ProcessingStatus, status # "absent",
               NEW state \in ConversationState, Ends(w, status, state)
        PROVE  OneRow(job[w].message)
    <2>1. \A m \in Messages : processing'[m] =
            IF m = job[w].message THEN [status |-> status, token |-> None] ELSE processing[m]
      BY <1>1, <1>3, Finished DEF Ends
    <2> QED BY <1>3, <2>1 DEF OneRow
  <1>4. "completed" \in Settled /\ Settled \subseteq ProcessingStatus \ {"absent"}
    BY DEF Settled, ProcessingStatus, Terminal
  <1>5. CASE Applies(w)
    BY <1>1, <1>3, <1>4, <1>5, Applied
  <1>6. ASSUME NEW status \in Settled, Settle(w, status)
        PROVE  OneRow(job[w].message)
    BY <1>1, <1>3, <1>4, <1>6, Ended
  <1> QED BY <1>1, <1>2, <1>5, <1>6 DEF Outcome, GiveUp, RollBack, ReadContext, rows

LEMMA OneRowChanges ==
  ASSUME LeaseInv, [Next]_vars
  PROVE  \E m : OneRow(m)
  <1>1. TypeOK
    BY DEF LeaseInv
  <1>2. ASSUME NEW m \in Messages, Ingest(m) PROVE OneRow(m)
    <2>1. processing' = [processing EXCEPT ![m] = [processing[m] EXCEPT !.status = "pending"]]
      BY <1>2 DEF Ingest
    <2>2. [processing[m] EXCEPT !.status = "pending"].status = "pending"
      BY <1>1 DEF TypeOK, Rows
    <2> QED BY <1>1, <2>1, <2>2 DEF TypeOK, OneRow
  <1>3. ASSUME NEW w \in Workers, NEW n \in Messages, NEW t \in Tokens, ClaimLock(w, n, t)
        PROVE  OneRow(n)
    BY <1>1, <1>3, ClaimIsHarmless
  <1>4. CASE UNCHANGED processing
    BY <1>4 DEF OneRow
  <1>5. CASE \/ \E w \in Workers : ClaimScan(w) \/ ClaimNothing(w) \/ Abandon(w)
             \/ \E t \in Tokens : LeaseExpires(t)
             \/ \E n \in Ageing : GrowsOld(n)
             \/ UNCHANGED vars
    BY <1>4, <1>5 DEF ClaimScan, ClaimNothing, Abandon, LeaseExpires, GrowsOld, vars, rows
  <1> QED BY <1>2, <1>3, <1>5, OwnRowOnly DEF Next, Step

LEMMA TimePasses ==
  ASSUME LeaseInv, [Next]_vars
  PROVE  aged \in Nat /\ aged' \in Nat /\ aged <= aged'
  <1>1. TypeOK /\ aged \in Nat
    BY ConstantsAssumption DEF LeaseInv, TypeOK, None
  <1>2. ASSUME NEW m \in Ageing, GrowsOld(m) PROVE aged' \in Nat /\ aged <= aged'
    <2>1. m \in Nat /\ aged' = m /\ m > aged
      BY <1>2, ConstantsAssumption DEF GrowsOld
    <2> QED BY <1>1, <2>1
  <1>3. ASSUME NEW w \in Workers,
               Prepare(w) \/ Extract(w) \/ Finalize(w) \/ RecordFailure(w)
        PROVE  aged' = aged
    <2>1. Outcome(w)
      BY <1>3, WorkKinds
    <2> QED BY <2>1 DEF Outcome, GiveUp, RollBack, ReadContext, Settle, Applies, Apply, Finish, rows
  <1>4. CASE \/ \E m \in Messages : Ingest(m)
             \/ \E w \in Workers : \/ ClaimScan(w) \/ ClaimNothing(w) \/ Abandon(w)
                                  \/ \E m \in Messages, t \in Tokens : ClaimLock(w, m, t)
             \/ \E t \in Tokens : LeaseExpires(t)
             \/ UNCHANGED vars
    <2>1. aged' = aged
      BY <1>4 DEF Ingest, ClaimScan, ClaimNothing, Abandon, ClaimLock, LeaseExpires, vars, rows
    <2> QED BY <1>1, <2>1
  <1> QED BY <1>1, <1>2, <1>3, <1>4 DEF Next, Step

(* More messages and more time do not make room.                             *)
LEMMA CrowdedStays ==
  ASSUME NEW newer, NEW more, newer \subseteq more, IsFiniteSet(more),
         NEW m \in Messages, aged \in Nat, aged' \in Nat, aged <= aged', Crowded(newer, m)
  PROVE  Crowded(more, m) /\ Crowded(more, m)'
  <1>1. newer # {} /\ more # {} /\ m \in Nat
    BY ConstantsAssumption DEF Crowded
  <1>2. CASE Cardinality(newer) >= Window
    <2>1. IsFiniteSet(newer) /\ Cardinality(newer) <= Cardinality(more)
      BY FS_Subset
    <2>2. Cardinality(newer) \in Nat /\ Cardinality(more) \in Nat
      BY <2>1, FS_CardinalityType
    <2>3. Cardinality(more) >= Window
      BY <1>2, <2>1, <2>2, ConstantsAssumption
    <2> QED BY <1>1, <2>3 DEF Crowded
  <1>3. CASE newer \cup {m} \notin FitTogether
    <2>1. newer \cup {m} \in SUBSET (more \cup {m})
      OBVIOUS
    <2>2. more \cup {m} \notin FitTogether
      BY <1>3, <2>1, ConstantsAssumption
    <2> QED BY <1>1, <2>2 DEF Crowded
  <1>4. CASE m <= aged
    <2>1. m <= aged'
      BY <1>1, <1>4
    <2> QED BY <1>1, <1>4, <2>1 DEF Crowded
  <1> QED BY <1>2, <1>3, <1>4 DEF Crowded

(* So the known messages stay finitely many, and a message that was overtaken *)
(* stays overtaken.                                                          *)
LEMMA KnownGrows ==
  ASSUME LeaseInv, IsFiniteSet(Known), [Next]_vars
  PROVE  /\ Known \subseteq Known' /\ IsFiniteSet(Known)'
         /\ \A c \in Conversations : Ingested(c) \subseteq Ingested(c)'
         /\ \A m \in Messages : Overtaken(m) => Overtaken(m)'
  <1>1. PICK m : OneRow(m)
    BY OneRowChanges
  <1>2. Known \subseteq Known' /\ Known' \subseteq Known \cup {m}
    BY <1>1 DEF OneRow, Known
  <1>3. IsFiniteSet(Known)'
    <2>1. IsFiniteSet(Known \cup {m})
      BY FS_AddElement
    <2> QED BY <1>2, <2>1, FS_Subset
  <1>4. ASSUME NEW n \in Messages, Overtaken(n) PROVE Overtaken(n)'
    <2> DEFINE newer == NewerIn(Ingested(ConvOf[n]), n)
    <2>1. newer \subseteq newer' /\ newer' \subseteq Known'
      BY <1>2 DEF Ingested, Known, NewerIn
    <2>2. PICK more : more = newer'
      OBVIOUS
    <2>3. IsFiniteSet(more) /\ newer \subseteq more
      BY <1>3, <2>1, <2>2, FS_Subset
    <2>4. Crowded(newer, n)
      BY <1>4 DEF Overtaken
    <2> HIDE DEF newer
    <2>5. Crowded(more, n)'
      BY <2>3, <2>4, CrowdedStays, TimePasses
    <2> QED BY <2>2, <2>5 DEF Overtaken, Crowded, newer
  <1>5. \A c \in Conversations : Ingested(c) \subseteq Ingested(c)'
    BY <1>2 DEF Ingested, Known
  <1> QED BY <1>2, <1>3, <1>4, <1>5
-----------------------------------------------------------------------------
(* What a worker makes of its own memory.                                    *)
Reads(w) == HoldsRow(w) /\ job[w].pc = "claimed" /\ ReadContext(w)

Extracts(w, context) ==
  /\ job[w].pc = "prepared" /\ job[w].message \in context
  /\ \E outcome \in OutcomesOf(context) :
       draft' = [draft EXCEPT ![w] = [@ EXCEPT !.context = context, !.outcome = outcome]]
  /\ job' = [job EXCEPT ![w].pc = "extracted"]

MissesMessage(w, context) ==
  /\ job[w].pc = "prepared" /\ job[w].message \notin context
  /\ RollBack(w, "invalid_extraction")

UsesContext(w) ==
  \E context \in Selections(draft[w].context) : Extracts(w, context) \/ MissesMessage(w, context)

LEMMA LocalKinds ==
  ASSUME NEW w \in Workers,
         Prepare(w) \/ Extract(w) \/ Finalize(w) \/ RecordFailure(w)
  PROVE  GoIdle(w) \/ RollBack(w, "conflict") \/ Reads(w) \/ UsesContext(w)
  <1>1. ASSUME NEW status, CompleteBlocked(w, status)
        PROVE  GoIdle(w) \/ RollBack(w, "conflict")
    BY <1>1 DEF CompleteBlocked
  <1>2. CASE Prepare(w)
    BY <1>1, <1>2 DEF Prepare, Reads
  <1>3. CASE Extract(w)
    BY <1>3 DEF Extract, UsesContext, Extracts, MissesMessage
  <1>4. CASE Finalize(w)
    <2>1. FinalizeDuplicate(w) => GoIdle(w) \/ RollBack(w, "conflict")
      BY <1>1 DEF FinalizeDuplicate, GiveUp
    <2>2. FinalizeNew(w) => GoIdle(w) \/ RollBack(w, "conflict")
      <3> SUFFICES ASSUME NEW handedOff, NEW profileChanged,
                          \/ GiveUp(w) \/ RollBack(w, "conflict")
                          \/ Apply(w, handedOff, profileChanged)
                   PROVE  GoIdle(w) \/ RollBack(w, "conflict")
        BY DEF FinalizeNew
      <3> QED BY DEF GiveUp, Apply
    <2> QED BY <1>1, <1>4, <2>1, <2>2 DEF Finalize
  <1>5. CASE RecordFailure(w)
    BY <1>5 DEF RecordFailure
  <1> QED BY <1>2, <1>3, <1>4, <1>5

(* A message that is not selected has newer ones that leave it no room.      *)
LEMMA LeftOutIsCrowded ==
  ASSUME NEW messages \in SUBSET Messages, IsFiniteSet(messages), aged \in Nat,
         NEW context \in Selections(messages), NEW m \in messages, m \notin context
  PROVE  Crowded(NewerIn(messages, m), m)
  <1> DEFINE newer == NewerIn(messages, m)
             young == {n \in messages : n > aged}
             newest == {n \in messages : NewerIn(messages, n) = {}}
             considered == IF young # {} THEN young ELSE newest
  <1>1. messages \subseteq Nat /\ m \in Nat
    BY ConstantsAssumption
  <1>2. Eligible(messages) = {n \in considered : Cardinality(NewerIn(considered, n)) < Window}
    BY DEF Eligible
  <1>3. CASE m \notin considered
    <2>1. CASE young # {}
      <3>1. PICK n \in messages : n > aged
        BY <2>1
      <3>2. m <= aged /\ n > m
        BY <1>1, <1>3, <2>1, <3>1
      <3> QED BY <3>1, <3>2 DEF Crowded, NewerIn
    <2>2. CASE young = {}
      <3>1. newer # {} /\ m <= aged
        BY <1>1, <1>3, <2>2
      <3> QED BY <3>1 DEF Crowded
    <2> QED BY <2>1, <2>2
  <1>4. CASE m \in considered /\ m \notin Eligible(messages)
    <2> DEFINE rivals == NewerIn(considered, m)
    <2>1. rivals \subseteq newer /\ IsFiniteSet(newer)
      BY FS_Subset DEF NewerIn
    <2>2. ~(Cardinality(rivals) < Window)
      BY <1>2, <1>4
    <2>3. /\ IsFiniteSet(rivals) /\ Cardinality(rivals) <= Cardinality(newer)
          /\ Cardinality(rivals) \in Nat /\ Cardinality(newer) \in Nat
      BY <2>1, FS_Subset, FS_CardinalityType
    <2> HIDE DEF rivals, newer
    <2>4. Cardinality(newer) >= Window /\ Cardinality(newer) # 0
      BY <2>2, <2>3, ConstantsAssumption
    <2>5. newer # {}
      BY <2>4, FS_EmptySet
    <2> QED BY <2>4, <2>5 DEF Crowded, newer
  <1>5. CASE m \in Eligible(messages)
    <2> DEFINE before == NewerIn(context, m)
    <2>1. before # {} /\ before \cup {m} \notin FitTogether
      BY <1>5 DEF Selections, HasRoom
    <2>2. before \subseteq newer
      BY SelectedAmong DEF NewerIn
    <2>3. before \cup {m} \in SUBSET (newer \cup {m})
      BY <2>2
    <2>4. newer \cup {m} \notin FitTogether
      BY <2>1, <2>3, ConstantsAssumption
    <2> QED BY <2>1, <2>2, <2>4 DEF Crowded
  <1> QED BY <1>3, <1>4, <1>5

LEMMA DraftsStep ==
  ASSUME LeaseInv, IsFiniteSet(Known), DraftsOK, [Next]_vars
  PROVE  DraftsOK'
  <1>1. TypeOK
    BY DEF LeaseInv
  <1>2. ASSUME NEW w \in Workers, DraftOK(w)',
               \A v \in Workers : v # w => job'[v] = job[v] /\ draft'[v] = draft[v]
        PROVE  DraftsOK'
    <2> SUFFICES ASSUME NEW v \in Workers, v # w PROVE DraftOK(v)'
      BY <1>2 DEF DraftsOK
    <2>1. job'[v] = job[v] /\ draft'[v] = draft[v] /\ DraftOK(v)
      BY <1>2 DEF DraftsOK
    <2>2. CASE Working(v)
      <3>1. PICK m \in Messages : m = job[v].message
        BY <1>1, <2>2 DEF TypeOK
      <3>2. /\ m = job'[v].message /\ (Overtaken(m) => Overtaken(m)')
            /\ Ingested(ConvOf[m]) \subseteq Ingested(ConvOf[m])'
        BY <2>1, <3>1, KnownGrows, ConstantsAssumption
      <3> QED BY <2>1, <3>1, <3>2 DEF DraftOK, Reading
    <2> QED BY <2>1, <2>2 DEF DraftOK, Working, Reading
  <1>3. ASSUME UNCHANGED <<job, draft>> PROVE DraftsOK'
    <2> SUFFICES ASSUME NEW v \in Workers PROVE DraftOK(v)'
      BY DEF DraftsOK
    <2>1. job' = job /\ draft' = draft /\ DraftOK(v)
      BY <1>3 DEF DraftsOK
    <2>2. CASE Working(v)
      <3>1. PICK m \in Messages : m = job[v].message
        BY <1>1, <2>2 DEF TypeOK
      <3>2. /\ m = job'[v].message /\ (Overtaken(m) => Overtaken(m)')
            /\ Ingested(ConvOf[m]) \subseteq Ingested(ConvOf[m])'
        BY <2>1, <3>1, KnownGrows, ConstantsAssumption
      <3> QED BY <2>1, <3>1, <3>2 DEF DraftOK, Reading
    <2> QED BY <2>1, <2>2 DEF DraftOK, Working, Reading
  <1>4. ASSUME NEW w \in Workers, ClaimScan(w) \/ ClaimNothing(w) \/ Abandon(w) PROVE DraftsOK'
    <2>1. PICK next : job' = [job EXCEPT ![w] = next] /\ next.pc \in {"idle", "scanned"}
      <3>1. CASE ClaimScan(w)
        <4>1. job' = [job EXCEPT ![w] = [job[w] EXCEPT !.pc = "scanned"]]
          BY <3>1 DEF ClaimScan
        <4>2. [job[w] EXCEPT !.pc = "scanned"].pc = "scanned"
          BY <1>1 DEF TypeOK, Jobs
        <4> QED BY <4>1, <4>2
      <3>2. CASE ClaimNothing(w) \/ Abandon(w)
        <4>1. job' = [job EXCEPT ![w] = Idle]
          BY <3>2 DEF ClaimNothing, Abandon
        <4>2. Idle.pc = "idle"
          BY DEF Idle
        <4> QED BY <4>1, <4>2
      <3> QED BY <1>4, <3>1, <3>2
    <2>2. \A v \in Workers : v # w => job'[v] = job[v] /\ draft'[v] = draft[v]
      BY <1>1, <1>4, <2>1 DEF ClaimScan, ClaimNothing, Abandon, TypeOK
    <2>3. job'[w].pc \in {"idle", "scanned"}
      BY <1>1, <2>1 DEF TypeOK
    <2> QED BY <1>2, <2>2, <2>3 DEF DraftOK, Reading
  <1>5. ASSUME NEW w \in Workers, NEW m \in Messages, NEW t \in Tokens, ClaimLock(w, m, t)
        PROVE  DraftsOK'
    <2>1. /\ job'[w].pc = "claimed"
          /\ \A v \in Workers : v # w => job'[v] = job[v] /\ draft'[v] = draft[v]
      BY <1>1, <1>5, ClaimIsHarmless
    <2> QED BY <1>2, <2>1 DEF DraftOK, Reading
  <1>6. ASSUME NEW w \in Workers,
               Prepare(w) \/ Extract(w) \/ Finalize(w) \/ RecordFailure(w)
        PROVE  DraftsOK'
    <2>1. Working(w)
      BY <1>6 DEF Prepare, Extract, Finalize, RecordFailure, Working
    <2>2. CASE GoIdle(w)
      <3>1. job'[w].pc = "idle"
        BY <1>1, <2>2, Idled DEF Idle
      <3> QED BY <1>1, <1>2, <2>2, <3>1, Idled DEF DraftOK, Reading
    <2>3. CASE RollBack(w, "conflict")
      <3>1. "conflict" \in Failures \ {"none"}
        BY DEF Failures
      <3>2. /\ job'[w].pc = "failing" /\ job'[w].failure = "conflict"
            /\ \A v \in Workers : v # w => job'[v] = job[v] /\ draft'[v] = draft[v]
        BY <1>1, <2>1, <2>3, <3>1, RolledBack
      <3> QED BY <1>2, <3>2 DEF DraftOK, Reading
    <2>4. CASE Reads(w)
      <3>1. /\ job'[w].message = job[w].message
            /\ job'[w].pc = "prepared"
            /\ \A v \in Workers : v # w => job'[v] = job[v] /\ draft'[v] = draft[v]
        BY <1>1, <2>4, ContextRead DEF Reads, TypeOK, Jobs
      <3>2. PICK m \in Messages : m = job[w].message
        BY <1>1, <2>1 DEF TypeOK
      <3>3. draft'[w].context = Ingested(ConvOf[m])
        BY <1>1, <2>4, <3>2 DEF Reads, ReadContext, TypeOK
      <3>4. m \in Ingested(ConvOf[m])
        BY <2>4, <3>2 DEF Reads, HoldsRow, Ingested
      <3>5. Ingested(ConvOf[m]) \subseteq Ingested(ConvOf[m])'
        BY <3>2, KnownGrows, ConstantsAssumption
      <3> QED BY <1>2, <3>1, <3>2, <3>3, <3>4, <3>5 DEF DraftOK
    <2>5. ASSUME NEW context \in Selections(draft[w].context), Extracts(w, context)
          PROVE  DraftsOK'
      <3>1. PICK outcome \in OutcomesOf(context) : draft' =
              [draft EXCEPT ![w] = [draft[w] EXCEPT !.context = context, !.outcome = outcome]]
        BY <2>5 DEF Extracts
      <3>2. AsksToStop(context) => outcome = "opt_out"
        BY <3>1 DEF OutcomesOf, AsksToStop
      <3>3. draft'[w].context = context /\ draft'[w].outcome = outcome
        <4>1. draft'[w] = [draft[w] EXCEPT !.context = context, !.outcome = outcome]
          BY <1>1, <3>1 DEF TypeOK
        <4> QED BY <1>1, <4>1 DEF TypeOK, Drafts
      <3>4. job'[w].message = job[w].message /\ job'[w].pc = "extracted"
        <4>1. job' = [job EXCEPT ![w] = [job[w] EXCEPT !.pc = "extracted"]]
          BY <2>5 DEF Extracts
        <4>2. job'[w] = [job[w] EXCEPT !.pc = "extracted"]
          BY <1>1, <4>1 DEF TypeOK
        <4> QED BY <1>1, <4>2 DEF TypeOK, Jobs
      <3>5. \A v \in Workers : v # w => job'[v] = job[v] /\ draft'[v] = draft[v]
        BY <1>1, <2>5, <3>1 DEF Extracts, TypeOK
      <3>6. PICK m \in Messages : m = job[w].message
        BY <1>1, <2>1 DEF TypeOK
      <3>7. context \subseteq Ingested(ConvOf[m]) /\ m \in context
        BY <2>5, <3>6, SelectedAmong DEF DraftsOK, DraftOK, Reading, Extracts
      <3>8. Ingested(ConvOf[m]) \subseteq Ingested(ConvOf[m])'
        BY <3>6, KnownGrows, ConstantsAssumption
      <3> QED BY <1>2, <3>2, <3>3, <3>4, <3>5, <3>6, <3>7, <3>8 DEF DraftOK
    <2>6. ASSUME NEW context \in Selections(draft[w].context), MissesMessage(w, context)
          PROVE  DraftsOK'
      <3>1. "invalid_extraction" \in Failures \ {"none"}
        BY DEF Failures
      <3>2. /\ job'[w].pc = "failing" /\ job'[w].message = job[w].message
            /\ \A v \in Workers : v # w => job'[v] = job[v] /\ draft'[v] = draft[v]
        BY <1>1, <2>1, <2>6, <3>1, RolledBack DEF MissesMessage
      <3>3. PICK m \in Messages : m = job[w].message
        BY <1>1, <2>1 DEF TypeOK
      <3>4. Overtaken(m)
        <4> DEFINE read == draft[w].context
                   known == Ingested(ConvOf[m])
        <4>1. m \in read /\ read \subseteq known /\ m \notin context
          BY <2>6, <3>3 DEF MissesMessage, DraftsOK, DraftOK, Reading
        <4>2. known \subseteq Messages /\ IsFiniteSet(known)
          <5>1. known \subseteq Known
            BY DEF Ingested, Known
          <5> QED BY <5>1, FS_Subset DEF Known
        <4>3. read \in SUBSET Messages /\ IsFiniteSet(read)
          BY <4>1, <4>2, FS_Subset
        <4>4. Crowded(NewerIn(read, m), m)
          BY <2>6, <4>1, <4>3, TimePasses, LeftOutIsCrowded
        <4>5. NewerIn(read, m) \subseteq NewerIn(known, m) /\ IsFiniteSet(NewerIn(known, m))
          BY <4>1, <4>2, FS_Subset DEF NewerIn
        <4> HIDE DEF read, known
        <4>6. Crowded(NewerIn(known, m), m)
          BY <4>4, <4>5, TimePasses, CrowdedStays
        <4> QED BY <4>6 DEF Overtaken, known
      <3>5. Overtaken(m)'
        BY <3>4, KnownGrows
      <3> QED BY <1>2, <3>2, <3>3, <3>5 DEF DraftOK, Reading
    <2> QED BY <1>6, <2>2, <2>3, <2>4, <2>5, <2>6, LocalKinds DEF UsesContext
  <1>7. CASE \/ \E m \in Messages : Ingest(m)
             \/ \E t \in Tokens : LeaseExpires(t)
             \/ \E m \in Ageing : GrowsOld(m)
             \/ UNCHANGED vars
    BY <1>3, <1>7 DEF Ingest, LeaseExpires, GrowsOld, vars, local
  <1> QED BY <1>4, <1>5, <1>6, <1>7 DEF Next, Step
-----------------------------------------------------------------------------
(* The extraction of an applied opt-out is stored with its registration.     *)
LEMMA ExecutionsStep ==
  ASSUME LeaseInv, DraftsOK, ExecutionsOK, [Next]_vars
  PROVE  ExecutionsOK' /\ doNotContact \subseteq doNotContact'
  <1>1. CASE Quiet
    BY <1>1 DEF Quiet, business, ExecutionsOK
  <1>2. ASSUME NEW w \in Workers, Applies(w)
        PROVE  ExecutionsOK' /\ doNotContact \subseteq doNotContact'
    <2>1. job[w].pc = "extracted" /\ DraftOK(w)
      BY <1>2 DEF Applies, MayApply, DraftsOK
    <2>2. PICK m : m = job[w].message
      OBVIOUS
    <2>3. PICK new : /\ executions' = executions \cup {new}
                     /\ new.message = m /\ new.context = draft[w].context
                     /\ new.outcome = draft[w].outcome
      <3> DEFINE stored == [context |-> draft[w].context, outcome |-> draft[w].outcome,
                            message |-> job[w].message]
      <3>1. executions' = executions \cup {stored}
        BY <1>2 DEF Applies, Apply
      <3>2. /\ stored.message = m /\ stored.context = draft[w].context
            /\ stored.outcome = draft[w].outcome
        BY <2>2
      <3> QED BY <3>1, <3>2
    <2>4. /\ doNotContact \subseteq doNotContact'
          /\ new.outcome = "opt_out" => ContactOf[ConvOf[m]] \in doNotContact'
      BY <1>2, <2>2, <2>3 DEF Applies, Apply
    <2>5. \A n \in new.context : ConvOf[n] = ConvOf[new.message]
      BY <2>1, <2>2, <2>3 DEF DraftOK, Reading, Ingested
    <2> QED BY <2>3, <2>4, <2>5 DEF ExecutionsOK
  <1> QED BY <1>1, <1>2, QuietOrApplies

(* Registrations and executions stay, and a handoff ends with an opt-out.    *)
LEMMA BusinessGrows ==
  ASSUME LeaseInv, [Next]_vars
  PROVE  /\ doNotContact \subseteq doNotContact' /\ executions \subseteq executions'
         /\ \A c \in Conversations :
              c \in handoff => c \in handoff' \/ ContactOf[c] \in doNotContact'
  <1>1. CASE Quiet
    BY <1>1 DEF Quiet, business
  <1>2. ASSUME NEW w \in Workers, Applies(w)
        PROVE  /\ doNotContact \subseteq doNotContact' /\ executions \subseteq executions'
               /\ \A c \in Conversations :
                    c \in handoff => c \in handoff' \/ ContactOf[c] \in doNotContact'
    <2>1. executions \subseteq executions'
      BY <1>2 DEF Applies, Apply
    <2>2. PICK c \in Conversations :
            \/ OptOutApplied(c)
            \/ ~OptedOut(w) /\ (HandoffApplied(c) \/ AnswerApplied(c))
      BY <1>2, ApplicationStory
    <2> QED BY <2>1, <2>2 DEF OptOutApplied, HandoffApplied, AnswerApplied
  <1> QED BY <1>1, <1>2, QuietOrApplies
-----------------------------------------------------------------------------
JustifiedEnd(m) ==
  LET status == processing[m].status
      stopped == ContactOf[ConvOf[m]] \in doNotContact
  IN  /\ status = "completed" =>
           \E e \in executions : m \in e.context /\ (Kind[m] = "opt_out" => stopped)
      /\ status = "blocked_do_not_contact" => stopped
      /\ status = "blocked_handoff" =>
           (ConvOf[m] \in handoff /\ Kind[m] # "opt_out") \/ stopped
      /\ status = "invalid_extraction" => Overtaken(m)
      /\ status # "permanent_failure"

(* What justifies an end is not taken back.                                  *)
LEMMA JustificationLasts ==
  ASSUME LeaseInv, EndsInv, [Next]_vars, NEW m \in Messages,
         processing'[m] = processing[m]
  PROVE  JustifiedEnd(m)'
  <1>1. JustifiedEnd(m) /\ ConvOf[m] \in Conversations
    BY ConstantsAssumption DEF EndsInv, EndsAreJustified, JustifiedEnd
  <1>2. Overtaken(m) => Overtaken(m)'
    BY KnownGrows DEF EndsInv
  <1> QED BY <1>1, <1>2, BusinessGrows DEF JustifiedEnd

(* The end without an application: business rows stay as the worker read them. *)
LEMMA BlockedEnd ==
  ASSUME TypeOK, NEW w \in Workers, NEW status, NEW m \in Messages, m = job[w].message,
         CompleteBlocked(w, status) \/ Finish(w, status, conversation[ConvOf[m]].state)
  PROVE  processing'[m] = processing[m] \/ processing'[m].status = status
  <1>1. CASE RollBack(w, "conflict")
    BY <1>1 DEF RollBack, rows
  <1>2. CASE Finish(w, status, conversation[ConvOf[m]].state)
    BY <1>2 DEF Finish, TypeOK
  <1> QED BY <1>1, <1>2 DEF CompleteBlocked

(* Why a worker ends the processing of its message.                          *)
LEMMA SettlingIsJustified ==
  ASSUME LeaseInv, EndsInv, [Next]_vars, NEW w \in Workers,
         Prepare(w) \/ Extract(w) \/ Finalize(w) \/ RecordFailure(w),
         NEW m \in Messages, m = job[w].message
  PROVE  JustifiedEnd(m)'
  <1>1. TypeOK /\ ConvOf[m] \in Conversations
    BY ConstantsAssumption DEF LeaseInv
  <1>2. CASE processing'[m] = processing[m]
    BY <1>2, JustificationLasts
  <1>3. ASSUME NEW status, CompleteBlocked(w, status)
        PROVE  \/ processing'[m] = processing[m]
               \/ processing'[m].status = status /\ UNCHANGED business
    <2>1. CASE RollBack(w, "conflict")
      BY <2>1 DEF RollBack, rows
    <2>2. CASE UNCHANGED business
      BY <1>1, <1>3, <2>2, BlockedEnd
    <2> QED BY <1>3, <2>1, <2>2 DEF CompleteBlocked
  <1>4. ASSUME CompleteBlocked(w, "blocked_do_not_contact"), OptedOut(w)
        PROVE  JustifiedEnd(m)'
    BY <1>2, <1>3, <1>4 DEF OptedOut, JustifiedEnd, business
  <1>5. ASSUME CompleteBlocked(w, "blocked_handoff"), Paused(w), Kind[m] # "opt_out"
        PROVE  JustifiedEnd(m)'
    BY <1>2, <1>3, <1>5 DEF Paused, JustifiedEnd, business
  <1>6. ASSUME CompleteBlocked(w, "completed"), NEW e \in executions, m \in e.context,
               Kind[m] = "opt_out" => ContactOf[ConvOf[m]] \in doNotContact
        PROVE  JustifiedEnd(m)'
    BY <1>2, <1>3, <1>6 DEF JustifiedEnd, business
  <1>7. CASE Prepare(w)
    <2>1. RollBack(w, "conflict") \/ ReadContext(w) => processing'[m] = processing[m]
      BY DEF RollBack, ReadContext, rows
    <2>2. BlockedByHandoff(w) => Paused(w) /\ Kind[m] # "opt_out"
      BY DEF BlockedByHandoff
    <2> QED BY <1>2, <1>4, <1>5, <1>7, <2>1, <2>2 DEF Prepare
  <1>8. CASE Extract(w)
    BY <1>2, <1>8 DEF Extract, RollBack, rows
  <1>9. CASE Finalize(w)
    <2>1. /\ job[w].pc = "extracted" /\ m \in draft[w].context
          /\ Kind[m] = "opt_out" => draft[w].outcome = "opt_out"
      BY <1>9 DEF Finalize, EndsInv, DraftsOK, DraftOK, AsksToStop, Reading
    <2>2. CASE RollBack(w, "conflict") \/ GiveUp(w)
      BY <1>2, <2>2 DEF RollBack, GiveUp, rows
    <2>3. CASE draft[w].outcome # "opt_out" /\ OptedOut(w)
               /\ CompleteBlocked(w, "blocked_do_not_contact")
      BY <1>4, <2>3
    <2>4. CASE draft[w].outcome # "opt_out" /\ Paused(w)
               /\ CompleteBlocked(w, "blocked_handoff")
      BY <1>5, <2>1, <2>4
    <2>5. CASE Duplicates(w) # {} /\ FinalizeDuplicate(w)
      <3>1. CASE GiveUp(w)
        BY <2>2, <3>1
      <3>2. CASE /\ \A e \in Duplicates(w) : e.outcome = draft[w].outcome
                 /\ CompleteBlocked(w, "completed")
        <4>1. PICK e \in executions :
                e.context = draft[w].context /\ e.outcome = draft[w].outcome
          BY <2>5, <3>2 DEF Duplicates
        <4>2. Kind[m] = "opt_out" => ContactOf[ConvOf[m]] \in doNotContact
          BY <2>1, <4>1 DEF EndsInv, ExecutionsOK
        <4> QED BY <1>6, <2>1, <3>2, <4>1, <4>2
      <3> QED BY <2>5, <3>1, <3>2 DEF FinalizeDuplicate
    <2>6. ASSUME NEW handedOff, NEW profileChanged, Apply(w, handedOff, profileChanged)
          PROVE  JustifiedEnd(m)'
      <3>1. processing'[m].status = "completed"
        BY <1>1, <2>6 DEF Apply, Finish, TypeOK
      <3>2. PICK new \in executions' : new.context = draft[w].context
        <4> DEFINE stored == [context |-> draft[w].context, outcome |-> draft[w].outcome,
                              message |-> job[w].message]
        <4>1. executions' = executions \cup {stored}
          BY <2>6 DEF Apply
        <4>2. stored.context = draft[w].context
          OBVIOUS
        <4> QED BY <4>1, <4>2
      <3>3. Kind[m] = "opt_out" => ContactOf[ConvOf[m]] \in doNotContact'
        BY <2>1, <2>6 DEF Apply
      <3> QED BY <2>1, <3>1, <3>2, <3>3 DEF JustifiedEnd
    <2>7. FinalizeNew(w) => \/ RollBack(w, "conflict") \/ GiveUp(w)
                            \/ \E handedOff, profileChanged : Apply(w, handedOff, profileChanged)
      BY DEF FinalizeNew
    <2> QED BY <1>9, <2>2, <2>3, <2>4, <2>5, <2>6, <2>7 DEF Finalize
  <1>10. CASE RecordFailure(w)
    <2>1. CASE UNCHANGED rows
      BY <1>2, <2>1 DEF rows
    <2>2. CASE HoldsRow(w) /\ ~LeaseLost(w)
      <3>1. /\ job[w].failure = "invalid_extraction" /\ job[w].pc = "failing"
            /\ Working(w)
        BY <1>10, <2>2 DEF RecordFailure, LeaseInv, ConflictMeansLost, LeaseLost, TypeOK,
                          Jobs, Failures, Working
      <3>2. Overtaken(m)
        BY <3>1 DEF EndsInv, DraftsOK, DraftOK
      <3>3. Overtaken(m)'
        BY <3>2, KnownGrows DEF EndsInv
      <3>4. Finish(w, "invalid_extraction", conversation[ConvOf[m]].state)
        BY <1>10, <2>2, <3>1 DEF RecordFailure, FailureStatus
      <3>5. processing'[m] = processing[m] \/ processing'[m].status = "invalid_extraction"
        BY <1>1, <3>4, BlockedEnd
      <3> QED BY <1>2, <3>3, <3>5 DEF JustifiedEnd
    <2> QED BY <1>10, <2>1, <2>2 DEF RecordFailure
  <1> QED BY <1>7, <1>8, <1>9, <1>10

LEMMA EndsStep ==
  ASSUME LeaseInv, EndsInv, [Next]_vars
  PROVE  EndsAreJustified'
  <1> SUFFICES ASSUME NEW m \in Messages PROVE JustifiedEnd(m)'
    BY DEF EndsAreJustified, JustifiedEnd
  <1>1. TypeOK
    BY DEF LeaseInv
  <1>2. CASE processing'[m] = processing[m]
    BY <1>2, JustificationLasts
  <1>3. CASE processing'[m].status \in {"pending", "processing"}
    BY <1>3 DEF JustifiedEnd
  <1>4. ASSUME NEW n \in Messages, Ingest(n) PROVE JustifiedEnd(m)'
    <2>1. processing' = [processing EXCEPT ![n] = [processing[n] EXCEPT !.status = "pending"]]
      BY <1>4 DEF Ingest
    <2>2. [processing[n] EXCEPT !.status = "pending"].status = "pending"
      BY <1>1 DEF TypeOK, Rows
    <2> QED BY <1>1, <1>2, <1>3, <2>1, <2>2 DEF TypeOK
  <1>5. ASSUME NEW w \in Workers, NEW n \in Messages, NEW t \in Tokens, ClaimLock(w, n, t)
        PROVE  JustifiedEnd(m)'
    <2>1. processing'[m] = processing[m] \/ processing'[m].status = "processing"
      BY <1>1, <1>5, ClaimIsHarmless
    <2> QED BY <1>2, <1>3, <2>1
  <1>6. ASSUME NEW w \in Workers,
               Prepare(w) \/ Extract(w) \/ Finalize(w) \/ RecordFailure(w)
        PROVE  JustifiedEnd(m)'
    <2>1. CASE m = job[w].message
      BY <1>6, <2>1, SettlingIsJustified
    <2>2. CASE m # job[w].message
      <3>1. OneRow(job[w].message)
        BY <1>6, OwnRowOnly
      <3> QED BY <1>2, <2>2, <3>1 DEF OneRow
    <2> QED BY <2>1, <2>2
  <1>7. CASE \/ \E w \in Workers : ClaimScan(w) \/ ClaimNothing(w) \/ Abandon(w)
             \/ \E t \in Tokens : LeaseExpires(t)
             \/ \E n \in Ageing : GrowsOld(n)
             \/ UNCHANGED vars
    BY <1>2, <1>7 DEF ClaimScan, ClaimNothing, Abandon, LeaseExpires, GrowsOld, vars, rows
  <1> QED BY <1>4, <1>5, <1>6, <1>7 DEF Next, Step

(* The invariant behind it: what workers read and extracted fits what they   *)
(* will store.                                                               *)
THEOREM EndsInvariance == Spec => []EndsInv
  <1>1. Init => EndsInv
    <2> SUFFICES ASSUME Init PROVE EndsInv
      OBVIOUS
    <2>1. Known = {}
      BY DEF Init, Known
    <2>2. IsFiniteSet(Known)
      BY <2>1, FS_EmptySet
    <2> QED BY <2>2 DEF Init, EndsInv, DraftsOK, DraftOK, ExecutionsOK, EndsAreJustified, Idle, Reading
  <1>2. LeaseInv /\ EndsInv /\ [Next]_vars => EndsInv'
    <2> SUFFICES ASSUME LeaseInv, EndsInv, [Next]_vars PROVE EndsInv'
      OBVIOUS
    <2>1. IsFiniteSet(Known)'
      BY KnownGrows DEF EndsInv
    <2>2. DraftsOK'
      BY DraftsStep DEF EndsInv
    <2>3. ExecutionsOK'
      BY ExecutionsStep DEF EndsInv
    <2> QED BY <2>1, <2>2, <2>3, EndsStep DEF EndsInv
  <1> QED BY <1>1, <1>2, LeaseInvariance, PTL DEF Spec

(* No message gets lost: whatever ends its processing is what the code gives *)
(* as the reason, and stays so through late results, retries and races.      *)
THEOREM EndsJustified == Spec => []EndsAreJustified
  <1>1. EndsInv => EndsAreJustified
    BY DEF EndsInv
  <1> QED BY <1>1, EndsInvariance, PTL

InConversation(c) == {m \in Messages : ConvOf[m] = c}

(* Every opt-out finds room in the context whatever newer messages of its    *)
(* conversation have arrived: there are none, or they leave it a place in    *)
(* the window, fit together with it, and it never grows too old.             *)
OptOutsHaveRoom ==
  \A m \in Messages : Kind[m] = "opt_out" =>
    LET newer == NewerIn(InConversation(ConvOf[m]), m)
    IN  newer # {} =>
          /\ IsFiniteSet(newer) /\ Cardinality(newer) < Window
          /\ newer \cup {m} \in FitTogether
          /\ \A n \in Ageing : n < m

(* Every opt-out that was handled is registered, if the limits of the context *)
(* leave room for it.                                                        *)
THEOREM OptOutsAreHonoured == OptOutsHaveRoom /\ Spec => []OptOutHonoured
  <1>1. OptOutsHaveRoom /\ TypeOK /\ EndsAreJustified => OptOutHonoured
    <2> SUFFICES ASSUME OptOutsHaveRoom, TypeOK, EndsAreJustified,
                        NEW m \in Messages, Kind[m] = "opt_out",
                        processing[m].status \in Terminal
                 PROVE  ContactOf[ConvOf[m]] \in doNotContact
      BY DEF OptOutHonoured
    <2>1. ~Overtaken(m)
      <3> SUFFICES ASSUME Overtaken(m) PROVE FALSE
        OBVIOUS
      <3> DEFINE newer == NewerIn(InConversation(ConvOf[m]), m)
                 known == NewerIn(Ingested(ConvOf[m]), m)
      <3>1. Crowded(known, m) /\ known \subseteq newer
        BY DEF Overtaken, Ingested, InConversation, NewerIn
      <3>2. newer # {}
        BY <3>1 DEF Crowded
      <3>3. /\ IsFiniteSet(newer) /\ Cardinality(newer) < Window
            /\ newer \cup {m} \in FitTogether /\ \A n \in Ageing : n < m
        BY <3>2 DEF OptOutsHaveRoom
      <3> HIDE DEF newer, known
      <3>4. ~(m <= aged)
        <4>1. m \in Nat \ {0} /\ aged \in Ageing \cup {0} /\ Ageing \subseteq Nat
          BY ConstantsAssumption DEF TypeOK, None
        <4> QED BY <3>3, <4>1
      <3>5. ~(Cardinality(known) >= Window)
        <4>1. IsFiniteSet(known) /\ Cardinality(known) <= Cardinality(newer)
          BY <3>1, <3>3, FS_Subset
        <4>2. Cardinality(known) \in Nat /\ Cardinality(newer) \in Nat
          BY <3>3, <4>1, FS_CardinalityType
        <4> QED BY <3>3, <4>1, <4>2, ConstantsAssumption
      <3>6. known \cup {m} \in FitTogether
        <4>1. known \cup {m} \in SUBSET (newer \cup {m})
          BY <3>1
        <4> QED BY <3>3, <4>1, ConstantsAssumption
      <3> QED BY <3>1, <3>4, <3>5, <3>6 DEF Crowded
    <2> QED BY <2>1 DEF EndsAreJustified, Terminal
  <1>2. OptOutsHaveRoom => []OptOutsHaveRoom
    <2> SUFFICES ASSUME OptOutsHaveRoom PROVE []OptOutsHaveRoom
      OBVIOUS
    <2> QED BY PTL
  <1> QED BY <1>1, <1>2, EndsJustified, ProcessingTypeCorrect, PTL
-----------------------------------------------------------------------------
(* Nobody is active in a conversation, pauses or closes it but workers.      *)
Reached == {"open", "qualifying", "waiting_customer", "waiting_human", "do_not_contact"}

StatesReached == \A c \in Conversations : conversation[c].state \in Reached

LEMMA ReachedStep ==
  ASSUME LeaseInv, StatesReached, [Next]_vars
  PROVE  StatesReached'
  <1>1. CASE Quiet
    BY <1>1 DEF Quiet, StatesReached
  <1>2. ASSUME NEW w \in Workers, Applies(w) PROVE StatesReached'
    <2>1. PICK c \in Conversations :
            /\ \A d \in Conversations : d # c => conversation'[d].state = conversation[d].state
            /\ OptOutApplied(c) \/ HandoffApplied(c) \/ AnswerApplied(c)
      BY <1>2, ApplicationStory
    <2>2. conversation'[c].state \in Reached
      BY <2>1 DEF OptOutApplied, HandoffApplied, AnswerApplied, Reached
    <2> QED BY <2>1, <2>2 DEF StatesReached
  <1> QED BY <1>1, <1>2, QuietOrApplies

(* Of all the results of all conversations, the state machine refuses only   *)
(* the question that follows a first message (run first_question).           *)
THEOREM OnlyTheFirstQuestionIsRefused == Spec => []IllegalOnlyAtFirst
  <1>1. Init => StatesReached
    BY DEF Init, StatesReached, Reached
  <1>2. LeaseInv /\ StatesReached /\ [Next]_vars => StatesReached'
    BY ReachedStep
  <1>3. TypeOK /\ ConversationConsistent /\ StatesReached => IllegalOnlyAtFirst
    <2> SUFFICES ASSUME TypeOK, ConversationConsistent, StatesReached, NEW w \in Workers,
                        job[w].pc = "extracted",
                        draft[w].outcome = "opt_out" \/ (~OptedOut(w) /\ ~Paused(w)),
                        NEW handedOff \in HandoffChoices(w)
                 PROVE  LET state == conversation[ConvOf[job[w].message]].state
                            target == Target(draft[w].outcome, handedOff)
                        IN  \/ state = target \/ target \in AllowedFrom[state]
                            \/ state = "open" /\ target = "waiting_customer"
      BY DEF IllegalOnlyAtFirst, Legal
    <2> DEFINE c == ConvOf[job[w].message]
               state == conversation[c].state
               outcome == draft[w].outcome
    <2>1. c \in Conversations /\ outcome \in Outcomes
      BY ConstantsAssumption DEF TypeOK, Working
    <2>2. state \in Reached /\ ConsistentAt(c)
      BY <2>1 DEF StatesReached, ConversationConsistent, ConsistentAt
    <2>3. CASE outcome = "opt_out"
      <3>1. Target(outcome, handedOff) = "do_not_contact"
        BY <2>3 DEF Target
      <3>2. state = "do_not_contact" \/ "do_not_contact" \in AllowedFrom[state]
        BY <2>2 DEF Reached, AllowedFrom
      <3> QED BY <3>1, <3>2
    <2>4. CASE outcome # "opt_out"
      <3>1. state \in {"open", "qualifying", "waiting_customer"}
        BY <2>2, <2>4 DEF Reached, ConsistentAt, OptedOut, Paused
      <3>2. Target(outcome, handedOff) \in {"waiting_human", "waiting_customer", "qualifying"}
        BY <2>1, <2>4 DEF Target
      <3>3. \A target \in {"waiting_human", "waiting_customer", "qualifying"} :
              \/ state = target \/ target \in AllowedFrom[state]
              \/ state = "open" /\ target = "waiting_customer"
        BY <3>1 DEF AllowedFrom
      <3> QED BY <3>2, <3>3
    <2> QED BY <2>3, <2>4
  <1> QED BY <1>1, <1>2, <1>3, LeaseInvariance, ProcessingTypeCorrect, StoryIsConsistent,
             PTL DEF Spec

(* A late worker changes no row that reached its end: it holds neither the   *)
(* row nor the conversation any more.  What reopens one is a claim.          *)
THEOREM OnlyAClaimReopens == Spec => ReopenedByStaleScan
  <1> DEFINE Claims(m) == \E w \in Workers :
               /\ m \in scan[w].seen /\ StillUnleased(w, ConvOf[m])
               /\ job'[w].pc = "claimed" /\ job'[w].message = m
             Reopened == \A m \in Messages :
               processing[m].status \in Terminal /\ processing'[m] # processing[m] => Claims(m)
  <1>1. ASSUME LeaseInv, [Next]_vars PROVE Reopened
    <2> SUFFICES ASSUME NEW m \in Messages, processing[m].status \in Terminal,
                        processing'[m] # processing[m]
                 PROVE  Claims(m)
      OBVIOUS
    <2>1. TypeOK
      BY <1>1 DEF LeaseInv
    <2>2. ASSUME NEW n \in Messages, Ingest(n) PROVE FALSE
      <3>1. processing[n].status = "absent"
            /\ processing' = [processing EXCEPT ![n].status = "pending"]
        BY <2>2 DEF Ingest
      <3> QED BY <2>1, <3>1 DEF TypeOK, Terminal
    <2>3. ASSUME NEW w \in Workers, NEW n \in Messages, NEW t \in Tokens, ClaimLock(w, n, t)
          PROVE  Claims(m)
      <3>1. OneRow(n) /\ job'[w].pc = "claimed" /\ job'[w].message = n
        BY <2>1, <2>3, ClaimIsHarmless
      <3>2. n = m
        BY <3>1 DEF OneRow
      <3> QED BY <2>3, <3>1, <3>2 DEF ClaimLock
    <2>4. ASSUME NEW w \in Workers,
                 Prepare(w) \/ Extract(w) \/ Finalize(w) \/ RecordFailure(w)
          PROVE  FALSE
      <3>1. Working(w) /\ Outcome(w) /\ m = job[w].message
        BY <1>1, <2>4, WorkKinds, OwnRowOnly DEF OneRow
      <3>2. ASSUME HoldsConversation(w) PROVE FALSE
        <4>1. ConvOf[m] \in Conversations /\ job[w].token # None
          BY <2>1, <3>1, ConstantsAssumption DEF TypeOK, None
        <4>2. processing[m] = [status |-> "processing", token |-> job[w].token]
          BY <1>1, <3>1, <3>2, <4>1 DEF HoldsConversation, LeaseInv, LeaseAgreement
        <4> QED BY <4>2 DEF Terminal
      <3> QED BY <3>1, <3>2 DEF Outcome, GiveUp, RollBack, ReadContext, rows, Settle, Applies,
                                MayApply
    <2>5. CASE \/ \E w \in Workers : ClaimScan(w) \/ ClaimNothing(w) \/ Abandon(w)
               \/ \E t \in Tokens : LeaseExpires(t)
               \/ \E n \in Ageing : GrowsOld(n)
               \/ UNCHANGED vars
      BY <2>5 DEF ClaimScan, ClaimNothing, Abandon, LeaseExpires, GrowsOld, vars, rows
    <2> QED BY <1>1, <2>2, <2>3, <2>4, <2>5 DEF Next, Step
  <1> HIDE DEF Claims
  <1> QED BY <1>1, LeaseInvariance, PTL DEF Spec, ReopenedByStaleScan, Claims
=============================================================================
