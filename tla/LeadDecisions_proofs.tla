------------------------- MODULE LeadDecisions_proofs -------------------------
(***************************************************************************)
(* Proofs, for every instance of LeadDossier, that the records of a lead    *)
(* change as MessageDecisions says, and that the state machines refuse only *)
(* the question that follows a first message.  Both rest on what a worker   *)
(* knows of the handoff when it applies its result: it is not requested,    *)
(* unless the message asks for no more contact.  The last part is about the *)
(* context a result rests on: there is exactly one, and it reaches the      *)
(* newest message.                                                          *)
(***************************************************************************)
EXTENDS LeadHistory_proofs, FiniteSetTheorems

(* What an application does to the records that promises are made about.     *)
Effect(optOut, handedOff, question, stands) ==
  /\ executions' = executions \cup {[message |-> job.message, context |-> job.context]}
  /\ optedOut' = (optedOut \/ optOut)
  /\ pending' = (stands \/ question # None)
  /\ conversation' = ConversationTarget(optOut, handedOff, question)
  /\ handedOff => ~optOut
  /\ optOut \/ handedOff => question = None /\ ~stands
  /\ handoff.status = "requested" => optOut
  /\ handoff'.status = IF optOut /\ handoff.status = "requested" THEN "cancelled"
                       ELSE IF handedOff /\ handoff.status # "requested" THEN "requested"
                       ELSE handoff.status

LEMMA ApplyEffect ==
  ASSUME DossierInv, HistoryInv, Apply
  PROVE  \E optOut \in BOOLEAN, handedOff \in BOOLEAN, stands \in BOOLEAN :
           \E question : Effect(optOut, handedOff, question, stands)
<1> DEFINE x == job.extraction
           changed == Written(x, "correction" \in inbox[job.message].says)
           optOut == "do_not_contact" \in x.controls
           result == EvaluationAfter(SignalsAfter(x.signals))
           handedOff == ~optOut /\ (x.handoff # None \/ result.handoff)
           specialized == x.handoff = "specialized" \/ result.specialized
           question == IF optOut \/ handedOff THEN None ELSE x.question
           stands == QuestionStands(changed, optOut, handedOff)
<1>1. /\ executions' = executions \cup {[message |-> job.message, context |-> job.context]}
      /\ pending' = (stands \/ question # None)
      /\ conversation' = ConversationTarget(optOut, handedOff, question)
      /\ handoff' = HandoffAfter(optOut, handedOff, specialized)
      /\ optedOut' = (optedOut \/ optOut)
      /\ job # Idle /\ job.message \in job.context
  BY DEF Apply, Complete, Idle
<1>2. handoff.status = "requested" => optOut
  <2> SUFFICES ASSUME handoff.status = "requested" PROVE optOut OBVIOUS
  <2>1. "do_not_contact" \in Heard(inbox, job.context)
    BY <1>1 DEF HistoryInv, JobHistory, Heard, Controls
  <2>2. SourcesOK(x, job.context, Heard(inbox, job.context))
    BY DEF Apply, HistoryInv, JobHistory
  <2> QED BY <2>1, <2>2 DEF SourcesOK
<1>3. "status" \in DOMAIN handoff BY DEF DossierInv, RowsInv
<1>4. optOut \in BOOLEAN /\ handedOff \in BOOLEAN /\ stands \in BOOLEAN
  BY DEF QuestionStands
<1>5. optOut \/ handedOff => ~stands BY DEF QuestionStands
<1> HIDE DEF x, changed, optOut, result, specialized, stands
<1>6. handedOff => ~optOut OBVIOUS
<1>7. optOut \/ handedOff => question = None OBVIOUS
<1> HIDE DEF handedOff, question
<1>8. handoff'.status = IF optOut /\ handoff.status = "requested" THEN "cancelled"
                        ELSE IF handedOff /\ handoff.status # "requested" THEN "requested"
                        ELSE handoff.status
  BY <1>1, <1>3 DEF HandoffAfter
<1>9. Effect(optOut, handedOff, question, stands)
  BY <1>1, <1>2, <1>5, <1>6, <1>7, <1>8 DEF Effect
<1> QED BY <1>4, <1>9

LEMMA DecisionStep ==
  ASSUME DossierInv, HistoryInv, Apply
  PROVE  Promised!DecisionsNext
<1> DEFINE decided == {e.message : e \in executions}
<1>1. PICK m \in 1..MaxMessages : m = job.message /\ m \notin handled
  BY DossierAssumption DEF Apply, Idle, HistoryInv, TypeOK, Messages, DossierAssumption
<1>2. m \notin decided BY <1>1 DEF HistoryInv, TypeOK
<1>3a. PICK optOut \in BOOLEAN, handedOff \in BOOLEAN, stands \in BOOLEAN :
        \E question : Effect(optOut, handedOff, question, stands)
  BY ApplyEffect
<1>3. PICK question : Effect(optOut, handedOff, question, stands)
  BY <1>3a
<1>4. {e.message : e \in executions'} = decided \cup {m}
  <2> DEFINE new == [message |-> job.message, context |-> job.context]
  <2>1. executions' = executions \cup {new} /\ new.message = m BY <1>1, <1>3 DEF Effect
  <2> QED BY <2>1
<1>5. Promised!Decide(m) BY <1>2, <1>4 DEF Promised!Decide
<1>6. ~optedOut BY DEF Apply, DossierInv, JobInv
<1> HIDE DEF decided
<1>7. CASE optOut
  <2>1. optedOut' /\ ~pending' /\ handoff'.status # "requested"
    BY <1>3, <1>7 DEF Effect
  <2>2. Promised!Stop(m) BY <1>5, <1>6, <2>1 DEF Promised!Stop, When
  <2> QED BY <2>2 DEF Promised!DecisionsNext
<1>8. CASE ~optOut /\ handedOff
  <2>1. ~optedOut' /\ ~pending' /\ handoff'.status = "requested" /\ handoff.status # "requested"
    BY <1>3, <1>6, <1>8 DEF Effect
  <2>2. Promised!HandOff(m)
    BY <1>5, <1>6, <2>1 DEF Promised!HandOff, Promised!Automated, When
  <2> QED BY <2>2 DEF Promised!DecisionsNext
<1>9. CASE ~optOut /\ ~handedOff
  <2>1. ~optedOut' /\ handoff'.status # "requested" /\ handoff.status # "requested"
    BY <1>3, <1>6, <1>9 DEF Effect
  <2>2. Promised!Answer(m)
    BY <1>5, <1>6, <2>1 DEF Promised!Answer, Promised!Automated, When
  <2> QED BY <2>2 DEF Promised!DecisionsNext
<1> QED BY <1>7, <1>8, <1>9

(* Nothing but an application touches the records that promises are about.   *)
LEMMA NoDecisionStep ==
  ASSUME [Next]_vars, ~Apply
  PROVE  UNCHANGED <<executions, records>>
  BY DEF Next, Receive, Age, Block, Prepare, ProviderFails, ProviderAnswers, GiveUp, Refuse,
         vars

(* The dossier implements MessageDecisions, whatever the customer writes and *)
(* the provider answers.                                                     *)
THEOREM DossierDecides == Spec => ImplementsDecisions
<1>1. Init => Promised!DecisionsInit
  BY DEF Init, NoHandoff, Promised!DecisionsInit, When
<1>2. DossierInv /\ HistoryInv /\ [Next]_vars =>
        [Promised!DecisionsNext]_Promised!decisionVars
  <2>1. CASE UNCHANGED <<executions, records>>
    BY <2>1 DEF records, Promised!decisionVars
  <2> QED BY <2>1, DecisionStep, NoDecisionStep
<1> QED BY <1>1, <1>2, DossierInvariance, HistoryInvariance, PTL
        DEF Spec, ImplementsDecisions, Promised!DecisionsSpec
-----------------------------------------------------------------------------
(* What the states of lead and conversation are confined to, and why: nobody *)
(* but the workers changes them, and no evaluation ever reports missing      *)
(* information (run missing_information).                                    *)
StatesInv ==
  /\ conversation \in {"open", "qualifying", "waiting_customer", "waiting_human",
                       "do_not_contact"}
  /\ lead.state \in {"new", "qualifying", "qualified", "do_not_contact"}
  /\ evaluation.missing = {}

LEMMA StatesStep ==
  ASSUME StatesInv, [Next]_vars
  PROVE  StatesInv'
<1>1. CASE Apply
  <2> DEFINE x == job.extraction
             optOut == "do_not_contact" \in x.controls
             result == EvaluationAfter(SignalsAfter(x.signals))
             handedOff == ~optOut /\ (x.handoff # None \/ result.handoff)
             question == IF optOut \/ handedOff THEN None ELSE x.question
  <2>1. /\ conversation' = ConversationTarget(optOut, handedOff, question)
        /\ lead' = [opportunity |-> OpportunityAfter(x), state |-> LeadTarget(optOut, result)]
        /\ evaluation' = result
    BY <1>1 DEF Apply
  <2>2. result.missing = {} BY DEF StatesInv, EvaluationAfter
  <2> HIDE DEF x, optOut, result, handedOff, question
  <2>3. LeadTarget(optOut, result) \in {"qualifying", "qualified", "do_not_contact"}
    BY <2>2 DEF LeadTarget
  <2>4. ConversationTarget(optOut, handedOff, question) \in
          {"qualifying", "waiting_customer", "waiting_human", "do_not_contact"}
    BY DEF ConversationTarget
  <2> QED BY <2>1, <2>2, <2>3, <2>4 DEF StatesInv
<1>2. CASE ~Apply
  BY <1>2, NoDecisionStep DEF StatesInv, records
<1> QED BY <1>1, <1>2

(* A result is never lost to a state machine, but for the first question.    *)
THEOREM ResultsAreNotRefused == Spec => []OnlyFirstQuestionRefused
<1>1. Init => StatesInv BY DEF Init, StatesInv, NotEvaluated
<1>2. StatesInv /\ [Next]_vars => StatesInv' BY StatesStep
<1>3. DossierInv /\ HistoryInv /\ StatesInv => OnlyFirstQuestionRefused
  <2> SUFFICES ASSUME DossierInv, HistoryInv, StatesInv,
                      job.pc = "extracted", job.message \in job.context
               PROVE  OnlyFirstQuestionRefused
    BY DEF OnlyFirstQuestionRefused
  <2> DEFINE x == job.extraction
             optOut == "do_not_contact" \in x.controls
             result == EvaluationAfter(SignalsAfter(x.signals))
             handedOff == ~optOut /\ (x.handoff # None \/ result.handoff)
             question == IF optOut \/ handedOff THEN None ELSE x.question
             target == ConversationTarget(optOut, handedOff, question)
             leadTarget == LeadTarget(optOut, result)
  <2>1. ~optedOut /\ job # Idle BY DEF DossierInv, JobInv, Idle
  <2>2. conversation # "do_not_contact" /\ lead.state # "do_not_contact"
    BY <2>1 DEF DossierInv, OptOutDominates
  <2>3. conversation = "waiting_human" => optOut
    <3> SUFFICES ASSUME conversation = "waiting_human" PROVE optOut OBVIOUS
    <3>1. "do_not_contact" \in Heard(inbox, job.context)
      BY <2>1 DEF HistoryInv, WaitingIsRequested, JobHistory, Heard, Controls
    <3>2. SourcesOK(x, job.context, Heard(inbox, job.context))
      BY DEF HistoryInv, JobHistory
    <3> QED BY <3>1, <3>2 DEF SourcesOK
  <2>4. result.missing = {} BY DEF StatesInv, EvaluationAfter
  <2> HIDE DEF x, optOut, result, handedOff, question
  <2>5. leadTarget \in {"qualifying", "qualified", "do_not_contact"}
    BY <2>4 DEF LeadTarget
  <2>6. /\ target \in {"qualifying", "waiting_customer", "waiting_human", "do_not_contact"}
        /\ optOut => target = "do_not_contact"
    BY DEF ConversationTarget
  <2> HIDE DEF target, leadTarget
  <2>7. LeadMayBecome(lead.state, leadTarget)
    <3>1. lead.state \in {"new", "qualifying", "qualified"} BY <2>2 DEF StatesInv
    <3> QED BY <2>5, <3>1 DEF LeadMayBecome, LeadAllowedFrom
  <2>8. \/ target \in {conversation} \cup AllowedFrom[conversation]
        \/ conversation = "open" /\ target = "waiting_customer"
    <3>1. CASE conversation = "waiting_human"
      BY <2>3, <2>6, <3>1 DEF AllowedFrom
    <3>2. CASE conversation \in {"open", "qualifying", "waiting_customer"}
      BY <2>6, <3>2 DEF AllowedFrom
    <3> QED BY <2>2, <3>1, <3>2 DEF StatesInv
  <2> QED BY <2>7, <2>8
          DEF OnlyFirstQuestionRefused, target, leadTarget, x, optOut, result, handedOff, question
<1> QED BY <1>1, <1>2, <1>3, DossierInvariance, HistoryInvariance, PTL DEF Spec
-----------------------------------------------------------------------------
(* Whether a message fits depends on the newer ones that are selected only.  *)
LEMMA FitsLocal ==
  ASSUME NEW texts, NEW s, NEW t, NEW m, {n \in s : n > m} = {n \in t : n > m}
  PROVE  Fits(texts, s, m) = Fits(texts, t, m)
BY DEF Fits, Consumed

LEMMA EmptySum == ASSUME NEW op(_) PROVE MapThenSumSet(op, {}) = 0
<1> DEFINE choose(s) == CHOOSE x \in s : TRUE
           iter[s \in SUBSET {}] == IF s = {} THEN 0 ELSE op(choose(s)) + iter[s \ {choose(s)}]
           zero == [s \in SUBSET {} |-> 0]
<1>1. zero = [s \in SUBSET {} |-> IF s = {} THEN 0 ELSE op(choose(s)) + zero[s \ {choose(s)}]]
  OBVIOUS
<1>2. iter = [s \in SUBSET {} |-> IF s = {} THEN 0 ELSE op(choose(s)) + iter[s \ {choose(s)}]]
  BY <1>1
<1>3. iter[{}] = 0 BY <1>2
<1> QED BY <1>3 DEF MapThenSumSet, MapThenFoldSet

(* The newest message always fits, for it is cut.                            *)
LEMMA NewestFits ==
  ASSUME NEW texts, NEW s, NEW m, {n \in s : n > m} = {}
  PROVE  Fits(texts, s, m)
<1> DEFINE Length(n) == texts[n].length
<1>1. MapThenSumSet(Length, {}) = 0 BY EmptySum
<1>2. Min({MaxCharacters, 0}) = 0 BY ContextAssumption DEF Min
<1>3. Consumed(texts, s, m) = 0 BY <1>1, <1>2 DEF Consumed
<1> QED BY <1>3, ContextAssumption DEF Fits

LEMMA EligibleMessages ==
  ASSUME NEW texts \in Seq(Texts), texts # <<>>, NEW old \in Nat
  PROVE  /\ Eligible(texts, old) \subseteq 1..Len(texts)
         /\ Len(texts) \in Eligible(texts, old)
         /\ \A m \in Eligible(texts, old) : m > Len(texts) - Window
         /\ \A m \in Eligible(texts, old) : m > old \/ m = Len(texts)
<1>1. Len(texts) \in Nat /\ Len(texts) > 0 /\ DOMAIN texts = 1..Len(texts) OBVIOUS
<1> QED BY <1>1, ContextAssumption DEF Eligible

(* The newest message on which two selections differ would fit in both or in *)
(* none.                                                                    *)
LEMMA OneSelection ==
  ASSUME NEW texts \in Seq(Texts), texts # <<>>, NEW old \in Nat,
         NEW s \in Selections(texts, old), NEW t \in Selections(texts, old)
  PROVE  s = t
<1> DEFINE all == Eligible(texts, old)
           differ == {m \in all : (m \in s) # (m \in t)}
<1>1. all \subseteq 1..Len(texts) /\ Len(texts) \in Nat BY EligibleMessages
<1>2. /\ s \subseteq all /\ t \subseteq all
      /\ \A m \in all : (m \in s <=> Fits(texts, s, m)) /\ (m \in t <=> Fits(texts, t, m))
  BY DEF Selections
<1> HIDE DEF all
<1>3. ASSUME differ # {} PROVE FALSE
  <2>1. differ \in SUBSET (0..Len(texts))
    <3>1. differ \subseteq all OBVIOUS
    <3>2. 1..Len(texts) \subseteq 0..Len(texts) BY <1>1
    <3> HIDE DEF differ
    <3> QED BY <1>1, <3>1, <3>2
  <2> HIDE DEF differ
  <2>2. Max(differ) \in differ /\ \A m \in differ : Max(differ) >= m
    BY <1>1, <1>3, <2>1, MaxExists
  <2>3. PICK m \in all : m \in differ /\ \A n \in differ : m >= n
    BY <2>2 DEF differ
  <2>4. \A n \in all : n > m => (n \in s <=> n \in t)
    <3> TAKE n \in all
    <3>1. n \in Int /\ m \in Int BY <1>1
    <3> QED BY <2>3, <3>1 DEF differ
  <2>5. {n \in s : n > m} = {n \in t : n > m} BY <1>2, <2>4
  <2>6. Fits(texts, s, m) = Fits(texts, t, m) BY <2>5, FitsLocal
  <2> QED BY <1>2, <2>3, <2>6 DEF differ
<1> QED BY <1>2, <1>3

(* A selection of the messages from k on can be extended to k - 1.           *)
SelectedFrom(texts, old, k, s) ==
  /\ s \subseteq {m \in Eligible(texts, old) : m >= k}
  /\ \A m \in Eligible(texts, old) : m >= k => (m \in s <=> Fits(texts, s, m))

LEMMA OneMessageMore ==
  ASSUME NEW texts \in Seq(Texts), texts # <<>>, NEW old \in Nat, NEW k \in Nat,
         NEW s, SelectedFrom(texts, old, k + 1, s)
  PROVE  \E t : SelectedFrom(texts, old, k, t)
<1> DEFINE all == Eligible(texts, old)
           t == IF k \in all /\ Fits(texts, s, k) THEN s \cup {k} ELSE s
<1>1. all \subseteq Nat BY EligibleMessages
<1>2. /\ s \subseteq all /\ \A m \in s : m >= k + 1
      /\ \A m \in all : m >= k + 1 => (m \in s <=> Fits(texts, s, m))
  BY DEF SelectedFrom
<1> HIDE DEF all
<1>3. \A m \in all : m >= k => {n \in t : n > m} = {n \in s : n > m}
  BY <1>1, <1>2
<1>4. k \notin s BY <1>1, <1>2
<1>5. t \subseteq {m \in all : m >= k} BY <1>1, <1>2
<1> HIDE DEF t
<1>6. ASSUME NEW m \in all, m >= k PROVE m \in t <=> Fits(texts, t, m)
  <2>1. Fits(texts, t, m) = Fits(texts, s, m) BY <1>3, <1>6, FitsLocal
  <2>2. CASE m = k BY <1>4, <2>1, <2>2 DEF t, Fits
  <2>3. CASE m # k
    <3>1. m >= k + 1 /\ (m \in t <=> m \in s) BY <1>1, <1>6, <2>3 DEF t
    <3> QED BY <1>2, <2>1, <3>1
  <2> QED BY <2>2, <2>3
<1> QED BY <1>5, <1>6 DEF SelectedFrom, all

LEMMA SomeSelection ==
  ASSUME NEW texts \in Seq(Texts), texts # <<>>, NEW old \in Nat
  PROVE  Selections(texts, old) # {}
<1> DEFINE Reached == {k \in Nat : \E s : SelectedFrom(texts, old, k, s)}
           first == Min(Reached)
<1>1. Len(texts) \in Nat /\ Eligible(texts, old) \subseteq 1..Len(texts) BY EligibleMessages
<1>2. SelectedFrom(texts, old, Len(texts) + 1, {}) BY <1>1 DEF SelectedFrom
<1>3. Len(texts) + 1 \in Reached BY <1>1, <1>2
<1>4. Reached \in SUBSET Nat /\ Reached # {} BY <1>3
<1> HIDE DEF Reached
<1>5. first \in Reached /\ \A k \in Reached : first <= k BY <1>4, MinExists
<1> HIDE DEF first
<1>6. first \in Nat BY <1>4, <1>5
<1>7. first = 0
  <2> SUFFICES ASSUME first # 0 PROVE FALSE OBVIOUS
  <2>1. PICK k \in Nat : first = k + 1
    <3>1. first - 1 \in Nat /\ first = (first - 1) + 1 BY <1>6
    <3> QED BY <3>1
  <2>2. k \in Reached BY <1>5, <2>1, OneMessageMore DEF Reached
  <2> QED BY <1>5, <2>1, <2>2
<1>8. PICK s : SelectedFrom(texts, old, 0, s) BY <1>5, <1>7 DEF Reached
<1>9. \A m \in Eligible(texts, old) : m >= 0 BY <1>1
<1> QED BY <1>8, <1>9 DEF SelectedFrom, Selections

(* The context of a conversation is determined by its messages and their age: *)
(* exactly one selection, of at most Window messages, all young enough, but *)
(* the newest one, which is always among them.                              *)
THEOREM ContextIsDetermined ==
  ASSUME NEW texts \in Seq(Texts), texts # <<>>, NEW old \in Nat
  PROVE  \E selected :
           /\ Selections(texts, old) = {selected}
           /\ Len(texts) \in selected
           /\ Cardinality(selected) <= Window
           /\ \A m \in selected : m > old \/ m = Len(texts)
<1>1. PICK s : s \in Selections(texts, old) BY SomeSelection
<1>2. Selections(texts, old) = {s} BY <1>1, OneSelection
<1>3. /\ s \subseteq Eligible(texts, old)
      /\ \A m \in Eligible(texts, old) : m \in s <=> Fits(texts, s, m)
  BY <1>1 DEF Selections
<1>4. /\ Eligible(texts, old) \subseteq 1..Len(texts)
      /\ Len(texts) \in Eligible(texts, old)
      /\ \A m \in Eligible(texts, old) : m > Len(texts) - Window
      /\ \A m \in Eligible(texts, old) : m > old \/ m = Len(texts)
  BY EligibleMessages
<1>5. Len(texts) \in s
  <2>1. {n \in s : n > Len(texts)} = {} BY <1>3, <1>4
  <2> QED BY <1>3, <1>4, <2>1, NewestFits
<1>6. Cardinality(s) <= Window
  <2> DEFINE last == (Len(texts) - Window + 1)..Len(texts)
  <2>1. s \subseteq last BY <1>3, <1>4, ContextAssumption
  <2>2. IsFiniteSet(last) /\ Cardinality(last) = Window
    <3>1. /\ Len(texts) \in Int /\ Window \in Int /\ Window > 0
          /\ Len(texts) - Window + 1 \in Int
      BY ContextAssumption
    <3> QED BY <3>1, FS_Interval
  <2> HIDE DEF last
  <2> QED BY <2>1, <2>2, FS_Subset
<1> QED BY <1>2, <1>3, <1>4, <1>5, <1>6

(* Every context in the hands of a worker reaches its message or a newer     *)
(* one, and keeps to the window.                                            *)
THEOREM ContextsAreRecent == Spec => []ContextIsRecent
<1>1. Init => ContextIsRecent BY DEF Init, ContextIsRecent
<1>2. HistoryInv /\ ContextIsRecent /\ [Next]_vars => ContextIsRecent'
  <2> SUFFICES ASSUME HistoryInv, ContextIsRecent, [Next]_vars PROVE ContextIsRecent'
    OBVIOUS
  <2>1. CASE Prepare
    <3>1. PICK selected \in Selections(inbox, aged) :
            job' = [pc |-> "calling", message |-> Oldest, context |-> selected, attempt |-> 0]
      BY <2>1 DEF Prepare
    <3>2. Oldest \in 1..Len(inbox)
      BY <2>1, OldestExists DEF Prepare, Unhandled, Messages
    <3>3. inbox \in Seq(Texts) /\ inbox # <<>> /\ aged \in Nat
      BY <3>2 DEF HistoryInv, TypeOK
    <3>4. Len(inbox) \in selected /\ Cardinality(selected) <= Window
      BY <3>1, <3>3, ContextIsDetermined
    <3>5. job'.context = selected /\ job'.message = Oldest BY <3>1
    <3> QED BY <3>2, <3>4, <3>5 DEF ContextIsRecent
  <2>2. CASE job' = Idle BY <2>2 DEF ContextIsRecent
  <2>3. ASSUME job # Idle, job'.message = job.message, job'.context = job.context
        PROVE  ContextIsRecent'
    BY <2>3 DEF ContextIsRecent
  <2>4. CASE job' = job BY <2>4 DEF ContextIsRecent
  <2>5. ASSUME NEW failure, job.pc = "calling", Failed(failure) PROVE ContextIsRecent'
    <3>1. job # Idle BY <2>5 DEF Idle
    <3>2. CASE job' = [job EXCEPT !.attempt = @ + 1]
      BY <2>3, <3>1, <3>2
    <3>3. CASE job' # [job EXCEPT !.attempt = @ + 1]
      BY <2>3, <2>5, <3>1, <3>3 DEF Failed, Extracted
    <3> QED BY <3>2, <3>3
  <2>6. ASSUME NEW failure, ProviderFails(failure) PROVE ContextIsRecent'
    BY <2>5, <2>6 DEF ProviderFails
  <2>7. ASSUME NEW p \in Payloads, ProviderAnswers(p) PROVE ContextIsRecent'
    <3>1. job.pc = "calling" /\ job # Idle BY <2>7 DEF ProviderAnswers, Idle
    <3> QED BY <2>3, <2>5, <2>7, <3>1 DEF ProviderAnswers, Extracted
  <2> QED BY <2>1, <2>2, <2>4, <2>6, <2>7
          DEF Next, Receive, Age, Block, GiveUp, Refuse, Apply, Complete, vars
<1> QED BY <1>1, <1>2, HistoryInvariance, PTL DEF Spec
=============================================================================
