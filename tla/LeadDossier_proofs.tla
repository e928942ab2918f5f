-------------------------- MODULE LeadDossier_proofs --------------------------
(***************************************************************************)
(* Proofs, for every set of answers the provider's contract allows and      *)
(* every window and limit, of safety properties of LeadDossier.  They share *)
(* one invariant: what a worker is about to apply fits the profile and the  *)
(* questions it will be applied to, and an accepted opt-out is always among *)
(* its proposed signals, with a confidence the scoring does not ignore.     *)
(***************************************************************************)
EXTENDS LeadDossier, WellFoundedInduction, TLAPS

(***************************************************************************)
(* Least and greatest elements.                                             *)
(***************************************************************************)
Less == {r \in Nat \X Nat : r[1] < r[2]}

LEMMA LessWellFounded == IsWellFoundedOn(Less, Nat)
<1>1. Less = OpToRel(<, Nat)
  BY DEF Less, OpToRel
<1> QED BY <1>1, NatLessThanWellFounded

LEMMA InLess == \A a, b \in Nat : <<a, b>> \in Less <=> a < b
  BY DEF Less

LEMMA MinExists ==
  ASSUME NEW S \in SUBSET Nat, S # {}
  PROVE  Min(S) \in S /\ \A x \in S : Min(S) <= x
<1>1. PICK x \in S : \A y \in S : ~(<<y, x>> \in Less)
  BY WFMin, LessWellFounded
<1>2. \A y \in S : x <= y
  <2>1. TAKE y \in S
  <2>2. ~(<<y, x>> \in Less) BY <1>1
  <2>3. x \in Nat /\ y \in Nat OBVIOUS
  <2> QED BY <2>2, <2>3, InLess
<1> QED BY <1>2 DEF Min

LEMMA MaxExists ==
  ASSUME NEW n \in Nat, NEW S \in SUBSET (0..n), S # {}
  PROVE  Max(S) \in S /\ \A x \in S : Max(S) >= x
<1> DEFINE T == {n - x : x \in S}
<1>1. T \in SUBSET Nat /\ T # {}
  <2>1. \A x \in S : n - x \in Nat OBVIOUS
  <2> QED BY <2>1
<1>2. Min(T) \in T /\ \A y \in T : Min(T) <= y
  BY <1>1, MinExists
<1>3. PICK m \in S : Min(T) = n - m BY <1>2
<1>4. \A x \in S : m >= x
  <2>1. TAKE x \in S
  <2>2. n - x \in T /\ n - m <= n - x BY <1>2, <1>3
  <2>3. x \in 0..n /\ m \in 0..n OBVIOUS
  <2> QED BY <2>2, <2>3
<1> QED BY <1>4 DEF Max

LEMMA MaxOfTwo ==
  ASSUME NEW a \in Int, NEW b \in Int
  PROVE  Max({a, b}) \in {a, b} /\ Max({a, b}) >= a /\ Max({a, b}) >= b
  BY DEF Max

LEMMA MaxOfOne == ASSUME NEW a \in Int PROVE Max({a}) = a
  BY DEF Max

(***************************************************************************)
(* The extraction.                                                          *)
(***************************************************************************)
LEMMA EvidenceBounds ==
  ASSUME NEW finding, finding.confidence \in 0..100
  PROVE  EvidenceConfidence(finding) \in 0..100
<1>1. \A n \in 0..100 : Min({39, n}) \in 0..100
  BY DEF Min
<1>2. \A n \in Int : Bounded(n) \in 0..100
  <2>1. TAKE n \in Int
  <2>2. PICK top \in Int : top = Min({100, n}) /\ top <= 100
    BY DEF Min
  <2>3. Max({0, top}) \in 0..100
    BY <2>2 DEF Max
  <2> QED BY <2>2, <2>3 DEF Bounded
<1>3. finding.confidence - 20 \in Int /\ finding.confidence - 0 \in Int
  OBVIOUS
<1> QED BY <1>1, <1>2, <1>3 DEF EvidenceConfidence

(* An accepted control is accepted with a high confidence.                   *)
LEMMA ControlIsSure ==
  ASSUME NEW p, WellTyped(p), NEW heard, NEW control \in AcceptedControls(p, heard)
  PROVE  ControlConfidence(p, heard, control) \in AutoAccept..100
<1>1. CASE control \in heard BY <1>1 DEF ControlConfidence, AutoAccept
<1>2. CASE control \notin heard
  <2> DEFINE mine == {d \in p.controls : d.control = control}
             sure == {EvidenceConfidence(c) : c \in mine}
  <2>1. PICK c \in mine : EvidenceConfidence(c) >= AutoAccept
    BY <1>2 DEF AcceptedControls
  <2>2. sure \in SUBSET (0..100) /\ sure # {}
    BY <2>1, EvidenceBounds DEF WellTyped
  <2>3. Max(sure) \in sure /\ Max(sure) >= EvidenceConfidence(c)
    BY <2>1, <2>2, MaxExists
  <2>4. EvidenceConfidence(c) \in 0..100 BY <2>1, <2>2
  <2> QED BY <1>2, <2>1, <2>2, <2>3, <2>4 DEF ControlConfidence, AutoAccept
<1> QED BY <1>1, <1>2

(* Every source of proposals has a place of its own.                         *)
OnlyAt(proposals, place) ==
  \A q \in proposals : q.place = place /\ \A r \in proposals : r = q

LEMMA ProposalOnlyAt ==
  ASSUME NEW condition, NEW place, NEW code, NEW confidence, NEW firm
  PROVE  OnlyAt(When(condition, Propose(place, code, confidence, firm)), place)
  BY DEF OnlyAt, When, Propose

LEMMA ProvidedShape ==
  ASSUME NEW p, NEW q \in Provided(p)
  PROVE  /\ q.code # "do_not_contact"
         /\ q.place \in DOMAIN p.signals
         /\ \A r \in Provided(p) : r.place = q.place => r = q
<1> DEFINE From(i) == [place |-> i, code |-> p.signals[i].code,
                       confidence |-> EvidenceConfidence(p.signals[i]), firm |-> TRUE]
<1>1. \A r \in Provided(p) : \E i \in AcceptedSignals(p) : r = From(i)
  BY DEF Provided, Propose
<1>2. \A i : From(i).place = i /\ From(i).code = p.signals[i].code OBVIOUS
<1>3. \A i \in AcceptedSignals(p) : /\ i \in DOMAIN p.signals
                                    /\ p.signals[i].code # "do_not_contact"
  BY DEF AcceptedSignals, ForbiddenSignals
<1> HIDE DEF From
<1> QED BY <1>1, <1>2, <1>3

LEMMA PlacesDiffer ==
  ASSUME NEW p, WellTyped(p), NEW heard, NEW fields,
         NEW q \in Signals(p, heard, fields)
  PROVE  /\ q.place \in Nat
         /\ \A r \in Signals(p, heard, fields) : r.place = q.place => r = q
<1> DEFINE n == Len(p.signals)
           stop == ControlProposal(p, heard, n + 1, "do_not_contact", "do_not_contact")
           person == ControlProposal(p, heard, n + 2, "human_requested", "requests_human")
           doubt == ContradictionProposal(n + 3, fields)
           intent == FindingProposal(p, n + 4, p.intent, IntentSignal)
           urgency == FindingProposal(p, n + 5, p.urgency, UrgencySignal)
           offer == OpportunityProposal(p, n + 6)
<1>1. n \in Nat /\ DOMAIN p.signals = 1..n BY DEF WellTyped
<1>2. Signals(p, heard, fields) =
        Provided(p) \cup stop \cup person \cup doubt \cup intent \cup urgency \cup offer
  BY DEF Signals
<1>3. /\ OnlyAt(stop, n + 1) /\ OnlyAt(person, n + 2) /\ OnlyAt(doubt, n + 3)
      /\ OnlyAt(intent, n + 4) /\ OnlyAt(urgency, n + 5) /\ OnlyAt(offer, n + 6)
  BY ProposalOnlyAt
     DEF ControlProposal, ContradictionProposal, FindingProposal, OpportunityProposal
<1>4. \A r \in Provided(p) : /\ r.place \in 1..n
                             /\ \A t \in Provided(p) : t.place = r.place => t = r
  BY <1>1, ProvidedShape
<1> HIDE DEF n, stop, person, doubt, intent, urgency, offer
<1> QED BY <1>1, <1>2, <1>3, <1>4 DEF OnlyAt

(* Nothing but the accepted control proposes the opt-out.                    *)
LEMMA OptOutProposal ==
  ASSUME NEW p, WellTyped(p), NEW heard, NEW fields
  PROVE  Of(Signals(p, heard, fields), "do_not_contact") =
           ControlProposal(p, heard, Len(p.signals) + 1, "do_not_contact", "do_not_contact")
<1> DEFINE n == Len(p.signals)
           stop == ControlProposal(p, heard, n + 1, "do_not_contact", "do_not_contact")
           others == ControlProposal(p, heard, n + 2, "human_requested", "requests_human")
                     \cup ContradictionProposal(n + 3, fields)
                     \cup FindingProposal(p, n + 4, p.intent, IntentSignal)
                     \cup FindingProposal(p, n + 5, p.urgency, UrgencySignal)
                     \cup OpportunityProposal(p, n + 6)
<1>1. Signals(p, heard, fields) = Provided(p) \cup stop \cup others
  BY DEF Signals
<1>2. \A q \in stop : q.code = "do_not_contact"
  BY DEF ControlProposal, When, Propose
<1>3. \A v \in DOMAIN IntentSignal : IntentSignal[v] # "do_not_contact"
  BY DEF IntentSignal
<1>4. \A v \in DOMAIN UrgencySignal : UrgencySignal[v] # "do_not_contact"
  BY DEF UrgencySignal
<1>5. \A v \in DOMAIN OpportunitySignal : OpportunitySignal[v] # "do_not_contact"
  BY DEF OpportunitySignal
<1>6. \A q \in others : q.code # "do_not_contact"
  <2>1. \A q \in ControlProposal(p, heard, n + 2, "human_requested", "requests_human") :
          q.code # "do_not_contact"
    BY DEF ControlProposal, When, Propose
  <2>2. \A q \in ContradictionProposal(n + 3, fields) : q.code # "do_not_contact"
    BY DEF ContradictionProposal, When, Propose
  <2>3. \A q \in FindingProposal(p, n + 4, p.intent, IntentSignal) : q.code # "do_not_contact"
    BY <1>3 DEF FindingProposal, When, Propose
  <2>4. \A q \in FindingProposal(p, n + 5, p.urgency, UrgencySignal) : q.code # "do_not_contact"
    BY <1>4 DEF FindingProposal, When, Propose
  <2>5. \A q \in OpportunityProposal(p, n + 6) : q.code # "do_not_contact"
    BY <1>5 DEF OpportunityProposal, When, Propose
  <2> QED BY <2>1, <2>2, <2>3, <2>4, <2>5
<1>7. \A q \in Provided(p) : q.code # "do_not_contact" BY ProvidedShape
<1> HIDE DEF stop, others
<1>8. Of(Signals(p, heard, fields), "do_not_contact") = stop
  BY <1>1, <1>2, <1>6, <1>7 DEF Of
<1> QED BY <1>8 DEF stop

LEMMA RequiredPlaces == \A o \in Opportunities : DOMAIN Required[o] \in SUBSET Nat
  BY DEF Opportunities, Required

LEMMA FirstMentionExists ==
  ASSUME NEW p, WellTyped(p), NEW f \in FieldsOf(p)
  PROVE  FirstMention(p, f) \in Nat
<1> DEFINE S == {i \in Mentions(p) : p.fields[i].field = f}
<1>1. S \in SUBSET Nat /\ S # {} BY DEF FieldsOf, Mentions, WellTyped
<1>2. Min(S) \in Nat BY <1>1, MinExists
<1> QED BY <1>2 DEF FirstMention

(* A question is about a contradicted field of the payload or a missing one, *)
(* and not about one asked recently.                                         *)
LEMMA QuestionIsNew ==
  ASSUME NEW p, WellTyped(p), NEW fields, DOMAIN fields = FieldsOf(p), NEW known, NEW recent,
         Question(p, fields, Missing(AcceptedOpportunity(p), known), recent) # None
  PROVE  Question(p, fields, Missing(AcceptedOpportunity(p), known), recent)
           \in (Contradictions(fields) \cup Missing(AcceptedOpportunity(p), known)) \ recent
<1> DEFINE o == AcceptedOpportunity(p)
           missing == Missing(o, known)
           unclear == Contradictions(fields) \ recent
           target == IF unclear # {}
                       THEN CHOOSE f \in unclear : \A g \in unclear :
                              FirstMention(p, f) <= FirstMention(p, g)
                       ELSE FirstRequired(o, missing \ recent)
<1>1. /\ Question(p, fields, missing, recent) = target
      /\ unclear \cup (missing \ recent) # {}
  BY DEF Question
<1>2. unclear \in SUBSET FieldsOf(p) /\ unclear \in SUBSET Contradictions(fields)
  BY DEF Contradictions
<1>3. CASE unclear # {}
  <2> DEFINE first == {FirstMention(p, f) : f \in unclear}
  <2>1. first \in SUBSET Nat /\ first # {} BY <1>2, <1>3, FirstMentionExists
  <2>2. Min(first) \in first /\ \A x \in first : Min(first) <= x BY <2>1, MinExists
  <2>3. \E f \in unclear : \A g \in unclear : FirstMention(p, f) <= FirstMention(p, g)
    BY <2>2
  <2>4. target \in unclear BY <1>3, <2>3
  <2> HIDE DEF target
  <2> QED BY <1>1, <1>2, <2>4
<1>4. CASE unclear = {}
  <2> DEFINE required == Required[o]
             places == {i \in DOMAIN required : required[i] \in missing \ recent}
  <2>1. missing \ recent # {} BY <1>1, <1>4
  <2>2. o \in Opportunities
    BY DEF AcceptedOpportunity, WellTyped, Opportunities, Required
  <2>3. places \in SUBSET Nat /\ places # {}
    <3>1. places # {} BY <2>1 DEF Missing
    <3> QED BY <2>2, <3>1, RequiredPlaces
  <2>4. Min(places) \in places BY <2>3, MinExists
  <2>5. target = required[Min(places)] BY <1>4 DEF FirstRequired
  <2>6. target \in missing \ recent
    <3> HIDE DEF target
    <3> QED BY <2>4, <2>5
  <2> HIDE DEF target
  <2> QED BY <1>1, <2>6
<1> QED BY <1>3, <1>4

(***************************************************************************)
(* What a worker is about to apply.                                         *)
(***************************************************************************)
Wanted(o) == {Required[o][i] : i \in DOMAIN Required[o]}

Askable ==
  (UNION {FieldsOf(p) : p \in Payloads}) \cup (UNION {Wanted(o) : o \in Opportunities})

(* An accepted opt-out is proposed with confidence; nothing else proposes    *)
(* one.                                                                      *)
OptOutProposed(x) ==
  /\ \A q \in Of(x.signals, "do_not_contact") :
       /\ q.firm /\ q.confidence \in AutoAccept..100
       /\ Of(x.signals, "do_not_contact") = {q}
  /\ "do_not_contact" \in x.controls <=> Of(x.signals, "do_not_contact") # {}

PlacesOK(x) ==
  \A q \in x.signals :
    q.place \in Nat /\ \A r \in x.signals : r.place = q.place => r = q

(* A value that differs from the profile's is contradicted, and a            *)
(* contradiction is signalled.                                               *)
DifferencesKnown(x, profile) ==
  /\ \A f \in DOMAIN x.fields \cap DOMAIN profile :
       profile[f].value # x.fields[f].value => x.fields[f].treatment = "contradicted"
  /\ Contradictions(x.fields) # {} => "contradictory_information" \in Codes(x.signals)

ExtractionOK(x, profile, recent) ==
  /\ OptOutProposed(x)
  /\ PlacesOK(x)
  /\ DifferencesKnown(x, profile)
  /\ x.opportunity \in Opportunities
  /\ x.question # None => x.question \in Askable \ (recent \cup AcceptedFields(x.fields))

LEMMA AcceptedIsOK ==
  ASSUME NEW p, WellTyped(p), NEW heard, NEW profile, NEW recent,
         FieldsOf(p) \in SUBSET Askable
  PROVE  ExtractionOK(Accept(p, heard, profile, recent), profile, recent)
<1> DEFINE x == Accept(p, heard, profile, recent)
           fields == Resolve(p, profile)
           stop == Propose(Len(p.signals) + 1, "do_not_contact",
                           ControlConfidence(p, heard, "do_not_contact"), TRUE)
<1>1. /\ x.fields = fields
      /\ x.controls = AcceptedControls(p, heard)
      /\ x.signals = Signals(p, heard, fields)
      /\ \/ x.question = None
         \/ x.question = Question(p, fields,
                                  Missing(AcceptedOpportunity(p),
                                          DOMAIN profile \cup AcceptedFields(fields)), recent)
  BY DEF Accept
<1>2. DOMAIN fields = FieldsOf(p) BY DEF Resolve
<1>3. OptOutProposed(x)
  <2>1. Of(x.signals, "do_not_contact") = When("do_not_contact" \in x.controls, stop)
    BY <1>1, OptOutProposal DEF ControlProposal
  <2>2. "do_not_contact" \in x.controls =>
          ControlConfidence(p, heard, "do_not_contact") \in AutoAccept..100
    BY <1>1, ControlIsSure
  <2>3. \A q \in When("do_not_contact" \in x.controls, stop) :
          /\ "do_not_contact" \in x.controls
          /\ q.firm /\ q.confidence = ControlConfidence(p, heard, "do_not_contact")
          /\ When("do_not_contact" \in x.controls, stop) = {q}
    <3> DEFINE proposal == [place |-> Len(p.signals) + 1, code |-> "do_not_contact",
                            confidence |-> ControlConfidence(p, heard, "do_not_contact"),
                            firm |-> TRUE]
    <3>1. /\ stop = {proposal}
          /\ proposal.firm
          /\ proposal.confidence = ControlConfidence(p, heard, "do_not_contact")
      BY DEF Propose
    <3> HIDE DEF proposal
    <3> HIDE DEF x, stop
    <3>2. CASE "do_not_contact" \in x.controls
      <4>1. When("do_not_contact" \in x.controls, stop) = stop BY <3>2 DEF When
      <4> QED BY <3>1, <3>2, <4>1
    <3>3. CASE "do_not_contact" \notin x.controls BY <3>3 DEF When
    <3> QED BY <3>2, <3>3
  <2>4. "do_not_contact" \in x.controls => When("do_not_contact" \in x.controls, stop) # {}
    BY DEF When, Propose
  <2> HIDE DEF x, stop
  <2> QED BY <2>1, <2>2, <2>3, <2>4 DEF OptOutProposed
<1>4. PlacesOK(x) BY <1>1, PlacesDiffer DEF PlacesOK
<1>5. DifferencesKnown(x, profile)
  <2>1. \A f \in DOMAIN fields \cap DOMAIN profile :
          profile[f].value # fields[f].value => fields[f].treatment = "contradicted"
    BY DEF Resolve, Reconciled
  <2>2. Contradictions(fields) # {} => "contradictory_information" \in Codes(Signals(p, heard, fields))
    <3> HIDE DEF fields
    <3> DEFINE doubts == ContradictionProposal(Len(p.signals) + 3, fields)
    <3>1. Contradictions(fields) # {} => \E q \in doubts : q.code = "contradictory_information"
      BY DEF ContradictionProposal, When, Propose
    <3>2. doubts \in SUBSET Signals(p, heard, fields) BY DEF Signals
    <3> HIDE DEF doubts
    <3> QED BY <3>1, <3>2 DEF Codes
  <2> HIDE DEF x, fields
  <2> QED BY <1>1, <2>1, <2>2 DEF DifferencesKnown
<1>6. x.question # None => x.question \in Askable \ (recent \cup AcceptedFields(x.fields))
  <2> DEFINE known == DOMAIN profile \cup AcceptedFields(fields)
             missing == Missing(AcceptedOpportunity(p), known)
  <2> HIDE DEF x, fields
  <2> SUFFICES ASSUME x.question # None
               PROVE  x.question \in Askable \ (recent \cup AcceptedFields(x.fields))
    OBVIOUS
  <2>1. x.question = Question(p, fields, missing, recent) BY <1>1
  <2>2. x.question \in (Contradictions(fields) \cup missing) \ recent
    BY <1>2, <2>1, QuestionIsNew
  <2>3. AcceptedOpportunity(p) \in Opportunities
    BY DEF AcceptedOpportunity, WellTyped, Opportunities, Required
  <2>4. missing \in SUBSET Askable
    <3>1. \A o \in Opportunities : Missing(o, known) \in SUBSET Askable
      <4>1. TAKE o \in Opportunities
      <4>2. Wanted(o) \in SUBSET Askable
        <5>1. Wanted(o) \in {Wanted(u) : u \in Opportunities} OBVIOUS
        <5> QED BY <5>1 DEF Askable
      <4>3. Missing(o, known) = Wanted(o) \ known BY DEF Missing, Wanted
      <4> QED BY <4>2, <4>3
    <3> QED BY <2>3, <3>1
  <2>5. missing \cap AcceptedFields(fields) = {} BY DEF Missing
  <2>6. Contradictions(fields) \cap AcceptedFields(fields) = {}
    BY DEF Contradictions, AcceptedFields
  <2>7. Contradictions(fields) \in SUBSET Askable BY <1>2 DEF Contradictions
  <2> QED BY <1>1, <2>2, <2>4, <2>5, <2>6, <2>7
<1>7. x.opportunity \in Opportunities
  <2>1. x.opportunity = AcceptedOpportunity(p) BY DEF Accept
  <2> HIDE DEF x
  <2> QED BY <2>1 DEF AcceptedOpportunity, WellTyped, Opportunities, Required
<1> HIDE DEF x
<1> QED BY <1>3, <1>4, <1>5, <1>6, <1>7 DEF ExtractionOK, x

(* Without the provider: only what the patterns heard.                       *)
LEMMA DegradedIsOK ==
  ASSUME NEW o \in Opportunities, NEW newest, NEW heard, NEW profile, NEW recent
  PROVE  ExtractionOK(Degraded(o, newest, heard, profile), profile, recent)
<1> DEFINE p == Fallback(o, newest)
           full == Accept(p, heard, profile, {})
           x == Degraded(o, newest, heard, profile)
<1>1. WellTyped(p)
  <2>1. /\ p.fields = <<>> /\ p.signals = <<>> /\ p.controls = {}
        /\ p.opportunity.primary = o /\ p.opportunity.confidence \in 0..100
        /\ p.handoff.value = None
    BY DEF Fallback, Nothing
  <2> HIDE DEF p
  <2> QED BY <2>1 DEF WellTyped
<1>2. FieldsOf(p) \in SUBSET Askable BY DEF FieldsOf, Mentions, Fallback
<1> HIDE DEF p
<1>3. ExtractionOK(full, profile, {}) BY <1>1, <1>2, AcceptedIsOK
<1>4. /\ x.question = None /\ x.fields = full.fields /\ x.opportunity = full.opportunity
      /\ x.controls = full.controls /\ x.signals = full.signals
  BY DEF Degraded, Accept, p
<1> HIDE DEF x, full
<1>5. OptOutProposed(x) BY <1>3, <1>4 DEF ExtractionOK, OptOutProposed
<1>6. PlacesOK(x) BY <1>3, <1>4 DEF ExtractionOK, PlacesOK
<1>7. DifferencesKnown(x, profile) BY <1>3, <1>4 DEF ExtractionOK, DifferencesKnown
<1>8. x.opportunity \in Opportunities BY <1>3, <1>4 DEF ExtractionOK
<1> QED BY <1>4, <1>5, <1>6, <1>7, <1>8 DEF ExtractionOK, x

(***************************************************************************)
(* The signals of the lead.                                                 *)
(***************************************************************************)
LEMMA PlaceExists ==
  ASSUME NEW proposed, \A q \in proposed : q.place \in Nat, NEW c \in Codes(proposed)
  PROVE  \E q \in Of(proposed, c) : q.place = Place(proposed, c) /\ q.place \in Nat
<1> DEFINE places == {q.place : q \in Of(proposed, c)}
<1>1. places \in SUBSET Nat /\ places # {} BY DEF Of, Codes
<1>2. Min(places) \in places BY <1>1, MinExists
<1> QED BY <1>1, <1>2 DEF Place

(* Of two proposals of a group the one inserted later remains.               *)
LEMMA OneSignalEnters ==
  ASSUME NEW x, PlacesOK(x), NEW s \in Entering(x.signals), NEW t \in Entering(x.signals),
         Excludes(s, t)
  PROVE  s = t
<1>1. PICK q \in Of(x.signals, s) : q.place = Place(x.signals, s) /\ q.place \in Nat
  BY PlaceExists DEF PlacesOK, Entering
<1>2. PICK r \in Of(x.signals, t) : r.place = Place(x.signals, t) /\ r.place \in Nat
  BY PlaceExists DEF PlacesOK, Entering
<1>3. ~(q.place < r.place) /\ ~(r.place < q.place)
  <2>1. Excludes(t, s) BY DEF Excludes
  <2> QED BY <1>1, <1>2, <2>1 DEF Entering
<1>4. q = r BY <1>1, <1>2, <1>3 DEF PlacesOK, Of
<1> QED BY <1>4 DEF Of

OneEach(active) == \A s, t \in active : Excludes(s, t) => s = t

LEMMA OneSignalStays ==
  ASSUME NEW x, PlacesOK(x), OneEach(DOMAIN signals)
  PROVE  OneEach(DOMAIN SignalsAfter(x.signals))
<1> SUFFICES ASSUME NEW s \in Remaining(x.signals) \cup Entering(x.signals),
                    NEW t \in Remaining(x.signals) \cup Entering(x.signals),
                    Excludes(s, t)
             PROVE  s = t
  BY DEF OneEach, SignalsAfter
<1>1. Excludes(t, s) BY DEF Excludes
<1>2. CASE s \in Remaining(x.signals) /\ t \in Remaining(x.signals)
  BY <1>2 DEF Remaining, OneEach
<1>3. CASE s \in Remaining(x.signals) /\ t \in Entering(x.signals)
  BY <1>1, <1>3 DEF Remaining, Entering
<1>4. CASE s \in Entering(x.signals) /\ t \in Remaining(x.signals)
  BY <1>1, <1>4 DEF Remaining, Entering
<1>5. CASE s \in Entering(x.signals) /\ t \in Entering(x.signals)
  BY <1>5, OneSignalEnters
<1> QED BY <1>2, <1>3, <1>4, <1>5

(* A signal of no exclusive group, once active or proposed, is active.       *)
LEMMA FreeSignalStays ==
  ASSUME NEW proposed, NEW s \in DOMAIN signals \cup Codes(proposed),
         \A t : ~Excludes(s, t) /\ ~Excludes(t, s)
  PROVE  /\ s \in DOMAIN SignalsAfter(proposed)
         /\ s \in DOMAIN signals => s \in Remaining(proposed)
         /\ s \in Codes(proposed) => s \in Entering(proposed)
  BY DEF SignalsAfter, Remaining, Entering

FreeSignals == {"do_not_contact", "contradictory_information"}

LEMMA FreeSignalsAreFree ==
  \A s \in FreeSignals : \A t : ~Excludes(s, t) /\ ~Excludes(t, s)
  BY DEF FreeSignals, Excludes, IntentGroup, UrgencyGroup, BudgetGroup

StopIsNumber == "do_not_contact" \in DOMAIN signals => signals["do_not_contact"] \in Int

(* The opt-out, accepted, is a usable signal afterwards.                     *)
LEMMA OptOutIsSignalled ==
  ASSUME NEW x, OptOutProposed(x), PlacesOK(x), StopIsNumber,
         "do_not_contact" \in DOMAIN SignalsAfter(x.signals)
  PROVE  /\ SignalsAfter(x.signals)["do_not_contact"] \in Int
         /\ "do_not_contact" \in x.controls =>
              "do_not_contact" \in Usable(SignalsAfter(x.signals))
<1> DEFINE stop == "do_not_contact"
           after == SignalsAfter(x.signals)
           old == IF stop \in Remaining(x.signals) THEN {signals[stop]} ELSE {}
           new == IF stop \in Entering(x.signals) THEN {Inserted(x.signals, stop).confidence}
                  ELSE {}
<1>1. after[stop] = Max(old \cup new) BY DEF SignalsAfter
<1>2. stop \in Remaining(x.signals) \cup Entering(x.signals) BY DEF SignalsAfter
<1>3. stop \in Remaining(x.signals) => signals[stop] \in Int BY DEF Remaining, StopIsNumber
<1>4. stop \in Entering(x.signals) => Inserted(x.signals, stop).confidence \in AutoAccept..100
  <2> SUFFICES ASSUME stop \in Entering(x.signals)
               PROVE  Inserted(x.signals, stop).confidence \in AutoAccept..100
    OBVIOUS
  <2>1. PICK q \in Of(x.signals, stop) : TRUE BY DEF Entering, Codes, Of
  <2>2. /\ Of(x.signals, stop) = {q} /\ q.firm /\ q.confidence \in AutoAccept..100
        /\ q.place \in Nat
    BY <2>1 DEF OptOutProposed, PlacesOK, Of
  <2>3. {r \in Of(x.signals, stop) : r.firm} = {q} BY <2>2
  <2>4. Inserted(x.signals, stop) = q BY <2>2, <2>3 DEF Inserted
  <2> QED BY <2>2, <2>4
<1>5. stop \in x.controls => stop \in Entering(x.signals)
  <2>1. stop \in x.controls => stop \in Codes(x.signals) BY DEF OptOutProposed, Of, Codes
  <2> QED BY <2>1, FreeSignalStays, FreeSignalsAreFree DEF FreeSignals
<1>6. after[stop] \in Int /\ (stop \in Entering(x.signals) => after[stop] >= AutoAccept)
  <2> DEFINE a == signals[stop]
             b == Inserted(x.signals, stop).confidence
  <2>1. CASE stop \in Remaining(x.signals) /\ stop \in Entering(x.signals)
    <3>1. after[stop] = Max({a, b}) /\ a \in Int /\ b \in Int /\ b >= AutoAccept
      <4>1. old \cup new = {a, b} BY <2>1
      <4> QED BY <1>1, <1>3, <1>4, <2>1, <4>1 DEF AutoAccept
    <3> HIDE DEF a, b, after
    <3>2. Max({a, b}) \in {a, b} /\ Max({a, b}) >= b BY <3>1, MaxOfTwo
    <3> QED BY <3>1, <3>2 DEF AutoAccept
  <2>2. CASE stop \in Remaining(x.signals) /\ stop \notin Entering(x.signals)
    <3>1. old \cup new = {a} BY <2>2
    <3> QED BY <1>1, <1>3, <2>2, <3>1, MaxOfOne
  <2>3. CASE stop \notin Remaining(x.signals) /\ stop \in Entering(x.signals)
    <3>1. old \cup new = {b} BY <2>3
    <3>2. b \in Int /\ b >= AutoAccept BY <1>4, <2>3 DEF AutoAccept
    <3> QED BY <1>1, <3>1, <3>2, MaxOfOne
  <2> QED BY <1>2, <2>1, <2>2, <2>3
<1> QED BY <1>5, <1>6 DEF Usable, MinimumSignalConfidence, AutoAccept

(***************************************************************************)
(* The invariant.                                                           *)
(***************************************************************************)
JobInv ==
  /\ "pc" \in DOMAIN job
  /\ job.pc # "idle" => ~optedOut
  /\ job.pc = "extracted" => ExtractionOK(job.extraction, facts, Recent)

RowsInv ==
  /\ lead.opportunity \in Opportunities
  /\ asked \in Seq(Askable)
  /\ StopIsNumber
  /\ "do_not_contact" \in DOMAIN signals => optedOut
  /\ handoff.status # "cancelled" \/ optedOut
  /\ "status" \in DOMAIN handoff

DossierInv ==
  /\ JobInv
  /\ RowsInv
  /\ OptOutDominates
  /\ OneSignalPerGroup
  /\ ConflictsSignalled
  /\ NoFieldAskedTwice
  /\ HotLeadsReachAHuman

LEMMA InitDossier == Init => DossierInv
<1> SUFFICES ASSUME Init PROVE DossierInv OBVIOUS
<1>1. JobInv BY DEF Init, JobInv, Idle
<1>2. RowsInv BY DEF Init, RowsInv, StopIsNumber, Opportunities, Required, NoHandoff
<1>3. OptOutDominates BY DEF Init, OptOutDominates
<1>4. OneSignalPerGroup /\ ConflictsSignalled /\ NoFieldAskedTwice
  BY DEF Init, OneSignalPerGroup, ConflictsSignalled, NoFieldAskedTwice
<1>5. HotLeadsReachAHuman BY DEF Init, HotLeadsReachAHuman, NotEvaluated, None
<1> QED BY <1>1, <1>2, <1>3, <1>4, <1>5 DEF DossierInv

(* Until a result is applied nothing but the job changes.                    *)
LEMMA QuietStep ==
  ASSUME DossierInv, UNCHANGED records, JobInv'
  PROVE  DossierInv'
<1>1. /\ conflicts' = conflicts /\ signals' = signals /\ lead' = lead
      /\ evaluation' = evaluation /\ asked' = asked /\ pending' = pending
      /\ conversation' = conversation /\ handoff' = handoff /\ optedOut' = optedOut
  BY DEF records
<1>2. RowsInv' BY <1>1 DEF DossierInv, RowsInv, StopIsNumber
<1>3. OptOutDominates' BY <1>1 DEF DossierInv, OptOutDominates
<1>4. OneSignalPerGroup' /\ ConflictsSignalled' /\ NoFieldAskedTwice' /\ HotLeadsReachAHuman'
  BY <1>1 DEF DossierInv, OneSignalPerGroup, ConflictsSignalled, NoFieldAskedTwice,
              HotLeadsReachAHuman
<1> QED BY <1>2, <1>3, <1>4 DEF DossierInv

LEMMA JobStep ==
  ASSUME DossierInv, UNCHANGED records,
         \/ job' = job
         \/ /\ "pc" \in DOMAIN job' /\ job'.pc # "extracted"
            /\ job'.pc = "idle" \/ ~optedOut
         \/ /\ "pc" \in DOMAIN job' /\ ~optedOut
            /\ ExtractionOK(job'.extraction, facts, Recent)
  PROVE  DossierInv'
<1>1. facts' = facts /\ asked' = asked /\ optedOut' = optedOut BY DEF records
<1>2. JobInv' BY <1>1 DEF JobInv, DossierInv, Recent
<1> QED BY <1>2, QuietStep

LEMMA FailedStep ==
  ASSUME DossierInv, job.pc = "calling", NEW failure, Failed(failure), UNCHANGED records
  PROVE  DossierInv'
<1>1. "pc" \in DOMAIN job /\ ~optedOut BY DEF DossierInv, JobInv
<1>2. CASE Retryable[failure] /\ job.attempt < MaxRetries
  <2>1. "pc" \in DOMAIN job' /\ job'.pc # "extracted"
    BY <1>1, <1>2 DEF Failed
  <2> QED BY <1>1, <2>1, JobStep
<1>3. CASE ~(Retryable[failure] /\ job.attempt < MaxRetries)
  <2>1. /\ job'.extraction = Degraded(lead.opportunity, Max(job.context),
                                     Heard(inbox, job.context), facts)
        /\ "pc" \in DOMAIN job'
    BY <1>3 DEF Failed, Extracted
  <2>2. ExtractionOK(job'.extraction, facts, Recent)
    BY <2>1, DegradedIsOK DEF DossierInv, RowsInv
  <2> QED BY <1>1, <2>1, <2>2, JobStep
<1> QED BY <1>2, <1>3

LEMMA AnswerStep ==
  ASSUME DossierInv, NEW p \in Payloads, ProviderAnswers(p)
  PROVE  DossierInv'
<1>1. job.pc = "calling" /\ UNCHANGED records BY DEF ProviderAnswers
<1>2. CASE Normalizable(p, job.context)
  <2>1. /\ job'.extraction = Accept(p, Heard(inbox, job.context), facts, Recent)
        /\ "pc" \in DOMAIN job'
    BY <1>2 DEF ProviderAnswers, Extracted
  <2>2. WellTyped(p) BY <1>2, PayloadsAssumption DEF Normalizable
  <2>3. FieldsOf(p) \in SUBSET Askable
    <3>1. FieldsOf(p) \in {FieldsOf(r) : r \in Payloads} OBVIOUS
    <3> QED BY <3>1 DEF Askable
  <2>4. ExtractionOK(job'.extraction, facts, Recent) BY <2>1, <2>2, <2>3, AcceptedIsOK
  <2>5. ~optedOut BY <1>1 DEF DossierInv, JobInv
  <2> QED BY <1>1, <2>1, <2>4, <2>5, JobStep
<1>3. CASE ~Normalizable(p, job.context)
  <2>1. Failed("invalid_response") BY <1>3 DEF ProviderAnswers
  <2> QED BY <1>1, <2>1, FailedStep
<1> QED BY <1>2, <1>3

(***************************************************************************)
(* The scoring.                                                             *)
(***************************************************************************)
LEMMA WorthIsNumber ==
  ASSUME NEW codes, NEW s, NEW n \in Nat
  PROVE  Worth(codes, s, n) \in Nat
  BY DEF Worth

LEMMA BestIsNumber ==
  ASSUME NEW codes, NEW levels, \A s \in DOMAIN levels : levels[s] \in 0..100
  PROVE  Best(codes, levels) \in Nat
<1> DEFINE points == {0} \cup {levels[s] : s \in codes \cap DOMAIN levels}
<1>1. points \in SUBSET (0..100) /\ points # {} OBVIOUS
<1>2. Max(points) \in points BY <1>1, MaxExists
<1> QED BY <1>1, <1>2 DEF Best

LEMMA WorthGrows ==
  ASSUME NEW codes, NEW more, codes \subseteq more, NEW s, NEW n \in Nat
  PROVE  /\ Worth(codes, s, n) \in Nat /\ Worth(more, s, n) \in Nat
         /\ Worth(codes, s, n) <= Worth(more, s, n)
  BY DEF Worth

LEMMA BestGrows ==
  ASSUME NEW codes, NEW more, codes \subseteq more,
         NEW levels, \A s \in DOMAIN levels : levels[s] \in 0..100
  PROVE  Best(codes, levels) <= Best(more, levels)
<1> DEFINE points == {0} \cup {levels[s] : s \in codes \cap DOMAIN levels}
           all == {0} \cup {levels[s] : s \in more \cap DOMAIN levels}
<1>1. all \in SUBSET (0..100) /\ points \subseteq all /\ points # {} OBVIOUS
<1>2. Best(codes, levels) = Max(points) /\ Best(more, levels) = Max(all) BY DEF Best
<1> HIDE DEF points, all
<1>3. Max(points) \in points BY <1>1, MaxExists
<1>4. \A x \in all : Max(all) >= x BY <1>1, MaxExists
<1>5. Max(points) \in all BY <1>1, <1>3
<1>6. Max(all) >= Max(points) BY <1>4, <1>5
<1>7. Max(all) \in all BY <1>1, MaxExists
<1>8. Max(all) \in Nat /\ Max(points) \in Nat
  <2>1. \A x \in all : x \in 0..100 BY <1>1
  <2> QED BY <1>5, <1>7, <2>1
<1> QED BY <1>2, <1>6, <1>8

LEMMA NoLevelNoPoints ==
  ASSUME NEW codes, NEW levels, codes \cap DOMAIN levels = {}
  PROVE  Best(codes, levels) = 0
<1>1. {0} \cup {levels[s] : s \in codes \cap DOMAIN levels} = {0} OBVIOUS
<1>2. Max({0}) = 0
  <2>1. {0} \in SUBSET (0..0) /\ {0} # {} OBVIOUS
  <2> QED BY <2>1, MaxExists
<1> QED BY <1>1, <1>2 DEF Best

LEMMA LevelsInRange ==
  /\ \A s \in DOMAIN IntentLevels : IntentLevels[s] \in 0..100
  /\ \A s \in DOMAIN BudgetLevels : BudgetLevels[s] \in 0..100
  /\ \A s \in DOMAIN UrgencyLevels : UrgencyLevels[s] \in 0..100
  BY DEF IntentLevels, BudgetLevels, UrgencyLevels

(* Points before penalties. *)
Points(o, codes) ==
  AtMost(25, NeedCompatibility(o, codes))
    + AtMost(25, Best(codes, IntentLevels))
    + AtMost(20, Best(codes, BudgetLevels))
    + AtMost(15, Best(codes, UrgencyLevels))
    + AtMost(10, Engagement(codes))
    + AtMost(5, CommercialPotential(codes))

LEMMA DimensionsAreNumbers ==
  ASSUME NEW o, NEW codes
  PROVE  /\ NeedCompatibility(o, codes) \in Nat /\ Best(codes, IntentLevels) \in Nat
         /\ Best(codes, BudgetLevels) \in Nat /\ Best(codes, UrgencyLevels) \in Nat
         /\ Engagement(codes) \in Nat /\ CommercialPotential(codes) \in Nat
         /\ Penalty(codes) \in Nat
<1>1. NeedCompatibility(o, codes) \in Nat BY WorthIsNumber DEF NeedCompatibility
<1>2. Engagement(codes) \in Nat BY WorthIsNumber DEF Engagement
<1>3. CommercialPotential(codes) \in Nat BY WorthIsNumber DEF CommercialPotential
<1>4. Penalty(codes) \in Nat BY WorthIsNumber DEF Penalty
<1>5. Best(codes, IntentLevels) \in Nat BY LevelsInRange, BestIsNumber
<1>6. Best(codes, BudgetLevels) \in Nat BY LevelsInRange, BestIsNumber
<1>7. Best(codes, UrgencyLevels) \in Nat BY LevelsInRange, BestIsNumber
<1> QED BY <1>1, <1>2, <1>3, <1>4, <1>5, <1>6, <1>7

LEMMA ScoreOfPoints ==
  ASSUME NEW o, NEW codes
  PROVE  /\ Points(o, codes) \in Nat /\ Penalty(codes) \in Nat
         /\ Score(o, codes) = Clamp(Points(o, codes) - Penalty(codes))
<1> DEFINE a == AtMost(25, NeedCompatibility(o, codes))
           b == AtMost(25, Best(codes, IntentLevels))
           c == AtMost(20, Best(codes, BudgetLevels))
           d == AtMost(15, Best(codes, UrgencyLevels))
           e == AtMost(10, Engagement(codes))
           f == AtMost(5, CommercialPotential(codes))
<1>1. a \in Nat /\ b \in Nat /\ c \in Nat BY DimensionsAreNumbers DEF AtMost
<1>2. d \in Nat /\ e \in Nat /\ f \in Nat BY DimensionsAreNumbers DEF AtMost
<1>3. Points(o, codes) = a + b + c + d + e + f BY DEF Points
<1>4. Score(o, codes) = Clamp(a + b + c + d + e + f - Penalty(codes)) BY DEF Score
<1> HIDE DEF a, b, c, d, e, f
<1> QED BY <1>1, <1>2, <1>3, <1>4, DimensionsAreNumbers

LEMMA ScoreBounds ==
  ASSUME NEW o, NEW codes
  PROVE  Score(o, codes) \in 0..100
<1> DEFINE total == Points(o, codes) - Penalty(codes)
<1>1. total \in Int /\ Score(o, codes) = Clamp(total) BY ScoreOfPoints
<1> HIDE DEF total
<1> QED BY <1>1 DEF Clamp

LEMMA BandIsReached ==
  ASSUME NEW score \in 0..100
  PROVE  BandOf(score) \in Bands /\ BandOf(score).minimum <= score
<1>1. \E b \in Bands : /\ b.minimum <= score
                       /\ \A other \in Bands :
                            other.minimum <= score => other.minimum <= b.minimum
  <2>1. CASE score >= 85 BY <2>1 DEF Bands, Band
  <2>2. CASE score \in 70..84 BY <2>2 DEF Bands, Band
  <2>3. CASE score \in 50..69 BY <2>3 DEF Bands, Band
  <2>4. CASE score \in 30..49 BY <2>4 DEF Bands, Band
  <2>5. CASE score \in 0..29 BY <2>5 DEF Bands, Band
  <2> QED BY <2>1, <2>2, <2>3, <2>4, <2>5
<1> QED BY <1>1 DEF BandOf

LEMMA SelectedExists ==
  ASSUME NEW matched \in SUBSET Decisions, matched # {}
  PROVE  Selected(matched) \in matched
<1> DEFINE priorities == {d.priority : d \in matched}
           limit == 1000
<1>1. \A d \in Decisions : d.priority \in 0..limit BY DEF Decisions, Rule
<1>2. priorities \in SUBSET (0..limit) /\ priorities # {} /\ limit \in Nat BY <1>1
<1>3. Max(priorities) \in priorities /\ \A n \in priorities : Max(priorities) >= n
  <2> HIDE DEF priorities, limit
  <2> QED BY <1>2, MaxExists
<1>4. \E d \in matched : \A other \in matched : other.priority <= d.priority
  <2>1. PICK d \in matched : d.priority = Max(priorities) BY <1>3
  <2> QED BY <1>2, <1>3, <2>1
<1> QED BY <1>4 DEF Selected

(* Whatever rule decides, an evaluation as hot or priority calls for a       *)
(* person, unless the contact opted out.                                     *)
LEMMA HotMeansHandoff ==
  ASSUME NEW active, "do_not_contact" \notin Usable(active),
         EvaluationAfter(active).classification \in {"hot", "priority"}
  PROVE  EvaluationAfter(active).handoff
<1> DEFINE codes == Usable(active)
           score == Score(lead.opportunity, codes)
           band == BandOf(score)
           matched == {d \in Decisions : d.signals \subseteq codes}
<1>1. /\ EvaluationAfter(active).classification = band.classification
      /\ EvaluationAfter(active).handoff = (Action(codes, band) \in HandoffActions)
  BY DEF EvaluationAfter, Evaluate
<1>2. band \in Bands
  <2>1. score \in 0..100 BY ScoreBounds
  <2> HIDE DEF score
  <2> QED BY <2>1, BandIsReached
<1>3. \A b \in Bands : b.classification \in {"hot", "priority"} => b.action \in HandoffActions
  BY DEF Bands, Band, HandoffActions
<1>4. \A d \in Decisions : d.signals = {"do_not_contact"} \/ d.action \in HandoffActions
  BY DEF Decisions, Rule, HandoffActions
<1>5. CASE matched # {}
  <2>1. Selected(matched) \in matched BY <1>5, SelectedExists
  <2>2. Selected(matched).action \in HandoffActions BY <1>4, <2>1
  <2>3. Action(codes, band) = Selected(matched).action BY <1>5 DEF Action
  <2> QED BY <1>1, <2>2, <2>3
<1>6. CASE matched = {}
  <2>1. band.action \in HandoffActions BY <1>1, <1>2, <1>3
  <2>2. Action(codes, band) = band.action BY <1>6, <2>1 DEF Action
  <2> QED BY <1>1, <2>1, <2>2
<1> QED BY <1>5, <1>6

(* An opted-out lead's evaluation says stop.                                 *)
LEMMA StopMeansStop ==
  ASSUME NEW active, "do_not_contact" \in Usable(active)
  PROVE  EvaluationAfter(active).action = "stop_automation" /\ ~EvaluationAfter(active).handoff
  BY DEF EvaluationAfter, Evaluate, Action, HandoffActions

LEMMA QuestionIsAppended ==
  ASSUME NoFieldAskedTwice, asked \in Seq(Askable), NEW f \in Askable \ Recent,
         asked' = Append(asked, f)
  PROVE  NoFieldAskedTwice'
<1> SUFFICES ASSUME NEW i \in DOMAIN asked', NEW j \in DOMAIN asked',
                    i < j, asked'[i] = asked'[j]
             PROVE  j - i > RecentLimit
  BY DEF NoFieldAskedTwice
<1>1. /\ Len(asked) \in Nat /\ DOMAIN asked = 1..Len(asked)
      /\ DOMAIN asked' = 1..(Len(asked) + 1)
      /\ \A k \in DOMAIN asked : asked'[k] = asked[k]
      /\ asked'[Len(asked) + 1] = f
  OBVIOUS
<1>2. CASE j \in DOMAIN asked
  <2>1. i \in DOMAIN asked BY <1>1, <1>2
  <2> QED BY <1>1, <1>2, <2>1 DEF NoFieldAskedTwice
<1>3. CASE j = Len(asked) + 1
  <2>1. i \in DOMAIN asked /\ asked[i] = f BY <1>1, <1>3
  <2>2. ~(i > Len(asked) - RecentLimit) BY <2>1 DEF Recent
  <2> QED BY <1>1, <1>3, <2>1, <2>2, DossierAssumption DEF DossierAssumption
<1> QED BY <1>1, <1>2, <1>3

LEMMA ApplyStep ==
  ASSUME DossierInv, Apply
  PROVE  DossierInv'
<1> DEFINE x == job.extraction
           correction == "correction" \in inbox[job.message].says
           changed == Written(x, correction)
           optOut == "do_not_contact" \in x.controls
           active == SignalsAfter(x.signals)
           result == EvaluationAfter(active)
           handedOff == ~optOut /\ (x.handoff # None \/ result.handoff)
           specialized == x.handoff = "specialized" \/ result.specialized
           question == IF optOut \/ handedOff THEN None ELSE x.question
           stands == QuestionStands(changed, optOut, handedOff)
           target == ConversationTarget(optOut, handedOff, question)
<1>1. /\ conflicts' = conflicts \cup Disputed(x, correction)
      /\ signals' = active
      /\ evaluation' = result
      /\ lead' = [opportunity |-> OpportunityAfter(x), state |-> LeadTarget(optOut, result)]
      /\ asked' = IF question # None /\ ~stands THEN Append(asked, question) ELSE asked
      /\ pending' = (stands \/ question # None)
      /\ conversation' = target
      /\ handoff' = HandoffAfter(optOut, handedOff, specialized)
      /\ optedOut' = (optedOut \/ optOut)
  BY DEF Apply
<1>2. ExtractionOK(x, facts, Recent) /\ ~optedOut BY DEF Apply, DossierInv, JobInv
<1>3. JobInv' BY DEF Apply, Complete, JobInv, Idle
<1> HIDE DEF x, correction, changed, active, result, specialized
<1>0. /\ optOut => "do_not_contact" \in Usable(active)
      /\ "do_not_contact" \in DOMAIN active => optOut
  <2>1. "do_not_contact" \notin DOMAIN signals BY <1>2 DEF DossierInv, RowsInv
  <2>2. "do_not_contact" \in Codes(x.signals) <=> optOut
    BY <1>2 DEF ExtractionOK, OptOutProposed, Of, Codes
  <2>3. optOut => "do_not_contact" \in DOMAIN SignalsAfter(x.signals)
    BY <2>2, FreeSignalStays, FreeSignalsAreFree DEF FreeSignals
  <2>4. optOut => "do_not_contact" \in Usable(active)
    BY <1>2, <2>3, OptOutIsSignalled DEF ExtractionOK, DossierInv, RowsInv, active
  <2>5. "do_not_contact" \in DOMAIN active => "do_not_contact" \in Codes(x.signals)
    BY <2>1 DEF active, SignalsAfter, Remaining, Entering
  <2> QED BY <2>2, <2>4, <2>5
<1>4. OptOutDominates'
  <2>1. conversation' = "do_not_contact" <=> optOut
    BY <1>1 DEF ConversationTarget
  <2>2. lead'.state = "do_not_contact" <=> optOut
    BY <1>1 DEF LeadTarget
  <2>3. optOut => ~pending' BY <1>1 DEF QuestionStands
  <2>4. optOut => result.action = "stop_automation" /\ ~result.handoff
    BY <1>0, StopMeansStop DEF result
  <2>5. optOut => handoff'.status # "requested"
    <3>1. "status" \in DOMAIN handoff BY DEF DossierInv, RowsInv
    <3> QED BY <1>1, <3>1 DEF HandoffAfter
  <2> HIDE DEF optOut
  <2> QED BY <1>1, <1>2, <2>1, <2>2, <2>3, <2>4, <2>5 DEF OptOutDominates
<1>9. HotLeadsReachAHuman'
  <2> SUFFICES ASSUME result.classification \in {"hot", "priority"}
               PROVE  conversation' \in {"waiting_human", "do_not_contact"}
    BY <1>1 DEF HotLeadsReachAHuman
  <2>1. CASE optOut BY <1>1, <2>1 DEF ConversationTarget
  <2>2. CASE ~optOut
    <3>1. "do_not_contact" \notin Usable(active) BY <1>0, <2>2 DEF Usable
    <3>2. result.handoff BY <3>1, HotMeansHandoff DEF result
    <3> QED BY <1>1, <2>2, <3>2 DEF ConversationTarget
  <2> QED BY <2>1, <2>2
<1>5. OneSignalPerGroup'
  <2>1. OneEach(DOMAIN signals) BY DEF DossierInv, OneSignalPerGroup, OneEach
  <2>2. OneEach(DOMAIN active) BY <1>2, <2>1, OneSignalStays DEF ExtractionOK, active
  <2> QED BY <1>1, <2>2 DEF OneSignalPerGroup, OneEach
<1>6. ConflictsSignalled'
  <2>1. Disputed(x, correction) # {} => "contradictory_information" \in Codes(x.signals)
    <3> SUFFICES ASSUME NEW f \in Disputed(x, correction)
                 PROVE  "contradictory_information" \in Codes(x.signals)
      OBVIOUS
    <3>1. /\ f \in DOMAIN x.fields \cap DOMAIN facts
          /\ facts[f].value # x.fields[f].value
      BY DEF Disputed, Contested, Candidates, Differs
    <3>2. f \in Contradictions(x.fields)
      BY <1>2, <3>1 DEF ExtractionOK, DifferencesKnown, Contradictions
    <3> QED BY <1>2, <3>2 DEF ExtractionOK, DifferencesKnown
  <2>2. conflicts' # {} =>
          "contradictory_information" \in DOMAIN signals \cup Codes(x.signals)
    BY <1>1, <2>1 DEF DossierInv, ConflictsSignalled
  <2>3. conflicts' # {} => "contradictory_information" \in DOMAIN SignalsAfter(x.signals)
    BY <2>2, FreeSignalStays, FreeSignalsAreFree DEF FreeSignals
  <2> QED BY <1>1, <2>3 DEF ConflictsSignalled, active
<1>7. RowsInv'
  <2>1. lead'.opportunity \in Opportunities
    BY <1>1, <1>2 DEF OpportunityAfter, ExtractionOK, DossierInv, RowsInv
  <2>2. asked' \in Seq(Askable)
    BY <1>1, <1>2 DEF ExtractionOK, DossierInv, RowsInv
  <2>3. StopIsNumber'
    BY <1>1, <1>2, OptOutIsSignalled DEF ExtractionOK, DossierInv, RowsInv, StopIsNumber, active
  <2>4. "do_not_contact" \in DOMAIN signals' => optedOut' BY <1>0, <1>1
  <2>5. /\ "status" \in DOMAIN handoff'
        /\ handoff'.status # "cancelled" \/ optedOut'
    <3> HIDE DEF optOut, handedOff
    <3> QED BY <1>1, <1>2 DEF HandoffAfter, DossierInv, RowsInv
  <2> QED BY <2>1, <2>2, <2>3, <2>4, <2>5 DEF RowsInv
<1>8. NoFieldAskedTwice'
  <2>1. CASE asked' = asked BY <2>1 DEF NoFieldAskedTwice, DossierInv
  <2>2. CASE asked' # asked
    <3>1. asked' = Append(asked, x.question) /\ x.question # None BY <1>1, <2>2
    <3> QED BY <1>2, <3>1, QuestionIsAppended DEF ExtractionOK, DossierInv, RowsInv
  <2> QED BY <2>1, <2>2
<1> QED BY <1>3, <1>4, <1>5, <1>6, <1>7, <1>8, <1>9 DEF DossierInv

LEMMA NextDossier == DossierInv /\ [Next]_vars => DossierInv'
<1> SUFFICES ASSUME DossierInv, [Next]_vars PROVE DossierInv' OBVIOUS
<1>1. ASSUME NEW text \in Texts, Receive(text) PROVE DossierInv'
  BY <1>1, JobStep DEF Receive
<1>2. CASE Block BY <1>2, JobStep DEF Block
<1>3. CASE Prepare
  <2>1. /\ "pc" \in DOMAIN job' /\ job'.pc # "extracted"
        /\ ~optedOut /\ UNCHANGED records
    BY <1>3 DEF Prepare, Blocked
  <2> QED BY <2>1, JobStep
<1>4. ASSUME NEW failure \in DOMAIN Retryable, ProviderFails(failure) PROVE DossierInv'
  BY <1>4, FailedStep DEF ProviderFails
<1>5. ASSUME NEW p \in Payloads, ProviderAnswers(p) PROVE DossierInv'
  BY <1>5, AnswerStep
<1>6. CASE GiveUp
  <2>1. "pc" \in DOMAIN job' /\ job'.pc = "idle" BY <1>6 DEF GiveUp, Idle
  <2> QED BY <1>6, <2>1, JobStep DEF GiveUp
<1>7. CASE Refuse
  <2>1. "pc" \in DOMAIN job' /\ job'.pc = "idle" BY <1>7 DEF Refuse, Complete, Idle
  <2> QED BY <1>7, <2>1, JobStep DEF Refuse
<1>8. CASE Apply BY <1>8, ApplyStep
<1>9. CASE UNCHANGED vars BY <1>9, JobStep DEF vars
<1>10. CASE Age BY <1>10, JobStep DEF Age
<1> QED BY <1>1, <1>2, <1>3, <1>4, <1>5, <1>6, <1>7, <1>8, <1>9, <1>10 DEF Next

(* The invariant holds for all answers, windows and limits.                  *)
THEOREM DossierInvariance == Spec => []DossierInv
  BY InitDossier, NextDossier, PTL DEF Spec

(* Whatever the provider says or fails to say, an applied opt-out leaves the *)
(* lead and the conversation stopped, no question pending and nobody to hand *)
(* over to, and the evaluation says stop.                                    *)
THEOREM OptOutIsAbsolute == Spec => []OptOutDominates
<1>1. DossierInv => OptOutDominates BY DEF DossierInv
<1> QED BY <1>1, DossierInvariance, PTL

(* However many signals an extraction proposes, and in whatever order, one   *)
(* signal of each exclusive group stays active.                              *)
THEOREM SignalsAreExclusive == Spec => []OneSignalPerGroup
<1>1. DossierInv => OneSignalPerGroup BY DEF DossierInv
<1> QED BY <1>1, DossierInvariance, PTL

(* An open conflict of the profile is known to the scoring.                  *)
THEOREM ConflictsReachScoring == Spec => []ConflictsSignalled
<1>1. DossierInv => ConflictsSignalled BY DEF DossierInv
<1> QED BY <1>1, DossierInvariance, PTL

(* A question is decided on the questions asked when the extraction was      *)
(* accepted and asked in a later transaction: none is asked again within     *)
(* RecentLimit.                                                              *)
THEOREM QuestionsAreNew == Spec => []NoFieldAskedTwice
<1>1. DossierInv => NoFieldAskedTwice BY DEF DossierInv
<1> QED BY <1>1, DossierInvariance, PTL

(* What replaces a value of the profile is marked as a contradiction when it *)
(* is extracted, so that no confidence makes it current without a correction. *)
THEOREM OnlyCorrectionsOverwrite == Spec => OverwriteNeedsCorrection
<1>1. ASSUME DossierInv, [Next]_vars,
             NEW f \in DOMAIN facts \cap DOMAIN facts', facts'[f].value # facts[f].value
      PROVE  "correction" \in inbox[facts'[f].writer].says
  <2>1. CASE Apply
    <3> DEFINE x == job.extraction
               m == job.message
               correction == "correction" \in inbox[m].says
    <3>1. facts' = FactsAfter(x, m, correction) BY <2>1 DEF Apply
    <3>2. ExtractionOK(x, facts, Recent) BY <1>1, <2>1 DEF Apply, DossierInv, JobInv
    <3> HIDE DEF x, m, correction
    <3>3. /\ f \in Written(x, correction)
          /\ facts'[f].value = x.fields[f].value
          /\ facts'[f].writer = m
      BY <1>1, <3>1 DEF FactsAfter
    <3>4. Differs(x.fields[f], f) /\ f \in DOMAIN x.fields
      BY <1>1, <3>3 DEF Differs, Written, Candidates
    <3>5. StatusOf(x.fields[f]) = "rejected"
      <4>1. x.fields[f].treatment = "contradicted"
        BY <1>1, <3>2, <3>4 DEF Differs, ExtractionOK, DifferencesKnown
      <4> QED BY <4>1 DEF StatusOf
    <3>6. correction BY <1>1, <3>3, <3>4, <3>5 DEF Written, BecomesCurrent, Corrects
    <3> QED BY <3>3, <3>6 DEF correction
  <2>2. CASE ~Apply
    <3>1. facts' = facts
      BY <1>1, <2>2 DEF Next, Receive, Age, Block, Prepare, ProviderFails, ProviderAnswers, GiveUp,
                        Refuse, vars, records
    <3> QED BY <1>1, <3>1
  <2> QED BY <2>1, <2>2
<1>2. DossierInv /\ [Next]_vars =>
        [\A f \in DOMAIN facts \cap DOMAIN facts' :
           facts'[f].value # facts[f].value =>
             "correction" \in inbox[facts'[f].writer].says]_vars
  BY <1>1
<1> QED BY <1>2, DossierInvariance, PTL DEF Spec, OverwriteNeedsCorrection

(* The classification, the rules of the policy and the request of the        *)
(* provider are three sources of a handoff: whichever decides, a hot or      *)
(* priority lead leaves the automation.                                      *)
THEOREM HotLeadsAreHandedOver == Spec => []HotLeadsReachAHuman
<1>1. DossierInv => HotLeadsReachAHuman BY DEF DossierInv
<1> QED BY <1>1, DossierInvariance, PTL

(* The question an extraction chose avoids the fields that the extraction    *)
(* makes known, and a question stands only through transactions that write   *)
(* no field.                                                                 *)
THEOREM OpenQuestionsAreOpen == Spec => QuestionsStillOpen
<1>1. ASSUME DossierInv, [Next]_vars, pending'
      PROVE  asked'[Len(asked')] \notin DOMAIN facts' \ DOMAIN facts
  <2>1. CASE Apply
    <3> DEFINE x == job.extraction
               correction == "correction" \in inbox[job.message].says
               written == Written(x, correction)
               optOut == "do_not_contact" \in x.controls
               result == EvaluationAfter(SignalsAfter(x.signals))
               handedOff == ~optOut /\ (x.handoff # None \/ result.handoff)
               question == IF optOut \/ handedOff THEN None ELSE x.question
               stands == QuestionStands(written, optOut, handedOff)
    <3>1. /\ facts' = FactsAfter(x, job.message, correction)
          /\ asked' = IF question # None /\ ~stands THEN Append(asked, question) ELSE asked
          /\ stands \/ question # None
      BY <1>1, <2>1 DEF Apply
    <3>2. ExtractionOK(x, facts, Recent) BY <1>1, <2>1 DEF Apply, DossierInv, JobInv
    <3> HIDE DEF x, correction, result
    <3>3. DOMAIN facts' = DOMAIN facts \cup written BY <3>1 DEF FactsAfter
    <3>4. CASE stands
      <4>1. written = {} BY <3>4 DEF QuestionStands
      <4> QED BY <3>3, <4>1
    <3>5. CASE ~stands
      <4>1. x.question # None /\ asked' = Append(asked, x.question) BY <3>1, <3>5
      <4>2. asked \in Seq(Askable) BY <1>1 DEF DossierInv, RowsInv
      <4>3. asked'[Len(asked')] = x.question BY <4>1, <4>2
      <4>4. written \ DOMAIN facts \subseteq AcceptedFields(x.fields)
        BY DEF Written, Candidates, BecomesCurrent, StatusOf, AcceptedFields
      <4>5. x.question \notin AcceptedFields(x.fields)
        BY <3>2, <4>1 DEF ExtractionOK
      <4> QED BY <3>3, <4>3, <4>4, <4>5
    <3> QED BY <3>4, <3>5
  <2>2. CASE ~Apply
    <3>1. facts' = facts
      BY <1>1, <2>2 DEF Next, Receive, Age, Block, Prepare, ProviderFails, ProviderAnswers,
                        GiveUp, Refuse, vars, records
    <3> QED BY <3>1
  <2> QED BY <2>1, <2>2
<1>2. DossierInv /\ [Next]_vars =>
        [pending' => asked'[Len(asked')] \notin DOMAIN facts' \ DOMAIN facts]_vars
  BY <1>1
<1> QED BY <1>2, DossierInvariance, PTL DEF Spec, QuestionsStillOpen
-----------------------------------------------------------------------------
LEMMA CapGrows ==
  ASSUME NEW maximum \in Nat, NEW m \in Nat, NEW n \in Nat, m <= n
  PROVE  AtMost(maximum, m) <= AtMost(maximum, n) /\ AtMost(maximum, m) \in Nat
  BY DEF AtMost

LEMMA NeedGrows ==
  ASSUME NEW o, NEW codes, NEW more, codes \subseteq more
  PROVE  NeedCompatibility(o, codes) <= NeedCompatibility(o, more)
<1> DEFINE Points5(S, s) == Worth(S, s, 5)
<1>1. \A s : /\ Points5(codes, s) \in Nat /\ Points5(more, s) \in Nat
             /\ Points5(codes, s) <= Points5(more, s)
  BY WorthGrows
<1>2. /\ NeedCompatibility(o, codes) =
           Points5(codes, "need_defined") + Points5(codes, "coverage_confirmed")
             + Points5(codes, "commercial_requirements_compatible")
             + (IF o \in PlanOpportunities THEN Points5(codes, "plan_compatible") ELSE 0)
             + (IF o \in DeviceOpportunities THEN Points5(codes, "device_compatible") ELSE 0)
      /\ NeedCompatibility(o, more) =
           Points5(more, "need_defined") + Points5(more, "coverage_confirmed")
             + Points5(more, "commercial_requirements_compatible")
             + (IF o \in PlanOpportunities THEN Points5(more, "plan_compatible") ELSE 0)
             + (IF o \in DeviceOpportunities THEN Points5(more, "device_compatible") ELSE 0)
  BY DEF NeedCompatibility
<1> HIDE DEF Points5
<1>3. CASE o \in PlanOpportunities /\ o \in DeviceOpportunities BY <1>1, <1>2, <1>3
<1>4. CASE o \in PlanOpportunities /\ o \notin DeviceOpportunities BY <1>1, <1>2, <1>4
<1>5. CASE o \notin PlanOpportunities /\ o \in DeviceOpportunities BY <1>1, <1>2, <1>5
<1>6. CASE o \notin PlanOpportunities /\ o \notin DeviceOpportunities BY <1>1, <1>2, <1>6
<1> QED BY <1>3, <1>4, <1>5, <1>6

LEMMA OthersGrow ==
  ASSUME NEW codes, NEW more, codes \subseteq more
  PROVE  /\ Engagement(codes) <= Engagement(more)
         /\ CommercialPotential(codes) <= CommercialPotential(more)
         /\ Penalty(codes) <= Penalty(more)
<1>1. Engagement(codes) <= Engagement(more) BY WorthGrows DEF Engagement
<1>2. CommercialPotential(codes) <= CommercialPotential(more)
  BY WorthGrows DEF CommercialPotential
<1>3. Penalty(codes) <= Penalty(more) BY WorthGrows DEF Penalty
<1> QED BY <1>1, <1>2, <1>3

LEMMA PointsGrow ==
  ASSUME NEW o, NEW codes, NEW more, codes \subseteq more
  PROVE  Points(o, codes) <= Points(o, more)
<1> DEFINE Need(S) == AtMost(25, NeedCompatibility(o, S))
           Intent(S) == AtMost(25, Best(S, IntentLevels))
           Budget(S) == AtMost(20, Best(S, BudgetLevels))
           Urgency(S) == AtMost(15, Best(S, UrgencyLevels))
           Engaged(S) == AtMost(10, Engagement(S))
           Potential(S) == AtMost(5, CommercialPotential(S))
<1>1. Need(codes) <= Need(more) /\ Need(codes) \in Nat /\ Need(more) \in Nat
  BY CapGrows, NeedGrows, DimensionsAreNumbers DEF AtMost
<1>2. Intent(codes) <= Intent(more) /\ Intent(codes) \in Nat /\ Intent(more) \in Nat
  BY CapGrows, BestGrows, LevelsInRange, DimensionsAreNumbers DEF AtMost
<1>3. Budget(codes) <= Budget(more) /\ Budget(codes) \in Nat /\ Budget(more) \in Nat
  BY CapGrows, BestGrows, LevelsInRange, DimensionsAreNumbers DEF AtMost
<1>4. Urgency(codes) <= Urgency(more) /\ Urgency(codes) \in Nat /\ Urgency(more) \in Nat
  BY CapGrows, BestGrows, LevelsInRange, DimensionsAreNumbers DEF AtMost
<1>5. Engaged(codes) <= Engaged(more) /\ Engaged(codes) \in Nat /\ Engaged(more) \in Nat
  BY CapGrows, OthersGrow, DimensionsAreNumbers DEF AtMost
<1>6. /\ Potential(codes) <= Potential(more)
      /\ Potential(codes) \in Nat /\ Potential(more) \in Nat
  BY CapGrows, OthersGrow, DimensionsAreNumbers DEF AtMost
<1>7. /\ Points(o, codes) = Need(codes) + Intent(codes) + Budget(codes) + Urgency(codes)
                             + Engaged(codes) + Potential(codes)
      /\ Points(o, more) = Need(more) + Intent(more) + Budget(more) + Urgency(more)
                            + Engaged(more) + Potential(more)
  BY DEF Points
<1> HIDE DEF Need, Intent, Budget, Urgency, Engaged, Potential
<1> QED BY <1>1, <1>2, <1>3, <1>4, <1>5, <1>6, <1>7

(* No signal lowers the score of a lead by more than the penalty it carries,  *)
(* whatever the levels and the caps of the dimensions.                      *)
THEOREM SignalsCostTheirPenalty ==
  ASSUME NEW o, NEW codes, NEW more, codes \subseteq more
  PROVE  Score(o, more) >= Score(o, codes) - (Penalty(more) - Penalty(codes))
<1> DEFINE p == Points(o, codes)
           q == Points(o, more)
           i == Penalty(codes)
           j == Penalty(more)
<1>1. p \in Nat /\ q \in Nat /\ i \in Nat /\ j \in Nat BY ScoreOfPoints
<1>2. p <= q /\ i <= j BY PointsGrow, OthersGrow
<1>3. Score(o, codes) = Clamp(p - i) /\ Score(o, more) = Clamp(q - j) BY ScoreOfPoints
<1> HIDE DEF p, q, i, j
<1>4. Clamp(q - j) >= Clamp(p - i) - (j - i) BY <1>1, <1>2 DEF Clamp
<1> QED BY <1>3, <1>4 DEF i, j

(* Nobody becomes a priority lead without a need, an intent and a budget: the *)
(* other dimensions do not reach its band.                                  *)
THEOREM PriorityIsComplete ==
  ASSUME NEW o, NEW found, Evaluate(o, found).classification = "priority"
  PROVE  /\ NeedCompatibility(o, Usable(found)) > 0
         /\ Usable(found) \cap DOMAIN IntentLevels # {}
         /\ Usable(found) \cap DOMAIN BudgetLevels # {}
<1> DEFINE codes == Usable(found)
           score == Score(o, codes)
<1>1. score \in 0..100 BY ScoreBounds
<1>2. BandOf(score).classification = "priority" BY DEF Evaluate
<1> HIDE DEF score
<1>3. BandOf(score).minimum <= score /\ BandOf(score) \in Bands
  BY <1>1, BandIsReached
<1>4. \A b \in Bands : b.classification = "priority" => b.minimum = 85 BY DEF Bands, Band
<1>5. score >= 85 BY <1>1, <1>2, <1>3, <1>4
<1> HIDE DEF codes
<1>6. Points(o, codes) >= 85
  <2>1. score = Clamp(Points(o, codes) - Penalty(codes)) BY ScoreOfPoints DEF score
  <2>2. Points(o, codes) \in Nat /\ Penalty(codes) \in Nat BY ScoreOfPoints
  <2> QED BY <1>5, <2>1, <2>2 DEF Clamp
<1> DEFINE need == AtMost(25, NeedCompatibility(o, codes))
           intent == AtMost(25, Best(codes, IntentLevels))
           budget == AtMost(20, Best(codes, BudgetLevels))
           urgency == AtMost(15, Best(codes, UrgencyLevels))
           engaged == AtMost(10, Engagement(codes))
           potential == AtMost(5, CommercialPotential(codes))
<1>7. need \in 0..25 /\ intent \in 0..25 /\ budget \in 0..20
  BY DimensionsAreNumbers DEF AtMost
<1>8. urgency \in 0..15 /\ engaged \in 0..10 /\ potential \in 0..5
  BY DimensionsAreNumbers DEF AtMost
<1>9. Points(o, codes) = need + intent + budget + urgency + engaged + potential BY DEF Points
<1>10. /\ NeedCompatibility(o, codes) = 0 => need = 0
       /\ Best(codes, IntentLevels) = 0 => intent = 0
       /\ Best(codes, BudgetLevels) = 0 => budget = 0
  BY DEF AtMost
<1> HIDE DEF need, intent, budget, urgency, engaged, potential
<1>11. need > 0 /\ intent > 0 /\ budget > 0 BY <1>6, <1>7, <1>8, <1>9
<1>12. NeedCompatibility(o, codes) > 0 BY <1>10, <1>11, DimensionsAreNumbers
<1>13. codes \cap DOMAIN IntentLevels # {} BY <1>10, <1>11, NoLevelNoPoints
<1>14. codes \cap DOMAIN BudgetLevels # {} BY <1>10, <1>11, NoLevelNoPoints
<1> QED BY <1>12, <1>13, <1>14 DEF codes
=============================================================================
