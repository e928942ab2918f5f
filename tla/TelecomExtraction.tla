--------------------------- MODULE TelecomExtraction ---------------------------
(**************************************************************************)
(* From the payload of the extraction provider to what the application      *)
(* accepts of it (telecom_extraction/processing.py): references, local      *)
(* confidence, contradictions, missing information, question, handoff and   *)
(* signals.                                                                 *)
(*                                                                          *)
(* Messages are numbered in the order they were sent, 0 is no message.      *)
(* Confidence is in percent.  An evidence is kept as the one thing the code *)
(* asks of it: whether it is a verbatim part of the message it names.       *)
(* Texts, units, secondary opportunities and the overall confidence are     *)
(* left out; a payload whose values cannot be normalised says so.           *)
(**************************************************************************)
EXTENDS Integers, Sequences, FiniteSets, FiniteSetsExt

(* What each opportunity requires to be known, most important first.         *)
Required ==
  [device_purchase     |-> <<"brand", "device_budget", "payment_method",
                             "purchase_timeframe">>,
   device_with_plan    |-> <<"brand", "device_budget", "monthly_budget", "data_usage",
                             "line_count", "purchase_timeframe">>,
   plan_subscription   |-> <<"monthly_budget", "data_usage", "portability", "line_count">>,
   new_line            |-> <<"monthly_budget", "data_usage", "line_count",
                             "purchase_timeframe">>,
   portability         |-> <<"keep_number", "current_operator", "purchase_timeframe",
                             "monthly_budget">>,
   renewal             |-> <<"current_operator", "plan", "purchase_timeframe">>,
   prepaid_to_postpaid |-> <<"current_operator", "monthly_budget", "data_usage">>,
   accessory           |-> <<"product_category", "device_budget", "purchase_timeframe">>,
   multiple_lines      |-> <<"line_count", "monthly_budget", "purchase_timeframe">>,
   business_account    |-> <<"line_count", "device_included", "purchase_timeframe",
                             "contact_role", "requested_action">>,
   unidentified        |-> <<"requested_action">>]

Opportunities == DOMAIN Required

(* The fields with a question text of their own.                             *)
Templated ==
  {"brand", "device_budget", "monthly_budget", "payment_method", "purchase_timeframe",
   "data_usage", "portability", "keep_number", "current_operator", "line_count",
   "device_included", "contact_role", "requested_action", "product_category", "plan"}

None == "none"
AutoAccept == 85
Provisional == 65
ConfirmationRequired == 40

ForbiddenFields == {"coverage", "inventory"}

ForbiddenSignals ==
  {"plan_compatible", "device_compatible", "coverage_confirmed",
   "commercial_requirements_compatible", "budget_incompatible", "budget_compatible",
   "budget_incompatible_no_alternatives", "no_coverage", "device_out_of_stock",
   "prolonged_inactivity", "contradictory_information", "do_not_contact"}
-----------------------------------------------------------------------------
(* ExtractionNormalizer: the items it keeps, and when it refuses.            *)
Mentions(p) == {i \in DOMAIN p.fields : p.fields[i].field \notin ForbiddenFields}

FieldsOf(p) == {p.fields[i].field : i \in Mentions(p)}

References(p) ==
  ({p.opportunity.message, p.intent.message, p.urgency.message, p.handoff.message}
     \cup {p.fields[i].message : i \in DOMAIN p.fields}
     \cup {p.signals[i].message : i \in DOMAIN p.signals}
     \cup {c.message : c \in p.controls}) \ {0}

NormalizableAnywhere(p, context) == p.wellFormed /\ p.units
Normalizable(p, context) == p.wellFormed /\ References(p) \subseteq context /\ p.units

Bounded(confidence) == Max({0, Min({100, confidence})})

EvidenceConfidence(finding) ==
  IF finding.message = 0 THEN Min({39, finding.confidence})
  ELSE Bounded(finding.confidence - (IF finding.verbatim THEN 0 ELSE 20))
-----------------------------------------------------------------------------
(* ConfidenceResolver.                                                       *)
SameValue(p, i) ==
  {j \in Mentions(p) : /\ p.fields[j].field = p.fields[i].field
                       /\ p.fields[j].value = p.fields[i].value}

FieldConfidence(p, i) ==
  LET item == p.fields[i]
      verified == item.confidence - (IF item.verbatim THEN 0 ELSE 20)
      stated == CASE item.state = "inferred" -> verified - 15
                  [] item.state = "unknown"  -> Min({39, verified})
                  [] OTHER                   -> verified
  IN  Bounded(stated + (IF Cardinality(SameValue(p, i)) > 1 THEN 5 ELSE 0))

Treatment(confidence, state) ==
  IF confidence >= AutoAccept /\ state = "observed" THEN "auto_accept"
  ELSE IF confidence >= Provisional THEN "provisional"
  ELSE IF confidence >= ConfirmationRequired THEN "confirmation_required"
  ELSE "rejected"
-----------------------------------------------------------------------------
(* ContradictionReconciler: of the mentions of one value the most confident  *)
(* one speaks for it, of the values of a field the latest one counts.        *)
Earlier(p, i, j) ==
  \/ p.fields[i].message < p.fields[j].message
  \/ p.fields[i].message = p.fields[j].message /\ i < j

Speaks(p, i) ==
  \A j \in SameValue(p, i) \ {i} :
    \/ FieldConfidence(p, j) < FieldConfidence(p, i)
    \/ FieldConfidence(p, j) = FieldConfidence(p, i) /\ Earlier(p, j, i)

Speakers(p, f) == {i \in Mentions(p) : p.fields[i].field = f /\ Speaks(p, i)}

FirstOf(p, i) ==
  CHOOSE j \in SameValue(p, i) : \A k \in SameValue(p, i) \ {j} : Earlier(p, j, k)

LatestOf(p, speakers) ==
  CHOOSE i \in speakers : \A j \in speakers \ {i} :
    \/ p.fields[j].message < p.fields[i].message
    \/ /\ p.fields[j].message = p.fields[i].message
       /\ Earlier(p, FirstOf(p, j), FirstOf(p, i))

(* A field of the payload after reconciliation with the profile.  doubt is   *)
(* the confidence of the contradiction, if there is one.                     *)
ReconciledAmongMentions(p, facts, f) ==
  LET latest == LatestOf(p, Speakers(p, f))
      others == Speakers(p, f) \ {latest}
      confidence == FieldConfidence(p, latest)
      item == p.fields[latest]
  IN  [value |-> item.value, message |-> item.message, state |-> item.state,
       confidence |-> IF others # {} THEN Max({0, confidence - 25}) ELSE confidence,
       treatment |-> IF others # {} THEN "contradicted" ELSE Treatment(confidence, item.state),
       doubt |-> Min({confidence} \cup {FieldConfidence(p, i) : i \in others})]

Reconciled(p, facts, f) ==
  LET latest == LatestOf(p, Speakers(p, f))
      others == Speakers(p, f) \ {latest}
      confidence == FieldConfidence(p, latest)
      item == p.fields[latest]
      contradicted == others # {} \/ (f \in DOMAIN facts /\ facts[f].value # item.value)
      previous == IF others = {} THEN latest ELSE LatestOf(p, others)
  IN  [value |-> item.value, message |-> item.message, state |-> item.state,
       confidence |-> IF contradicted THEN Max({0, confidence - 25}) ELSE confidence,
       treatment |-> IF contradicted THEN "contradicted"
                     ELSE Treatment(confidence, item.state),
       doubt |-> Min({confidence, FieldConfidence(p, previous)})]

Resolve(p, facts) == [f \in FieldsOf(p) |-> Reconciled(p, facts, f)]

Contradictions(fields) == {f \in DOMAIN fields : fields[f].treatment = "contradicted"}

AcceptedFields(fields) ==
  {f \in DOMAIN fields : fields[f].treatment \in {"auto_accept", "provisional"}}
-----------------------------------------------------------------------------
(* ExtractionDecisionService.  Local pattern matches stand whatever the      *)
(* provider says; a control of the provider needs evidence.                  *)
AcceptedControls(p, heard) ==
  heard \cup {c.control : c \in {d \in p.controls : EvidenceConfidence(d) >= AutoAccept}}

ControlConfidence(p, heard, control) ==
  IF control \in heard THEN 100
  ELSE Max({EvidenceConfidence(c) : c \in {d \in p.controls : d.control = control}})

AcceptedOpportunity(p) ==
  IF EvidenceConfidence(p.opportunity) < Provisional THEN "unidentified"
  ELSE p.opportunity.primary

Missing(opportunity, known) ==
  {Required[opportunity][i] : i \in DOMAIN Required[opportunity]} \ known

(* The kind of handoff the extraction calls for, the first reason first.     *)
SuggestedHandoff(p, controls, fields) ==
  LET special == controls \cap {"suspected_fraud", "complaint"} # {}
      business == p.opportunity.primary = "business_account"
      volume == /\ "line_count" \in AcceptedFields(fields)
                /\ fields["line_count"].value >= 10
      urgent == /\ p.opportunity.primary = "portability"
                /\ p.urgency.value \in {"immediate", "this_week"}
                /\ EvidenceConfidence(p.urgency) >= AutoAccept
      suggested == EvidenceConfidence(p.handoff) >= AutoAccept
  IN  IF "do_not_contact" \in controls THEN None
      ELSE IF "human_requested" \in controls THEN "general"
      ELSE IF special \/ business \/ volume THEN "specialized"
      ELSE IF urgent THEN "general"
      ELSE IF suggested THEN p.handoff.value
      ELSE None

FirstMention(p, f) == Min({i \in Mentions(p) : p.fields[i].field = f})

FirstRequired(opportunity, candidates) ==
  LET required == Required[opportunity]
  IN  required[Min({i \in DOMAIN required : required[i] \in candidates})]

(* The field to ask about: the first contradiction of the payload, else the  *)
(* first missing field, unless it was asked recently.  The provider's        *)
(* question is used when it is about that field, a text of our own           *)
(* otherwise; without either there is no question.                           *)
QuestionAlways(p, fields, missing, recent) ==
  LET unclear == Contradictions(fields)
  IN  IF unclear # {}
        THEN CHOOSE f \in unclear : \A g \in unclear : FirstMention(p, f) <= FirstMention(p, g)
      ELSE IF missing # {} THEN FirstRequired(AcceptedOpportunity(p), missing)
      ELSE None

Question(p, fields, missing, recent) ==
  LET unclear == Contradictions(fields) \ recent
      eligible == unclear \cup (missing \ recent)
      target == IF unclear # {}
                  THEN CHOOSE f \in unclear : \A g \in unclear :
                         FirstMention(p, f) <= FirstMention(p, g)
                  ELSE FirstRequired(AcceptedOpportunity(p), missing \ recent)
  IN  IF eligible # {} /\ (p.question = target \/ eligible \cap Templated # {})
        THEN target ELSE None
-----------------------------------------------------------------------------
(* ExtractionDomainMapper._signals: what is proposed for the profile, and    *)
(* its place in the order the code inserts it.  A firm proposal replaces an  *)
(* earlier one of the same code in place, the others only fill a gap.        *)
IntentSignal ==
  [exploration |-> "research_only", comparison |-> "compares_products",
   price_inquiry |-> "asks_price", monthly_payment_inquiry |-> "asks_monthly_payment",
   inventory_inquiry |-> "asks_availability", requirements_inquiry |-> "asks_requirements",
   quote_request |-> "requests_quote", portability_request |-> "requests_portability",
   contract |-> "wants_contract_now", purchase |-> "wants_contract_now"]

UrgencySignal ==
  [immediate |-> "immediate", this_week |-> "this_week",
   future |-> "purchase_over_three_months"]

OpportunitySignal ==
  [device_with_plan |-> "device_and_plan", accessory |-> "accessory_interest",
   multiple_lines |-> "multiple_lines", business_account |-> "business_account"]

Propose(place, code, confidence, firm) ==
  {[place |-> place, code |-> code, confidence |-> confidence, firm |-> firm]}

When(condition, proposals) == IF condition THEN proposals ELSE {}

ControlProposalOfPatterns(p, heard, place, control, code) ==
  When(control \in heard, Propose(place, code, 100, TRUE))

ControlProposal(p, heard, place, control, code) ==
  When(control \in AcceptedControls(p, heard),
       Propose(place, code, ControlConfidence(p, heard, control), TRUE))

FindingProposal(p, place, finding, table) ==
  When(/\ finding.value \in DOMAIN table
       /\ EvidenceConfidence(finding) >= AutoAccept
       /\ p.opportunity.message # 0,
       Propose(place, table[finding.value], EvidenceConfidence(p.opportunity), FALSE))

AcceptedSignals(p) ==
  {i \in DOMAIN p.signals : /\ p.signals[i].code \notin ForbiddenSignals
                            /\ EvidenceConfidence(p.signals[i]) >= AutoAccept}

Provided(p) ==
  UNION {Propose(i, p.signals[i].code, EvidenceConfidence(p.signals[i]), TRUE) :
           i \in AcceptedSignals(p)}

ContradictionProposal(place, fields) ==
  LET unclear == Contradictions(fields)
  IN  When(unclear # {}, Propose(place, "contradictory_information",
                                 Min({fields[f].doubt : f \in unclear}), TRUE))

OpportunityProposal(p, place) ==
  LET opportunity == AcceptedOpportunity(p)
  IN  When(opportunity \in DOMAIN OpportunitySignal,
           Propose(place, OpportunitySignal[opportunity],
                   EvidenceConfidence(p.opportunity), FALSE))

Signals(p, heard, fields) ==
  LET last == Len(p.signals)
  IN  Provided(p)
      \cup ControlProposal(p, heard, last + 1, "do_not_contact", "do_not_contact")
      \cup ControlProposal(p, heard, last + 2, "human_requested", "requests_human")
      \cup ContradictionProposal(last + 3, fields)
      \cup FindingProposal(p, last + 4, p.intent, IntentSignal)
      \cup FindingProposal(p, last + 5, p.urgency, UrgencySignal)
      \cup OpportunityProposal(p, last + 6)

(* accept and the mapper on a normalisable payload.                          *)
Accept(p, heard, facts, recent) ==
  LET fields == Resolve(p, facts)
      controls == AcceptedControls(p, heard)
      opportunity == AcceptedOpportunity(p)
      missing == Missing(opportunity, DOMAIN facts \cup AcceptedFields(fields))
      silent == controls \cap {"do_not_contact", "human_requested"} # {}
  IN  [opportunity |-> opportunity, fields |-> fields, controls |-> controls,
       handoff |-> SuggestedHandoff(p, controls, fields),
       question |-> IF silent THEN None ELSE Question(p, fields, missing, recent),
       signals |-> Signals(p, heard, fields)]

(* The payload that stands for an unavailable provider: nothing new, the     *)
(* opportunity of the lead as it is.                                         *)
Nothing == [value |-> None, message |-> 0, verbatim |-> TRUE, confidence |-> 0]

Fallback(opportunity, newest) ==
  [wellFormed |-> TRUE, units |-> TRUE, fields |-> <<>>, signals |-> <<>>, controls |-> {},
   intent |-> Nothing, urgency |-> Nothing, handoff |-> Nothing, question |-> None,
   opportunity |-> [primary |-> opportunity, message |-> newest, verbatim |-> TRUE,
                    confidence |-> IF opportunity = "unidentified" THEN 0 ELSE 100]]

Degraded(opportunity, newest, heard, facts) ==
  [Accept(Fallback(opportunity, newest), heard, facts, {}) EXCEPT !.question = None]
=============================================================================
