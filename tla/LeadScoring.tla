----------------------------- MODULE LeadScoring -----------------------------
(**************************************************************************)
(* The lead scoring engine (lead_qualification/scoring.py) with the policy  *)
(* it is run with (default_policy.py): from the codes of the usable signals *)
(* of a lead to a score between 0 and 100, a classification, an action and  *)
(* whether a person has to take over.                                       *)
(*                                                                          *)
(* Texts, blocked offers, effects and the state a rule recommends are left  *)
(* out: nothing of the conversation depends on them.                        *)
(**************************************************************************)
EXTENDS Integers, FiniteSets, FiniteSetsExt

PlanOpportunities ==
  {"device_with_plan", "plan_subscription", "new_line", "portability", "renewal",
   "prepaid_to_postpaid", "multiple_lines", "business_account"}

DeviceOpportunities ==
  {"device_purchase", "device_with_plan", "renewal", "multiple_lines", "business_account"}

(* What the signals are worth: some count each on its own, others are levels *)
(* of which the best one present counts.                                     *)
Worth(codes, signal, points) == IF signal \in codes THEN points ELSE 0

Best(codes, levels) == Max({0} \cup {levels[s] : s \in codes \cap DOMAIN levels})

NeedCompatibility(opportunity, codes) ==
  Worth(codes, "need_defined", 5)
    + Worth(codes, "coverage_confirmed", 5)
    + Worth(codes, "commercial_requirements_compatible", 5)
    + (IF opportunity \in PlanOpportunities THEN Worth(codes, "plan_compatible", 5) ELSE 0)
    + (IF opportunity \in DeviceOpportunities THEN Worth(codes, "device_compatible", 5)
       ELSE 0)

IntentLevels ==
  [general_information |-> 3, asks_price |-> 7, asks_monthly_payment |-> 10,
   asks_availability |-> 12, compares_products |-> 15, asks_requirements |-> 18,
   requests_quote |-> 20, requests_portability |-> 22, wants_contract_now |-> 25]

BudgetLevels ==
  [budget_unspecified |-> 2, budget_incompatible |-> 5, accepts_alternatives |-> 10,
   budget_compatible |-> 15, budget_and_payment_defined |-> 20]

UrgencyLevels ==
  [research_only |-> 2, purchase_over_three_months |-> 5, next_month |-> 9,
   this_week |-> 12, immediate |-> 15]

Engagement(codes) ==
  Worth(codes, "provides_relevant_information", 3)
    + Worth(codes, "answers_qualification_questions", 3)
    + Worth(codes, "sustained_progress", 2)
    + Worth(codes, "accepts_call_or_branch", 2)

CommercialPotential(codes) ==
  Worth(codes, "device_and_plan", 2) + Worth(codes, "accessory_interest", 1)
    + Worth(codes, "multiple_lines", 3) + Worth(codes, "business_account", 5)

(* An opt-out costs no points, it stops everything.                          *)
Penalty(codes) ==
  Worth(codes, "no_coverage", 20) + Worth(codes, "device_out_of_stock", 10)
    + Worth(codes, "budget_incompatible_no_alternatives", 15)
    + Worth(codes, "purchase_over_six_months", 8)
    + Worth(codes, "contradictory_information", 5)
    + Worth(codes, "prolonged_inactivity", 5)

(* Every decision but the opt-out requires a handoff, a specialized one if   *)
(* its action says so.                                                       *)
Rule(priority, signals, action) ==
  [priority |-> priority, signals |-> signals, action |-> action]

Decisions ==
  {Rule(1000, {"do_not_contact"}, "stop_automation"),
   Rule(950, {"requests_human"}, "immediate_handoff"),
   Rule(900, {"business_account", "multiple_lines"}, "specialized_handoff"),
   Rule(850, {"wants_contract_now"}, "immediate_handoff"),
   Rule(800, {"requests_portability"}, "immediate_handoff"),
   Rule(700, {"requests_quote"}, "notify_advisor"),
   Rule(690, {"device_out_of_stock", "accepts_alternatives"}, "immediate_handoff"),
   Rule(650, {"requires_human_review"}, "notify_advisor"),
   Rule(600, {"contradictory_information"}, "notify_advisor")}

Band(minimum, classification, action) ==
  [minimum |-> minimum, classification |-> classification, action |-> action]

BandsWithoutAdvisor ==
  {Band(0, "exploration", "resolve_and_present_options"),
   Band(30, "cold", "automated_follow_up"),
   Band(50, "warm", "collect_missing_information"),
   Band(70, "hot", "collect_missing_information"),
   Band(85, "priority", "immediate_handoff")}

Bands ==
  {Band(0, "exploration", "resolve_and_present_options"),
   Band(30, "cold", "automated_follow_up"),
   Band(50, "warm", "collect_missing_information"),
   Band(70, "hot", "notify_advisor"),
   Band(85, "priority", "immediate_handoff")}

HandoffActions == {"notify_advisor", "immediate_handoff", "specialized_handoff"}
-----------------------------------------------------------------------------
MinimumSignalConfidence == 70

(* signals maps the code of each active signal to its confidence.            *)
Usable(signals) == {s \in DOMAIN signals : signals[s] >= MinimumSignalConfidence}

Clamp(n) == IF n < 0 THEN 0 ELSE IF n > 100 THEN 100 ELSE n

AtMost(maximum, points) == IF points > maximum THEN maximum ELSE points

(* The points of each dimension are capped, their sum less the penalties is  *)
(* clamped.                                                                  *)
Score(opportunity, codes) ==
  Clamp(AtMost(25, NeedCompatibility(opportunity, codes))
          + AtMost(25, Best(codes, IntentLevels))
          + AtMost(20, Best(codes, BudgetLevels))
          + AtMost(15, Best(codes, UrgencyLevels))
          + AtMost(10, Engagement(codes))
          + AtMost(5, CommercialPotential(codes))
          - Penalty(codes))

BandOf(score) ==
  CHOOSE b \in Bands :
    /\ b.minimum <= score
    /\ \A other \in Bands : other.minimum <= score => other.minimum <= b.minimum

Selected(matched) ==
  CHOOSE d \in matched : \A other \in matched : other.priority <= d.priority

(* The opt-out stops everything; else the first decision rules; else what    *)
(* the classification recommends, unless a blocked offer sends the           *)
(* conversation to look for alternatives first.                              *)
Action(codes, band) ==
  LET matched == {d \in Decisions : d.signals \subseteq codes}
  IN  IF "do_not_contact" \in codes THEN "stop_automation"
      ELSE IF matched # {} THEN Selected(matched).action
      ELSE IF /\ band.action \notin HandoffActions
              /\ codes \cap {"no_coverage", "device_out_of_stock"} # {}
             THEN "search_alternatives"
      ELSE band.action

(* LeadScoringEngine.evaluate on the active signals and the opportunity.     *)
Evaluate(opportunity, signals) ==
  LET codes == Usable(signals)
      score == Score(opportunity, codes)
      action == Action(codes, BandOf(score))
  IN  [score |-> score, classification |-> BandOf(score).classification,
       action |-> action, handoff |-> action \in HandoffActions,
       specialized |-> action = "specialized_handoff"]
=============================================================================
