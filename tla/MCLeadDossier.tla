---------------------------- MODULE MCLeadDossier ----------------------------
(**************************************************************************)
(* Two messages of context and, about each message, the answers of the      *)
(* provider that bring the tables of the code into play: brands that agree, *)
(* disagree with the profile, or disagree with each other; sure and unsure, *)
(* quoted and not; two opportunities with different required fields;        *)
(* signals of overlapping groups; a wish to contract together with one to be *)
(* contacted no more; a lead that is warm and one that is hot.                  *)
(***************************************************************************)
EXTENDS LeadDossier

At(value, m, confidence) ==
  [value |-> value, message |-> m, verbatim |-> TRUE, confidence |-> confidence]

Brand(value, m, state, verbatim, confidence) ==
  [field |-> "brand", value |-> value, message |-> m, state |-> state,
   verbatim |-> verbatim, confidence |-> confidence]

Sure(code, m) == [code |-> code, message |-> m, verbatim |-> TRUE, confidence |-> 95]

Quiet(primary, m) ==
  [wellFormed |-> TRUE, units |-> TRUE, fields |-> <<>>, signals |-> <<>>, controls |-> {},
   intent |-> Nothing, urgency |-> Nothing, handoff |-> Nothing, question |-> None,
   opportunity |-> [primary |-> primary, message |-> m, verbatim |-> TRUE, confidence |-> 90]]

(* With nothing required any more there is no question: what a first message *)
(* needs for the conversation to start.                                      *)
Acts(m) ==
  [field |-> "requested_action", value |-> "buy", message |-> m, state |-> "observed",
   verbatim |-> TRUE, confidence |-> 90]

PayloadsAbout(m) ==
  {[Quiet("unidentified", m) EXCEPT
      !.fields = <<Acts(m), Brand("a", m, "observed", TRUE, 95)>>],
   [Quiet("device_purchase", m) EXCEPT
      !.fields = <<Brand("b", m, "observed", TRUE, 90)>>,
      !.urgency = At("this_week", m, 90),
      !.signals = <<Sure("compares_products", m), Sure("research_only", m)>>],
   [Quiet("plan_subscription", m) EXCEPT
      !.fields = <<Brand("a", m, "inferred", FALSE, 100), Brand("b", m, "observed", TRUE, 70)>>,
      !.intent = At("price_inquiry", m, 90)],
   [Quiet("device_purchase", m) EXCEPT
      !.intent = At("contract", m, 95),
      !.controls = {[control |-> "do_not_contact", message |-> m,
                      verbatim |-> TRUE, confidence |-> 95]}],
   [Quiet("device_purchase", m) EXCEPT
      !.signals = <<Sure("need_defined", m), Sure("budget_and_payment_defined", m),
                    Sure("immediate", m), Sure("compares_products", m)>>,
      !.question = "payment_method"]}

Hot(m) ==
  [Quiet("unidentified", m) EXCEPT
     !.signals = <<Sure("need_defined", m), Sure("asks_requirements", m),
                   Sure("budget_and_payment_defined", m), Sure("immediate", m),
                   Sure("business_account", m), Sure("provides_relevant_information", m),
                   Sure("answers_qualification_questions", m), Sure("sustained_progress", m)>>]

Text(says, length) == [says |-> says, length |-> length]

MCTexts ==
  {Text({}, 1), Text({}, 2), Text({"correction"}, 1), Text({"human_requested"}, 1),
   Text({"do_not_contact"}, 1)}

(* The selection of the context agrees with the loop of the code, also where *)
(* a message that does not fit is passed over for an older one.              *)
Wide == INSTANCE ExtractionContext
          WITH Texts <- {Text({}, n) : n \in 1..4}, Window <- 3, MaxCharacters <- 3

ASSUME SelectionIsTheLoop ==
  \A n \in 1..4 : \A inbox1 \in [1..n -> {Text({}, k) : k \in 1..4}], aged1 \in 0..n :
    Wide!Selections(inbox1, aged1) = {Wide!SelectedByLoop(inbox1, aged1)}

MCPayloads == UNION {PayloadsAbout(m) \cup {Hot(m)} : m \in 1..MaxMessages}
=============================================================================
