-------------------------- MODULE ConversationStates --------------------------
(**************************************************************************)
(* The states of a conversation and of a lead, and the transitions that      *)
(* ConversationStateMachine and LeadStateMachine (domain.py of              *)
(* telecom_conversations) allow.                                            *)
(**************************************************************************)

ConversationState ==
  {"open", "qualifying", "waiting_customer", "waiting_human", "human_active",
   "automated_paused", "do_not_contact", "closed"}

(* What the conversation state machine lets a worker do: reopening a stopped *)
(* or closed conversation and taking one over are left to a human actor.    *)
AllowedFrom ==
  LET stops == {"automated_paused", "do_not_contact", "closed"}
  IN  [open             |-> {"qualifying", "waiting_human"} \cup stops,
       qualifying       |-> {"waiting_customer", "waiting_human"} \cup stops,
       waiting_customer |-> {"qualifying", "waiting_human"} \cup stops,
       waiting_human    |-> {"qualifying"} \cup stops,
       human_active     |-> {"waiting_customer", "qualifying"} \cup stops,
       automated_paused |-> {"waiting_human", "qualifying", "do_not_contact", "closed"},
       do_not_contact   |-> {},
       closed           |-> {}]

LeadState ==
  {"new", "in_conversation", "qualifying", "incomplete_information", "qualified",
   "pending_validation", "quote_requested", "quote_sent", "transferred_to_advisor",
   "contacted_by_advisor", "portability_started", "contracting_started", "sale_completed",
   "lost", "duplicate", "do_not_contact"}

(* Of the states that name other targets than an opt-out, what they name.    *)
LeadAllowedFrom ==
  LET anywhere == {"qualifying", "incomplete_information", "qualified"}
      leaves == {"transferred_to_advisor", "lost"}
  IN  [new                    |-> anywhere \cup {"in_conversation", "duplicate"},
       in_conversation        |-> anywhere \cup leaves,
       qualifying             |-> (anywhere \ {"qualifying"}) \cup leaves
                                    \cup {"pending_validation"},
       incomplete_information |-> (anywhere \ {"incomplete_information"}) \cup leaves,
       qualified              |-> (anywhere \ {"qualified"}) \cup leaves
                                    \cup {"quote_requested"},
       quote_requested        |-> leaves \cup {"quote_sent"},
       transferred_to_advisor |-> {"contacted_by_advisor", "qualifying", "qualified", "lost"},
       contacted_by_advisor   |-> {"quote_requested", "portability_started",
                                   "contracting_started", "lost"}]

(* A worker may leave a state as it is, stop any lead that is neither sold   *)
(* nor a duplicate, and never reopen a stopped one.                          *)
LeadMayBecome(current, target) ==
  \/ target = current
  \/ target = "do_not_contact" /\ current \notin {"sale_completed", "duplicate"}
  \/ current \in DOMAIN LeadAllowedFrom /\ target \in LeadAllowedFrom[current]
=============================================================================
