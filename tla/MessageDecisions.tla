--------------------------- MODULE MessageDecisions ---------------------------
(**************************************************************************)
(* What processing promises the business, whatever workers, leases and      *)
(* retries do: a message is decided at most once; a contact that opted out  *)
(* is asked nothing and handed to nobody any more, and keeps no handoff or  *)
(* question in the conversation it opted out in; a conversation that waits  *)
(* for a human decides nothing but an opt-out.                              *)
(*                                                                          *)
(* ConversationProcessing implements this specification for all             *)
(* conversations of a contact, LeadDossier for one.                         *)
(**************************************************************************)
CONSTANTS Messages, ConvOf, ContactOf

VARIABLES
  decided,       \* messages whose result has been applied
  stopped,       \* contacts that opted out
  paused,        \* conversations handed to a human
  asking         \* conversations with a question for the customer

decisionVars == <<decided, stopped, paused, asking>>

DecisionsInit == decided = {} /\ stopped = {} /\ paused = {} /\ asking = {}

Decide(m) == m \notin decided /\ decided' = decided \cup {m}

Automated(c) == ContactOf[c] \notin stopped /\ c \notin paused

(* The customer is answered, with or without a new question, and a question  *)
(* that is settled is dropped.                                               *)
Answer(m) ==
  LET c == ConvOf[m]
  IN  /\ Decide(m) /\ Automated(c)
      /\ asking' \in {asking, asking \cup {c}, asking \ {c}}
      /\ UNCHANGED <<stopped, paused>>

HandOff(m) ==
  LET c == ConvOf[m]
  IN  /\ Decide(m) /\ Automated(c)
      /\ paused' = paused \cup {c}
      /\ asking' = asking \ {c}
      /\ UNCHANGED stopped

Stop(m) ==
  LET c == ConvOf[m]
  IN  /\ Decide(m)
      /\ stopped' = stopped \cup {ContactOf[c]}
      /\ paused' = paused \ {c}
      /\ asking' = asking \ {c}

DecisionsNext == \E m \in Messages : Answer(m) \/ HandOff(m) \/ Stop(m)

DecisionsSpec == DecisionsInit /\ [][DecisionsNext]_decisionVars
=============================================================================
