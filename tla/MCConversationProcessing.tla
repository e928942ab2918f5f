---------------------- MODULE MCConversationProcessing ----------------------
(***************************************************************************)
(* Instances of ConversationProcessing for TLC: functions a configuration  *)
(* file cannot write.                                                      *)
(***************************************************************************)
EXTENDS ConversationProcessing, FiniteSetsExt, TLC

CONSTANTS c1, c2, contact

OneConversation == [m \in Messages |-> c1]
TwoConversations == 1 :> c1 @@ 2 :> c2
ThirdElsewhere == 1 :> c1 @@ 2 :> c1 @@ 3 :> c2
OneContact == [c \in Conversations |-> contact]

AllPlain == [m \in Messages |-> "plain"]
OptOutFirst == [m \in Messages |-> IF m = 1 THEN "opt_out" ELSE "plain"]
OptOutSecond == [m \in Messages |-> IF m = 2 THEN "opt_out" ELSE "plain"]
HumanThenOptOut == 1 :> "human" @@ 2 :> "plain" @@ 3 :> "opt_out" @@ 4 :> "plain"
OptOutThird == [m \in Messages |-> IF m = 3 THEN "opt_out" ELSE "plain"]

(* A context holds three characters: as many as the first message has, or as *)
(* three others.                                                            *)
LengthOf == [m \in Messages |-> IF m = 1 THEN 3 ELSE 1]
LongFirst ==
  LET Length(m) == LengthOf[m]
  IN  {messages \in SUBSET Messages : MapThenSumSet(Length, messages) <= 3}
AllFit == SUBSET Messages
=============================================================================
