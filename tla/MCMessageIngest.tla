--------------------------- MODULE MCMessageIngest ---------------------------
(**************************************************************************)
(* Deliveries 1 and 2 are the same message, 3 has its identity and comes    *)
(* from another contact in another conversation, 4 is a later message of    *)
(* the first conversation with more to tell of its contact, and 5 comes     *)
(* from the second contact and names the first conversation, which a worker *)
(* processes.                                                               *)
(***************************************************************************)
EXTENDS MessageIngest

MCMessageOf == <<"m1", "m1", "m1", "m2", "m3">>
MCContactOf == <<"c1", "c1", "c2", "c1", "c2">>
MCConversationOf == <<"x1", "x1", "x2", "x1", "x1">>
MCContent == <<"hello", "hello", "hello", "more", "other">>
MCSent == <<1, 1, 1, 4, 4>>
MCReceived == <<2, 3, 2, 4, 5>>
MCWorkOn == [w \in Workers |-> "x1"]
=============================================================================
