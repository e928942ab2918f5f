------------------------------ MODULE EventFeed ------------------------------
(**************************************************************************)
(* What the outbox promises to the side that listens, whatever publishers,  *)
(* leases and lost answers do: an event reaches the sink only after it was   *)
(* announced and, when it is published, before that; it is published or     *)
(* given up, once and for good.  The sink may be handed an event again, and *)
(* may even take one that was given up: delivery is at least once.          *)
(*                                                                          *)
(* ConversationOutbox implements this specification.                        *)
(**************************************************************************)
CONSTANTS
  Events,
  Refused        \* events the sink never takes

VARIABLES
  announced,     \* events the application committed to telling
  taken,         \* events the sink has taken
  published,     \* events recorded as delivered
  givenUp        \* events recorded as undeliverable

feedVars == <<announced, taken, published, givenUp>>

FeedInit == announced = {} /\ taken = {} /\ published = {} /\ givenUp = {}

Open(e) == e \in announced /\ e \notin published /\ e \notin givenUp

Announce(e) ==
  /\ e \notin announced
  /\ announced' = announced \cup {e}
  /\ UNCHANGED <<taken, published, givenUp>>

Take(e) ==
  /\ e \in announced /\ e \notin Refused
  /\ taken' = taken \cup {e}
  /\ UNCHANGED <<announced, published, givenUp>>

Publish(e) ==
  /\ Open(e) /\ e \in taken
  /\ published' = published \cup {e}
  /\ UNCHANGED <<announced, taken, givenUp>>

GiveUp(e) ==
  /\ Open(e)
  /\ givenUp' = givenUp \cup {e}
  /\ UNCHANGED <<announced, taken, published>>

FeedNext == \E e \in Events : Announce(e) \/ Take(e) \/ Publish(e) \/ GiveUp(e)

FeedSpec == FeedInit /\ [][FeedNext]_feedVars
=============================================================================
