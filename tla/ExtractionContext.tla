--------------------------- MODULE ExtractionContext ---------------------------
(**************************************************************************)
(* What ExtractionContextPreparer (telecom_extraction/context.py) selects of *)
(* a conversation for the provider, within its limits of age, of messages   *)
(* and of characters, and what its patterns find in the selected messages.  *)
(*                                                                          *)
(* Messages are numbered in the order they were sent; a text is kept as its *)
(* length once redacted and what the patterns of the code find in it.       *)
(* Redaction itself and the summary are left out.                           *)
(**************************************************************************)
EXTENDS Integers, Sequences, FiniteSets, FiniteSetsExt

CONSTANTS
  Texts,          \* the texts of the messages
  Window,         \* messages of a context
  MaxCharacters   \* characters of a context

Controls == {"human_requested", "do_not_contact"}

ASSUME ContextAssumption ==
  /\ \A text \in Texts : /\ text.says \in SUBSET (Controls \cup {"correction"})
                         /\ text.length \in Nat \ {0}
  /\ Window \in Nat \ {0}
  /\ MaxCharacters \in Nat \ {0}

(* The newest Window of the messages sent within the limit of age, or the    *)
(* newest message if all of them are older.  aged is the newest older one.   *)
Eligible(inbox, aged) ==
  LET recent == {m \in DOMAIN inbox : m > aged}
  IN  {m \in (IF recent = {} THEN {Len(inbox)} ELSE recent) : m > Len(inbox) - Window}

(* Characters used up by the selected messages newer than m: the newest one  *)
(* is cut to what a context can hold.                                        *)
Consumed(inbox, selected, m) ==
  LET Length(n) == inbox[n].length
  IN  Min({MaxCharacters, MapThenSumSet(Length, {n \in selected : n > m})})

(* A message that does not fit is passed over, and the next older one tried; *)
(* the newest one always fits.                                               *)
Fits(inbox, selected, m) ==
  LET remaining == MaxCharacters - Consumed(inbox, selected, m)
  IN  /\ remaining > 0
      /\ inbox[m].length <= remaining \/ {n \in selected : n > m} = {}

(* There is exactly one such set, for membership of a message depends on the *)
(* newer ones only: the one SelectedByLoop computes.                         *)
Selections(inbox, aged) ==
  {selected \in SUBSET Eligible(inbox, aged) :
     \A m \in Eligible(inbox, aged) : m \in selected <=> Fits(inbox, selected, m)}

(* The loop of the code, from the newest message to the oldest.              *)
SelectedByLoop(inbox, aged) ==
  LET After[m \in 1..(Len(inbox) + 1)] ==
        IF m > Len(inbox) THEN [selected |-> {}, consumed |-> 0]
        ELSE LET newer == After[m + 1]
                 remaining == MaxCharacters - newer.consumed
             IN  IF m \notin Eligible(inbox, aged) \/ remaining <= 0 THEN newer
                 ELSE IF inbox[m].length <= remaining \/ newer.selected = {}
                   THEN [selected |-> newer.selected \cup {m},
                         consumed |-> newer.consumed + Min({remaining, inbox[m].length})]
                 ELSE newer
  IN  After[1].selected

(* The patterns read the selected messages as they were written, uncut.      *)
Heard(inbox, context) == (UNION {inbox[m].says : m \in context}) \cap Controls
=============================================================================
