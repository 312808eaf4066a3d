------------------------------ MODULE TextLine ------------------------------
(***************************************************************************)
(* What a line editor promises: a text of limited length and a cursor in   *)
(* it.  A key puts characters in at the cursor, takes the one before it    *)
(* out, or moves the cursor by one; nothing else of the text changes       *)
(* before the line is entered.                                             *)
(***************************************************************************)
EXTENDS Integers, Sequences

CONSTANT Size

VARIABLES text, cursor, entered

vars == <<text, cursor, entered>>

Before == SubSeq(text, 1, cursor)
Behind == SubSeq(text, cursor + 1, Len(text))

(* Up to two characters, and the cursor goes with them.                    *)
Edit ==
  \E n \in 0 .. 2, move \in -1 .. 1 :
    /\ n = Len(text') - Len(text)
    /\ Len(text') <= Size
    /\ text' = Before \o SubSeq(text', cursor + 1, cursor + n) \o Behind
    /\ cursor' = cursor + n + move /\ cursor' \in 0 .. Len(text')

Erase ==
  /\ cursor > 0
  /\ text' = SubSeq(text, 1, cursor - 1) \o Behind
  /\ cursor' = cursor - 1

Init == text = << >> /\ cursor = 0 /\ entered = FALSE

Next ==
  \/ ~entered /\ (Edit \/ Erase) /\ UNCHANGED entered
  \/ ~entered /\ entered' = TRUE /\ UNCHANGED <<text, cursor>>
  \/ entered /\ text' = << >> /\ cursor' = 0 /\ entered' = FALSE

Spec == Init /\ [][Next]_vars
=============================================================================
