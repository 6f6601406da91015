------------------------------ MODULE LineEditor ------------------------------
(***************************************************************************)
(* What the dev console promises the person at the keyboard: a line of     *)
(* text with a cursor in it, a list of the lines submitted so far, and     *)
(* arrow keys that move in the line and recall older or newer lines.  The  *)
(* text is kept as what is left and what is right of the cursor: there is  *)
(* no buffer, no terminating zero and no escape sequence here.             *)
(*                                                                         *)
(* Two things the code does are kept, because the user sees them: asking   *)
(* for the line newer than the newest shows arbitrary text, and recalling  *)
(* anything before a first line was ever submitted ends the program.       *)
(***************************************************************************)
EXTENDS Integers, Sequences, SequencesExt

CONSTANTS
  Chars,     \* what can be typed into a line
  MaxText    \* the longest text that is typed

VARIABLES open, left, right, lines, back, alive

vars == <<open, left, right, lines, back, alive>>

Texts == BoundedSeq(Chars, MaxText)

Init ==
  /\ open = FALSE /\ alive = TRUE
  /\ left = <<>> /\ right = <<>> /\ back = 0
  /\ lines \in {<<>>} \cup {<<t>> : t \in Texts}

Open ==
  /\ ~open
  /\ open' = TRUE
  /\ UNCHANGED <<left, right, lines, back, alive>>

Edit ==
  /\ open
  /\ \/ \E c \in Chars : left' = Append(left, c) /\ right' = right
     \/ left # <<>> /\ left' = Front(left) /\ right' = right
     \/ left # <<>> /\ left' = Front(left) /\ right' = <<Last(left)>> \o right
     \/ right # <<>> /\ left' = Append(left, Head(right)) /\ right' = Tail(right)
  /\ UNCHANGED <<open, lines, back, alive>>

\* Of the lines, the one submitted k submissions ago; the first one from there on back.
Line(k) == lines[IF k > Len(lines) THEN 1 ELSE Len(lines) + 1 - k]

Recall ==
  /\ open
  /\ back' \in {back + 1, back - 1} \cap Nat
  /\ \/ lines = <<>> /\ alive' = FALSE /\ UNCHANGED <<left, right>>
     \/ /\ lines # <<>> /\ alive' = alive
        /\ IF back' = 0 THEN left' \in Texts ELSE left' = Line(back')
        /\ right' = <<>>
  /\ UNCHANGED <<open, lines>>

Submit ==
  /\ open
  /\ open' = FALSE
  /\ lines' = Append(lines, left \o right)
  /\ left' = <<>> /\ right' = <<>> /\ back' = 0
  /\ alive' = alive

Next == alive = TRUE /\ (Open \/ Edit \/ Recall \/ Submit)

Spec == Init /\ [][Next]_vars
===============================================================================
