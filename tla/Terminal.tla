------------------------------- MODULE Terminal --------------------------------
(***************************************************************************)
(* The dev console: handle_keyboard_input of src/src/util/input.c, which   *)
(* main calls once per frame and which reads at most one byte, and         *)
(* get_line and lines_in_file of src/src/util/file_io.c.                   *)
(*                                                                         *)
(* The line is a C string in a buffer of LINE_WIDTH bytes.  What lies past *)
(* its terminating zero is kept: the loops that shift the text and strcpy  *)
(* leave old bytes there.  An arrow key arrives as a sequence of bytes, ESC *)
(* first, then '[', then a letter; the letters of arrow keys, typed by     *)
(* themselves, are characters like any other.                              *)
(***************************************************************************)
EXTENDS Integers, Sequences, SequencesExt, FiniteSetsExt

CONSTANTS
  Chars,       \* the characters that are typed, all alike
  NUL,         \* the zero byte
  LINE_WIDTH,  \* the size of the input buffer, 512
  MaxHistory,  \* bound: lines in the history file
  MaxBack      \* bound: how far the history position is moved up

ASSUME TerminalAssumption ==
  /\ NUL \notin Chars
  /\ LINE_WIDTH \in Nat \ {0, 1} /\ MaxHistory \in Nat /\ MaxBack \in Nat

VARIABLES
  isOpen, quit,
  special_keymode,   \* the static flag: an escape sequence has begun
  input,             \* the buffer, all LINE_WIDTH bytes
  cursorPos, hist_pos,
  history,           \* terminal_history.txt; no line means no file
  running            \* FALSE once the program has crashed

vars == <<isOpen, quit, special_keymode, input, cursorPos, hist_pos, history, running>>

Arrows == {"VK_UP", "VK_DOWN", "VK_RIGHT", "VK_LEFT"}

Index == 0 .. LINE_WIDTH - 1

strlen(s) == Min({n \in Index : s[n] = NUL} \cup {LINE_WIDTH})

\* The text that a buffer holds.
Text(s) == [i \in 1 .. strlen(s) |-> s[i - 1]]

\* The texts that fit into one call of fgets together with their newline.  The
\* bound is the model's: longer ones are split, and beyond the buffer the code
\* itself writes on.
Texts == BoundedSeq(Chars, LINE_WIDTH - 2)

strcpy(s, t) ==
  [i \in Index |-> IF i < Len(t) THEN t[i + 1] ELSE IF i = Len(t) THEN NUL ELSE s[i]]

Cleared == [i \in Index |-> NUL]

Init ==
  /\ isOpen = FALSE /\ quit = FALSE /\ special_keymode = FALSE /\ running = TRUE
  /\ input = Cleared
  /\ cursorPos = 0 /\ hist_pos = 0
  /\ history \in {<<>>} \cup {<<t>> : t \in Texts}

(***************************************************************************)
(* Faulty variants of definitions below, in no specification.              *)
(***************************************************************************)
TerminateNothing(s) == s

(***************************************************************************)
(* The console is closed: one key opens it, one quits, the rest is ignored *)
(***************************************************************************)
OpenConsole ==
  /\ ~isOpen
  /\ isOpen' = TRUE
  /\ UNCHANGED <<quit, special_keymode, input, cursorPos, hist_pos, history, running>>

QuitKey ==
  /\ ~isOpen
  /\ quit' = TRUE
  /\ UNCHANGED <<isOpen, special_keymode, input, cursorPos, hist_pos, history, running>>

(***************************************************************************)
(* The console is open, and a byte of an escape sequence arrives.  Bytes   *)
(* other than the letter of an arrow are swallowed and change nothing.     *)
(***************************************************************************)
StartSequence ==
  /\ isOpen
  /\ special_keymode' = TRUE
  /\ UNCHANGED <<isOpen, quit, input, cursorPos, hist_pos, history, running>>

MoveCursor(key) ==
  /\ \/ key = "VK_LEFT"
        /\ cursorPos' = IF cursorPos > 0 THEN cursorPos - 1 ELSE cursorPos
     \/ key = "VK_RIGHT"
        /\ cursorPos' = IF cursorPos < strlen(input) THEN cursorPos + 1 ELSE cursorPos
  /\ special_keymode' = FALSE
  /\ UNCHANGED <<input, hist_pos, running>>

\* Which line of the file get_line(line_num) copies, counted from 1.
FileLine(line_num) ==
  Len(history) - (IF line_num >= Len(history) THEN Len(history) ELSE line_num) + 1

(***************************************************************************)
(* get_line reads the file into an array of as many lines as the file has. *)
(* Line 0 is the row after its last: whatever the stack holds there.       *)
(* Without a file, lines_in_file passes NULL to getc.                      *)
(***************************************************************************)
get_line(line_num) ==
  IF history = <<>>
    THEN running' = FALSE /\ UNCHANGED <<input, cursorPos, special_keymode>>
    ELSE /\ IF FileLine(line_num) > Len(history)
              THEN \E junk \in Texts : input' = strcpy(input, junk)
              ELSE input' = strcpy(input, history[FileLine(line_num)])
         /\ cursorPos' = strlen(input')
         /\ special_keymode' = FALSE
         /\ running' = running

MoveInHistory(key) ==
  /\ \/ key = "VK_UP" /\ hist_pos < MaxBack /\ hist_pos' = hist_pos + 1 /\ get_line(hist_pos')
     \/ key = "VK_DOWN" /\ hist_pos > 0 /\ hist_pos' = hist_pos - 1 /\ get_line(hist_pos')
     \/ /\ key = "VK_DOWN" /\ hist_pos = 0
        /\ special_keymode' = FALSE
        /\ UNCHANGED <<input, cursorPos, hist_pos, running>>

ArrowKey(key) ==
  /\ isOpen /\ special_keymode
  /\ MoveCursor(key) \/ MoveInHistory(key)
  /\ UNCHANGED <<isOpen, quit, history>>

(***************************************************************************)
(* The console is open, and a byte outside of an escape sequence arrives.  *)
(* What the line does when Lua runs it is left out, and so is the crash    *)
(* that follows when the history file cannot be opened.                    *)
(***************************************************************************)
Return ==
  /\ isOpen /\ ~special_keymode
  /\ Len(history) < MaxHistory
  /\ history' = Append(history, Text(input))
  /\ input' = Cleared
  /\ isOpen' = FALSE
  /\ cursorPos' = 0 /\ hist_pos' = 0
  /\ UNCHANGED <<quit, special_keymode, running>>

\* The text from index i on moves back by one; the loop ends at the zero.
ShiftBack(s, i) == [j \in Index |-> IF i <= j /\ j < strlen(s) THEN s[j + 1] ELSE s[j]]

Backspace ==
  /\ isOpen /\ ~special_keymode
  /\ cursorPos > 0
  /\ cursorPos' = cursorPos - 1
  /\ input' = ShiftBack(input, cursorPos - 1)
  /\ UNCHANGED <<isOpen, quit, special_keymode, hist_pos, history, running>>

\* A zero is put after the text's own zero, over which the text then moves.
Terminate(s) == [s EXCEPT ![strlen(s) + 1] = NUL]

ShiftForth(s, i, len) == [j \in Index |-> IF i < j /\ j <= len THEN s[j - 1] ELSE s[j]]

InsertChar(c) ==
  /\ isOpen /\ ~special_keymode
  /\ strlen(input) < LINE_WIDTH - 2
  /\ input' = [ShiftForth(Terminate(input), cursorPos, strlen(input)) EXCEPT ![cursorPos] = c]
  /\ cursorPos' = cursorPos + 1
  /\ UNCHANGED <<isOpen, quit, special_keymode, hist_pos, history, running>>

handle_keyboard_input ==
  \/ OpenConsole
  \/ QuitKey
  \/ StartSequence
  \/ \E key \in Arrows : ArrowKey(key)
  \/ Return
  \/ Backspace
  \/ \E c \in Chars : InsertChar(c)

\* main's loop ends when quit is set.
Next == running /\ ~quit /\ handle_keyboard_input

Spec == Init /\ [][Next]_vars

(***************************************************************************)
(* Properties                                                              *)
(***************************************************************************)
TypeOK ==
  /\ {isOpen, quit, special_keymode, running} \subseteq BOOLEAN
  /\ input \in [Index -> Chars \cup {NUL}]
  /\ cursorPos \in 0 .. LINE_WIDTH - 1 /\ hist_pos \in 0 .. MaxBack
  /\ history \in Seq(Texts) /\ Len(history) <= MaxHistory

Editor == INSTANCE LineEditor WITH
  MaxText <- LINE_WIDTH - 2,
  open <- isOpen,
  left <- SubSeq(Text(input), 1, cursorPos),
  right <- SubSeq(Text(input), cursorPos + 1, strlen(input)),
  lines <- history,
  back <- hist_pos,
  alive <- running

(***************************************************************************)
(* Whatever was typed, erased, recalled and submitted before, the buffer   *)
(* behaves like a line with a cursor: each key changes the text at the     *)
(* cursor and nowhere else, no byte from behind the terminating zero comes *)
(* back, an arrow recalls the line it should, and what is submitted is     *)
(* what is shown (input.c, the branches of handle_keyboard_input).         *)
(***************************************************************************)
EditsAsShown == Editor!Spec
===============================================================================
