------------------------------- MODULE Screen -------------------------------
(***************************************************************************)
(* The text output of src/vga/vga.c: video memory as vga_buffer addresses  *)
(* it, with a line's worth of memory in front of it and one behind, the    *)
(* cursor's position and the CRT controller's.  All of it runs with nobody *)
(* between: interrupt handlers print only while the thread waits for them. *)
(* A call of vga_printf is a step for each character it prints.            *)
(***************************************************************************)
EXTENDS Integers, Sequences

CONSTANTS
  Width, Height,  \* VGA_WIDTH and VGA_HEIGHT: 80 and 25
  Chars,          \* printable characters
  Colors,         \* colour bytes
  vga_color,      \* the one vga_init sets
  CursorSpan,     \* 2^16: the width of the controller's position
  Puts            \* bound: the colours and characters put one by one

Controls == {"nl", "cr", "bs", "tab"}

ASSUME ScreenAssumption ==
  /\ Width \in Nat \ {0} /\ Height \in Nat \ {0}
  /\ vga_color \in Colors /\ CursorSpan \in Nat \ {0}
  /\ Puts \subseteq Colors \X (Chars \cup Controls)

Visible == 0 .. Width * Height - 1
Memory == -Width .. Width * (Height + 1) - 1
Foreign == <<"foreign">>   \* what lies around video memory

VARIABLES
  vga_buffer,           \* index |-> cell, in Memory
  vga_row, vga_column,  \* a column of -n is 2^32 - n
  crt,                  \* the position vga_update_cursor wrote last
  mode                  \* "idle", "printf", "hung" or "lost"

vars == <<vga_buffer, vga_row, vga_column, crt, mode>>

Space == " "
vga_entry(ch, color) == <<ch, color>>
Blank(color) == vga_entry(Space, color)

----------------------------------------------------------------------------
\* What the routines do to the three variables, as a record.
Screen == [buffer |-> vga_buffer, row |-> vga_row, column |-> vga_column]

Index(s) == s.row * Width + s.column

\* Slip: the rows are copied from the bottom up.
vga_scroll_up_FromBelow(s) ==
  [s EXCEPT !.buffer = [i \in Memory |->
     IF i < (Height - 1) * Width THEN s.buffer[(Height - 1) * Width + (i % Width)]
     ELSE IF i < Height * Width THEN Blank(vga_color) ELSE s.buffer[i]]]

\* Row y goes to row y - 1, from the top; row 0 to in front of video memory.
vga_scroll_up(s) ==
  LET Moved[y \in 0 .. Height] ==
        IF y = 0 THEN s.buffer
        ELSE [i \in Memory |-> IF i \in (y - 2) * Width .. (y - 1) * Width - 1
                               THEN Moved[y - 1][i + Width] ELSE Moved[y - 1][i]]
  IN  [s EXCEPT !.buffer = [i \in Memory |->
         IF i \in (Height - 1) * Width .. Height * Width - 1 THEN Blank(vga_color)
         ELSE Moved[Height][i]]]

vga_new_line(s) ==
  [(IF s.row < Height - 1 THEN [s EXCEPT !.row = @ + 1] ELSE vga_scroll_up(s))
     EXCEPT !.column = 0]

\* Slip: the next line is not looked for.
Stamp_Unwrapped(s, cell) == [s EXCEPT !.buffer[Index(s)] = cell, !.column = @ + 1]

\* The default case of the three routines that print.
Stamp(s, cell) ==
  LET t == IF s.column = Width THEN vga_new_line(s) ELSE s
  IN  [t EXCEPT !.buffer[Index(t)] = cell, !.column = @ + 1]

Backspace(s, blank) ==
  LET t == IF s.column = 0 /\ s.row # 0 THEN [s EXCEPT !.row = @ - 1, !.column = Width] ELSE s
  IN  [t EXCEPT !.buffer[Index(t) - 1] = blank, !.column = @ - 1]

\* The loop does not count tab_len down: blanks to the end of what is mapped.
Tab(s, blank) ==
  [s EXCEPT !.buffer = [i \in Memory |-> IF i >= Index(s) THEN blank ELSE @[i]]]

vga_put(s, color, ch) ==
  CASE ch = "nl" -> vga_new_line(s)
    [] ch = "cr" -> [s EXCEPT !.column = 0]
    [] ch = "bs" -> Backspace(s, Blank(color))
    [] ch = "tab" -> Tab(s, Blank(color))
    [] OTHER -> Stamp(s, vga_entry(ch, color))

vga_update_cursor(s) == crt' = Index(s) % CursorSpan

Becomes(s) ==
  /\ vga_buffer' = s.buffer /\ vga_row' = s.row /\ vga_column' = s.column
  /\ s.column > -Width   \* bound: backspaces at home

----------------------------------------------------------------------------
\* vga_init
Init ==
  /\ vga_buffer = [i \in Memory |-> IF i \in Visible THEN Blank(vga_color) ELSE Foreign]
  /\ vga_row = 0 /\ vga_column = 0 /\ crt = 0
  /\ mode = "idle"

\* vga_put_char, also for each character of vga_print and vga_printf's "%c", and
\* vga_put_charc, whose blanks have its colour.
vga_put_char(color, ch) ==
  LET s == vga_put(Screen, color, ch)
  IN  /\ mode = "idle" \/ (mode = "printf" /\ color = vga_color)
      /\ Becomes(s)
      /\ IF ch = "tab" THEN mode' = "hung" /\ UNCHANGED crt
         ELSE vga_update_cursor(s) /\ UNCHANGED mode

vga_printf ==
  /\ mode = "idle" /\ mode' = "printf"
  /\ UNCHANGED <<vga_buffer, vga_row, vga_column, crt>>

\* A character of the format: only '\n' is one that is not printed as it is.
\* The cursor follows to a new line only.
PrintfChar(ch) ==
  LET fresh == vga_new_line(Screen)
  IN  /\ mode = "printf"
      /\ Becomes(IF ch = "nl" THEN fresh ELSE Stamp(Screen, vga_entry(ch, vga_color)))
      /\ IF ch = "nl" \/ vga_column = Width THEN vga_update_cursor(fresh) ELSE UNCHANGED crt
      /\ UNCHANGED mode

\* "%d" and "%x": itoa writes where the uninitialized num points.  If that is
\* nobody's memory the digits appear, by vga_put_char; else anything may follow.
PrintfNumber ==
  /\ mode = "printf" /\ mode' = "lost"
  /\ UNCHANGED <<vga_buffer, vga_row, vga_column, crt>>

\* Slip: the cursor is left behind.
PrintfEnd_NoUpdate ==
  /\ mode = "printf" /\ mode' = "idle"
  /\ UNCHANGED <<vga_buffer, vga_row, vga_column, crt>>

PrintfEnd ==
  /\ mode = "printf" /\ mode' = "idle"
  /\ vga_update_cursor(Screen)
  /\ UNCHANGED <<vga_buffer, vga_row, vga_column>>

vga_set_pos(row, col) ==
  /\ mode = "idle"
  /\ vga_row' = row /\ vga_column' = col
  /\ crt' = (row * Width + col) % CursorSpan
  /\ UNCHANGED <<vga_buffer, mode>>

Next ==
  \/ \E call \in Puts : vga_put_char(call[1], call[2])
  \/ vga_printf
  \/ \E ch \in Chars \cup {"nl"} : PrintfChar(ch)
  \/ PrintfNumber
  \/ PrintfEnd
  \/ \E row \in 0 .. Height - 1, col \in 0 .. Width : vga_set_pos(row, col)

Spec == Init /\ [][Next]_vars

----------------------------------------------------------------------------
TypeOK ==
  /\ vga_buffer \in [Memory -> ((Chars \cup {Space}) \X Colors) \cup {Foreign}]
  /\ vga_row \in 0 .. Height - 1 /\ vga_column \in 1 - Width .. Width
  /\ crt \in 0 .. CursorSpan - 1
  /\ mode \in {"idle", "printf", "hung", "lost"}

\* Between calls the blinking cursor is where the next character will be,
\* whichever way the text got there: vga.h asks every routine to see to it.
CursorShown ==
  /\ TypeOK
  /\ mode = "idle" => crt = Index(Screen) % CursorSpan

\* Video memory shows the lines that the text makes: flat indices, the scroll's
\* copying in place and the wrap before the next character come to what vga.h
\* says of lines.
Shown ==
  [lines |-> [r \in 1 .. Height |-> [c \in 1 .. Width |->
                                      vga_buffer[(r - 1) * Width + c - 1]]],
   row |-> vga_row, column |-> vga_column]
Lines == INSTANCE Text WITH Normal <- vga_color, page <- Shown
ShowsText == Lines!Spec

\* What lies around video memory is left alone, but for the line in front, which
\* gets the top line when the screen scrolls and a blank for each backspace at
\* home, or a character there.
SpillsInFront ==
  [][\A i \in Memory \ Visible :
       \/ vga_buffer'[i] = vga_buffer[i]
       \/ mode' = "hung"
       \/ i < 0 /\ vga_buffer'[i] = vga_buffer[i + Width]
       \/ i < 0 /\ vga_row = 0 /\ vga_column <= 0]_vars
=============================================================================
