-------------------------------- MODULE Text --------------------------------
(***************************************************************************)
(* What src/vga/vga.h promises of the screen, without video memory: lines  *)
(* of cells, of which the top one is dropped and a blank one added below   *)
(* when the cursor leaves the last, and a cursor that stands on a cell or  *)
(* behind its line's last.                                                 *)
(***************************************************************************)
EXTENDS Integers, Sequences

CONSTANTS
  Width, Height,  \* VGA_WIDTH and VGA_HEIGHT: 80 and 25
  Chars,          \* printable characters
  Colors,         \* colour bytes
  Normal          \* vga_color

VARIABLE page   \* the lines, and the cursor's row and column, both from 0

Space == " "
vga_entry(ch, color) == <<ch, color>>
Cell == (Chars \cup {Space}) \X Colors
Blank(color) == vga_entry(Space, color)
BlankLine == [c \in 1 .. Width |-> Blank(Normal)]

NewLine(p) ==
  IF p.row < Height - 1 THEN [p EXCEPT !.row = @ + 1, !.column = 0]
  ELSE [p EXCEPT !.lines = Append(Tail(@), BlankLine), !.column = 0]

\* Left of the first column nothing shows.
Typed(p, cell) ==
  LET q == IF p.column = Width THEN NewLine(p) ELSE p
  IN  IF q.column < 0 THEN [q EXCEPT !.column = @ + 1]
      ELSE [q EXCEPT !.lines[q.row + 1][q.column + 1] = cell, !.column = @ + 1]

\* A backspace goes back over the end of a line, and on to the left at home.
Erased(p, blank) ==
  IF p.column > 0 THEN [p EXCEPT !.lines[p.row + 1][p.column] = blank, !.column = @ - 1]
  ELSE IF p.row > 0
  THEN [p EXCEPT !.lines[p.row][Width] = blank, !.row = @ - 1, !.column = Width - 1]
  ELSE [p EXCEPT !.column = @ - 1]

\* All from the cursor on is blanked.
Wiped(p, blank) ==
  [p EXCEPT !.lines = [r \in 1 .. Height |-> [c \in 1 .. Width |->
     IF (r - 1) * Width + c > p.row * Width + p.column THEN blank ELSE @[r][c]]]]

Init == page = [lines |-> [r \in 1 .. Height |-> BlankLine], row |-> 0, column |-> 0]

Next ==
  \/ \E cell \in Cell : page' = Typed(page, cell)
  \/ page' = NewLine(page)
  \/ \E color \in Colors : page' = Erased(page, Blank(color)) \/ page' = Wiped(page, Blank(color))
  \/ page' = [page EXCEPT !.column = 0]
  \/ \E r \in 0 .. Height - 1, c \in 0 .. Width : page' = [page EXCEPT !.row = r, !.column = c]

Spec == Init /\ [][Next]_page
=============================================================================
