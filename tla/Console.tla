------------------------------- MODULE Console -------------------------------
(***************************************************************************)
(* kernel/console.c: the text screen.  Positions are cells, not the byte   *)
(* offsets (two bytes to a cell) that cursor_pos and line_start hold.      *)
(***************************************************************************)
EXTENDS Integers, Sequences

CONSTANTS Cols, Rows,   \* VGA_COLS and VGA_ROWS, 80 and 25
          Glyphs        \* what a cell may show

ASSUME ConsoleAssumption ==
  Cols \in Nat \ {0} /\ Rows \in Nat /\ Rows >= 2 /\ "NL" \notin Glyphs

VARIABLES vga, cursor_pos, line_start,
          hw_cursor     \* the blinking cursor of the VGA

consoleVars == <<vga, cursor_pos, line_start, hw_cursor>>

Newline == "NL"
Blank   == " "
Size    == Cols * Rows
Cells   == 0..(Size - 1)
Screen  == [Cells -> Glyphs \cup {Blank}]

\* A write beside the screen changes memory that is never shown.
Written(v, pos, g) == [i \in Cells |-> IF i = pos THEN g ELSE v[i]]

Scrolled(v) == [i \in Cells |-> IF i + Cols \in Cells THEN v[i + Cols] ELSE Blank]

\* The remainder of C, which has the sign of the dividend.
Rem(pos) == IF pos >= 0 THEN pos % Cols ELSE -((-pos) % Cols)

\* What '\n' or a character adds to cursor_pos.
Advance(pos, g) == IF g = Newline THEN Cols - Rem(pos) ELSE 1

Printed(v, pos, g) == IF g = Newline THEN v ELSE Written(v, pos, g)

\* Mutant: line_start stays where it was when the screen moves up.
scroll_if_needed_start_kept(v, pos) ==
  IF pos < Size
  THEN vga' = v /\ cursor_pos' = pos /\ UNCHANGED line_start
  ELSE vga' = Scrolled(v) /\ cursor_pos' = pos - Cols /\ UNCHANGED line_start

scroll_if_needed(v, pos) ==
  IF pos < Size
  THEN vga' = v /\ cursor_pos' = pos /\ UNCHANGED line_start
  ELSE /\ vga' = Scrolled(v)
       /\ cursor_pos' = pos - Cols
       /\ line_start' = IF line_start >= Cols THEN line_start - Cols ELSE line_start

console_putchar(g) ==
  /\ scroll_if_needed(Printed(vga, cursor_pos, g), cursor_pos + Advance(cursor_pos, g))
  /\ hw_cursor' = cursor_pos'

\* Mutant: nothing stops at the start of the line.
console_backspace_unguarded ==
  /\ cursor_pos' = cursor_pos - 1
  /\ vga' = Written(vga, cursor_pos - 1, Blank)
  /\ hw_cursor' = cursor_pos'
  /\ UNCHANGED line_start

\* Mutant: the hardware cursor is not moved.
console_backspace_no_update ==
  IF cursor_pos <= line_start
  THEN UNCHANGED consoleVars
  ELSE /\ cursor_pos' = cursor_pos - 1
       /\ vga' = Written(vga, cursor_pos - 1, Blank)
       /\ UNCHANGED <<line_start, hw_cursor>>

console_backspace ==
  IF cursor_pos <= line_start
  THEN UNCHANGED consoleVars
  ELSE /\ cursor_pos' = cursor_pos - 1
       /\ vga' = Written(vga, cursor_pos - 1, Blank)
       /\ hw_cursor' = cursor_pos'
       /\ UNCHANGED line_start

console_clear ==
  /\ vga' = [i \in Cells |-> Blank]
  /\ cursor_pos' = 0 /\ line_start' = 0 /\ hw_cursor' = 0

console_mark_line_start ==
  line_start' = cursor_pos /\ UNCHANGED <<vga, cursor_pos, hw_cursor>>

\* A guest's write to its screen memory at row and col: console_putchar_at and
\* console_set_hw_cursor, which the screen's last column stops.
guest_putchar(row, col, g) ==
  /\ vga' = Written(vga, row * Cols + col, g)
  /\ hw_cursor' = row * Cols + (IF col + 1 >= Cols THEN Cols - 1 ELSE col + 1)
  /\ UNCHANGED <<cursor_pos, line_start>>
=============================================================================
