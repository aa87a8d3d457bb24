-------------------------------- MODULE Shell --------------------------------
(***************************************************************************)
(* kernel/shell.c: the line being edited and its echo on the screen, with  *)
(* the end of kernel_main, which runs with interrupts on.                  *)
(*                                                                         *)
(* A handler runs alone (HandlerRunsAlone of MachineProps), so between its *)
(* steps nothing else happens.  kernel_main does not: a key handled        *)
(* between two of its instructions finds line_buf and the console as they  *)
(* are then, while the build (gcc -O2) keeps console_putchar's cursor_pos  *)
(* in a register from its first load to its last store.                    *)
(***************************************************************************)
EXTENDS Console

CONSTANTS
  LineMax,    \* LINE_MAX, 128 in the code
  Chars,      \* the characters the user types, a subset of Glyphs
  Prompt,     \* what shell_prompt prints, a sequence of Glyphs
  Banner,     \* what kernel_main prints before shell_init
  Outputs,    \* what a command may print
  GuestCells  \* cells a running guest may write, as <<row, col>>

\* Banner and every command that prints end with a newline, and a full line fits
\* the screen without its first row.
ASSUME ShellAssumption ==
  /\ LineMax \in Nat \ {0} /\ Chars \subseteq Glyphs
  /\ Prompt \in Seq(Glyphs) /\ Banner \in Seq(Glyphs \cup {Newline})
  /\ Prompt # <<>> /\ Len(Prompt) < Cols
  /\ Banner # <<>> /\ Banner[Len(Banner)] = Newline
  /\ Len(Prompt) + LineMax - 1 <= Size - Cols
  /\ \A out \in Outputs :
       out \in Seq(Glyphs \cup {Newline}) /\ (out = <<>> \/ out[Len(out)] = Newline)
  /\ GuestCells \subseteq (0..Rows - 1) \X (0..Cols - 1)

VARIABLES
  line_buf,   \* line_buf[0 .. line_len - 1]
  pc, reg,    \* kernel_main's next instruction, and its register
  stage,      \* the place in the handler, "none" outside it
  todo,       \* the text the handler still has to print
  synced      \* history: no key was handled during boot, or Enter was since

shellVars == <<line_buf, pc, reg, stage, todo, synced>>
vars == <<consoleVars, shellVars>>

Stages == {"none", "output", "prompt"}

\* kernel_main from console_init to the end of shell_init, as instructions.
Put(s) == [i \in 1..3 * Len(s) |->
             <<CASE i % 3 = 1 -> "load" [] i % 3 = 2 -> "store" [] OTHER -> "scroll",
               s[(i + 2) \div 3]>>]
Program == <<<<"cursor", 0>>, <<"start", 0>>>> \o Put(Banner) \o <<<<"len", 0>>>>
           \o Put(Prompt) \o <<<<"getmark", 0>>, <<"mark", 0>>>>

Booted == pc > Len(Program)

Init ==
  /\ vga \in {[i \in Cells |-> g] : g \in Glyphs}   \* GRUB's screen
  /\ cursor_pos = 0 /\ line_start = 0 /\ hw_cursor = 0
  /\ line_buf = <<>> /\ pc = 1 /\ reg = 0 /\ stage = "none" /\ todo = <<>>
  /\ synced = TRUE

TypeOK ==
  /\ vga \in Screen
  /\ cursor_pos \in Int /\ line_start \in Int /\ hw_cursor \in Int /\ reg \in Int
  /\ line_buf \in Seq(Chars) /\ Len(line_buf) < LineMax
  /\ pc \in 1..(Len(Program) + 1)
  /\ stage \in Stages /\ todo \in Seq(Glyphs \cup {Newline}) /\ synced \in BOOLEAN

----------------------------------------------------------------------------
(* kernel_main, one instruction at a time *)

Instruction(op) == pc <= Len(Program) /\ stage = "none" /\ Program[pc][1] = op /\ pc' = pc + 1
Operand == Program[pc][2]

\* console_init, in two stores
MainCursor ==
  /\ Instruction("cursor")
  /\ cursor_pos' = 0
  /\ UNCHANGED <<vga, line_start, hw_cursor, line_buf, reg, stage, todo, synced>>

MainStart ==
  /\ Instruction("start")
  /\ line_start' = 0
  /\ hw_cursor' = 0
  /\ UNCHANGED <<vga, cursor_pos, line_buf, reg, stage, todo, synced>>

\* console_putchar: read cursor_pos and write the cell ...
MainLoad ==
  /\ Instruction("load")
  /\ reg' = cursor_pos
  /\ vga' = Printed(vga, cursor_pos, Operand)
  /\ UNCHANGED <<cursor_pos, line_start, hw_cursor, line_buf, stage, todo, synced>>

\* ... store the sum ...
MainStore ==
  /\ Instruction("store")
  /\ reg' = reg + Advance(reg, Operand)
  /\ cursor_pos' = reg'
  /\ UNCHANGED <<vga, line_start, hw_cursor, line_buf, stage, todo, synced>>

\* ... then scroll_if_needed and update_cursor, on the register.
MainScroll ==
  /\ Instruction("scroll")
  /\ IF reg < Size
     THEN hw_cursor' = reg /\ UNCHANGED <<vga, cursor_pos, line_start>>
     ELSE scroll_if_needed(vga, reg) /\ hw_cursor' = cursor_pos'
  /\ reg' = 0   \* no longer used
  /\ UNCHANGED <<line_buf, stage, todo, synced>>

\* shell_init: line_len = 0
MainLen ==
  /\ Instruction("len")
  /\ line_buf' = <<>>
  /\ UNCHANGED <<consoleVars, reg, stage, todo, synced>>

\* console_mark_line_start, a load and a store
MainGetMark ==
  /\ Instruction("getmark")
  /\ reg' = cursor_pos
  /\ UNCHANGED <<consoleVars, line_buf, stage, todo, synced>>

MainMark ==
  /\ Instruction("mark")
  /\ line_start' = reg /\ reg' = 0
  /\ UNCHANGED <<vga, cursor_pos, hw_cursor, line_buf, stage, todo, synced>>

Main == \/ MainCursor \/ MainStart \/ MainLoad \/ MainStore
        \/ MainScroll \/ MainLen \/ MainGetMark \/ MainMark

----------------------------------------------------------------------------
(* shell_input_char, in the keyboard's interrupt handler *)

AtKey == stage = "none" /\ synced' = (synced /\ Booted) /\ UNCHANGED <<pc, reg>>

\* Mutant: the line takes one character too many.
KeyChar_one_more(c) ==
  /\ AtKey
  /\ IF Len(line_buf) < LineMax
     THEN line_buf' = Append(line_buf, c) /\ console_putchar(c)
     ELSE UNCHANGED <<line_buf, consoleVars>>
  /\ UNCHANGED <<stage, todo>>

\* Mutant: a character that a full line drops is echoed all the same.
KeyChar_always_echoed(c) ==
  /\ AtKey
  /\ line_buf' = IF Len(line_buf) < LineMax - 1 THEN Append(line_buf, c) ELSE line_buf
  /\ console_putchar(c)
  /\ UNCHANGED <<stage, todo>>

KeyChar(c) ==
  /\ AtKey
  /\ IF Len(line_buf) < LineMax - 1
     THEN line_buf' = Append(line_buf, c) /\ console_putchar(c)
     ELSE UNCHANGED <<line_buf, consoleVars>>
  /\ UNCHANGED <<stage, todo>>

KeyBackspace ==
  /\ AtKey
  /\ IF Len(line_buf) > 0
     THEN line_buf' = SubSeq(line_buf, 1, Len(line_buf) - 1) /\ console_backspace
     ELSE UNCHANGED <<line_buf, consoleVars>>
  /\ UNCHANGED <<stage, todo>>

\* Enter: the newline, and into shell_execute with some command.
KeyEnter ==
  /\ AtKey
  /\ console_putchar(Newline)
  /\ stage' = "output" /\ todo' \in Outputs
  /\ UNCHANGED line_buf

\* What a command does to the console: print, ...
PutNext ==
  /\ stage # "none" /\ todo # <<>>
  /\ console_putchar(Head(todo))
  /\ todo' = Tail(todo)
  /\ UNCHANGED <<line_buf, pc, reg, stage, synced>>

\* ... clear it (CLEAR, C64SCREEN, and C64BOOT twice) ...
ClearScreen ==
  /\ stage = "output"
  /\ console_clear
  /\ UNCHANGED shellVars

\* ... or run a guest that writes its screen memory.
GuestWrite ==
  /\ stage = "output"
  /\ \E cell \in GuestCells, g \in Glyphs : guest_putchar(cell[1], cell[2], g)
  /\ UNCHANGED shellVars

\* shell_execute returns: line_len = 0, and shell_prompt ...
CommandDone ==
  /\ stage = "output" /\ todo = <<>>
  /\ line_buf' = <<>> /\ stage' = "prompt" /\ todo' = Prompt
  /\ UNCHANGED <<consoleVars, pc, reg, synced>>

\* ... which ends in console_mark_line_start.
PromptDone ==
  /\ stage = "prompt" /\ todo = <<>>
  /\ console_mark_line_start
  /\ stage' = "none" /\ synced' = Booted
  /\ UNCHANGED <<line_buf, pc, reg, todo>>

Key == (\E c \in Chars : KeyChar(c)) \/ KeyBackspace \/ KeyEnter

Command == PutNext \/ ClearScreen \/ GuestWrite \/ CommandDone \/ PromptDone

Next == Main \/ Key \/ Command

Spec == Init /\ [][Next]_vars

----------------------------------------------------------------------------
(* Properties *)

\* No key was handled in the boot window, or Enter has been since, and the
\* handler is not running.
Settled == Booted /\ synced /\ stage = "none"

\* What the user sees after the prompt is line_buf, cell by cell, with the
\* cursor at its end: typing, backspacing over a row's edge, scrolling while
\* typing and every command leave it so, and an Enter repairs it after keys that
\* raced with kernel_main.
EchoMatchesLine ==
  Settled => /\ cursor_pos = line_start + Len(line_buf)
             /\ \A i \in 1..Len(line_buf) : vga[line_start + i - 1] = line_buf[i]

\* The prompt stands at the beginning of a row, just before the line, and
\* neither backspace, scrolling nor a guest's screen has touched it.
PromptIntact ==
  Settled => LET begin == line_start - Len(Prompt)
             IN  /\ begin \in Cells /\ begin % Cols = 0
                 /\ \A i \in 1..Len(Prompt) : vga[begin + i - 1] = Prompt[i]

\* The VGA's own cursor, which guests move too, is where the next echo goes.
HwCursorFollows == Settled => hw_cursor = cursor_pos

\* However the keys of the boot window interleave with kernel_main, once it is
\* over no write of the console between two keys can be outside the screen.
CursorOnScreen ==
  Booted /\ stage = "none" => cursor_pos \in Cells /\ line_start \in Cells
=============================================================================
