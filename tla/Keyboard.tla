------------------------------ MODULE Keyboard ------------------------------
(***************************************************************************)
(* The PS/2 controller (external) and kernel/keyboard.c.                   *)
(*                                                                         *)
(* A scan code is a member of a small set: "a" stands for every key with a *)
(* character, "DEAD" for every key without one, "BREAK" for every byte     *)
(* with bit 7 set that is not the release of a shift key (releases and the *)
(* 0xE0 prefix); the others are the keys the code names.                   *)
(***************************************************************************)
EXTENDS Sequences, Pic

CONSTANTS
  Typed,        \* the scan codes the user types, a subset of Scancodes
  KbcSize,      \* how many bytes controller and keyboard hold
  MaxTyped,     \* bound: how many bytes are typed in a behaviour
  StickyLatch   \* does a latched request outlive the byte it announced?

Scancodes == {"a", "DEAD", "ENTER", "BKSP", "ESC", "F12",
              "SHIFT", "SHIFT_UP", "BREAK"}
Chars     == {"a", "A", "NL", "BS", "ESC"}
NoChar    == "none"

ASSUME KeyboardAssumption ==
  /\ Typed \subseteq Scancodes
  /\ KbcSize \in Nat \ {0}
  /\ MaxTyped \in Nat
  /\ StickyLatch \in BOOLEAN

VARIABLES
  obuf,             \* bytes not yet read from port 0x60
  lastByte,         \* what port 0x60 returns when nothing is waiting
  typed,            \* how many bytes were typed
  nread,            \* how many times port 0x60 was read for a byte
  shift_pressed, c64_mode_active, f12_pressed

kbcVars  == <<obuf, lastByte, typed, nread>>
modeVars == <<shift_pressed, c64_mode_active, f12_pressed>>

KeyboardInit ==
  /\ obuf = <<>> /\ lastByte = "BREAK" /\ typed = 0 /\ nread = 0
  /\ shift_pressed = FALSE /\ c64_mode_active = FALSE /\ f12_pressed = FALSE

KeyboardTypeOK ==
  /\ obuf \in Seq(Scancodes)
  /\ lastByte \in Scancodes
  /\ typed \in Nat /\ nread \in Nat
  /\ shift_pressed \in BOOLEAN /\ c64_mode_active \in BOOLEAN
  /\ f12_pressed \in BOOLEAN

\* A byte arrives; the line rises, and is latched, when none was waiting.
TypeByte(b) ==
  /\ typed < MaxTyped /\ Len(obuf) < KbcSize
  /\ obuf' = Append(obuf, b)
  /\ typed' = typed + 1
  /\ irr' = IF obuf = <<>> THEN irr \cup {KeyboardLine} ELSE irr
  /\ UNCHANGED <<lastByte, nread>>

\* inb(0x60): the line falls, and rises again for the next byte.
DataByte == IF obuf = <<>> THEN lastByte ELSE Head(obuf)

ReadData ==
  /\ obuf' = IF obuf = <<>> THEN obuf ELSE Tail(obuf)
  /\ lastByte' = DataByte
  /\ nread' = nread + 1
  /\ irr' = IF Len(obuf) > 1 THEN irr \cup {KeyboardLine}
            ELSE IF StickyLatch THEN irr ELSE irr \ {KeyboardLine}
  /\ UNCHANGED typed

----------------------------------------------------------------------------
(* keyboard.c *)

\* scancode_ascii and scancode_ascii_shift, and the releases and shift keys
\* that the code leaves before it looks a character up.
Decode(b, shift) ==
  CASE b = "a"     -> IF shift THEN "A" ELSE "a"
    [] b = "ENTER" -> "NL"
    [] b = "BKSP"  -> "BS"
    [] b = "ESC"   -> "ESC"
    [] OTHER       -> NoChar

\* shift_pressed after the byte b.
ShiftAfter(b) == IF b \in {"SHIFT", "SHIFT_UP"} THEN b = "SHIFT" ELSE shift_pressed

\* keyboard_poll_char: the effect of polling once, and the character it returns.
\* Only a set output-buffer bit makes it read the data port.
PolledByte == IF obuf = <<>> THEN "BREAK" ELSE DataByte
PolledChar == Decode(PolledByte, shift_pressed)

\* Mutant: the status bit is not tested.
keyboard_poll_char_unchecked == shift_pressed' = ShiftAfter(DataByte) /\ ReadData

keyboard_poll_char ==
  /\ shift_pressed' = ShiftAfter(PolledByte)
  /\ IF obuf = <<>> THEN UNCHANGED <<kbcVars, irr>> ELSE ReadData
=============================================================================
