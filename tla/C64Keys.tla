------------------------------ MODULE C64Keys ------------------------------
(***************************************************************************)
(* kernel/c64.c: how characters get from the host into the keyboard buffer *)
(* the C64 KERNAL keeps in guest memory (NDX at $C6, KEYD at $277), and    *)
(* the request to leave the C64.  The guest program, ROM and BASIC, is not *)
(* part of the repository: what it may do to the buffer is GuestEffects.   *)
(***************************************************************************)
EXTENDS Integers

CONSTANTS
  KeydMax,    \* KEYD_MAX, 10 in the code
  GuestNdx    \* values a guest program may store in NDX (POKE 198,n)

ASSUME C64KeysAssumption ==
  /\ KeydMax \in Nat \ {0}
  /\ GuestNdx \subseteq 0..255 /\ KeydMax <= 255

VARIABLES
  keys,             \* [ndx, keyd]: the buffer and the byte of guest memory after it
  exit_requested,
  halted            \* g_cpu.halted

c64Vars == <<keys, exit_requested, halted>>

Unwritten == "ram"
PetChars  == {"A", "CR", "DEL"}
Keyd      == [0..KeydMax -> PetChars \cup {Unwritten}]

C64Init ==
  /\ keys = [ndx |-> 0, keyd |-> [i \in 0..KeydMax |-> Unwritten]]
  /\ exit_requested = FALSE
  /\ halted = FALSE

C64TypeOK ==
  /\ keys \in [ndx : 0..255, keyd : Keyd]
  /\ exit_requested \in BOOLEAN
  /\ halted \in BOOLEAN

\* Return and DEL have codes of their own, letters are forced to upper case.
Petscii(c) ==
  CASE c = "NL" -> "CR"
    [] c = "BS" -> "DEL"
    [] c \in {"a", "A"} -> "A"
    [] OTHER -> c

\* Mutant: the buffer is not bounded.
QueueKey_no_bound(k, c) ==
  [ndx |-> k.ndx + 1, keyd |-> [i \in DOMAIN k.keyd \cup {k.ndx} |->
                                  IF i = k.ndx THEN Petscii(c) ELSE k.keyd[i]]]

\* Mutant: the bound lets one character past the end of KEYD.
QueueKey_past_end(k, c) ==
  IF k.ndx > KeydMax THEN k
  ELSE [ndx |-> k.ndx + 1, keyd |-> [k.keyd EXCEPT ![k.ndx] = Petscii(c)]]

\* Mutant: a full buffer starts over instead of dropping the character.
QueueKey_wraps(k, c) ==
  LET at == IF k.ndx >= KeydMax THEN 0 ELSE k.ndx
  IN  [ndx |-> at + 1, keyd |-> [k.keyd EXCEPT ![at] = Petscii(c)]]

\* The buffer after c64_inject_key(c), for a character other than ESC.
QueueKey(k, c) ==
  IF k.ndx >= KeydMax THEN k
  ELSE [ndx |-> k.ndx + 1, keyd |-> [k.keyd EXCEPT ![k.ndx] = Petscii(c)]]

InjectedInto(k, c) == IF c = "ESC" THEN k ELSE QueueKey(k, c)

c64_inject_key(c) ==
  /\ keys' = InjectedInto(keys, c)
  /\ exit_requested' = (exit_requested \/ c = "ESC")

\* The KERNAL removes the oldest key and moves the rest down.
TakeKey(k) ==
  [ndx  |-> k.ndx - 1,
   keyd |-> [i \in 0..KeydMax |-> IF i + 1 < k.ndx THEN k.keyd[i + 1] ELSE k.keyd[i]]]

GuestEffects(k) ==
  {k} \cup {TakeKey(j) : j \in {i \in {k} : i.ndx \in 1..KeydMax}}
      \cup {[k EXCEPT !.ndx = n] : n \in GuestNdx}
=============================================================================
