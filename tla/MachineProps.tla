------------------------------ MODULE MachineProps ------------------------------
(***************************************************************************)
(* What must be true of the kernel modelled in Machine.                    *)
(***************************************************************************)
EXTENDS Machine

InHandler == ctx # "main"
Booted    == main \in {"console", "shell", "idle"}   \* past sti
Remapped  == main \notin {"tables", "remap"}

----------------------------------------------------------------------------
(* Interrupt discipline *)

\* One interrupt at a time: while irq_handler runs, the controller holds exactly
\* the line being serviced as in service and the CPU accepts nothing; the flag
\* is set again only on the way out.  Everything the shell and the C64 loops do
\* to line_buf, the cursor and the flags relies on it, there being no lock.
HandlerRunsAlone ==
  /\ isr = IF ctx \in {"main", "iret"} THEN {} ELSE {cur}
  /\ ifl <=> (ctx = "main" /\ Booted)

\* No interrupt is accepted while a handler runs: a shell command that takes
\* seconds, or a C64 session that takes hours, is never re-entered by the next
\* key, whose handler would use the same line_buf and the same guest.
Accepting == ctx' = "irq" /\ ~(irr \subseteq irr')
NoReentry == [][Accepting => ctx = "main"]_vars

\* The only interrupt ever serviced is the keyboard's, through a filled gate and
\* with its handler installed, although every other device keeps requesting:
\* irq_routines[] is zero and the IDT inert for anything that came earlier.
OnlyKeyboardServiced ==
  InHandler => cur = KeyboardLine /\ gates /\ KeyboardLine \in irq_routines

\* The keyboard line is masked inside a C64BOOT session and nowhere else, and
\* no other line is ever unmasked after boot: whichever way the session ends
\* (F12, Esc, a halted guest) the shell gets its keyboard back.
MaskedOnlyInSession ==
  Booted => imr = IF ctx \in {"c64boot", "restore"} THEN Lines
                  ELSE Lines \ {KeyboardLine}

\* C64 mode is on exactly while C64RESUME runs the guest.  No key is handled then,
\* since C64RESUME runs in the handler of the Enter that gave it: keyboard_handler
\* never sends a key to the guest, neither one typed at the prompt nor one typed
\* while the guest is "running live" (shell.c:470).
C64ModeOnlyInResume == c64_mode_active <=> ctx = "resume"

\* What the processor does, without the user and the devices.
Kernel == Boot \/ (\E l \in Lines : IrqAccept(l)) \/ Handler \/ GuestSteps

\* The processor only ever stops in the hlt of kernel_main with nothing left to
\* read: no handler, loop or command waits for something that cannot come, or
\* for the user.
StopsOnlyIdle ==
  ~ENABLED Kernel => ctx = "main" /\ main = "idle" /\ (wedged \/ obuf = <<>>)

----------------------------------------------------------------------------
(* Bytes from the keyboard *)

\* A byte waiting in the controller always has its request latched, or is about
\* to be read by the handler that was entered for it, or is polled for: the line
\* is an edge, and a lost edge would silence the keyboard for good.  (A byte
\* that was already waiting when pic_remap ran is what wedged records.)
NoLostWakeup ==
  Remapped /\ ~wedged /\ obuf # <<>> =>
     KeyboardLine \in irr \/ (ctx = "irq" /\ cur = KeyboardLine)

\* Once interrupts are on, a byte that waits while no handler runs interrupts
\* kernel_main at once, also in its hlt: whatever commands and sessions went
\* before, the flag, the mask, the latch and the service register let it through.
WaitingByteInterrupts ==
  ctx = "main" /\ Booted /\ ~wedged /\ obuf # <<>> => ifl /\ Deliverable(KeyboardLine)

\* No byte is read twice and none is skipped: each read of port 0x60, by the
\* handler or by the polling loop of C64BOOT, takes a byte nobody has read.
\* The two readers are kept apart by the mask, not by a lock.
EachByteReadOnce == nread + Len(obuf) = typed

\* Machine implements ByteStream: every byte the user types is taken from the
\* controller once, in order, and eventually -- by the handler, or by the poll
\* of the C64 session that is running, however commands and sessions follow
\* each other.
Stream == INSTANCE ByteStream
            WITH Byte <- Typed, pending <- obuf, taken <- nread
ImplementsByteStream == Stream!Spec

\* F12 ends a C64 session whatever the guest does: the help text's promise.
F12LeavesC64 == (ctx = "c64boot" /\ obuf # <<>> /\ Head(obuf) = "F12") ~> (ctx = "main")

----------------------------------------------------------------------------
(* The C64 keyboard buffer *)

\* The host never writes past the ten bytes of KEYD, even when the guest has
\* stored a larger count in NDX.
KeydNotOverrun == keys.keyd[KeydMax] = Unwritten

\* Outside the guest's own steps a key that is queued stays queued, in its
\* place: injection only appends.
Queued(k) == {<<i, k.keyd[i]>> : i \in 0..(IF k.ndx < KeydMax THEN k.ndx ELSE KeydMax) - 1}
HostOnlyAppends ==
  [][ctx \notin {"running", "resume", "c64boot"} => Queued(keys) \subseteq Queued(keys')]_keys

----------------------------------------------------------------------------
(* What the repository says of the program, and the code does otherwise *)

\* "C64BOOT - enter the C64 (F12 to exit)" (shell.c): a session that reports
\* F12 was ended by an F12 typed in it.
ExitedByItsOwnF12 == ctx = "restore" /\ killed_by_f12 => "F12" \in polled

\* "inject every character, then Enter" (shell.c, cmd_c64type): when the guest
\* is started, the last key in its buffer is Return.
TypedLineEndsInReturn ==
  ctx = "typed" => keys.ndx \in 1..KeydMax /\ keys.keyd[keys.ndx - 1] = "CR"
=============================================================================
