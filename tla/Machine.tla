------------------------------- MODULE Machine -------------------------------
(***************************************************************************)
(* The running kernel seen from its keyboard: the boot sequence of         *)
(* kernel_main, the delivery of IRQ1 through the PIC, keyboard.c, the      *)
(* shell's line and the commands that start or feed the C64.               *)
(*                                                                         *)
(* There is one CPU.  It executes kernel_main until an interrupt is        *)
(* accepted, and then everything else the kernel ever does: a shell        *)
(* command is executed inside the interrupt handler of the Enter key that  *)
(* completed the line, and EOI and iret follow only when it returns.       *)
(* ctx is the place in that code, main the place in kernel_main.           *)
(***************************************************************************)
EXTENDS Keyboard, C64Keys

CONSTANTS
  LineMax,        \* LINE_MAX of shell.c, 128 in the code
  Noise,          \* lines of other devices that raise requests
  EarlyTyping     \* may the user type before pic_remap has run?

ASSUME MachineAssumption ==
  /\ LineMax \in Nat \ {0}
  /\ Noise \subseteq Lines \ {KeyboardLine, CascadeLine}
  /\ EarlyTyping \in BOOLEAN

VARIABLES
  main,           \* the next step of kernel_main
  ctx,            \* "main", or the place in the interrupt handler
  cur,            \* the line being serviced
  ifl,            \* the CPU's interrupt flag
  gates,          \* are the IDT gates 32..47 filled in?
  irq_routines,   \* lines with a handler installed
  line_buf,       \* the argument text of the line being edited
  killed_by_f12,  \* local of cmd_c64boot
  \* history variables:
  wedged,         \* was a byte waiting when pic_remap forgot its request?
  polled          \* keys polled since cmd_c64boot entered its loop

cpuVars  == <<main, ctx, cur, ifl, gates, irq_routines>>
histVars == <<wedged, polled>>
vars == <<picVars, kbcVars, modeVars, c64Vars, cpuVars, line_buf, killed_by_f12, histVars>>

MainSteps == {"tables", "remap", "install", "mask", "sti", "console", "shell", "idle"}
Contexts  == {"main", "irq", "typing", "typed", "running", "resume", "c64boot",
              "restore", "endline", "eoi", "iret"}

\* Commands whose effect is visible here.  "other" is every command that
\* touches neither the keyboard state, the PIC nor KEYD and NDX, and an unknown
\* or empty line; C64BOOT is two entries, for c64_init failing and succeeding.
Commands == {"other", "C64KEY", "C64ENTER", "C64TYPE", "C64TRACE", "C64RESUME",
             "C64BOOT", "C64BOOT failing"}

Init ==
  /\ PicInit /\ KeyboardInit /\ C64Init
  /\ main = "tables" /\ ctx = "main" /\ cur = KeyboardLine
  /\ ifl = FALSE /\ gates = FALSE /\ irq_routines = {}
  /\ line_buf = <<>> /\ killed_by_f12 = FALSE
  /\ wedged = FALSE /\ polled = {}

TypeOK ==
  /\ PicTypeOK /\ KeyboardTypeOK /\ C64TypeOK
  /\ main \in MainSteps /\ ctx \in Contexts /\ cur \in Lines
  /\ ifl \in BOOLEAN /\ gates \in BOOLEAN /\ irq_routines \subseteq Lines
  /\ line_buf \in Seq(Chars) /\ Len(line_buf) < LineMax
  /\ killed_by_f12 \in BOOLEAN /\ wedged \in BOOLEAN /\ polled \subseteq Scancodes

----------------------------------------------------------------------------
(* kernel_main: executed with nothing else running, or between interrupts *)

MainStep(from, to) == ctx = "main" /\ main = from /\ main' = to

\* gdt_install, idt_install (every vector inert), isr_install.
BootTables ==
  /\ MainStep("tables", "remap")
  /\ UNCHANGED <<picVars, kbcVars, modeVars, c64Vars, ctx, cur, ifl, gates,
                 irq_routines, line_buf, killed_by_f12, histVars>>

BootRemap ==
  /\ MainStep("remap", "install")
  /\ pic_remap
  /\ wedged' = (obuf # <<>>)
  /\ UNCHANGED <<kbcVars, modeVars, c64Vars, ctx, cur, ifl, gates,
                 irq_routines, line_buf, killed_by_f12, polled>>

\* Mutant: keyboard_install is not called.
BootInstall_no_handler ==
  /\ MainStep("install", "mask")
  /\ gates' = TRUE
  /\ UNCHANGED <<picVars, kbcVars, modeVars, c64Vars, ctx, cur, ifl, irq_routines,
                 line_buf, killed_by_f12, histVars>>

\* irq_install, keyboard_install
BootInstall ==
  /\ MainStep("install", "mask")
  /\ gates' = TRUE
  /\ irq_routines' = irq_routines \cup {KeyboardLine}
  /\ UNCHANGED <<picVars, kbcVars, modeVars, c64Vars, ctx, cur, ifl,
                 line_buf, killed_by_f12, histVars>>

\* Mutant: only IRQ1 is unmasked, the loop that masks the others is lost.
BootMask_loop_lost ==
  /\ MainStep("mask", "sti")
  /\ pic_clear_mask(KeyboardLine)
  /\ UNCHANGED <<irr, isr, kbcVars, modeVars, c64Vars, ctx, cur, ifl, gates,
                 irq_routines, line_buf, killed_by_f12, histVars>>

\* Mutant: the keyboard is unmasked before the loop, which masks it again.
BootMask_loop_last ==
  /\ MainStep("mask", "sti")
  /\ imr' = Lines
  /\ UNCHANGED <<irr, isr, kbcVars, modeVars, c64Vars, ctx, cur, ifl, gates,
                 irq_routines, line_buf, killed_by_f12, histVars>>

\* pic_set_mask for every line, then pic_clear_mask(1)
BootMask ==
  /\ MainStep("mask", "sti")
  /\ imr' = Lines \ {KeyboardLine}
  /\ UNCHANGED <<irr, isr, kbcVars, modeVars, c64Vars, ctx, cur, ifl, gates,
                 irq_routines, line_buf, killed_by_f12, histVars>>

BootSti ==
  /\ MainStep("sti", "console")
  /\ ifl' = TRUE
  /\ UNCHANGED <<picVars, kbcVars, modeVars, c64Vars, ctx, cur, gates,
                 irq_routines, line_buf, killed_by_f12, histVars>>

\* console_init, ata_init, the banner
BootConsole ==
  /\ MainStep("console", "shell")
  /\ UNCHANGED <<picVars, kbcVars, modeVars, c64Vars, ctx, cur, ifl, gates,
                 irq_routines, line_buf, killed_by_f12, histVars>>

\* shell_init: interrupts are on already, and what was typed is discarded.
BootShell ==
  /\ MainStep("shell", "idle")
  /\ line_buf' = <<>>
  /\ UNCHANGED <<picVars, kbcVars, modeVars, c64Vars, ctx, cur, ifl, gates,
                 irq_routines, killed_by_f12, histVars>>

Boot == \/ BootTables \/ BootRemap \/ BootInstall \/ BootMask
        \/ BootSti \/ BootConsole \/ BootShell

----------------------------------------------------------------------------
(* The environment *)

Type(b) ==
  /\ b \in Typed
  /\ EarlyTyping \/ main \notin {"tables", "remap"}
  /\ TypeByte(b)
  /\ UNCHANGED <<imr, isr, modeVars, c64Vars, cpuVars, line_buf, killed_by_f12, histVars>>

DeviceRequest(l) ==
  /\ l \notin irr
  /\ irr' = irr \cup {l}
  /\ UNCHANGED <<imr, isr, kbcVars, modeVars, c64Vars, cpuVars, line_buf,
                 killed_by_f12, histVars>>

----------------------------------------------------------------------------
(* Interrupt entry and exit: the gate type, isr.asm, irq_handler *)

\* Mutant: a trap gate leaves IF set, and the EOI is sent up front.
IrqAccept_trap_gate_early_eoi(l) ==
  /\ ifl /\ Deliverable(l)
  /\ irr' = irr \ {l}
  /\ ctx' = "irq" /\ cur' = l
  /\ UNCHANGED <<imr, isr, kbcVars, modeVars, c64Vars, main, ifl, gates, irq_routines,
                 line_buf, killed_by_f12, histVars>>

\* The interrupt gate clears IF.  Nothing but IF and the PIC keeps a second
\* interrupt out of a running handler, so nothing else guards this step.
IrqAccept(l) ==
  /\ ifl /\ Deliverable(l)
  /\ Acknowledge(l)
  /\ ctx' = "irq" /\ cur' = l /\ ifl' = FALSE
  /\ UNCHANGED <<kbcVars, modeVars, c64Vars, main, gates, irq_routines,
                 line_buf, killed_by_f12, histVars>>

SendEoi ==
  /\ ctx = "eoi"
  /\ pic_send_eoi(cur)
  /\ ctx' = "iret"
  /\ UNCHANGED <<irr, imr, kbcVars, modeVars, c64Vars, main, cur, ifl, gates,
                 irq_routines, line_buf, killed_by_f12, histVars>>

\* sti ; iret -- the shadow of sti covers the iret.
Iret ==
  /\ ctx = "iret"
  /\ ctx' = "main" /\ ifl' = TRUE
  /\ UNCHANGED <<picVars, kbcVars, modeVars, c64Vars, main, cur, gates,
                 irq_routines, line_buf, killed_by_f12, histVars>>

----------------------------------------------------------------------------
(* shell.c: what Enter executes.  Each of these changes the variables of   *)
(* shellState; the read of the port is in the handler.                     *)

NoEffect  == UNCHANGED <<keys, exit_requested, halted, c64_mode_active, imr, polled, killed_by_f12>>
Inject(c) == /\ c64_inject_key(c)
             /\ UNCHANGED <<halted, c64_mode_active, imr, polled, killed_by_f12>>

\* cmd_c64key: the first character of its argument, none without one.
cmd_c64key ==
  /\ ctx' = "endline"
  /\ IF line_buf = <<>> THEN NoEffect ELSE Inject(Head(line_buf))

cmd_c64enter == ctx' = "endline" /\ Inject("CR")

\* cmd_c64resume before its loop
cmd_c64resume ==
  /\ ctx' = "resume"
  /\ c64_mode_active' = TRUE
  /\ UNCHANGED <<keys, exit_requested, halted, imr, polled, killed_by_f12>>

\* cmd_c64boot before its loop; cpu6502_reset clears halted.
cmd_c64boot ==
  /\ ctx' = "c64boot"
  /\ halted' = FALSE
  /\ pic_set_mask(KeyboardLine)
  /\ killed_by_f12' = FALSE /\ polled' = {}
  /\ UNCHANGED <<keys, exit_requested, c64_mode_active>>

shell_execute(cmd) ==
  \/ cmd \in {"other", "C64BOOT failing"} /\ ctx' = "endline" /\ NoEffect
  \/ cmd = "C64KEY"    /\ cmd_c64key
  \/ cmd = "C64ENTER"  /\ cmd_c64enter
  \/ cmd = "C64TYPE"   /\ ctx' = "typing" /\ NoEffect
  \/ cmd = "C64TRACE"  /\ ctx' = "running" /\ NoEffect
  \/ cmd = "C64RESUME" /\ cmd_c64resume
  \/ cmd = "C64BOOT"   /\ cmd_c64boot

shell_input_char(c) ==
  \/ /\ c = "NL"
     /\ \E cmd \in Commands : shell_execute(cmd)
     /\ UNCHANGED line_buf
  \/ /\ c # "NL"
     /\ ctx' = "eoi" /\ NoEffect
     /\ line_buf' = IF c = "BS"
                    THEN SubSeq(line_buf, 1, Len(line_buf) - 1)
                    ELSE IF Len(line_buf) < LineMax - 1 THEN Append(line_buf, c)
                    ELSE line_buf

\* Where keyboard_handler sends the byte b.
Dispatch(b) ==
  LET c == Decode(b, shift_pressed)
  IN  \/ c = NoChar /\ ctx' = "eoi" /\ NoEffect /\ UNCHANGED line_buf
      \/ /\ c # NoChar
         /\ IF c64_mode_active
            THEN ctx' = "eoi" /\ Inject(c) /\ UNCHANGED line_buf
            ELSE shell_input_char(c)

\* irq_handler and keyboard_handler, for a line with a handler; any other line
\* is only acknowledged.
IrqHandler ==
  /\ ctx = "irq"
  /\ IF cur \in irq_routines
     THEN /\ ReadData
          /\ f12_pressed' = (f12_pressed \/ DataByte = "F12")
          /\ shift_pressed' = ShiftAfter(DataByte)
          /\ Dispatch(DataByte)
     ELSE /\ ctx' = "eoi"
          /\ UNCHANGED <<irr, imr, kbcVars, modeVars, c64Vars, line_buf, killed_by_f12, polled>>
  /\ UNCHANGED <<isr, main, cur, ifl, gates, irq_routines, wedged>>

\* shell_input_char after shell_execute: line_len = 0 and the prompt.
EndLine ==
  /\ ctx = "endline"
  /\ ctx' = "eoi" /\ line_buf' = <<>>
  /\ UNCHANGED <<picVars, kbcVars, modeVars, c64Vars, main, cur, ifl, gates,
                 irq_routines, killed_by_f12, histVars>>

----------------------------------------------------------------------------
(* The loops of the C64 commands, all inside the interrupt handler *)

\* cmd_c64type, the injecting loop: one character, or Enter after the last.
\* The text is consumed from line_buf, which nothing reads afterwards.
TypeChar ==
  /\ ctx = "typing"
  /\ IF line_buf = <<>>
     THEN ctx' = "typed" /\ c64_inject_key("CR") /\ UNCHANGED line_buf
     ELSE c64_inject_key(Head(line_buf)) /\ line_buf' = Tail(line_buf) /\ UNCHANGED ctx
  /\ UNCHANGED <<picVars, kbcVars, modeVars, halted, main, cur, ifl, gates,
                 irq_routines, killed_by_f12, histVars>>

TypeRun ==
  /\ ctx = "typed"
  /\ ctx' = "running"
  /\ UNCHANGED <<picVars, kbcVars, modeVars, c64Vars, main, cur, ifl, gates,
                 irq_routines, line_buf, killed_by_f12, histVars>>

\* Some instructions of the guest in cmd_c64type, cmd_c64trace, cmd_c64resume.
GuestSteps ==
  /\ ctx \in {"running", "resume"} /\ ~halted
  /\ keys' \in GuestEffects(keys) /\ halted' \in BOOLEAN
  /\ UNCHANGED <<picVars, kbcVars, modeVars, exit_requested, cpuVars, line_buf,
                 killed_by_f12, histVars>>

\* Mutant: C64RESUME forgets to leave C64 mode.
RunReturn_mode_kept ==
  /\ ctx \in {"running", "resume"}
  /\ ctx' = "endline"
  /\ UNCHANGED <<picVars, kbcVars, modeVars, c64Vars, main,
                 cur, ifl, gates, irq_routines, line_buf, killed_by_f12, histVars>>

\* The step limit is reached or the guest halted.
RunReturn ==
  /\ ctx \in {"running", "resume"}
  /\ ctx' = "endline"
  /\ c64_mode_active' = IF ctx = "resume" THEN FALSE ELSE c64_mode_active
  /\ UNCHANGED <<picVars, kbcVars, shift_pressed, f12_pressed, c64Vars, main,
                 cur, ifl, gates, irq_routines, line_buf, killed_by_f12, histVars>>

\* Mutant: F12 is looked at only when the poll returned a character.
BootLoop_f12_inside_if ==
  /\ ctx = "c64boot" /\ ~halted
  /\ keyboard_poll_char
  /\ polled' = polled \cup {PolledByte}
  /\ \E k \in GuestEffects(keys), h \in BOOLEAN :
       LET c    == PolledChar
           seen == f12_pressed \/ PolledByte = "F12"
           f12  == c # NoChar /\ seen
           esc  == exit_requested \/ c = "ESC"
       IN  /\ keys' = IF c = NoChar THEN k ELSE InjectedInto(k, c)
           /\ halted' = h
           /\ killed_by_f12' = f12
           /\ f12_pressed' = (seen /\ ~f12)
           /\ exit_requested' = (f12 /\ esc)
           /\ ctx' = IF f12 \/ esc \/ h THEN "restore" ELSE "c64boot"
  /\ UNCHANGED <<imr, isr, c64_mode_active, main, cur, ifl, gates, irq_routines,
                 line_buf, wedged>>

\* One iteration of the loop of cmd_c64boot: a batch of guest instructions, one
\* poll of the keyboard, the injection, then F12 and the exit request.
BootLoop ==
  /\ ctx = "c64boot" /\ ~halted
  /\ keyboard_poll_char
  /\ polled' = polled \cup {PolledByte}
  /\ \E k \in GuestEffects(keys), h \in BOOLEAN :
       LET c   == PolledChar
           f12 == f12_pressed \/ PolledByte = "F12"
           esc == exit_requested \/ c = "ESC"
       IN  /\ keys' = IF c = NoChar THEN k ELSE InjectedInto(k, c)
           /\ halted' = h
           /\ killed_by_f12' = f12
           /\ f12_pressed' = FALSE
           /\ exit_requested' = (f12 /\ esc)
           /\ ctx' = IF f12 \/ esc \/ h THEN "restore" ELSE "c64boot"
  /\ UNCHANGED <<imr, isr, c64_mode_active, main, cur, ifl, gates, irq_routines,
                 line_buf, wedged>>

\* Mutant: the mask is restored only when the guest did not halt.
C64Restore_halt_keeps_mask ==
  /\ ctx = "restore"
  /\ imr' = IF halted THEN imr ELSE imr \ {KeyboardLine}
  /\ ctx' = "endline"
  /\ UNCHANGED <<irr, isr, kbcVars, modeVars, c64Vars, main, cur, ifl, gates,
                 irq_routines, line_buf, killed_by_f12, histVars>>

\* cmd_c64boot after its loop
C64Restore ==
  /\ ctx = "restore"
  /\ pic_clear_mask(KeyboardLine)
  /\ ctx' = "endline"
  /\ UNCHANGED <<irr, isr, kbcVars, modeVars, c64Vars, main, cur, ifl, gates,
                 irq_routines, line_buf, killed_by_f12, histVars>>

----------------------------------------------------------------------------

Handler == \/ IrqHandler \/ EndLine \/ SendEoi \/ Iret
           \/ TypeChar \/ TypeRun \/ RunReturn \/ BootLoop \/ C64Restore

Next ==
  \/ Boot
  \/ \E l \in Lines : IrqAccept(l)
  \/ Handler
  \/ GuestSteps
  \/ \E b \in Typed : Type(b)
  \/ \E l \in Noise : DeviceRequest(l)

Spec == Init /\ [][Next]_vars

\* The CPU never stops, and a deliverable request is accepted; the loops of
\* C64TYPE, C64TRACE and C64RESUME have a step limit, so they return.  Neither
\* the user nor a device has to do anything.
Fairness ==
  /\ WF_vars(Boot)
  /\ WF_vars(\E l \in Lines : IrqAccept(l))
  /\ WF_vars(Handler)

FairSpec == Spec /\ Fairness
=============================================================================
