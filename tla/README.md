# Verification of CDos-x86

TLA+ models of the CDos-x86 kernel, TLC runs on small instances of them and
TLAPS proofs about them for all instances. Paths are relative to the
repository root; `shell.c:575` means line 575 of `src/kernel/shell.c`.

## The system

CDos-x86 is a 32-bit kernel for one processor. `kernel_main` sets the machine
up, enables interrupts, prints a prompt and executes `hlt` for ever. Everything
after that happens **inside the keyboard's interrupt handler**: a key is a line
edit, and Enter executes a command, down to a whole C64 session, before the EOI
is sent and `iret` turns interrupts on again.

| Component | State | Operations | Interacts with |
|---|---|---|---|
| Boot (`kernel.c`, `idt.c`, `gdt.c`, `irq.c`, `boot.asm`) | IDT gates, `irq_routines`, IF | install, remap, mask, `sti` | PIC, console, shell |
| Interrupt controller (`pic.c`) | IRR, IMR, ISR of two 8259s | remap, mask, unmask, EOI | interrupt delivery |
| Interrupt delivery (`irq.c`, `isr.asm`) | what is in service | gate, `irq_handler`, EOI, `iret` | keyboard handler |
| Keyboard (`keyboard.c`) | shift, C64 mode, F12 | handler (IRQ1), poll (C64BOOT) | port 0x60, shell, C64 keys |
| Shell (`shell.c`) | `line_buf` | character, backspace, Enter, 19 commands | everything below |
| Console (`console.c`) | cells, `cursor_pos`, `line_start`, VGA cursor | put, backspace, scroll, clear, mark | shell, guest |
| C64 glue (`c64.c`) | `exit_requested`; NDX and KEYD in guest memory | inject a key, load ROMs | keyboard, file system, guest |
| 6502 interpreter (`cpu6502.c`, `cpu6502_mem.c`) | registers, 64 KiB, raster line, trace ring | step, IRQ, reset, read, write | console |
| 6502 self-test (`cpu6502_test.c`) | a struct of its own, the guest's memory | two programs with a step limit | interpreter |
| String helpers (`string.c`) | none | comparisons without case | shell, file system |
| ATA driver (`ata.c`) | the drive's | read, write a sector, polled | file system, DISKTEST |
| File system (`fs.c`) | copy of the directory, `mounted` | mount, find, list, read | DIR, TYPE, C64BOOT |
| Image builder (`tools/build_disk.py`) | none | lay out an image | file system |

What is hard here: the handler is never re-entered only because of IF, the PIC
and the place of the EOI; two readers of the keyboard's port are kept apart by a
mask; the request line is an edge; `kernel_main` runs on with interrupts
enabled while keys change the same plain `int`s; flags set in one mode are read
in a later one; a drive goes on with a command the driver gave up on; a disk
command fails between two sectors. `PROJECT.json` lists these hazards at their
lines with the properties that cover them.

What each component must do:

* boot and delivery: only IRQ1 is serviced, one at a time, and no request is lost;
* keyboard: every byte is taken once, in order and eventually, by handler or poll;
* sessions: mask and mode belong to a session and end with it; F12 ends it;
* C64 keys: KEYD is never overrun and injection only appends;
* shell and console: what is on the screen after the prompt is the line;
* ATA: calls end, and answers belong to their calls;
* file system: what the builder put in is what is read out, from the directory
  that is on the disk now; no session starts on half its ROMs;
* interpreter: arithmetic, flags, addressing and stack wrap as a 6502's do, and an
  interrupt between any two instructions leaves no trace in what a program computes;
* arguments: the words of a line reach its command, and numbers are read and
  printed in notations that agree.

## Modules

| Module | Models | State and actions against the code |
|---|---|---|
| `Pic` | `pic.c`, the 8259s (external) | a register is the set of lines whose bit is set; one operator per function |
| `Keyboard` | `keyboard.c`, the PS/2 controller (external) | `obuf` holds the bytes not yet read, `Decode` the tables, `keyboard_poll_char` the poll |
| `C64Keys` | `c64_inject_key` and the flags of `c64.c` | `keys` is NDX, KEYD and the byte after it; `GuestEffects` is all a guest does to them |
| `Machine` | boot, delivery, the shell's dispatch, the loops of the C64 commands | `main` is the place in `kernel_main`, `ctx` the place in the handler; one action per place |
| `MachineProps` | properties of `Machine` | |
| `ByteStream` | abstract: bytes arrive and are taken | `Machine` implements it |
| `Machine_proofs` | theorems about `Machine` | |
| `Console` | `console.c` | positions count cells, not bytes; one operator per function |
| `Shell` | `shell_input_char`, the console half of commands, the end of `kernel_main` | `pc` and `reg` are `kernel_main`'s, `stage` is the place in the handler |
| `SectorStore` | abstract: an array of sectors | `Ata` implements it |
| `Ata` | `ata.c`, an IDE drive (external) | `at` is the place in a call; the drive moves by itself |
| `Ata_proofs` | theorems about `Ata` | |
| `Fs` | `build_disk.py`, `fs.c`, DIR, TYPE, DISKTEST, `c64_init` | `step` is the place in a command; one action per sector |
| `Shell_proofs`, `Fs_proofs` | theorems about `Shell` and `Fs` | |
| `Cpu6502` | `cpu6502.c`, `cpu6502_mem.c` | the struct is one record; memory is a function that is 0 where nothing was stored; `Decode` is the switch, one operator per group of its cases; `pushed` is a history of the stack |
| `Guest` | the loops that step the guest, the reset half of `c64_init`, `cpu6502_test.c` | `host` is the loop, `steps` its counter; an action executes one instruction or one interrupt |
| `Guest_proofs`, `GuestReports_proofs` | theorems about `Guest`: its types, stack and arithmetic; what it reports | |
| `Args` | `shell_execute`'s dispatch, `tokenize`, `parse_number`, PEEK, POKE, DUMP, C64MEM, the numbers of `console.c`, `string.c` | one action, a whole line; a token is a sequence of characters |
| `Args_proofs` | theorems about `Args` | |
| `NatLemmas` | no code: induction over sets of numbers, recursive functions and division, for the proofs | |
| `MCMachine`, `MCShell`, `MCFs`, `MCGuest`, `MCArgs` | instances for TLC | |

`Machine` extends `Keyboard` (which extends `Pic`) and `C64Keys`: it composes
them by calling their operators from its actions. `Shell` extends `Console`. `Shell`
and `Fs` rest on `HandlerRunsAlone` of `MachineProps`, which allows them to leave
interrupts out while a command runs, and `Fs` on `SectorStore`: a read of
a sector fails or returns it, a write may be lost. `Guest` extends `Cpu6502`.
It details the guest that `Machine` and `Shell` leave open, and `Args` the commands that
`Shell` knows only by what they print; that they fit together is by reading, no
refinement is checked between them.

Assumptions about hardware:

* *Request latch.* When the poll of C64BOOT reads a byte, its request has already
  been latched by the masked controller. With `StickyLatch = TRUE` (the i8259 of
  QEMU) the latch stays; with `FALSE` the request goes with the byte. What
  depends on it is checked or proved for the value named.
* *ICW1* resets the edge detectors, so a byte waiting when `pic_remap` runs is
  never announced (`EarlyTyping = TRUE` includes this; `wedged` records it).
* *IDE.* A drive that is busy, or in the middle of a transfer, ignores a command.
  `Timely` says that it answers within the million status reads of a poll.
* *Compiler.* `console_putchar`, compiled with `-O2` as the Makefile says, loads
  `cursor_pos` once and keeps it in a register until its last store. The loop that
  moves the cells when it scrolls, and the four port writes of `update_cursor`,
  are one step each.

## Runs

| Run | Shows | Bounds |
|---|---|---|
| `kernel_safety` | interrupt discipline, mask and mode of sessions, no lost wake-up, a byte that waits at the prompt interrupts, KEYD bound, no stop but idle | 4 bytes typed among 5 keys (enough for a command, keys in it and its way out), lines 0, 1, 2, 8 with line 0 requesting all the time, `LINE_MAX` 3, `KEYD_MAX` 2, NDX poked to 0 or 3 |
| `byte_delivery` | `Machine` implements `ByteStream`, liveness included; each byte read once; F12 ends a session | 3 bytes, 4 keys |
| `line_editor` | echo equals line, prompt whole, cursors on the screen | 3 rows of 2 cells: prompt and the longest line fill two rows, so every wrap and scroll happens |
| `timely_drive` | `Ata` implements `SectorStore`, liveness included | 2 sectors, 2 contents |
| `disk_commands` | what TYPE prints is a beginning of the file's text, and all of it if its buffer holds it; no half-loaded session, directory never stale | 5 directories: sectors of 2 bytes, ROMs of 2 sectors, empty, odd and long files, a missing and a short ROM, names equal but for case |
| `interpreter` | programs compute what they would on a 6502 and end; halts and trace tell the truth; the self-tests pass and give the guest back but for the bytes they store; every opcode is decoded; sums and differences with their flags | 265 guest programs: each of the 256 opcodes once, and nine with 16-bit sums and differences, a product, every addressing mode and the stack at its wrap, a wait for the raster, a PC that runs into $DC01. An IRQ every 13 instructions, starting at any phase; 2 sessions, left and resumed at any instruction; CPUTEST with its real limit of 100 steps over no guest and two of them; a trace ring of 3 |
| `arguments` | the first word chooses the command, the others reach it, and a usage is shown exactly when one is missing; PEEK, POKE, DUMP and C64MEM use the bytes asked for; numbers read back | words of 2 digits, guest addresses and bytes of 1: every wrap is within reach of a three-digit argument. Rows of 4, limits 6 and 5. Two lines, the first of the POKE and C64MEM lines, the second any of about 800: every name, every line of blanks and a letter up to six, numbers in each notation, well formed and not |

`kernel_safety`, `line_editor`, `disk_commands` and `arguments` have no fairness. Deadlock checking is off
where the machine may rest: `hlt` with nothing typed is the normal end of a
behaviour. `StopsOnlyIdle` says that it is the only one, for the steps of the processor
(`Kernel`): that a user could still type or a device still request is no excuse for a stop.

The other five runs each find a statement of the repository violated; the
findings in `PROJECT.json` quote it. A sixth finding needs no violation: "type on your
keyboard" (C64RESUME, `shell.c:470`) is contradicted by `C64ModeOnlyInResume`, which holds.
C64RESUME runs inside the handler of the Enter that gave it, with interrupts off, and takes
C64 mode back before it returns; so the handler never runs in C64 mode, and keys typed "live"
reach the shell's line afterwards.

| Run | Statement | What happens |
|---|---|---|
| `stale_f12` | F12 to exit (help text) | F12 at the prompt ends the next session |
>>>>
<<<<
| `late_answer` | the same | the answer to a call that timed out is taken for the next one's |
@@@@
| `late_answer` | the same | the answer to a call that timed out is taken for the next one's |
| `long_text` | print a file's contents (`README.md:91`) | a text longer than TYPE's buffer of one sector is cut, without a word |
| `type_line` | every character, then Enter (C64TYPE) | a full KEYD drops the rest, the Return included |
| `write_errors` | 0 on success, non-zero on error (`ata.h`) | an error after the data is not looked at |
| `late_answer` | the same | the answer to a call that timed out is taken for the next one's |

### Fairness

`Boot`, `IrqAccept` and `Handler` are weakly fair: the processor executes
instructions, and accepts a request that stays deliverable. The loops of C64TYPE,
C64TRACE and C64RESUME have a step limit, so they return whatever the guest does;
the loop of C64BOOT has none, but polls the keyboard in every iteration. Nothing
is asked of the user, other devices or the guest. In `Guest`, `WF_steps(Looping)` is the
loop of a session: it executes the next instruction or interrupt as long as the CPU
is not halted, having nothing else to do; that the user ever leaves a session is
not assumed. In `Ata` the driver is fair,
its polls being bounded, and so is a drive in time.

## Proofs

`Machine_proofs`, for any request lines, devices, keys, buffer and line sizes:

* `TypeCorrect`: `line_buf` never exceeds its bound, among the rest.
* `HandlerRunsAloneHolds`, `OnlyKeyboardServicedHolds`,
  `MaskedOnlyInSessionHolds`, `C64ModeOnlyInResumeHolds`. None is inductive
  alone: that the handler runs alone needs the IF half of the same invariant,
  which needs the order of boot (IF is off until `sti`), and that only IRQ1 is
  serviced needs the mask, which needs the session's places. Their conjunction with
  the order of boot, `Discipline`, is inductive together with the types. One lemma
  per group of actions preserves it.
* `NoReentryHolds` follows: an interrupt is accepted only with IF on, which is
  only so in `kernel_main`.
* `NoLostWakeupHolds`: inductive with `Discipline`, which excludes a
  handler for another line.
* `KeydNotOverrunHolds`, `HostOnlyAppendsHolds`: from the lemmas about
  `QueueKey`, `InjectedInto` and `GuestEffects`.
* `EachByteReadOnceHolds` and `ImplementsByteStreamSafety`, assuming
  `~StickyLatch`: the strengthening `RequestsAreReal` says that a latched request,
  or a handler about to read, has a byte waiting. With a sticky latch it is false:
  a request latched while the mask was on outlives the byte, which the poll has read,
  and the handler then reads port 0x60 again.
* `TakesInOrder` is what remains with one: whatever the latch does, each byte typed is taken
  from the controller at most once and in order; a handler entered for nothing may see the
  last one again, but takes none.
* `WaitingByteInterruptsHolds`: from `Discipline` and `NoLostWakeup`; after any command and
  session, IF, mask, IRR and ISR are such that the next byte is accepted.
* `HandlersEnd`, the safety half of "every handler returns": with the order of the places in
  the handler and the text that C64TYPE has left, every step of the handler is `Nearer` to
  `iret`, the iterations of C64BOOT's loop excepted, and nothing else moves it back.
* `F12EndsSession`, the safety half of `F12LeavesC64`: an F12 that is the next byte of a
  session stays so until the next iteration takes it and leaves, and the guest then runs, so
  that there is one (`SessionLoops`).
* Three theorems are about statements that the code does not keep. `StaleF12OnlyAtFirstPoll`
  (run `stale_f12`): only the first iteration of a session can fall for an old F12.
  `LineThatFitsEndsInReturn` (`type_line`): a text that fits what is free of KEYD
  with its Return is typed to its end, and the guest starts with Return as its newest key.
  `HandlerSendsNoKeys`, from `C64ModeOnlyInResume`: the branch of the handler that would send
  a live key to the guest is never taken.

`Ata_proofs`, assuming `Timely`, for any sectors and contents: `InStepHolds`
and from it `ImplementsSectorStoreSafety`. `InStep` says for each place in a call
what the drive may be doing; without it a step of the drive could be any call's.
`ReadOkMeansSectorHolds`, assuming `Timely` too, is what "0 on success" is worth for reads; a late
drive breaks it (run `late_answer`). `CallsEnd` assumes nothing of the drive: each step of driver
and drive makes a number below 10 smaller until the call returns, whether the drive answers,
fails or is silent.

`Guest_proofs`, for any images, trace length, IRQ period and step limit:
`GuestTypeCorrect`, `StatusBitsHold`, `StackHoldsPushedHolds`, `ArithmeticRightHolds` and
`TraceSlidesHolds`. The inductive invariant `GuestInv` joins `CpuInv` (the types and the
stack, since a read of a byte needs the memory's type and a pull the stack's) with the
types of ring and host, with `StatusBits`, and with `ParkedFit`: the struct that CPUTEST
sets aside must have its bits right too, or `StatusBits` would fail when it comes back. One
lemma per group of instructions preserves `CpuInv`, whatever byte is fetched. The
arithmetic follows from a case split on carry and signs; the window of the trace from
where the ring's index stands before and after a step. The proof assumes of an image
that it is bytes in the ROM areas and has a reset vector (`GuestAssumption`).

`Shell_proofs`, for any screen, prompt, banner, line length and outputs of commands, and any
interleaving of `kernel_main`'s instructions with keys: `ShellTypes`, `CursorStaysOnScreen`,
`EchoAlwaysMatches`, `PromptStaysIntact`, `HwCursorAlwaysFollows`. `ShellInv` has five parts:

* `LineInv`, `ScreenInv`: types, and positions below the screen's size except between
  `kernel_main`'s store and its scrolling. A key may store a smaller position in that
  window but never a larger one, which is why the exception names the register.
* `QuietInv`: as long as no key has come, where `kernel_main` stands in its text is
  what the screen shows. It needs the place of each instruction (`Layout`, `Places`), and
  that the banner's last newline puts the prompt at the beginning of a row.
* `CommandInv`: after the newline of Enter and commands that end with one, the prompt
  begins a row, and as much of it as was printed stands there.
* `ReadyInv`: the prompt and the line after it, with the cursors at its end.

The assumptions are the code's: banner and outputs end with a newline, the prompt is
shorter than a row, and prompt and full line fit the screen without its first row, so
that a scroll while typing never loses the prompt (`ShellAssumption`).

`Fs_proofs`, for any directories of files and any lengths, sector and ROM sizes:
`FsTypeCorrect`, `FilesAlwaysReadBack`, `NeverHalfLoaded`, `ReadsStayOnDisk`,
`LookupIsAlwaysCurrent`. `FsInv` is their inductive invariant:

* `Typed`; `DiskKept`: sector 0 holds the directory or DISKTEST's pattern, and no other changes.
* `Current`: from `fs_mount` to the end of a command the copy is the directory on the
  disk. The second ROM is looked up after the first was read, so nothing less will do.
* `Reading`, `Booting`: what has been copied so far is that much of the file being read,
  and of the ROMs named before it.

`FilesAlwaysReadBack` does not say that TYPE prints a whole file: what it prints is a beginning
of it (`PrintedBeginning`), and the whole if it fits the buffer. Run `long_text` shows the rest.

It rests on the builder's layout: files occupy disjoint runs of sectors in the order of
the directory (`StartLba`, a sum over the files before). That recursive functions
exist which compute such sums is proved by `NatLemmas`, which derives
induction over the natural numbers *for sets* from the well-foundedness of `<`; the
library's own rules are about operators, which the provers here cannot instantiate.

Two more from `FsInv`. `CommandsEnd`: each step of a command brings it nearer to its end, since
the loop of `fs_read_file` always has bytes to get and C64BOOT looks up each ROM once.
`OverwrittenDiskServesNothing`: once DISKTEST's pattern is on sector 0, it stays, and through
any commands, failures and reboots no name is looked up, nothing listed or printed and no
session started.

`GuestReports_proofs`, for any images, trace length and IRQ period:

* `OpcodesDecodedHolds`: lemmas on groups of the 256 opcodes, and one per way
  to fetch an operand, add up to what an instruction does to PC and A.
* `HaltReportedHolds`: `ReportInv` adds to `GuestInv` that the report stays right at the
  shell, and that a guest which CPUTEST interrupted is no longer the one that was booted.
* `SelfTestsSpareGuestHolds`, assuming that the limit of steps is at least 17 (100 in the
  code): `SelfTestInv` says where each of the two programs stands after so many steps,
  and with which registers; the longer one needs 17. So both pass, and what CPUTEST does to
  a guest is the bytes of `Footprint` and no more: its struct is set aside, kept through both
  programs and given back. The bytes of `Footprint` are lost, and nothing restores them.
* `InterruptsReturn`: the bytes that `cpu6502_irq` pushes are those that RTI takes for PC and P,
  whatever the guest was doing, and beside them only SP, PC and I change. A byte of status made
  of flags gives the flags back, and bytes pushed below a stack leave it as it was, at
  the wrap too. `CallsReturn`: the same for JSR and RTS, also for a JSR across the end of memory.

An attempt to prove `HaltReported` and `OpcodesDecoded` showed both to be false as they
stood: they took a register for memory. Where PC-1 lies on $D012, the shell reads it
once more for its report (`shell.c:293`) and may print another opcode than the one that
halted the CPU; where an opcode or an operand lies on a register, memory does not hold it.
`HaltReported` now takes the opcode from the trace and excepts $D012, `OpcodesDecoded`
what was read, and the run executes a program that runs into a register.

`Args_proofs`, for lines of any length and words, bytes and rows of any size:
`ArgsTypeCorrect`, `WordsReachCommandHolds`, `NumbersReadBackHolds`,
`DumpShowsMemoryHolds`, `PokeStoresHolds`. What one line does says all of them, whatever came
before, so `TypeOK` is invariant enough. The work is in the operators: the loops of the code
compute the reader's definitions (`WordOf`, `StandsFor`, `Sum`) in another way.

* `TokensAreWords`: after n rounds `tokenize` has passed n starts and n ends of words
  (`WordsCounted`, by induction with `TokenAddsWord`), so the n-th token lies between
  the n-th of each.
* `Replied`: which command answers, and that it shows its usage exactly if it needs more words
  than it got. No two names are the same, so the first word decides (`NamesDiffer`).
* `NumberRead`: `parse_number` takes the digits from the left and wraps in every round, `Sum`
  adds them by place from the right. That they agree modulo a word is by induction over
  prefixes (`LoopIsSum`).
* `PrintedReadsBack`: the last k digits printed add up to the number modulo the k-th
  power of the base. A decimal number reads back only if the buffer holds the longest word,
  `WordSize <= Power(10, DecDigits)` in `ArgsAssumption`: 10 digits for 32 bits.
* `RowsAre`: the rows of a dump tile the bytes read.

Only model-checked:

* liveness: `F12LeavesC64`, `ProgramEnds` and the liveness halves of both refinements, which
  are out of the prover's reach. What fairness has to drive is proved: `HandlersEnd`,
  `F12EndsSession` and `CallsEnd`, so that only "a step that stays enabled is taken" is left to TLC;
* `StopsOnlyIdle`: it speaks of ENABLED. That a byte at the prompt finds IF, mask
  and request as acceptance needs them is proved (`WaitingByteInterrupts`);
* `ResultsRight`: a statement about particular programs, whose proof would be their execution.
  What it tests of interrupts, calls and sums is proved for every program (`InterruptsReturn`,
  `CallsReturn`, `ArithmeticRight`).

## Not modelled

* Of the 6502: cycle counts, which nothing reads; decimal mode, which the code leaves out
  (D is a bit); two debug counters. A JMP through a pointer whose low byte lies at the end of a
  page takes its high byte from the next page here, as the code does and its comment admits
  (`cpu6502.c:396`); a real 6502 does not, and no program of `ResultsRight` has one. The shell reads the guest's memory to show it, and a
  byte shown from $D012 moves the raster line on: modelled for C64MEM (`Args`), not for a
  PC that points there (C64TRACE reads the opcode it is about to show once more). Writes to the screen window are in `Console`. In `Machine` the guest is an environment that may
  change NDX and KEYD and halt, in `Shell` one that writes cells.
* What a guest does after CPUTEST wrote over its memory: the properties except it, as
  nothing in the code keeps it from happening.
* Exceptions: `isr_handler` prints and halts for ever; no code continues from it.
* Descriptor tables' contents, assembly stubs, linker script: data and fixed
  sequences; the order in which they are installed is in `Machine`.
* Interrupts between the four port writes of `update_cursor`, one step of `Shell`:
  `HwCursorFollows` says only that each update leaves the cursor right.
* The texts of HELP, C64SCREEN and KBDSTAT: they print and change nothing. POKE may write
  any memory, the kernel's and devices' too; in `Args` memory is only that, memory.
* An Esc injected by C64KEY, C64TYPE or C64RESUME ends the next session as a stale F12 does
  (`Machine` has it; no statement of the repository is about it).
* `k_strlen`, `k_strcmp`, `k_strchr`: nothing calls them.
* Error exits of `build_disk.py`: an image that was refused does not exist.

## Open

The modules above, their runs and the proofs about each are complete as far as the provers
reach. What this project does not say:

* What C64TYPE delivers when the KERNAL does its part. `Machine` lets a guest do anything to
  NDX and KEYD; composing it with `Guest` would take the program that empties KEYD, which is
  in a ROM image outside the repository.
* What the user finds after a guest went on over the bytes of `Footprint`; it depends on the guest.
