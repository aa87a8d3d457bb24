-------------------------------- MODULE Guest --------------------------------
(***************************************************************************)
(* The 6502 guest and the commands that run it.  C64BOOT loads a ROM image *)
(* and resets; C64BOOT, C64RESUME, C64TYPE and C64TRACE then step the same *)
(* struct in a loop of their own and call cpu6502_irq in their own rhythm; *)
(* CPUTEST runs two programs on a struct of its own in the same memory.    *)
(* A session may end between any two instructions (F12, Esc, the step      *)
(* limits) and another one go on from there.                               *)
(***************************************************************************)
EXTENDS Cpu6502

CONSTANTS
  NumImages,
  Images,      \* guest programs by number: [rom, result], both from addresses to bytes
  IrqPeriod,   \* instructions between two IRQs: 20 in C64TRACE, 1000 or 200000 elsewhere
  MaxSteps,    \* max_steps of the self-tests, 100
  MaxSessions, \* bound: sessions in a behaviour
  TestImages   \* bound: images (or none) over which CPUTEST is given

NoImage == 0

RomArea == 40960..49151 \cup 57344..65535

ASSUME GuestAssumption ==
  /\ NumImages \in Nat /\ DOMAIN Images = 1..NumImages
  /\ \A n \in 1..NumImages :
       LET rom == Images[n].rom
       IN  DOMAIN rom \subseteq RomArea /\ 65532..65535 \subseteq DOMAIN rom /\ rom \in [DOMAIN rom -> Byte]
  /\ IrqPeriod \in Nat \ {0} /\ MaxSteps \in Nat /\ MaxSessions \in Nat
  /\ TestImages \subseteq 0..NumImages

VARIABLES
  host,        \* "shell", "session", "test1" or "test2": what runs
  image,       \* the number of the image booted
  parked,      \* g_cpu while CPUTEST uses its own struct
  steps,       \* steps of the test, or steps_since_irq
  sessions,    \* sessions so far
  verdicts,    \* what CPUTEST printed last
  disturbed    \* history: CPUTEST wrote into the memory of a booted guest

hostVars == <<host, image, parked, steps, sessions, verdicts, disturbed>>
vars == <<cpuVars, hostVars>>

\* g_cpu is in .bss.
Zeroed == [a |-> 0, x |-> 0, y |-> 0, sp |-> 0, pc |-> 0, p |-> {}, halted |-> FALSE]

Init ==
  /\ cpu = Zeroed /\ c64_ram = <<>> /\ raster_counter = 0 /\ pushed = <<>>
  /\ trace = [n \in 0..(TraceLen - 1) |-> <<0, 0>>] /\ trace_idx = 0
  /\ host = "shell" /\ image = NoImage /\ parked = Zeroed /\ steps = 0 /\ sessions = 0
  /\ verdicts = [test1 |-> "none", test2 |-> "none"] /\ disturbed = FALSE

Overlay(m, bytes) ==
  [n \in DOMAIN m \cup DOMAIN bytes |-> IF n \in DOMAIN bytes THEN bytes[n] ELSE m[n]]

\* The guest's memory is loaded and the struct reset to start there.
Restart(bytes, start_pc) ==
  /\ c64_ram' = Overlay(c64_ram, bytes)
  /\ cpu' = cpu6502_reset(start_pc)
  /\ pushed' = <<>>
  /\ UNCHANGED <<raster_counter, traceVars>>

----------------------------------------------------------------------------
(* Sessions *)

EnterSession ==
  /\ host = "shell" /\ host' = "session"
  /\ sessions < MaxSessions /\ sessions' = sessions + 1
  /\ UNCHANGED <<parked, verdicts, disturbed>>

\* c64_init; nothing but the ROM areas is cleared.  Once in a behaviour.  The
\* images are far shorter than a period, so where in it they start is left open.
cmd_c64boot ==
  /\ EnterSession
  /\ image = NoImage
  /\ image' \in 1..NumImages
  /\ LET rom == Images[image'].rom IN Restart(rom, rom[65532] + 256 * rom[65533])
  /\ steps' \in 0..(IrqPeriod - 1)

\* C64RESUME, C64TYPE or C64TRACE, C64BOOT or not before.
Resume ==
  /\ EnterSession /\ steps' = 0
  /\ UNCHANGED <<cpuVars, image>>

GuestStep ==
  /\ host = "session" /\ steps < IrqPeriod
  /\ cpu6502_step
  /\ steps' = steps + 1
  /\ UNCHANGED <<host, image, parked, sessions, verdicts, disturbed>>

\* Also when the last instruction halted the CPU.
HostIrq ==
  /\ host = "session" /\ steps = IrqPeriod
  /\ cpu6502_irq
  /\ steps' = 0
  /\ UNCHANGED <<host, image, parked, sessions, verdicts, disturbed>>

\* F12, Esc, a step limit or a halt.
Leave ==
  /\ host = "session" /\ host' = "shell" /\ steps' = 0
  /\ UNCHANGED <<cpuVars, image, parked, sessions, verdicts, disturbed>>

----------------------------------------------------------------------------
(* CPUTEST *)

Code(base, bytes) == [n \in base..(base + Len(bytes) - 1) |-> bytes[n - base + 1]]

\* test1_loop: LDX #0; INX; CPX #5; BNE; BRK.
Test1 == Code(2048, <<162, 0, 232, 224, 5, 208, 251, 0>>)

\* test2_jsr_rts: LDA #$11; JSR; STA $10; BRK; NOP; LDA #$22; RTS.
Test2 == Code(2304, <<169, 17, 32, 9, 9, 133, 16, 0, 234, 169, 34, 96>>)

Verdict(ok) == IF ok THEN "PASS" ELSE "FAIL"

\* It writes over $0800, $0900, $10 and the top of the stack, whoever owns them.
cpu6502_run_test ==
  /\ host = "shell" /\ host' = "test1"
  /\ image \in TestImages
  /\ parked' = cpu /\ disturbed' = (image # NoImage)
  /\ Restart(Test1, 2048) /\ steps' = 0
  /\ UNCHANGED <<image, sessions, verdicts>>

Testing == host \in {"test1", "test2"}

TestStep ==
  /\ Testing /\ steps < MaxSteps
  /\ cpu6502_step
  /\ steps' = steps + 1
  /\ UNCHANGED <<host, image, parked, sessions, verdicts, disturbed>>

TestOver == cpu.halted \/ steps >= MaxSteps

EndTest1 ==
  /\ host = "test1" /\ TestOver
  /\ verdicts' = [verdicts EXCEPT !.test1 = Verdict(cpu.x = 5 /\ "Z" \in cpu.p /\ cpu.halted)]
  /\ host' = "test2"
  /\ Restart(Test2, 2304) /\ steps' = 0
  /\ UNCHANGED <<image, parked, sessions, disturbed>>

\* Mutant: the tests run on g_cpu.
EndTest2_on_g_cpu ==
  /\ host = "test2" /\ TestOver
  /\ verdicts' = [verdicts EXCEPT !.test2 = Verdict(cpu.a = 34 /\ Ram(16) = 34 /\ cpu.halted)]
  /\ host' = "shell"
  /\ parked' = Zeroed /\ steps' = 0
  /\ UNCHANGED <<cpuVars, image, sessions, disturbed>>

EndTest2 ==
  /\ host = "test2" /\ TestOver
  /\ verdicts' = [verdicts EXCEPT !.test2 = Verdict(cpu.a = 34 /\ Ram(16) = 34 /\ cpu.halted)]
  /\ host' = "shell"
  /\ cpu' = parked /\ parked' = Zeroed /\ steps' = 0 /\ pushed' = <<>>
  /\ UNCHANGED <<c64_ram, raster_counter, traceVars, image, sessions, disturbed>>

Next ==
  \/ cmd_c64boot \/ Resume \/ GuestStep \/ HostIrq \/ Leave
  \/ cpu6502_run_test \/ TestStep \/ EndTest1 \/ EndTest2

\* What the loop of a session does to its counter, in GuestStep and HostIrq.
Looping ==
  /\ host = "session" /\ ~cpu.halted /\ host' = "session"
  /\ steps' = IF steps = IrqPeriod THEN 0 ELSE steps + 1

\* The loops run with nothing else to do; whether a session is left is the user's.
Spec == Init /\ [][Next]_vars /\ WF_steps(Looping)

----------------------------------------------------------------------------
(* Properties *)

Struct == [a : Byte, x : Byte, y : Byte, sp : Byte, pc : Word, p : SUBSET Flag, halted : BOOLEAN]

\* Type invariant.
TypeOK ==
  /\ cpu \in Struct /\ parked \in Struct
  /\ DOMAIN c64_ram \subseteq Word /\ c64_ram \in [DOMAIN c64_ram -> Byte]
  /\ raster_counter \in 0..(PalRasterLines - 1)
  /\ trace \in [0..(TraceLen - 1) -> Word \X Byte] /\ trace_idx \in 0..(TraceLen - 1)
  /\ pushed \in Seq(Byte) /\ Len(pushed) <= 256
  /\ host \in {"shell", "session", "test1", "test2"}
  /\ image \in 0..NumImages
  /\ steps \in Nat /\ sessions \in Nat
  /\ verdicts \in [test1 : {"none", "PASS", "FAIL"}, test2 : {"none", "PASS", "FAIL"}]
  /\ disturbed \in BOOLEAN

\* Bit 5 of P reads as 1 and B exists on the stack only, whatever bytes PLP and
\* RTI pull; before the first reset g_cpu has neither (cpu6502.h: always 1).
StatusBits ==
  /\ "B" \notin cpu.p
  /\ image # NoImage \/ Testing => "U" \in cpu.p

\* Unless the program stored over them, the bytes that pushes, calls and
\* interrupts left lie above SP, last one first, across the wrap from $0100 to
\* $01FF too: what is pulled is what was pushed.
StackHoldsPushed ==
  \A k \in 1..Len(pushed) : Ram(256 + ((cpu.sp + k) % 256)) = pushed[k]

\* A halt is final and told truthfully: no interrupt moves a halted CPU, the
\* newest entry of the trace that is dumped with it is the BRK or illegal opcode
\* at PC-1 that halted it, and the opcode printed, which is read again, is the
\* same, where a second read of the raster line does not change it; unless
\* CPUTEST came between.
HaltReported ==
  host = "session" /\ image # NoImage /\ ~disturbed /\ cpu.halted =>
    LET at     == (cpu.pc - 1) % 65536
        newest == cpu6502_trace_dump_ordered(TraceLen)[TraceLen]
        again  == cpu6502_read([pc |-> cpu.pc, raster |-> raster_counter, v |-> 0], at).v
    IN  /\ newest[1] = at /\ Decode[newest[2]][1] \in {"BRK", "illegal"}
        /\ at # VicRaster => again = newest[2]

\* A booted program that ran to its end has computed what it would have on a
\* 6502 of its own, wherever the host's interrupts hit it and however often it
\* was left and resumed, unless CPUTEST came between.  The programs keep to what
\* the interpreter claims: no decimal mode, and no JMP through a pointer at the
\* end of a page (cpu6502.c:396).
ResultsRight ==
  host = "session" /\ image # NoImage /\ ~disturbed /\ cpu.halted =>
    LET result == Images[image].result IN \A n \in DOMAIN result : Ram(n) = result[n]

\* What CPUTEST printed.
SelfTestsPass == "FAIL" \notin {verdicts.test1, verdicts.test2}

\* The bytes of the guest's memory that CPUTEST writes: $10, the return address of
\* its JSR, and its two programs.
Footprint == {16, 508, 509} \cup 2048..2055 \cup 2304..2315

SparesOtherBytes ==
  \A n \in (DOMAIN c64_ram \cup DOMAIN c64_ram') \ Footprint : Ram(n)' = Ram(n)

\* CPUTEST may be given between any two sessions.  It passes within MaxSteps,
\* whatever the guest has left in the memory, and does that guest no more harm
\* than to the bytes of Footprint, which nothing restores: no other byte changes,
\* and the struct is set aside, stays as it was through both programs and comes
\* back.
SelfTestsSpareGuest ==
  /\ []SelfTestsPass
  /\ [][Testing \/ Testing' => SparesOtherBytes]_vars
  /\ [][IF Testing THEN IF Testing' THEN parked' = parked ELSE cpu' = parked
        ELSE Testing' => parked' = cpu]_vars

\* Instructions are what the loops count.
Stepping == host' = host /\ steps' = steps + 1

\* The dump of the trace is a window on the instructions executed, which every
\* step moves on by one and nothing else changes, however the ring lies.
TraceSlides ==
  [][LET dump == cpu6502_trace_dump_ordered(TraceLen)
     IN  dump' = IF Stepping THEN Append(Tail(dump), <<cpu.pc, First.v>>) ELSE dump]_vars

\* The encoding aaabbbcc of the 6502: which opcodes exist, and their length.
Row(op) == op \div 32
Column(op) == (op \div 4) % 8

Exists(op) ==
  CASE op % 4 = 1 -> op # 137
    [] op % 4 = 2 -> \/ Column(op) \in {1, 2, 3, 5}
                     \/ Column(op) = 7 /\ op # 158
                     \/ op \in {162, 154, 186}
    [] op % 4 = 0 -> \/ Column(op) \in {2, 4, 6}
                     \/ Column(op) = 0 /\ op # 128
                     \/ Column(op) = 3 /\ op # 12
                     \/ op \in {36, 132, 164, 196, 228, 148, 180, 188}
    [] OTHER -> FALSE

Length(op) ==
  IF op = 32 \/ Column(op) \in {3, 7} \/ (Column(op) = 6 /\ op % 4 = 1) THEN 3
  ELSE IF op \in {0, 64, 96} \/ (Column(op) \in {2, 6} /\ op % 4 # 1) THEN 1
  ELSE 2

IsBranch(op) == op % 4 = 0 /\ Column(op) = 4
IsJump(op)   == op \in {32, 64, 76, 96, 108}

\* "The full legal instruction set" (README.md:25): an opcode halts exactly if
\* it is BRK or has no place in the encoding, and every other one but jumps goes
\* on to the instruction after its operand or where its branch points.
OpcodesDecoded ==
  [][Stepping =>
       LET op   == First.v
           next == (cpu.pc + Length(op)) % 65536
           far  == (next + Signed(Operand("imm", First).v)) % 65536
       IN  /\ cpu'.halted = (op = 0 \/ ~Exists(op))
           /\ ~cpu'.halted /\ ~IsJump(op) =>
                cpu'.pc = next \/ (IsBranch(op) /\ cpu'.pc = far)]_vars

\* The flags of the struct d after an addition whose signed result is s.
FlagsAfter(d, s) ==
  /\ ("V" \in d.p) = (s \notin -128..127)
  /\ ("N" \in d.p) = (d.a >= 128)
  /\ ("Z" \in d.p) = (d.a = 0)

\* ADC and SBC as arithmetic: carry and accumulator together are the sum or the
\* difference, and V tells whether it fits a signed byte, carry in included.
ArithmeticRight ==
  [][Stepping /\ First.instr \in {"ADC", "SBC"} =>
       LET v == Operand(First.mode, First).v
       IN  IF First.instr = "ADC"
           THEN /\ cpu'.a + 256 * CarryIn(cpu'.p) = cpu.a + v + CarryIn(cpu.p)
                /\ FlagsAfter(cpu', Signed(cpu.a) + Signed(v) + CarryIn(cpu.p))
           ELSE /\ cpu'.a - 256 * (1 - CarryIn(cpu'.p)) = cpu.a - v - (1 - CarryIn(cpu.p))
                /\ FlagsAfter(cpu', Signed(cpu.a) - Signed(v) - (1 - CarryIn(cpu.p)))]_vars

\* A booted program of finite length ends if it is not left: the interrupts
\* never keep it from going on, and a wait for a raster line sees the line.
ProgramEnds ==
  host = "session" /\ image # NoImage ~> cpu.halted \/ host # "session"
=============================================================================
