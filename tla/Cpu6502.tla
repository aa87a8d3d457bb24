------------------------------- MODULE Cpu6502 -------------------------------
(***************************************************************************)
(* kernel/cpu6502.c and cpu6502_mem.c: the 6502 interpreter, one action    *)
(* per group of instructions.  An instruction in progress is a record i:   *)
(* the program counter and the raster counter it has come to, and the      *)
(* value v it read or computed last.  Left out are cycles, which nothing   *)
(* reads, and the two debug counters.                                      *)
(***************************************************************************)
EXTENDS Integers, Sequences

CONSTANT TraceLen    \* CPU6502_TRACE_LEN, 64

ASSUME TraceAssumption == TraceLen \in Nat \ {0}

VARIABLES
  cpu,               \* the struct cpu6502 the interpreter is called with
  c64_ram,           \* addresses written so far; every other byte is 0
  raster_counter,
  trace, trace_idx,  \* cpu6502_trace_pc and _op, as pairs
  pushed             \* history: what pushes and pops left on the stack, last byte first

memVars   == <<c64_ram, pushed>>
traceVars == <<trace, trace_idx>>
cpuVars   == <<cpu, raster_counter, memVars, traceVars>>

Byte == 0..255
Word == {n \in Nat : n < 65536}

PalRasterLines == 312
VicRaster == 53266      \* $D012
Cia1Prb   == 56321      \* $DC01
StackPage   == 256..511
IrqVector   == 65534    \* $FFFE

----------------------------------------------------------------------------
(* Bytes as sets of bits.  The status register P is kept as its set. *)

Weight == [C |-> 1, Z |-> 2, I |-> 4, D |-> 8, B |-> 16, U |-> 32, V |-> 64, N |-> 128]
Flag   == {"C", "Z", "I", "D", "B", "U", "V", "N"}

Bits(v) == {f \in Flag : (v \div Weight[f]) % 2 = 1}

BitValue(f, s) == IF f \in s THEN Weight[f] ELSE 0
FromBits(s) == BitValue("C", s) + BitValue("Z", s) + BitValue("I", s) + BitValue("D", s)
             + BitValue("B", s) + BitValue("U", s) + BitValue("V", s) + BitValue("N", s)

With(p, f, on) == IF on THEN p \cup {f} ELSE p \ {f}
Negative(v) == v >= 128
set_zn(p, v) == With(With(p, "Z", v = 0), "N", Negative(v))
CarryIn(p) == IF "C" \in p THEN 1 ELSE 0

----------------------------------------------------------------------------
(* Memory *)

Ram(addr) == IF addr \in DOMAIN c64_ram THEN c64_ram[addr] ELSE 0

Stored(m, addr, v) == [n \in DOMAIN m \cup {addr} |-> IF n = addr THEN v ELSE m[n]]

\* What the host or the guest stores itself may lie on the stack.  That a store
\* to the screen is shown is modelled in Console.
cpu6502_write(addr, v) ==
  /\ c64_ram' = Stored(c64_ram, addr, v)
  /\ pushed' = IF addr \in StackPage THEN <<>> ELSE pushed

\* Mutant: the raster line stands still.
cpu6502_read_still(i, addr) ==
  [i EXCEPT !.v = CASE addr = VicRaster -> i.raster % 256
                    [] addr = Cia1Prb   -> 255
                    [] OTHER            -> Ram(addr)]

\* Reading VIC_RASTER moves it on.
cpu6502_read(i, addr) ==
  LET raster == IF addr = VicRaster THEN (i.raster + 1) % PalRasterLines ELSE i.raster
  IN  [i EXCEPT !.raster = raster,
                !.v = CASE addr = VicRaster -> raster % 256
                        [] addr = Cia1Prb   -> 255
                        [] OTHER            -> Ram(addr)]

fetch8(i) == [cpu6502_read(i, i.pc) EXCEPT !.pc = (@ + 1) % 65536]

\* Two bytes, low byte first.
Pair(lo, hi) == [hi EXCEPT !.v = lo.v + 256 * hi.v]

fetch16(i) == LET lo == fetch8(i) IN Pair(lo, fetch8(lo))

\* Mutant: the stack pointer does not wrap within its page.
push8_no_wrap(m, sp, v) == Stored(m, IF sp < 0 THEN 256 + sp ELSE 256 + (sp % 256), v)

push8(m, sp, v) == Stored(m, 256 + (sp % 256), v)

\* The 256 bytes pushed last are on the stack, those before them overwritten.
Kept(s) == SubSeq(s, 1, IF Len(s) < 256 THEN Len(s) ELSE 256)

PushByte(v) ==
  /\ c64_ram' = push8(c64_ram, cpu.sp, v)
  /\ pushed' = Kept(<<v>> \o pushed)

PushWord(w) ==
  /\ c64_ram' = push8(push8(c64_ram, cpu.sp, w \div 256), cpu.sp - 1, w % 256)
  /\ pushed' = Kept(<<w % 256, w \div 256>> \o pushed)

\* The n-th byte popped by an instruction, and what is left after n of them.
pop8(n) == Ram(256 + ((cpu.sp + n) % 256))

Popped(n) ==
  /\ pushed' = IF Len(pushed) < n THEN <<>> ELSE SubSeq(pushed, n + 1, Len(pushed))
  /\ UNCHANGED c64_ram

SpPlus(n) == (cpu.sp + n) % 256

\* Mutant: the status is taken as it was pulled.
Restored_as_pulled(v) == Bits(v)

\* P as PLP and RTI set it from the byte pulled, which has bit 5 whatever was pushed.
Restored(v) == (Bits(v) \ {"B"}) \cup {"U"}

----------------------------------------------------------------------------
(* Addressing modes: the effective address is the v of the result *)

Plus(i, n, size) == [i EXCEPT !.v = (@ + n) % size]

\* The pointer at i.v in the zero page, whose second byte wraps within it.
Pointer(i) == LET lo == cpu6502_read(i, i.v) IN Pair(lo, cpu6502_read(lo, (i.v + 1) % 256))

addr_zp(i)   == fetch8(i)
addr_zpx(i)  == Plus(fetch8(i), cpu.x, 256)
addr_zpy(i)  == Plus(fetch8(i), cpu.y, 256)
addr_abs(i)  == fetch16(i)
addr_absx(i) == Plus(fetch16(i), cpu.x, 65536)
addr_absy(i) == Plus(fetch16(i), cpu.y, 65536)
addr_indx(i) == Pointer(addr_zpx(i))
addr_indy(i) == Plus(Pointer(fetch8(i)), cpu.y, 65536)

Address(mode, i) ==
  CASE mode = "zp"   -> addr_zp(i)   [] mode = "zpx"  -> addr_zpx(i)
    [] mode = "zpy"  -> addr_zpy(i)  [] mode = "abs"  -> addr_abs(i)
    [] mode = "absx" -> addr_absx(i) [] mode = "absy" -> addr_absy(i)
    [] mode = "indx" -> addr_indx(i) [] OTHER -> addr_indy(i)

Operand(mode, i) ==
  IF mode = "imm" THEN fetch8(i)
  ELSE LET e == Address(mode, i) IN cpu6502_read(e, e.v)

----------------------------------------------------------------------------
(* The switch of cpu6502_step: its case labels by instruction and mode *)

Opcodes == [
  LDA |-> [imm |-> \hA9, zp |-> \hA5, zpx |-> \hB5, abs |-> \hAD, absx |-> \hBD, absy |-> \hB9, indx |-> \hA1, indy |-> \hB1],
  LDX |-> [imm |-> \hA2, zp |-> \hA6, zpy |-> \hB6, abs |-> \hAE, absy |-> \hBE],
  LDY |-> [imm |-> \hA0, zp |-> \hA4, zpx |-> \hB4, abs |-> \hAC, absx |-> \hBC],
  STA |-> [zp |-> \h85, zpx |-> \h95, abs |-> \h8D, absx |-> \h9D, absy |-> \h99, indx |-> \h81, indy |-> \h91],
  STX |-> [zp |-> \h86, zpy |-> \h96, abs |-> \h8E],
  STY |-> [zp |-> \h84, zpx |-> \h94, abs |-> \h8C],
  CMP |-> [imm |-> \hC9, zp |-> \hC5, zpx |-> \hD5, abs |-> \hCD, absx |-> \hDD, absy |-> \hD9, indx |-> \hC1, indy |-> \hD1],
  CPX |-> [imm |-> \hE0, zp |-> \hE4, abs |-> \hEC],
  CPY |-> [imm |-> \hC0, zp |-> \hC4, abs |-> \hCC],
  AND |-> [imm |-> \h29, zp |-> \h25, zpx |-> \h35, abs |-> \h2D, absx |-> \h3D, absy |-> \h39, indx |-> \h21, indy |-> \h31],
  ORA |-> [imm |-> \h09, zp |-> \h05, zpx |-> \h15, abs |-> \h0D, absx |-> \h1D, absy |-> \h19, indx |-> \h01, indy |-> \h11],
  EOR |-> [imm |-> \h49, zp |-> \h45, zpx |-> \h55, abs |-> \h4D, absx |-> \h5D, absy |-> \h59, indx |-> \h41, indy |-> \h51],
  ADC |-> [imm |-> \h69, zp |-> \h65, zpx |-> \h75, abs |-> \h6D, absx |-> \h7D, absy |-> \h79, indx |-> \h61, indy |-> \h71],
  SBC |-> [imm |-> \hE9, zp |-> \hE5, zpx |-> \hF5, abs |-> \hED, absx |-> \hFD, absy |-> \hF9, indx |-> \hE1, indy |-> \hF1],
  BIT |-> [zp |-> \h24, abs |-> \h2C],
  INC |-> [zp |-> \hE6, zpx |-> \hF6, abs |-> \hEE, absx |-> \hFE],
  DEC |-> [zp |-> \hC6, zpx |-> \hD6, abs |-> \hCE, absx |-> \hDE],
  ASL |-> [acc |-> \h0A, zp |-> \h06, zpx |-> \h16, abs |-> \h0E, absx |-> \h1E],
  LSR |-> [acc |-> \h4A, zp |-> \h46, zpx |-> \h56, abs |-> \h4E, absx |-> \h5E],
  ROL |-> [acc |-> \h2A, zp |-> \h26, zpx |-> \h36, abs |-> \h2E, absx |-> \h3E],
  ROR |-> [acc |-> \h6A, zp |-> \h66, zpx |-> \h76, abs |-> \h6E, absx |-> \h7E],
  TAX |-> [imp |-> \hAA], TXA |-> [imp |-> \h8A], TAY |-> [imp |-> \hA8],
  TYA |-> [imp |-> \h98], TXS |-> [imp |-> \h9A], TSX |-> [imp |-> \hBA],
  PHA |-> [imp |-> \h48], PLA |-> [imp |-> \h68], PHP |-> [imp |-> \h08], PLP |-> [imp |-> \h28],
  SEI |-> [imp |-> \h78], CLI |-> [imp |-> \h58], SED |-> [imp |-> \hF8], CLD |-> [imp |-> \hD8],
  SEC |-> [imp |-> \h38], CLC |-> [imp |-> \h18], CLV |-> [imp |-> \hB8],
  INX |-> [imp |-> \hE8], INY |-> [imp |-> \hC8], DEX |-> [imp |-> \hCA], DEY |-> [imp |-> \h88],
  BNE |-> [rel |-> \hD0], BEQ |-> [rel |-> \hF0], BPL |-> [rel |-> \h10], BMI |-> [rel |-> \h30],
  BVC |-> [rel |-> \h50], BVS |-> [rel |-> \h70], BCC |-> [rel |-> \h90], BCS |-> [rel |-> \hB0],
  JMP |-> [abs |-> \h4C, ind |-> \h6C], JSR |-> [abs |-> \h20], RTS |-> [imp |-> \h60], RTI |-> [imp |-> \h40],
  NOP |-> [imp |-> \hEA], BRK |-> [imp |-> \h00] ]

Cases(op) == {c \in {<<n, m>> : n \in DOMAIN Opcodes, m \in {"imm", "zp", "zpx", "zpy", "abs",
                        "absx", "absy", "indx", "indy", "acc", "imp", "rel", "ind"}} :
                /\ c[2] \in DOMAIN Opcodes[c[1]] /\ Opcodes[c[1]][c[2]] = op}

\* Mutant: LDA abs,Y has no case.
Decode_without_B9 == [op \in Byte |-> IF Cases(op) = {} \/ op = 185 THEN <<"illegal", "imp">>
                                      ELSE CHOOSE c \in Cases(op) : TRUE]

\* default: is one case more.
Decode == [op \in Byte |-> IF Cases(op) = {} THEN <<"illegal", "imp">>
                           ELSE CHOOSE c \in Cases(op) : TRUE]

\* The instruction at PC, with its opcode as v.
First ==
  LET i == fetch8([pc |-> cpu.pc, raster |-> raster_counter, v |-> 0])
  IN  [pc |-> i.pc, raster |-> i.raster, v |-> i.v,
       instr |-> Decode[i.v][1], mode |-> Decode[i.v][2]]

----------------------------------------------------------------------------
(* Arithmetic.  c is the struct before, the result the struct after. *)

Reg(r) == IF r = "a" THEN cpu.a ELSE IF r = "x" THEN cpu.x ELSE cpu.y

SetReg(c, r, v) == [c EXCEPT !.a = IF r = "a" THEN v ELSE @,
                             !.x = IF r = "x" THEN v ELSE @,
                             !.y = IF r = "y" THEN v ELSE @]

WithZN(c, v) == [c EXCEPT !.p = set_zn(@, v)]

Plain(c, r, v) == WithZN(SetReg(c, r, v), v)

\* Mutant: a keeps the ninth bit of the sum.
do_adc_wide(c, v) ==
  LET sum == c.a + v + CarryIn(c.p)
      r   == sum % 256
  IN  Plain([c EXCEPT !.p = With(With(@, "C", sum > 255), "V",
                               Negative(c.a) # Negative(r) /\ Negative(v) # Negative(r))],
            "a", sum)

\* D is not looked at.
do_adc(c, v) ==
  LET sum == c.a + v + CarryIn(c.p)
      r   == sum % 256
  IN  Plain([c EXCEPT !.p = With(With(@, "C", sum > 255), "V",
                               Negative(c.a) # Negative(r) /\ Negative(v) # Negative(r))],
            "a", r)

\* Mutant: the operand is negated, not inverted.
do_sbc_negated(c, v) == do_adc(c, (256 - v) % 256)

do_sbc(c, v) == do_adc(c, 255 - v)

Compared(c, r, v) ==
  [c EXCEPT !.p = With(set_zn(@, (r - v) % 256), "C", r >= v)]

\* The bits that are in an odd number of s and t.
Differing(s, t) == (s \ t) \cup (t \ s)

Logical(instr, a, v) ==
  FromBits(CASE instr = "AND" -> Bits(a) \cap Bits(v)
             [] instr = "ORA" -> Bits(a) \cup Bits(v)
             [] OTHER         -> Differing(Bits(a), Bits(v)))

\* do_asl, do_lsr, do_rol and do_ror: the byte shifted, and the bit that falls out.
Shifted(instr, v, carry) ==
  CASE instr = "ASL" -> (2 * v) % 256
    [] instr = "ROL" -> ((2 * v) % 256) + carry
    [] instr = "LSR" -> v \div 2
    [] OTHER         -> (v \div 2) + 128 * carry

FallsOut(instr, v) == IF instr \in {"ASL", "ROL"} THEN Negative(v) ELSE v % 2 = 1

WithCarry(c, instr, v) == [c EXCEPT !.p = With(@, "C", FallsOut(instr, v))]

Signed(v) == IF v < 128 THEN v ELSE v - 256

----------------------------------------------------------------------------
(* cpu6502_step *)

\* The instruction leaves the struct c, but for PC, which is where i has come to.
Finish(c, i) ==
  /\ cpu' = [c EXCEPT !.pc = i.pc]
  /\ raster_counter' = i.raster

Jump(c, i) == Finish(c, [i EXCEPT !.pc = i.v])

\* The register an instruction reads or sets.
Target(instr) ==
  CASE instr \in {"LDA", "STA", "TXA", "TYA", "CMP"} -> "a"
    [] instr \in {"LDX", "STX", "TAX", "TSX", "INX", "DEX", "CPX"} -> "x"
    [] OTHER -> "y"

Load(i) ==
  /\ i.instr \in {"LDA", "LDX", "LDY"}
  /\ LET o == Operand(i.mode, i) IN Finish(Plain(cpu, Target(i.instr), o.v), o)
  /\ UNCHANGED memVars

Store(i) ==
  /\ i.instr \in {"STA", "STX", "STY"}
  /\ LET e == Address(i.mode, i)
     IN  cpu6502_write(e.v, Reg(Target(i.instr))) /\ Finish(cpu, e)

Transferred(i) ==
  CASE i.instr \in {"TAX", "TAY"} -> cpu.a
    [] i.instr = "TXA" -> cpu.x
    [] i.instr = "TYA" -> cpu.y
    [] OTHER         -> cpu.sp

Transfer(i) ==
  /\ i.instr \in {"TAX", "TXA", "TAY", "TYA", "TSX"}
  /\ Finish(Plain(cpu, Target(i.instr), Transferred(i)), i)
  /\ UNCHANGED memVars

\* A stack begins anew, and no flag changes.
TXS(i) ==
  /\ i.instr = "TXS"
  /\ Finish([cpu EXCEPT !.sp = cpu.x], i)
  /\ pushed' = <<>>
  /\ UNCHANGED c64_ram

Push(i) ==
  /\ i.instr \in {"PHA", "PHP"}
  /\ PushByte(IF i.instr = "PHA" THEN cpu.a ELSE FromBits(cpu.p \cup {"B", "U"}))
  /\ Finish([cpu EXCEPT !.sp = SpPlus(-1)], i)

Pull(i) ==
  /\ i.instr \in {"PLA", "PLP"}
  /\ LET c == [cpu EXCEPT !.sp = SpPlus(1)]
     IN  Finish(IF i.instr = "PLA" THEN Plain(c, "a", pop8(1))
                ELSE [c EXCEPT !.p = Restored(pop8(1))], i)
  /\ Popped(1)

FlagOf(instr) ==
  CASE instr \in {"SEI", "CLI"} -> "I"
    [] instr \in {"SED", "CLD"} -> "D"
    [] instr \in {"SEC", "CLC"} -> "C"
    [] OTHER -> "V"

FlagOp(i) ==
  /\ i.instr \in {"SEI", "CLI", "SED", "CLD", "SEC", "CLC", "CLV"}
  /\ Finish([cpu EXCEPT !.p = With(@, FlagOf(i.instr), i.instr \in {"SEI", "SED", "SEC"})], i)
  /\ UNCHANGED memVars

Count(up, v) == (v + (IF up THEN 1 ELSE 255)) % 256

CountRegister(i) ==
  /\ i.instr \in {"INX", "INY", "DEX", "DEY"}
  /\ LET r == Target(i.instr)
     IN  Finish(Plain(cpu, r, Count(i.instr \in {"INX", "INY"}, Reg(r))), i)
  /\ UNCHANGED memVars

CountMemory(i) ==
  /\ i.instr \in {"INC", "DEC"}
  /\ LET e == Address(i.mode, i)
         o == cpu6502_read(e, e.v)
         v == Count(i.instr = "INC", o.v)
     IN  cpu6502_write(e.v, v) /\ Finish(WithZN(cpu, v), o)

Compare(i) ==
  /\ i.instr \in {"CMP", "CPX", "CPY"}
  /\ LET o == Operand(i.mode, i)
     IN  Finish(Compared(cpu, Reg(Target(i.instr)), o.v), o)
  /\ UNCHANGED memVars

Logic(i) ==
  /\ i.instr \in {"AND", "ORA", "EOR"}
  /\ LET o == Operand(i.mode, i)
     IN  Finish(Plain(cpu, "a", Logical(i.instr, cpu.a, o.v)), o)
  /\ UNCHANGED memVars

BIT(i) ==
  /\ i.instr = "BIT"
  /\ LET o == Operand(i.mode, i)
         p == With(cpu.p, "Z", Bits(cpu.a) \cap Bits(o.v) = {})
     IN  Finish([cpu EXCEPT !.p = With(With(p, "V", "V" \in Bits(o.v)), "N", Negative(o.v))], o)
  /\ UNCHANGED memVars

Arithmetic(i) ==
  /\ i.instr \in {"ADC", "SBC"}
  /\ LET o == Operand(i.mode, i)
     IN  Finish(IF i.instr = "ADC" THEN do_adc(cpu, o.v) ELSE do_sbc(cpu, o.v), o)
  /\ UNCHANGED memVars

ShiftAccumulator(i) ==
  /\ i.instr \in {"ASL", "LSR", "ROL", "ROR"} /\ i.mode = "acc"
  /\ Finish(Plain(WithCarry(cpu, i.instr, cpu.a), "a", Shifted(i.instr, cpu.a, CarryIn(cpu.p))), i)
  /\ UNCHANGED memVars

ShiftMemory(i) ==
  /\ i.instr \in {"ASL", "LSR", "ROL", "ROR"} /\ i.mode # "acc"
  /\ LET e == Address(i.mode, i)
         o == cpu6502_read(e, e.v)
         v == Shifted(i.instr, o.v, CarryIn(cpu.p))
     IN  cpu6502_write(e.v, v) /\ Finish(WithZN(WithCarry(cpu, i.instr, o.v), v), o)

Taken(i) ==
  CASE i.instr = "BNE" -> "Z" \notin cpu.p [] i.instr = "BEQ" -> "Z" \in cpu.p
    [] i.instr = "BPL" -> "N" \notin cpu.p [] i.instr = "BMI" -> "N" \in cpu.p
    [] i.instr = "BVC" -> "V" \notin cpu.p [] i.instr = "BVS" -> "V" \in cpu.p
    [] i.instr = "BCC" -> "C" \notin cpu.p [] OTHER         -> "C" \in cpu.p

Branch(i) ==
  /\ i.instr \in {"BNE", "BEQ", "BPL", "BMI", "BVC", "BVS", "BCC", "BCS"}
  /\ LET o == fetch8(i)
     IN  Finish(cpu, [o EXCEPT !.pc = IF Taken(i) THEN (@ + Signed(o.v)) % 65536 ELSE @])
  /\ UNCHANGED memVars

\* The pointer of JMP (ind) may lie across two pages.
JMP(i) ==
  /\ i.instr = "JMP"
  /\ LET o  == fetch16(i)
         lo == cpu6502_read(o, o.v)
     IN  Jump(cpu, IF i.mode = "abs" THEN o ELSE Pair(lo, cpu6502_read(lo, (o.v + 1) % 65536)))
  /\ UNCHANGED memVars

\* The address of the last byte of JSR goes on the stack, RTS adds the one.
JSR(i) ==
  /\ i.instr = "JSR"
  /\ LET o == fetch16(i)
     IN  PushWord((o.pc - 1) % 65536) /\ Jump([cpu EXCEPT !.sp = SpPlus(-2)], o)

RTS(i) ==
  /\ i.instr = "RTS"
  /\ Jump([cpu EXCEPT !.sp = SpPlus(2)],
          [i EXCEPT !.v = (pop8(1) + 256 * pop8(2) + 1) % 65536])
  /\ Popped(2)

\* Mutant: RTI returns as RTS does.
RTI_plus_one(i) ==
  /\ i.instr = "RTI"
  /\ Jump([cpu EXCEPT !.sp = SpPlus(3), !.p = Restored(pop8(1))],
          [i EXCEPT !.v = (pop8(2) + 256 * pop8(3) + 1) % 65536])
  /\ Popped(3)

RTI(i) ==
  /\ i.instr = "RTI"
  /\ Jump([cpu EXCEPT !.sp = SpPlus(3), !.p = Restored(pop8(1))],
          [i EXCEPT !.v = pop8(2) + 256 * pop8(3)])
  /\ Popped(3)

NOP(i) == i.instr = "NOP" /\ Finish(cpu, i) /\ UNCHANGED memVars

\* BRK, and an opcode without a case.
Halt(i) ==
  /\ i.instr \in {"BRK", "illegal"}
  /\ Finish([cpu EXCEPT !.halted = TRUE], i)
  /\ UNCHANGED memVars

Execute(i) ==
  \/ Load(i) \/ Store(i) \/ Transfer(i) \/ TXS(i) \/ Push(i) \/ Pull(i) \/ FlagOp(i)
  \/ CountRegister(i) \/ CountMemory(i) \/ Compare(i) \/ Logic(i) \/ BIT(i) \/ Arithmetic(i)
  \/ ShiftAccumulator(i) \/ ShiftMemory(i) \/ Branch(i) \/ JMP(i) \/ JSR(i) \/ RTS(i) \/ RTI(i)
  \/ NOP(i) \/ Halt(i)

\* A halted CPU does nothing.  The opcode is recorded before it is executed.
cpu6502_step ==
  /\ ~cpu.halted
  /\ trace' = [trace EXCEPT ![trace_idx] = <<cpu.pc, First.v>>]
  /\ trace_idx' = (trace_idx + 1) % TraceLen
  /\ \E i \in {First} : Execute(i)

----------------------------------------------------------------------------
(* The other calls of the interpreter *)

Vector(addr) == Ram(addr) + 256 * Ram(addr + 1)

\* PC and P, without B, are pushed, and the handler starts with I set.
Interrupted ==
  LET p == FromBits((cpu.p \ {"B"}) \cup {"U"})
  IN  /\ c64_ram' = push8(push8(push8(c64_ram, cpu.sp, cpu.pc \div 256),
                                cpu.sp - 1, cpu.pc % 256), cpu.sp - 2, p)
      /\ pushed' = Kept(<<p, cpu.pc % 256, cpu.pc \div 256>> \o pushed)
      /\ cpu' = [cpu EXCEPT !.sp = SpPlus(-3), !.p = @ \cup {"I"}, !.pc = Vector(IrqVector)]
      /\ UNCHANGED <<raster_counter, traceVars>>

\* Mutant: a halted CPU takes interrupts.
cpu6502_irq_when_halted == IF "I" \in cpu.p THEN UNCHANGED cpuVars ELSE Interrupted

\* An interrupt that comes while I is set is lost, not kept pending.
cpu6502_irq == IF "I" \in cpu.p \/ cpu.halted THEN UNCHANGED cpuVars ELSE Interrupted

cpu6502_reset(start_pc) ==
  [a |-> 0, x |-> 0, y |-> 0, sp |-> 253, pc |-> start_pc, p |-> {"U", "I"}, halted |-> FALSE]

\* Mutant: the ring is copied from its first entry, not from its oldest.
cpu6502_trace_dump_unrolled(count) == [i \in 1..count |-> trace[i - 1]]

\* The newest count entries of the trace, oldest first.
cpu6502_trace_dump_ordered(count) ==
  [i \in 1..count |-> trace[(trace_idx + TraceLen - count + i - 1) % TraceLen]]
=============================================================================
