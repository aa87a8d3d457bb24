---------------------------- MODULE Guest_proofs ----------------------------
(***************************************************************************)
(* Theorems about Guest: the interpreter's types, the stack and the status *)
(* register under every program, interrupt and session, and arithmetic.    *)
(***************************************************************************)
EXTENDS Guest, SequenceTheorems, TLAPS

----------------------------------------------------------------------------
(* Numbers *)

\* A byte is a word.
LEMMA ByteWord == ASSUME NEW v \in Byte PROVE v \in Word
  BY SMT DEF Byte, Word

\* Two bytes make a word.
LEMMA PairWord == ASSUME NEW a \in Byte, NEW b \in Byte PROVE a + 256 * b \in Word
  BY SMT DEF Byte, Word

\* What is cut to a byte is one.
LEMMA WrapByte == ASSUME NEW k \in Int PROVE k % 256 \in Byte
  BY SMT DEF Byte

\* What is cut to a word is one.
LEMMA WrapWord == ASSUME NEW k \in Int PROVE k % 65536 \in Word
  BY SMT DEF Word

\* The interpreter wraps within a page or within the memory.
LEMMA WrapSize == ASSUME NEW k \in Int, NEW size \in {256, 65536} PROVE k % size \in Word
<1>1. CASE size = 256
  BY <1>1, WrapByte, ByteWord
<1>2. CASE size = 65536
  BY <1>2, WrapWord
<1> QED
  BY <1>1, <1>2

\* Addresses of the stack are words, and lie in its page.
LEMMA StackWord == ASSUME NEW k \in Int PROVE 256 + (k % 256) \in Word
  BY SMT DEF Word

\* The stack stays in its page.
LEMMA StackPageWrap == ASSUME NEW k \in Int PROVE 256 + (k % 256) \in StackPage
  BY SMT DEF StackPage

\* Fewer than 256 steps around the stack never lead back.
LEMMA WrapAway == ASSUME NEW k \in Int, NEW n \in 1..255 PROVE (k + n) % 256 # k % 256
  BY SMT

\* Wrapping twice is wrapping once.
LEMMA WrapTwice == ASSUME NEW k \in Int, NEW n \in Int PROVE ((k % 256) + n) % 256 = (k + n) % 256
  BY SMT

----------------------------------------------------------------------------
(* Bytes *)

\* A set of flags is a byte.
LEMMA FromBitsByte == ASSUME NEW s PROVE FromBits(s) \in Byte
  BY DEF FromBits, BitValue, Weight, Byte

\* A byte is a set of flags.
LEMMA BitsFlags == ASSUME NEW v PROVE Bits(v) \in SUBSET Flag
  BY DEF Bits

\* A shift gives a byte.
LEMMA ShiftedByte ==
  ASSUME NEW instr, NEW v \in Byte, NEW carry \in {0, 1}
  PROVE  Shifted(instr, v, carry) \in Byte
  BY DEF Shifted, Byte

\* An increment or decrement gives a byte.
LEMMA CountByte == ASSUME NEW up, NEW v \in Byte PROVE Count(up, v) \in Byte
  BY DEF Count, Byte

\* The carry is a bit.
LEMMA CarryBit == ASSUME NEW p PROVE CarryIn(p) \in {0, 1}
  BY DEF CarryIn

\* AND, ORA and EOR give a byte.
LEMMA LogicalByte == ASSUME NEW instr, NEW a, NEW v PROVE Logical(instr, a, v) \in Byte
  BY FromBitsByte DEF Logical

----------------------------------------------------------------------------
(* The struct.  An instruction computes a struct that is well-typed and has *)
(* bits 4 and 5 of P as before.                                             *)

KeepsBU(p, q) == ("B" \in q <=> "B" \in p) /\ ("U" \in q <=> "U" \in p)

\* c and d differ in registers and in flags that programs may change.
Computes(c, d) == d \in Struct /\ d.sp = c.sp /\ d.pc = c.pc /\ d.halted = c.halted /\ KeepsBU(c.p, d.p)

\* Z and N are set without touching B and U.
LEMMA SetZN ==
  ASSUME NEW p \in SUBSET Flag, NEW v
  PROVE  set_zn(p, v) \in SUBSET Flag /\ KeepsBU(p, set_zn(p, v))
  BY DEF set_zn, With, KeepsBU, Flag

\* Setting a register and Z and N.
LEMMA PlainComputes ==
  ASSUME NEW c \in Struct, NEW r, NEW v \in Byte
  PROVE  Computes(c, Plain(c, r, v)) /\ Computes(c, WithZN(c, v))
<1>1. c.p \in SUBSET Flag
  BY DEF Struct
<1>2. set_zn(c.p, v) \in SUBSET Flag /\ KeepsBU(c.p, set_zn(c.p, v))
  BY <1>1, SetZN
<1> QED
  BY <1>2 DEF Plain, WithZN, SetReg, Computes, Struct

\* Setting a flag.
LEMMA FlagComputes ==
  ASSUME NEW c \in Struct, NEW f \in Flag \ {"B", "U"}, NEW on
  PROVE  Computes(c, [c EXCEPT !.p = With(@, f, on)])
<1>1. With(c.p, f, on) \in SUBSET Flag /\ KeepsBU(c.p, With(c.p, f, on))
  BY DEF With, KeepsBU, Struct
<1> QED
  BY <1>1 DEF Computes, Struct

\* One computation after another.
LEMMA ComputesTwice ==
  ASSUME NEW c, NEW d, NEW e, Computes(c, d), Computes(d, e)
  PROVE  Computes(c, e)
  BY DEF Computes, KeepsBU

\* Setting the carry that a shift gives, and its result.
LEMMA ShiftComputes ==
  ASSUME NEW c \in Struct, NEW r, NEW instr, NEW v \in Byte, NEW w \in Byte
  PROVE  /\ Computes(c, Plain(WithCarry(c, instr, v), r, w))
         /\ Computes(c, WithZN(WithCarry(c, instr, v), w))
<1>1. Computes(c, WithCarry(c, instr, v))
  BY FlagComputes DEF WithCarry, Flag
<1>2. WithCarry(c, instr, v) \in Struct
  BY <1>1 DEF Computes
<1> QED
  BY <1>1, <1>2, PlainComputes, ComputesTwice

\* Setting the flags of a comparison.
LEMMA CompareComputes ==
  ASSUME NEW c \in Struct, NEW r, NEW v
  PROVE  Computes(c, Compared(c, r, v))
<1> DEFINE q == set_zn(c.p, (r - v) % 256)
           b == With(q, "C", r >= v)
<1>1. c.p \in SUBSET Flag
  BY DEF Struct
<1>2. q \in SUBSET Flag /\ KeepsBU(c.p, q)
  BY <1>1, SetZN
<1>3. b \in SUBSET Flag /\ KeepsBU(c.p, b)
  BY <1>2 DEF With, KeepsBU, Flag
<1>4. Compared(c, r, v) = [c EXCEPT !.p = b]
  BY DEF Compared
<1> HIDE DEF b, q
<1> QED
  BY <1>3, <1>4 DEF Computes, Struct

\* A sum or a difference.
LEMMA SumComputes ==
  ASSUME NEW c \in Struct, NEW v \in Byte
  PROVE  Computes(c, do_adc(c, v)) /\ Computes(c, do_sbc(c, v))
<1>1. ASSUME NEW w \in Byte PROVE Computes(c, do_adc(c, w))
  <2> DEFINE sum == c.a + w + CarryIn(c.p)
             r   == sum % 256
             b   == With(With(c.p, "C", sum > 255), "V",
                         Negative(c.a) # Negative(r) /\ Negative(w) # Negative(r))
             d   == [c EXCEPT !.p = b]
  <2>1. r \in Byte
    <3>1. c.a \in Byte /\ CarryIn(c.p) \in {0, 1}
      BY CarryBit DEF Struct
    <3>2. sum \in Int
      BY <3>1 DEF Byte
    <3> QED
      BY <3>2, WrapByte
  <2>2. b \in SUBSET Flag /\ KeepsBU(c.p, b)
    BY DEF With, KeepsBU, Flag, Struct
  <2>3. do_adc(c, w) = Plain(d, "a", r)
    BY DEF do_adc
  <2> HIDE DEF b, r
  <2>4. Computes(c, d) /\ d \in Struct
    BY <2>2 DEF Computes, Struct
  <2> HIDE DEF d
  <2>5. Computes(d, Plain(d, "a", r))
    BY <2>1, <2>4, PlainComputes
  <2> QED
    BY <2>3, <2>4, <2>5, ComputesTwice
<1>2. 255 - v \in Byte
  BY DEF Byte
<1> QED
  BY <1>1, <1>2 DEF do_sbc

----------------------------------------------------------------------------
(* Memory, and an instruction in progress *)

CpuTypes ==
  /\ cpu \in Struct
  /\ DOMAIN c64_ram \subseteq Word /\ c64_ram \in [DOMAIN c64_ram -> Byte]
  /\ raster_counter \in 0..(PalRasterLines - 1)
  /\ pushed \in Seq(Byte) /\ Len(pushed) <= 256

\* Instructions n with addressing mode m.
Insn(n, m) == [pc : Word, raster : 0..(PalRasterLines - 1), v : Word, instr : {n}, mode : {m}]

\* Memory holds bytes.
LEMMA RamByte == ASSUME CpuTypes, NEW addr PROVE Ram(addr) \in Byte
  BY DEF CpuTypes, Ram, Byte

\* A read returns a byte and changes no PC.
LEMMA ReadOK ==
  ASSUME CpuTypes, NEW n, NEW m, NEW i \in Insn(n, m), NEW addr
  PROVE  /\ cpu6502_read(i, addr) \in Insn(n, m)
         /\ cpu6502_read(i, addr).v \in Byte
         /\ cpu6502_read(i, addr).pc = i.pc
<1> DEFINE raster == IF addr = VicRaster THEN (i.raster + 1) % PalRasterLines ELSE i.raster
           v == CASE addr = VicRaster -> raster % 256
                  [] addr = Cia1Prb   -> 255
                  [] OTHER            -> Ram(addr)
<1>1. raster \in 0..(PalRasterLines - 1)
  BY DEF Insn, PalRasterLines
<1>2. v \in Byte
  BY <1>1, RamByte DEF Byte, PalRasterLines
<1> HIDE DEF v
<1>3. v \in Word
  BY <1>2, ByteWord
<1>4. cpu6502_read(i, addr) = [i EXCEPT !.raster = raster, !.v = v]
  BY DEF cpu6502_read, v
<1> HIDE DEF raster
<1> QED
  BY <1>1, <1>2, <1>3, <1>4 DEF Insn

\* So does a fetch, but for the PC.
LEMMA Fetch8OK ==
  ASSUME CpuTypes, NEW n, NEW m, NEW i \in Insn(n, m)
  PROVE  fetch8(i) \in Insn(n, m) /\ fetch8(i).v \in Byte
<1> DEFINE j == cpu6502_read(i, i.pc)
<1>1. j \in Insn(n, m) /\ j.v \in Byte
  BY ReadOK
<1>2. fetch8(i) = [j EXCEPT !.pc = (@ + 1) % 65536]
  BY DEF fetch8
<1> HIDE DEF j
<1>3. j.pc \in Int
  BY <1>1 DEF Insn, Word
<1>4. (j.pc + 1) % 65536 \in Word
  BY <1>3, WrapWord
<1> QED
  BY <1>1, <1>2, <1>4 DEF Insn

\* Two bytes read make an address.
LEMMA PairOK ==
  ASSUME NEW n, NEW m, NEW lo \in Insn(n, m), NEW hi \in Insn(n, m), lo.v \in Byte, hi.v \in Byte
  PROVE  Pair(lo, hi) \in Insn(n, m)
<1>1. lo.v + 256 * hi.v \in Word
  BY PairWord
<1> QED
  BY <1>1 DEF Pair, Insn

\* A fetch of an address.
LEMMA Fetch16OK ==
  ASSUME CpuTypes, NEW n, NEW m, NEW i \in Insn(n, m)
  PROVE  fetch16(i) \in Insn(n, m)
  BY Fetch8OK, PairOK DEF fetch16

\* An address with an index, in the page or beyond it.
LEMMA PlusOK ==
  ASSUME NEW n, NEW m, NEW i \in Insn(n, m), NEW k \in Byte, NEW size \in {256, 65536}
  PROVE  Plus(i, k, size) \in Insn(n, m)
<1>1. i.v + k \in Int
  BY DEF Insn, Byte, Word
<1>2. (i.v + k) % size \in Word
  BY <1>1, WrapSize
<1> QED
  BY <1>2 DEF Plus, Insn

\* An address read from the zero page.
LEMMA PointerOK ==
  ASSUME CpuTypes, NEW n, NEW m, NEW i \in Insn(n, m)
  PROVE  Pointer(i) \in Insn(n, m)
  BY ReadOK, PairOK DEF Pointer

\* Every mode gives an address.
LEMMA AddressOK ==
  ASSUME CpuTypes, NEW n, NEW m, NEW i \in Insn(n, m), NEW mode
  PROVE  Address(mode, i) \in Insn(n, m)
<1>1. cpu.x \in Byte /\ cpu.y \in Byte
  BY DEF CpuTypes, Struct
<1>2. fetch8(i) \in Insn(n, m) /\ fetch16(i) \in Insn(n, m)
  BY Fetch8OK, Fetch16OK
<1>3. addr_zp(i) \in Insn(n, m) /\ addr_abs(i) \in Insn(n, m)
  BY <1>2 DEF addr_zp, addr_abs
<1>4. addr_zpx(i) \in Insn(n, m) /\ addr_zpy(i) \in Insn(n, m)
  BY <1>1, <1>2, PlusOK DEF addr_zpx, addr_zpy
<1>5. addr_absx(i) \in Insn(n, m) /\ addr_absy(i) \in Insn(n, m)
  BY <1>1, <1>2, PlusOK DEF addr_absx, addr_absy
<1>6. addr_indx(i) \in Insn(n, m)
  BY <1>4, PointerOK DEF addr_indx
<1>7. addr_indy(i) \in Insn(n, m)
  BY <1>1, <1>2, PointerOK, PlusOK DEF addr_indy
<1> QED
  BY <1>3, <1>4, <1>5, <1>6, <1>7 DEF Address

\* Every mode gives an operand, a byte.
LEMMA OperandOK ==
  ASSUME CpuTypes, NEW n, NEW m, NEW i \in Insn(n, m), NEW mode
  PROVE  Operand(mode, i) \in Insn(n, m) /\ Operand(mode, i).v \in Byte
<1>1. fetch8(i) \in Insn(n, m) /\ fetch8(i).v \in Byte
  BY Fetch8OK
<1>2. Address(mode, i) \in Insn(n, m)
  BY AddressOK
<1> QED
  BY <1>1, <1>2, ReadOK DEF Operand

\* The instruction at PC.
LEMMA FirstOK ==
  ASSUME CpuTypes
  PROVE  First \in Insn(First.instr, First.mode) /\ First.v \in Byte
<1> DEFINE i == [pc |-> cpu.pc, raster |-> raster_counter, v |-> 0]
           j == cpu6502_read(i, cpu.pc)
<1>1. cpu.pc \in Word /\ raster_counter \in 0..(PalRasterLines - 1)
  BY DEF CpuTypes, Struct
<1> DEFINE raster == IF cpu.pc = VicRaster THEN (raster_counter + 1) % PalRasterLines ELSE raster_counter
           v == CASE cpu.pc = VicRaster -> raster % 256
                  [] cpu.pc = Cia1Prb   -> 255
                  [] OTHER              -> Ram(cpu.pc)
<1>2. j = [pc |-> cpu.pc, raster |-> raster, v |-> v]
  <2>1. i.pc = cpu.pc /\ i.raster = raster_counter
    OBVIOUS
  <2>2. j = [i EXCEPT !.raster = raster, !.v = v]
    BY <2>1 DEF cpu6502_read
  <2> HIDE DEF raster, v, j
  <2> QED
    BY <2>2
<1>line. raster \in 0..(PalRasterLines - 1)
  BY <1>1 DEF PalRasterLines
<1>byte. v \in Byte
  BY <1>line, RamByte DEF Byte, PalRasterLines
<1> HIDE DEF raster, v
<1>3. j.raster \in 0..(PalRasterLines - 1)
  BY <1>2, <1>line
<1>4. j.v \in Byte
  BY <1>2, <1>byte
<1>5. fetch8(i) = [j EXCEPT !.pc = (@ + 1) % 65536]
  BY DEF fetch8
<1>6. /\ First.pc = fetch8(i).pc /\ First.raster = fetch8(i).raster /\ First.v = fetch8(i).v
      /\ First = [pc |-> First.pc, raster |-> First.raster, v |-> First.v,
                  instr |-> First.instr, mode |-> First.mode]
  BY DEF First
<1> HIDE DEF j
<1>7. First.pc = (cpu.pc + 1) % 65536 /\ First.raster = j.raster /\ First.v = j.v
  BY <1>2, <1>5, <1>6
<1>8. First.pc \in Word /\ First.v \in Word
  BY <1>1, <1>4, <1>7, ByteWord, WrapWord DEF Word
<1> QED
  BY <1>3, <1>4, <1>6, <1>7, <1>8 DEF Insn

----------------------------------------------------------------------------
(* The stack.  Sp is the stack pointer before its wrap, an integer. *)

IsMemory(m) == DOMAIN m \subseteq Word /\ m \in [DOMAIN m -> Byte]

At(m, addr) == IF addr \in DOMAIN m THEN m[addr] ELSE 0

Holds(m, sp, s) == \A k \in 1..Len(s) : At(m, 256 + ((sp + k) % 256)) = s[k]

\* A store leaves a memory.
LEMMA StoredOK ==
  ASSUME NEW m, IsMemory(m), NEW addr \in Word, NEW v \in Byte
  PROVE  IsMemory(Stored(m, addr, v))
  BY DEF IsMemory, Stored

\* A store changes one address.
LEMMA StoredAt ==
  ASSUME NEW m, NEW addr, NEW v, NEW n
  PROVE  At(Stored(m, addr, v), n) = IF n = addr THEN v ELSE At(m, n)
  BY DEF At, Stored

\* So does a push.
LEMMA Push8Memory ==
  ASSUME NEW m, IsMemory(m), NEW sp \in Int, NEW v \in Byte
  PROVE  IsMemory(push8(m, sp, v))
<1>1. 256 + (sp % 256) \in Word
  BY StackWord
<1> QED
  BY <1>1, StoredOK DEF push8

\* A byte on top of s, of which the bytes that fit are kept.
Onto(v, s) == Kept(<<v>> \o s)

\* What is pushed on a stack: at most 256 bytes.
Stack(s) == s \in Seq(Byte) /\ Len(s) <= 256

IsOnto(t, v, s) ==
  /\ Stack(t)
  /\ Len(t) = (IF Len(s) < 256 THEN Len(s) + 1 ELSE 256)
  /\ \A k \in 1..Len(t) : t[k] = IF k = 1 THEN v ELSE s[k - 1]

\* A byte on the stack.
LEMMA OntoOK ==
  ASSUME NEW s, Stack(s), NEW v \in Byte
  PROVE  IsOnto(Onto(v, s), v, s)
<1>0. s \in Seq(Byte) /\ Len(s) <= 256
  BY DEF Stack
<1> DEFINE t == <<v>> \o s
<1>1. t \in Seq(Byte) /\ Len(t) = Len(s) + 1 /\ Len(s) \in Nat
  BY <1>0
<1>2. \A k \in 1..Len(t) : t[k] = IF k = 1 THEN v ELSE s[k - 1]
  BY <1>0
<1>3. Onto(v, s) = Kept(t)
  BY DEF Onto
<1> HIDE DEF t
<1>4. Kept(t) \in Seq(Byte) /\ Len(Kept(t)) = (IF Len(t) < 256 THEN Len(t) ELSE 256)
  BY <1>1 DEF Kept
<1>5. \A k \in 1..Len(Kept(t)) : Kept(t)[k] = t[k]
  BY <1>1 DEF Kept
<1> QED
  BY <1>0, <1>1, <1>2, <1>3, <1>4, <1>5 DEF IsOnto, Stack

\* A byte pushed lies where the pointer was; the 255 below stay as they are.
LEMMA PushHolds ==
  ASSUME NEW m, NEW sp \in Int, NEW s, Stack(s), NEW v \in Byte, Holds(m, sp, s)
  PROVE  Holds(push8(m, sp, v), sp - 1, Onto(v, s))
<1> SUFFICES ASSUME NEW k \in 1..Len(Onto(v, s))
             PROVE  At(push8(m, sp, v), 256 + ((sp - 1 + k) % 256)) = Onto(v, s)[k]
  BY DEF Holds
<1>0. IsOnto(Onto(v, s), v, s) /\ s \in Seq(Byte) /\ Len(s) <= 256
  BY OntoOK DEF Stack
<1>1. Onto(v, s)[k] = (IF k = 1 THEN v ELSE s[k - 1]) /\ k \in 1..256 /\ (k # 1 => k - 1 \in 1..Len(s))
  BY <1>0 DEF IsOnto, Stack
<1>2. At(push8(m, sp, v), 256 + ((sp - 1 + k) % 256))
        = IF (sp - 1 + k) % 256 = sp % 256 THEN v ELSE At(m, 256 + ((sp - 1 + k) % 256))
  BY StoredAt DEF push8
<1>3. CASE k = 1
  BY <1>1, <1>2, <1>3
<1>4. CASE k # 1
  <2>1. k - 1 \in 1..255 /\ sp - 1 + k = sp + (k - 1)
    BY <1>1, <1>4
  <2>2. (sp - 1 + k) % 256 # sp % 256
    BY <2>1, WrapAway
  <2> QED
    BY <1>1, <1>2, <1>4, <2>1, <2>2 DEF Holds
<1> QED
  BY <1>3, <1>4

\* The stack is the same wherever its pointer is counted from.
LEMMA HoldsWrapped ==
  ASSUME NEW m, NEW sp \in Int, NEW s \in Seq(Byte), Holds(m, sp, s)
  PROVE  Holds(m, sp % 256, s)
<1>1. \A k \in 1..Len(s) : ((sp % 256) + k) % 256 = (sp + k) % 256
  BY WrapTwice
<1> QED
  BY <1>1 DEF Holds

\* Pushing a word is pushing its bytes, the high one first.
LEMMA OntoTwice ==
  ASSUME NEW s, Stack(s), NEW a \in Byte, NEW b \in Byte
  PROVE  Kept(<<a, b>> \o s) = Onto(a, Onto(b, s))
<1> DEFINE t == Onto(b, s)
           u == <<a, b>> \o s
           r == Onto(a, t)
<1>1. IsOnto(t, b, s) /\ Stack(t) /\ s \in Seq(Byte) /\ Len(s) <= 256
  BY OntoOK DEF IsOnto, Stack
<1>2. /\ u \in Seq(Byte) /\ Len(u) = Len(s) + 2
      /\ \A k \in 1..Len(u) : u[k] = IF k = 1 THEN a ELSE IF k = 2 THEN b ELSE s[k - 2]
  BY <1>1
<1>3. IsOnto(r, a, t)
  BY <1>1, OntoOK
<1> HIDE DEF r, t, u
<1>4. /\ Kept(u) \in Seq(Byte) /\ Len(Kept(u)) = (IF Len(u) < 256 THEN Len(u) ELSE 256)
      /\ \A k \in 1..Len(Kept(u)) : Kept(u)[k] = u[k]
  BY <1>2 DEF Kept
<1>5. Len(Kept(u)) = Len(r) /\ r \in Seq(Byte)
  BY <1>1, <1>2, <1>3, <1>4 DEF IsOnto, Stack
<1>6. \A k \in 1..Len(Kept(u)) : Kept(u)[k] = r[k]
  <2> TAKE k \in 1..Len(Kept(u))
  <2>0. k \in 1..Len(r) /\ Len(r) <= 256 /\ Len(r) \in Nat
    BY <1>3, <1>5 DEF IsOnto, Stack
  <2>1. k \in Int /\ 1 <= k /\ k <= 256 /\ k <= Len(s) + 2 /\ k \in 1..Len(u) /\ k \in 1..Len(r)
    BY <1>1, <1>2, <1>4, <2>0
  <2>2. Kept(u)[k] = IF k = 1 THEN a ELSE IF k = 2 THEN b ELSE s[k - 2]
    BY <1>2, <1>4, <2>1
  <2>3. r[k] = IF k = 1 THEN a ELSE t[k - 1]
    BY <1>3, <2>1 DEF IsOnto
  <2>4. k # 1 => k - 1 \in 1..Len(t) /\ k - 2 = (k - 1) - 1
    BY <1>1, <2>1 DEF IsOnto
  <2>5. k # 1 => t[k - 1] = IF k = 2 THEN b ELSE s[k - 2]
    BY <1>1, <2>1, <2>4 DEF IsOnto
  <2> QED
    BY <2>2, <2>3, <2>5
<1> HIDE DEF r, t, u
<1>7. Kept(u) = r
  <2> DEFINE w == Kept(u)
  <2>1. /\ w \in Seq(Byte) /\ r \in Seq(Byte) /\ Len(w) = Len(r)
        /\ \A k \in 1..Len(w) : w[k] = r[k]
    BY <1>4, <1>5, <1>6
  <2> HIDE DEF w
  <2>2. w = r
    BY <2>1, SeqEqual, Zenon
  <2> QED
    BY <2>2 DEF w
<1> QED
  BY <1>7 DEF r, t, u

\* Popping leaves what lay below.
LEMMA PopHolds ==
  ASSUME NEW m, NEW sp \in Int, NEW s \in Seq(Byte), NEW n \in Nat, Holds(m, sp, s),
         NEW t, t = IF Len(s) < n THEN <<>> ELSE SubSeq(s, n + 1, Len(s))
  PROVE  Holds(m, sp + n, t) /\ t \in Seq(Byte) /\ Len(t) <= Len(s)
<1>1. CASE Len(s) < n
  BY <1>1 DEF Holds
<1>2. CASE Len(s) >= n
  <2>1. t \in Seq(Byte) /\ Len(t) = Len(s) - n /\ \A k \in 1..Len(t) : t[k] = s[n + k]
    BY <1>2
  <2>2. \A k \in 1..Len(t) : n + k \in 1..Len(s) /\ sp + n + k = sp + (n + k)
    BY <2>1
  <2> QED
    BY <2>1, <2>2 DEF Holds
<1> QED
  BY <1>1, <1>2

----------------------------------------------------------------------------
(* Instructions.  Each keeps the types and the stack, never sets B and     *)
(* never clears bit 5 of P.                                                *)

CpuInv == CpuTypes /\ StackHoldsPushed

StatusMoves(p, q) == ("B" \notin p => "B" \notin q) /\ ("U" \in p => "U" \in q)

Effect == CpuTypes' /\ StackHoldsPushed' /\ StatusMoves(cpu.p, cpu'.p)

\* What an instruction leaves in cpu and raster_counter.
LEMMA FinishOK ==
  ASSUME NEW n, NEW m, NEW i \in Insn(n, m), NEW c \in Struct, Finish(c, i)
  PROVE  /\ cpu' \in Struct /\ cpu'.sp = c.sp /\ cpu'.p = c.p
         /\ raster_counter' \in 0..(PalRasterLines - 1)
<1>1. i.pc \in Word /\ i.raster \in 0..(PalRasterLines - 1)
  BY DEF Insn
<1> QED
  BY <1>1 DEF Finish, Struct

\* The invariant of the stack, by what memory holds.
LEMMA StackIsHeld == StackHoldsPushed <=> Holds(c64_ram, cpu.sp, pushed)
  BY DEF StackHoldsPushed, Holds, Ram, At

\* And after a step.
LEMMA StackIsHeldNext == StackHoldsPushed' <=> Holds(c64_ram', cpu'.sp, pushed')
  BY DEF StackHoldsPushed, Holds, Ram, At

\* The types of the registers.
LEMMA CpuFacts ==
  ASSUME CpuTypes
  PROVE  /\ cpu \in Struct /\ cpu.sp \in Byte /\ cpu.sp \in Int /\ cpu.p \in SUBSET Flag
         /\ cpu.a \in Byte /\ cpu.x \in Byte /\ cpu.y \in Byte /\ cpu.pc \in Word
         /\ IsMemory(c64_ram) /\ Stack(pushed)
<1>1. /\ cpu \in Struct /\ cpu.sp \in Byte /\ cpu.p \in SUBSET Flag
      /\ cpu.a \in Byte /\ cpu.x \in Byte /\ cpu.y \in Byte /\ cpu.pc \in Word
  BY DEF CpuTypes, Struct
<1>2. cpu.sp \in Int
  BY <1>1 DEF Byte
<1>3. IsMemory(c64_ram) /\ Stack(pushed)
  BY DEF CpuTypes, IsMemory, Stack
<1> QED
  BY <1>1, <1>2, <1>3

\* An instruction that stores nothing.
LEMMA QuietOK ==
  ASSUME CpuInv, NEW n, NEW m, NEW i \in Insn(n, m), NEW c \in Struct,
         c.sp = cpu.sp, StatusMoves(cpu.p, c.p), Finish(c, i), UNCHANGED memVars
  PROVE  Effect
<1>1. /\ cpu' \in Struct /\ cpu'.sp = cpu.sp /\ cpu'.p = c.p
      /\ raster_counter' \in 0..(PalRasterLines - 1)
  BY FinishOK
<1>2. c64_ram' = c64_ram /\ pushed' = pushed
  BY DEF memVars
<1>3. Holds(c64_ram', cpu'.sp, pushed')
  BY <1>1, <1>2, StackIsHeld DEF CpuInv
<1>4. CpuTypes'
  BY <1>1, <1>2 DEF CpuInv, CpuTypes
<1>5. StackHoldsPushed'
  BY <1>3, StackIsHeldNext
<1> QED
  BY <1>1, <1>4, <1>5 DEF Effect

\* An instruction that computes and stores nothing.
LEMMA QuietComputes ==
  ASSUME CpuInv, NEW n, NEW m, NEW i \in Insn(n, m), NEW c,
         Computes(cpu, c), Finish(c, i), UNCHANGED memVars
  PROVE  Effect
<1>1. c \in Struct /\ c.sp = cpu.sp /\ StatusMoves(cpu.p, c.p)
  BY DEF Computes, KeepsBU, StatusMoves
<1> QED
  BY <1>1, QuietOK

\* An instruction that stores a byte, on the stack or elsewhere.
LEMMA WriteOK ==
  ASSUME CpuInv, NEW n, NEW m, NEW i \in Insn(n, m), NEW c,
         NEW addr \in Word, NEW v \in Byte,
         Computes(cpu, c), Finish(c, i), cpu6502_write(addr, v)
  PROVE  Effect
<1>1. c \in Struct /\ c.sp = cpu.sp /\ StatusMoves(cpu.p, c.p)
  BY DEF Computes, KeepsBU, StatusMoves
<1>2. /\ cpu' \in Struct /\ cpu'.sp = cpu.sp /\ cpu'.p = c.p
      /\ raster_counter' \in 0..(PalRasterLines - 1)
  BY <1>1, FinishOK
<1>3. /\ IsMemory(c64_ram) /\ Stack(pushed) /\ cpu.sp \in Int
      /\ Holds(c64_ram, cpu.sp, pushed)
  BY CpuFacts, StackIsHeld DEF CpuInv
<1>4. IsMemory(c64_ram')
  BY <1>3, StoredOK DEF cpu6502_write
<1>5. Holds(c64_ram', cpu'.sp, pushed') /\ Stack(pushed')
  <2>1. CASE addr \in StackPage
    <3>1. pushed' = <<>>
      BY <2>1 DEF cpu6502_write
    <3> QED
      BY <3>1 DEF Holds, Stack
  <2>2. CASE addr \notin StackPage
    <3>1. pushed' = pushed /\ c64_ram' = Stored(c64_ram, addr, v)
      BY <2>2 DEF cpu6502_write
    <3>2. \A k \in 1..Len(pushed) : 256 + ((cpu.sp + k) % 256) \in StackPage
      BY <1>3, StackPageWrap
    <3>3. \A k \in 1..Len(pushed) :
            At(c64_ram', 256 + ((cpu.sp + k) % 256)) = At(c64_ram, 256 + ((cpu.sp + k) % 256))
      BY <2>2, <3>1, <3>2, StoredAt
    <3> QED
      BY <1>2, <1>3, <3>1, <3>3 DEF Holds
  <2> QED
    BY <2>1, <2>2
<1>6. CpuTypes'
  BY <1>2, <1>4, <1>5 DEF CpuTypes, IsMemory, Stack
<1>7. StackHoldsPushed'
  BY <1>5, StackIsHeldNext
<1> QED
  BY <1>1, <1>2, <1>6, <1>7 DEF Effect

\* LDA, LDX and LDY.
LEMMA LoadOK ==
  ASSUME CpuInv, NEW n, NEW m, NEW i \in Insn(n, m), Load(i)
  PROVE  Effect
<1> DEFINE o == Operand(i.mode, i)
           c == Plain(cpu, Target(i.instr), o.v)
<1>1. o \in Insn(n, m) /\ o.v \in Byte
  BY OperandOK DEF CpuInv
<1>2. Finish(c, o) /\ UNCHANGED memVars
  BY DEF Load
<1> HIDE DEF o
<1>3. Computes(cpu, c)
  BY <1>1, PlainComputes, CpuFacts DEF CpuInv
<1> HIDE DEF c
<1> QED
  BY <1>1, <1>2, <1>3, QuietComputes

\* STA, STX and STY.
LEMMA StoreOK ==
  ASSUME CpuInv, NEW n, NEW m, NEW i \in Insn(n, m), Store(i)
  PROVE  Effect
<1> DEFINE e == Address(i.mode, i)
           v == Reg(Target(i.instr))
<1>1. e \in Insn(n, m) /\ e.v \in Word
  BY AddressOK DEF CpuInv, Insn
<1>2. cpu6502_write(e.v, v) /\ Finish(cpu, e)
  BY DEF Store
<1>3. v \in Byte
  BY CpuFacts DEF CpuInv, Reg
<1>4. Computes(cpu, cpu)
  BY CpuFacts DEF CpuInv, Computes, KeepsBU
<1> HIDE DEF e, v
<1> QED
  BY <1>1, <1>2, <1>3, <1>4, WriteOK

\* TAX and the like, without TXS.
LEMMA TransferOK ==
  ASSUME CpuInv, NEW n, NEW m, NEW i \in Insn(n, m), Transfer(i)
  PROVE  Effect
<1>1. Transferred(i) \in Byte
  BY CpuFacts DEF CpuInv, Transferred
<1>2. Computes(cpu, Plain(cpu, Target(i.instr), Transferred(i)))
  BY <1>1, PlainComputes, CpuFacts DEF CpuInv
<1>3. Finish(Plain(cpu, Target(i.instr), Transferred(i)), i) /\ UNCHANGED memVars
  BY DEF Transfer
<1> QED
  BY <1>2, <1>3, QuietComputes

\* CLC, SEC and the like.
LEMMA FlagOpOK ==
  ASSUME CpuInv, NEW n, NEW m, NEW i \in Insn(n, m), FlagOp(i)
  PROVE  Effect
<1> DEFINE c == [cpu EXCEPT !.p = With(@, FlagOf(i.instr), i.instr \in {"SEI", "SED", "SEC"})]
<1>1. FlagOf(i.instr) \in Flag \ {"B", "U"}
  BY DEF FlagOf, Flag
<1>2. Computes(cpu, c)
  BY <1>1, FlagComputes, CpuFacts DEF CpuInv
<1>3. Finish(c, i) /\ UNCHANGED memVars
  BY DEF FlagOp
<1> HIDE DEF c
<1> QED
  BY <1>2, <1>3, QuietComputes

\* INX and the like.
LEMMA CountRegisterOK ==
  ASSUME CpuInv, NEW n, NEW m, NEW i \in Insn(n, m), CountRegister(i)
  PROVE  Effect
<1> DEFINE r == Target(i.instr)
           v == Count(i.instr \in {"INX", "INY"}, Reg(r))
<1>1. Reg(r) \in Byte
  BY CpuFacts DEF CpuInv, Reg
<1>2. v \in Byte
  BY <1>1, CountByte
<1>3. Finish(Plain(cpu, r, v), i) /\ UNCHANGED memVars
  BY DEF CountRegister
<1> HIDE DEF r, v
<1>4. Computes(cpu, Plain(cpu, r, v))
  BY <1>2, PlainComputes, CpuFacts DEF CpuInv
<1> QED
  BY <1>3, <1>4, QuietComputes

\* INC and DEC.
LEMMA CountMemoryOK ==
  ASSUME CpuInv, NEW n, NEW m, NEW i \in Insn(n, m), CountMemory(i)
  PROVE  Effect
<1> DEFINE e == Address(i.mode, i)
           o == cpu6502_read(e, e.v)
           v == Count(i.instr = "INC", o.v)
<1>1. e \in Insn(n, m) /\ e.v \in Word
  BY AddressOK DEF CpuInv, Insn
<1>2. cpu6502_write(e.v, v) /\ Finish(WithZN(cpu, v), o)
  BY DEF CountMemory
<1> HIDE DEF e
<1>3. o \in Insn(n, m) /\ o.v \in Byte
  BY <1>1, ReadOK DEF CpuInv
<1>4. v \in Byte
  BY <1>3, CountByte
<1> HIDE DEF o, v
<1>5. Computes(cpu, WithZN(cpu, v))
  BY <1>4, PlainComputes, CpuFacts DEF CpuInv
<1> QED
  BY <1>1, <1>2, <1>3, <1>4, <1>5, WriteOK

\* CMP, CPX and CPY.
LEMMA CompareOK ==
  ASSUME CpuInv, NEW n, NEW m, NEW i \in Insn(n, m), Compare(i)
  PROVE  Effect
<1> DEFINE o == Operand(i.mode, i)
           c == Compared(cpu, Reg(Target(i.instr)), o.v)
<1>1. o \in Insn(n, m)
  BY OperandOK DEF CpuInv
<1>2. Finish(c, o) /\ UNCHANGED memVars
  BY DEF Compare
<1>3. Computes(cpu, c)
  BY CompareComputes, CpuFacts DEF CpuInv
<1> HIDE DEF o, c
<1> QED
  BY <1>1, <1>2, <1>3, QuietComputes

\* AND, ORA and EOR.
LEMMA LogicOK ==
  ASSUME CpuInv, NEW n, NEW m, NEW i \in Insn(n, m), Logic(i)
  PROVE  Effect
<1> DEFINE o == Operand(i.mode, i)
           v == Logical(i.instr, cpu.a, o.v)
<1>1. o \in Insn(n, m)
  BY OperandOK DEF CpuInv
<1>2. Finish(Plain(cpu, "a", v), o) /\ UNCHANGED memVars
  BY DEF Logic
<1>3. v \in Byte
  BY LogicalByte
<1> HIDE DEF o, v
<1>4. Computes(cpu, Plain(cpu, "a", v))
  BY <1>3, PlainComputes, CpuFacts DEF CpuInv
<1> QED
  BY <1>1, <1>2, <1>4, QuietComputes

\* BIT.
LEMMA BITOK ==
  ASSUME CpuInv, NEW n, NEW m, NEW i \in Insn(n, m), BIT(i)
  PROVE  Effect
<1> DEFINE o == Operand(i.mode, i)
           p == With(cpu.p, "Z", Bits(cpu.a) \cap Bits(o.v) = {})
           q == With(With(p, "V", "V" \in Bits(o.v)), "N", Negative(o.v))
           c == [cpu EXCEPT !.p = q]
<1>1. o \in Insn(n, m)
  BY OperandOK DEF CpuInv
<1>2. Finish(c, o) /\ UNCHANGED memVars
  BY DEF BIT
<1>3. q \in SUBSET Flag /\ KeepsBU(cpu.p, q)
  BY CpuFacts DEF CpuInv, With, KeepsBU, Flag
<1> HIDE DEF o, q
<1>4. Computes(cpu, c)
  BY <1>3, CpuFacts DEF CpuInv, Computes, Struct
<1> HIDE DEF c
<1> QED
  BY <1>1, <1>2, <1>4, QuietComputes

\* ADC and SBC.
LEMMA ArithmeticOK ==
  ASSUME CpuInv, NEW n, NEW m, NEW i \in Insn(n, m), Arithmetic(i)
  PROVE  Effect
<1> DEFINE o == Operand(i.mode, i)
           c == IF i.instr = "ADC" THEN do_adc(cpu, o.v) ELSE do_sbc(cpu, o.v)
<1>1. o \in Insn(n, m) /\ o.v \in Byte
  BY OperandOK DEF CpuInv
<1>2. Finish(c, o) /\ UNCHANGED memVars
  BY DEF Arithmetic
<1> HIDE DEF o
<1>3. Computes(cpu, c)
  BY <1>1, SumComputes, CpuFacts DEF CpuInv
<1> HIDE DEF c
<1> QED
  BY <1>1, <1>2, <1>3, QuietComputes

\* Shifts of A.
LEMMA ShiftAccumulatorOK ==
  ASSUME CpuInv, NEW n, NEW m, NEW i \in Insn(n, m), ShiftAccumulator(i)
  PROVE  Effect
<1> DEFINE v == Shifted(i.instr, cpu.a, CarryIn(cpu.p))
           c == Plain(WithCarry(cpu, i.instr, cpu.a), "a", v)
<1>1. v \in Byte
  BY ShiftedByte, CarryBit, CpuFacts DEF CpuInv
<1>2. Finish(c, i) /\ UNCHANGED memVars
  BY DEF ShiftAccumulator
<1> HIDE DEF v
<1>3. Computes(cpu, c)
  BY <1>1, ShiftComputes, CpuFacts DEF CpuInv
<1> HIDE DEF c
<1> QED
  BY <1>2, <1>3, QuietComputes

\* Shifts of memory.
LEMMA ShiftMemoryOK ==
  ASSUME CpuInv, NEW n, NEW m, NEW i \in Insn(n, m), ShiftMemory(i)
  PROVE  Effect
<1> DEFINE e == Address(i.mode, i)
           o == cpu6502_read(e, e.v)
           v == Shifted(i.instr, o.v, CarryIn(cpu.p))
           c == WithZN(WithCarry(cpu, i.instr, o.v), v)
<1>1. e \in Insn(n, m) /\ e.v \in Word
  BY AddressOK DEF CpuInv, Insn
<1>2. cpu6502_write(e.v, v) /\ Finish(c, o)
  BY DEF ShiftMemory
<1> HIDE DEF e
<1>3. o \in Insn(n, m) /\ o.v \in Byte
  BY <1>1, ReadOK DEF CpuInv
<1> HIDE DEF o
<1>4. v \in Byte
  BY <1>3, ShiftedByte, CarryBit
<1> HIDE DEF v
<1>5. Computes(cpu, c)
  BY <1>3, <1>4, ShiftComputes, CpuFacts DEF CpuInv
<1> HIDE DEF c
<1> QED
  BY <1>1, <1>2, <1>3, <1>4, <1>5, WriteOK

\* An instruction that moves the PC.
LEMMA JumpOK ==
  ASSUME NEW n, NEW m, NEW i \in Insn(n, m), NEW pc \in Word
  PROVE  [i EXCEPT !.pc = pc] \in Insn(n, m)
  BY DEF Insn

\* A byte with a sign is an integer.
LEMMA SignedInt == ASSUME NEW v \in Byte PROVE Signed(v) \in Int
  BY DEF Signed, Byte

\* Computing nothing.
LEMMA SameComputes == ASSUME CpuInv PROVE Computes(cpu, cpu)
  BY CpuFacts DEF CpuInv, Computes, KeepsBU

\* The branches.
LEMMA BranchOK ==
  ASSUME CpuInv, NEW n, NEW m, NEW i \in Insn(n, m), Branch(i)
  PROVE  Effect
<1> DEFINE o == fetch8(i)
           to == IF Taken(i) THEN (o.pc + Signed(o.v)) % 65536 ELSE o.pc
           j == [o EXCEPT !.pc = to]
<1>1. o \in Insn(n, m) /\ o.v \in Byte
  BY Fetch8OK DEF CpuInv
<1>2. Finish(cpu, j) /\ UNCHANGED memVars
  BY DEF Branch
<1> HIDE DEF o
<1>3. o.pc \in Word /\ o.pc + Signed(o.v) \in Int
  BY <1>1, SignedInt DEF Insn, Word
<1>4. to \in Word
  BY <1>3, WrapWord
<1> HIDE DEF to
<1>5. j \in Insn(n, m)
  BY <1>1, <1>4, JumpOK
<1> HIDE DEF j
<1> QED
  BY <1>2, <1>5, SameComputes, QuietComputes

\* JMP.
LEMMA JMPOK ==
  ASSUME CpuInv, NEW n, NEW m, NEW i \in Insn(n, m), JMP(i)
  PROVE  Effect
<1> DEFINE o  == fetch16(i)
           lo == cpu6502_read(o, o.v)
           hi == cpu6502_read(lo, (o.v + 1) % 65536)
           t  == IF i.mode = "abs" THEN o ELSE Pair(lo, hi)
           j  == [t EXCEPT !.pc = t.v]
<1>1. Finish(cpu, j) /\ UNCHANGED memVars
  BY DEF JMP, Jump
<1>2. o \in Insn(n, m)
  BY Fetch16OK DEF CpuInv
<1> HIDE DEF o
<1>3. lo \in Insn(n, m) /\ lo.v \in Byte
  BY <1>2, ReadOK DEF CpuInv
<1> HIDE DEF lo
<1>4. hi \in Insn(n, m) /\ hi.v \in Byte
  BY <1>3, ReadOK DEF CpuInv
<1> HIDE DEF hi
<1>5. t \in Insn(n, m)
  BY <1>2, <1>3, <1>4, PairOK
<1> HIDE DEF t
<1>6. j \in Insn(n, m)
  BY <1>5, JumpOK DEF Insn
<1> HIDE DEF j
<1> QED
  BY <1>1, <1>6, SameComputes, QuietComputes

\* NOP.
LEMMA NOPOK ==
  ASSUME CpuInv, NEW n, NEW m, NEW i \in Insn(n, m), NOP(i)
  PROVE  Effect
  BY SameComputes, QuietComputes DEF NOP

\* BRK and the opcodes that do not exist.
LEMMA HaltOK ==
  ASSUME CpuInv, NEW n, NEW m, NEW i \in Insn(n, m), Halt(i)
  PROVE  Effect
<1> DEFINE c == [cpu EXCEPT !.halted = TRUE]
<1>1. c \in Struct /\ c.sp = cpu.sp /\ StatusMoves(cpu.p, c.p)
  BY CpuFacts DEF CpuInv, Struct, StatusMoves
<1>2. Finish(c, i) /\ UNCHANGED memVars
  BY DEF Halt
<1> HIDE DEF c
<1> QED
  BY <1>1, <1>2, QuietOK

\* Whatever the instruction does to the stack, from the stack it leaves.
LEMMA StackMoves ==
  ASSUME NEW n, NEW m, NEW i \in Insn(n, m), NEW c \in Struct, Finish(c, i),
         StatusMoves(cpu.p, c.p),
         IsMemory(c64_ram'), Stack(pushed'), Holds(c64_ram', c.sp, pushed')
  PROVE  Effect
<1>1. /\ cpu' \in Struct /\ cpu'.sp = c.sp /\ cpu'.p = c.p
      /\ raster_counter' \in 0..(PalRasterLines - 1)
  BY FinishOK
<1>2. CpuTypes'
  BY <1>1 DEF CpuTypes, IsMemory, Stack
<1>3. StackHoldsPushed'
  BY <1>1, StackIsHeldNext
<1> QED
  BY <1>1, <1>2, <1>3 DEF Effect

\* TXS, which forgets what was pushed.
LEMMA TXSOK ==
  ASSUME CpuInv, NEW n, NEW m, NEW i \in Insn(n, m), TXS(i)
  PROVE  Effect
<1> DEFINE c == [cpu EXCEPT !.sp = cpu.x]
<1>1. c \in Struct /\ StatusMoves(cpu.p, c.p)
  BY CpuFacts DEF CpuInv, Struct, StatusMoves
<1>2. Finish(c, i) /\ pushed' = <<>> /\ c64_ram' = c64_ram
  BY DEF TXS
<1> HIDE DEF c
<1>3. IsMemory(c64_ram') /\ Stack(pushed') /\ Holds(c64_ram', c.sp, pushed')
  BY <1>2, CpuFacts DEF CpuInv, Holds, Stack
<1> QED
  BY <1>1, <1>2, <1>3, StackMoves

\* Pushing one, two and three bytes.
LEMMA OneByteHolds ==
  ASSUME CpuInv, NEW v \in Byte
  PROVE  /\ IsMemory(push8(c64_ram, cpu.sp, v)) /\ Stack(Onto(v, pushed))
         /\ Holds(push8(c64_ram, cpu.sp, v), cpu.sp - 1, Onto(v, pushed))
<1>1. /\ IsMemory(c64_ram) /\ Stack(pushed) /\ cpu.sp \in Int
      /\ Holds(c64_ram, cpu.sp, pushed)
  BY CpuFacts, StackIsHeld DEF CpuInv
<1>2. IsOnto(Onto(v, pushed), v, pushed)
  BY <1>1, OntoOK
<1> QED
  BY <1>1, <1>2, Push8Memory, PushHolds DEF IsOnto

\* A push onto the stack puts its byte first.
LEMMA PushedOnHolds ==
  ASSUME NEW m, IsMemory(m), NEW s, Stack(s), NEW sp \in Int, Holds(m, sp, s), NEW v \in Byte
  PROVE  /\ IsMemory(push8(m, sp, v)) /\ Stack(Onto(v, s)) /\ sp - 1 \in Int
         /\ Holds(push8(m, sp, v), sp - 1, Onto(v, s))
<1>1. IsOnto(Onto(v, s), v, s)
  BY OntoOK
<1> QED
  BY <1>1, Push8Memory, PushHolds DEF IsOnto

\* PHA and PHP.
LEMMA PushOK ==
  ASSUME CpuInv, NEW n, NEW m, NEW i \in Insn(n, m), Push(i)
  PROVE  Effect
<1> DEFINE v == IF i.instr = "PHA" THEN cpu.a ELSE FromBits(cpu.p \cup {"B", "U"})
           c == [cpu EXCEPT !.sp = SpPlus(-1)]
<1>1. v \in Byte
  BY FromBitsByte, CpuFacts DEF CpuInv
<1>2. Finish(c, i) /\ PushByte(v)
  BY DEF Push
<1> HIDE DEF v
<1>3. cpu.sp - 1 \in Int /\ SpPlus(-1) = (cpu.sp - 1) % 256
  BY CpuFacts DEF CpuInv, SpPlus
<1>4. SpPlus(-1) \in Byte
  BY <1>3, WrapByte
<1>5. c \in Struct /\ StatusMoves(cpu.p, c.p) /\ c.sp = (cpu.sp - 1) % 256
  BY <1>3, <1>4, CpuFacts DEF CpuInv, Struct, StatusMoves
<1>6. c64_ram' = push8(c64_ram, cpu.sp, v) /\ pushed' = Onto(v, pushed)
  BY <1>2 DEF PushByte, Onto
<1>7. /\ IsMemory(c64_ram') /\ Stack(pushed')
      /\ Holds(c64_ram', cpu.sp - 1, pushed')
  BY <1>1, <1>6, OneByteHolds
<1>8. Holds(c64_ram', c.sp, pushed')
  BY <1>3, <1>5, <1>7, HoldsWrapped DEF Stack
<1> HIDE DEF c
<1> QED
  BY <1>2, <1>5, <1>7, <1>8, StackMoves

\* What an instruction that pops k bytes leaves.
LEMMA PoppedOK ==
  ASSUME CpuInv, NEW k \in Nat, Popped(k)
  PROVE  /\ IsMemory(c64_ram') /\ Stack(pushed') /\ SpPlus(k) \in Byte
         /\ Holds(c64_ram', SpPlus(k), pushed')
<1>1. /\ IsMemory(c64_ram) /\ pushed \in Seq(Byte) /\ Len(pushed) <= 256 /\ cpu.sp \in Int
      /\ Holds(c64_ram, cpu.sp, pushed)
  BY CpuFacts, StackIsHeld DEF CpuInv, Stack
<1>2. /\ c64_ram' = c64_ram
      /\ pushed' = IF Len(pushed) < k THEN <<>> ELSE SubSeq(pushed, k + 1, Len(pushed))
  BY DEF Popped
<1>3. Holds(c64_ram, cpu.sp + k, pushed') /\ pushed' \in Seq(Byte) /\ Len(pushed') <= Len(pushed)
  BY <1>1, <1>2, PopHolds
<1>4. Stack(pushed')
  <2>1. Len(pushed') \in Nat /\ Len(pushed) \in Nat
    BY <1>1, <1>3
  <2> QED
    BY <1>1, <1>3, <2>1 DEF Stack
<1>5. cpu.sp + k \in Int /\ SpPlus(k) = (cpu.sp + k) % 256
  BY <1>1 DEF SpPlus
<1>6. Holds(c64_ram, (cpu.sp + k) % 256, pushed')
  BY <1>3, <1>5, HoldsWrapped
<1>7. SpPlus(k) \in Byte
  BY <1>5, WrapByte
<1> QED
  BY <1>1, <1>2, <1>4, <1>5, <1>6, <1>7

\* A pull gives a byte.
LEMMA PopByte == ASSUME CpuTypes, NEW k PROVE pop8(k) \in Byte
  BY RamByte DEF pop8

\* PLP and RTI: no B, and bit 5, whatever byte is pulled.
LEMMA RestoredOK ==
  ASSUME NEW v
  PROVE  Restored(v) \in SUBSET Flag /\ "B" \notin Restored(v) /\ "U" \in Restored(v)
  BY BitsFlags DEF Restored, Flag

\* PLA and PLP.
LEMMA PullOK ==
  ASSUME CpuInv, NEW n, NEW m, NEW i \in Insn(n, m), Pull(i)
  PROVE  Effect
<1> DEFINE b == [cpu EXCEPT !.sp = SpPlus(1)]
           c == IF i.instr = "PLA" THEN Plain(b, "a", pop8(1)) ELSE [b EXCEPT !.p = Restored(pop8(1))]
<1>1. /\ IsMemory(c64_ram') /\ Stack(pushed') /\ SpPlus(1) \in Byte
      /\ Holds(c64_ram', SpPlus(1), pushed')
  BY PoppedOK DEF Pull
<1>2. b \in Struct /\ b.sp = SpPlus(1) /\ b.p = cpu.p
  BY <1>1, CpuFacts DEF CpuInv, Struct
<1>3. Finish(c, i)
  BY DEF Pull
<1> HIDE DEF b
<1>4. Computes(b, Plain(b, "a", pop8(1)))
  BY <1>2, PopByte, PlainComputes DEF CpuInv
<1>5. c \in Struct /\ c.sp = SpPlus(1) /\ StatusMoves(cpu.p, c.p)
  <2>1. CASE i.instr = "PLA"
    BY <1>2, <1>4, <2>1 DEF Computes, KeepsBU, StatusMoves
  <2>2. CASE i.instr # "PLA"
    BY <1>2, <2>2, RestoredOK DEF Struct, StatusMoves
  <2> QED
    BY <2>1, <2>2
<1> HIDE DEF c
<1> QED
  BY <1>1, <1>3, <1>5, StackMoves

\* RTS.
LEMMA RTSOK ==
  ASSUME CpuInv, NEW n, NEW m, NEW i \in Insn(n, m), RTS(i)
  PROVE  Effect
<1> DEFINE c == [cpu EXCEPT !.sp = SpPlus(2)]
           to == (pop8(1) + 256 * pop8(2) + 1) % 65536
           j == [[i EXCEPT !.v = to] EXCEPT !.pc = to]
<1>1. /\ IsMemory(c64_ram') /\ Stack(pushed') /\ SpPlus(2) \in Byte
      /\ Holds(c64_ram', SpPlus(2), pushed')
  BY PoppedOK DEF RTS
<1>2. c \in Struct /\ c.sp = SpPlus(2) /\ StatusMoves(cpu.p, c.p)
  BY <1>1, CpuFacts DEF CpuInv, Struct, StatusMoves
<1>3. pop8(1) \in Int /\ pop8(2) \in Int
  BY PopByte DEF CpuInv, Byte
<1>4. to \in Word
  BY <1>3, WrapWord
<1>5. Finish(c, j)
  BY DEF RTS, Jump, Insn
<1> HIDE DEF to
<1>6. j \in Insn(n, m)
  BY <1>4 DEF Insn
<1> HIDE DEF c, j
<1> QED
  BY <1>1, <1>2, <1>5, <1>6, StackMoves

\* RTI.
LEMMA RTIOK ==
  ASSUME CpuInv, NEW n, NEW m, NEW i \in Insn(n, m), RTI(i)
  PROVE  Effect
<1> DEFINE c == [cpu EXCEPT !.sp = SpPlus(3), !.p = Restored(pop8(1))]
           to == pop8(2) + 256 * pop8(3)
           j == [[i EXCEPT !.v = to] EXCEPT !.pc = to]
<1>1. /\ IsMemory(c64_ram') /\ Stack(pushed') /\ SpPlus(3) \in Byte
      /\ Holds(c64_ram', SpPlus(3), pushed')
  BY PoppedOK DEF RTI
<1>2. c \in Struct /\ c.sp = SpPlus(3) /\ StatusMoves(cpu.p, c.p)
  BY <1>1, CpuFacts, RestoredOK DEF CpuInv, Struct, StatusMoves
<1>3. to \in Word
  BY PopByte, PairWord DEF CpuInv
<1>4. Finish(c, j)
  BY DEF RTI, Jump, Insn
<1> HIDE DEF to
<1>5. j \in Insn(n, m)
  BY <1>3 DEF Insn
<1> HIDE DEF c, j
<1> QED
  BY <1>1, <1>2, <1>4, <1>5, StackMoves

\* The two bytes of a word.
LEMMA WordBytes ==
  ASSUME NEW w \in Word
  PROVE  w \div 256 \in Byte /\ w % 256 \in Byte
  BY SMT DEF Word, Byte

\* JSR.
LEMMA JSROK ==
  ASSUME CpuInv, NEW n, NEW m, NEW i \in Insn(n, m), JSR(i)
  PROVE  Effect
<1> DEFINE o == fetch16(i)
           w == (o.pc - 1) % 65536
           lo == w % 256
           hi == w \div 256
           c == [cpu EXCEPT !.sp = SpPlus(-2)]
           j == [o EXCEPT !.pc = o.v]
           m1 == push8(c64_ram, cpu.sp, hi)
           m2 == push8(m1, cpu.sp - 1, lo)
           s1 == Onto(hi, pushed)
           s2 == Onto(lo, s1)
<1>1. o \in Insn(n, m)
  BY Fetch16OK DEF CpuInv
<1>2. PushWord(w) /\ Finish(c, j)
  BY DEF JSR, Jump
<1> HIDE DEF o
<1>3. o.pc - 1 \in Int
  BY <1>1 DEF Insn, Word
<1>4. w \in Word
  BY <1>3, WrapWord
<1>5. lo \in Byte /\ hi \in Byte
  BY <1>4, WordBytes
<1>6. j \in Insn(n, m)
  BY <1>1, JumpOK DEF Insn
<1>7. c64_ram' = m2 /\ pushed' = Kept(<<lo, hi>> \o pushed)
  BY <1>2 DEF PushWord
<1> HIDE DEF w, lo, hi, j
<1>8. Stack(pushed) /\ cpu.sp \in Int
  BY CpuFacts DEF CpuInv
<1>9. pushed' = s2
  BY <1>5, <1>7, <1>8, OntoTwice
<1>10. IsMemory(m1) /\ Stack(s1) /\ Holds(m1, cpu.sp - 1, s1) /\ cpu.sp - 1 \in Int
  BY <1>5, <1>8, OneByteHolds
<1> HIDE DEF m1, s1
<1>11. IsMemory(m2) /\ Stack(s2) /\ Holds(m2, cpu.sp - 1 - 1, s2)
  BY <1>5, <1>10, PushedOnHolds
<1> HIDE DEF m2, s2
<1>12. cpu.sp - 1 - 1 \in Int /\ SpPlus(-2) = (cpu.sp - 1 - 1) % 256
  BY <1>8 DEF SpPlus
<1>13. Holds(m2, SpPlus(-2), s2) /\ SpPlus(-2) \in Byte
  BY <1>11, <1>12, HoldsWrapped, WrapByte DEF Stack
<1>14. c \in Struct /\ c.sp = SpPlus(-2) /\ StatusMoves(cpu.p, c.p)
  BY <1>13, CpuFacts DEF CpuInv, Struct, StatusMoves
<1> HIDE DEF c
<1> QED
  BY <1>2, <1>6, <1>7, <1>9, <1>11, <1>13, <1>14, StackMoves

\* Every instruction.
LEMMA ExecuteOK ==
  ASSUME CpuInv, NEW n, NEW m, NEW i \in Insn(n, m), Execute(i)
  PROVE  Effect
  BY LoadOK, StoreOK, TransferOK, TXSOK, PushOK, PullOK, FlagOpOK, CountRegisterOK,
     CountMemoryOK, CompareOK, LogicOK, BITOK, ArithmeticOK, ShiftAccumulatorOK,
     ShiftMemoryOK, BranchOK, JMPOK, JSROK, RTSOK, RTIOK, NOPOK, HaltOK
  DEF Execute

TraceTypes ==
  trace \in [0..(TraceLen - 1) -> Word \X Byte] /\ trace_idx \in 0..(TraceLen - 1)

\* A step, with its entry in the trace.
LEMMA StepOK ==
  ASSUME CpuInv, TraceTypes, cpu6502_step
  PROVE  Effect /\ TraceTypes'
<1>1. First \in Insn(First.instr, First.mode) /\ First.v \in Byte
  BY FirstOK DEF CpuInv
<1>2. Execute(First)
  BY DEF cpu6502_step
<1>3. Effect
  BY <1>1, <1>2, ExecuteOK
<1>4. cpu.pc \in Word
  BY CpuFacts DEF CpuInv
<1>5. trace' \in [0..(TraceLen - 1) -> Word \X Byte]
  <2>1. <<cpu.pc, First.v>> \in Word \X Byte
    BY <1>1, <1>4
  <2> QED
    BY <2>1 DEF cpu6502_step, TraceTypes
<1>6. trace_idx' \in 0..(TraceLen - 1)
  <2>1. TraceLen \in Nat \ {0} /\ trace_idx + 1 \in Nat
    BY TraceAssumption DEF TraceTypes
  <2>2. trace_idx' = (trace_idx + 1) % TraceLen
    BY DEF cpu6502_step
  <2> QED
    BY <2>1, <2>2
<1> QED
  BY <1>3, <1>5, <1>6 DEF TraceTypes

----------------------------------------------------------------------------
(* Interrupts *)

\* Three bytes on the stack, of which 256 are kept.
LEMMA OntoThrice ==
  ASSUME NEW s, Stack(s), NEW a \in Byte, NEW b \in Byte, NEW c \in Byte
  PROVE  Kept(<<a, b, c>> \o s) = Onto(a, Onto(b, Onto(c, s)))
<1> DEFINE t == Onto(c, s)
           w == Onto(b, t)
           r == Onto(a, w)
           u == <<a, b, c>> \o s
<1>1. IsOnto(t, c, s) /\ Stack(t) /\ s \in Seq(Byte) /\ Len(s) <= 256
  BY OntoOK DEF IsOnto, Stack
<1> HIDE DEF t
<1>2. IsOnto(w, b, t) /\ Stack(w)
  <2>1. IsOnto(w, b, t)
    BY <1>1, OntoOK
  <2> HIDE DEF w
  <2> QED
    BY <2>1 DEF IsOnto
<1> HIDE DEF w
<1>3. IsOnto(r, a, w)
  BY <1>2, OntoOK
<1>4. /\ u \in Seq(Byte) /\ Len(u) = Len(s) + 3
      /\ \A k \in 1..Len(u) : u[k] = IF k = 1 THEN a ELSE IF k = 2 THEN b ELSE IF k = 3 THEN c ELSE s[k - 3]
  BY <1>1
<1> HIDE DEF r, u
<1>5. /\ Kept(u) \in Seq(Byte) /\ Len(Kept(u)) = (IF Len(u) < 256 THEN Len(u) ELSE 256)
      /\ \A k \in 1..Len(Kept(u)) : Kept(u)[k] = u[k]
  BY <1>4 DEF Kept
<1>6. Len(Kept(u)) = Len(r) /\ r \in Seq(Byte)
  BY <1>1, <1>2, <1>3, <1>4, <1>5 DEF IsOnto, Stack
<1>7. \A k \in 1..Len(Kept(u)) : Kept(u)[k] = r[k]
  <2> TAKE k \in 1..Len(Kept(u))
  <2>0. k \in 1..Len(r) /\ Len(r) <= 256 /\ Len(r) \in Nat
    BY <1>3, <1>6 DEF IsOnto, Stack
  <2>1. k \in Int /\ 1 <= k /\ k <= 256 /\ k <= Len(s) + 3 /\ k \in 1..Len(u)
    BY <1>1, <1>4, <1>5, <2>0
  <2>2. Kept(u)[k] = IF k = 1 THEN a ELSE IF k = 2 THEN b ELSE IF k = 3 THEN c ELSE s[k - 3]
    BY <1>4, <1>5, <2>1
  <2>3. r[k] = IF k = 1 THEN a ELSE w[k - 1]
    BY <1>3, <2>0 DEF IsOnto
  <2>4. k # 1 => k - 1 \in 1..Len(w) /\ (k - 1 = 1 <=> k = 2) /\ (k - 1) - 1 = k - 2
    BY <1>1, <1>2, <2>1 DEF IsOnto
  <2>5. k # 1 => w[k - 1] = IF k = 2 THEN b ELSE t[k - 2]
    <3>1. k # 1 => w[k - 1] = IF k - 1 = 1 THEN b ELSE t[(k - 1) - 1]
      BY <1>2, <2>4 DEF IsOnto
    <3> QED
      BY <2>4, <3>1
  <2>6. k > 2 => k - 2 \in 1..Len(t)
    BY <1>1, <2>1 DEF IsOnto
  <2>7. k > 2 => t[k - 2] = IF k = 3 THEN c ELSE s[k - 3]
    BY <1>1, <2>1, <2>6 DEF IsOnto
  <2> QED
    BY <2>1, <2>2, <2>3, <2>5, <2>7
<1>8. Kept(u) = r
  <2> DEFINE x == Kept(u)
  <2>1. /\ x \in Seq(Byte) /\ r \in Seq(Byte) /\ Len(x) = Len(r)
        /\ \A k \in 1..Len(x) : x[k] = r[k]
    BY <1>5, <1>6, <1>7
  <2> HIDE DEF x
  <2>2. x = r
    BY <2>1, SeqEqual, Zenon
  <2> QED
    BY <2>2 DEF x
<1> QED
  BY <1>8 DEF t, w, r, u

\* An interrupt that is taken.
LEMMA InterruptedOK ==
  ASSUME CpuInv, Interrupted
  PROVE  Effect /\ UNCHANGED traceVars
<1> DEFINE p == FromBits((cpu.p \ {"B"}) \cup {"U"})
           lo == cpu.pc % 256
           hi == cpu.pc \div 256
           m1 == push8(c64_ram, cpu.sp, hi)
           m2 == push8(m1, cpu.sp - 1, lo)
           m3 == push8(m2, cpu.sp - 2, p)
           s1 == Onto(hi, pushed)
           s2 == Onto(lo, s1)
           s3 == Onto(p, s2)
           v  == Vector(IrqVector)
<1>1. /\ c64_ram' = m3 /\ pushed' = Kept(<<p, lo, hi>> \o pushed)
      /\ cpu' = [cpu EXCEPT !.sp = SpPlus(-3), !.p = @ \cup {"I"}, !.pc = v]
      /\ raster_counter' = raster_counter /\ UNCHANGED traceVars
  BY DEF Interrupted
<1>2. p \in Byte /\ lo \in Byte /\ hi \in Byte
  BY FromBitsByte, WordBytes, CpuFacts DEF CpuInv
<1>3. v \in Word
  BY RamByte, PairWord DEF Vector, CpuInv
<1> HIDE DEF p, lo, hi, v
<1>4. Stack(pushed) /\ cpu.sp \in Int /\ cpu \in Struct /\ cpu.p \in SUBSET Flag
  BY CpuFacts DEF CpuInv
<1>5. pushed' = s3
  BY <1>1, <1>2, <1>4, OntoThrice
<1>6. IsMemory(m1) /\ Stack(s1) /\ Holds(m1, cpu.sp - 1, s1) /\ cpu.sp - 1 \in Int
  BY <1>2, <1>4, OneByteHolds
<1> HIDE DEF m1, s1
<1>7. IsMemory(m2) /\ Stack(s2) /\ Holds(m2, cpu.sp - 1 - 1, s2) /\ cpu.sp - 1 - 1 \in Int
  BY <1>2, <1>6, PushedOnHolds
<1>8. cpu.sp - 1 - 1 = cpu.sp - 2 /\ cpu.sp - 2 \in Int
  BY <1>4
<1> HIDE DEF m2, s2
<1>9. Holds(m2, cpu.sp - 2, s2)
  BY <1>7, <1>8
<1>10. IsMemory(m3) /\ Stack(s3) /\ Holds(m3, cpu.sp - 2 - 1, s3)
  BY <1>2, <1>7, <1>8, <1>9, PushedOnHolds
<1> HIDE DEF m3, s3
<1>11. cpu.sp - 2 - 1 \in Int /\ SpPlus(-3) = (cpu.sp - 2 - 1) % 256
  BY <1>4 DEF SpPlus
<1>12. Holds(m3, SpPlus(-3), s3) /\ SpPlus(-3) \in Byte
  BY <1>10, <1>11, HoldsWrapped, WrapByte DEF Stack
<1>13. cpu' \in Struct /\ cpu'.sp = SpPlus(-3) /\ StatusMoves(cpu.p, cpu'.p)
  BY <1>1, <1>3, <1>4, <1>12 DEF Struct, StatusMoves, Flag
<1>14. CpuTypes'
  BY <1>1, <1>5, <1>10, <1>13 DEF CpuTypes, CpuInv, IsMemory, Stack
<1>15. StackHoldsPushed'
  BY <1>1, <1>5, <1>12, <1>13, StackIsHeldNext
<1> QED
  BY <1>1, <1>13, <1>14, <1>15 DEF Effect

\* A step that leaves the CPU alone.
LEMMA SameEffect ==
  ASSUME CpuInv, UNCHANGED cpuVars
  PROVE  Effect
  BY DEF CpuInv, CpuTypes, StackHoldsPushed, Ram, Effect, StatusMoves, cpuVars, memVars

\* An interrupt, taken or not.
LEMMA IrqOK ==
  ASSUME CpuInv, TraceTypes, cpu6502_irq
  PROVE  Effect /\ TraceTypes'
  BY InterruptedOK, SameEffect DEF cpu6502_irq, TraceTypes, traceVars, cpuVars

----------------------------------------------------------------------------
(* Sessions and CPUTEST *)

\* A program as the host loads it.
Bytes(f) == f \in [DOMAIN f -> Byte] /\ DOMAIN f \subseteq Word

\* A program loaded over memory.
LEMMA OverlayOK ==
  ASSUME NEW m, IsMemory(m), NEW f, Bytes(f)
  PROVE  IsMemory(Overlay(m, f))
  BY DEF IsMemory, Bytes, Overlay

\* A reset.
LEMMA ResetOK ==
  ASSUME NEW pc \in Word
  PROVE  /\ cpu6502_reset(pc) \in Struct
         /\ "B" \notin cpu6502_reset(pc).p /\ "U" \in cpu6502_reset(pc).p
  BY SMT DEF cpu6502_reset, Struct, Byte, Flag

\* A reset with a program loaded.
LEMMA RestartOK ==
  ASSUME CpuInv, NEW f, Bytes(f), NEW pc \in Word, Restart(f, pc)
  PROVE  /\ CpuTypes' /\ StackHoldsPushed' /\ UNCHANGED traceVars
         /\ "B" \notin cpu'.p /\ "U" \in cpu'.p
<1>1. /\ c64_ram' = Overlay(c64_ram, f) /\ cpu' = cpu6502_reset(pc) /\ pushed' = <<>>
      /\ raster_counter' = raster_counter /\ UNCHANGED traceVars
  BY DEF Restart
<1>2. IsMemory(c64_ram')
  BY <1>1, OverlayOK, CpuFacts DEF CpuInv
<1>3. cpu' \in Struct /\ "B" \notin cpu'.p /\ "U" \in cpu'.p
  BY <1>1, ResetOK
<1>4. CpuTypes'
  BY <1>1, <1>2, <1>3 DEF CpuTypes, CpuInv, IsMemory
<1>5. StackHoldsPushed'
  BY <1>1 DEF StackHoldsPushed
<1> QED
  BY <1>1, <1>3, <1>4, <1>5

\* The first self-test is bytes.
LEMMA Test1OK == Bytes(Test1) /\ 2048 \in Word
  BY SMT DEF Test1, Code, Bytes, Byte, Word

\* The second self-test is bytes.
LEMMA Test2OK == Bytes(Test2) /\ 2304 \in Word
  BY SMT DEF Test2, Code, Bytes, Byte, Word

\* An image is bytes and has a reset vector.
LEMMA ImageOK ==
  ASSUME NEW n \in 1..NumImages
  PROVE  Bytes(Images[n].rom) /\ Images[n].rom[65532] + 256 * Images[n].rom[65533] \in Word
<1> DEFINE rom == Images[n].rom
<1>1. DOMAIN rom \subseteq RomArea /\ 65532..65535 \subseteq DOMAIN rom /\ rom \in [DOMAIN rom -> Byte]
  BY GuestAssumption
<1> HIDE DEF rom
<1>2. RomArea \subseteq Word
  BY SMT DEF RomArea, Word
<1>3. 65532 \in DOMAIN rom /\ 65533 \in DOMAIN rom
  BY <1>1, SMT
<1>4. rom[65532] \in Byte /\ rom[65533] \in Byte
  BY <1>1, <1>3
<1>5. Bytes(rom)
  BY <1>1, <1>2 DEF Bytes
<1> QED
  BY <1>4, <1>5, PairWord DEF rom

HostTypes ==
  /\ host \in {"shell", "session", "test1", "test2"}
  /\ image \in 0..NumImages
  /\ steps \in Nat /\ sessions \in Nat
  /\ verdicts \in [test1 : {"none", "PASS", "FAIL"}, test2 : {"none", "PASS", "FAIL"}]
  /\ disturbed \in BOOLEAN

\* The struct set aside while CPUTEST runs is fit to go on.
ParkedFit ==
  /\ parked \in Struct /\ "B" \notin parked.p
  /\ Testing /\ image # NoImage => "U" \in parked.p

\* The inductive invariant.
GuestInv == CpuInv /\ TraceTypes /\ HostTypes /\ ParkedFit /\ StatusBits

\* The invariant consists of properties of Guest and of ParkedFit.
LEMMA GuestInvImplies == GuestInv <=> TypeOK /\ StackHoldsPushed /\ StatusBits /\ ParkedFit
  BY DEF GuestInv, CpuInv, CpuTypes, TraceTypes, HostTypes, ParkedFit, TypeOK

\* It holds before the first session,
LEMMA InitOK == ASSUME Init PROVE GuestInv
<1>1. Zeroed \in Struct /\ "B" \notin Zeroed.p
  BY SMT DEF Zeroed, Struct, Byte, Word, Flag
<1>2. CpuTypes
  BY <1>1 DEF Init, CpuTypes, PalRasterLines
<1>3. StackHoldsPushed
  BY DEF Init, StackHoldsPushed
<1>4. TraceTypes
  <2>1. <<0, 0>> \in Word \X Byte
    BY SMT DEF Word, Byte
  <2> QED
    BY <2>1, TraceAssumption DEF Init, TraceTypes
<1>5. HostTypes
  <2>1. NumImages \in Nat
    BY GuestAssumption
  <2>2. /\ image = 0 /\ host = "shell" /\ steps = 0 /\ sessions = 0
        /\ disturbed \in BOOLEAN
    BY DEF Init, NoImage
  <2>3. verdicts \in [test1 : {"none", "PASS", "FAIL"}, test2 : {"none", "PASS", "FAIL"}]
    BY DEF Init
  <2> QED
    BY <2>1, <2>2, <2>3 DEF HostTypes
<1>6. ParkedFit /\ StatusBits
  BY <1>1 DEF Init, ParkedFit, StatusBits, Testing
<1> QED
  BY <1>2, <1>3, <1>4, <1>5, <1>6 DEF GuestInv, CpuInv

\* when one begins,
LEMMA BootKeeps == ASSUME GuestInv, cmd_c64boot PROVE GuestInv'
<1> DEFINE rom == Images[image'].rom
           pc == rom[65532] + 256 * rom[65533]
<1>1. image' \in 1..NumImages /\ Restart(rom, pc)
  BY DEF cmd_c64boot
<1>2. Bytes(rom) /\ pc \in Word
  BY <1>1, ImageOK
<1> HIDE DEF rom, pc
<1>3. /\ CpuTypes' /\ StackHoldsPushed' /\ UNCHANGED traceVars
      /\ "B" \notin cpu'.p /\ "U" \in cpu'.p
  BY <1>1, <1>2, RestartOK DEF GuestInv
<1>4. steps' \in Nat /\ image' \in 0..NumImages /\ sessions' \in Nat
  BY <1>1, GuestAssumption DEF cmd_c64boot, EnterSession, GuestInv, HostTypes
<1>5. TraceTypes'
  BY <1>3 DEF GuestInv, TraceTypes, traceVars
<1>6. HostTypes'
  BY <1>4 DEF cmd_c64boot, EnterSession, GuestInv, HostTypes
<1>7. ParkedFit'
  BY DEF cmd_c64boot, EnterSession, GuestInv, ParkedFit, Testing
<1>8. StatusBits'
  BY <1>3 DEF StatusBits
<1> QED
  BY <1>3, <1>5, <1>6, <1>7, <1>8 DEF GuestInv, CpuInv

\* A step or an interrupt of the CPU, in a session or in a test.
LEMMA CpuMoves ==
  ASSUME GuestInv, Effect, TraceTypes', steps' \in Nat,
         UNCHANGED <<host, image, parked, sessions, verdicts, disturbed>>
  PROVE  GuestInv'
<1>1. HostTypes'
  BY DEF GuestInv, HostTypes
<1>2. ParkedFit' /\ StatusBits'
  BY DEF GuestInv, ParkedFit, StatusBits, Testing, Effect, StatusMoves
<1> QED
  BY <1>1, <1>2 DEF GuestInv, CpuInv, Effect

\* after an instruction,
LEMMA StepsKeep == ASSUME GuestInv, GuestStep \/ TestStep PROVE GuestInv'
<1>1. cpu6502_step /\ UNCHANGED <<host, image, parked, sessions, verdicts, disturbed>>
  BY DEF GuestStep, TestStep
<1>2. steps' \in Nat
  BY DEF GuestStep, TestStep, GuestInv, HostTypes
<1> QED
  BY <1>1, <1>2, StepOK, CpuMoves DEF GuestInv

\* after an interrupt,
LEMMA IrqKeeps == ASSUME GuestInv, HostIrq PROVE GuestInv'
<1>1. /\ cpu6502_irq /\ steps' \in Nat
      /\ UNCHANGED <<host, image, parked, sessions, verdicts, disturbed>>
  BY DEF HostIrq
<1> QED
  BY <1>1, IrqOK, CpuMoves DEF GuestInv

\* Nothing of the CPU changes.
LEMMA CpuRests ==
  ASSUME GuestInv, UNCHANGED cpuVars
  PROVE  CpuInv' /\ TraceTypes' /\ (StatusMoves(cpu.p, cpu'.p))
  BY SameEffect DEF GuestInv, CpuInv, Effect, TraceTypes, cpuVars, traceVars

\* when a session is resumed or left,
LEMMA EnterAndLeaveKeep == ASSUME GuestInv, Resume \/ Leave PROVE GuestInv'
<1>1. /\ UNCHANGED <<cpuVars, image, parked, verdicts, disturbed>>
      /\ host' \in {"shell", "session"} /\ steps' = 0 /\ sessions' \in Nat
  BY DEF Resume, Leave, EnterSession, GuestInv, HostTypes
<1>2. CpuInv' /\ TraceTypes' /\ cpu' = cpu
  BY <1>1, CpuRests DEF cpuVars
<1>3. HostTypes'
  BY <1>1 DEF GuestInv, HostTypes
<1>4. ParkedFit' /\ StatusBits'
  BY <1>1, <1>2 DEF GuestInv, ParkedFit, StatusBits, Testing
<1> QED
  BY <1>2, <1>3, <1>4 DEF GuestInv

\* when CPUTEST begins,
LEMMA Test1Keeps == ASSUME GuestInv, cpu6502_run_test PROVE GuestInv'
<1>1. /\ CpuTypes' /\ StackHoldsPushed' /\ UNCHANGED traceVars
      /\ "B" \notin cpu'.p /\ "U" \in cpu'.p
  BY RestartOK, Test1OK DEF cpu6502_run_test, GuestInv
<1>2. TraceTypes'
  BY <1>1 DEF GuestInv, TraceTypes, traceVars
<1>3. HostTypes'
  BY DEF cpu6502_run_test, GuestInv, HostTypes
<1>4. ParkedFit'
  <2>1. parked' = cpu /\ image' = image /\ cpu \in Struct
    BY CpuFacts DEF cpu6502_run_test, GuestInv, CpuInv
  <2> QED
    BY <2>1 DEF GuestInv, ParkedFit, StatusBits
<1>5. StatusBits'
  BY <1>1 DEF StatusBits
<1> QED
  BY <1>1, <1>2, <1>3, <1>4, <1>5 DEF GuestInv, CpuInv

\* with its second test,
LEMMA Test2Keeps == ASSUME GuestInv, EndTest1 PROVE GuestInv'
<1>1. /\ CpuTypes' /\ StackHoldsPushed' /\ UNCHANGED traceVars
      /\ "B" \notin cpu'.p /\ "U" \in cpu'.p
  BY RestartOK, Test2OK DEF EndTest1, GuestInv
<1>2. TraceTypes'
  BY <1>1 DEF GuestInv, TraceTypes, traceVars
<1>3. HostTypes'
  BY DEF EndTest1, GuestInv, HostTypes, Verdict
<1>4. ParkedFit'
  BY DEF EndTest1, GuestInv, ParkedFit, Testing
<1>5. StatusBits'
  BY <1>1 DEF StatusBits
<1> QED
  BY <1>1, <1>2, <1>3, <1>4, <1>5 DEF GuestInv, CpuInv

\* when it puts the struct back,
LEMMA GuestReturns == ASSUME GuestInv, EndTest2 PROVE GuestInv'
<1>1. /\ cpu' = parked /\ parked' = Zeroed /\ pushed' = <<>> /\ steps' = 0 /\ host' = "shell"
      /\ UNCHANGED <<c64_ram, raster_counter, traceVars, image, sessions, disturbed>>
  BY DEF EndTest2
<1>2. CpuInv'
  BY <1>1 DEF GuestInv, CpuInv, CpuTypes, ParkedFit, StackHoldsPushed
<1>3. TraceTypes'
  BY <1>1 DEF GuestInv, TraceTypes, traceVars
<1>4. HostTypes'
  BY DEF EndTest2, GuestInv, HostTypes, Verdict
<1>5. ParkedFit'
  <2>1. Zeroed \in Struct /\ "B" \notin Zeroed.p
    BY SMT DEF Zeroed, Struct, Byte, Word, Flag
  <2> QED
    BY <1>1, <2>1 DEF ParkedFit, Testing
<1>6. StatusBits'
  BY <1>1 DEF EndTest2, GuestInv, ParkedFit, StatusBits, Testing
<1> QED
  BY <1>2, <1>3, <1>4, <1>5, <1>6 DEF GuestInv

\* and so after every step.
LEMMA NextKeeps == ASSUME GuestInv, [Next]_vars PROVE GuestInv'
<1>1. CASE UNCHANGED vars
  <2>1. CpuInv' /\ TraceTypes' /\ cpu' = cpu
    BY <1>1, CpuRests DEF vars, cpuVars
  <2>2. HostTypes' /\ ParkedFit' /\ StatusBits'
    BY <1>1, <2>1 DEF vars, hostVars, GuestInv, HostTypes, ParkedFit, StatusBits, Testing
  <2> QED
    BY <2>1, <2>2 DEF GuestInv
<1> QED
  BY <1>1, BootKeeps, StepsKeep, IrqKeeps, EnterAndLeaveKeep, Test1Keeps, Test2Keeps, GuestReturns
  DEF Next

\* It is an invariant.
LEMMA GuestInvariant == Spec => []GuestInv
  BY InitOK, NextKeeps, PTL DEF Spec

\* Every variable of interpreter and host keeps its type, whatever bytes the
\* images hold: no instruction computes a register, a status or a byte of memory
\* out of range, and every read and write lands in the memory (cpu6502.c).
THEOREM GuestTypeCorrect == Spec => []TypeOK
<1>1. GuestInv => TypeOK
  BY GuestInvImplies
<1> QED
  BY <1>1, GuestInvariant, PTL

\* B is never set in the struct and bit 5 always is after the first reset,
\* through every PLP, RTI and interrupt, and CPUTEST gives back a struct of
\* which this is still true.
THEOREM StatusBitsHold == Spec => []StatusBits
<1>1. GuestInv => StatusBits
  BY DEF GuestInv
<1> QED
  BY <1>1, GuestInvariant, PTL

\* What pushes, calls and interrupts left on the stack and the program did not
\* store over is what is pulled, for every program and place of an interrupt.
THEOREM StackHoldsPushedHolds == Spec => []StackHoldsPushed
<1>1. GuestInv => StackHoldsPushed
  BY DEF GuestInv, CpuInv
<1> QED
  BY <1>1, GuestInvariant, PTL

----------------------------------------------------------------------------
(* Sums and differences *)

\* An overflow is a sum whose sign differs from both operands'.
Overflow(a, v, r) == Negative(a) # Negative(r) /\ Negative(v) # Negative(r)

IsByteSum(a, v, k, sum, r) ==
  /\ r \in Byte
  /\ r + 256 * (IF sum > 255 THEN 1 ELSE 0) = sum
  /\ Overflow(a, v, r) <=> Signed(a) + Signed(v) + k \notin -128..127

\* The arithmetic of one byte, without flags.
LEMMA ByteSum ==
  ASSUME NEW a \in Byte, NEW v \in Byte, NEW k \in {0, 1}
  PROVE  IsByteSum(a, v, k, a + v + k, (a + v + k) % 256)
<1> DEFINE sum == a + v + k
           r   == sum % 256
<1>1. a \in 0..255 /\ v \in 0..255 /\ sum \in 0..511
  BY DEF Byte
<1>2. r = IF sum > 255 THEN sum - 256 ELSE sum
  BY <1>1
<1>3. r \in Byte
  BY <1>1, WrapByte
<1>4. r + 256 * (IF sum > 255 THEN 1 ELSE 0) = sum
  BY <1>1, <1>2
<1>5. (Negative(a) # Negative(r)) <=> (a >= 128 <=> r < 128)
  BY <1>1, <1>3 DEF Negative, Byte
<1>6. (Negative(v) # Negative(r)) <=> (v >= 128 <=> r < 128)
  BY <1>1, <1>3 DEF Negative, Byte
<1>7. (a >= 128 <=> r < 128) /\ (v >= 128 <=> r < 128)
        <=> ~(-128 <= Signed(a) + Signed(v) + k /\ Signed(a) + Signed(v) + k <= 127)
  BY <1>1, <1>2 DEF Signed
<1>8. Signed(a) + Signed(v) + k \in Int
  BY <1>1 DEF Signed
<1> QED
  BY <1>3, <1>4, <1>5, <1>6, <1>7, <1>8 DEF Overflow, IsByteSum

\* The flags that a result sets.
LEMMA PlainFlags ==
  ASSUME NEW c \in Struct, NEW v \in Byte
  PROVE  /\ Plain(c, "a", v).a = v
         /\ "C" \in Plain(c, "a", v).p <=> "C" \in c.p
         /\ "V" \in Plain(c, "a", v).p <=> "V" \in c.p
         /\ "N" \in Plain(c, "a", v).p <=> v >= 128
         /\ "Z" \in Plain(c, "a", v).p <=> v = 0
<1>1. c.p \in SUBSET Flag
  BY DEF Struct
<1>2. Plain(c, "a", v).p = set_zn(c.p, v) /\ Plain(c, "a", v).a = v
  BY DEF Plain, WithZN, SetReg, Struct
<1> QED
  BY <1>1, <1>2 DEF set_zn, With, Negative, Flag

\* ADC: the sum with its carry, and the flags.
LEMMA SumRight ==
  ASSUME NEW c \in Struct, NEW v \in Byte
  PROVE  LET d == do_adc(c, v)
         IN  /\ d.a + 256 * CarryIn(d.p) = c.a + v + CarryIn(c.p)
             /\ FlagsAfter(d, Signed(c.a) + Signed(v) + CarryIn(c.p))
<1> DEFINE k   == CarryIn(c.p)
           sum == c.a + v + k
           r   == sum % 256
           over == Overflow(c.a, v, r)
           b   == With(With(c.p, "C", sum > 255), "V", over)
           e   == [c EXCEPT !.p = b]
           d   == Plain(e, "a", r)
<1>1. do_adc(c, v) = d
  BY DEF do_adc, Overflow
<1>2. c.a \in Byte /\ k \in {0, 1} /\ c.p \in SUBSET Flag
  BY CarryBit DEF Struct
<1> HIDE DEF k
<1>sum. IsByteSum(c.a, v, k, sum, r)
  BY <1>2, ByteSum
<1> HIDE DEF sum, r
<1>3. /\ r \in Byte
      /\ r + 256 * (IF sum > 255 THEN 1 ELSE 0) = sum
      /\ over <=> Signed(c.a) + Signed(v) + k \notin -128..127
  BY <1>sum DEF IsByteSum
<1> HIDE DEF over
<1>4. b \in SUBSET Flag /\ ("C" \in b <=> sum > 255) /\ ("V" \in b <=> over)
  BY <1>2 DEF With, Flag
<1> HIDE DEF b
<1>5. e \in Struct /\ e.p = b
  BY <1>4 DEF Struct
<1> HIDE DEF e
<1>6. /\ d.a = r /\ ("C" \in d.p <=> sum > 255) /\ ("V" \in d.p <=> over)
      /\ ("N" \in d.p <=> r >= 128) /\ ("Z" \in d.p <=> r = 0)
  BY <1>3, <1>4, <1>5, PlainFlags
<1> HIDE DEF d
<1>7. CarryIn(d.p) = IF sum > 255 THEN 1 ELSE 0
  BY <1>6 DEF CarryIn
<1>8. d.a + 256 * CarryIn(d.p) = sum
  BY <1>3, <1>6, <1>7
<1>9. FlagsAfter(d, Signed(c.a) + Signed(v) + k)
  BY <1>3, <1>6 DEF FlagsAfter
<1> QED
  BY <1>1, <1>8, <1>9 DEF sum, k

\* The complement of the operand, and the carry as the complement of a borrow.
LEMMA Complement ==
  ASSUME NEW x \in Int, NEW a \in Int, NEW v \in Int, NEW k \in Int, NEW d \in Int,
         d + 256 * x = a + (255 - v) + k
  PROVE  d - 256 * (1 - x) = a - v - (1 - k)
  OBVIOUS

\* SBC: the difference with its borrow, and the flags.
LEMMA DifferenceRight ==
  ASSUME NEW c \in Struct, NEW v \in Byte
  PROVE  LET d == do_sbc(c, v)
         IN  /\ d.a - 256 * (1 - CarryIn(d.p)) = c.a - v - (1 - CarryIn(c.p))
             /\ FlagsAfter(d, Signed(c.a) - Signed(v) - (1 - CarryIn(c.p)))
<1> DEFINE d == do_adc(c, 255 - v)
<1>1. 255 - v \in Byte /\ Signed(255 - v) = -1 - Signed(v) /\ Signed(v) \in Int
  BY DEF Byte, Signed
<1>2. /\ d.a + 256 * CarryIn(d.p) = c.a + (255 - v) + CarryIn(c.p)
      /\ FlagsAfter(d, Signed(c.a) + Signed(255 - v) + CarryIn(c.p))
  BY <1>1, SumRight
<1>3. d \in Struct
  BY <1>1, SumComputes DEF Computes
<1>4. c.a \in Int /\ d.a \in Int /\ v \in Int /\ CarryIn(c.p) \in Int /\ CarryIn(d.p) \in Int
  BY <1>3, CarryBit DEF Struct, Byte
<1>8. Signed(c.a) \in Int
  BY SignedInt DEF Struct
<1>5. do_sbc(c, v) = d
  BY DEF do_sbc
<1> HIDE DEF d
<1>6. d.a - 256 * (1 - CarryIn(d.p)) = c.a - v - (1 - CarryIn(c.p))
  BY <1>2, <1>4, Complement
<1>7. Signed(c.a) + Signed(255 - v) + CarryIn(c.p) = Signed(c.a) - Signed(v) - (1 - CarryIn(c.p))
  BY <1>1, <1>4, <1>8
<1> QED
  BY <1>2, <1>5, <1>6, <1>7

\* Only an instruction is counted.
LEMMA SteppingIsStep ==
  ASSUME GuestInv, [Next]_vars, Stepping
  PROVE  cpu6502_step
<1>1. steps \in Nat
  BY DEF GuestInv, HostTypes
<1>2. steps' = steps + 1 /\ host' = host
  BY DEF Stepping
<1>3. ~UNCHANGED vars
  BY <1>1, <1>2 DEF vars, hostVars
<1>4. ~(cmd_c64boot \/ Resume \/ Leave \/ cpu6502_run_test \/ EndTest1 \/ EndTest2)
  BY <1>2 DEF cmd_c64boot, Resume, EnterSession, Leave, cpu6502_run_test, EndTest1, EndTest2
<1>5. ~HostIrq
  BY <1>1, <1>2 DEF HostIrq
<1> QED
  BY <1>3, <1>4, <1>5 DEF Next, GuestStep, TestStep

\* For every program, operand and flag: ADC and SBC compute the sum and the
\* difference with their carry, and V says whether they fit a signed byte
\* (do_adc and do_sbc of cpu6502.c).
THEOREM ArithmeticRightHolds == Spec => ArithmeticRight
<1> DEFINE v == Operand(First.mode, First).v
           Right == Stepping /\ First.instr \in {"ADC", "SBC"} =>
             IF First.instr = "ADC"
             THEN /\ cpu'.a + 256 * CarryIn(cpu'.p) = cpu.a + v + CarryIn(cpu.p)
                  /\ FlagsAfter(cpu', Signed(cpu.a) + Signed(v) + CarryIn(cpu.p))
             ELSE /\ cpu'.a - 256 * (1 - CarryIn(cpu'.p)) = cpu.a - v - (1 - CarryIn(cpu.p))
                  /\ FlagsAfter(cpu', Signed(cpu.a) - Signed(v) - (1 - CarryIn(cpu.p)))
<1>1. ASSUME GuestInv, [Next]_vars, Stepping, First.instr \in {"ADC", "SBC"}
      PROVE  Right
  <2> DEFINE c == IF First.instr = "ADC" THEN do_adc(cpu, v) ELSE do_sbc(cpu, v)
  <2>1. Execute(First)
    BY <1>1, SteppingIsStep DEF cpu6502_step
  <2>2. Arithmetic(First)
    BY <1>1, <2>1
    DEF Execute, Load, Store, Transfer, TXS, Push, Pull, FlagOp, CountRegister, CountMemory,
        Compare, Logic, BIT, ShiftAccumulator, ShiftMemory, Branch, JMP, JSR, RTS, RTI, NOP, Halt
  <2>3. cpu' = [c EXCEPT !.pc = Operand(First.mode, First).pc]
    BY <2>2 DEF Arithmetic, Finish
  <2>4. v \in Byte /\ cpu \in Struct
    BY <1>1, FirstOK, OperandOK, CpuFacts DEF GuestInv, CpuInv
  <2>5. c \in Struct
    BY <2>4, SumComputes DEF Computes
  <2> HIDE DEF v
  <2>6. cpu'.a = c.a /\ cpu'.p = c.p
    BY <2>3, <2>5 DEF Struct
  <2>7. CASE First.instr = "ADC"
    <3>1. c = do_adc(cpu, v)
      BY <2>7
    <3> HIDE DEF c
    <3> QED
      BY <2>4, <2>6, <2>7, <3>1, SumRight DEF FlagsAfter
  <2>8. CASE First.instr # "ADC"
    <3>1. c = do_sbc(cpu, v)
      BY <2>8
    <3> HIDE DEF c
    <3> QED
      BY <2>4, <2>6, <2>8, <3>1, DifferenceRight DEF FlagsAfter
  <2> QED
    BY <2>7, <2>8
<1>2. GuestInv /\ [Next]_vars => [Right]_vars
  BY <1>1
<1> QED
  BY <1>2, GuestInvariant, PTL DEF Spec, ArithmeticRight

----------------------------------------------------------------------------
(* The trace *)

\* Within a ring an index does not wrap,
LEMMA ModSmall == ASSUME NEW t \in Nat \ {0}, NEW x \in 0..(t - 1) PROVE x % t = x
  BY SMT

\* and beyond its end it wraps once.
LEMMA ModOnce == ASSUME NEW t \in Nat \ {0}, NEW x \in t..(2 * t - 1) PROVE x % t = x - t
  BY SMT

\* Entry i of a ring of t entries whose oldest is at index ix.
Place(ix, t, i) == (ix + t - t + i - 1) % t

\* The place of an entry lies in the ring.
LEMMA PlaceInRing ==
  ASSUME NEW t \in Nat \ {0}, NEW ix \in Int, NEW i \in Int
  PROVE  Place(ix, t, i) \in 0..(t - 1)
  BY DEF Place

\* A step moves every entry of the dump one place to the front, and the place
\* it leaves at the end is the one that is written.
LEMMA RingMoves ==
  ASSUME NEW t \in Nat \ {0}, NEW ix \in 0..(t - 1), NEW i \in 1..t
  PROVE  /\ Place((ix + 1) % t, t, i) = (ix + i) % t
         /\ (ix + i) % t \in 0..(t - 1)
         /\ i < t => Place(ix, t, i + 1) = (ix + i) % t /\ (ix + i) % t # ix
         /\ i = t => (ix + i) % t = ix
<1>1. (ix + i) % t = IF ix + i < t THEN ix + i ELSE ix + i - t
  <2>1. CASE ix + i < t
    BY <2>1, ModSmall
  <2>2. CASE ix + i >= t
    <3>1. ix + i \in t..(2 * t - 1)
      BY <2>2
    <3> QED
      BY <2>2, <3>1, ModOnce
  <2> QED
    BY <2>1, <2>2
<1>2. Place((ix + 1) % t, t, i) = (ix + i) % t
  <2>1. CASE ix + 1 < t
    <3>1. (ix + 1) % t = ix + 1
      BY <2>1, ModSmall
    <3>2. ix + 1 + t - t + i - 1 = ix + i
      OBVIOUS
    <3> QED
      BY <3>1, <3>2 DEF Place
  <2>2. CASE ix + 1 = t
    <3>1. (ix + 1) % t = 0
      BY <2>2, ModOnce
    <3>2. 0 + t - t + i - 1 = i - 1 /\ i - 1 \in 0..(t - 1)
      OBVIOUS
    <3>3. Place(0, t, i) = i - 1
      BY <3>2, ModSmall DEF Place
    <3> QED
      BY <1>1, <2>2, <3>1, <3>3
  <2> QED
    BY <2>1, <2>2
<1>3. i < t => Place(ix, t, i + 1) = (ix + i) % t
  <2>1. ix + t - t + (i + 1) - 1 = ix + i
    OBVIOUS
  <2> QED
    BY <2>1 DEF Place
<1> QED
  BY <1>1, <1>2, <1>3

Dump == cpu6502_trace_dump_ordered(TraceLen)

\* The trace as the shell dumps it, entry by entry.
LEMMA DumpIs ==
  ASSUME TraceTypes
  PROVE  /\ Dump \in Seq(Word \X Byte) /\ Len(Dump) = TraceLen
         /\ \A i \in 1..TraceLen : Dump[i] = trace[Place(trace_idx, TraceLen, i)]
<1>1. TraceLen \in Nat \ {0} /\ trace_idx \in Int
  BY TraceAssumption DEF TraceTypes
<1>2. Dump = [i \in 1..TraceLen |-> trace[Place(trace_idx, TraceLen, i)]]
  BY DEF Dump, cpu6502_trace_dump_ordered, Place
<1>3. \A i \in 1..TraceLen : Place(trace_idx, TraceLen, i) \in 0..(TraceLen - 1)
  BY <1>1, PlaceInRing
<1>4. \A i \in 1..TraceLen : trace[Place(trace_idx, TraceLen, i)] \in Word \X Byte
  BY <1>3 DEF TraceTypes
<1> QED
  BY <1>1, <1>2, <1>4

\* A step drops the oldest entry and adds its own.
LEMMA StepSlides ==
  ASSUME GuestInv, cpu6502_step, TraceTypes'
  PROVE  Dump' = Append(Tail(Dump), <<cpu.pc, First.v>>)
<1> DEFINE S == Word \X Byte
           x == <<cpu.pc, First.v>>
           d == Dump
           e == Dump'
           f == Append(Tail(d), x)
<1>1. TraceLen \in Nat \ {0} /\ trace_idx \in 0..(TraceLen - 1)
  BY TraceAssumption DEF GuestInv, TraceTypes
<1>2. x \in S
  BY FirstOK, CpuFacts DEF GuestInv, CpuInv
<1>3. trace' = [trace EXCEPT ![trace_idx] = x] /\ trace_idx' = (trace_idx + 1) % TraceLen
  BY DEF cpu6502_step
<1>4. /\ d \in Seq(S) /\ Len(d) = TraceLen
      /\ \A i \in 1..TraceLen : d[i] = trace[Place(trace_idx, TraceLen, i)]
  BY DumpIs DEF GuestInv
<1>5. /\ e \in Seq(S) /\ Len(e) = TraceLen
      /\ \A i \in 1..TraceLen : e[i] = trace'[Place(trace_idx', TraceLen, i)]
  <2>1. /\ Dump' = [i \in 1..TraceLen |-> trace'[Place(trace_idx', TraceLen, i)]]
    BY DEF Dump, cpu6502_trace_dump_ordered, Place
  <2>2. trace_idx' \in Int
    BY DEF TraceTypes
  <2>3. \A i \in 1..TraceLen : Place(trace_idx', TraceLen, i) \in 0..(TraceLen - 1)
    BY <1>1, <2>2, PlaceInRing
  <2>4. \A i \in 1..TraceLen : trace'[Place(trace_idx', TraceLen, i)] \in S
    BY <2>3 DEF TraceTypes
  <2> QED
    BY <1>1, <2>1, <2>4
<1>6. trace \in [0..(TraceLen - 1) -> S]
  BY DEF GuestInv, TraceTypes
<1> HIDE DEF S, x, d, e
<1>7. /\ f \in Seq(S) /\ Len(f) = TraceLen
      /\ \A i \in 1..TraceLen : f[i] = IF i < TraceLen THEN d[i + 1] ELSE x
  BY <1>1, <1>2, <1>4
<1> HIDE DEF f
<1>8. \A i \in 1..TraceLen : e[i] = f[i]
  <2> TAKE i \in 1..TraceLen
  <2> DEFINE p == (trace_idx + i) % TraceLen
  <2>1. /\ Place(trace_idx', TraceLen, i) = p /\ p \in 0..(TraceLen - 1)
        /\ i < TraceLen => Place(trace_idx, TraceLen, i + 1) = p /\ p # trace_idx
        /\ i = TraceLen => p = trace_idx
    BY <1>1, <1>3, RingMoves
  <2> HIDE DEF p
  <2>2. CASE i < TraceLen
    <3>1. i + 1 \in 1..TraceLen
      BY <1>1, <2>2
    <3>2. d[i + 1] = trace[p] /\ e[i] = trace'[p]
      BY <1>4, <1>5, <2>1, <2>2, <3>1
    <3>3. trace'[p] = trace[p]
      BY <1>3, <1>6, <2>1, <2>2
    <3> QED
      BY <1>7, <2>2, <3>2, <3>3
  <2>3. CASE i = TraceLen
    <3>1. e[i] = trace'[p] /\ p = trace_idx
      BY <1>5, <2>1, <2>3
    <3>2. trace'[p] = x
      BY <1>3, <1>6, <1>1, <3>1
    <3> QED
      BY <1>1, <1>7, <2>3, <3>1, <3>2
  <2> QED
    BY <1>1, <2>2, <2>3
<1>9. e = f
  BY <1>5, <1>7, <1>8, SeqEqual, Zenon
<1> QED
  BY <1>9 DEF e, f, d, x

\* A window on the instructions executed, for every length of the ring
\* (cpu6502_trace_dump_ordered): each step moves it on by one entry, and
\* sessions, interrupts and tests leave it as it is.
THEOREM TraceSlidesHolds == Spec => TraceSlides
<1> DEFINE Slides == Dump' = IF Stepping THEN Append(Tail(Dump), <<cpu.pc, First.v>>) ELSE Dump
<1>1. ASSUME GuestInv, [Next]_vars, Stepping PROVE Slides
  <2>1. cpu6502_step /\ GuestInv'
    BY <1>1, SteppingIsStep, NextKeeps
  <2> QED
    BY <1>1, <2>1, StepSlides DEF GuestInv
<1>2. ASSUME GuestInv, [Next]_vars, ~Stepping PROVE Slides
  <2>1. ~GuestStep /\ ~TestStep
    BY <1>2 DEF GuestStep, TestStep, Stepping
  <2>2. UNCHANGED traceVars
    BY <1>2, <2>1
    DEF Next, cmd_c64boot, Resume, HostIrq, Leave, cpu6502_run_test, EndTest1, EndTest2,
        Restart, cpu6502_irq, Interrupted, vars, cpuVars
  <2> QED
    BY <1>2, <2>2 DEF Dump, cpu6502_trace_dump_ordered, traceVars
<1>3. GuestInv /\ [Next]_vars => [Slides]_vars
  BY <1>1, <1>2
<1> QED
  BY <1>3, GuestInvariant, PTL DEF Spec, TraceSlides, Dump

=============================================================================
