------------------------------- MODULE MCGuest -------------------------------
(***************************************************************************)
(* Guest programs for Guest: sums, differences and products of operands at *)
(* the edges, each addressing mode at its wrap, the stack at its wrap, a   *)
(* wait for a raster line, a PC on a register, and every opcode once.      *)
(***************************************************************************)
EXTENDS Guest, TLC

\* Saves A and X on the stack, spoils registers and flags, restores, returns.
Handler == Code(65280, <<\h48, \h8A, \h48, \hA2, \hFF, \hA9, \h00, \h38, \h68, \hAA, \h68, \h40>>)

\* Starts at $E000; interrupts go to the handler.
Rom(bytes) == Code(57344, bytes) @@ Handler @@ Code(65532, <<0, \hE0, 0, \hFF>>)

Program(bytes, result) == [rom |-> Rom(bytes), result |-> result]

StatusByte(c, z, v, n) == 32 + (IF c THEN 1 ELSE 0) + (IF z THEN 2 ELSE 0) + 16
                          + (IF v THEN 64 ELSE 0) + (IF n THEN 128 ELSE 0)

WordAt(n, w) == Code(n, <<w % 256, w \div 256>>)

Signed16(w) == IF w < 32768 THEN w ELSE w - 65536

\* CLI, CLC or SEC, then both bytes from immediate operands to $20, P to $22.
Sixteen(op, first, x, y) ==
  <<\h58, first, \hA9, x % 256, op, y % 256, \h85, \h20,
    \hA9, x \div 256, op, y \div 256, \h85, \h21, \h08, \h68, \h85, \h22, 0>>

Flags16(sum, signed) ==
  Code(34, <<StatusByte(sum \notin 0..65535, (sum \div 256) % 256 = 0,
                        signed \notin -32768..32767, (sum \div 256) % 256 > 127)>>)

Sum16(x, y) ==
  Program(Sixteen(\h69, \h18, x, y),
          WordAt(32, (x + y) % 65536) @@ Flags16(x + y, Signed16(x) + Signed16(y)))

\* After a difference the carry says that nothing was borrowed.
Difference16(x, y) ==
  Program(Sixteen(\hE9, \h38, x, y),
          WordAt(32, (x - y) % 65536) @@ Flags16(x - y + 65536, Signed16(x) - Signed16(y)))

\* Shift and add; the product replaces the first factor and fills $21.
Product(x, y) ==
  Program(<<\h58, \hA9, x, \h85, \h20, \hA9, y, \h85, \h22, \hA9, 0, \hA2, 8, \h46, \h20,
            \h90, 3, \h18, \h65, \h22, \h6A, \h66, \h20, \hCA, \hD0, \hF5, \h85, \h21, 0>>,
          WordAt(32, x * y))

\* A pointer at $FF and $00, (zp,X), (zp),Y, zp,X, zp,Y, abs,X and abs past their
\* ends, a JMP through a pointer, BIT of what came of it.
Addressing ==
  Program(<<\h58, \hA2, \hF0, \hA0, \hF1,
            \hA9, \h50, \h85, \hFF, \hA9, \h03, \h85, \h00,
            \hA9, \h77, \h81, \h0F,          \* $0350 := $77
            \hA9, \h66, \h91, \hFF,          \* $0441 := $66
            \h95, \h20, \h96, \hFE,          \* $10 := $66, $EF := $F0
            \hA9, \h99, \h9D, \hF8, \hFF,    \* $E8 := $99
            \hF6, \h20, \h1E, \h60, \h02,    \* $10 := $67, $0350 := $EE
            \hA1, \h0F, \h85, \h30, \h51, \hFF, \h85, \h31,
            \hA9, \h3E, \h8D, \h02, \h03, \hA9, \hE0, \h8D, \h03, \h03,
            \hA5, \h31, \h6C, \h02, \h03, 0, 0, 0, 0,
            \h24, \h31, \h08, \h68, \h85, \h32, 0>>,
          (848 :> 238) @@ (1089 :> 102) @@ (16 :> 103) @@ (239 :> 240) @@ (232 :> 153)
          @@ (48 :> 238) @@ (49 :> 136) @@ (50 :> StatusByte(FALSE, FALSE, FALSE, TRUE)))

\* From SP 1 on, two pushes and a call that pushes P, all pulled again.
StackWrap ==
  Program(<<\h58, \hA2, 1, \h9A, \hA9, \h11, \h48, \hA9, \h22, \h48, \h20, \h1B, \hE0,
            \hBA, \h86, \h20, \h68, \h85, \h21, \h68, \h85, \h22, \hBA, \h86, \h23, 0, 0,
            \h08, \h28, \h60>>,
          Code(32, <<255, 34, 17, 1>>))

\* Waits for line 128 or later, then for a line 0, which in the low byte is also
\* line 256.  The handler returns at once.
RasterWait ==
  [rom |-> Code(65280, <<\h40>>)
           @@ Rom(<<\h58, \hAD, \h12, \hD0, \h10, \hFB, \hAD, \h12, \hD0, \hD0, \hFB, \hA9, 5, \h85, \h20, 0>>),
   result |-> Code(32, <<5>>)]

\* Runs into the keyboard's register, which is the operand of the BNE before it
\* and an illegal opcode, whatever is stored there.
RegisterRun ==
  Program(<<\h58, \hA9, \hD0, \h8D, \h00, \hDC, \h8D, \h01, \hDC, \h4C, \h00, \hDC>>,
          (56320 :> 208) @@ (56321 :> 208))

Once(op) == Program(<<\hA2, \hF5, \hA9, \h81, op, \h12, \h03, 0, 0>>, <<>>)

MCImages ==
  [n \in 1..NumImages |->
     CASE n <= 256 -> Once(n - 1)
       [] n = 257 -> Sum16(255, 1)          [] n = 258 -> Sum16(32767, 1)
       [] n = 259 -> Difference16(256, 257) [] n = 260 -> Difference16(32768, 257)
       [] n = 261 -> Product(181, 255)      [] n = 262 -> Addressing
       [] n = 263 -> StackWrap              [] n = 264 -> RasterWait
       [] n = 265 -> RegisterRun]
=============================================================================
