---------------------------- MODULE GuestReports_proofs ----------------------------
(***************************************************************************)
(* Theorems about Guest: which opcodes exist and where each instruction    *)
(* ends, what is reported of a halt, the verdicts of the self-tests, and   *)
(* that guests, calls and interrupted programs get back what was theirs.   *)
(***************************************************************************)
EXTENDS Guest_proofs

----------------------------------------------------------------------------
(* The table of opcodes *)

Branches == {"BNE", "BEQ", "BPL", "BMI", "BVC", "BVS", "BCC", "BCS"}
Jumps    == {"JMP", "JSR", "RTS", "RTI"}
Shifts   == {"ASL", "LSR", "ROL", "ROR"}
Accesses == {"LDA", "LDX", "LDY", "STA", "STX", "STY", "CMP", "CPX", "CPY", "AND", "ORA",
             "EOR", "ADC", "SBC", "BIT", "INC", "DEC"}

MemoryModes == {"imm", "zp", "zpx", "zpy", "abs", "absx", "absy", "indx", "indy"}

\* The modes an instruction may have.
ModesOf(n) ==
  CASE n \in Accesses -> MemoryModes
    [] n \in Shifts   -> {"acc"} \cup MemoryModes
    [] n \in Branches -> {"rel"}
    [] n = "JMP"      -> {"abs", "ind"}
    [] n = "JSR"      -> {"abs"}
    [] OTHER          -> {"imp"}

\* Bytes of an instruction of the mode.
LengthOf(m) == IF m \in {"imp", "acc"} THEN 1
               ELSE IF m \in {"abs", "absx", "absy", "ind"} THEN 3 ELSE 2

\* The opcodes of the self-tests.
SelfTestCase(op) ==
  CASE op = 162 -> <<"LDX", "imm">> [] op = 232 -> <<"INX", "imp">>
    [] op = 224 -> <<"CPX", "imm">> [] op = 208 -> <<"BNE", "rel">>
    [] op = 0   -> <<"BRK", "imp">> [] op = 169 -> <<"LDA", "imm">>
    [] op = 32  -> <<"JSR", "abs">> [] op = 133 -> <<"STA", "zp">>
    [] op = 96  -> <<"RTS", "imp">>

\* What the case label op of the instruction n in mode m has to do with the encoding.
Fits(op, n, m) ==
  /\ op \in Byte /\ Exists(op) /\ (op = 0 <=> n = "BRK")
  /\ m \in ModesOf(n) /\ Length(op) = LengthOf(m)
  /\ (IsBranch(op) <=> n \in Branches) /\ (n \in Jumps => IsJump(op))
  /\ op \in {162, 232, 224, 208, 0, 169, 32, 133, 96} => <<n, m>> = SelfTestCase(op)

\* The instructions of the table.
LEMMA Instructions ==
  DOMAIN Opcodes = {
    "LDA", "LDX", "LDY", "STA", "STX", "STY", "CMP", "CPX", "CPY", "AND", "ORA", "EOR",
    "ADC", "SBC", "BIT", "INC", "DEC", "ASL", "LSR", "ROL", "ROR", "TAX", "TXA", "TAY",
    "TYA", "TXS", "TSX", "PHA", "PLA", "PHP", "PLP", "SEI", "CLI", "SED", "CLD", "SEC",
    "CLC", "CLV", "INX", "INY", "DEX", "DEY", "BNE", "BEQ", "BPL", "BMI", "BVC", "BVS",
    "BCC", "BCS", "JMP", "JSR", "RTS", "RTI", "NOP", "BRK"}
  BY DEF Opcodes

\* Every case label of the switch is where the encoding says, with a mode and a
\* length that fit.
LEMMA TableFits ==
  ASSUME NEW n \in DOMAIN Opcodes, NEW m \in DOMAIN Opcodes[n]
  PROVE  Fits(Opcodes[n][m], n, m)
<1> USE DEF Fits, ModesOf, LengthOf, Exists, Length, Column, IsBranch, IsJump, Branches, Jumps,
            Shifts, Accesses, MemoryModes, SelfTestCase, Byte
<1>LDA. CASE n = "LDA"
  BY <1>LDA DEF Opcodes
<1>LDX. CASE n = "LDX"
  BY <1>LDX DEF Opcodes
<1>LDY. CASE n = "LDY"
  BY <1>LDY DEF Opcodes
<1>STA. CASE n = "STA"
  BY <1>STA DEF Opcodes
<1>STX. CASE n = "STX"
  BY <1>STX DEF Opcodes
<1>STY. CASE n = "STY"
  BY <1>STY DEF Opcodes
<1>CMP. CASE n = "CMP"
  BY <1>CMP DEF Opcodes
<1>CPX. CASE n = "CPX"
  BY <1>CPX DEF Opcodes
<1>CPY. CASE n = "CPY"
  BY <1>CPY DEF Opcodes
<1>AND. CASE n = "AND"
  BY <1>AND DEF Opcodes
<1>ORA. CASE n = "ORA"
  BY <1>ORA DEF Opcodes
<1>EOR. CASE n = "EOR"
  BY <1>EOR DEF Opcodes
<1>ADC. CASE n = "ADC"
  BY <1>ADC DEF Opcodes
<1>SBC. CASE n = "SBC"
  BY <1>SBC DEF Opcodes
<1>BIT. CASE n = "BIT"
  BY <1>BIT DEF Opcodes
<1>INC. CASE n = "INC"
  BY <1>INC DEF Opcodes
<1>DEC. CASE n = "DEC"
  BY <1>DEC DEF Opcodes
<1>ASL. CASE n = "ASL"
  BY <1>ASL DEF Opcodes
<1>LSR. CASE n = "LSR"
  BY <1>LSR DEF Opcodes
<1>ROL. CASE n = "ROL"
  BY <1>ROL DEF Opcodes
<1>ROR. CASE n = "ROR"
  BY <1>ROR DEF Opcodes
<1>TAX. CASE n = "TAX"
  BY <1>TAX DEF Opcodes
<1>TXA. CASE n = "TXA"
  BY <1>TXA DEF Opcodes
<1>TAY. CASE n = "TAY"
  BY <1>TAY DEF Opcodes
<1>TYA. CASE n = "TYA"
  BY <1>TYA DEF Opcodes
<1>TXS. CASE n = "TXS"
  BY <1>TXS DEF Opcodes
<1>TSX. CASE n = "TSX"
  BY <1>TSX DEF Opcodes
<1>PHA. CASE n = "PHA"
  BY <1>PHA DEF Opcodes
<1>PLA. CASE n = "PLA"
  BY <1>PLA DEF Opcodes
<1>PHP. CASE n = "PHP"
  BY <1>PHP DEF Opcodes
<1>PLP. CASE n = "PLP"
  BY <1>PLP DEF Opcodes
<1>SEI. CASE n = "SEI"
  BY <1>SEI DEF Opcodes
<1>CLI. CASE n = "CLI"
  BY <1>CLI DEF Opcodes
<1>SED. CASE n = "SED"
  BY <1>SED DEF Opcodes
<1>CLD. CASE n = "CLD"
  BY <1>CLD DEF Opcodes
<1>SEC. CASE n = "SEC"
  BY <1>SEC DEF Opcodes
<1>CLC. CASE n = "CLC"
  BY <1>CLC DEF Opcodes
<1>CLV. CASE n = "CLV"
  BY <1>CLV DEF Opcodes
<1>INX. CASE n = "INX"
  BY <1>INX DEF Opcodes
<1>INY. CASE n = "INY"
  BY <1>INY DEF Opcodes
<1>DEX. CASE n = "DEX"
  BY <1>DEX DEF Opcodes
<1>DEY. CASE n = "DEY"
  BY <1>DEY DEF Opcodes
<1>BNE. CASE n = "BNE"
  BY <1>BNE DEF Opcodes
<1>BEQ. CASE n = "BEQ"
  BY <1>BEQ DEF Opcodes
<1>BPL. CASE n = "BPL"
  BY <1>BPL DEF Opcodes
<1>BMI. CASE n = "BMI"
  BY <1>BMI DEF Opcodes
<1>BVC. CASE n = "BVC"
  BY <1>BVC DEF Opcodes
<1>BVS. CASE n = "BVS"
  BY <1>BVS DEF Opcodes
<1>BCC. CASE n = "BCC"
  BY <1>BCC DEF Opcodes
<1>BCS. CASE n = "BCS"
  BY <1>BCS DEF Opcodes
<1>JMP. CASE n = "JMP"
  BY <1>JMP DEF Opcodes
<1>JSR. CASE n = "JSR"
  BY <1>JSR DEF Opcodes
<1>RTS. CASE n = "RTS"
  BY <1>RTS DEF Opcodes
<1>RTI. CASE n = "RTI"
  BY <1>RTI DEF Opcodes
<1>NOP. CASE n = "NOP"
  BY <1>NOP DEF Opcodes
<1>BRK. CASE n = "BRK"
  BY <1>BRK DEF Opcodes
<1> HIDE DEF Fits
<1> QED
  BY <1>LDA, <1>LDX, <1>LDY, <1>STA, <1>STX, <1>STY, <1>CMP, <1>CPX, <1>CPY, <1>AND,
     <1>ORA, <1>EOR, <1>ADC, <1>SBC, <1>BIT, <1>INC, <1>DEC, <1>ASL, <1>LSR, <1>ROL,
     <1>ROR, <1>TAX, <1>TXA, <1>TAY, <1>TYA, <1>TXS, <1>TSX, <1>PHA, <1>PLA, <1>PHP,
     <1>PLP, <1>SEI, <1>CLI, <1>SED, <1>CLD, <1>SEC, <1>CLC, <1>CLV, <1>INX, <1>INY,
     <1>DEX, <1>DEY, <1>BNE, <1>BEQ, <1>BPL, <1>BMI, <1>BVC, <1>BVS, <1>BCC, <1>BCS,
     <1>JMP, <1>JSR, <1>RTS, <1>RTI, <1>NOP, <1>BRK, Instructions

\* Has a case label.
HasCase(op) == \E n \in DOMAIN Opcodes : \E m \in DOMAIN Opcodes[n] : Opcodes[n][m] = op

\* Every opcode of the encoding has a case label.
LEMMA ExistingHasCase ==
  ASSUME NEW op \in Byte, Exists(op)
  PROVE  HasCase(op)
<1>LDA. CASE op \in {\hA9, \hA5, \hB5, \hAD, \hBD, \hB9, \hA1, \hB1}
  <2>1. \E m \in DOMAIN Opcodes["LDA"] : Opcodes["LDA"][m] = op
    BY <1>LDA DEF Opcodes
  <2> QED
    BY <2>1, Instructions DEF HasCase
<1>LDX. CASE op \in {\hA2, \hA6, \hB6, \hAE, \hBE}
  <2>1. \E m \in DOMAIN Opcodes["LDX"] : Opcodes["LDX"][m] = op
    BY <1>LDX DEF Opcodes
  <2> QED
    BY <2>1, Instructions DEF HasCase
<1>LDY. CASE op \in {\hA0, \hA4, \hB4, \hAC, \hBC}
  <2>1. \E m \in DOMAIN Opcodes["LDY"] : Opcodes["LDY"][m] = op
    BY <1>LDY DEF Opcodes
  <2> QED
    BY <2>1, Instructions DEF HasCase
<1>STA. CASE op \in {\h85, \h95, \h8D, \h9D, \h99, \h81, \h91}
  <2>1. \E m \in DOMAIN Opcodes["STA"] : Opcodes["STA"][m] = op
    BY <1>STA DEF Opcodes
  <2> QED
    BY <2>1, Instructions DEF HasCase
<1>STX. CASE op \in {\h86, \h96, \h8E}
  <2>1. \E m \in DOMAIN Opcodes["STX"] : Opcodes["STX"][m] = op
    BY <1>STX DEF Opcodes
  <2> QED
    BY <2>1, Instructions DEF HasCase
<1>STY. CASE op \in {\h84, \h94, \h8C}
  <2>1. \E m \in DOMAIN Opcodes["STY"] : Opcodes["STY"][m] = op
    BY <1>STY DEF Opcodes
  <2> QED
    BY <2>1, Instructions DEF HasCase
<1>CMP. CASE op \in {\hC9, \hC5, \hD5, \hCD, \hDD, \hD9, \hC1, \hD1}
  <2>1. \E m \in DOMAIN Opcodes["CMP"] : Opcodes["CMP"][m] = op
    BY <1>CMP DEF Opcodes
  <2> QED
    BY <2>1, Instructions DEF HasCase
<1>CPX. CASE op \in {\hE0, \hE4, \hEC}
  <2>1. \E m \in DOMAIN Opcodes["CPX"] : Opcodes["CPX"][m] = op
    BY <1>CPX DEF Opcodes
  <2> QED
    BY <2>1, Instructions DEF HasCase
<1>CPY. CASE op \in {\hC0, \hC4, \hCC}
  <2>1. \E m \in DOMAIN Opcodes["CPY"] : Opcodes["CPY"][m] = op
    BY <1>CPY DEF Opcodes
  <2> QED
    BY <2>1, Instructions DEF HasCase
<1>AND. CASE op \in {\h29, \h25, \h35, \h2D, \h3D, \h39, \h21, \h31}
  <2>1. \E m \in DOMAIN Opcodes["AND"] : Opcodes["AND"][m] = op
    BY <1>AND DEF Opcodes
  <2> QED
    BY <2>1, Instructions DEF HasCase
<1>ORA. CASE op \in {\h09, \h05, \h15, \h0D, \h1D, \h19, \h01, \h11}
  <2>1. \E m \in DOMAIN Opcodes["ORA"] : Opcodes["ORA"][m] = op
    BY <1>ORA DEF Opcodes
  <2> QED
    BY <2>1, Instructions DEF HasCase
<1>EOR. CASE op \in {\h49, \h45, \h55, \h4D, \h5D, \h59, \h41, \h51}
  <2>1. \E m \in DOMAIN Opcodes["EOR"] : Opcodes["EOR"][m] = op
    BY <1>EOR DEF Opcodes
  <2> QED
    BY <2>1, Instructions DEF HasCase
<1>ADC. CASE op \in {\h69, \h65, \h75, \h6D, \h7D, \h79, \h61, \h71}
  <2>1. \E m \in DOMAIN Opcodes["ADC"] : Opcodes["ADC"][m] = op
    BY <1>ADC DEF Opcodes
  <2> QED
    BY <2>1, Instructions DEF HasCase
<1>SBC. CASE op \in {\hE9, \hE5, \hF5, \hED, \hFD, \hF9, \hE1, \hF1}
  <2>1. \E m \in DOMAIN Opcodes["SBC"] : Opcodes["SBC"][m] = op
    BY <1>SBC DEF Opcodes
  <2> QED
    BY <2>1, Instructions DEF HasCase
<1>BIT. CASE op \in {\h24, \h2C}
  <2>1. \E m \in DOMAIN Opcodes["BIT"] : Opcodes["BIT"][m] = op
    BY <1>BIT DEF Opcodes
  <2> QED
    BY <2>1, Instructions DEF HasCase
<1>INC. CASE op \in {\hE6, \hF6, \hEE, \hFE}
  <2>1. \E m \in DOMAIN Opcodes["INC"] : Opcodes["INC"][m] = op
    BY <1>INC DEF Opcodes
  <2> QED
    BY <2>1, Instructions DEF HasCase
<1>DEC. CASE op \in {\hC6, \hD6, \hCE, \hDE}
  <2>1. \E m \in DOMAIN Opcodes["DEC"] : Opcodes["DEC"][m] = op
    BY <1>DEC DEF Opcodes
  <2> QED
    BY <2>1, Instructions DEF HasCase
<1>ASL. CASE op \in {\h0A, \h06, \h16, \h0E, \h1E}
  <2>1. \E m \in DOMAIN Opcodes["ASL"] : Opcodes["ASL"][m] = op
    BY <1>ASL DEF Opcodes
  <2> QED
    BY <2>1, Instructions DEF HasCase
<1>LSR. CASE op \in {\h4A, \h46, \h56, \h4E, \h5E}
  <2>1. \E m \in DOMAIN Opcodes["LSR"] : Opcodes["LSR"][m] = op
    BY <1>LSR DEF Opcodes
  <2> QED
    BY <2>1, Instructions DEF HasCase
<1>ROL. CASE op \in {\h2A, \h26, \h36, \h2E, \h3E}
  <2>1. \E m \in DOMAIN Opcodes["ROL"] : Opcodes["ROL"][m] = op
    BY <1>ROL DEF Opcodes
  <2> QED
    BY <2>1, Instructions DEF HasCase
<1>ROR. CASE op \in {\h6A, \h66, \h76, \h6E, \h7E}
  <2>1. \E m \in DOMAIN Opcodes["ROR"] : Opcodes["ROR"][m] = op
    BY <1>ROR DEF Opcodes
  <2> QED
    BY <2>1, Instructions DEF HasCase
<1>TAX. CASE op \in {\hAA}
  <2>1. \E m \in DOMAIN Opcodes["TAX"] : Opcodes["TAX"][m] = op
    BY <1>TAX DEF Opcodes
  <2> QED
    BY <2>1, Instructions DEF HasCase
<1>TXA. CASE op \in {\h8A}
  <2>1. \E m \in DOMAIN Opcodes["TXA"] : Opcodes["TXA"][m] = op
    BY <1>TXA DEF Opcodes
  <2> QED
    BY <2>1, Instructions DEF HasCase
<1>TAY. CASE op \in {\hA8}
  <2>1. \E m \in DOMAIN Opcodes["TAY"] : Opcodes["TAY"][m] = op
    BY <1>TAY DEF Opcodes
  <2> QED
    BY <2>1, Instructions DEF HasCase
<1>TYA. CASE op \in {\h98}
  <2>1. \E m \in DOMAIN Opcodes["TYA"] : Opcodes["TYA"][m] = op
    BY <1>TYA DEF Opcodes
  <2> QED
    BY <2>1, Instructions DEF HasCase
<1>TXS. CASE op \in {\h9A}
  <2>1. \E m \in DOMAIN Opcodes["TXS"] : Opcodes["TXS"][m] = op
    BY <1>TXS DEF Opcodes
  <2> QED
    BY <2>1, Instructions DEF HasCase
<1>TSX. CASE op \in {\hBA}
  <2>1. \E m \in DOMAIN Opcodes["TSX"] : Opcodes["TSX"][m] = op
    BY <1>TSX DEF Opcodes
  <2> QED
    BY <2>1, Instructions DEF HasCase
<1>PHA. CASE op \in {\h48}
  <2>1. \E m \in DOMAIN Opcodes["PHA"] : Opcodes["PHA"][m] = op
    BY <1>PHA DEF Opcodes
  <2> QED
    BY <2>1, Instructions DEF HasCase
<1>PLA. CASE op \in {\h68}
  <2>1. \E m \in DOMAIN Opcodes["PLA"] : Opcodes["PLA"][m] = op
    BY <1>PLA DEF Opcodes
  <2> QED
    BY <2>1, Instructions DEF HasCase
<1>PHP. CASE op \in {\h08}
  <2>1. \E m \in DOMAIN Opcodes["PHP"] : Opcodes["PHP"][m] = op
    BY <1>PHP DEF Opcodes
  <2> QED
    BY <2>1, Instructions DEF HasCase
<1>PLP. CASE op \in {\h28}
  <2>1. \E m \in DOMAIN Opcodes["PLP"] : Opcodes["PLP"][m] = op
    BY <1>PLP DEF Opcodes
  <2> QED
    BY <2>1, Instructions DEF HasCase
<1>SEI. CASE op \in {\h78}
  <2>1. \E m \in DOMAIN Opcodes["SEI"] : Opcodes["SEI"][m] = op
    BY <1>SEI DEF Opcodes
  <2> QED
    BY <2>1, Instructions DEF HasCase
<1>CLI. CASE op \in {\h58}
  <2>1. \E m \in DOMAIN Opcodes["CLI"] : Opcodes["CLI"][m] = op
    BY <1>CLI DEF Opcodes
  <2> QED
    BY <2>1, Instructions DEF HasCase
<1>SED. CASE op \in {\hF8}
  <2>1. \E m \in DOMAIN Opcodes["SED"] : Opcodes["SED"][m] = op
    BY <1>SED DEF Opcodes
  <2> QED
    BY <2>1, Instructions DEF HasCase
<1>CLD. CASE op \in {\hD8}
  <2>1. \E m \in DOMAIN Opcodes["CLD"] : Opcodes["CLD"][m] = op
    BY <1>CLD DEF Opcodes
  <2> QED
    BY <2>1, Instructions DEF HasCase
<1>SEC. CASE op \in {\h38}
  <2>1. \E m \in DOMAIN Opcodes["SEC"] : Opcodes["SEC"][m] = op
    BY <1>SEC DEF Opcodes
  <2> QED
    BY <2>1, Instructions DEF HasCase
<1>CLC. CASE op \in {\h18}
  <2>1. \E m \in DOMAIN Opcodes["CLC"] : Opcodes["CLC"][m] = op
    BY <1>CLC DEF Opcodes
  <2> QED
    BY <2>1, Instructions DEF HasCase
<1>CLV. CASE op \in {\hB8}
  <2>1. \E m \in DOMAIN Opcodes["CLV"] : Opcodes["CLV"][m] = op
    BY <1>CLV DEF Opcodes
  <2> QED
    BY <2>1, Instructions DEF HasCase
<1>INX. CASE op \in {\hE8}
  <2>1. \E m \in DOMAIN Opcodes["INX"] : Opcodes["INX"][m] = op
    BY <1>INX DEF Opcodes
  <2> QED
    BY <2>1, Instructions DEF HasCase
<1>INY. CASE op \in {\hC8}
  <2>1. \E m \in DOMAIN Opcodes["INY"] : Opcodes["INY"][m] = op
    BY <1>INY DEF Opcodes
  <2> QED
    BY <2>1, Instructions DEF HasCase
<1>DEX. CASE op \in {\hCA}
  <2>1. \E m \in DOMAIN Opcodes["DEX"] : Opcodes["DEX"][m] = op
    BY <1>DEX DEF Opcodes
  <2> QED
    BY <2>1, Instructions DEF HasCase
<1>DEY. CASE op \in {\h88}
  <2>1. \E m \in DOMAIN Opcodes["DEY"] : Opcodes["DEY"][m] = op
    BY <1>DEY DEF Opcodes
  <2> QED
    BY <2>1, Instructions DEF HasCase
<1>BNE. CASE op \in {\hD0}
  <2>1. \E m \in DOMAIN Opcodes["BNE"] : Opcodes["BNE"][m] = op
    BY <1>BNE DEF Opcodes
  <2> QED
    BY <2>1, Instructions DEF HasCase
<1>BEQ. CASE op \in {\hF0}
  <2>1. \E m \in DOMAIN Opcodes["BEQ"] : Opcodes["BEQ"][m] = op
    BY <1>BEQ DEF Opcodes
  <2> QED
    BY <2>1, Instructions DEF HasCase
<1>BPL. CASE op \in {\h10}
  <2>1. \E m \in DOMAIN Opcodes["BPL"] : Opcodes["BPL"][m] = op
    BY <1>BPL DEF Opcodes
  <2> QED
    BY <2>1, Instructions DEF HasCase
<1>BMI. CASE op \in {\h30}
  <2>1. \E m \in DOMAIN Opcodes["BMI"] : Opcodes["BMI"][m] = op
    BY <1>BMI DEF Opcodes
  <2> QED
    BY <2>1, Instructions DEF HasCase
<1>BVC. CASE op \in {\h50}
  <2>1. \E m \in DOMAIN Opcodes["BVC"] : Opcodes["BVC"][m] = op
    BY <1>BVC DEF Opcodes
  <2> QED
    BY <2>1, Instructions DEF HasCase
<1>BVS. CASE op \in {\h70}
  <2>1. \E m \in DOMAIN Opcodes["BVS"] : Opcodes["BVS"][m] = op
    BY <1>BVS DEF Opcodes
  <2> QED
    BY <2>1, Instructions DEF HasCase
<1>BCC. CASE op \in {\h90}
  <2>1. \E m \in DOMAIN Opcodes["BCC"] : Opcodes["BCC"][m] = op
    BY <1>BCC DEF Opcodes
  <2> QED
    BY <2>1, Instructions DEF HasCase
<1>BCS. CASE op \in {\hB0}
  <2>1. \E m \in DOMAIN Opcodes["BCS"] : Opcodes["BCS"][m] = op
    BY <1>BCS DEF Opcodes
  <2> QED
    BY <2>1, Instructions DEF HasCase
<1>JMP. CASE op \in {\h4C, \h6C}
  <2>1. \E m \in DOMAIN Opcodes["JMP"] : Opcodes["JMP"][m] = op
    BY <1>JMP DEF Opcodes
  <2> QED
    BY <2>1, Instructions DEF HasCase
<1>JSR. CASE op \in {\h20}
  <2>1. \E m \in DOMAIN Opcodes["JSR"] : Opcodes["JSR"][m] = op
    BY <1>JSR DEF Opcodes
  <2> QED
    BY <2>1, Instructions DEF HasCase
<1>RTS. CASE op \in {\h60}
  <2>1. \E m \in DOMAIN Opcodes["RTS"] : Opcodes["RTS"][m] = op
    BY <1>RTS DEF Opcodes
  <2> QED
    BY <2>1, Instructions DEF HasCase
<1>RTI. CASE op \in {\h40}
  <2>1. \E m \in DOMAIN Opcodes["RTI"] : Opcodes["RTI"][m] = op
    BY <1>RTI DEF Opcodes
  <2> QED
    BY <2>1, Instructions DEF HasCase
<1>NOP. CASE op \in {\hEA}
  <2>1. \E m \in DOMAIN Opcodes["NOP"] : Opcodes["NOP"][m] = op
    BY <1>NOP DEF Opcodes
  <2> QED
    BY <2>1, Instructions DEF HasCase
<1>BRK. CASE op \in {\h00}
  <2>1. \E m \in DOMAIN Opcodes["BRK"] : Opcodes["BRK"][m] = op
    BY <1>BRK DEF Opcodes
  <2> QED
    BY <2>1, Instructions DEF HasCase
<1>mod0. CASE op % 4 = 0
  <2>1. op \in {\h00, \h08, \h10, \h18, \h20, \h24, \h28, \h2C, \h30, \h38, \h40, \h48,
             \h4C, \h50, \h58, \h60, \h68, \h6C, \h70, \h78, \h84, \h88, \h8C, \h90,
             \h94, \h98, \hA0, \hA4, \hA8, \hAC, \hB0, \hB4, \hB8, \hBC, \hC0, \hC4,
             \hC8, \hCC, \hD0, \hD8, \hE0, \hE4, \hE8, \hEC, \hF0, \hF8}
    BY <1>mod0 DEF Exists, Column, Byte
  <2> QED
    BY <2>1, <1>LDY, <1>STY, <1>CPX, <1>CPY, <1>BIT, <1>TAY, <1>TYA, <1>PHA, <1>PLA,
       <1>PHP, <1>PLP, <1>SEI, <1>CLI, <1>SED, <1>CLD, <1>SEC, <1>CLC, <1>CLV, <1>INX,
       <1>INY, <1>DEY, <1>BNE, <1>BEQ, <1>BPL, <1>BMI, <1>BVC, <1>BVS, <1>BCC, <1>BCS,
       <1>JMP, <1>JSR, <1>RTS, <1>RTI, <1>BRK
<1>mod1. CASE op % 4 = 1
  <2>1. op \in {\h01, \h05, \h09, \h0D, \h11, \h15, \h19, \h1D, \h21, \h25, \h29, \h2D,
             \h31, \h35, \h39, \h3D, \h41, \h45, \h49, \h4D, \h51, \h55, \h59, \h5D,
             \h61, \h65, \h69, \h6D, \h71, \h75, \h79, \h7D, \h81, \h85, \h8D, \h91,
             \h95, \h99, \h9D, \hA1, \hA5, \hA9, \hAD, \hB1, \hB5, \hB9, \hBD, \hC1,
             \hC5, \hC9, \hCD, \hD1, \hD5, \hD9, \hDD, \hE1, \hE5, \hE9, \hED, \hF1,
             \hF5, \hF9, \hFD}
    BY <1>mod1 DEF Exists, Column, Byte
  <2> QED
    BY <2>1, <1>LDA, <1>STA, <1>CMP, <1>AND, <1>ORA, <1>EOR, <1>ADC, <1>SBC
<1>mod2. CASE op % 4 = 2
  <2>1. op \in {\h06, \h0A, \h0E, \h16, \h1E, \h26, \h2A, \h2E, \h36, \h3E, \h46, \h4A,
             \h4E, \h56, \h5E, \h66, \h6A, \h6E, \h76, \h7E, \h86, \h8A, \h8E, \h96,
             \h9A, \hA2, \hA6, \hAA, \hAE, \hB6, \hBA, \hBE, \hC6, \hCA, \hCE, \hD6,
             \hDE, \hE6, \hEA, \hEE, \hF6, \hFE}
    BY <1>mod2 DEF Exists, Column, Byte
  <2> QED
    BY <2>1, <1>LDX, <1>STX, <1>INC, <1>DEC, <1>ASL, <1>LSR, <1>ROL, <1>ROR, <1>TAX,
       <1>TXA, <1>TXS, <1>TSX, <1>DEX, <1>NOP
<1> QED
  BY <1>mod0, <1>mod1, <1>mod2 DEF Exists, Byte

\* The modes of an instruction are modes.
LEMMA ModesAreModes ==
  ASSUME NEW n
  PROVE  ModesOf(n) \subseteq {"imm", "zp", "zpx", "zpy", "abs", "absx", "absy", "indx",
                               "indy", "acc", "imp", "rel", "ind"}
  BY DEF ModesOf, MemoryModes

\* Decode finds a case label if there is one.
LEMMA DecodeFinds ==
  ASSUME NEW op \in Byte
  PROVE  /\ HasCase(op) => /\ Decode[op] = <<Decode[op][1], Decode[op][2]>>
                           /\ Decode[op][1] \in DOMAIN Opcodes
                           /\ Decode[op][2] \in DOMAIN Opcodes[Decode[op][1]]
                           /\ Opcodes[Decode[op][1]][Decode[op][2]] = op
         /\ ~HasCase(op) => Decode[op] = <<"illegal", "imp">>
<1> DEFINE Modes == {"imm", "zp", "zpx", "zpy", "abs", "absx", "absy", "indx", "indy",
                     "acc", "imp", "rel", "ind"}
<1>1. Cases(op) = {c \in {<<n, m>> : n \in DOMAIN Opcodes, m \in Modes} :
                     c[2] \in DOMAIN Opcodes[c[1]] /\ Opcodes[c[1]][c[2]] = op}
  BY DEF Cases
<1>2. \A n \in DOMAIN Opcodes : DOMAIN Opcodes[n] \subseteq Modes
  BY TableFits, ModesAreModes DEF Fits
<1>3. Decode[op] = IF Cases(op) = {} THEN <<"illegal", "imp">> ELSE CHOOSE c \in Cases(op) : TRUE
  BY DEF Decode
<1> HIDE DEF Modes
<1>4. ASSUME HasCase(op) PROVE Cases(op) # {}
  <2>0. PICK n \in DOMAIN Opcodes : \E m \in DOMAIN Opcodes[n] : Opcodes[n][m] = op
    BY <1>4 DEF HasCase
  <2>1. PICK m \in DOMAIN Opcodes[n] : Opcodes[n][m] = op
    BY <2>0
  <2>2. <<n, m>> \in {<<a, b>> : a \in DOMAIN Opcodes, b \in Modes}
    BY <1>2, <2>1
  <2>3. <<n, m>> \in Cases(op)
    BY <1>1, <2>1, <2>2
  <2> QED
    BY <2>3
<1>5. ASSUME NEW c \in Cases(op)
      PROVE  /\ c = <<c[1], c[2]>> /\ c[1] \in DOMAIN Opcodes
             /\ c[2] \in DOMAIN Opcodes[c[1]] /\ Opcodes[c[1]][c[2]] = op
  BY <1>1
<1>6. CASE HasCase(op)
  BY <1>3, <1>4, <1>5, <1>6
<1>7. CASE ~HasCase(op)
  BY <1>3, <1>5, <1>7 DEF HasCase
<1> QED
  BY <1>6, <1>7

\* Decode follows the encoding.
LEMMA DecodeFits ==
  ASSUME NEW op \in Byte
  PROVE  /\ Exists(op) => Fits(op, Decode[op][1], Decode[op][2])
         /\ ~Exists(op) => Decode[op] = <<"illegal", "imp">>
         /\ Exists(op) => Decode[op][1] \in DOMAIN Opcodes
         /\ (op = 0 \/ ~Exists(op)) <=> Decode[op][1] \in {"BRK", "illegal"}
<1>1. ASSUME Exists(op)
      PROVE  Fits(op, Decode[op][1], Decode[op][2]) /\ Decode[op][1] \in DOMAIN Opcodes
  BY <1>1, ExistingHasCase, DecodeFinds, TableFits
<1>2. ASSUME ~Exists(op) PROVE ~HasCase(op)
  BY <1>2, TableFits DEF HasCase, Fits
<1>3. ~Exists(op) => Decode[op] = <<"illegal", "imp">>
  BY <1>2, DecodeFinds
<1>4. "illegal" \notin DOMAIN Opcodes
  BY Instructions
<1>5. Exists(op) => (op = 0 <=> Decode[op][1] = "BRK")
  BY <1>1 DEF Fits
<1> QED
  BY <1>1, <1>3, <1>4, <1>5

----------------------------------------------------------------------------
(* Where an instruction ends *)

Past(i, n) == (i.pc + n) % 65536

\* A PC that is incremented twice.
LEMMA PastTwice ==
  ASSUME NEW a \in Word
  PROVE  (((a + 1) % 65536) + 1) % 65536 = (a + 2) % 65536
  BY DEF Word

\* A fetch moves the PC by one,
LEMMA Fetch8Pc ==
  ASSUME CpuTypes, NEW n, NEW m, NEW i \in Insn(n, m)
  PROVE  fetch8(i).pc = Past(i, 1)
<1> DEFINE j == cpu6502_read(i, i.pc)
<1>1. j \in Insn(n, m) /\ j.pc = i.pc
  BY ReadOK
<1>2. fetch8(i) = [j EXCEPT !.pc = (@ + 1) % 65536]
  BY DEF fetch8
<1> HIDE DEF j
<1> QED
  BY <1>1, <1>2 DEF Insn, Past

\* the second of two bytes by its own,
LEMMA PairPc ==
  ASSUME NEW n, NEW m, NEW lo \in Insn(n, m), NEW hi \in Insn(n, m)
  PROVE  Pair(lo, hi).pc = hi.pc
  BY DEF Pair, Insn

\* and an address by two.
LEMMA Fetch16Pc ==
  ASSUME CpuTypes, NEW n, NEW m, NEW i \in Insn(n, m)
  PROVE  fetch16(i).pc = Past(i, 2)
<1>1. fetch8(i) \in Insn(n, m) /\ fetch8(fetch8(i)) \in Insn(n, m)
  BY Fetch8OK
<1>2. fetch16(i).pc = fetch8(fetch8(i)).pc
  BY <1>1, PairPc DEF fetch16
<1>3. fetch8(fetch8(i)).pc = (fetch8(i).pc + 1) % 65536 /\ fetch8(i).pc = (i.pc + 1) % 65536
  BY <1>1, Fetch8Pc DEF Past
<1>4. i.pc \in Word
  BY DEF Insn
<1> QED
  BY <1>2, <1>3, <1>4, PastTwice DEF Past

\* An index moves no PC.
LEMMA PlusPc ==
  ASSUME NEW n, NEW m, NEW i \in Insn(n, m), NEW k, NEW size
  PROVE  Plus(i, k, size).pc = i.pc
  BY DEF Plus, Insn

\* Nor does a pointer.
LEMMA PointerPc ==
  ASSUME CpuTypes, NEW n, NEW m, NEW i \in Insn(n, m)
  PROVE  Pointer(i).pc = i.pc
  BY ReadOK, PairPc DEF Pointer

\* An address takes one byte, or two if it is absolute.
LEMMA AddressPc ==
  ASSUME CpuTypes, NEW n, NEW m, NEW i \in Insn(n, m), NEW mode \in MemoryModes
  PROVE  Address(mode, i).pc = Past(i, LengthOf(mode) - 1)
<1>1. cpu.x \in Byte /\ cpu.y \in Byte
  BY DEF CpuTypes, Struct
<1>2. fetch8(i) \in Insn(n, m) /\ fetch16(i) \in Insn(n, m)
  BY Fetch8OK, Fetch16OK
<1>3. fetch8(i).pc = Past(i, 1) /\ fetch16(i).pc = Past(i, 2)
  BY Fetch8Pc, Fetch16Pc
<1>4. addr_zp(i).pc = Past(i, 1) /\ addr_abs(i).pc = Past(i, 2)
  BY <1>3 DEF addr_zp, addr_abs
<1>5. addr_zpx(i).pc = Past(i, 1) /\ addr_zpy(i).pc = Past(i, 1)
  BY <1>2, <1>3, PlusPc DEF addr_zpx, addr_zpy
<1>6. addr_absx(i).pc = Past(i, 2) /\ addr_absy(i).pc = Past(i, 2)
  BY <1>2, <1>3, PlusPc DEF addr_absx, addr_absy
<1>7. addr_zpx(i) \in Insn(n, m)
  BY <1>1, <1>2, PlusOK DEF addr_zpx
<1>8. addr_indx(i).pc = Past(i, 1)
  BY <1>5, <1>7, PointerPc DEF addr_indx
<1>9. addr_indy(i).pc = Past(i, 1)
  BY <1>2, <1>3, PointerOK, PointerPc, PlusPc DEF addr_indy
<1>10. LengthOf(mode) - 1 = IF mode \in {"abs", "absx", "absy"} THEN 2 ELSE 1
  BY DEF LengthOf, MemoryModes
<1> QED
  BY <1>4, <1>5, <1>6, <1>8, <1>9, <1>10 DEF Address, MemoryModes

\* An operand moves the PC to its end.
LEMMA OperandPc ==
  ASSUME CpuTypes, NEW n, NEW m, NEW i \in Insn(n, m), NEW mode \in MemoryModes
  PROVE  Operand(mode, i).pc = Past(i, LengthOf(mode) - 1)
<1>1. CASE mode = "imm"
  BY <1>1, Fetch8Pc DEF Operand, LengthOf
<1>2. CASE mode # "imm"
  BY <1>2, AddressOK, AddressPc, ReadOK DEF Operand
<1> QED
  BY <1>1, <1>2
----------------------------------------------------------------------------
(* What an instruction does to PC and to halted *)

\* It goes on to the instruction after its operand.
GoesOn(i) == cpu'.halted = cpu.halted /\ cpu'.pc = Past(i, LengthOf(i.mode) - 1)

\* An instruction ends with the registers it computed.
LEMMA FinishEnds ==
  ASSUME NEW c \in Struct, NEW i, Finish(c, i)
  PROVE  cpu'.pc = i.pc /\ cpu'.halted = c.halted /\ cpu'.x = c.x /\ cpu'.a = c.a
         /\ cpu'.p = c.p /\ cpu'.sp = c.sp
  BY DEF Finish, Struct

\* A PC that is not moved.
LEMMA PastNone ==
  ASSUME NEW n, NEW m, NEW i \in Insn(n, m)
  PROVE  Past(i, 0) = i.pc
  BY DEF Past, Insn, Word

\* What is decoded of an instruction.
LEMMA InsnIs ==
  ASSUME NEW n, NEW m, NEW i \in Insn(n, m)
  PROVE  i.instr = n /\ i.mode = m /\ i.pc \in Word /\ i.v \in Word
  BY DEF Insn

\* A stack pointer that moves is a byte.
LEMMA SpWraps ==
  ASSUME CpuTypes, NEW k \in Int
  PROVE  SpPlus(k) \in Byte /\ [cpu EXCEPT !.sp = SpPlus(k)] \in Struct
<1>1. cpu.sp \in Int /\ cpu \in Struct
  BY CpuFacts
<1>2. cpu.sp + k \in Int
  BY <1>1
<1>3. SpPlus(k) \in Byte
  BY <1>2, WrapByte DEF SpPlus
<1> HIDE DEF SpPlus
<1> QED
  BY <1>1, <1>3 DEF Struct

\* The modes of each group of instructions.
LEMMA ModesOfIs ==
  ASSUME NEW n
  PROVE  /\ n \in Accesses => ModesOf(n) = MemoryModes
         /\ n \in Shifts => ModesOf(n) = {"acc"} \cup MemoryModes
         /\ n \in Branches => ModesOf(n) = {"rel"}
         /\ n \notin Accesses \cup Shifts \cup Branches \cup {"JMP", "JSR"} => ModesOf(n) = {"imp"}
  BY DEF ModesOf, Accesses, Shifts, Branches

\* An instruction that reads or writes through an operand, and computes.
LEMMA OperandGoesOn ==
  ASSUME CpuTypes, NEW n, NEW m \in MemoryModes, NEW i \in Insn(n, m),
         NEW o \in Insn(n, m), o.pc = Past(i, LengthOf(m) - 1),
         NEW c, Computes(cpu, c), Finish(c, o)
  PROVE  GoesOn(i)
  BY FinishEnds, InsnIs DEF Computes, GoesOn

\* An instruction of one byte.
LEMMA OneByteGoesOn ==
  ASSUME NEW n, NEW m \in {"imp", "acc"}, NEW i \in Insn(n, m),
         NEW c \in Struct, c.halted = cpu.halted, Finish(c, i)
  PROVE  GoesOn(i)
<1>1. LengthOf(m) - 1 = 0
  BY DEF LengthOf
<1> QED
  BY <1>1, FinishEnds, InsnIs, PastNone DEF GoesOn

\* Instructions that read an operand,
LEMMA ReadsGoOn ==
  ASSUME CpuInv, NEW n \in Accesses, NEW m \in ModesOf(n), NEW i \in Insn(n, m),
         Load(i) \/ Compare(i) \/ Logic(i) \/ BIT(i) \/ Arithmetic(i)
  PROVE  GoesOn(i)
<1> DEFINE o == Operand(m, i)
<1>1. m \in MemoryModes
  BY ModesOfIs
<1>2. i.instr = n /\ i.mode = m
  BY InsnIs
<1>3. o \in Insn(n, m) /\ o.v \in Byte /\ o.pc = Past(i, LengthOf(m) - 1)
  BY <1>1, OperandOK, OperandPc DEF CpuInv
<1>4. cpu \in Struct /\ cpu.a \in Byte /\ CpuTypes
  BY CpuFacts DEF CpuInv
<1>5. CASE Load(i)
  <2>1. Finish(Plain(cpu, Target(n), o.v), o)
    BY <1>2, <1>5 DEF Load
  <2> HIDE DEF o
  <2> QED
    BY <1>1, <1>3, <1>4, <2>1, PlainComputes, OperandGoesOn
<1>6. CASE Compare(i)
  <2>1. Finish(Compared(cpu, Reg(Target(n)), o.v), o)
    BY <1>2, <1>6 DEF Compare
  <2> HIDE DEF o
  <2> QED
    BY <1>1, <1>3, <1>4, <2>1, CompareComputes, OperandGoesOn
<1>7. CASE Logic(i)
  <2>1. Finish(Plain(cpu, "a", Logical(n, cpu.a, o.v)), o)
    BY <1>2, <1>7 DEF Logic
  <2> HIDE DEF o
  <2> QED
    BY <1>1, <1>3, <1>4, <2>1, LogicalByte, PlainComputes, OperandGoesOn
<1>8. CASE BIT(i)
  <2> DEFINE p == With(cpu.p, "Z", Bits(cpu.a) \cap Bits(o.v) = {})
             q == With(With(p, "V", "V" \in Bits(o.v)), "N", Negative(o.v))
             c == [cpu EXCEPT !.p = q]
  <2>1. Finish(c, o)
    BY <1>2, <1>8 DEF BIT
  <2>2. q \in SUBSET Flag
    BY <1>4 DEF With, Flag, Struct
  <2> HIDE DEF q
  <2>3. c \in Struct /\ c.halted = cpu.halted
    BY <1>4, <2>2 DEF Struct
  <2> HIDE DEF c, o
  <2> QED
    BY <1>2, <1>3, <2>1, <2>3, FinishEnds DEF GoesOn
<1>9. CASE Arithmetic(i)
  <2> DEFINE c == IF n = "ADC" THEN do_adc(cpu, o.v) ELSE do_sbc(cpu, o.v)
  <2>1. Finish(c, o)
    BY <1>2, <1>9 DEF Arithmetic
  <2> HIDE DEF o
  <2>2. Computes(cpu, c)
    BY <1>3, <1>4, SumComputes
  <2> HIDE DEF c
  <2> QED
    BY <1>1, <1>3, <1>4, <2>1, <2>2, OperandGoesOn
<1> QED
  BY <1>5, <1>6, <1>7, <1>8, <1>9

\* those that write one,
LEMMA WritesGoOn ==
  ASSUME CpuInv, NEW n, NEW m \in ModesOf(n), NEW i \in Insn(n, m),
         Store(i) \/ CountMemory(i) \/ ShiftMemory(i)
  PROVE  GoesOn(i)
<1> DEFINE e == Address(m, i)
           o == cpu6502_read(e, e.v)
<1>1. i.instr = n /\ i.mode = m
  BY InsnIs
<1>2. m \in MemoryModes
  <2>1. n \in Accesses \/ (n \in Shifts /\ m # "acc")
    BY <1>1 DEF Store, CountMemory, ShiftMemory, Accesses, Shifts
  <2> QED
    BY <2>1, ModesOfIs
<1>3. /\ e \in Insn(n, m) /\ e.pc = Past(i, LengthOf(m) - 1)
      /\ o \in Insn(n, m) /\ o.v \in Byte /\ o.pc = Past(i, LengthOf(m) - 1)
  <2>1. e \in Insn(n, m) /\ e.pc = Past(i, LengthOf(m) - 1)
    BY <1>2, AddressOK, AddressPc DEF CpuInv
  <2> HIDE DEF e
  <2> QED
    BY <2>1, ReadOK DEF CpuInv
<1>4. cpu \in Struct /\ CpuTypes /\ Computes(cpu, cpu)
  BY CpuFacts, SameComputes DEF CpuInv
<1>5. CASE Store(i)
  <2>1. Finish(cpu, e)
    BY <1>1, <1>5 DEF Store
  <2> HIDE DEF e
  <2> QED
    BY <1>2, <1>3, <1>4, <2>1, OperandGoesOn
<1>6. CASE CountMemory(i)
  <2> DEFINE v == Count(n = "INC", o.v)
  <2>1. Finish(WithZN(cpu, v), o)
    BY <1>1, <1>6 DEF CountMemory
  <2> HIDE DEF o
  <2>2. v \in Byte
    BY <1>3, CountByte
  <2> HIDE DEF v
  <2>3. Computes(cpu, WithZN(cpu, v))
    BY <1>4, <2>2, PlainComputes
  <2> QED
    BY <1>2, <1>3, <1>4, <2>1, <2>3, OperandGoesOn
<1>7. CASE ShiftMemory(i)
  <2> DEFINE v == Shifted(n, o.v, CarryIn(cpu.p))
  <2>1. Finish(WithZN(WithCarry(cpu, n, o.v), v), o)
    BY <1>1, <1>7 DEF ShiftMemory
  <2> HIDE DEF o
  <2>2. v \in Byte
    BY <1>3, CarryBit, ShiftedByte
  <2> HIDE DEF v
  <2>3. Computes(cpu, WithZN(WithCarry(cpu, n, o.v), v))
    BY <1>3, <1>4, <2>2, ShiftComputes
  <2> QED
    BY <1>2, <1>3, <1>4, <2>1, <2>3, OperandGoesOn
<1> QED
  BY <1>5, <1>6, <1>7

\* and those that have none.
LEMMA OthersGoOn ==
  ASSUME CpuInv, NEW n, NEW m \in ModesOf(n), NEW i \in Insn(n, m),
         \/ Transfer(i) \/ TXS(i) \/ Push(i) \/ Pull(i) \/ FlagOp(i) \/ CountRegister(i)
         \/ ShiftAccumulator(i) \/ NOP(i)
  PROVE  GoesOn(i)
<1>1. i.instr = n /\ i.mode = m
  BY InsnIs
<1>2. m \in {"imp", "acc"}
  BY <1>1 DEF Transfer, TXS, Push, Pull, FlagOp, CountRegister, ShiftAccumulator, NOP,
              ModesOf, Accesses, Shifts, Branches
<1>3. /\ cpu \in Struct /\ CpuTypes /\ cpu.sp \in Byte /\ cpu.x \in Byte /\ cpu.a \in Byte
      /\ cpu.y \in Byte /\ cpu.p \in SUBSET Flag
  BY CpuFacts DEF CpuInv
<1>4. SUFFICES \E c \in Struct : c.halted = cpu.halted /\ Finish(c, i)
  BY <1>2, OneByteGoesOn
<1>sp. \A k \in Int : [cpu EXCEPT !.sp = SpPlus(k)] \in Struct
  BY <1>3, SpWraps
<1>set. \A p \in SUBSET Flag : [cpu EXCEPT !.p = p] \in Struct
  BY <1>3 DEF Struct
<1>5. CASE Transfer(i)
  <2> DEFINE v == Transferred(i)
             c == Plain(cpu, Target(n), v)
  <2>1. v \in Byte
    BY <1>3 DEF Transferred
  <2> HIDE DEF v
  <2>2. Computes(cpu, c)
    BY <1>3, <2>1, PlainComputes
  <2>3. Finish(c, i)
    BY <1>1, <1>5 DEF Transfer, v
  <2> HIDE DEF c
  <2> QED
    BY <2>2, <2>3 DEF Computes
<1>6. CASE TXS(i)
  <2>1. [cpu EXCEPT !.sp = cpu.x] \in Struct /\ [cpu EXCEPT !.sp = cpu.x].halted = cpu.halted
    BY <1>3 DEF Struct
  <2> QED
    BY <1>6, <2>1 DEF TXS
<1>7. CASE Push(i)
  <2> DEFINE c == [cpu EXCEPT !.sp = SpPlus(-1)]
  <2>1. c \in Struct /\ c.halted = cpu.halted
    BY <1>sp, <1>3 DEF Struct
  <2>2. Finish(c, i)
    BY <1>7 DEF Push
  <2> HIDE DEF c
  <2> QED
    BY <2>1, <2>2
<1>8. CASE Pull(i)
  <2> DEFINE c == [cpu EXCEPT !.sp = SpPlus(1)]
             d == IF n = "PLA" THEN Plain(c, "a", pop8(1))
                  ELSE [c EXCEPT !.p = Restored(pop8(1))]
  <2>1. c \in Struct /\ c.halted = cpu.halted
    BY <1>sp, <1>3 DEF Struct
  <2>2. pop8(1) \in Byte /\ Restored(pop8(1)) \in SUBSET Flag
    BY <1>3, PopByte, BitsFlags DEF Restored, Flag
  <2>3. Finish(d, i)
    BY <1>1, <1>8 DEF Pull
  <2> HIDE DEF c
  <2>4. d \in Struct /\ d.halted = c.halted
    <3>1. Computes(c, Plain(c, "a", pop8(1)))
      BY <2>1, <2>2, PlainComputes
    <3>2. [c EXCEPT !.p = Restored(pop8(1))] \in Struct
          /\ [c EXCEPT !.p = Restored(pop8(1))].halted = c.halted
      BY <2>1, <2>2 DEF Struct
    <3> QED
      BY <3>1, <3>2 DEF Computes
  <2> HIDE DEF d
  <2> QED
    BY <2>1, <2>3, <2>4
<1>9. CASE FlagOp(i)
  <2> DEFINE p == With(cpu.p, FlagOf(n), n \in {"SEI", "SED", "SEC"})
             c == [cpu EXCEPT !.p = p]
  <2>1. FlagOf(n) \in Flag
    BY DEF FlagOf, Flag
  <2>2. p \in SUBSET Flag
    BY <1>3, <2>1 DEF With
  <2>3. Finish(c, i)
    BY <1>1, <1>9 DEF FlagOp
  <2> HIDE DEF p
  <2>4. c \in Struct /\ c.halted = cpu.halted
    BY <1>3, <2>2 DEF Struct
  <2> HIDE DEF c
  <2> QED
    BY <2>3, <2>4
<1>10. CASE CountRegister(i)
  <2> DEFINE v == Count(n \in {"INX", "INY"}, Reg(Target(n)))
             c == Plain(cpu, Target(n), v)
  <2>1. v \in Byte
    BY <1>3, CountByte DEF Reg
  <2>2. Finish(c, i)
    BY <1>1, <1>10 DEF CountRegister
  <2> HIDE DEF v
  <2>3. Computes(cpu, c)
    BY <1>3, <2>1, PlainComputes
  <2> HIDE DEF c
  <2> QED
    BY <2>2, <2>3 DEF Computes
<1>11. CASE ShiftAccumulator(i)
  <2> DEFINE v == Shifted(n, cpu.a, CarryIn(cpu.p))
             c == Plain(WithCarry(cpu, n, cpu.a), "a", v)
  <2>1. v \in Byte
    BY <1>3, CarryBit, ShiftedByte
  <2>2. Finish(c, i)
    BY <1>1, <1>11 DEF ShiftAccumulator
  <2> HIDE DEF v
  <2>3. Computes(cpu, c)
    BY <1>3, <2>1, ShiftComputes
  <2> HIDE DEF c
  <2> QED
    BY <2>2, <2>3 DEF Computes
<1>12. CASE NOP(i)
  BY <1>3, <1>12 DEF NOP
<1> QED
  BY <1>5, <1>6, <1>7, <1>8, <1>9, <1>10, <1>11, <1>12
\* A branch changes the PC alone.
LEMMA BranchGoes ==
  ASSUME CpuInv, NEW n, NEW m, NEW i \in Insn(n, m), Branch(i)
  PROVE  /\ cpu'.halted = cpu.halted /\ cpu'.x = cpu.x /\ cpu'.p = cpu.p
         /\ cpu'.pc = IF Taken(i) THEN (fetch8(i).pc + Signed(fetch8(i).v)) % 65536
                      ELSE fetch8(i).pc
<1> DEFINE o == fetch8(i)
           j == [o EXCEPT !.pc = IF Taken(i) THEN (@ + Signed(o.v)) % 65536 ELSE @]
<1>1. o \in Insn(n, m) /\ cpu \in Struct
  BY Fetch8OK, CpuFacts DEF CpuInv
<1>2. Finish(cpu, j)
  BY DEF Branch
<1> HIDE DEF o
<1>3. j.pc = IF Taken(i) THEN (o.pc + Signed(o.v)) % 65536 ELSE o.pc
  BY <1>1 DEF Insn
<1> HIDE DEF j
<1>4. /\ cpu'.halted = cpu.halted /\ cpu'.x = cpu.x /\ cpu'.p = cpu.p
      /\ cpu'.pc = IF Taken(i) THEN (o.pc + Signed(o.v)) % 65536 ELSE o.pc
  BY <1>1, <1>2, <1>3, FinishEnds
<1> QED
  BY <1>4 DEF o

\* A jump halts nothing.
LEMMA JumpsRun ==
  ASSUME CpuInv, NEW n, NEW m, NEW i \in Insn(n, m), JMP(i) \/ JSR(i) \/ RTS(i) \/ RTI(i)
  PROVE  cpu'.halted = cpu.halted
<1>1. /\ cpu \in Struct /\ CpuTypes /\ cpu.sp \in Byte /\ cpu.p \in SUBSET Flag
  BY CpuFacts DEF CpuInv
<1>sp. \A k \in Int : [cpu EXCEPT !.sp = SpPlus(k)] \in Struct
  BY <1>1, SpWraps
<1>2. SUFFICES \E c \in Struct : c.halted = cpu.halted /\ \E j : Finish(c, j)
  BY FinishEnds
<1>3. CASE JMP(i)
  BY <1>1, <1>3 DEF JMP, Jump
<1>4. CASE JSR(i)
  <2> DEFINE c == [cpu EXCEPT !.sp = SpPlus(-2)]
  <2>1. c \in Struct /\ c.halted = cpu.halted
    BY <1>sp, <1>1 DEF Struct
  <2>2. \E j : Finish(c, j)
    BY <1>4 DEF JSR, Jump
  <2> HIDE DEF c
  <2> QED
    BY <2>1, <2>2
<1>5. CASE RTS(i)
  <2> DEFINE c == [cpu EXCEPT !.sp = SpPlus(2)]
  <2>1. c \in Struct /\ c.halted = cpu.halted
    BY <1>sp, <1>1 DEF Struct
  <2>2. \E j : Finish(c, j)
    BY <1>5 DEF RTS, Jump
  <2> HIDE DEF c
  <2> QED
    BY <2>1, <2>2
<1>6. CASE RTI(i)
  <2> DEFINE p == Restored(pop8(1))
             c == [cpu EXCEPT !.sp = SpPlus(3), !.p = p]
  <2>1. p \in SUBSET Flag
    BY BitsFlags DEF Restored, Flag
  <2>2. \E j : Finish(c, j)
    BY <1>6 DEF RTI, Jump
  <2> HIDE DEF p
  <2>3. SpPlus(3) \in Byte
    <3>1. 3 \in Int
      OBVIOUS
    <3> QED
      BY <1>1, <3>1, SpWraps, Zenon
  <2>4. c \in Struct /\ c.halted = cpu.halted
    BY <1>1, <2>1, <2>3 DEF Struct
  <2> HIDE DEF c
  <2> QED
    BY <2>2, <2>4
<1> QED
  BY <1>3, <1>4, <1>5, <1>6

Halts == {"BRK", "illegal"}

\* Halting, branching, jumping or going on, by the name of the instruction.
LEMMA ExecuteEnds ==
  ASSUME CpuInv, NEW n, NEW m \in ModesOf(n), NEW i \in Insn(n, m), Execute(i)
  PROVE  /\ n \in Halts => cpu'.halted = TRUE /\ cpu'.pc = i.pc
         /\ n \notin Halts => cpu'.halted = cpu.halted
         /\ n \notin Halts \cup Jumps \cup Branches => GoesOn(i)
         /\ n \in Branches => Branch(i)
<1>1. i.instr = n
  BY InsnIs
<1>2. CASE Halt(i)
  <2> DEFINE c == [cpu EXCEPT !.halted = TRUE]
  <2>1. c \in Struct /\ c.halted = TRUE
    BY CpuFacts DEF CpuInv, Struct
  <2>2. Finish(c, i) /\ n \in Halts
    BY <1>1, <1>2 DEF Halt, Halts
  <2> HIDE DEF c
  <2> QED
    BY <2>1, <2>2, FinishEnds DEF Halts, Branches
<1>3. CASE Branch(i)
  <2>1. n \in Branches
    BY <1>1, <1>3 DEF Branch, Branches
  <2> QED
    BY <1>3, <2>1, BranchGoes DEF Branches, Halts
<1>4. CASE JMP(i) \/ JSR(i) \/ RTS(i) \/ RTI(i)
  <2>1. n \in Jumps
    BY <1>1, <1>4 DEF JMP, JSR, RTS, RTI, Jumps
  <2> QED
    BY <1>4, <2>1, JumpsRun DEF Jumps, Branches, Halts
<1>5. CASE Load(i) \/ Compare(i) \/ Logic(i) \/ BIT(i) \/ Arithmetic(i)
  <2>1. n \in Accesses
    BY <1>1, <1>5 DEF Load, Compare, Logic, BIT, Arithmetic, Accesses
  <2> QED
    BY <1>5, <2>1, ReadsGoOn DEF Accesses, Branches, Halts, GoesOn
<1>6. CASE Store(i) \/ CountMemory(i) \/ ShiftMemory(i)
  <2>1. n \in Accesses \cup Shifts
    BY <1>1, <1>6 DEF Store, CountMemory, ShiftMemory, Accesses, Shifts
  <2> QED
    BY <1>6, <2>1, WritesGoOn DEF Accesses, Shifts, Branches, Halts, GoesOn
<1>7. CASE \/ Transfer(i) \/ TXS(i) \/ Push(i) \/ Pull(i) \/ FlagOp(i) \/ CountRegister(i)
           \/ ShiftAccumulator(i) \/ NOP(i)
  <2>1. n \notin Branches \cup Halts
    BY <1>1, <1>7 DEF Transfer, TXS, Push, Pull, FlagOp, CountRegister, ShiftAccumulator, NOP,
                      Branches, Halts
  <2> QED
    BY <1>7, <2>1, OthersGoOn DEF GoesOn
<1> QED
  BY <1>2, <1>3, <1>4, <1>5, <1>6, <1>7 DEF Execute

----------------------------------------------------------------------------
(* The instruction at PC *)

\* The byte that a fetch at PC finds.
Fetched == cpu6502_read([pc |-> cpu.pc, raster |-> raster_counter, v |-> 0], cpu.pc)

\* The opcode fetched first, as the table decodes it.
LEMMA FirstIs ==
  ASSUME CpuTypes
  PROVE  /\ First.pc = (cpu.pc + 1) % 65536
         /\ First.instr = Decode[First.v][1] /\ First.mode = Decode[First.v][2]
<1> DEFINE j == Fetched
<1>1. j.pc = cpu.pc /\ j = [pc |-> j.pc, raster |-> j.raster, v |-> j.v]
  <2> DEFINE i == [pc |-> cpu.pc, raster |-> raster_counter, v |-> 0]
  <2>1. \E r, v : j = [i EXCEPT !.raster = r, !.v = v]
    BY DEF Fetched, cpu6502_read
  <2>2. PICK r, v : j = [i EXCEPT !.raster = r, !.v = v]
    BY <2>1
  <2> HIDE DEF j
  <2>3. j = [pc |-> cpu.pc, raster |-> r, v |-> v]
    BY <2>2
  <2> QED
    BY <2>3
<1>2. fetch8([pc |-> cpu.pc, raster |-> raster_counter, v |-> 0]) = [j EXCEPT !.pc = (@ + 1) % 65536]
  BY DEF fetch8, Fetched
<1> HIDE DEF j
<1> QED
  BY <1>1, <1>2 DEF First

\* Its name, its mode and its length are those of its opcode.
LEMMA FirstFits ==
  ASSUME CpuTypes
  PROVE  /\ First.v \in Byte
         /\ First.mode \in ModesOf(First.instr)
         /\ Exists(First.v) => Fits(First.v, First.instr, First.mode)
         /\ (First.v = 0 \/ ~Exists(First.v)) <=> First.instr \in Halts
<1>1. First.v \in Byte
  BY FirstOK
<1>2. /\ Exists(First.v) => Fits(First.v, First.instr, First.mode)
      /\ (First.v = 0 \/ ~Exists(First.v)) <=> First.instr \in Halts
      /\ ~Exists(First.v) => First.instr = "illegal" /\ First.mode = "imp"
  BY <1>1, FirstIs, DecodeFits DEF Halts
<1>3. "imp" \in ModesOf("illegal")
  BY DEF ModesOf, Accesses, Shifts, Branches
<1> QED
  BY <1>1, <1>2, <1>3 DEF Fits

\* Where a step ends, by the opcode.
LEMMA StepEnds ==
  ASSUME CpuInv, cpu6502_step
  PROVE  /\ First.instr \in Halts => cpu'.halted = TRUE /\ cpu'.pc = First.pc
         /\ First.instr \notin Halts => cpu'.halted = FALSE
         /\ First.instr \notin Halts \cup Jumps \cup Branches => GoesOn(First)
         /\ First.instr \in Branches => Branch(First)
<1>1. First \in Insn(First.instr, First.mode) /\ First.mode \in ModesOf(First.instr)
  BY FirstOK, FirstFits DEF CpuInv
<1>2. Execute(First) /\ ~cpu.halted
  BY DEF cpu6502_step
<1>3. cpu.halted = FALSE
  BY <1>2, CpuFacts DEF CpuInv, Struct
<1> QED
  BY <1>1, <1>2, <1>3, ExecuteEnds

\* Instructions have one to three bytes.
LEMMA LengthSmall == ASSUME NEW op PROVE Length(op) \in {1, 2, 3}
  BY DEF Length

\* The PC after an instruction of its length.
LEMMA FirstEnds ==
  ASSUME CpuTypes
  PROVE  Past(First, Length(First.v) - 1) = (cpu.pc + Length(First.v)) % 65536
<1> DEFINE k == Length(First.v)
           a == cpu.pc
<1>1. k \in {1, 2, 3} /\ a \in Word /\ First.pc = (a + 1) % 65536
  BY FirstIs, CpuFacts, LengthSmall
<1> HIDE DEF k, a
<1>2. (((a + 1) % 65536) + (k - 1)) % 65536 = (a + k) % 65536
  BY <1>1 DEF Word
<1> QED
  BY <1>1, <1>2 DEF Past, k, a

\* Where an instruction that neither halts nor jumps goes on.
LEMMA StepGoesOn ==
  ASSUME CpuInv, cpu6502_step, ~cpu'.halted, ~IsJump(First.v)
  PROVE  LET next == (cpu.pc + Length(First.v)) % 65536
         IN  \/ cpu'.pc = next
             \/ /\ IsBranch(First.v)
                /\ cpu'.pc = (next + Signed(Operand("imm", First).v)) % 65536
<1>1. CpuTypes
  BY DEF CpuInv
<1>2. First.instr \notin Halts
  BY StepEnds
<1>3. Fits(First.v, First.instr, First.mode)
  BY <1>1, <1>2, FirstFits
<1>4. First.instr \notin Jumps
  BY <1>3 DEF Fits
<1>5. Past(First, LengthOf(First.mode) - 1) = (cpu.pc + Length(First.v)) % 65536
  BY <1>1, <1>3, FirstEnds DEF Fits
<1>6. CASE First.instr \in Branches
  <2>1. IsBranch(First.v) /\ First.mode = "rel"
    BY <1>3, <1>6, ModesOfIs DEF Fits
  <2>2. First \in Insn(First.instr, First.mode) /\ Branch(First)
    BY <1>1, <1>6, FirstOK, StepEnds
  <2>3. fetch8(First).pc = Past(First, LengthOf(First.mode) - 1)
    BY <1>1, <2>1, <2>2, Fetch8Pc DEF LengthOf
  <2>4. fetch8(First) = Operand("imm", First)
    BY DEF Operand
  <2>5. \/ cpu'.pc = fetch8(First).pc
        \/ cpu'.pc = (fetch8(First).pc + Signed(fetch8(First).v)) % 65536
    BY <2>2, BranchGoes
  <2> QED
    BY <1>5, <2>1, <2>3, <2>4, <2>5
<1>7. CASE First.instr \notin Branches
  BY <1>2, <1>4, <1>5, <1>7, StepEnds DEF GoesOn
<1> QED
  BY <1>6, <1>7

\* For every byte: it halts exactly if it is BRK or is not in the encoding of the
\* 6502, and every other instruction that does not jump goes on behind the bytes
\* that the encoding gives it or where its branch points (the switch of
\* cpu6502_step, its fetches and its branches).
THEOREM OpcodesDecodedHolds == Spec => OpcodesDecoded
<1> DEFINE next == (cpu.pc + Length(First.v)) % 65536
           far  == (next + Signed(Operand("imm", First).v)) % 65536
           Decoded == Stepping =>
             /\ cpu'.halted = (First.v = 0 \/ ~Exists(First.v))
             /\ ~cpu'.halted /\ ~IsJump(First.v) =>
                  cpu'.pc = next \/ (IsBranch(First.v) /\ cpu'.pc = far)
<1>1. ASSUME GuestInv, [Next]_vars, Stepping PROVE Decoded
  <2>1. cpu6502_step /\ CpuInv /\ CpuTypes
    BY <1>1, SteppingIsStep DEF GuestInv, CpuInv
  <2>2. cpu'.halted = (First.v = 0 \/ ~Exists(First.v))
    BY <2>1, StepEnds, FirstFits
  <2>3. ~cpu'.halted /\ ~IsJump(First.v) =>
          cpu'.pc = next \/ (IsBranch(First.v) /\ cpu'.pc = far)
    BY <2>1, StepGoesOn
  <2> HIDE DEF next, far
  <2> QED
    BY <2>2, <2>3
<1>2. GuestInv /\ [Next]_vars => [Decoded]_vars
  BY <1>1
<1> QED
  BY <1>2, GuestInvariant, PTL DEF Spec, OpcodesDecoded
----------------------------------------------------------------------------
(* What is reported of a halt *)

\* The opcode read again at an address, in the memory m.
Again(m, addr) == IF addr = Cia1Prb THEN 255 ELSE At(m, addr)

\* The report of HaltReported.
Reported ==
  LET at     == (cpu.pc - 1) % 65536
      newest == cpu6502_trace_dump_ordered(TraceLen)[TraceLen]
      again  == cpu6502_read([pc |-> cpu.pc, raster |-> raster_counter, v |-> 0], at).v
  IN  /\ newest[1] = at /\ Decode[newest[2]][1] \in {"BRK", "illegal"}
      /\ at # VicRaster => again = newest[2]

\* What a step leaves in PC, in the memory and in the trace makes its report.
ReportOf(pc, m, newest) ==
  LET at == (pc - 1) % 65536
  IN  /\ newest[1] = at /\ Decode[newest[2]][1] \in Halts
      /\ at # VicRaster => Again(m, at) = newest[2]

\* The value of a read.
LEMMA ReadValue ==
  ASSUME NEW p, NEW r, NEW s, NEW w
  PROVE  [[pc |-> p, raster |-> r, v |-> 0] EXCEPT !.raster = s, !.v = w].v = w
  OBVIOUS

\* A report that is right after a step.
LEMMA ReportedNext ==
  ReportOf(cpu'.pc, c64_ram', Dump'[TraceLen]) => Reported'
<1> DEFINE at == (cpu'.pc - 1) % 65536
           again == cpu6502_read([pc |-> cpu.pc, raster |-> raster_counter, v |-> 0],
                                 (cpu.pc - 1) % 65536).v
<1>1. at # VicRaster => again' = Again(c64_ram', at)
  <2> HIDE DEF at
  <2>1. (cpu'.pc - 1) % 65536 = at
    BY DEF at
  <2> QED
    BY <2>1, ReadValue DEF cpu6502_read, Again, At, Ram
<1> HIDE DEF again
<1>2. ASSUME ReportOf(cpu'.pc, c64_ram', Dump'[TraceLen]) PROVE Reported'
  <2>1. /\ Dump'[TraceLen][1] = at /\ Decode[Dump'[TraceLen][2]][1] \in Halts
        /\ at # VicRaster => again' = Dump'[TraceLen][2]
    BY <1>1, <1>2 DEF ReportOf
  <2> QED
    BY <2>1 DEF Reported, again, Halts, Dump
<1> QED
  BY <1>2

\* The step that halts the CPU makes it true.
LEMMA HaltIsReported ==
  ASSUME GuestInv, TraceTypes', cpu6502_step, cpu'.halted
  PROVE  Reported'
<1> DEFINE x == <<cpu.pc, First.v>>
           at == (cpu'.pc - 1) % 65536
<1>1. CpuTypes /\ CpuInv
  BY DEF GuestInv, CpuInv
<1>2. First.instr \in Halts /\ cpu'.pc = First.pc
  BY <1>1, StepEnds
<1>3. Execute(First)
  BY DEF cpu6502_step
<1>4. c64_ram' = c64_ram
  BY <1>2, <1>3
  DEF Halts, Execute, Load, Store, Transfer, TXS, Push, Pull, FlagOp, CountRegister, CountMemory,
      Compare, Logic, BIT, Arithmetic, ShiftAccumulator, ShiftMemory, Branch, JMP, JSR, RTS, RTI,
      NOP, Halt, memVars
<1>5. at = cpu.pc
  <2>1. cpu'.pc = (cpu.pc + 1) % 65536 /\ cpu.pc \in Word
    BY <1>1, <1>2, FirstIs, CpuFacts
  <2> DEFINE a == cpu.pc
  <2>2. cpu'.pc = (a + 1) % 65536 /\ a \in Word
    BY <2>1
  <2> HIDE DEF a
  <2>3. (((a + 1) % 65536) - 1) % 65536 = a
    BY <2>2 DEF Word
  <2> QED
    BY <2>2, <2>3 DEF a
<1>6. Dump'[TraceLen] = x
  <2>1. Dump' = Append(Tail(Dump), x)
    BY StepSlides
  <2>2. Dump \in Seq(Word \X Byte) /\ Len(Dump) = TraceLen /\ TraceLen \in Nat \ {0}
    BY DumpIs, TraceAssumption DEF GuestInv
  <2>3. x \in Word \X Byte
    BY <1>1, FirstOK, CpuFacts
  <2> DEFINE d == Dump
             S == Word \X Byte
             y == x
  <2>4. d \in Seq(S) /\ Len(d) \in Nat \ {0} /\ y \in S
    BY <2>2, <2>3
  <2> HIDE DEF d, S, y
  <2>5. Append(Tail(d), y)[Len(d)] = y
    BY <2>4
  <2> QED
    BY <2>1, <2>2, <2>5 DEF d, y
<1>7. at # VicRaster => Again(c64_ram', at) = First.v
  <2>1. First.v = Fetched.v
    BY DEF First, fetch8, Fetched
  <2>2. Fetched.v = CASE cpu.pc = VicRaster -> ((raster_counter + 1) % PalRasterLines) % 256
                      [] cpu.pc = Cia1Prb   -> 255
                      [] OTHER              -> Ram(cpu.pc)
    BY ReadValue DEF Fetched, cpu6502_read
  <2> HIDE DEF at
  <2> QED
    BY <1>4, <1>5, <2>1, <2>2 DEF Again, At, Ram
<1>8. Decode[First.v][1] \in Halts
  BY <1>1, <1>2, FirstIs
<1>9. x[1] = cpu.pc /\ x[2] = First.v
  OBVIOUS
<1> HIDE DEF x
<1>10. ReportOf(cpu'.pc, c64_ram', Dump'[TraceLen])
  BY <1>5, <1>6, <1>7, <1>8, <1>9 DEF ReportOf
<1> QED
  BY <1>10, ReportedNext

\* Nothing but the CPU's own steps touches what is reported.
LEMMA ReportRests ==
  ASSUME UNCHANGED cpuVars
  PROVE  cpu' = cpu /\ (Reported => Reported')
  BY DEF cpuVars, traceVars, memVars, Reported, cpu6502_trace_dump_ordered, cpu6502_read, Ram

\* The inductive invariant: the report is right in the shell as well, and while
\* CPUTEST has the memory of a booted guest, that guest counts as disturbed.
ReportInv ==
  /\ GuestInv
  /\ image # NoImage /\ ~disturbed /\ cpu.halted /\ ~Testing => Reported
  /\ image # NoImage /\ Testing => disturbed

\* Every step keeps the report right.
LEMMA ReportKept == ASSUME ReportInv, [Next]_vars PROVE ReportInv'
<1>1. GuestInv /\ GuestInv'
  BY NextKeeps DEF ReportInv
<1>2. TraceTypes' /\ CpuInv
  BY <1>1 DEF GuestInv
<1>3. SUFFICES /\ (image # NoImage /\ ~disturbed /\ cpu.halted /\ ~Testing => Reported)'
               /\ (image # NoImage /\ Testing => disturbed)'
  BY <1>1 DEF ReportInv
<1>4. CASE UNCHANGED vars
  BY <1>4, ReportRests DEF vars, hostVars, ReportInv, Testing
<1>5. CASE cmd_c64boot
  <2>1. cpu'.halted = FALSE /\ host' = "session"
    BY <1>5 DEF cmd_c64boot, EnterSession, Restart, cpu6502_reset
  <2> QED
    BY <2>1 DEF Testing
<1>6. CASE Resume \/ Leave
  <2>1. UNCHANGED <<cpuVars, image, disturbed>> /\ host \in {"shell", "session"}
        /\ host' \in {"shell", "session"}
    BY <1>6 DEF Resume, Leave, EnterSession
  <2> QED
    BY <2>1, ReportRests DEF ReportInv, Testing
<1>7. CASE GuestStep
  <2>1. cpu6502_step /\ UNCHANGED <<host, image, disturbed>> /\ host = "session"
    BY <1>7 DEF GuestStep
  <2> QED
    BY <1>1, <1>2, <2>1, HaltIsReported DEF Testing
<1>8. CASE HostIrq
  <2>1. cpu6502_irq /\ UNCHANGED <<host, image, disturbed>> /\ host = "session"
    BY <1>8 DEF HostIrq
  <2>2. CASE UNCHANGED cpuVars
    BY <2>1, <2>2, ReportRests DEF ReportInv, Testing
  <2>3. CASE Interrupted /\ ~cpu.halted
    <3>1. cpu' = [cpu EXCEPT !.sp = SpPlus(-3), !.p = @ \cup {"I"}, !.pc = Vector(IrqVector)]
      BY <2>3 DEF Interrupted
    <3>2. cpu \in Struct
      BY <1>2, CpuFacts DEF CpuInv
    <3>3. cpu'.halted = cpu.halted
      BY <3>1, <3>2 DEF Struct
    <3> QED
      BY <2>1, <2>3, <3>3 DEF Testing
  <2> QED
    BY <2>1, <2>2, <2>3 DEF cpu6502_irq
<1>9. CASE cpu6502_run_test
  <2>1. disturbed' = (image # NoImage) /\ image' = image /\ Testing'
    BY <1>9 DEF cpu6502_run_test, Testing
  <2>2. image' # NoImage => disturbed'
    BY <2>1
  <2> QED
    BY <2>1, <2>2
<1>10. CASE TestStep
  BY <1>10 DEF TestStep, ReportInv, Testing
<1>11. CASE EndTest1
  BY <1>11 DEF EndTest1, ReportInv, Testing
<1>12. CASE EndTest2
  BY <1>12 DEF EndTest2, ReportInv, Testing
<1> QED
  BY <1>4, <1>5, <1>6, <1>7, <1>8, <1>9, <1>10, <1>11, <1>12 DEF Next

\* For every program: of a booted guest that has halted, and that CPUTEST did not
\* disturb, the trace that is dumped ends with the BRK or illegal opcode at PC-1,
\* no interrupt or session moved it since, and the opcode printed is the same
\* except where it is read from the raster register (shell.c's halt report,
\* cpu6502_step and cpu6502_irq).
THEOREM HaltReportedHolds == Spec => []HaltReported
<1>1. Init => ReportInv
  BY InitOK DEF Init, ReportInv, Testing
<1>2. ReportInv /\ [Next]_vars => ReportInv'
  BY ReportKept
<1>3. ReportInv => HaltReported
  BY DEF ReportInv, HaltReported, Reported, Testing
<1> QED
  BY <1>1, <1>2, <1>3, PTL DEF Spec
----------------------------------------------------------------------------
(* The instructions of the self-tests, in memory away from the registers *)

Plainly == {n \in Nat : n < 50000}

\* A read beside the registers is of memory.
LEMMA PlainRead ==
  ASSUME NEW n, NEW m, NEW i \in Insn(n, m), NEW addr \in Plainly
  PROVE  cpu6502_read(i, addr) = [i EXCEPT !.v = Ram(addr)]
<1>1. addr # VicRaster /\ addr # Cia1Prb
  BY DEF VicRaster, Cia1Prb, Plainly
<1>2. i = [i EXCEPT !.raster = i.raster]
  BY DEF Insn
<1> QED
  BY <1>1, <1>2 DEF cpu6502_read, Insn

\* So is a fetch.
LEMMA PlainFetch ==
  ASSUME CpuTypes, NEW n, NEW m, NEW i \in Insn(n, m), i.pc \in Plainly
  PROVE  fetch8(i).v = Ram(i.pc) /\ fetch8(i).pc = i.pc + 1
<1>1. cpu6502_read(i, i.pc) = [i EXCEPT !.v = Ram(i.pc)]
  BY PlainRead
<1>2. fetch8(i) = [[i EXCEPT !.v = Ram(i.pc)] EXCEPT !.pc = (@ + 1) % 65536]
  BY <1>1 DEF fetch8
<1>3. (i.pc + 1) % 65536 = i.pc + 1
  BY DEF Plainly
<1> QED
  BY <1>2, <1>3 DEF Insn

\* What lies at PC, and behind it.
LEMMA FirstAt ==
  ASSUME CpuTypes, NEW pc \in Plainly, pc < 49000, cpu.pc = pc
  PROVE  /\ First \in Insn(First.instr, First.mode)
         /\ First.v = Ram(pc) /\ First.pc = pc + 1
         /\ fetch8(First).v = Ram(pc + 1) /\ fetch8(First).pc = pc + 2
         /\ fetch16(First).v = Ram(pc + 1) + 256 * Ram(pc + 2) /\ fetch16(First).pc = pc + 3
<1>1. First \in Insn(First.instr, First.mode)
  BY FirstOK
<1>2. First.pc = pc + 1
  <2>1. (pc + 1) % 65536 = pc + 1
    BY DEF Plainly
  <2> QED
    BY <2>1, FirstIs
<1>3. First.v = Ram(pc)
  <2>1. First.v = Fetched.v
    BY DEF First, fetch8, Fetched
  <2>2. pc # VicRaster /\ pc # Cia1Prb
    BY DEF VicRaster, Cia1Prb, Plainly
  <2> QED
    BY <2>1, <2>2, ReadValue DEF Fetched, cpu6502_read
<1>4. pc + 1 \in Plainly /\ pc + 2 \in Plainly /\ (pc + 1) + 1 = pc + 2 /\ (pc + 2) + 1 = pc + 3
  BY DEF Plainly
<1> DEFINE i == First
           lo == fetch8(i)
           hi == fetch8(lo)
<1>5. lo \in Insn(First.instr, First.mode) /\ lo.v = Ram(pc + 1) /\ lo.pc = pc + 2
  BY <1>1, <1>2, <1>4, Fetch8OK, PlainFetch
<1> HIDE DEF lo
<1>6. hi \in Insn(First.instr, First.mode) /\ hi.v = Ram(pc + 2) /\ hi.pc = pc + 3
  BY <1>4, <1>5, Fetch8OK, PlainFetch
<1> HIDE DEF hi
<1>7. Pair(lo, hi).v = lo.v + 256 * hi.v /\ Pair(lo, hi).pc = hi.pc
  BY <1>6 DEF Pair, Insn
<1>8. fetch16(First) = Pair(lo, hi)
  BY DEF fetch16, lo, hi
<1> QED
  BY <1>1, <1>2, <1>3, <1>5, <1>6, <1>7, <1>8 DEF lo

\* The opcodes of the self-tests, as the table decodes them.
LEMMA SelfTestOpcodes ==
  ASSUME CpuTypes, First.v \in {162, 232, 224, 208, 0, 169, 32, 133, 96}
  PROVE  <<First.instr, First.mode>> = SelfTestCase(First.v)
<1>1. Exists(First.v)
  BY SMT DEF Exists, Column
<1> QED
  BY <1>1, FirstFits DEF Fits

\* A step executes the action of its instruction.
LEMMA StepExecutes ==
  ASSUME cpu6502_step
  PROVE  /\ First.instr \in {"LDX", "LDA"} => Load(First)
         /\ First.instr = "INX" => CountRegister(First)
         /\ First.instr = "CPX" => Compare(First)
         /\ First.instr = "STA" => Store(First)
         /\ First.instr = "JSR" => JSR(First)
         /\ First.instr = "RTS" => RTS(First)
         /\ First.instr = "BRK" => Halt(First)
<1>1. Execute(First)
  BY DEF cpu6502_step
<1> QED
  BY <1>1
  DEF Execute, Load, Store, Transfer, TXS, Push, Pull, FlagOp, CountRegister, CountMemory,
      Compare, Logic, BIT, Arithmetic, ShiftAccumulator, ShiftMemory, Branch, JMP, JSR, RTS, RTI,
      NOP, Halt
\* The instruction op is about to be executed.
Comes(pc, op) == CpuInv /\ cpu6502_step /\ pc \in Plainly /\ pc < 49000 /\ cpu.pc = pc /\ Ram(pc) = op

\* What is fetched of an instruction of the self-tests.
LEMMA ComesFirst ==
  ASSUME NEW pc, NEW op \in {162, 232, 224, 208, 0, 169, 32, 133, 96}, Comes(pc, op)
  PROVE  /\ First \in Insn(First.instr, First.mode)
         /\ First.instr = SelfTestCase(op)[1] /\ First.mode = SelfTestCase(op)[2]
         /\ First.pc = pc + 1
         /\ fetch8(First).v = Ram(pc + 1) /\ fetch8(First).pc = pc + 2
         /\ fetch16(First).v = Ram(pc + 1) + 256 * Ram(pc + 2) /\ fetch16(First).pc = pc + 3
         /\ CpuTypes /\ cpu \in Struct /\ cpu.x \in Byte /\ cpu.a \in Byte /\ cpu.sp \in Byte
<1>1. CpuTypes /\ cpu.pc = pc /\ pc \in Plainly /\ pc < 49000 /\ Ram(pc) = op
  BY DEF Comes, CpuInv
<1>2. First.v = op
  BY <1>1, FirstAt
<1>3. <<First.instr, First.mode>> = SelfTestCase(op)
  BY <1>1, <1>2, SelfTestOpcodes
<1>4. First.instr = SelfTestCase(op)[1] /\ First.mode = SelfTestCase(op)[2]
  BY <1>3
<1> QED
  BY <1>1, <1>4, FirstAt, CpuFacts

\* A register that is set, and those that are not.
LEMMA PlainSets ==
  ASSUME NEW c \in Struct, NEW r \in {"a", "x"}, NEW v \in Byte
  PROVE  /\ Plain(c, r, v).x = (IF r = "x" THEN v ELSE c.x)
         /\ Plain(c, r, v).a = (IF r = "a" THEN v ELSE c.a)
         /\ Plain(c, r, v).sp = c.sp /\ Plain(c, r, v).halted = c.halted
<1> DEFINE d == [c EXCEPT !.a = IF r = "a" THEN v ELSE @,
                          !.x = IF r = "x" THEN v ELSE @,
                          !.y = IF r = "y" THEN v ELSE @]
<1>1. /\ d.x = (IF r = "x" THEN v ELSE c.x) /\ d.a = (IF r = "a" THEN v ELSE c.a)
      /\ d.sp = c.sp /\ d.halted = c.halted /\ d \in Struct
  BY DEF Struct
<1>2. \E q : Plain(c, r, v) = [d EXCEPT !.p = q]
  BY DEF Plain, WithZN, SetReg
<1>3. PICK q : Plain(c, r, v) = [d EXCEPT !.p = q]
  BY <1>2
<1> HIDE DEF d
<1> QED
  BY <1>1, <1>3 DEF Struct

\* LDX and LDA with a constant, in the self-tests.
LEMMA LoadRuns ==
  ASSUME NEW pc, NEW op \in {162, 169}, Comes(pc, op), Ram(pc + 1) \in Byte
  PROVE  /\ cpu'.pc = pc + 2 /\ ~cpu'.halted /\ c64_ram' = c64_ram /\ cpu'.sp = cpu.sp
         /\ op = 162 => cpu'.x = Ram(pc + 1)
         /\ op = 169 => cpu'.a = Ram(pc + 1)
<1> DEFINE o == fetch8(First)
           r == IF op = 162 THEN "x" ELSE "a"
           v == o.v
           c == Plain(cpu, r, v)
<1>1. /\ o.v = Ram(pc + 1) /\ o.pc = pc + 2 /\ cpu \in Struct
      /\ First.instr = SelfTestCase(op)[1] /\ First.mode = SelfTestCase(op)[2]
  BY ComesFirst
<1>2. First.instr = (IF op = 162 THEN "LDX" ELSE "LDA") /\ First.mode = "imm"
  BY <1>1 DEF SelfTestCase
<1>3. Load(First) /\ ~cpu.halted
  BY <1>1, <1>2, StepExecutes DEF Comes, cpu6502_step, Struct
<1>4. Target(First.instr) = r
  BY <1>2 DEF Target
<1>5. Finish(c, o) /\ c64_ram' = c64_ram
  BY <1>2, <1>3, <1>4 DEF Load, Operand, memVars
<1> HIDE DEF o
<1>6. Computes(cpu, c)
  BY <1>1, PlainComputes
<1>7. /\ c.x = (IF r = "x" THEN v ELSE cpu.x) /\ c.a = (IF r = "a" THEN v ELSE cpu.a)
      /\ c.sp = cpu.sp /\ c.halted = cpu.halted
  BY <1>1, PlainSets
<1> HIDE DEF c
<1> QED
  BY <1>1, <1>3, <1>5, <1>6, <1>7, FinishEnds DEF Computes

\* INX.
LEMMA CountRuns ==
  ASSUME NEW pc, Comes(pc, 232)
  PROVE  /\ cpu'.pc = pc + 1 /\ ~cpu'.halted /\ c64_ram' = c64_ram
         /\ cpu'.x = (cpu.x + 1) % 256
<1> DEFINE v == (cpu.x + 1) % 256
           c == Plain(cpu, "x", v)
<1>1. /\ First.pc = pc + 1 /\ cpu \in Struct /\ cpu.x \in Byte
      /\ First.instr = "INX"
  BY ComesFirst DEF SelfTestCase
<1>2. CountRegister(First) /\ ~cpu.halted
  BY <1>1, StepExecutes DEF Comes, cpu6502_step, Struct
<1>3. Target(First.instr) = "x"
  BY <1>1 DEF Target
<1>4. Finish(c, First) /\ c64_ram' = c64_ram
  BY <1>1, <1>2, <1>3 DEF CountRegister, Count, Reg, memVars
<1>5. v \in Byte
  BY <1>1 DEF Byte
<1>6. Computes(cpu, c) /\ c.x = v
  BY <1>1, <1>5, PlainComputes, PlainSets
<1> HIDE DEF c
<1> QED
  BY <1>1, <1>2, <1>4, <1>6, FinishEnds DEF Computes

\* A comparison finds bytes equal if they are.
LEMMA SameByte ==
  ASSUME NEW a \in Byte, NEW b \in Byte
  PROVE  ((a - b) % 256 = 0) <=> (a = b)
<1>1. CASE a >= b
  <2>1. a - b \in 0..255
    BY <1>1 DEF Byte
  <2>2. (a - b) % 256 = a - b
    BY <2>1
  <2> QED
    BY <2>2 DEF Byte
<1>2. CASE a < b
  <2>1. a - b \in (-255)..(-1)
    BY <1>2 DEF Byte
  <2>2. (a - b) % 256 = a - b + 256
    BY <2>1
  <2> QED
    BY <2>1, <2>2 DEF Byte
<1> QED
  BY <1>1, <1>2 DEF Byte

\* CPX with a constant.
LEMMA CompareRuns ==
  ASSUME NEW pc, Comes(pc, 224), Ram(pc + 1) \in Byte
  PROVE  /\ cpu'.pc = pc + 2 /\ ~cpu'.halted /\ c64_ram' = c64_ram
         /\ cpu'.x = cpu.x /\ ("Z" \in cpu'.p <=> cpu.x = Ram(pc + 1))
<1> DEFINE o == fetch8(First)
           v == o.v
           c == Compared(cpu, cpu.x, v)
<1>1. /\ o.v = Ram(pc + 1) /\ o.pc = pc + 2 /\ cpu \in Struct /\ cpu.x \in Byte
      /\ First.instr = "CPX" /\ First.mode = "imm"
  BY ComesFirst DEF SelfTestCase
<1>2. Compare(First) /\ ~cpu.halted
  BY <1>1, StepExecutes DEF Comes, cpu6502_step, Struct
<1>3. Target(First.instr) = "x"
  BY <1>1 DEF Target
<1>4. Finish(c, o) /\ c64_ram' = c64_ram
  BY <1>1, <1>2, <1>3 DEF Compare, Operand, Reg, memVars
<1> HIDE DEF o
<1>5. Computes(cpu, c) /\ c.x = cpu.x
  BY <1>1, CompareComputes DEF Compared, Struct
<1>6. "Z" \in c.p <=> (cpu.x - v) % 256 = 0
  <2> DEFINE q == With(set_zn(cpu.p, (cpu.x - v) % 256), "C", cpu.x >= v)
  <2>1. c.p = q
    BY <1>1 DEF Compared, Struct
  <2> HIDE DEF c
  <2>2. "Z" \in q <=> (cpu.x - v) % 256 = 0
    BY DEF With, set_zn
  <2> QED
    BY <2>1, <2>2
<1>7. ((cpu.x - v) % 256 = 0) <=> (cpu.x = v)
  BY <1>1, SameByte
<1> HIDE DEF c
<1> QED
  BY <1>1, <1>2, <1>4, <1>5, <1>6, <1>7, FinishEnds DEF Computes

\* BNE to the beginning of the loop.
LEMMA BranchRuns ==
  ASSUME NEW pc, Comes(pc, 208), Ram(pc + 1) = 251, pc > 10
  PROVE  /\ cpu'.pc = (IF "Z" \in cpu.p THEN pc + 2 ELSE pc - 3)
         /\ ~cpu'.halted /\ c64_ram' = c64_ram
         /\ cpu'.x = cpu.x /\ cpu'.p = cpu.p
<1> DEFINE o == fetch8(First)
<1>1. /\ o.v = 251 /\ o.pc = pc + 2 /\ cpu \in Struct /\ First \in Insn(First.instr, First.mode)
      /\ First.instr = "BNE" /\ CpuInv /\ cpu6502_step /\ pc \in Plainly
  BY ComesFirst DEF SelfTestCase, Comes
<1>2. Branch(First) /\ ~cpu.halted
  BY <1>1, StepEnds DEF cpu6502_step, Struct, Branches
<1>3. c64_ram' = c64_ram
  BY <1>2 DEF Branch, memVars
<1>4. Taken(First) <=> "Z" \notin cpu.p
  BY <1>1 DEF Taken
<1>5. ((pc + 2) + Signed(251)) % 65536 = pc - 3
  <2>1. Signed(251) = -5
    BY DEF Signed
  <2>2. (pc + 2) + (-5) = pc - 3 /\ (pc - 3) % 65536 = pc - 3
    BY <1>1 DEF Plainly
  <2> QED
    BY <2>1, <2>2
<1>6. /\ cpu'.halted = cpu.halted /\ cpu'.x = cpu.x /\ cpu'.p = cpu.p
      /\ cpu'.pc = IF Taken(First) THEN (o.pc + Signed(o.v)) % 65536 ELSE o.pc
  BY <1>1, <1>2, BranchGoes
<1> HIDE DEF o
<1> QED
  BY <1>1, <1>2, <1>3, <1>4, <1>5, <1>6

\* BRK.
LEMMA BreakRuns ==
  ASSUME NEW pc, Comes(pc, 0)
  PROVE  /\ cpu'.halted /\ c64_ram' = c64_ram
         /\ cpu'.x = cpu.x /\ cpu'.a = cpu.a /\ cpu'.p = cpu.p
<1> DEFINE c == [cpu EXCEPT !.halted = TRUE]
<1>1. First.instr = "BRK" /\ cpu \in Struct
  BY ComesFirst DEF SelfTestCase
<1>2. Halt(First)
  BY <1>1, StepExecutes DEF Comes
<1>3. Finish(c, First) /\ c64_ram' = c64_ram
  BY <1>2 DEF Halt, memVars
<1>4. c \in Struct /\ c.halted /\ c.x = cpu.x /\ c.a = cpu.a /\ c.p = cpu.p
  BY <1>1 DEF Struct
<1> HIDE DEF c
<1> QED
  BY <1>3, <1>4, FinishEnds
\* STA to the zero page.
LEMMA StoreRuns ==
  ASSUME NEW pc, Comes(pc, 133)
  PROVE  /\ cpu'.pc = pc + 2 /\ ~cpu'.halted /\ cpu'.a = cpu.a /\ cpu'.sp = cpu.sp
         /\ c64_ram' = Stored(c64_ram, Ram(pc + 1), cpu.a)
<1> DEFINE e == fetch8(First)
<1>1. /\ e.v = Ram(pc + 1) /\ e.pc = pc + 2 /\ cpu \in Struct
      /\ First.instr = "STA" /\ First.mode = "zp"
  BY ComesFirst DEF SelfTestCase
<1>2. Store(First) /\ ~cpu.halted
  BY <1>1, StepExecutes DEF Comes, cpu6502_step, Struct
<1>3. Target(First.instr) = "a"
  BY <1>1 DEF Target
<1>4. Address(First.mode, First) = e
  BY <1>1 DEF Address, addr_zp
<1>5. Finish(cpu, e) /\ c64_ram' = Stored(c64_ram, e.v, cpu.a)
  BY <1>2, <1>3, <1>4 DEF Store, Reg, cpu6502_write
<1> HIDE DEF e
<1> QED
  BY <1>1, <1>2, <1>5, FinishEnds

\* JSR.
LEMMA CallRuns ==
  ASSUME NEW pc, Comes(pc, 32)
  PROVE  /\ cpu'.pc = Ram(pc + 1) + 256 * Ram(pc + 2) /\ ~cpu'.halted
         /\ cpu'.a = cpu.a /\ cpu'.sp = SpPlus(-2)
         /\ c64_ram' = push8(push8(c64_ram, cpu.sp, (pc + 2) \div 256), cpu.sp - 1, (pc + 2) % 256)
<1> DEFINE o == fetch16(First)
           j == [o EXCEPT !.pc = o.v]
           c == [cpu EXCEPT !.sp = SpPlus(-2)]
<1>1. /\ o.v = Ram(pc + 1) + 256 * Ram(pc + 2) /\ o.pc = pc + 3 /\ cpu \in Struct /\ CpuTypes
      /\ First.instr = "JSR" /\ First \in Insn(First.instr, First.mode) /\ pc \in Plainly
  BY ComesFirst DEF SelfTestCase, Comes
<1>2. JSR(First) /\ ~cpu.halted
  BY <1>1, StepExecutes DEF Comes, cpu6502_step, Struct
<1>3. o \in Insn(First.instr, First.mode)
  BY <1>1, Fetch16OK
<1>4. Finish(c, j) /\ PushWord((o.pc - 1) % 65536)
  BY <1>2 DEF JSR, Jump
<1> HIDE DEF o
<1>5. ((pc + 3) - 1) % 65536 = pc + 2
  BY <1>1 DEF Plainly
<1>6. PushWord(pc + 2)
  BY <1>1, <1>4, <1>5
<1>7. c64_ram' = push8(push8(c64_ram, cpu.sp, (pc + 2) \div 256), cpu.sp - 1, (pc + 2) % 256)
  BY <1>6 DEF PushWord
<1>8. j.pc = o.v
  BY <1>3 DEF Insn
<1> HIDE DEF j
<1>9. SpPlus(-2) \in Byte
  <2>1. -2 \in Int
    OBVIOUS
  <2> QED
    BY <1>1, <2>1, SpWraps, Zenon
<1>10. c \in Struct /\ ~c.halted /\ c.a = cpu.a /\ c.sp = SpPlus(-2)
  BY <1>1, <1>2, <1>9 DEF Struct
<1> HIDE DEF c
<1> QED
  BY <1>1, <1>4, <1>7, <1>8, <1>10, FinishEnds

\* RTS.
LEMMA ReturnRuns ==
  ASSUME NEW pc, Comes(pc, 96)
  PROVE  /\ cpu'.pc = (pop8(1) + 256 * pop8(2) + 1) % 65536 /\ ~cpu'.halted
         /\ cpu'.a = cpu.a /\ cpu'.sp = SpPlus(2) /\ c64_ram' = c64_ram
<1> DEFINE v == (pop8(1) + 256 * pop8(2) + 1) % 65536
           j == [First EXCEPT !.v = v]
           k == [j EXCEPT !.pc = j.v]
           c == [cpu EXCEPT !.sp = SpPlus(2)]
<1>1. /\ cpu \in Struct /\ CpuTypes
      /\ First.instr = "RTS" /\ First \in Insn(First.instr, First.mode)
  BY ComesFirst DEF SelfTestCase
<1>2. RTS(First) /\ ~cpu.halted
  BY <1>1, StepExecutes DEF Comes, cpu6502_step, Struct
<1>3. Finish(c, k) /\ c64_ram' = c64_ram
  BY <1>2 DEF RTS, Jump, Popped
<1> HIDE DEF v
<1>4. k.pc = v
  BY <1>1 DEF Insn
<1> HIDE DEF k
<1>5. SpPlus(2) \in Byte
  <2>1. 2 \in Int
    OBVIOUS
  <2> QED
    BY <1>1, <2>1, SpWraps, Zenon
<1>6. c \in Struct /\ ~c.halted /\ c.a = cpu.a /\ c.sp = SpPlus(2)
  BY <1>1, <1>2, <1>5 DEF Struct
<1> HIDE DEF c
<1> QED
  BY <1>1, <1>3, <1>4, <1>6, FinishEnds DEF v

----------------------------------------------------------------------------
(* The self-tests *)

Loaded(m, f) == \A n \in DOMAIN f : At(m, n) = f[n]

\* Memory as the CPU reads it.
LEMMA RamIsAt == ASSUME NEW n PROVE Ram(n) = At(c64_ram, n)
  BY DEF Ram, At

\* A program that was loaded is there.
LEMMA OverlayLoads == ASSUME NEW m, NEW f PROVE Loaded(Overlay(m, f), f)
  BY DEF Loaded, Overlay, At

\* The first self-test.
LEMMA Test1Bytes ==
  /\ Test1[2048] = 162 /\ Test1[2049] = 0 /\ Test1[2050] = 232 /\ Test1[2051] = 224
  /\ Test1[2052] = 5 /\ Test1[2053] = 208 /\ Test1[2054] = 251 /\ Test1[2055] = 0
  /\ DOMAIN Test1 = 2048..2055
  BY SMT DEF Test1, Code

\* The second self-test.
LEMMA Test2Bytes ==
  /\ Test2[2304] = 169 /\ Test2[2305] = 17 /\ Test2[2306] = 32 /\ Test2[2307] = 9
  /\ Test2[2308] = 9 /\ Test2[2309] = 133 /\ Test2[2310] = 16 /\ Test2[2311] = 0
  /\ Test2[2313] = 169 /\ Test2[2314] = 34 /\ Test2[2315] = 96
  /\ DOMAIN Test2 = 2304..2315
  BY SMT DEF Test2, Code
\* Where test1_loop is after so many steps: X counts, and Z tells its end.
LoopAt ==
  \/ /\ ~cpu.halted
     /\ \/ cpu.pc = 2048 /\ steps = 0
        \/ cpu.pc = 2050 /\ cpu.x \in 0..4 /\ steps = 3 * cpu.x + 1
        \/ cpu.pc = 2051 /\ cpu.x \in 1..5 /\ steps = 3 * cpu.x - 1
        \/ cpu.pc = 2053 /\ cpu.x \in 1..5 /\ steps = 3 * cpu.x /\ ("Z" \in cpu.p <=> cpu.x = 5)
        \/ cpu.pc = 2055 /\ cpu.x = 5 /\ steps = 16 /\ "Z" \in cpu.p
  \/ cpu.halted /\ cpu.x = 5 /\ "Z" \in cpu.p

\* Every step of the first self-test leads to its next place.
LEMMA LoopKept ==
  ASSUME CpuInv, cpu6502_step, Loaded(c64_ram, Test1), LoopAt, steps' = steps + 1
  PROVE  c64_ram' = c64_ram /\ LoopAt'
<1>1. /\ Ram(2048) = 162 /\ Ram(2049) = 0 /\ Ram(2050) = 232 /\ Ram(2051) = 224
      /\ Ram(2052) = 5 /\ Ram(2053) = 208 /\ Ram(2054) = 251 /\ Ram(2055) = 0
  BY Test1Bytes, RamIsAt DEF Loaded
<1>2. ~cpu.halted
  BY DEF cpu6502_step
<1>3. \A pc \in {2048, 2050, 2051, 2053, 2055} : cpu.pc = pc => Comes(pc, Ram(pc))
  BY DEF Comes, Plainly
<1>4. CASE cpu.pc = 2048 /\ steps = 0
  <2>1. Comes(2048, 162) /\ 2048 + 1 = 2049 /\ 2048 + 2 = 2050 /\ 0 \in Byte
    BY <1>1, <1>3, <1>4 DEF Byte
  <2>2. cpu'.pc = 2050 /\ ~cpu'.halted /\ c64_ram' = c64_ram /\ cpu'.x = 0
    BY <1>1, <2>1, LoadRuns
  <2> QED
    BY <1>4, <2>2 DEF LoopAt
<1>5. CASE cpu.pc = 2050 /\ cpu.x \in 0..4 /\ steps = 3 * cpu.x + 1
  <2>1. Comes(2050, 232) /\ 2050 + 1 = 2051
    BY <1>1, <1>3, <1>5
  <2>2. /\ cpu'.pc = 2051 /\ ~cpu'.halted /\ c64_ram' = c64_ram
        /\ cpu'.x = (cpu.x + 1) % 256
    BY <2>1, CountRuns
  <2>3. cpu'.x = cpu.x + 1
    BY <1>5, <2>2
  <2> QED
    BY <1>5, <2>2, <2>3 DEF LoopAt
<1>6. CASE cpu.pc = 2051 /\ cpu.x \in 1..5 /\ steps = 3 * cpu.x - 1
  <2>1. Comes(2051, 224) /\ 2051 + 1 = 2052 /\ 2051 + 2 = 2053 /\ 5 \in Byte
    BY <1>1, <1>3, <1>6 DEF Byte
  <2>2. /\ cpu'.pc = 2053 /\ ~cpu'.halted /\ c64_ram' = c64_ram
        /\ cpu'.x = cpu.x /\ ("Z" \in cpu'.p <=> cpu.x = 5)
    BY <1>1, <2>1, CompareRuns
  <2> QED
    BY <1>6, <2>2 DEF LoopAt
<1>7. CASE /\ cpu.pc = 2053 /\ cpu.x \in 1..5 /\ steps = 3 * cpu.x
           /\ ("Z" \in cpu.p <=> cpu.x = 5)
  <2>1. Comes(2053, 208) /\ 2053 + 1 = 2054 /\ 2053 + 2 = 2055 /\ 2053 - 3 = 2050 /\ 2053 > 10
    BY <1>1, <1>3, <1>7
  <2>2. /\ cpu'.pc = (IF "Z" \in cpu.p THEN 2055 ELSE 2050)
        /\ ~cpu'.halted /\ c64_ram' = c64_ram /\ cpu'.x = cpu.x /\ cpu'.p = cpu.p
    BY <1>1, <2>1, BranchRuns
  <2>3. CASE cpu.x = 5
    BY <1>7, <2>2, <2>3 DEF LoopAt
  <2>4. CASE cpu.x \in 1..4
    <3>1. cpu'.pc = 2050 /\ cpu'.x \in 0..4
      BY <1>7, <2>2, <2>4
    <3>2. steps' = 3 * cpu'.x + 1
      BY <1>7, <2>2
    <3> QED
      BY <2>2, <3>1, <3>2 DEF LoopAt
  <2> QED
    BY <1>7, <2>3, <2>4
<1>8. CASE cpu.pc = 2055 /\ cpu.x = 5 /\ steps = 16 /\ "Z" \in cpu.p
  <2>1. Comes(2055, 0)
    BY <1>1, <1>3, <1>8
  <2> QED
    BY <1>8, <2>1, BreakRuns DEF LoopAt
<1> QED
  BY <1>2, <1>4, <1>5, <1>6, <1>7, <1>8 DEF LoopAt

\* The return address of test2_jsr_rts, the last byte of its JSR, on the stack.
OnStack == cpu.sp = 251 /\ At(c64_ram, 508) = 4 /\ At(c64_ram, 509) = 9

\* Where test2_jsr_rts is after so many steps.
CallAt ==
  \/ /\ ~cpu.halted
     /\ \/ cpu.pc = 2304 /\ steps = 0 /\ cpu.sp = 253
        \/ cpu.pc = 2306 /\ steps = 1 /\ cpu.sp = 253
        \/ cpu.pc = 2313 /\ steps = 2 /\ OnStack
        \/ cpu.pc = 2315 /\ steps = 3 /\ OnStack /\ cpu.a = 34
        \/ cpu.pc = 2309 /\ steps = 4 /\ cpu.a = 34
        \/ cpu.pc = 2311 /\ steps = 5 /\ cpu.a = 34 /\ At(c64_ram, 16) = 34
  \/ cpu.halted /\ cpu.a = 34 /\ At(c64_ram, 16) = 34

\* A store elsewhere leaves the program alone.
LEMMA StoredAway ==
  ASSUME NEW m, NEW addr, NEW v, addr \notin 2304..2315, Loaded(m, Test2)
  PROVE  Loaded(Stored(m, addr, v), Test2)
  BY Test2Bytes, StoredAt DEF Loaded

\* No other byte of the memory changes.
SameBut(written) == \A n \in Word \ written : At(c64_ram', n) = At(c64_ram, n)

\* Every step of the second self-test leads to its next place.
LEMMA CallKept ==
  ASSUME CpuInv, cpu6502_step, Loaded(c64_ram, Test2), CallAt, steps' = steps + 1
  PROVE  Loaded(c64_ram', Test2) /\ CallAt' /\ SameBut({16, 508, 509})
<1>1. /\ Ram(2304) = 169 /\ Ram(2305) = 17 /\ Ram(2306) = 32 /\ Ram(2307) = 9
      /\ Ram(2308) = 9 /\ Ram(2309) = 133 /\ Ram(2310) = 16 /\ Ram(2311) = 0
      /\ Ram(2313) = 169 /\ Ram(2314) = 34 /\ Ram(2315) = 96
  BY Test2Bytes, RamIsAt DEF Loaded
<1>2. ~cpu.halted
  BY DEF cpu6502_step
<1>3. \A pc \in {2304, 2306, 2309, 2311, 2313, 2315} : cpu.pc = pc => Comes(pc, Ram(pc))
  BY DEF Comes, Plainly
<1>4. CASE cpu.pc = 2304 /\ steps = 0 /\ cpu.sp = 253
  <2>1. Comes(2304, 169) /\ 2304 + 1 = 2305 /\ 2304 + 2 = 2306 /\ 17 \in Byte
    BY <1>1, <1>3, <1>4 DEF Byte
  <2>2. cpu'.pc = 2306 /\ ~cpu'.halted /\ c64_ram' = c64_ram /\ cpu'.sp = cpu.sp
    BY <1>1, <2>1, LoadRuns
  <2> QED
    BY <1>4, <2>2 DEF CallAt, SameBut
<1>5. CASE cpu.pc = 2306 /\ steps = 1 /\ cpu.sp = 253
  <2> DEFINE m == Stored(c64_ram, 509, 9)
  <2>1. Comes(2306, 32) /\ 2306 + 1 = 2307 /\ 2306 + 2 = 2308
    BY <1>1, <1>3, <1>5
  <2>2. /\ cpu'.pc = 9 + 256 * 9 /\ ~cpu'.halted /\ cpu'.sp = SpPlus(-2)
        /\ c64_ram' = push8(push8(c64_ram, cpu.sp, 2308 \div 256), cpu.sp - 1, 2308 % 256)
    BY <1>1, <2>1, CallRuns
  <2>3. 2308 \div 256 = 9 /\ 2308 % 256 = 4 /\ 9 + 256 * 9 = 2313
    BY SMT
  <2>4. SpPlus(-2) = 251
    BY <1>5 DEF SpPlus
  <2>5. c64_ram' = Stored(m, 508, 4)
    BY <1>5, <2>2, <2>3 DEF push8
  <2>6. Loaded(m, Test2)
    BY StoredAway
  <2>7. At(m, 509) = 9
    BY StoredAt
  <2> HIDE DEF m
  <2>8. At(c64_ram', 508) = 4 /\ At(c64_ram', 509) = 9
    BY <2>5, <2>7, StoredAt
  <2>9. Loaded(c64_ram', Test2)
    BY <2>5, <2>6, StoredAway
  <2>10. SameBut({16, 508, 509})
    <3>1. \A n : n \notin {508, 509} => At(m, n) = At(c64_ram, n)
      BY StoredAt DEF m
    <3> QED
      BY <2>5, <3>1, StoredAt DEF SameBut
  <2> QED
    BY <1>5, <2>2, <2>3, <2>4, <2>8, <2>9, <2>10 DEF CallAt, OnStack
<1>6. CASE cpu.pc = 2313 /\ steps = 2 /\ OnStack
  <2>1. Comes(2313, 169) /\ 2313 + 1 = 2314 /\ 2313 + 2 = 2315 /\ 34 \in Byte
    BY <1>1, <1>3, <1>6 DEF Byte
  <2>2. /\ cpu'.pc = 2315 /\ ~cpu'.halted /\ c64_ram' = c64_ram /\ cpu'.sp = cpu.sp
        /\ cpu'.a = 34
    BY <1>1, <2>1, LoadRuns
  <2> QED
    BY <1>6, <2>2 DEF CallAt, OnStack, SameBut
<1>7. CASE cpu.pc = 2315 /\ steps = 3 /\ OnStack /\ cpu.a = 34
  <2>1. Comes(2315, 96)
    BY <1>1, <1>3, <1>7
  <2>2. /\ cpu'.pc = (pop8(1) + 256 * pop8(2) + 1) % 65536 /\ ~cpu'.halted
        /\ cpu'.a = cpu.a /\ c64_ram' = c64_ram
    BY <2>1, ReturnRuns
  <2>3. pop8(1) = 4 /\ pop8(2) = 9
    <3>1. 256 + ((251 + 1) % 256) = 508 /\ 256 + ((251 + 2) % 256) = 509
      BY SMT
    <3> QED
      BY <1>7, <3>1, RamIsAt DEF pop8, OnStack
  <2>4. (4 + 256 * 9 + 1) % 65536 = 2309
    BY SMT
  <2>5. cpu'.pc = 2309
    BY <2>2, <2>3, <2>4
  <2> QED
    BY <1>7, <2>2, <2>5 DEF CallAt, SameBut
<1>8. CASE cpu.pc = 2309 /\ steps = 4 /\ cpu.a = 34
  <2>1. Comes(2309, 133) /\ 2309 + 1 = 2310 /\ 2309 + 2 = 2311
    BY <1>1, <1>3, <1>8
  <2>2. /\ cpu'.pc = 2311 /\ ~cpu'.halted /\ cpu'.a = 34
        /\ c64_ram' = Stored(c64_ram, 16, 34)
    BY <1>1, <1>8, <2>1, StoreRuns
  <2>3. At(c64_ram', 16) = 34 /\ Loaded(c64_ram', Test2)
    BY <2>2, StoredAt, StoredAway
  <2>4. SameBut({16, 508, 509})
    BY <2>2, StoredAt DEF SameBut
  <2> QED
    BY <1>8, <2>2, <2>3, <2>4 DEF CallAt
<1>9. CASE cpu.pc = 2311 /\ steps = 5 /\ cpu.a = 34 /\ At(c64_ram, 16) = 34
  <2>1. Comes(2311, 0)
    BY <1>1, <1>3, <1>9
  <2> QED
    BY <1>9, <2>1, BreakRuns DEF CallAt, SameBut
<1> QED
  BY <1>2, <1>4, <1>5, <1>6, <1>7, <1>8, <1>9 DEF CallAt

\* The inductive invariant.
SelfTestInv ==
  /\ GuestInv
  /\ host = "test1" => Loaded(c64_ram, Test1) /\ LoopAt
  /\ host = "test2" => Loaded(c64_ram, Test2) /\ CallAt
  /\ SelfTestsPass

\* Every step keeps the self-tests in their places.
LEMMA SelfTestKept == ASSUME MaxSteps >= 17, SelfTestInv, [Next]_vars PROVE SelfTestInv'
<1>1. GuestInv /\ GuestInv' /\ CpuInv
  BY NextKeeps DEF SelfTestInv, GuestInv
<1>2. SUFFICES /\ host' = "test1" => Loaded(c64_ram', Test1) /\ LoopAt'
               /\ host' = "test2" => Loaded(c64_ram', Test2) /\ CallAt'
               /\ SelfTestsPass'
  BY <1>1 DEF SelfTestInv
<1>3. MaxSteps \in Nat
  BY GuestAssumption
<1>4. CASE UNCHANGED vars
  BY <1>4 DEF vars, hostVars, cpuVars, memVars, SelfTestInv, SelfTestsPass, LoopAt, CallAt, OnStack
<1>5. CASE cmd_c64boot \/ Resume \/ GuestStep \/ HostIrq \/ Leave
  <2>1. host' \in {"shell", "session"} /\ verdicts' = verdicts
    BY <1>5 DEF cmd_c64boot, Resume, GuestStep, HostIrq, Leave, EnterSession
  <2> QED
    BY <2>1 DEF SelfTestInv, SelfTestsPass
<1>6. CASE cpu6502_run_test
  <2>1. /\ host' = "test1" /\ verdicts' = verdicts /\ steps' = 0
        /\ c64_ram' = Overlay(c64_ram, Test1) /\ cpu' = cpu6502_reset(2048)
    BY <1>6 DEF cpu6502_run_test, Restart
  <2>2. cpu'.pc = 2048 /\ ~cpu'.halted
    BY <2>1 DEF cpu6502_reset
  <2> QED
    BY <2>1, <2>2, OverlayLoads DEF SelfTestInv, SelfTestsPass, LoopAt
<1>7. CASE TestStep
  <2>1. /\ cpu6502_step /\ steps' = steps + 1 /\ host' = host /\ verdicts' = verdicts
    BY <1>7 DEF TestStep
  <2>2. ASSUME host = "test1" PROVE Loaded(c64_ram', Test1) /\ LoopAt'
    BY <1>1, <2>1, <2>2, LoopKept DEF SelfTestInv
  <2>3. ASSUME host = "test2" PROVE Loaded(c64_ram', Test2) /\ CallAt'
    BY <1>1, <2>1, <2>3, CallKept DEF SelfTestInv
  <2> QED
    BY <2>1, <2>2, <2>3 DEF SelfTestInv, SelfTestsPass
<1>8. CASE EndTest1
  <2>1. /\ host = "test1" /\ TestOver /\ host' = "test2" /\ steps' = 0
        /\ verdicts' = [verdicts EXCEPT !.test1 =
                          Verdict(cpu.x = 5 /\ "Z" \in cpu.p /\ cpu.halted)]
        /\ c64_ram' = Overlay(c64_ram, Test2) /\ cpu' = cpu6502_reset(2304)
    BY <1>8 DEF EndTest1, Restart
  <2>2. cpu.halted /\ cpu.x = 5 /\ "Z" \in cpu.p
    BY <1>3, <2>1 DEF SelfTestInv, LoopAt, TestOver
  <2>3. verdicts' = [verdicts EXCEPT !.test1 = "PASS"]
    BY <2>1, <2>2 DEF Verdict
  <2>4. verdicts \in [test1 : {"none", "PASS", "FAIL"}, test2 : {"none", "PASS", "FAIL"}]
    BY <1>1 DEF GuestInv, HostTypes
  <2>5. SelfTestsPass'
    BY <2>3, <2>4 DEF SelfTestInv, SelfTestsPass
  <2>6. cpu'.pc = 2304 /\ ~cpu'.halted /\ cpu'.sp = 253
    BY <2>1 DEF cpu6502_reset
  <2> QED
    BY <2>1, <2>5, <2>6, OverlayLoads DEF CallAt
<1>9. CASE EndTest2
  <2>1. /\ host = "test2" /\ TestOver /\ host' = "shell"
        /\ verdicts' = [verdicts EXCEPT !.test2 =
                          Verdict(cpu.a = 34 /\ Ram(16) = 34 /\ cpu.halted)]
    BY <1>9 DEF EndTest2
  <2>2. cpu.halted /\ cpu.a = 34 /\ Ram(16) = 34
    BY <1>3, <2>1, RamIsAt DEF SelfTestInv, CallAt, TestOver
  <2>3. verdicts' = [verdicts EXCEPT !.test2 = "PASS"]
    BY <2>1, <2>2 DEF Verdict
  <2>4. verdicts \in [test1 : {"none", "PASS", "FAIL"}, test2 : {"none", "PASS", "FAIL"}]
    BY <1>1 DEF GuestInv, HostTypes
  <2>5. SelfTestsPass'
    BY <2>3, <2>4 DEF SelfTestInv, SelfTestsPass
  <2> QED
    BY <2>1, <2>5
<1> QED
  BY <1>4, <1>5, <1>6, <1>7, <1>8, <1>9 DEF Next

\* It holds at any time.
LEMMA SelfTestInvariant == ASSUME MaxSteps >= 17 PROVE Spec => []SelfTestInv
<1>1. Init => SelfTestInv
  <2>1. Init => host = "shell" /\ SelfTestsPass
    BY DEF Init, SelfTestsPass
  <2> QED
    BY <2>1, InitOK DEF SelfTestInv
<1>2. SelfTestInv /\ [Next]_vars => SelfTestInv'
  BY SelfTestKept
<1> QED
  BY <1>1, <1>2, PTL DEF Spec

\* A program that is loaded changes no byte beside it.
LEMMA OverlayBeside ==
  ASSUME NEW m, NEW f, NEW n, n \notin DOMAIN f
  PROVE  At(Overlay(m, f), n) = At(m, n)
  BY DEF Overlay, At

\* Both self-tests pass whenever they are run, whatever the memory holds and
\* whatever guest they interrupt, if max_steps is at least the 17 instructions
\* that the longer one takes; the code has 100 (cpu6502_test.c).  What CPUTEST
\* does to that guest is this and no more: a few bytes of memory change; its
\* struct is set aside, stays as it was through both programs, and comes back.
\* A C64RESUME after it goes on where the guest was.
THEOREM SelfTestsSpareGuestHolds == ASSUME MaxSteps >= 17 PROVE Spec => SelfTestsSpareGuest
<1>1. SelfTestInv /\ SelfTestInv' /\ [Next]_vars => [Testing \/ Testing' => SparesOtherBytes]_vars
  <2> SUFFICES ASSUME SelfTestInv, SelfTestInv', Next, Testing \/ Testing'
               PROVE  SparesOtherBytes
    OBVIOUS
  <2>1. ASSUME cmd_c64boot \/ Resume \/ GuestStep \/ HostIrq \/ Leave PROVE SameBut(Footprint)
    BY <2>1 DEF cmd_c64boot, Resume, GuestStep, HostIrq, Leave, EnterSession, Testing
  <2>2. ASSUME cpu6502_run_test PROVE SameBut(Footprint)
    <3>1. c64_ram' = Overlay(c64_ram, Test1)
      BY <2>2 DEF cpu6502_run_test, Restart
    <3> QED
      BY <3>1, OverlayBeside, Test1Bytes DEF SameBut, Footprint
  <2>3. ASSUME TestStep PROVE SameBut(Footprint)
    <3>1. cpu6502_step /\ steps' = steps + 1 /\ CpuInv
      BY <2>3 DEF TestStep, SelfTestInv, GuestInv
    <3>2. CASE host = "test1"
      BY <3>1, <3>2, LoopKept DEF SelfTestInv, SameBut
    <3>3. CASE host = "test2"
      BY <3>1, <3>3, CallKept DEF SelfTestInv, SameBut, Footprint
    <3> QED
      BY <2>3, <3>2, <3>3 DEF TestStep, Testing
  <2>4. ASSUME EndTest1 PROVE SameBut(Footprint)
    <3>1. c64_ram' = Overlay(c64_ram, Test2)
      BY <2>4 DEF EndTest1, Restart
    <3> QED
      BY <3>1, OverlayBeside, Test2Bytes DEF SameBut, Footprint
  <2>5. ASSUME EndTest2 PROVE SameBut(Footprint)
    BY <2>5 DEF EndTest2, SameBut
  <2>6. SameBut(Footprint)
    BY <2>1, <2>2, <2>3, <2>4, <2>5 DEF Next
  <2>7. CpuTypes /\ CpuTypes'
    BY DEF SelfTestInv, GuestInv, CpuInv
  <2>8. DOMAIN c64_ram \subseteq Word /\ DOMAIN c64_ram' \subseteq Word
    BY <2>7 DEF CpuTypes
  <2> QED
    BY <2>6, <2>8 DEF SameBut, SparesOtherBytes, Ram, At
<1>2. [Next]_vars => [IF Testing THEN IF Testing' THEN parked' = parked ELSE cpu' = parked
                      ELSE Testing' => parked' = cpu]_vars
  BY DEF Next, cmd_c64boot, Resume, GuestStep, HostIrq, Leave, EnterSession, cpu6502_run_test,
     TestStep, EndTest1, EndTest2, Testing
<1>3. SelfTestInv => SelfTestsPass
  BY DEF SelfTestInv
<1> QED
  BY <1>1, <1>2, <1>3, SelfTestInvariant, PTL DEF Spec, SelfTestsSpareGuest

----------------------------------------------------------------------------
(* Interrupts and calls, and the way back *)

\* The bits of a sum of weights.
LEMMA BitsOfSum ==
  ASSUME NEW c \in {0, 1}, NEW z \in {0, 1}, NEW i \in {0, 1}, NEW d \in {0, 1},
         NEW b \in {0, 1}, NEW u \in {0, 1}, NEW v \in {0, 1}, NEW n \in {0, 1},
         NEW t, t = c + 2 * z + 4 * i + 8 * d + 16 * b + 32 * u + 64 * v + 128 * n
  PROVE  /\ (t \div 1) % 2 = c /\ (t \div 2) % 2 = z /\ (t \div 4) % 2 = i /\ (t \div 8) % 2 = d
         /\ (t \div 16) % 2 = b /\ (t \div 32) % 2 = u /\ (t \div 64) % 2 = v /\ (t \div 128) % 2 = n
  OBVIOUS

\* A status pushed as a byte has the bits it had.
LEMMA BitsFromBits == ASSUME NEW s \in SUBSET Flag PROVE Bits(FromBits(s)) = s
<1> DEFINE On(f) == IF f \in s THEN 1 ELSE 0
           t == FromBits(s)
<1>1. \A f \in Flag : On(f) \in {0, 1} /\ (On(f) = 1 <=> f \in s)
  OBVIOUS
<1>2. t = On("C") + 2 * On("Z") + 4 * On("I") + 8 * On("D") + 16 * On("B") + 32 * On("U")
            + 64 * On("V") + 128 * On("N")
  BY SMT DEF FromBits, BitValue, Weight
<1> HIDE DEF On, t
<1>3. /\ (t \div 1) % 2 = On("C") /\ (t \div 2) % 2 = On("Z") /\ (t \div 4) % 2 = On("I")
      /\ (t \div 8) % 2 = On("D") /\ (t \div 16) % 2 = On("B") /\ (t \div 32) % 2 = On("U")
      /\ (t \div 64) % 2 = On("V") /\ (t \div 128) % 2 = On("N")
  <2>1. /\ On("C") \in {0, 1} /\ On("Z") \in {0, 1} /\ On("I") \in {0, 1} /\ On("D") \in {0, 1}
        /\ On("B") \in {0, 1} /\ On("U") \in {0, 1} /\ On("V") \in {0, 1} /\ On("N") \in {0, 1}
    BY <1>1 DEF Flag
  <2> DEFINE c == On("C")
             z == On("Z")
             i == On("I")
             d == On("D")
             b == On("B")
             u == On("U")
             v == On("V")
             n == On("N")
  <2>2. /\ c \in {0, 1} /\ z \in {0, 1} /\ i \in {0, 1} /\ d \in {0, 1}
        /\ b \in {0, 1} /\ u \in {0, 1} /\ v \in {0, 1} /\ n \in {0, 1}
        /\ t = c + 2 * z + 4 * i + 8 * d + 16 * b + 32 * u + 64 * v + 128 * n
    BY <1>2, <2>1
  <2> HIDE DEF c, z, i, d, b, u, v, n
  <2>3. /\ (t \div 1) % 2 = c /\ (t \div 2) % 2 = z /\ (t \div 4) % 2 = i /\ (t \div 8) % 2 = d
        /\ (t \div 16) % 2 = b /\ (t \div 32) % 2 = u /\ (t \div 64) % 2 = v /\ (t \div 128) % 2 = n
    BY <2>2, BitsOfSum
  <2> QED
    BY <2>3 DEF c, z, i, d, b, u, v, n
<1>4. \A f \in Flag : (t \div Weight[f]) % 2 = On(f)
  BY <1>3 DEF Flag, Weight
<1>5. Bits(t) = {f \in Flag : On(f) = 1}
  BY <1>4 DEF Bits
<1> QED
  BY <1>1, <1>5 DEF t

\* What an RTI goes back to with the bytes s on the stack.
ReturnTo(s) == [pc |-> s[2] + 256 * s[3], p |-> Restored(s[1])]

\* A status without B that is pushed comes back.
LEMMA StatusReturns ==
  ASSUME NEW p \in SUBSET Flag, "B" \notin p, "U" \in p
  PROVE  Restored(FromBits((p \ {"B"}) \cup {"U"})) = p
<1>1. (p \ {"B"}) \cup {"U"} = p
  OBVIOUS
<1> QED
  BY <1>1, BitsFromBits DEF Restored

\* The bytes of a word put together again.
LEMMA WordJoins == ASSUME NEW w \in Word PROVE (w % 256) + 256 * (w \div 256) = w
  BY SMT DEF Word

\* The stack k has the bytes t on top of s, of which it keeps what fits.
IsPile(k, t, s) ==
  /\ Len(k) \in Len(t)..256
  /\ \A n \in 1..Len(t) : k[n] = t[n]
  /\ \A n \in (Len(t) + 1)..Len(k) : k[n] = s[n - Len(t)]

\* What lies on a stack on which bytes were pushed.
LEMMA KeptBytes ==
  ASSUME NEW s, Stack(s), NEW t \in Seq(Byte), Len(t) \in 1..3
  PROVE  IsPile(Kept(t \o s), t, s)
<1> DEFINE u == t \o s
<1>0. s \in Seq(Byte) /\ Len(s) <= 256
  BY DEF Stack
<1>1. s \in Seq(Byte) /\ Len(s) \in Nat /\ Len(s) <= 256 /\ Len(t) \in {1, 2, 3}
  BY <1>0
<1>2. /\ u \in Seq(Byte) /\ Len(u) = Len(t) + Len(s)
      /\ \A n \in 1..Len(u) : u[n] = IF n <= Len(t) THEN t[n] ELSE s[n - Len(t)]
  <2>1. \A n \in 1..(Len(t) + Len(s)) : u[n] = IF n <= Len(t) THEN t[n] ELSE s[n - Len(t)]
    BY <1>1
  <2>2. u \in Seq(Byte) /\ Len(u) = Len(t) + Len(s)
    BY <1>1
  <2> QED
    BY <2>1, <2>2
<1> HIDE DEF u
<1> DEFINE k  == Kept(u)
           lk == Len(k)
           lu == Len(u)
           lt == Len(t)
<1>3. lk = (IF lu < 256 THEN lu ELSE 256) /\ \A n \in 1..lk : k[n] = u[n]
  BY <1>2 DEF Kept
<1>4. lt \in 1..3 /\ lu \in Nat /\ lt <= lu
  BY <1>1, <1>2
<1>5. \A n \in 1..lu : u[n] = IF n <= lt THEN t[n] ELSE s[n - lt]
  BY <1>2
<1> HIDE DEF k, lk, lu, lt
<1>6. lk \in lt..256 /\ lk <= lu
  BY <1>3, <1>4
<1>7. \A n \in 1..lk : n \in 1..lu
  BY <1>4, <1>6
<1>8. \A n \in 1..lt : k[n] = t[n]
  BY <1>3, <1>4, <1>5, <1>6, <1>7
<1>9. \A n \in (lt + 1)..lk : k[n] = s[n - lt]
  BY <1>3, <1>4, <1>5, <1>6, <1>7
<1> QED
  BY <1>6, <1>8, <1>9 DEF IsPile, k, u, lk, lt

\* The instruction n is executed.
Executes(n) == Stepping /\ First.instr = n

\* An interrupt is taken, in a session that has booted a guest.
Interrupting == HostIrq /\ image # NoImage /\ "I" \notin cpu.p /\ ~cpu.halted

\* The stack t is s with k bytes on it, but for those that no longer fit.
OnTopOf(t, s, k) == Len(t) >= k /\ \A n \in (k + 1)..Len(t) : t[n] = s[n - k]

\* The address of the byte that is n places above SP.
StackAt(n) == 256 + ((cpu.sp + n) % 256)

\* What is pulled is what was pushed.
LEMMA PullsPushed ==
  ASSUME StackHoldsPushed, NEW n \in 1..Len(pushed)
  PROVE  pop8(n) = pushed[n]
  BY DEF StackHoldsPushed, pop8

\* The places of the three bytes pushed next.
LEMMA StackPlaces ==
  ASSUME cpu.sp \in Int
  PROVE  /\ StackAt(0) = 256 + (cpu.sp % 256)
         /\ StackAt(-1) = 256 + ((cpu.sp - 1) % 256) /\ StackAt(-2) = 256 + ((cpu.sp - 2) % 256)
<1>1. cpu.sp + 0 = cpu.sp /\ cpu.sp + (-1) = cpu.sp - 1 /\ cpu.sp + (-2) = cpu.sp - 2
  OBVIOUS
<1> QED
  BY <1>1 DEF StackAt

\* Pushes change the bytes where the pointer was.
LEMMA PushesBeside ==
  ASSUME cpu.sp \in Int, NEW m, NEW a, NEW b
  PROVE  \A n : n # StackAt(0) /\ n # StackAt(-1) =>
           At(push8(push8(m, cpu.sp, a), cpu.sp - 1, b), n) = At(m, n)
<1> DEFINE m1 == push8(m, cpu.sp, a)
<1>1. \A n : n # StackAt(0) => At(m1, n) = At(m, n)
  BY StackPlaces, StoredAt DEF push8
<1> HIDE DEF m1
<1>2. \A n : n # StackAt(-1) => At(push8(m1, cpu.sp - 1, b), n) = At(m1, n)
  BY StackPlaces, StoredAt DEF push8
<1> QED
  BY <1>1, <1>2 DEF m1

\* An interrupt that is taken, and what it leaves for the RTI.
LEMMA InterruptLeaves ==
  ASSUME GuestInv, Interrupting
  PROVE  /\ ReturnTo(pushed') = [pc |-> cpu.pc, p |-> cpu.p]
         /\ OnTopOf(pushed', pushed, 3)
         /\ cpu' = [cpu EXCEPT !.sp = SpPlus(-3), !.p = @ \cup {"I"}, !.pc = Vector(IrqVector)]
         /\ SameBut({StackAt(0), StackAt(-1), StackAt(-2)})
<1> DEFINE p  == FromBits((cpu.p \ {"B"}) \cup {"U"})
           lo == cpu.pc % 256
           hi == cpu.pc \div 256
           t  == <<p, lo, hi>>
           m2 == push8(push8(c64_ram, cpu.sp, hi), cpu.sp - 1, lo)
<1>1. /\ c64_ram' = push8(m2, cpu.sp - 2, p) /\ pushed' = Kept(t \o pushed)
      /\ cpu' = [cpu EXCEPT !.sp = SpPlus(-3), !.p = @ \cup {"I"}, !.pc = Vector(IrqVector)]
  BY DEF Interrupting, HostIrq, cpu6502_irq, Interrupted
<1>2. /\ cpu.p \in SUBSET Flag /\ cpu.pc \in Word /\ Stack(pushed) /\ cpu.sp \in Int
      /\ "B" \notin cpu.p /\ "U" \in cpu.p
  BY CpuFacts DEF GuestInv, CpuInv, StatusBits, Interrupting
<1>3. Restored(p) = cpu.p /\ p \in Byte
  BY <1>2, StatusReturns, FromBitsByte
<1>4. lo \in Byte /\ hi \in Byte /\ lo + 256 * hi = cpu.pc
  BY <1>2, WordBytes, WordJoins
<1>5. SameBut({StackAt(0), StackAt(-1), StackAt(-2)})
  <2>1. \A n : n # StackAt(0) /\ n # StackAt(-1) => At(m2, n) = At(c64_ram, n)
    BY <1>2, PushesBeside
  <2> HIDE DEF m2, p
  <2>2. \A n : n # StackAt(-2) => At(c64_ram', n) = At(m2, n)
    BY <1>1, <1>2, StackPlaces, StoredAt DEF push8
  <2> QED
    BY <2>1, <2>2 DEF SameBut
<1> HIDE DEF p, lo, hi
<1>6. t \in Seq(Byte) /\ Len(t) = 3 /\ t[1] = p /\ t[2] = lo /\ t[3] = hi
  BY <1>3, <1>4
<1> HIDE DEF t
<1>7. /\ Len(pushed') \in 3..256 /\ \A n \in 1..3 : pushed'[n] = t[n]
      /\ \A n \in 4..Len(pushed') : pushed'[n] = pushed[n - 3]
  <2>1. Len(t) \in 1..3 /\ 3 + 1 = 4
    BY <1>6
  <2> HIDE DEF m2
  <2> DEFINE k == Kept(t \o pushed)
  <2>2. IsPile(k, t, pushed)
    BY <1>2, <1>6, <2>1, KeptBytes
  <2>3. pushed' = k
    BY <1>1
  <2> HIDE DEF k
  <2> QED
    BY <1>6, <2>1, <2>2, <2>3 DEF IsPile
<1>8. OnTopOf(pushed', pushed, 3)
  BY <1>7 DEF OnTopOf
<1>9. pushed'[1] = p /\ pushed'[2] = lo /\ pushed'[3] = hi
  BY <1>6, <1>7
<1>10. ReturnTo(pushed') = [pc |-> cpu.pc, p |-> cpu.p]
  BY <1>3, <1>4, <1>9 DEF ReturnTo
<1> QED
  BY <1>1, <1>5, <1>8, <1>10

\* An RTI goes back to what is on the stack.
LEMMA RtiReturns ==
  ASSUME GuestInv, [Next]_vars, Executes("RTI"), Len(pushed) >= 3
  PROVE  /\ cpu' = [cpu EXCEPT !.sp = SpPlus(3), !.pc = ReturnTo(pushed).pc, !.p = ReturnTo(pushed).p]
         /\ pushed' = SubSeq(pushed, 4, Len(pushed)) /\ c64_ram' = c64_ram
<1>1. Execute(First)
  BY SteppingIsStep DEF cpu6502_step, Executes
<1>2. RTI(First)
  BY <1>1
  DEF Executes, Execute, Load, Store, Transfer, TXS, Push, Pull, FlagOp, CountRegister, CountMemory,
      Compare, Logic, BIT, Arithmetic, ShiftAccumulator, ShiftMemory, Branch, JMP, JSR, RTS, RTI,
      NOP, Halt
<1>3. First \in Insn(First.instr, First.mode) /\ cpu \in Struct /\ Stack(pushed)
  BY FirstOK, CpuFacts DEF GuestInv, CpuInv
<1>4. pop8(1) = pushed[1] /\ pop8(2) = pushed[2] /\ pop8(3) = pushed[3]
  <2>1. Len(pushed) \in Nat
    BY <1>3 DEF Stack
  <2>2. 1 \in 1..Len(pushed) /\ 2 \in 1..Len(pushed) /\ 3 \in 1..Len(pushed)
    BY <2>1
  <2> QED
    BY <2>2, PullsPushed DEF GuestInv, CpuInv
<1> DEFINE to == pushed[2] + 256 * pushed[3]
           q  == Restored(pushed[1])
           j  == [First EXCEPT !.v = to]
           k  == [j EXCEPT !.pc = j.v]
<1>5. Finish([cpu EXCEPT !.sp = SpPlus(3), !.p = q], k) /\ Popped(3)
  BY <1>2, <1>4 DEF RTI, Jump
<1> HIDE DEF to, q
<1>6. k.pc = to
  BY <1>3 DEF Insn
<1> HIDE DEF k
<1>7. cpu' = [cpu EXCEPT !.sp = SpPlus(3), !.pc = to, !.p = q]
  BY <1>3, <1>5, <1>6 DEF Finish, Struct
<1>8. ReturnTo(pushed).pc = to /\ ReturnTo(pushed).p = q
  BY DEF ReturnTo, to, q
<1>9. pushed' = SubSeq(pushed, 4, Len(pushed)) /\ c64_ram' = c64_ram
  <2>1. Len(pushed) \in Nat /\ ~(Len(pushed) < 3)
    BY <1>3 DEF Stack
  <2> QED
    BY <1>5, <2>1 DEF Popped
<1> QED
  BY <1>7, <1>8, <1>9

\* An interrupt and the RTI of its handler.  Whatever the guest was doing, what
\* cpu6502_irq leaves on top of the stack is what RTI will take for the PC and the
\* status that it interrupted, and beside the pointer, PC and I it changes three
\* bytes below the stack; and an RTI gives back just those two and the pointer.  A
\* handler that keeps A, X and Y and its stack in order is not noticed.
THEOREM InterruptsReturn ==
  Spec => /\ [][Interrupting =>
                  /\ ReturnTo(pushed') = [pc |-> cpu.pc, p |-> cpu.p]
                  /\ OnTopOf(pushed', pushed, 3)
                  /\ cpu' = [cpu EXCEPT !.sp = SpPlus(-3), !.p = @ \cup {"I"}, !.pc = Vector(IrqVector)]
                  /\ SameBut({StackAt(0), StackAt(-1), StackAt(-2)})]_vars
          /\ [][Executes("RTI") /\ Len(pushed) >= 3 =>
                  /\ cpu' = [cpu EXCEPT !.sp = SpPlus(3), !.pc = ReturnTo(pushed).pc,
                                        !.p = ReturnTo(pushed).p]
                  /\ pushed' = SubSeq(pushed, 4, Len(pushed)) /\ c64_ram' = c64_ram]_vars
<1>1. GuestInv /\ [Next]_vars =>
        [Interrupting =>
           /\ ReturnTo(pushed') = [pc |-> cpu.pc, p |-> cpu.p]
           /\ OnTopOf(pushed', pushed, 3)
           /\ cpu' = [cpu EXCEPT !.sp = SpPlus(-3), !.p = @ \cup {"I"}, !.pc = Vector(IrqVector)]
           /\ SameBut({StackAt(0), StackAt(-1), StackAt(-2)})]_vars
  BY InterruptLeaves
<1>2. GuestInv /\ [Next]_vars =>
        [Executes("RTI") /\ Len(pushed) >= 3 =>
           /\ cpu' = [cpu EXCEPT !.sp = SpPlus(3), !.pc = ReturnTo(pushed).pc,
                                 !.p = ReturnTo(pushed).p]
           /\ pushed' = SubSeq(pushed, 4, Len(pushed)) /\ c64_ram' = c64_ram]_vars
  BY RtiReturns
<1> QED
  BY <1>1, <1>2, GuestInvariant, PTL DEF Spec
\* What an RTS goes back to with the bytes s on the stack.
CalledFrom(s) == (s[1] + 256 * s[2] + 1) % 65536

\* A PC one back, and one on again.
LEMMA BackAndOn ==
  ASSUME NEW w \in Word
  PROVE  (w - 1) % 65536 \in Word /\ (((w - 1) % 65536) + 1) % 65536 = w
<1>0. w \in Nat /\ w < 65536
  BY DEF Word
<1>1. \A x \in Nat : x < 65536 => x % 65536 = x
  OBVIOUS
<1>2. (0 - 1) % 65536 = 65535 /\ (65535 + 1) % 65536 = 0
  <2>1. \A x \in (-5)..(-1) : x % 65536 = x + 65536
    OBVIOUS
  <2>2. 0 - 1 = -1 /\ (-1) \in (-5)..(-1) /\ (-1) + 65536 = 65535
    OBVIOUS
  <2>3. (65535 + 1) % 65536 = 0
    BY SMT
  <2> QED
    BY <2>1, <2>2, <2>3
<1>3. CASE w = 0
  <2>1. 65535 \in Word
    BY DEF Word
  <2> QED
    BY <1>2, <1>3, <2>1
<1>4. CASE w # 0
  <2> DEFINE x == w - 1
  <2>1. x \in Nat /\ x < 65536 /\ x + 1 = w
    BY <1>0, <1>4
  <2> HIDE DEF x
  <2>2. x % 65536 = x /\ x \in Word /\ w % 65536 = w
    BY <1>0, <1>1, <2>1 DEF Word
  <2> QED
    BY <2>1, <2>2 DEF x
<1> QED
  BY <1>3, <1>4

\* A JSR, and what it leaves for the RTS.
LEMMA CallLeaves ==
  ASSUME GuestInv, [Next]_vars, Executes("JSR")
  PROVE  /\ CalledFrom(pushed') = (cpu.pc + 3) % 65536
         /\ OnTopOf(pushed', pushed, 2)
         /\ cpu' = [cpu EXCEPT !.sp = SpPlus(-2), !.pc = fetch16(First).v]
         /\ SameBut({StackAt(0), StackAt(-1)})
<1> DEFINE o  == fetch16(First)
           w  == (o.pc - 1) % 65536
           lo == w % 256
           hi == w \div 256
           t  == <<lo, hi>>
           j  == [o EXCEPT !.pc = o.v]
<1>1. Execute(First)
  BY SteppingIsStep DEF cpu6502_step, Executes
<1>2. JSR(First)
  BY <1>1
  DEF Executes, Execute, Load, Store, Transfer, TXS, Push, Pull, FlagOp, CountRegister, CountMemory,
      Compare, Logic, BIT, Arithmetic, ShiftAccumulator, ShiftMemory, Branch, JMP, JSR, RTS, RTI,
      NOP, Halt
<1>3. /\ First \in Insn(First.instr, First.mode) /\ cpu \in Struct /\ Stack(pushed)
      /\ cpu.sp \in Int /\ cpu.pc \in Word /\ CpuTypes
  BY FirstOK, CpuFacts DEF GuestInv, CpuInv
<1>4. o \in Insn(First.instr, First.mode) /\ o.pc = (cpu.pc + 3) % 65536
  <2>1. First.pc = (cpu.pc + 1) % 65536 /\ o.pc = (First.pc + 2) % 65536
    BY <1>3, FirstIs, Fetch16Pc DEF Past
  <2>2. \A a \in Word : (((a + 1) % 65536) + 2) % 65536 = (a + 3) % 65536
    BY DEF Word
  <2> QED
    BY <1>3, <2>1, <2>2, Fetch16OK
<1>5. /\ c64_ram' = push8(push8(c64_ram, cpu.sp, hi), cpu.sp - 1, lo)
      /\ pushed' = Kept(t \o pushed) /\ Finish([cpu EXCEPT !.sp = SpPlus(-2)], j)
  BY <1>2 DEF JSR, Jump, PushWord
<1> HIDE DEF o
<1>6. o.pc \in Word
  BY <1>4 DEF Insn
<1>7. w \in Word /\ (w + 1) % 65536 = o.pc
  BY <1>6, BackAndOn
<1> HIDE DEF w
<1>8. lo \in Byte /\ hi \in Byte /\ lo + 256 * hi = w
  BY <1>7, WordBytes, WordJoins
<1>9. SameBut({StackAt(0), StackAt(-1)})
  BY <1>3, <1>5, PushesBeside DEF SameBut
<1> HIDE DEF lo, hi
<1>10. cpu' = [cpu EXCEPT !.sp = SpPlus(-2), !.pc = o.v]
  <2>1. j.pc = o.v
    BY <1>4 DEF Insn
  <2> HIDE DEF j
  <2> QED
    BY <1>3, <1>5, <2>1 DEF Finish, Struct
<1>11. t \in Seq(Byte) /\ Len(t) = 2 /\ t[1] = lo /\ t[2] = hi
  BY <1>8
<1> HIDE DEF t
<1>12. IsPile(pushed', t, pushed)
  <2>1. Len(t) \in 1..3
    BY <1>11
  <2> QED
    BY <1>3, <1>5, <1>11, <2>1, KeptBytes
<1>13. OnTopOf(pushed', pushed, 2)
  <2>1. 2 + 1 = 3
    OBVIOUS
  <2> QED
    BY <1>11, <1>12, <2>1 DEF OnTopOf, IsPile
<1>14. pushed'[1] = lo /\ pushed'[2] = hi
  BY <1>11, <1>12 DEF IsPile
<1>15. CalledFrom(pushed') = (w + 1) % 65536
  BY <1>8, <1>14 DEF CalledFrom
<1> QED
  BY <1>4, <1>7, <1>9, <1>10, <1>13, <1>15 DEF o

\* An RTS goes back to what is on the stack.
LEMMA RtsReturns ==
  ASSUME GuestInv, [Next]_vars, Executes("RTS"), Len(pushed) >= 2
  PROVE  /\ cpu' = [cpu EXCEPT !.sp = SpPlus(2), !.pc = CalledFrom(pushed)]
         /\ pushed' = SubSeq(pushed, 3, Len(pushed)) /\ c64_ram' = c64_ram
<1>1. Execute(First)
  BY SteppingIsStep DEF cpu6502_step, Executes
<1>2. RTS(First)
  BY <1>1
  DEF Executes, Execute, Load, Store, Transfer, TXS, Push, Pull, FlagOp, CountRegister, CountMemory,
      Compare, Logic, BIT, Arithmetic, ShiftAccumulator, ShiftMemory, Branch, JMP, JSR, RTS, RTI,
      NOP, Halt
<1>3. First \in Insn(First.instr, First.mode) /\ cpu \in Struct /\ Stack(pushed)
  BY FirstOK, CpuFacts DEF GuestInv, CpuInv
<1>4. Len(pushed) \in Nat /\ ~(Len(pushed) < 2)
  BY <1>3 DEF Stack
<1>5. pop8(1) = pushed[1] /\ pop8(2) = pushed[2]
  <2>1. 1 \in 1..Len(pushed) /\ 2 \in 1..Len(pushed)
    BY <1>4
  <2> QED
    BY <2>1, PullsPushed DEF GuestInv, CpuInv
<1> DEFINE to == (pop8(1) + 256 * pop8(2) + 1) % 65536
           j  == [First EXCEPT !.v = to]
           k  == [j EXCEPT !.pc = j.v]
<1>6. Finish([cpu EXCEPT !.sp = SpPlus(2)], k) /\ Popped(2)
  BY <1>2 DEF RTS, Jump
<1>10. to = CalledFrom(pushed)
  BY <1>5 DEF CalledFrom
<1> HIDE DEF to
<1>7. k.pc = to
  BY <1>3 DEF Insn
<1> HIDE DEF k
<1>8. cpu' = [cpu EXCEPT !.sp = SpPlus(2), !.pc = to]
  BY <1>3, <1>6, <1>7 DEF Finish, Struct
<1>9. pushed' = SubSeq(pushed, 3, Len(pushed)) /\ c64_ram' = c64_ram
  BY <1>4, <1>6 DEF Popped
<1> QED
  BY <1>8, <1>9, <1>10

\* A JSR and the RTS of its subroutine.  JSR leaves on top of the stack the
\* address of its last byte (cpu6502.c: PC - 1), and RTS goes to the one after
\* what it finds there: behind the JSR, also where it lies across the end of
\* memory, and with the stack as it was.
THEOREM CallsReturn ==
  Spec => /\ [][Executes("JSR") =>
                  /\ CalledFrom(pushed') = (cpu.pc + 3) % 65536
                  /\ OnTopOf(pushed', pushed, 2)
                  /\ cpu' = [cpu EXCEPT !.sp = SpPlus(-2), !.pc = fetch16(First).v]
                  /\ SameBut({StackAt(0), StackAt(-1)})]_vars
          /\ [][Executes("RTS") /\ Len(pushed) >= 2 =>
                  /\ cpu' = [cpu EXCEPT !.sp = SpPlus(2), !.pc = CalledFrom(pushed)]
                  /\ pushed' = SubSeq(pushed, 3, Len(pushed)) /\ c64_ram' = c64_ram]_vars
<1>1. GuestInv /\ [Next]_vars =>
        [Executes("JSR") =>
           /\ CalledFrom(pushed') = (cpu.pc + 3) % 65536
           /\ OnTopOf(pushed', pushed, 2)
           /\ cpu' = [cpu EXCEPT !.sp = SpPlus(-2), !.pc = fetch16(First).v]
           /\ SameBut({StackAt(0), StackAt(-1)})]_vars
  BY CallLeaves
<1>2. GuestInv /\ [Next]_vars =>
        [Executes("RTS") /\ Len(pushed) >= 2 =>
           /\ cpu' = [cpu EXCEPT !.sp = SpPlus(2), !.pc = CalledFrom(pushed)]
           /\ pushed' = SubSeq(pushed, 3, Len(pushed)) /\ c64_ram' = c64_ram]_vars
  BY RtsReturns
<1> QED
  BY <1>1, <1>2, GuestInvariant, PTL DEF Spec
=============================================================================
