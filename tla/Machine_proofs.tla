------------------------------ MODULE Machine_proofs ------------------------------
(***************************************************************************)
(* Proofs of the safety properties of Machine, for every value of the      *)
(* constants.                                                              *)
(***************************************************************************)
EXTENDS MachineProps, SequenceTheorems, TLAPS

----------------------------------------------------------------------------
(* Lemmas about the operators the steps are built from *)

\* Decode returns no character or one of Chars.
LEMMA DecodeType ==
  ASSUME NEW b \in Scancodes, NEW shift \in BOOLEAN, Decode(b, shift) # NoChar
  PROVE  Decode(b, shift) \in Chars
  BY DEF Decode, Scancodes, Chars, NoChar

\* Queueing a character other than ESC keeps the buffer well formed, leaves the
\* byte after KEYD alone and what was queued in its place.
LEMMA QueueKeyFacts ==
  ASSUME NEW k \in [ndx : 0..255, keyd : Keyd],
         NEW c \in (Chars \cup {"CR"}) \ {"ESC"}
  PROVE  /\ QueueKey(k, c) \in [ndx : 0..255, keyd : Keyd]
         /\ QueueKey(k, c).keyd[KeydMax] = k.keyd[KeydMax]
         /\ Queued(k) \subseteq Queued(QueueKey(k, c))
<1>1. Petscii(c) \in PetChars
  BY DEF Petscii, PetChars, Chars
<1>2. CASE k.ndx >= KeydMax
  BY <1>2 DEF QueueKey
<1>3. CASE k.ndx < KeydMax
  <2> DEFINE q == [ndx |-> k.ndx + 1, keyd |-> [k.keyd EXCEPT ![k.ndx] = Petscii(c)]]
  <2>1. QueueKey(k, c) = q
    BY <1>3, C64KeysAssumption DEF QueueKey
  <2>2. k.ndx \in 0..KeydMax - 1 /\ k.keyd \in Keyd
    BY <1>3, C64KeysAssumption
  <2>3. q.keyd \in Keyd
    BY <1>1, <2>2, C64KeysAssumption DEF Keyd
  <2>4. q.ndx \in 0..255
    BY <2>2, C64KeysAssumption
  <2>5. q.keyd[KeydMax] = k.keyd[KeydMax]
    BY <2>2, C64KeysAssumption DEF Keyd
  <2>6. \A i \in 0..k.ndx - 1 : q.keyd[i] = k.keyd[i]
    BY <2>2, C64KeysAssumption DEF Keyd
  <2>7. Queued(k) \subseteq Queued(q)
    BY <1>3, <2>2, <2>6, C64KeysAssumption DEF Queued
  <2> QED  BY <2>1, <2>3, <2>4, <2>5, <2>7
<1> QED  BY <1>2, <1>3, C64KeysAssumption

\* The same for the whole of c64_inject_key.
LEMMA InjectedFacts ==
  ASSUME NEW k \in [ndx : 0..255, keyd : Keyd],
         NEW c \in Chars \cup {"CR"}
  PROVE  /\ InjectedInto(k, c) \in [ndx : 0..255, keyd : Keyd]
         /\ InjectedInto(k, c).keyd[KeydMax] = k.keyd[KeydMax]
         /\ Queued(k) \subseteq Queued(InjectedInto(k, c))
BY QueueKeyFacts DEF InjectedInto

\* The guest keeps the buffer well formed and the byte after it alone.
LEMMA GuestFacts ==
  ASSUME NEW k \in [ndx : 0..255, keyd : Keyd], NEW g \in GuestEffects(k)
  PROVE  /\ g \in [ndx : 0..255, keyd : Keyd]
         /\ g.keyd[KeydMax] = k.keyd[KeydMax]
<1>1. CASE g = k
  BY <1>1
<1>2. CASE k.ndx \in 1..KeydMax /\ g = TakeKey(k)
  <2>1. g.ndx \in 0..255 /\ DOMAIN g = {"ndx", "keyd"}
    BY <1>2, C64KeysAssumption DEF TakeKey
  <2>2. g.keyd = [i \in 0..KeydMax |-> IF i + 1 < k.ndx THEN k.keyd[i + 1] ELSE k.keyd[i]]
    BY <1>2 DEF TakeKey
  <2>3. \A i \in 0..KeydMax : g.keyd[i] \in PetChars \cup {Unwritten}
    <3> SUFFICES ASSUME NEW i \in 0..KeydMax
                 PROVE  g.keyd[i] \in PetChars \cup {Unwritten}
      OBVIOUS
    <3>1. k.keyd[i] \in PetChars \cup {Unwritten}
      BY DEF Keyd
    <3>2. i + 1 < k.ndx => i + 1 \in 0..KeydMax
      BY <1>2, C64KeysAssumption
    <3>3. i + 1 < k.ndx => k.keyd[i + 1] \in PetChars \cup {Unwritten}
      BY <3>2 DEF Keyd
    <3> QED  BY <2>2, <3>1, <3>3
  <2>4. g.keyd[KeydMax] = k.keyd[KeydMax]
    BY <1>2, <2>2, C64KeysAssumption DEF Keyd
  <2>5. g.keyd \in Keyd
    BY <2>2, <2>3 DEF Keyd
  <2> QED  BY <1>2, <2>1, <2>4, <2>5 DEF TakeKey
<1>3. CASE \E n \in GuestNdx : g = [k EXCEPT !.ndx = n]
  BY <1>3, C64KeysAssumption
<1> QED  BY <1>1, <1>2, <1>3 DEF GuestEffects

\* What the line editor does to a line shorter than LineMax.
LEMMA LineFacts ==
  ASSUME NEW s \in Seq(Chars), Len(s) < LineMax, NEW c \in Chars
  PROVE  /\ SubSeq(s, 1, Len(s) - 1) \in Seq(Chars)
         /\ Len(SubSeq(s, 1, Len(s) - 1)) < LineMax
         /\ Len(s) < LineMax - 1 => Append(s, c) \in Seq(Chars) /\ Len(Append(s, c)) < LineMax
         /\ s # <<>> => Head(s) \in Chars /\ Tail(s) \in Seq(Chars) /\ Len(Tail(s)) < LineMax
<1>1. LineMax \in Nat \ {0} /\ Len(s) \in Nat
  BY MachineAssumption
<1>2. CASE s = <<>>
  <2>1. SubSeq(s, 1, Len(s) - 1) = <<>>
    BY <1>2
  <2> QED  BY <1>1, <1>2, <2>1
<1>3. CASE s # <<>>
  BY <1>1, <1>3
<1> QED  BY <1>2, <1>3

\* A read of port 0x60 returns a scan code.
LEMMA DataByteType ==
  ASSUME KeyboardTypeOK
  PROVE  DataByte \in Scancodes /\ PolledByte \in Scancodes
<1>1. obuf \in Seq(Scancodes) /\ lastByte \in Scancodes
  BY DEF KeyboardTypeOK
<1>2. CASE obuf = <<>>
  BY <1>1, <1>2 DEF DataByte, PolledByte, Scancodes
<1>3. CASE obuf # <<>>
  <2>1. Head(obuf) \in Scancodes
    BY <1>1, <1>3, HeadTailProperties
  <2> QED  BY <2>1, <1>3 DEF DataByte, PolledByte
<1> QED  BY <1>2, <1>3

\* Reading the data port, by the handler or by the poll, keeps the controller's
\* state well formed.
LEMMA ReadDataType ==
  ASSUME PicTypeOK, KeyboardTypeOK, ReadData
  PROVE  /\ irr' \subseteq Lines
         /\ obuf' \in Seq(Scancodes)
         /\ lastByte' \in Scancodes /\ typed' \in Nat /\ nread' \in Nat
         /\ DataByte \in Scancodes
<1>1. DataByte \in Scancodes
  BY DataByteType
<1>2. obuf' \in Seq(Scancodes)
  BY DEF KeyboardTypeOK, ReadData
<1> QED  BY <1>1, <1>2, LinesAssumption DEF KeyboardTypeOK, PicTypeOK, ReadData, KeyboardLine

\* Polling the keyboard keeps the types of controller and keyboard state.
LEMMA PollType ==
  ASSUME PicTypeOK, KeyboardTypeOK, keyboard_poll_char
  PROVE  /\ irr' \subseteq Lines
         /\ obuf' \in Seq(Scancodes)
         /\ lastByte' \in Scancodes /\ typed' \in Nat /\ nread' \in Nat
         /\ PolledByte \in Scancodes /\ shift_pressed' \in BOOLEAN
<1>1. PolledByte \in Scancodes
  BY DataByteType
<1>2. shift_pressed' \in BOOLEAN
  BY <1>1 DEF keyboard_poll_char, ShiftAfter, KeyboardTypeOK
<1>3. CASE obuf = <<>>
  BY <1>1, <1>2, <1>3 DEF keyboard_poll_char, KeyboardTypeOK, PicTypeOK, kbcVars
<1>4. CASE obuf # <<>>
  BY <1>1, <1>2, <1>4, ReadDataType DEF keyboard_poll_char
<1> QED  BY <1>3, <1>4

----------------------------------------------------------------------------
(* Type correctness *)

\* Each step of kernel_main, of the environment and of interrupt entry and exit.
LEMMA PlainStepType ==
  ASSUME TypeOK,
         \/ Boot \/ SendEoi \/ Iret \/ EndLine \/ TypeRun \/ RunReturn \/ C64Restore
         \/ \E l \in Lines : IrqAccept(l)
         \/ \E l \in Noise : DeviceRequest(l)
         \/ \E b \in Typed : Type(b)
  PROVE  TypeOK'
<1> USE LinesAssumption DEF TypeOK, MainSteps, Contexts, PicTypeOK, KeyboardTypeOK,
        C64TypeOK, picVars, kbcVars, modeVars, c64Vars, histVars
<1>1. CASE BootTables
  BY <1>1 DEF BootTables, MainStep
<1>2. CASE BootRemap
  BY <1>2 DEF BootRemap, MainStep, pic_remap
<1>3. CASE BootInstall
  BY <1>3 DEF BootInstall, MainStep, KeyboardLine
<1>4. CASE BootMask
  BY <1>4 DEF BootMask, MainStep
<1>5. CASE BootSti
  BY <1>5 DEF BootSti, MainStep
<1>6. CASE BootConsole
  BY <1>6 DEF BootConsole, MainStep
<1>7. CASE BootShell
  BY <1>7, MachineAssumption DEF BootShell, MainStep
<1>8. CASE SendEoi
  <2>1. isr' \subseteq isr
    BY <1>8 DEF SendEoi, pic_send_eoi
  <2> QED  BY <1>8, <2>1 DEF SendEoi
<1>9. CASE Iret
  BY <1>9 DEF Iret
<1>10. CASE EndLine
  BY <1>10, MachineAssumption DEF EndLine
<1>11. CASE TypeRun
  BY <1>11 DEF TypeRun
<1>12. CASE RunReturn
  <2>1. c64_mode_active' \in BOOLEAN
    BY <1>12 DEF RunReturn
  <2>2. /\ ctx' = "endline"
        /\ UNCHANGED <<picVars, kbcVars, shift_pressed, f12_pressed, c64Vars, main, cur,
                       ifl, gates, irq_routines, line_buf, killed_by_f12, histVars>>
    BY <1>12 DEF RunReturn
  <2> QED  BY <2>1, <2>2
<1>13. CASE C64Restore
  <2>1. imr' \subseteq Lines
    BY <1>13 DEF C64Restore, pic_clear_mask
  <2> QED  BY <1>13, <2>1 DEF C64Restore
<1>14. ASSUME NEW l \in Lines, IrqAccept(l)
       PROVE  TypeOK'
  <2>1. irr' \subseteq Lines /\ isr' \subseteq Lines /\ imr' \subseteq Lines
    BY <1>14 DEF IrqAccept, Acknowledge
  <2>2. ctx' = "irq" /\ cur' \in Lines /\ ifl' \in BOOLEAN
    BY <1>14 DEF IrqAccept
  <2>3. UNCHANGED <<kbcVars, modeVars, c64Vars, main, gates, irq_routines,
                    line_buf, killed_by_f12, histVars>>
    BY <1>14 DEF IrqAccept
  <2> QED  BY <2>1, <2>2, <2>3
<1>15. ASSUME NEW l \in Noise, DeviceRequest(l)
       PROVE  TypeOK'
  BY <1>15, MachineAssumption DEF DeviceRequest, cpuVars
<1>16. ASSUME NEW b \in Typed, Type(b)
       PROVE  TypeOK'
  <2>1. b \in Scancodes
    BY KeyboardAssumption
  <2>2. obuf' \in Seq(Scancodes)
    BY <1>16, <2>1, AppendProperties DEF Type, TypeByte
  <2>3. typed' \in Nat /\ irr' \subseteq Lines
    BY <1>16 DEF Type, TypeByte, KeyboardLine
  <2> QED  BY <1>16, <2>2, <2>3 DEF Type, TypeByte, cpuVars
<1> QED
  BY <1>1, <1>2, <1>3, <1>4, <1>5, <1>6, <1>7, <1>8, <1>9, <1>10, <1>11, <1>12,
     <1>13, <1>14, <1>15, <1>16 DEF Boot

\* What the commands do to the C64 variables when they are started.
LEMMA InjectType ==
  ASSUME TypeOK, NEW c \in Chars \cup {"CR"}, c64_inject_key(c)
  PROVE  keys' \in [ndx : 0..255, keyd : Keyd] /\ exit_requested' \in BOOLEAN
BY InjectedFacts DEF TypeOK, C64TypeOK, c64_inject_key

\* Every command of shell_execute keeps the types of what it changes.
LEMMA ExecuteType ==
  ASSUME TypeOK, NEW cmd \in Commands, shell_execute(cmd)
  PROVE  /\ C64TypeOK'
         /\ ctx' \in Contexts /\ c64_mode_active' \in BOOLEAN /\ imr' \subseteq Lines
         /\ polled' \subseteq Scancodes /\ killed_by_f12' \in BOOLEAN
<1> USE LinesAssumption DEF TypeOK, Contexts, PicTypeOK, KeyboardTypeOK, C64TypeOK
<1>1. CASE ctx' \in {"endline", "typing", "running"} /\ NoEffect
  BY <1>1 DEF NoEffect
<1>2. CASE cmd_c64key
  <2>1. CASE line_buf = <<>>
    <3>1. ctx' = "endline" /\ NoEffect
      BY <1>2, <2>1, Zenon DEF cmd_c64key
    <3> QED  BY <1>1, <3>1
  <2>2. CASE line_buf # <<>>
    <3>1. Head(line_buf) \in Chars
      BY <2>2, HeadTailProperties
    <3>2. keys' \in [ndx : 0..255, keyd : Keyd] /\ exit_requested' \in BOOLEAN
      BY <1>2, <2>2, <3>1, InjectType DEF cmd_c64key, Inject
    <3> QED  BY <1>2, <2>2, <3>2 DEF cmd_c64key, Inject
  <2> QED  BY <2>1, <2>2
<1>3. CASE cmd_c64enter
  <2>1. keys' \in [ndx : 0..255, keyd : Keyd] /\ exit_requested' \in BOOLEAN
    BY <1>3, InjectType DEF cmd_c64enter, Inject
  <2> QED  BY <1>3, <2>1 DEF cmd_c64enter, Inject
<1>4. CASE cmd_c64resume
  BY <1>4 DEF cmd_c64resume
<1>5. CASE cmd_c64boot
  <2>1. imr' \subseteq Lines
    BY <1>5 DEF cmd_c64boot, pic_set_mask, KeyboardLine
  <2> QED  BY <1>5, <2>1 DEF cmd_c64boot
<1> QED  BY <1>1, <1>2, <1>3, <1>4, <1>5 DEF shell_execute

\* Whatever byte the handler reads, and wherever it sends it.
LEMMA DispatchType ==
  ASSUME TypeOK, NEW b \in Scancodes, Dispatch(b)
  PROVE  /\ C64TypeOK'
         /\ ctx' \in Contexts /\ c64_mode_active' \in BOOLEAN /\ imr' \subseteq Lines
         /\ polled' \subseteq Scancodes /\ killed_by_f12' \in BOOLEAN
         /\ line_buf' \in Seq(Chars) /\ Len(line_buf') < LineMax
<1> DEFINE c == Decode(b, shift_pressed)
<1>0. line_buf \in Seq(Chars) /\ Len(line_buf) < LineMax /\ shift_pressed \in BOOLEAN
  BY DEF TypeOK, KeyboardTypeOK
<1>1. CASE ctx' = "eoi" /\ NoEffect /\ UNCHANGED line_buf
  BY <1>1 DEF TypeOK, Contexts, NoEffect, PicTypeOK, KeyboardTypeOK, C64TypeOK
<1>2. CASE c # NoChar /\ ctx' = "eoi" /\ Inject(c) /\ UNCHANGED line_buf
  <2>1. c \in Chars
    BY <1>0, <1>2, DecodeType
  <2>2. keys' \in [ndx : 0..255, keyd : Keyd] /\ exit_requested' \in BOOLEAN
    BY <1>2, <2>1, InjectType DEF Inject
  <2> QED
    BY <1>2, <2>2 DEF TypeOK, Contexts, Inject, PicTypeOK, KeyboardTypeOK, C64TypeOK
<1>3. CASE (\E cmd \in Commands : shell_execute(cmd)) /\ UNCHANGED line_buf
  BY <1>0, <1>3, ExecuteType
<1>4. CASE c \notin {NoChar, "NL"} /\ shell_input_char(c)
  <2>1. c \in Chars
    BY <1>0, <1>4, DecodeType
  <2>2. ctx' = "eoi" /\ NoEffect
    BY <1>4 DEF shell_input_char
  <2>3. line_buf' \in Seq(Chars) /\ Len(line_buf') < LineMax
    BY <1>0, <1>4, <2>1, LineFacts DEF shell_input_char
  <2> QED
    BY <2>2, <2>3 DEF TypeOK, Contexts, NoEffect, PicTypeOK, KeyboardTypeOK, C64TypeOK
<1> QED  BY <1>1, <1>2, <1>3, <1>4 DEF Dispatch, shell_input_char

\* keyboard_handler, from port to shell, keeps every type.
LEMMA IrqHandlerType ==
  ASSUME TypeOK, IrqHandler
  PROVE  TypeOK'
<1>1. /\ UNCHANGED <<isr, main, cur, ifl, gates, irq_routines, wedged>>
  BY DEF IrqHandler
<1>2. CASE cur \in irq_routines
  <2>1. ReadData /\ Dispatch(DataByte) /\ shift_pressed' = ShiftAfter(DataByte)
    BY <1>2 DEF IrqHandler
  <2>2. f12_pressed' \in BOOLEAN
    BY <1>2 DEF IrqHandler, TypeOK, KeyboardTypeOK
  <2>3. DataByte \in Scancodes
    BY DataByteType DEF TypeOK
  <2>4. shift_pressed' \in BOOLEAN
    BY <2>1 DEF ShiftAfter, TypeOK, KeyboardTypeOK
  <2>5. /\ irr' \subseteq Lines
        /\ obuf' \in Seq(Scancodes)
        /\ lastByte' \in Scancodes /\ typed' \in Nat /\ nread' \in Nat
    BY <2>1, ReadDataType DEF TypeOK
  <2>6. /\ C64TypeOK'
        /\ ctx' \in Contexts /\ c64_mode_active' \in BOOLEAN /\ imr' \subseteq Lines
        /\ polled' \subseteq Scancodes /\ killed_by_f12' \in BOOLEAN
        /\ line_buf' \in Seq(Chars) /\ Len(line_buf') < LineMax
    BY <2>1, <2>3, DispatchType
  <2> QED
    BY <1>1, <2>2, <2>4, <2>5, <2>6 DEF TypeOK, PicTypeOK, KeyboardTypeOK
<1>3. CASE cur \notin irq_routines
  <2>1. /\ ctx' = "eoi"
        /\ UNCHANGED <<irr, imr, kbcVars, modeVars, c64Vars, line_buf, killed_by_f12, polled>>
    BY <1>3 DEF IrqHandler
  <2> QED
    BY <1>1, <2>1 DEF TypeOK, Contexts, PicTypeOK, KeyboardTypeOK, C64TypeOK,
       kbcVars, modeVars, c64Vars
<1> QED  BY <1>2, <1>3

\* So does each character C64TYPE injects.
LEMMA TypeCharType ==
  ASSUME TypeOK, TypeChar
  PROVE  TypeOK'
<1>1. UNCHANGED <<picVars, kbcVars, modeVars, halted, main, cur, ifl, gates,
                  irq_routines, killed_by_f12, histVars>>
  BY DEF TypeChar
<1>2. line_buf \in Seq(Chars) /\ Len(line_buf) < LineMax
  BY DEF TypeOK
<1>3. CASE line_buf = <<>>
  <2>1. c64_inject_key("CR") /\ UNCHANGED line_buf /\ ctx' = "typed"
    BY <1>3 DEF TypeChar
  <2>2. keys' \in [ndx : 0..255, keyd : Keyd] /\ exit_requested' \in BOOLEAN
    BY <2>1, InjectType
  <2> QED
    BY <1>1, <2>1, <2>2 DEF TypeOK, Contexts, PicTypeOK, KeyboardTypeOK, C64TypeOK,
       picVars, kbcVars, modeVars, histVars
<1>4. CASE line_buf # <<>>
  <2>1. c64_inject_key(Head(line_buf)) /\ line_buf' = Tail(line_buf) /\ ctx' = ctx
    BY <1>4 DEF TypeChar
  <2>2. Head(line_buf) \in Chars /\ line_buf' \in Seq(Chars) /\ Len(line_buf') < LineMax
    <3>1. "a" \in Chars
      BY DEF Chars
    <3> QED  BY <1>2, <1>4, <2>1, <3>1, LineFacts
  <2>3. keys' \in [ndx : 0..255, keyd : Keyd] /\ exit_requested' \in BOOLEAN
    BY <2>1, <2>2, InjectType
  <2> QED
    BY <1>1, <2>1, <2>2, <2>3 DEF TypeOK, PicTypeOK, KeyboardTypeOK, C64TypeOK,
       picVars, kbcVars, modeVars, histVars
<1> QED  BY <1>3, <1>4

\* So does a guest that runs on.
LEMMA GuestStepsType ==
  ASSUME TypeOK, GuestSteps
  PROVE  TypeOK'
<1>1. keys' \in [ndx : 0..255, keyd : Keyd]
  BY GuestFacts DEF GuestSteps, TypeOK, C64TypeOK
<1> QED
  BY <1>1 DEF GuestSteps, TypeOK, PicTypeOK, KeyboardTypeOK, C64TypeOK,
     picVars, kbcVars, modeVars, cpuVars, histVars

\* The values one iteration of cmd_c64boot's loop gives keys and the flags.
LEMMA BootLoopFacts ==
  ASSUME TypeOK, BootLoop
  PROVE  \E k \in GuestEffects(keys) :
           \/ PolledChar = NoChar /\ keys' = k
           \/ PolledChar \in Chars /\ keys' = InjectedInto(k, PolledChar)
<1>1. PICK k \in GuestEffects(keys) :
          keys' = IF PolledChar = NoChar THEN k ELSE InjectedInto(k, PolledChar)
  BY DEF BootLoop
<1>2. PolledByte \in Scancodes /\ shift_pressed \in BOOLEAN
  BY DataByteType DEF TypeOK, KeyboardTypeOK
<1>3. PolledChar # NoChar => PolledChar \in Chars
  BY <1>2, DecodeType DEF PolledChar
<1> QED  BY <1>1, <1>3

\* So does each iteration of the C64BOOT loop.
LEMMA BootLoopType ==
  ASSUME TypeOK, BootLoop
  PROVE  TypeOK'
<1>1. keys' \in [ndx : 0..255, keyd : Keyd]
  <2>1. keys \in [ndx : 0..255, keyd : Keyd]
    BY DEF TypeOK, C64TypeOK
  <2> QED  BY <2>1, BootLoopFacts, GuestFacts, InjectedFacts
<1>2. /\ halted' \in BOOLEAN /\ killed_by_f12' \in BOOLEAN
      /\ f12_pressed' \in BOOLEAN /\ exit_requested' \in BOOLEAN
  BY DEF BootLoop, TypeOK, KeyboardTypeOK, C64TypeOK
<1>3. ctx' \in {"restore", "c64boot"}
  BY DEF BootLoop
<1>4. keyboard_poll_char /\ polled' = polled \cup {PolledByte}
  BY DEF BootLoop
<1>5. UNCHANGED <<imr, isr, c64_mode_active, main, cur, ifl, gates, irq_routines,
                  line_buf, wedged>>
  BY DEF BootLoop
<1> QED
  BY <1>1, <1>2, <1>3, <1>4, <1>5, PollType
  DEF TypeOK, Contexts, PicTypeOK, KeyboardTypeOK, C64TypeOK

\* Every step of the kernel and its environment keeps every type.
LEMMA TypeStep == TypeOK /\ [Next]_vars => TypeOK'
<1> SUFFICES ASSUME TypeOK, [Next]_vars PROVE TypeOK'
  OBVIOUS
<1>1. CASE UNCHANGED vars
  BY <1>1 DEF vars, TypeOK, PicTypeOK, KeyboardTypeOK, C64TypeOK, picVars, kbcVars,
     modeVars, c64Vars, cpuVars, histVars
<1>2. CASE Next
  BY <1>2, PlainStepType, IrqHandlerType, TypeCharType, GuestStepsType, BootLoopType
  DEF Next, Handler
<1> QED  BY <1>1, <1>2

\* TypeOK is an invariant of Machine: in particular line_buf never holds more
\* than LINE_MAX - 1 characters, whatever is typed and whichever command runs.
THEOREM TypeCorrect == Spec => []TypeOK
<1>1. Init => TypeOK
  <2> SUFFICES ASSUME Init PROVE TypeOK
    OBVIOUS
  <2>1. C64TypeOK
    <3>1. keys.keyd \in Keyd /\ keys \in [ndx : 0..255, keyd : Keyd]
      BY DEF Init, C64Init, Keyd
    <3> QED  BY <3>1 DEF Init, C64Init, C64TypeOK
  <2>2. PicTypeOK
    BY LinesAssumption DEF Init, PicInit, PicTypeOK, KeyboardLine
  <2>3. <<>> \in Seq(Scancodes) /\ <<>> \in Seq(Chars)
    OBVIOUS
  <2>4. KeyboardTypeOK
    BY <2>3 DEF Init, KeyboardInit, KeyboardTypeOK, Scancodes
  <2>5. line_buf \in Seq(Chars) /\ Len(line_buf) < LineMax
    BY <2>3, MachineAssumption DEF Init
  <2>6. main \in MainSteps /\ ctx \in Contexts /\ cur \in Lines
    BY LinesAssumption DEF Init, MainSteps, Contexts, KeyboardLine
  <2>7. ifl \in BOOLEAN /\ gates \in BOOLEAN /\ irq_routines \subseteq Lines
    BY DEF Init
  <2>8. killed_by_f12 \in BOOLEAN /\ wedged \in BOOLEAN /\ polled \subseteq Scancodes
    BY DEF Init
  <2> QED
    BY <2>1, <2>2, <2>4, <2>5, <2>6, <2>7, <2>8 DEF TypeOK
<1>2. TypeOK /\ [Next]_vars => TypeOK'
  BY TypeStep
<1> QED  BY <1>1, <1>2, PTL DEF Spec

----------------------------------------------------------------------------
(* The interrupt discipline *)

\* The order of kernel_main: nothing is handled before sti, and by then the
\* handler is installed and every other line is masked.
BootOrder ==
  /\ InHandler => Booted
  /\ main \in {"mask", "sti"} \/ Booted => gates /\ KeyboardLine \in irq_routines
  /\ main = "sti" => imr = Lines \ {KeyboardLine}

\* HandlerRunsAlone and OnlyKeyboardServiced need each other, the masks and the
\* boot order to be inductive: an interrupt is accepted only from kernel_main,
\* only after sti, and then only the keyboard's line is unmasked.
Discipline ==
  /\ BootOrder
  /\ HandlerRunsAlone
  /\ OnlyKeyboardServiced
  /\ MaskedOnlyInSession
  /\ C64ModeOnlyInResume

\* kernel_main turns interrupts on only when everything they need is there.
LEMMA BootDiscipline ==
  ASSUME TypeOK, Discipline, Boot
  PROVE  Discipline'
<1> USE DEF Discipline, BootOrder, HandlerRunsAlone, OnlyKeyboardServiced,
        MaskedOnlyInSession, C64ModeOnlyInResume, InHandler, Booted, MainStep
<1>1. CASE BootTables
  BY <1>1 DEF BootTables, picVars, modeVars
<1>2. CASE BootRemap
  BY <1>2 DEF BootRemap, pic_remap, modeVars
<1>3. CASE BootInstall
  BY <1>3 DEF BootInstall, picVars, modeVars
<1>4. CASE BootMask
  BY <1>4 DEF BootMask, modeVars
<1>5. CASE BootSti
  BY <1>5 DEF BootSti, picVars, modeVars
<1>6. CASE BootConsole
  BY <1>6 DEF BootConsole, picVars, modeVars
<1>7. CASE BootShell
  BY <1>7 DEF BootShell, picVars, modeVars
<1> QED  BY <1>1, <1>2, <1>3, <1>4, <1>5, <1>6, <1>7 DEF Boot

\* In the idle loop with interrupts on, only the keyboard's request is
\* deliverable.
LEMMA OnlyKeyboardDeliverable ==
  ASSUME TypeOK, Discipline, NEW l \in Lines, ifl, Deliverable(l)
  PROVE  l = KeyboardLine /\ ctx = "main" /\ Booted /\ isr = {}
<1>1. ctx = "main" /\ Booted /\ isr = {}
  BY DEF Discipline, HandlerRunsAlone
<1>2. imr = Lines \ {KeyboardLine}
  BY <1>1 DEF Discipline, MaskedOnlyInSession
<1> QED  BY <1>1, <1>2 DEF Deliverable

\* Accepting an interrupt keeps the discipline: IF goes off and the PIC holds the line.
LEMMA AcceptDiscipline ==
  ASSUME TypeOK, Discipline, NEW l \in Lines, IrqAccept(l)
  PROVE  Discipline'
<1>1. l = KeyboardLine /\ ctx = "main" /\ Booted /\ isr = {}
  BY OnlyKeyboardDeliverable DEF IrqAccept
<1> QED
  BY <1>1 DEF IrqAccept, Acknowledge, Discipline, BootOrder, HandlerRunsAlone,
     OnlyKeyboardServiced, MaskedOnlyInSession, C64ModeOnlyInResume, InHandler, Booted, modeVars

\* A step that stays inside the handler, away from the EOI, and leaves the
\* mask and the mode as its new place requires.
LEMMA InsideDiscipline ==
  ASSUME TypeOK, Discipline,
         ctx \notin {"main", "iret"}, ctx' \notin {"main", "iret"},
         UNCHANGED <<isr, main, cur, ifl, gates, irq_routines>>,
         imr' = IF ctx' \in {"c64boot", "restore"} THEN Lines ELSE Lines \ {KeyboardLine},
         c64_mode_active' <=> ctx' = "resume"
  PROVE  Discipline'
BY DEF Discipline, BootOrder, HandlerRunsAlone, OnlyKeyboardServiced,
   MaskedOnlyInSession, C64ModeOnlyInResume, InHandler, Booted

\* Whatever the key does, the handler ends in EOI and iret or in a command that will.
LEMMA DispatchDiscipline ==
  ASSUME TypeOK, Discipline, ctx = "irq", NEW b \in Scancodes, Dispatch(b)
  PROVE  /\ ctx' \notin {"main", "iret"}
         /\ imr' = IF ctx' \in {"c64boot", "restore"} THEN Lines ELSE Lines \ {KeyboardLine}
         /\ c64_mode_active' <=> ctx' = "resume"
<1>1. imr = Lines \ {KeyboardLine} /\ ~c64_mode_active
  BY DEF Discipline, BootOrder, MaskedOnlyInSession, C64ModeOnlyInResume, InHandler
<1>2. CASE ctx' \in {"eoi", "endline", "typing", "running"} /\ imr' = imr
           /\ c64_mode_active' = c64_mode_active
  BY <1>1, <1>2
<1>3. CASE cmd_c64resume
  BY <1>1, <1>3 DEF cmd_c64resume
<1>4. CASE cmd_c64boot
  BY <1>1, <1>4, LinesAssumption DEF cmd_c64boot, pic_set_mask, KeyboardLine
<1>5. CASE \E cmd \in Commands : shell_execute(cmd)
  BY <1>2, <1>3, <1>4, <1>5 DEF shell_execute, cmd_c64key, cmd_c64enter, NoEffect, Inject
<1> QED
  BY <1>2, <1>5 DEF Dispatch, shell_input_char, NoEffect, Inject

\* Each step of the handler and its commands keeps the interrupt discipline.
LEMMA HandlerDiscipline ==
  ASSUME TypeOK, Discipline, Handler
  PROVE  Discipline'
<1>1. CASE IrqHandler
  <2>1. cur \in irq_routines
    BY <1>1 DEF IrqHandler, Discipline, OnlyKeyboardServiced, InHandler
  <2>2. Dispatch(DataByte) /\ UNCHANGED <<isr, main, cur, ifl, gates, irq_routines>>
    BY <1>1, <2>1 DEF IrqHandler
  <2>3. ctx = "irq" /\ DataByte \in Scancodes
    BY <1>1, DataByteType DEF IrqHandler, TypeOK
  <2> QED  BY <2>2, <2>3, DispatchDiscipline, InsideDiscipline
<1>2. CASE SendEoi
  <2>1. ctx = "eoi" /\ isr = {KeyboardLine} /\ cur = KeyboardLine
    BY <1>2 DEF SendEoi, Discipline, HandlerRunsAlone, OnlyKeyboardServiced, InHandler
  <2>2. isr' = {}
    BY <1>2, <2>1 DEF SendEoi, pic_send_eoi, Rank, KeyboardLine, CascadeLine
  <2> QED
    BY <1>2, <2>1, <2>2 DEF SendEoi, Discipline, BootOrder, HandlerRunsAlone,
       OnlyKeyboardServiced, MaskedOnlyInSession, C64ModeOnlyInResume, InHandler, Booted, modeVars
<1>3. CASE Iret
  BY <1>3 DEF Iret, Discipline, BootOrder, HandlerRunsAlone, OnlyKeyboardServiced,
     MaskedOnlyInSession, C64ModeOnlyInResume, InHandler, Booted, picVars, modeVars
<1> HIDE DEF Discipline
<1>4. Booted \/ ctx = "main"
  BY DEF Discipline, BootOrder, InHandler
<1>5. /\ ctx # "main" => imr = IF ctx \in {"c64boot", "restore"} THEN Lines
                               ELSE Lines \ {KeyboardLine}
      /\ c64_mode_active <=> ctx = "resume"
  BY <1>4 DEF Discipline, MaskedOnlyInSession, C64ModeOnlyInResume
<1>6. CASE EndLine
  BY <1>5, <1>6, InsideDiscipline DEF EndLine, picVars, modeVars
<1>7. CASE TypeChar
  BY <1>5, <1>7, InsideDiscipline DEF TypeChar, picVars, modeVars
<1>8. CASE TypeRun
  BY <1>5, <1>8, InsideDiscipline DEF TypeRun, picVars, modeVars
<1>9. CASE RunReturn
  <2>1. ~c64_mode_active' /\ ctx' = "endline" /\ ctx \in {"running", "resume"}
    BY <1>5, <1>9 DEF RunReturn
  <2>2. UNCHANGED <<isr, imr, main, cur, ifl, gates, irq_routines>>
    BY <1>9 DEF RunReturn, picVars
  <2> QED  BY <1>5, <2>1, <2>2, InsideDiscipline
<1>10. CASE BootLoop
  <2>1. ctx = "c64boot" /\ ctx' \in {"restore", "c64boot"}
    BY <1>10 DEF BootLoop
  <2>2. UNCHANGED <<isr, imr, c64_mode_active, main, cur, ifl, gates, irq_routines>>
    BY <1>10 DEF BootLoop
  <2> QED  BY <1>5, <2>1, <2>2, InsideDiscipline
<1>11. CASE C64Restore
  <2>1. ctx = "restore" /\ ctx' = "endline" /\ imr' = imr \ {KeyboardLine}
    BY <1>11 DEF C64Restore, pic_clear_mask
  <2>2. UNCHANGED <<isr, c64_mode_active, main, cur, ifl, gates, irq_routines>>
    BY <1>11 DEF C64Restore, modeVars
  <2> QED  BY <1>5, <2>1, <2>2, InsideDiscipline
<1> QED
  BY <1>1, <1>2, <1>3, <1>6, <1>7, <1>8, <1>9, <1>10, <1>11 DEF Handler

\* The interrupt discipline is preserved by every step.
LEMMA DisciplineStep == TypeOK /\ Discipline /\ [Next]_vars => Discipline'
<1> SUFFICES ASSUME TypeOK, Discipline, [Next]_vars PROVE Discipline'
  OBVIOUS
<1>1. CASE UNCHANGED <<isr, imr, main, ctx, cur, ifl, gates, irq_routines, c64_mode_active>>
  BY <1>1 DEF Discipline, BootOrder, HandlerRunsAlone, OnlyKeyboardServiced,
     MaskedOnlyInSession, C64ModeOnlyInResume, InHandler, Booted
<1>2. CASE UNCHANGED vars
  BY <1>1, <1>2 DEF vars, picVars, cpuVars, modeVars
<1>3. CASE GuestSteps
  BY <1>1, <1>3 DEF GuestSteps, picVars, cpuVars, modeVars
<1>4. ASSUME NEW b \in Typed, Type(b)
      PROVE  Discipline'
  BY <1>1, <1>4 DEF Type, cpuVars, modeVars
<1>5. ASSUME NEW l \in Noise, DeviceRequest(l)
      PROVE  Discipline'
  BY <1>1, <1>5 DEF DeviceRequest, cpuVars, modeVars
<1> QED
  BY <1>2, <1>3, <1>4, <1>5, BootDiscipline, AcceptDiscipline, HandlerDiscipline DEF Next

\* The interrupt discipline (irq.c, pic.c, kernel_main, C64 commands) always holds.
THEOREM DisciplineHolds == Spec => []Discipline
<1>1. Init => Discipline
  BY DEF Init, PicInit, KeyboardInit, Discipline, BootOrder, HandlerRunsAlone,
     OnlyKeyboardServiced, MaskedOnlyInSession, C64ModeOnlyInResume, InHandler, Booted
<1> QED  BY <1>1, DisciplineStep, TypeCorrect, PTL DEF Spec

\* The handler runs alone: no other request is in service, interrupts are off.
THEOREM HandlerRunsAloneHolds == Spec => []HandlerRunsAlone
BY DisciplineHolds, PTL DEF Discipline

\* Only IRQ1 is ever serviced, with its gate and handler in place.
THEOREM OnlyKeyboardServicedHolds == Spec => []OnlyKeyboardServiced
BY DisciplineHolds, PTL DEF Discipline

\* IRQ1 is masked during C64BOOT and at no other time after boot.
THEOREM MaskedOnlyInSessionHolds == Spec => []MaskedOnlyInSession
BY DisciplineHolds, PTL DEF Discipline

\* C64 mode is on during C64RESUME and at no other time.
THEOREM C64ModeOnlyInResumeHolds == Spec => []C64ModeOnlyInResume
BY DisciplineHolds, PTL DEF Discipline

\* Once a key is dispatched, the handler is past its read of the data port.
LEMMA DispatchLeavesIrq ==
  ASSUME NEW b \in Scancodes, Dispatch(b)
  PROVE  ctx' # "irq"
<1>1. CASE \E cmd \in Commands : shell_execute(cmd)
  BY <1>1 DEF shell_execute, cmd_c64key, cmd_c64enter, cmd_c64resume, cmd_c64boot
<1>2. CASE ctx' = "eoi"
  BY <1>2
<1> QED  BY <1>1, <1>2 DEF Dispatch, shell_input_char

\* No interrupt is accepted while a handler runs.
THEOREM NoReentryHolds == Spec => NoReentry
<1>1. TypeOK /\ Discipline /\ [Next]_vars => [Accepting => ctx = "main"]_vars
  <2> SUFFICES ASSUME TypeOK, Discipline, Next, Accepting, ctx # "main"
               PROVE  FALSE
    OBVIOUS
  <2>1. CASE Boot
    BY <2>1 DEF Boot, BootTables, BootRemap, BootInstall, BootMask, BootSti, BootConsole,
       BootShell, MainStep
  <2>2. ASSUME NEW l \in Lines, IrqAccept(l)
        PROVE  FALSE
    BY <2>2, OnlyKeyboardDeliverable DEF IrqAccept
  <2>3. CASE irr' = irr
    BY <2>3 DEF Accepting
  <2>4. CASE IrqHandler
    <3>1. cur \in irq_routines
      BY <2>4 DEF IrqHandler, Discipline, OnlyKeyboardServiced, InHandler
    <3> QED
      BY <2>4, <3>1, DataByteType, DispatchLeavesIrq DEF IrqHandler, TypeOK, Accepting
  <2>5. CASE EndLine \/ SendEoi \/ Iret \/ TypeRun \/ RunReturn \/ C64Restore \/ BootLoop
    BY <2>5 DEF EndLine, SendEoi, Iret, TypeRun, RunReturn, C64Restore, BootLoop, Accepting
  <2>6. CASE TypeChar \/ GuestSteps
    BY <2>3, <2>6 DEF TypeChar, GuestSteps, picVars
  <2>7. ASSUME NEW b \in Typed, Type(b)
        PROVE  FALSE
    BY <2>7 DEF Type, TypeByte, Accepting
  <2>8. ASSUME NEW l \in Noise, DeviceRequest(l)
        PROVE  FALSE
    BY <2>8 DEF DeviceRequest, Accepting
  <2> QED
    BY <2>1, <2>2, <2>4, <2>5, <2>6, <2>7, <2>8 DEF Next, Handler
<1> QED  BY <1>1, TypeCorrect, DisciplineHolds, PTL DEF Spec, NoReentry

----------------------------------------------------------------------------
(* No byte is left behind *)

\* Reading one byte re-announces the next one.
LEMMA ReadDataWakes ==
  ASSUME TypeOK, ReadData, obuf' # <<>>
  PROVE  KeyboardLine \in irr'
<1>1. obuf \in Seq(Scancodes) /\ obuf # <<>> /\ obuf' = Tail(obuf)
  BY DEF ReadData, TypeOK, KeyboardTypeOK
<1>2. Len(obuf) > 1
  BY <1>1, EmptySeq, HeadTailProperties
<1> QED  BY <1>2 DEF ReadData

\* No step loses the request of a byte that waits.
LEMMA WakeupStep == TypeOK /\ Discipline /\ NoLostWakeup /\ [Next]_vars => NoLostWakeup'
<1> SUFFICES ASSUME TypeOK, Discipline, NoLostWakeup, [Next]_vars,
                    Remapped', ~wedged', obuf' # <<>>,
                    ~(ctx' = "irq" /\ cur' = KeyboardLine)
             PROVE  KeyboardLine \in irr'
  BY DEF NoLostWakeup
<1>1. CASE /\ UNCHANGED <<obuf, wedged>> /\ irr \subseteq irr' /\ Remapped
           /\ ctx # "irq" \/ (ctx' = ctx /\ cur' = cur)
  BY <1>1 DEF NoLostWakeup
<1>2. CASE BootRemap
  BY <1>2 DEF BootRemap, kbcVars
<1>3. CASE BootTables
  BY <1>3 DEF BootTables, MainStep, Remapped
<1>4. CASE Boot /\ ~BootRemap /\ ~BootTables
  BY <1>1, <1>4 DEF Boot, BootInstall, BootMask, BootSti, BootConsole, BootShell, MainStep,
     Remapped, picVars, kbcVars, histVars
<1>5. ASSUME NEW l \in Lines, IrqAccept(l)
      PROVE  KeyboardLine \in irr'
  BY <1>5, OnlyKeyboardDeliverable DEF IrqAccept
<1>6. CASE IrqHandler
  <2>1. cur \in irq_routines
    BY <1>6 DEF IrqHandler, Discipline, OnlyKeyboardServiced, InHandler
  <2> QED  BY <1>6, <2>1, ReadDataWakes DEF IrqHandler
<1>7. Remapped \/ ctx = "main"
  BY DEF Discipline, BootOrder, InHandler, Booted, Remapped
<1>8. CASE BootLoop
  <2>1. Remapped /\ UNCHANGED wedged
    BY <1>7, <1>8 DEF BootLoop
  <2>2. CASE obuf = <<>>
    BY <1>1, <1>8, <2>1, <2>2 DEF BootLoop, keyboard_poll_char, kbcVars
  <2>3. CASE obuf # <<>>
    BY <1>8, <2>3, ReadDataWakes DEF BootLoop, keyboard_poll_char
  <2> QED  BY <2>2, <2>3
<1>9. CASE EndLine \/ SendEoi \/ Iret \/ TypeChar \/ TypeRun \/ RunReturn \/ C64Restore
           \/ GuestSteps
  BY <1>1, <1>7, <1>9 DEF EndLine, SendEoi, Iret, TypeChar, TypeRun, RunReturn, C64Restore,
     GuestSteps, picVars, kbcVars, histVars, cpuVars
<1>10. ASSUME NEW b \in Typed, Type(b)
       PROVE  KeyboardLine \in irr'
  <2>1. UNCHANGED <<main, ctx, cur, wedged>> /\ irr \subseteq irr'
    BY <1>10 DEF Type, TypeByte, cpuVars, histVars
  <2>2. CASE obuf = <<>>
    BY <1>10, <2>2 DEF Type, TypeByte
  <2>3. CASE obuf # <<>>
    BY <2>1, <2>3 DEF NoLostWakeup, Remapped
  <2> QED  BY <2>2, <2>3
<1>11. ASSUME NEW l \in Noise, DeviceRequest(l)
       PROVE  KeyboardLine \in irr'
  BY <1>1, <1>11 DEF DeviceRequest, cpuVars, kbcVars, histVars, NoLostWakeup, Remapped
<1>12. CASE UNCHANGED vars
  BY <1>12 DEF vars, picVars, cpuVars, kbcVars, histVars, NoLostWakeup, Remapped
<1> QED
  BY <1>2, <1>3, <1>4, <1>5, <1>6, <1>8, <1>9, <1>10, <1>11, <1>12 DEF Next, Handler

\* A waiting byte is always announced, so the keyboard never falls silent.
THEOREM NoLostWakeupHolds == Spec => []NoLostWakeup
<1>1. Init => NoLostWakeup
  BY DEF Init, NoLostWakeup, Remapped
<1> QED  BY <1>1, WakeupStep, TypeCorrect, DisciplineHolds, PTL DEF Spec

----------------------------------------------------------------------------
(* The C64 keyboard buffer *)

\* How a step changes the buffer: not at all, by one injection, by the guest, or
\* by the guest and then one injection.
KeysStep ==
  \/ keys' = keys
  \/ \E c \in Chars \cup {"CR"} : keys' = InjectedInto(keys, c)
  \/ /\ ctx \in {"running", "resume", "c64boot"}
     /\ \E k \in GuestEffects(keys) :
          keys' = k \/ \E c \in Chars : keys' = InjectedInto(k, c)

\* A key sent to the guest only appends to KEYD, and not past its end.
LEMMA DispatchKeys ==
  ASSUME TypeOK, NEW b \in Scancodes, Dispatch(b)
  PROVE  KeysStep
<1> DEFINE c == Decode(b, shift_pressed)
<1>0. line_buf \in Seq(Chars) /\ shift_pressed \in BOOLEAN
  BY DEF TypeOK, KeyboardTypeOK
<1>1. CASE keys' = keys
  BY <1>1 DEF KeysStep
<1>2. CASE c # NoChar /\ Inject(c)
  BY <1>0, <1>2, DecodeType DEF KeysStep, Inject, c64_inject_key
<1>3. CASE cmd_c64key /\ line_buf # <<>>
  BY <1>0, <1>3, HeadTailProperties DEF cmd_c64key, KeysStep, Inject, c64_inject_key
<1>4. CASE cmd_c64enter
  BY <1>4 DEF cmd_c64enter, KeysStep, Inject, c64_inject_key
<1>5. CASE \E cmd \in Commands : shell_execute(cmd)
  BY <1>1, <1>3, <1>4, <1>5 DEF shell_execute, cmd_c64key, cmd_c64resume, cmd_c64boot, NoEffect
<1> QED  BY <1>1, <1>2, <1>5 DEF Dispatch, shell_input_char, NoEffect

\* So does every step of the host.
LEMMA EveryStepKeys == TypeOK /\ [Next]_vars => KeysStep
<1> SUFFICES ASSUME TypeOK, [Next]_vars PROVE KeysStep
  OBVIOUS
<1>1. CASE keys' = keys
  BY <1>1 DEF KeysStep
<1>2. CASE IrqHandler
  <2>1. CASE cur \in irq_routines
    BY <1>2, <2>1, DataByteType, DispatchKeys DEF IrqHandler, TypeOK
  <2>2. CASE cur \notin irq_routines
    BY <1>1, <1>2, <2>2 DEF IrqHandler, c64Vars
  <2> QED  BY <2>1, <2>2
<1>3. CASE TypeChar
  <2>1. CASE line_buf = <<>>
    BY <1>3, <2>1 DEF TypeChar, c64_inject_key, KeysStep
  <2>2. CASE line_buf # <<>>
    <3>1. Head(line_buf) \in Chars
      BY <2>2, HeadTailProperties DEF TypeOK
    <3> QED  BY <1>3, <2>2, <3>1 DEF TypeChar, c64_inject_key, KeysStep
  <2> QED  BY <2>1, <2>2
<1>4. CASE GuestSteps
  BY <1>4 DEF GuestSteps, KeysStep
<1>5. CASE BootLoop
  BY <1>5, BootLoopFacts DEF BootLoop, KeysStep
<1>6. CASE Boot \/ EndLine \/ SendEoi \/ Iret \/ TypeRun \/ RunReturn \/ C64Restore
  BY <1>1, <1>6 DEF Boot, BootTables, BootRemap, BootInstall, BootMask, BootSti, BootConsole,
     BootShell, EndLine, SendEoi, Iret, TypeRun, RunReturn, C64Restore, c64Vars
<1>7. CASE \/ \E l \in Lines : IrqAccept(l)
           \/ \E b \in Typed : Type(b)
           \/ \E l \in Noise : DeviceRequest(l)
           \/ UNCHANGED vars
  BY <1>1, <1>7 DEF IrqAccept, Type, DeviceRequest, vars, c64Vars
<1> QED
  BY <1>2, <1>3, <1>4, <1>5, <1>6, <1>7 DEF Next, Handler

\* KEYD is never overrun, whatever count the guest stores in NDX.
THEOREM KeydNotOverrunHolds == Spec => []KeydNotOverrun
<1>1. Init => KeydNotOverrun
  BY C64KeysAssumption DEF Init, C64Init, KeydNotOverrun
<1>2. TypeOK /\ KeydNotOverrun /\ [Next]_vars => KeydNotOverrun'
  <2> SUFFICES ASSUME TypeOK, KeydNotOverrun, KeysStep PROVE KeydNotOverrun'
    BY EveryStepKeys
  <2>1. keys \in [ndx : 0..255, keyd : Keyd]
    BY DEF TypeOK, C64TypeOK
  <2>2. ASSUME NEW c \in Chars \cup {"CR"}, keys' = InjectedInto(keys, c)
        PROVE  KeydNotOverrun'
    BY <2>1, <2>2, InjectedFacts DEF KeydNotOverrun
  <2>3. ASSUME NEW k \in GuestEffects(keys), keys' = k
        PROVE  KeydNotOverrun'
    BY <2>1, <2>3, GuestFacts DEF KeydNotOverrun
  <2>4. ASSUME NEW k \in GuestEffects(keys), NEW c \in Chars, keys' = InjectedInto(k, c)
        PROVE  KeydNotOverrun'
    BY <2>1, <2>4, GuestFacts, InjectedFacts DEF KeydNotOverrun
  <2> QED  BY <2>2, <2>3, <2>4 DEF KeysStep, KeydNotOverrun
<1> QED  BY <1>1, <1>2, TypeCorrect, PTL DEF Spec

\* The host only appends to the keys the guest has not taken yet.
THEOREM HostOnlyAppendsHolds == Spec => HostOnlyAppends
<1> DEFINE Appends == ctx \notin {"running", "resume", "c64boot"} => Queued(keys) \subseteq Queued(keys')
<1>1. TypeOK /\ [Next]_vars => [Appends]_keys
  <2> SUFFICES ASSUME TypeOK, KeysStep, ctx \notin {"running", "resume", "c64boot"}
               PROVE  Queued(keys) \subseteq Queued(keys')
    BY EveryStepKeys
  <2>1. keys \in [ndx : 0..255, keyd : Keyd]
    BY DEF TypeOK, C64TypeOK
  <2> QED  BY <2>1, InjectedFacts DEF KeysStep
<1> QED  BY <1>1, TypeCorrect, PTL DEF Spec, HostOnlyAppends

----------------------------------------------------------------------------
(* Machine implements ByteStream, on a controller that withdraws a request *)
(* together with its byte                                                  *)

\* A latched request, or a handler about to read, means that a byte is waiting.
\* A latched request of before pic_remap says nothing.
RequestsAreReal ==
  /\ Remapped /\ KeyboardLine \in irr => obuf # <<>>
  /\ ctx = "irq" => obuf # <<>>

\* A queue whose tail is empty has one element.
LEMMA LastOne ==
  ASSUME NEW S, NEW s \in Seq(S), s # <<>>, Tail(s) = <<>>
  PROVE  Len(s) = 1
<1>1. Tail(s) \in Seq(S) /\ Len(Tail(s)) = Len(s) - 1
  BY HeadTailProperties
<1>2. Len(Tail(s)) = 0
  BY <1>1, EmptySeq
<1>3. Len(s) \in Nat
  BY LenProperties
<1> QED  BY <1>1, <1>2, <1>3

\* No step leaves a latched request without a byte, when the latch is not sticky.
LEMMA RequestsStep ==
  ASSUME ~StickyLatch
  PROVE  TypeOK /\ Discipline /\ RequestsAreReal /\ [Next]_vars => RequestsAreReal'
<1> SUFFICES ASSUME TypeOK, Discipline, RequestsAreReal, [Next]_vars PROVE RequestsAreReal'
  OBVIOUS
<1> USE DEF RequestsAreReal
<1>2. ASSUME ReadData, Remapped
      PROVE  KeyboardLine \in irr' => obuf' # <<>>
  <2>1. CASE obuf = <<>>
    BY <1>2, <2>1 DEF ReadData
  <2>2. CASE obuf # <<>> /\ Tail(obuf) = <<>>
    <3>1. obuf \in Seq(Scancodes)
      BY DEF TypeOK, KeyboardTypeOK
    <3>2. Len(obuf) = 1
      BY <2>2, <3>1, LastOne
    <3> QED  BY <1>2, <2>2, <3>2 DEF ReadData
  <2>3. CASE obuf # <<>> /\ Tail(obuf) # <<>>
    BY <1>2, <2>3 DEF ReadData
  <2> QED  BY <2>1, <2>2, <2>3
<1>3. ctx # "main" => Remapped
  BY DEF Discipline, BootOrder, InHandler, Booted, Remapped
<1>4. CASE IrqHandler
  <2>1. cur \in irq_routines /\ Remapped
    BY <1>3, <1>4 DEF IrqHandler, Discipline, OnlyKeyboardServiced, InHandler
  <2>2. ReadData /\ ctx' # "irq"
    BY <1>4, <2>1, DataByteType, DispatchLeavesIrq DEF IrqHandler, TypeOK
  <2> QED  BY <1>2, <2>1, <2>2
<1>5. CASE BootLoop
  <2>1. Remapped /\ ctx' # "irq"
    BY <1>3, <1>5 DEF BootLoop
  <2>2. CASE obuf = <<>>
    BY <1>5, <2>1, <2>2 DEF BootLoop, keyboard_poll_char, kbcVars
  <2>3. CASE obuf # <<>>
    BY <1>2, <1>5, <2>1, <2>3 DEF BootLoop, keyboard_poll_char
  <2> QED  BY <2>2, <2>3
<1>6. ASSUME NEW l \in Lines, IrqAccept(l)
      PROVE  RequestsAreReal'
  <2>1. l = KeyboardLine /\ ctx = "main" /\ Booted
    BY <1>6, OnlyKeyboardDeliverable DEF IrqAccept
  <2>2. KeyboardLine \in irr /\ Remapped
    BY <1>6, <2>1 DEF IrqAccept, Deliverable, Booted, Remapped
  <2> QED  BY <1>6, <2>2 DEF IrqAccept, Acknowledge, kbcVars
<1>7. CASE Boot
  BY <1>7 DEF Boot, BootTables, BootRemap, pic_remap, BootInstall, BootMask, BootSti, BootConsole,
     BootShell, MainStep, Remapped, picVars, kbcVars
<1>8. CASE EndLine \/ SendEoi \/ Iret \/ TypeChar \/ TypeRun \/ RunReturn \/ C64Restore
           \/ GuestSteps
  BY <1>8 DEF EndLine, SendEoi, Iret, TypeChar, TypeRun, RunReturn, C64Restore,
     GuestSteps, picVars, kbcVars, cpuVars, Remapped
<1>9. ASSUME NEW b \in Typed, Type(b)
      PROVE  RequestsAreReal'
  <2>1. obuf' # <<>>
    BY <1>9, AppendProperties DEF Type, TypeByte, TypeOK, KeyboardTypeOK
  <2> QED  BY <2>1
<1>10. ASSUME NEW l \in Noise, DeviceRequest(l)
       PROVE  RequestsAreReal'
  BY <1>10, MachineAssumption DEF DeviceRequest, cpuVars, kbcVars, Remapped
<1>11. CASE UNCHANGED vars
  BY <1>11 DEF vars, picVars, cpuVars, kbcVars, Remapped
<1> QED
  BY <1>4, <1>5, <1>6, <1>7, <1>8, <1>9, <1>10, <1>11 DEF Next, Handler

\* The controller's bytes move in two ways only: one is typed, or one that is
\* waiting is read.
LEMMA StreamMoves ==
  ASSUME TypeOK, Discipline, RequestsAreReal, [Next]_vars
  PROVE  \/ UNCHANGED <<obuf, nread, typed>>
         \/ ReadData /\ obuf # <<>>
         \/ \E b \in Typed : TypeByte(b)
<1>1. CASE IrqHandler
  <2>1. cur \in irq_routines
    BY <1>1 DEF IrqHandler, Discipline, OnlyKeyboardServiced, InHandler
  <2> QED  BY <1>1, <2>1 DEF IrqHandler, RequestsAreReal
<1>2. CASE BootLoop
  BY <1>2 DEF BootLoop, keyboard_poll_char, kbcVars
<1>3. CASE EndLine \/ SendEoi \/ Iret \/ TypeChar \/ TypeRun \/ RunReturn \/ C64Restore
           \/ GuestSteps \/ Boot \/ UNCHANGED vars
  BY <1>3 DEF EndLine, SendEoi, Iret, TypeChar, TypeRun, RunReturn, C64Restore,
     GuestSteps, Boot, BootTables, BootRemap, BootInstall, BootMask, BootSti, BootConsole,
     BootShell, vars, kbcVars
<1>4. CASE \/ \E l \in Lines : IrqAccept(l)
           \/ \E b \in Typed : Type(b)
           \/ \E l \in Noise : DeviceRequest(l)
  BY <1>4 DEF IrqAccept, Type, DeviceRequest, kbcVars
<1> QED  BY <1>1, <1>2, <1>3, <1>4 DEF Next, Handler

\* A keyboard request always announces a byte, when the latch is not sticky.
LEMMA RequestsHold == ASSUME ~StickyLatch PROVE Spec => []RequestsAreReal
<1>1. Init => RequestsAreReal
  BY DEF Init, RequestsAreReal, Remapped
<1>2. TypeOK /\ Discipline /\ RequestsAreReal /\ [Next]_vars => RequestsAreReal'
  BY RequestsStep
<1> QED  BY <1>1, <1>2, TypeCorrect, DisciplineHolds, PTL DEF Spec

\* The two readers of port 0x60 take each byte once between them.
THEOREM EachByteReadOnceHolds == ASSUME ~StickyLatch PROVE Spec => []EachByteReadOnce
<1>1. Init => EachByteReadOnce
  BY DEF Init, KeyboardInit, EachByteReadOnce
<1>2. TypeOK /\ Discipline /\ RequestsAreReal /\ EachByteReadOnce /\ [Next]_vars
        => EachByteReadOnce'
  <2> SUFFICES ASSUME TypeOK, Discipline, RequestsAreReal, EachByteReadOnce, [Next]_vars
               PROVE  EachByteReadOnce'
    OBVIOUS
  <2>1. obuf \in Seq(Scancodes) /\ Len(obuf) \in Nat /\ nread \in Nat /\ typed \in Nat
    BY LenProperties DEF TypeOK, KeyboardTypeOK
  <2>2. CASE UNCHANGED <<obuf, nread, typed>>
    BY <2>2 DEF EachByteReadOnce
  <2>3. CASE ReadData /\ obuf # <<>>
    <3>1. Len(obuf') = Len(obuf) - 1
      BY <2>1, <2>3, HeadTailProperties DEF ReadData
    <3>2. nread' = nread + 1 /\ typed' = typed
      BY <2>3 DEF ReadData
    <3> QED  BY <2>1, <3>1, <3>2 DEF EachByteReadOnce
  <2>4. ASSUME NEW b \in Typed, TypeByte(b)
        PROVE  EachByteReadOnce'
    <3>1. b \in Scancodes
      BY KeyboardAssumption DEF TypeOK, KeyboardTypeOK
    <3>2. Len(obuf') = Len(obuf) + 1
      BY <2>1, <2>4, <3>1, AppendProperties DEF TypeByte
    <3>3. nread' = nread /\ typed' = typed + 1
      BY <2>4 DEF TypeByte
    <3> QED  BY <2>1, <3>2, <3>3 DEF EachByteReadOnce
  <2> QED  BY <2>2, <2>3, <2>4, StreamMoves
<1> QED
  BY <1>1, <1>2, RequestsHold, TypeCorrect, DisciplineHolds, PTL DEF Spec

\* The safety half of the refinement: Machine starts as ByteStream does, and each
\* of its steps is an arrival, a take, or invisible to ByteStream.
THEOREM ImplementsByteStreamSafety ==
  ASSUME ~StickyLatch
  PROVE  Spec => Stream!Init /\ [][Stream!Next]_(Stream!stream)
<1>1. Init => Stream!Init
  BY DEF Init, KeyboardInit, Stream!Init
<1>2. TypeOK /\ Discipline /\ RequestsAreReal /\ [Next]_vars => [Stream!Next]_(Stream!stream)
  <2> SUFFICES ASSUME TypeOK, Discipline, RequestsAreReal, [Next]_vars
               PROVE  [Stream!Next]_(Stream!stream)
    OBVIOUS
  <2>1. CASE UNCHANGED <<obuf, nread, typed>>
    BY <2>1 DEF Stream!stream
  <2>2. CASE ReadData /\ obuf # <<>>
    BY <2>2 DEF ReadData, Stream!Next, Stream!Take
  <2>3. ASSUME NEW b \in Typed, TypeByte(b)
        PROVE  Stream!Next
    BY <2>3 DEF TypeByte, Stream!Next, Stream!Arrive
  <2> QED  BY <2>1, <2>2, <2>3, StreamMoves
<1> QED
  BY <1>1, <1>2, RequestsHold, TypeCorrect, DisciplineHolds, PTL DEF Spec

----------------------------------------------------------------------------
(* Bytes on any controller *)

\* A byte that waits is accepted as soon as no handler runs: after every command
\* and session, IF, IMR, IRR and ISR are as kernel_main left them at its sti.
THEOREM WaitingByteInterruptsHolds == Spec => []WaitingByteInterrupts
<1>1. Discipline /\ NoLostWakeup => WaitingByteInterrupts
  <2> SUFFICES ASSUME Discipline, NoLostWakeup, ctx = "main", Booted, ~wedged, obuf # <<>>
               PROVE  ifl /\ Deliverable(KeyboardLine)
    BY DEF WaitingByteInterrupts
  <2>1. isr = {} /\ ifl /\ imr = Lines \ {KeyboardLine}
    BY DEF Discipline, HandlerRunsAlone, MaskedOnlyInSession
  <2>2. KeyboardLine \in irr
    BY DEF NoLostWakeup, Booted, Remapped
  <2> QED  BY <2>1, <2>2 DEF Deliverable, KeyboardLine
<1> QED  BY <1>1, DisciplineHolds, NoLostWakeupHolds, PTL

\* The bytes as a stream on a controller whose latched request may outlive its
\* byte: what is taken is what is no longer waiting, however often a handler
\* entered for nothing reads the port.
AnyStream == INSTANCE ByteStream
               WITH Byte <- Typed,
                    pending <- obuf, taken <- typed - Len(obuf)

\* A read takes the oldest byte that waits, or none; nothing else takes one.
LEMMA BytesMove ==
  ASSUME TypeOK, [Next]_vars
  PROVE  \/ UNCHANGED <<obuf, typed>>
         \/ ReadData /\ obuf # <<>>
         \/ \E b \in Typed : TypeByte(b)
<1>1. CASE ReadData
  BY <1>1 DEF ReadData
<1>2. CASE IrqHandler
  BY <1>1, <1>2 DEF IrqHandler, kbcVars
<1>3. CASE BootLoop
  BY <1>1, <1>3 DEF BootLoop, keyboard_poll_char, kbcVars
<1>4. CASE EndLine \/ SendEoi \/ Iret \/ TypeChar \/ TypeRun \/ RunReturn \/ C64Restore
           \/ GuestSteps \/ Boot \/ UNCHANGED vars
  BY <1>4 DEF EndLine, SendEoi, Iret, TypeChar, TypeRun, RunReturn, C64Restore,
     GuestSteps, Boot, BootTables, BootRemap, BootInstall, BootMask, BootSti, BootConsole,
     BootShell, vars, kbcVars
<1>5. CASE \/ \E l \in Lines : IrqAccept(l)
           \/ \E b \in Typed : Type(b)
           \/ \E l \in Noise : DeviceRequest(l)
  BY <1>5 DEF IrqAccept, Type, DeviceRequest, kbcVars
<1> QED  BY <1>2, <1>3, <1>4, <1>5 DEF Next, Handler

\* Whatever the latch does, each byte the user types is taken from the controller
\* at most once and in order, by the handler or by the poll of C64BOOT.
THEOREM TakesInOrder == Spec => AnyStream!Init /\ [][AnyStream!Next]_(AnyStream!stream)
<1>1. Init => AnyStream!Init
  <2>1. Init => obuf = <<>> /\ typed = 0
    BY DEF Init, KeyboardInit
  <2>2. Len(<<>>) = 0
    OBVIOUS
  <2>3. Init => typed - Len(obuf) = 0
    <3>1. 0 - 0 = 0
      OBVIOUS
    <3> QED  BY <2>1, <2>2, <3>1, Zenon
  <2> QED  BY <2>1, <2>3 DEF AnyStream!Init
<1>2. TypeOK /\ [Next]_vars => [AnyStream!Next]_(AnyStream!stream)
  <2> SUFFICES ASSUME TypeOK, [Next]_vars
               PROVE  [AnyStream!Next]_(AnyStream!stream)
    OBVIOUS
  <2>1. obuf \in Seq(Scancodes) /\ Len(obuf) \in Nat /\ typed \in Nat
    BY LenProperties DEF TypeOK, KeyboardTypeOK
  <2>2. CASE UNCHANGED <<obuf, typed>>
    BY <2>2 DEF AnyStream!stream
  <2>3. CASE ReadData /\ obuf # <<>>
    <3>1. obuf' = Tail(obuf) /\ typed' = typed
      BY <2>3 DEF ReadData
    <3>2. Len(obuf') = Len(obuf) - 1
      BY <2>1, <2>3, <3>1, HeadTailProperties
    <3>3. typed' = typed
      BY <3>1
    <3>4. typed' - Len(obuf') = typed - Len(obuf) + 1
      BY <2>1, <3>2, <3>3
    <3> QED  BY <2>3, <3>1, <3>4 DEF AnyStream!Next, AnyStream!Take
  <2>4. ASSUME NEW b \in Typed, TypeByte(b)
        PROVE  AnyStream!Next
    <3>1. b \in Scancodes
      BY KeyboardAssumption DEF TypeOK, KeyboardTypeOK
    <3>2. obuf' = Append(obuf, b) /\ typed' = typed + 1
      BY <2>4 DEF TypeByte
    <3>3. Len(obuf') = Len(obuf) + 1
      BY <2>1, <3>1, <3>2, AppendProperties
    <3>4. typed' - Len(obuf') = typed - Len(obuf)
      BY <2>1, <3>2, <3>3
    <3> QED  BY <3>1, <3>2, <3>4 DEF AnyStream!Next, AnyStream!Arrive
  <2> QED  BY <2>2, <2>3, <2>4, BytesMove
<1> QED  BY <1>1, <1>2, TypeCorrect, PTL DEF Spec

----------------------------------------------------------------------------
(* Handlers and commands end *)

\* The places in the handler, in the order in which code goes through them.
Place ==
  CASE ctx = "irq" -> 9 [] ctx = "typing" -> 8 [] ctx = "typed" -> 7
    [] ctx \in {"running", "resume", "c64boot"} -> 6
    [] ctx = "restore" -> 5 [] ctx = "endline" -> 4 [] ctx = "eoi" -> 3 [] ctx = "iret" -> 2
    [] OTHER -> 1

\* Nearer to the end of the handler: further on, or in C64TYPE with less to type.
Nearer == Place' < Place \/ (ctx = "typing" /\ Place' = Place /\ Len(line_buf') < Len(line_buf))

\* Whatever the key, the handler goes on from where it dispatched it.
LEMMA DispatchNearer ==
  ASSUME ctx = "irq", NEW b \in Scancodes, Dispatch(b)
  PROVE  Nearer
<1>1. CASE ctx' \in {"eoi", "endline", "typing", "running", "resume", "c64boot"}
  BY <1>1 DEF Nearer, Place
<1>2. CASE \E cmd \in Commands : shell_execute(cmd)
  BY <1>1, <1>2 DEF shell_execute, cmd_c64key, cmd_c64enter, cmd_c64resume, cmd_c64boot
<1> QED  BY <1>1, <1>2 DEF Dispatch, shell_input_char

\* Each step of the handler brings it nearer to its end, the loop of C64BOOT apart.
LEMMA HandlerNearer ==
  TypeOK /\ Handler => Nearer \/ (ctx = "c64boot" /\ UNCHANGED <<ctx, line_buf>>)
<1> SUFFICES ASSUME TypeOK, Handler
             PROVE  Nearer \/ (ctx = "c64boot" /\ UNCHANGED <<ctx, line_buf>>)
  OBVIOUS
<1>1. CASE IrqHandler
  <2>1. CASE cur \in irq_routines
    BY <1>1, <2>1, DataByteType, DispatchNearer DEF IrqHandler, TypeOK
  <2>2. CASE cur \notin irq_routines
    BY <1>1, <2>2 DEF IrqHandler, Nearer, Place
  <2> QED  BY <2>1, <2>2
<1>2. CASE TypeChar
  <2>1. CASE line_buf = <<>>
    BY <1>2, <2>1 DEF TypeChar, Nearer, Place
  <2>2. CASE line_buf # <<>>
    <3>1. line_buf' = Tail(line_buf) /\ ctx' = ctx /\ ctx = "typing"
      BY <1>2, <2>2 DEF TypeChar
    <3>2. line_buf \in Seq(Chars) /\ Len(line_buf) \in Nat
      BY LenProperties DEF TypeOK
    <3>3. Len(Tail(line_buf)) < Len(line_buf)
      BY <2>2, <3>2, HeadTailProperties
    <3> QED  BY <3>1, <3>3 DEF Nearer, Place
  <2> QED  BY <2>1, <2>2
<1>3. CASE BootLoop
  BY <1>3 DEF BootLoop, Nearer, Place
<1>4. CASE EndLine \/ SendEoi \/ Iret \/ TypeRun \/ RunReturn \/ C64Restore
  <2>1. \/ ctx = "endline" /\ ctx' = "eoi"
        \/ ctx = "eoi" /\ ctx' = "iret"
        \/ ctx = "iret" /\ ctx' = "main"
        \/ ctx = "typed" /\ ctx' = "running"
        \/ ctx \in {"running", "resume", "restore"} /\ ctx' = "endline"
    BY <1>4 DEF EndLine, SendEoi, Iret, TypeRun, RunReturn, C64Restore
  <2> QED  BY <2>1 DEF Nearer, Place
<1> QED  BY <1>1, <1>2, <1>3, <1>4 DEF Handler

\* The safety half of "every handler returns": whatever is typed, whatever the
\* guest and the devices do, no step takes the code of the handler back to a
\* place it has left, and each of its own steps brings it nearer to its iret,
\* the iterations of C64BOOT's loop apart: no command starts over, and C64TYPE
\* types a text that only gets shorter.
THEOREM HandlersEnd ==
  Spec => /\ [][InHandler => Nearer \/ UNCHANGED <<ctx, line_buf>>]_vars
          /\ [][Handler => Nearer \/ (ctx = "c64boot" /\ UNCHANGED <<ctx, line_buf>>)]_vars
<1>1. TypeOK /\ Discipline /\ [Next]_vars
        => [InHandler => Nearer \/ UNCHANGED <<ctx, line_buf>>]_vars
  <2> SUFFICES ASSUME TypeOK, Discipline, Next, InHandler
               PROVE  Nearer \/ UNCHANGED <<ctx, line_buf>>
    OBVIOUS
  <2>1. CASE Boot
    BY <2>1 DEF Boot, BootTables, BootRemap, BootInstall, BootMask, BootSti, BootConsole,
       BootShell, MainStep, InHandler
  <2>2. ASSUME NEW l \in Lines, IrqAccept(l)
        PROVE  FALSE
    BY <2>2, OnlyKeyboardDeliverable DEF IrqAccept, InHandler
  <2>3. CASE GuestSteps
    BY <2>3 DEF GuestSteps, cpuVars
  <2>4. CASE (\E b \in Typed : Type(b)) \/ (\E l \in Noise : DeviceRequest(l))
    BY <2>4 DEF Type, DeviceRequest, cpuVars
  <2> QED  BY <2>1, <2>2, <2>3, <2>4, HandlerNearer DEF Next
<1>2. TypeOK /\ [Next]_vars
        => [Handler => Nearer \/ (ctx = "c64boot" /\ UNCHANGED <<ctx, line_buf>>)]_vars
  BY HandlerNearer
<1> QED  BY <1>1, <1>2, TypeCorrect, DisciplineHolds, PTL DEF Spec

----------------------------------------------------------------------------
(* C64 sessions *)

\* What cmd_c64boot's loop starts its iterations with: a guest that runs, nothing
\* that ends the session yet and, after the first one, no F12 of before it.
SessionLoops ==
  ctx = "c64boot" => ~halted /\ ~killed_by_f12 /\ (polled # {} => ~f12_pressed)

\* The loop's head holds whenever the loop is at its head.
LEMMA SessionStep == TypeOK /\ SessionLoops /\ [Next]_vars => SessionLoops'
<1> SUFFICES ASSUME TypeOK, SessionLoops, [Next]_vars, ctx' = "c64boot" PROVE SessionLoops'
  BY DEF SessionLoops
<1>1. CASE UNCHANGED <<ctx, halted, polled, f12_pressed, killed_by_f12>>
  BY <1>1 DEF SessionLoops
<1>2. CASE IrqHandler
  <2>1. Dispatch(DataByte)
    BY <1>2 DEF IrqHandler
  <2>2. cmd_c64boot
    BY <2>1 DEF Dispatch, shell_input_char, shell_execute, cmd_c64key, cmd_c64enter, cmd_c64resume
  <2> QED  BY <2>2 DEF cmd_c64boot, SessionLoops
<1>3. CASE BootLoop
  BY <1>3 DEF BootLoop, SessionLoops
<1>4. CASE EndLine \/ SendEoi \/ Iret \/ TypeChar \/ TypeRun \/ RunReturn \/ C64Restore
           \/ GuestSteps \/ Boot \/ UNCHANGED vars
  BY <1>1, <1>4 DEF EndLine, SendEoi, Iret, TypeChar, TypeRun, RunReturn, C64Restore,
     GuestSteps, Boot, BootTables, BootRemap, BootInstall, BootMask, BootSti, BootConsole,
     BootShell, MainStep, vars, cpuVars, c64Vars, modeVars, histVars
<1>5. CASE \/ \E l \in Lines : IrqAccept(l)
           \/ \E b \in Typed : Type(b)
           \/ \E l \in Noise : DeviceRequest(l)
  BY <1>1, <1>5 DEF IrqAccept, Type, DeviceRequest, cpuVars, c64Vars, modeVars, histVars
<1> QED  BY <1>2, <1>3, <1>4, <1>5 DEF Next, Handler

\* The loop of C64BOOT never spins on a halted guest, and a stale F12 is worn out
\* by its first iteration (shell.c:252-282).
LEMMA SessionHolds == Spec => []SessionLoops
<1>1. Init => SessionLoops
  BY DEF Init, SessionLoops
<1> QED  BY <1>1, SessionStep, TypeCorrect, PTL DEF Spec

\* Only the loop moves a C64BOOT session.
LEMMA OnlyLoopMoves ==
  ASSUME TypeOK, Discipline, ctx = "c64boot", Next
  PROVE  \/ BootLoop
         \/ UNCHANGED <<ctx, killed_by_f12>> /\ (obuf' = obuf \/ \E b \in Typed : TypeByte(b))
<1>1. ASSUME NEW l \in Lines, IrqAccept(l)
      PROVE  FALSE
  BY <1>1, OnlyKeyboardDeliverable DEF IrqAccept
<1>2. ~Boot /\ ~GuestSteps /\ (Handler => BootLoop)
  BY DEF Boot, BootTables, BootRemap, BootInstall, BootMask, BootSti, BootConsole, BootShell,
     MainStep, GuestSteps, Handler, IrqHandler, EndLine, SendEoi, Iret, TypeChar, TypeRun,
     RunReturn, C64Restore
<1>3. CASE \E b \in Typed : Type(b)
  BY <1>3 DEF Type, cpuVars
<1>4. CASE \E l \in Noise : DeviceRequest(l)
  BY <1>4 DEF DeviceRequest, cpuVars, kbcVars
<1> QED  BY <1>1, <1>2, <1>3, <1>4 DEF Next

\* An F12 is the next byte the session will poll.
F12IsNext == ctx = "c64boot" /\ obuf # <<>> /\ Head(obuf) = "F12"

\* The safety half of F12LeavesC64: while an F12 is the next byte of a session,
\* the guest runs, so that the loop is free to go round, and the next iteration
\* leaves for the restoring code and nothing before it takes the F12 away, however
\* much is typed behind it and whatever the guest does.  From there HandlersEnd
\* leads to kernel_main.
THEOREM F12EndsSession ==
  Spec => /\ [](F12IsNext => ~halted)
          /\ [][F12IsNext => F12IsNext' \/ (ctx' = "restore" /\ killed_by_f12')]_vars
          /\ [][F12IsNext /\ BootLoop => ctx' = "restore"]_vars
<1>1. SessionLoops => (F12IsNext => ~halted)
  BY DEF SessionLoops, F12IsNext
<1>2. ASSUME TypeOK, F12IsNext, BootLoop
      PROVE  ctx' = "restore" /\ killed_by_f12'
  <2>1. PolledByte = "F12"
    BY <1>2 DEF F12IsNext, PolledByte, DataByte
  <2> QED  BY <1>2, <2>1 DEF BootLoop
<1>3. ASSUME TypeOK, F12IsNext, NEW b \in Typed, TypeByte(b), UNCHANGED ctx
      PROVE  F12IsNext'
  <2>1. obuf \in Seq(Scancodes) /\ b \in Scancodes /\ obuf # <<>>
    BY <1>3, KeyboardAssumption DEF TypeOK, KeyboardTypeOK, F12IsNext
  <2>2. obuf' = Append(obuf, b)
    BY <1>3 DEF TypeByte
  <2>3. Head(Append(obuf, b)) = Head(obuf) /\ Append(obuf, b) # <<>>
    BY <2>1
  <2> QED  BY <1>3, <2>2, <2>3 DEF F12IsNext
<1>4. TypeOK /\ Discipline /\ [Next]_vars
        => [F12IsNext => F12IsNext' \/ (ctx' = "restore" /\ killed_by_f12')]_vars
  <2> SUFFICES ASSUME TypeOK, Discipline, Next, F12IsNext
               PROVE  F12IsNext' \/ (ctx' = "restore" /\ killed_by_f12')
    OBVIOUS
  <2>1. CASE BootLoop
    BY <1>2, <2>1
  <2>2. CASE UNCHANGED <<ctx, obuf>>
    BY <2>2 DEF F12IsNext
  <2>3. CASE UNCHANGED ctx /\ \E b \in Typed : TypeByte(b)
    BY <1>3, <2>3
  <2> QED  BY <2>1, <2>2, <2>3, OnlyLoopMoves DEF F12IsNext
<1>5. TypeOK /\ [Next]_vars => [F12IsNext /\ BootLoop => ctx' = "restore"]_vars
  BY <1>2
<1> QED  BY <1>1, <1>4, <1>5, SessionHolds, TypeCorrect, DisciplineHolds, PTL DEF Spec

\* How much of "F12 to exit" (shell.c:106) is true in spite of ExitedByItsOwnF12's
\* refutation: only the first iteration of a session can fall for an F12 of
\* before it; after that it reports F12 only for one that it polled.
THEOREM StaleF12OnlyAtFirstPoll ==
  Spec => [][ctx = "c64boot" /\ killed_by_f12' => PolledByte = "F12" \/ polled = {}]_vars
<1>1. SessionLoops /\ TypeOK /\ Discipline /\ [Next]_vars
        => [ctx = "c64boot" /\ killed_by_f12' => PolledByte = "F12" \/ polled = {}]_vars
  <2> SUFFICES ASSUME SessionLoops, TypeOK, Discipline, Next, ctx = "c64boot", killed_by_f12'
               PROVE  PolledByte = "F12" \/ polled = {}
    OBVIOUS
  <2>1. BootLoop
    BY OnlyLoopMoves DEF SessionLoops
  <2> QED  BY <2>1 DEF BootLoop, SessionLoops
<1> QED  BY <1>1, SessionHolds, TypeCorrect, DisciplineHolds, PTL DEF Spec

----------------------------------------------------------------------------
(* What is typed into the guest *)

\* C64TYPE has room in KEYD for the rest of its text and for Return.
TextFits == ctx = "typing" /\ keys.ndx + Len(line_buf) < KeydMax

\* The newest key in KEYD is Return.
ReturnIsLast == keys.ndx \in 1..KeydMax /\ keys.keyd[keys.ndx - 1] = "CR"

\* A key that finds room is appended.
LEMMA QueueAppends ==
  ASSUME NEW k \in [ndx : 0..255, keyd : Keyd], NEW c \in (Chars \cup {"CR"}) \ {"ESC"},
         k.ndx < KeydMax
  PROVE  /\ QueueKey(k, c).ndx = k.ndx + 1
         /\ QueueKey(k, c).keyd[k.ndx] = Petscii(c)
<1>1. k.ndx \in 0..KeydMax /\ ~(k.ndx >= KeydMax)
  BY C64KeysAssumption
<1>2. QueueKey(k, c) = [ndx |-> k.ndx + 1, keyd |-> [k.keyd EXCEPT ![k.ndx] = Petscii(c)]]
  BY <1>1 DEF QueueKey
<1>3. k.keyd \in Keyd
  OBVIOUS
<1>4. [k.keyd EXCEPT ![k.ndx] = Petscii(c)][k.ndx] = Petscii(c)
  BY <1>1, <1>3 DEF Keyd
<1> QED  BY <1>2, <1>4

\* Each character of C64TYPE leaves room for the rest, and Return comes last.
LEMMA TypeCharFits ==
  ASSUME TypeOK, TextFits, TypeChar
  PROVE  TextFits' \/ (ctx' = "typed" /\ ReturnIsLast')
<1>1. keys \in [ndx : 0..255, keyd : Keyd] /\ line_buf \in Seq(Chars) /\ Len(line_buf) \in Nat
  BY LenProperties DEF TypeOK, C64TypeOK
<1> DEFINE n == keys.ndx
           l == Len(line_buf)
<1>2. n \in Nat /\ l \in Nat /\ KeydMax \in Nat /\ n + l < KeydMax
  <2>1. n \in Nat
    <3>1. keys.ndx \in 0..255
      BY <1>1, Zenon
    <3>2. \A i \in 0..255 : i \in Nat
      OBVIOUS
    <3> QED  BY <3>1, <3>2
  <2>2. n + l < KeydMax
    BY DEF TextFits
  <2> QED  BY <1>1, <2>1, <2>2, C64KeysAssumption
<1> HIDE DEF n, l
<1>5. n < KeydMax
  BY <1>2
<1>6. keys.ndx < KeydMax
  BY <1>5 DEF n
<1>3. CASE line_buf = <<>>
  <2>1. ctx' = "typed" /\ keys' = QueueKey(keys, "CR")
    BY <1>3 DEF TypeChar, c64_inject_key, InjectedInto
  <2>3. keys'.ndx = n + 1 /\ keys'.keyd[n] = Petscii("CR")
    BY <1>1, <1>6, <2>1, QueueAppends DEF n
  <2>4. Petscii("CR") = "CR"
    BY DEF Petscii
  <2>5. n + 1 \in 1..KeydMax /\ (n + 1) - 1 = n
    BY <1>2, <1>5
  <2> QED  BY <2>1, <2>3, <2>4, <2>5 DEF ReturnIsLast
<1>4. CASE line_buf # <<>>
  <2> DEFINE c == Head(line_buf)
  <2>1. c \in Chars /\ Len(Tail(line_buf)) = Len(line_buf) - 1 /\ Len(line_buf) > 0
    BY <1>1, <1>4, HeadTailProperties
  <2>2. ctx' = "typing" /\ line_buf' = Tail(line_buf) /\ keys' = InjectedInto(keys, c)
    BY <1>4 DEF TypeChar, c64_inject_key, TextFits
  <2> HIDE DEF c
  <2>3. Len(line_buf') = Len(line_buf) - 1
    BY <2>1, <2>2
  <2>4. keys'.ndx = n \/ keys'.ndx = n + 1
    <3>1. CASE c = "ESC"
      BY <2>2, <3>1 DEF InjectedInto, n
    <3>2. CASE c # "ESC"
      <4>1. keys' = QueueKey(keys, c) /\ c \in (Chars \cup {"CR"}) \ {"ESC"}
        BY <2>1, <2>2, <3>2 DEF InjectedInto
      <4> QED  BY <1>1, <1>6, <4>1, QueueAppends DEF n
    <3> QED  BY <3>1, <3>2
  <2>5. keys'.ndx + Len(line_buf') < KeydMax
    <3>1. n + (l - 1) < KeydMax /\ (n + 1) + (l - 1) < KeydMax
      BY <1>2
    <3> QED  BY <2>3, <2>4, <3>1 DEF l
  <2> QED  BY <2>2, <2>5 DEF TextFits
<1> QED  BY <1>3, <1>4

\* Nothing but C64TYPE's loop touches its text or the keys while it types, and
\* nothing at all touches the keys before the guest is started.
LEMMA OnlyTypeCharMoves ==
  ASSUME TypeOK, Discipline, ctx \in {"typing", "typed"}, Next
  PROVE  \/ ctx = "typing" /\ TypeChar
         \/ UNCHANGED <<keys, line_buf>> /\ (ctx' = ctx \/ ctx = "typed")
<1>1. ASSUME NEW l \in Lines, IrqAccept(l)
      PROVE  FALSE
  BY <1>1, OnlyKeyboardDeliverable DEF IrqAccept
<1>2. ~Boot /\ ~GuestSteps /\ (Handler => TypeChar \/ TypeRun)
  BY DEF Boot, BootTables, BootRemap, BootInstall, BootMask, BootSti, BootConsole, BootShell,
     MainStep, GuestSteps, Handler, IrqHandler, EndLine, SendEoi, Iret, BootLoop,
     RunReturn, C64Restore
<1>3. CASE TypeChar
  BY <1>3 DEF TypeChar
<1>4. CASE TypeRun
  BY <1>4 DEF TypeRun, c64Vars
<1>5. CASE (\E b \in Typed : Type(b)) \/ (\E l \in Noise : DeviceRequest(l))
  BY <1>5 DEF Type, DeviceRequest, cpuVars, c64Vars
<1> QED  BY <1>1, <1>2, <1>3, <1>4, <1>5 DEF Next

\* How much of "inject every character, then Enter" (shell.c:434-436) is true in
\* spite of TypedLineEndsInReturn's refutation: a text that fits into what is
\* free of KEYD, with a place for Return, is typed to its end, and the guest is
\* started with Return as its newest key.
THEOREM LineThatFitsEndsInReturn ==
  Spec => /\ [][TextFits => TextFits' \/ (ctx' = "typed" /\ ReturnIsLast')]_vars
          /\ [][ctx = "typed" /\ ReturnIsLast => ReturnIsLast']_vars
<1>1. TypeOK /\ Discipline /\ [Next]_vars
        => [TextFits => TextFits' \/ (ctx' = "typed" /\ ReturnIsLast')]_vars
  <2> SUFFICES ASSUME TypeOK, Discipline, Next, TextFits
               PROVE  TextFits' \/ (ctx' = "typed" /\ ReturnIsLast')
    OBVIOUS
  <2>1. CASE TypeChar
    BY <2>1, TypeCharFits
  <2>2. CASE UNCHANGED <<keys, line_buf, ctx>>
    BY <2>2 DEF TextFits
  <2> QED  BY <2>1, <2>2, OnlyTypeCharMoves DEF TextFits
<1>2. TypeOK /\ Discipline /\ [Next]_vars => [ctx = "typed" /\ ReturnIsLast => ReturnIsLast']_vars
  BY OnlyTypeCharMoves DEF ReturnIsLast
<1> QED  BY <1>1, <1>2, TypeCorrect, DisciplineHolds, PTL DEF Spec

\* "running live -- type on your keyboard!" (shell.c:470) is not so: the branch of
\* keyboard_handler that would send a key to the guest (keyboard.c:89-90) is never
\* taken, since no key is handled in C64 mode; from the handler a key reaches KEYD
\* only as an argument of a command, which Enter executes.
THEOREM HandlerSendsNoKeys ==
  Spec => /\ [](ctx = "irq" => ~c64_mode_active)
          /\ [][ctx = "irq" /\ keys' # keys => DataByte = "ENTER"]_vars
<1>1. Discipline => (ctx = "irq" => ~c64_mode_active)
  BY DEF Discipline, C64ModeOnlyInResume
<1>2. TypeOK /\ Discipline /\ [Next]_vars
        => [ctx = "irq" /\ keys' # keys => DataByte = "ENTER"]_vars
  <2> SUFFICES ASSUME TypeOK, Discipline, Next, ctx = "irq", keys' # keys
               PROVE  DataByte = "ENTER"
    OBVIOUS
  <2>1. IrqHandler
    BY DEF Next, Boot, BootTables, BootRemap, BootInstall, BootMask, BootSti, BootConsole, BootShell,
       MainStep, GuestSteps, Handler, EndLine, SendEoi, Iret, BootLoop, TypeChar, TypeRun,
       RunReturn, C64Restore, IrqAccept, Type, DeviceRequest, c64Vars
  <2>2. Dispatch(DataByte)
    BY <2>1 DEF IrqHandler, c64Vars
  <2>3. ~c64_mode_active
    BY <1>1
  <2>4. Decode(DataByte, shift_pressed) = "NL"
    BY <2>2, <2>3 DEF Dispatch, shell_input_char, NoEffect
  <2> QED  BY <2>4, DataByteType DEF TypeOK, Decode, NoChar
<1> QED  BY <1>1, <1>2, TypeCorrect, DisciplineHolds, PTL DEF Spec
===============================================================================
