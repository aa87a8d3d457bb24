----------------------------- MODULE Ata_proofs -----------------------------
(***************************************************************************)
(* A drive that answers within a poll is, for any number of sectors and    *)
(* any contents, the sector store of SectorStore (its safety half).        *)
(***************************************************************************)
EXTENDS Ata, Integers, TLAPS

\* The inductive invariant.
Inv == TypeOK /\ InStep

\* A call is a read or a write of a sector.
LEMMA CallShape ==
  ASSUME NEW c \in Calls
  PROVE  /\ c.op \in {"read", "write"} /\ c.lba \in Lba /\ c # Idle
         /\ c.op = "write" => c.data \in Data
BY DEF Calls, Idle

\* Each step of the drive keeps it in step with the driver.
LEMMA DriveInv == Inv /\ Drive => Inv'
<1> SUFFICES ASSUME Inv, Drive PROVE Inv'
  OBVIOUS
<1> USE DEF Inv, driverVars
<1>1. TypeOK'
  <2> USE DEF TypeOK, Commands
  <2>1. CASE DriveFails   BY <2>1 DEF DriveFails
  <2>2. CASE DriveReads   BY <2>2 DEF DriveReads
  <2>3. CASE DriveAccepts BY <2>3 DEF DriveAccepts
  <2>4. CASE DriveStores  BY <2>4 DEF DriveStores
  <2>5. CASE DriveFlushes BY <2>5 DEF DriveFlushes
  <2> QED BY <2>1, <2>2, <2>3, <2>4, <2>5 DEF Drive
<1>2. at # "idle" /\ at' = at /\ call' = call
  BY DEF Drive, DriveFails, DriveReads, DriveAccepts, DriveStores, DriveFlushes, InStep, AtRest
<1>3. CASE Reading
  <2>1. Reading'
    BY <1>2, <1>3 DEF Reading, Drive, DriveFails, DriveReads, DriveAccepts, DriveStores, DriveFlushes
  <2> QED BY <1>1, <1>2, <2>1 DEF InStep
<1>4. CASE Writing
  <2>1. Writing'
    BY <1>2, <1>4 DEF Writing, Drive, DriveFails, DriveReads, DriveAccepts, DriveStores, DriveFlushes
  <2> QED BY <1>1, <1>2, <2>1 DEF InStep
<1>5. CASE Storing
  <2>1. Storing'
    BY <1>2, <1>5 DEF Storing, Drive, DriveFails, DriveReads, DriveAccepts, DriveStores, DriveFlushes
  <2> QED BY <1>1, <1>2, <2>1 DEF InStep
<1> QED BY <1>2, <1>3, <1>4, <1>5 DEF InStep

\* A call begins with the drive at rest, which takes its command.
LEMMA BeginInv ==
  ASSUME Inv, NEW c \in Calls, Begin(c)
  PROVE  Inv'
<1> USE DEF Inv, Begin, Command
<1>1. drive' = "busy" /\ dcmd' = [kind |-> c.op, lba |-> c.lba] /\ dbuf' = dbuf
  BY DEF InStep, AtRest
<1>2. TypeOK'
  BY <1>1, CallShape DEF TypeOK, Commands
<1>3. Reading' \/ Writing'
  BY <1>1, CallShape DEF Reading, Writing
<1> QED BY <1>2, <1>3 DEF InStep

\* Each step of a call keeps driver and drive in step, when the drive is timely.
LEMMA DriverInv == Timely /\ Inv /\ Driver => Inv'
<1> SUFFICES ASSUME Timely, Inv, Driver PROVE Inv'
  OBVIOUS
<1> USE CallShape DEF Inv
<1>1. TypeOK'
  <2> USE DEF TypeOK, Return, driveVars
  <2>1. CASE PollSucceeds  BY <2>1 DEF PollSucceeds
  <2>2. CASE PollFails
    BY <2>2 DEF PollFails, Answers, InStep, Reading, Writing, Storing
  <2>3. CASE ReadTransfer
    <3>1. PICK d \in Data : answer' = [call |-> call, ok |-> TRUE, data |-> d]
      BY <2>3 DEF ReadTransfer
    <3>2. call \in Calls /\ drive = "in"
      BY <2>3 DEF ReadTransfer, InStep, Reading, Writing, Storing
    <3> QED BY <2>3, <3>1, <3>2 DEF ReadTransfer, Answers
  <2>4. CASE WriteTransfer BY <2>4 DEF WriteTransfer, Commands, InStep, Reading, Writing, Storing
  <2>5. CASE Flush
    BY <2>5 DEF Flush, Command, Commands, InStep, Reading, Writing, Storing
  <2>6. CASE FlushEnds
    BY <2>6 DEF FlushEnds, Answers, InStep, Reading, Writing, Storing
  <2> QED BY <2>1, <2>2, <2>3, <2>4, <2>5, <2>6 DEF Driver
<1>2. InStep'
  <2> USE DEF InStep, Return, driveVars
  <2>1. CASE PollSucceeds
    BY <2>1 DEF PollSucceeds, PollEnds, Reading, Writing, Storing
  <2>2. CASE PollFails
    BY <2>2 DEF PollFails, PollEnds, AtRest, Reading, Writing, Storing
  <2>3. CASE ReadTransfer
    BY <2>3 DEF ReadTransfer, AtRest, Reading, Writing, Storing
  <2>4. CASE WriteTransfer
    <3>1. Writing /\ drive = "out" /\ dcmd.lba = call.lba
      BY <2>4 DEF WriteTransfer, Reading, Writing, Storing
    <3>2. Storing'
      BY <2>4, <3>1 DEF WriteTransfer, Writing, Storing
    <3> QED BY <2>4, <3>2 DEF WriteTransfer
  <2>5. CASE Flush
    <3>1. Storing
      BY <2>5 DEF Flush, Reading, Writing
    <3>2. Storing'
      BY <2>5, <3>1 DEF Flush, Command, Storing
    <3> QED BY <2>5, <3>2 DEF Flush
  <2>6. CASE FlushEnds
    BY <2>6 DEF FlushEnds, PollEnds, AtRest, Reading, Writing, Storing
  <2> QED BY <2>1, <2>2, <2>3, <2>4, <2>5, <2>6 DEF Driver
<1> QED BY <1>1, <1>2

\* Driver and drive never lose step (ata.c:43-85), and the types hold.
THEOREM InvHolds == ASSUME Timely PROVE Spec => []Inv
<1>1. Init => Inv
  BY DEF Init, Inv, TypeOK, InStep, AtRest, Commands, Answers
<1>2. Inv /\ [Next]_vars => Inv'
  <2> SUFFICES ASSUME Inv, [Next]_vars PROVE Inv'
    OBVIOUS
  <2>1. CASE UNCHANGED vars
    BY <2>1 DEF vars, driveVars, driverVars, Inv, TypeOK, InStep, AtRest, Reading, Writing, Storing
  <2>2. CASE Next
    BY <2>2, DriveInv, BeginInv, DriverInv DEF Next
  <2> QED BY <2>1, <2>2
<1> QED BY <1>1, <1>2, PTL DEF Spec

\* No command of a call is ever ignored, and no answer is an earlier call's.
THEOREM InStepHolds == ASSUME Timely PROVE Spec => []InStep
BY InvHolds, PTL DEF Inv

\* Every step of driver and drive is a step of the sector store, or none.
LEMMA StepRefines == Inv /\ [Next]_vars => [Disk!Next]_Disk!store
<1> SUFFICES ASSUME Inv, [Next]_vars PROVE [Disk!Next]_Disk!store
  OBVIOUS
<1> USE CallShape DEF Inv, InStep, AtRest, Reading, Writing, Storing, driveVars, driverVars,
                     Disk!store
<1>1. CASE UNCHANGED vars
  BY <1>1 DEF vars
<1>2. CASE DriveStores
  <2>1. call.op = "write" /\ dcmd.lba = call.lba /\ dbuf = call.data
    BY <1>2 DEF DriveStores
  <2>2. Disk!Store
    BY <1>2, <2>1 DEF DriveStores, Disk!Store
  <2> QED BY <2>2 DEF Disk!Next
<1>3. CASE DriveFails \/ DriveReads \/ DriveAccepts \/ DriveFlushes
  BY <1>3 DEF DriveFails, DriveReads, DriveAccepts, DriveFlushes
<1>4. ASSUME NEW c \in Calls, Begin(c) PROVE Disk!Next
  BY <1>4 DEF Begin, Disk!Next, Disk!Begin, Idle, Disk!Idle, Calls, Disk!Calls
<1>5. CASE PollFails
  BY <1>5 DEF PollFails, Return, Disk!Next, Disk!Answer, Idle, Disk!Idle
<1>6. CASE ReadTransfer
  BY <1>6 DEF ReadTransfer, Return, Disk!Next, Disk!Answer, Idle, Disk!Idle
<1>7. CASE FlushEnds
  BY <1>7 DEF FlushEnds, Return, Disk!Next, Disk!Answer, Idle, Disk!Idle
<1>8. CASE PollSucceeds \/ WriteTransfer \/ Flush
  BY <1>8 DEF PollSucceeds, WriteTransfer, Flush
<1> QED BY <1>1, <1>2, <1>3, <1>4, <1>5, <1>6, <1>7, <1>8 DEF Next, Drive, Driver

\* ata.c with a timely drive implements the safety half of the sector store:
\* reads that succeed return their sector, and only a write changes one, its own.
THEOREM ImplementsSectorStoreSafety ==
  ASSUME Timely PROVE Spec => Disk!Init /\ [][Disk!Next]_Disk!store
<1>1. Init => Disk!Init
  BY DEF Init, Disk!Init, Idle, Disk!Idle
<1> QED BY <1>1, StepRefines, InvHolds, PTL DEF Spec

----------------------------------------------------------------------------
(* Answers *)

\* No step leaves a read answered with anything but its sector.
LEMMA AnswerStep ==
  ASSUME Timely
  PROVE  Inv /\ ReadOkMeansSector /\ [Next]_vars => ReadOkMeansSector'
<1> SUFFICES ASSUME Inv, ReadOkMeansSector, [Next]_vars PROVE ReadOkMeansSector'
  OBVIOUS
<1>1. CASE at' # "idle"
  BY <1>1 DEF ReadOkMeansSector
<1>2. CASE UNCHANGED vars
  BY <1>2 DEF vars, driverVars, ReadOkMeansSector
<1>3. CASE Drive
  <2>1. at # "idle" /\ at' = at
    BY <1>3 DEF Inv, InStep, AtRest, Drive, DriveFails, DriveReads, DriveAccepts, DriveStores,
       DriveFlushes, driverVars
  <2> QED  BY <1>1, <2>1
<1>4. CASE PollFails
  <2>1. answer'.ok = FALSE
    BY <1>4 DEF PollFails, Return
  <2> QED  BY <2>1 DEF ReadOkMeansSector
<1>5. CASE ReadTransfer
  <2>1. Reading /\ drive = "in"
    BY <1>5 DEF ReadTransfer, Inv, InStep, Reading, Writing, Storing
  <2>2. answer' = [call |-> call, ok |-> TRUE, data |-> disk[call.lba]] /\ disk' = disk
    BY <1>5, <2>1 DEF ReadTransfer, Return, Reading
  <2> QED  BY <2>2 DEF ReadOkMeansSector
<1>6. CASE FlushEnds
  <2>1. call.op = "write"
    BY <1>6 DEF FlushEnds, Inv, InStep, Reading, Writing, Storing
  <2>2. answer'.call.op = "write"
    BY <1>6, <2>1 DEF FlushEnds, Return
  <2> QED  BY <2>2 DEF ReadOkMeansSector
<1>7. CASE PollSucceeds \/ WriteTransfer \/ Flush \/ \E c \in Calls : Begin(c)
  BY <1>1, <1>7 DEF PollSucceeds, WriteTransfer, Flush, Begin
<1> QED  BY <1>2, <1>3, <1>4, <1>5, <1>6, <1>7 DEF Next, Driver

\* "Returns 0 on success" (ata.h:5) is true of reads from a drive that answers
\* within a poll; a late one breaks it (run late_answer).
THEOREM ReadOkMeansSectorHolds == ASSUME Timely PROVE Spec => []ReadOkMeansSector
<1>1. Init => ReadOkMeansSector
  BY DEF Init, ReadOkMeansSector
<1> QED  BY <1>1, AnswerStep, InvHolds, PTL DEF Spec

----------------------------------------------------------------------------
(* Calls end *)

\* How far a call is from its end; a drive at work can still make one step.
Stage == CASE at = "poll" -> 4 [] at = "transfer" -> 3 [] at = "flush" -> 2
           [] at = "flushing" -> 1 [] OTHER -> 0
StepsLeft == 2 * Stage + (IF drive = "busy" THEN 1 ELSE 0)

\* What needs no drive in time: the types, and a call while the driver is in one.
InCall == TypeOK /\ (call = Idle <=> at = "idle")

\* Something is left to do, for the drive or for the driver: each line is the
\* guard of a step that a busy drive or a call in progress can make.
GoesOn ==
  \/ drive = "busy"
  \/ at \in {"poll", "flushing"} /\ \E ok \in BOOLEAN : PollEnds(ok)
  \/ at = "transfer" /\ call.op \in {"read", "write"}
  \/ at = "flush"

\* Whatever the drive does, the types hold and a call is known by its place.
LEMMA InCallStep == InCall /\ [Next]_vars => InCall'
<1> SUFFICES ASSUME InCall, [Next]_vars PROVE InCall'
  OBVIOUS
<1> USE CallShape DEF InCall, TypeOK, driveVars, driverVars
<1>0. call = Idle \/ call \in Calls
  OBVIOUS
<1>1. CASE DriveFails   BY <1>1 DEF DriveFails
<1>2. CASE DriveReads   BY <1>2 DEF DriveReads, Commands
<1>3. CASE DriveAccepts BY <1>3 DEF DriveAccepts
<1>4. CASE DriveStores  BY <1>4 DEF DriveStores, Commands
<1>5. CASE DriveFlushes BY <1>5 DEF DriveFlushes
<1>6. ASSUME NEW c \in Calls, Begin(c)
      PROVE  InCall'
  <2>1. [kind |-> c.op, lba |-> c.lba] \in Commands
    BY DEF Commands
  <2> QED  BY <1>6, <2>1 DEF Begin, Command
<1>7. CASE PollSucceeds BY <1>7 DEF PollSucceeds
<1>8. CASE PollFails    BY <1>8 DEF PollFails, Return, Answers
<1>9. CASE ReadTransfer
  <2>1. PICK d \in Data : Return([call |-> call, ok |-> TRUE, data |-> d])
    BY <1>9 DEF ReadTransfer
  <2>2. answer' \in Answers
    BY <1>9, <2>1 DEF ReadTransfer, Return, Answers
  <2> QED  BY <1>9, <2>1, <2>2 DEF ReadTransfer, Return
<1>10. CASE WriteTransfer
  <2>1. [kind |-> "store", lba |-> dcmd.lba] \in Commands /\ call.data \in Data
    BY <1>10 DEF WriteTransfer, Commands
  <2> QED  BY <1>10, <2>1 DEF WriteTransfer
<1>11. CASE Flush
  <2>1. [kind |-> "flush", lba |-> call.lba] \in Commands
    BY <1>11 DEF Flush, Commands
  <2> QED  BY <1>11, <2>1 DEF Flush, Command
<1>12. CASE FlushEnds    BY <1>12 DEF FlushEnds, Return, Answers
<1>13. CASE UNCHANGED vars BY <1>13 DEF vars
<1> QED
  BY <1>1, <1>2, <1>3, <1>4, <1>5, <1>6, <1>7, <1>8, <1>9, <1>10, <1>11, <1>12, <1>13
  DEF Next, Drive, Driver

\* Each step of a call, the driver's or the drive's, brings it nearer to its end.
LEMMA StepsRunOut == InCall /\ at # "idle" /\ Next => StepsLeft' < StepsLeft
<1> SUFFICES ASSUME InCall, at # "idle", Next PROVE StepsLeft' < StepsLeft
  OBVIOUS
<1> USE DEF InCall, TypeOK, StepsLeft, Stage, driveVars, driverVars
<1>1. CASE Drive
  BY <1>1 DEF Drive, DriveFails, DriveReads, DriveAccepts, DriveStores, DriveFlushes
<1>2. CASE PollSucceeds  BY <1>2 DEF PollSucceeds
<1>3. CASE PollFails     BY <1>3 DEF PollFails, Return
<1>4. CASE ReadTransfer  BY <1>4 DEF ReadTransfer, Return
<1>5. CASE WriteTransfer BY <1>5 DEF WriteTransfer
<1>6. CASE Flush         BY <1>6 DEF Flush, Command
<1>7. CASE FlushEnds     BY <1>7 DEF FlushEnds, Return
<1> QED  BY <1>1, <1>2, <1>3, <1>4, <1>5, <1>6, <1>7 DEF Next, Driver, Begin

\* The safety half of "every call ends", for any drive, late ones included: a
\* call has something left to do until it returns, and what is left is a number
\* below 10 that each step of driver and drive makes smaller (the poll gives up
\* on a drive that shows nothing, and the flush poll on one that failed).
THEOREM CallsEnd ==
  Spec => /\ [](at # "idle" => GoesOn /\ StepsLeft \in 1..9)
          /\ [][at # "idle" => StepsLeft' < StepsLeft]_vars
<1>1. Init => InCall
  BY DEF Init, InCall, TypeOK, Commands, Answers
<1>2. InCall => (at # "idle" => GoesOn /\ StepsLeft \in 1..9)
  <2> SUFFICES ASSUME InCall, at # "idle" PROVE GoesOn /\ StepsLeft \in 1..9
    OBVIOUS
  <2>1. StepsLeft \in 1..9
    BY DEF InCall, TypeOK, StepsLeft, Stage
  <2>2. call \in Calls
    BY DEF InCall, TypeOK
  <2>3. CASE at \in {"poll", "flushing"}
    <3>1. drive = "busy" \/ PollEnds(TRUE) \/ PollEnds(FALSE)
      BY DEF InCall, TypeOK, PollEnds
    <3> QED  BY <2>1, <2>3, <3>1 DEF GoesOn
  <2> QED  BY <2>1, <2>2, <2>3, CallShape DEF InCall, TypeOK, GoesOn
<1>3. InCall /\ [Next]_vars => [at # "idle" => StepsLeft' < StepsLeft]_vars
  BY StepsRunOut
<1> QED  BY <1>1, <1>2, <1>3, InCallStep, PTL DEF Spec
===============================================================================
