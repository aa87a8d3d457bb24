--------------------------------- MODULE Ata ---------------------------------
(***************************************************************************)
(* kernel/ata.c and the drive it polls.  The processor does nothing else   *)
(* while it polls, but the drive goes on: it may still be busy with a call *)
(* whose poll gave up.  A drive that is busy, or that has a sector to pass *)
(* in or out, ignores a new command, as QEMU's does.                       *)
(***************************************************************************)
CONSTANTS
  Lba, Data,
  Timely    \* does the drive finish within the million reads of a poll?

ASSUME AtaAssumption == Timely \in BOOLEAN

VARIABLES
  \* the drive
  disk,     \* [Lba -> Data]
  drive,    \* what its status register shows: BSY, DRQ (in or out), ERR or none
  dcmd,     \* the command it executes
  dbuf,     \* its sector buffer
  \* the driver
  at,       \* the place in ata_read_sector or ata_write_sector
  call,     \* the call in progress
  answer    \* what the last call returned

driveVars  == <<drive, dcmd, dbuf>>
driverVars == <<at, call, answer>>
vars == <<disk, driveVars, driverVars>>

Idle  == [op |-> "none"]
Calls == [op : {"read"}, lba : Lba] \cup [op : {"write"}, lba : Lba, data : Data]
Commands == [kind : {"read", "write", "store", "flush"}, lba : Lba]
Answers == {Idle} \cup [call : Calls, ok : BOOLEAN]
           \cup [call : Calls, ok : {TRUE}, data : Data]

Init ==
  /\ disk \in [Lba -> Data] /\ drive = "ready"
  /\ dcmd \in [kind : {"flush"}, lba : Lba] /\ dbuf \in Data
  /\ at = "idle" /\ call = Idle /\ answer = Idle

TypeOK ==
  /\ disk \in [Lba -> Data] /\ drive \in {"ready", "busy", "in", "out", "error"}
  /\ dcmd \in Commands /\ dbuf \in Data
  /\ at \in {"idle", "poll", "transfer", "flush", "flushing"}
  /\ call \in Calls \cup {Idle} /\ answer \in Answers

----------------------------------------------------------------------------
(* The drive *)

Command(kind, lba) ==
  IF drive \in {"ready", "error"}
  THEN drive' = "busy" /\ dcmd' = [kind |-> kind, lba |-> lba] /\ UNCHANGED dbuf
  ELSE UNCHANGED driveVars

DriveFails == drive = "busy" /\ drive' = "error" /\ UNCHANGED <<disk, dbuf, dcmd, driverVars>>

DriveReads ==
  /\ drive = "busy" /\ dcmd.kind = "read"
  /\ drive' = "in" /\ dbuf' = disk[dcmd.lba]
  /\ UNCHANGED <<disk, dcmd, driverVars>>

DriveAccepts ==
  /\ drive = "busy" /\ dcmd.kind = "write"
  /\ drive' = "out"
  /\ UNCHANGED <<disk, dbuf, dcmd, driverVars>>

DriveStores ==
  /\ drive = "busy" /\ dcmd.kind = "store"
  /\ drive' = "ready" /\ disk' = [disk EXCEPT ![dcmd.lba] = dbuf]
  /\ UNCHANGED <<dbuf, dcmd, driverVars>>

DriveFlushes ==
  /\ drive = "busy" /\ dcmd.kind = "flush"
  /\ drive' = "ready"
  /\ UNCHANGED <<disk, dbuf, dcmd, driverVars>>

Drive == DriveFails \/ DriveReads \/ DriveAccepts \/ DriveStores \/ DriveFlushes

----------------------------------------------------------------------------
(* The driver *)

\* Mutant: the poll gives up while a drive in time is still busy.
PollEnds_impatient(ok) ==
  IF ok THEN drive \in {"in", "out"} ELSE drive \in {"error", "ready", "busy"}

\* Mutant: the poll has no timeout.
PollEnds_forever(ok) ==
  IF ok THEN drive \in {"in", "out"} ELSE drive = "error"

\* ata_poll_ready returns 0 (ok) or -1.  A drive that shows neither BSY, ERR nor
\* DRQ will never set one by itself, and the poll times out.
PollEnds(ok) ==
  IF ok THEN drive \in {"in", "out"}
        ELSE drive \in {"error", "ready"} \/ (drive = "busy" /\ ~Timely)

Return(a) == at' = "idle" /\ call' = Idle /\ answer' = a

\* Registers and command; the call polls next.
Begin(c) ==
  /\ at = "idle"
  /\ Command(c.op, c.lba)
  /\ at' = "poll" /\ call' = c
  /\ UNCHANGED <<disk, answer>>

PollSucceeds ==
  /\ at = "poll" /\ PollEnds(TRUE)
  /\ at' = "transfer"
  /\ UNCHANGED <<disk, driveVars, call, answer>>

PollFails ==
  /\ at = "poll" /\ PollEnds(FALSE)
  /\ Return([call |-> call, ok |-> FALSE])
  /\ UNCHANGED <<disk, driveVars>>

\* 256 words from the data port, which a drive that waits for data makes up.
ReadTransfer ==
  /\ at = "transfer" /\ call.op = "read"
  /\ \E d \in IF drive = "in" THEN {dbuf} ELSE Data :
       Return([call |-> call, ok |-> TRUE, data |-> d])
  /\ drive' = IF drive = "in" THEN "ready" ELSE drive
  /\ UNCHANGED <<disk, dbuf, dcmd>>

\* 256 words to the data port, which a drive that has data to give ignores.
WriteTransfer ==
  /\ at = "transfer" /\ call.op = "write"
  /\ IF drive = "out"
     THEN /\ drive' = "busy" /\ dbuf' = call.data
          /\ dcmd' = [kind |-> "store", lba |-> dcmd.lba]
     ELSE UNCHANGED driveVars
  /\ at' = "flush"
  /\ UNCHANGED <<disk, call, answer>>

\* The flush command, which a drive still storing ignores.
Flush ==
  /\ at = "flush"
  /\ Command("flush", call.lba)
  /\ at' = "flushing"
  /\ UNCHANGED <<disk, call, answer>>

\* Its poll, whose result is not looked at.
FlushEnds ==
  /\ at = "flushing" /\ \E ok \in BOOLEAN : PollEnds(ok)
  /\ Return([call |-> call, ok |-> TRUE])
  /\ UNCHANGED <<disk, driveVars>>

\* A call in progress goes on.
Driver == PollSucceeds \/ PollFails \/ ReadTransfer \/ WriteTransfer \/ Flush \/ FlushEnds

Next == Drive \/ Driver \/ \E c \in Calls : Begin(c)

Spec == Init /\ [][Next]_vars

\* The processor runs; a timely drive does too.
FairSpec == Spec /\ WF_vars(Driver) /\ WF_vars(Drive)

----------------------------------------------------------------------------
(* Properties *)

\* Seen from fs.c and the shell, a drive in time is an array of sectors that is
\* read and written one call at a time, and every call ends.
Disk == INSTANCE SectorStore
ImplementsSectorStore == Disk!Spec

\* Driver and drive never lose step: between calls the drive is at rest, and in
\* a call it executes that call's command and holds that call's sector.
AtRest == call = Idle /\ drive \in {"ready", "error"}

Reading ==
  /\ call \in Calls /\ call.op = "read"
  /\ \/ at = "poll" /\ drive = "busy" /\ dcmd = [kind |-> "read", lba |-> call.lba]
     \/ at = "poll" /\ drive = "error"
     \/ at \in {"poll", "transfer"} /\ drive = "in" /\ dbuf = disk[call.lba]

Writing ==
  /\ call \in Calls /\ call.op = "write"
  /\ \/ at = "poll" /\ drive = "busy" /\ dcmd = [kind |-> "write", lba |-> call.lba]
     \/ at = "poll" /\ drive = "error"
     \/ at \in {"poll", "transfer"} /\ drive = "out" /\ dcmd.lba = call.lba

Storing ==
  /\ call \in Calls /\ call.op = "write" /\ at \in {"flush", "flushing"}
  /\ \/ drive \in {"ready", "error"}
     \/ drive = "busy" /\ dcmd.kind = "flush"
     \/ drive = "busy" /\ dcmd = [kind |-> "store", lba |-> call.lba] /\ dbuf = call.data

InStep == IF at = "idle" THEN AtRest ELSE Reading \/ Writing \/ Storing

\* "Returns 0 on success" (ata.h:5), of a read: 0 only with the sector.
ReadOkMeansSector ==
  at = "idle" /\ answer # Idle /\ answer.call.op = "read" /\ answer.ok
    => answer.data = disk[answer.call.lba]

\* "Returns 0 on success, non-zero on error" (ata.h:5), of a write.
WriteOkMeansStored ==
  at = "idle" /\ answer # Idle /\ answer.call.op = "write" /\ answer.ok
    => disk[answer.call.lba] = answer.call.data
=============================================================================
