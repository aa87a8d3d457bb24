------------------------------- MODULE SectorStore -------------------------------
(***************************************************************************)
(* What a caller of ata.c relies on: one call at a time on an array of     *)
(* sectors.  A call ends; a read that succeeds returns its sector; only a  *)
(* write changes a sector, its own, before it returns.  Ata implements it  *)
(* as long as the drive answers in time.                                   *)
(***************************************************************************)
CONSTANTS Lba, Data

VARIABLES
  disk,     \* [Lba -> Data]
  call,     \* the call in progress, or Idle
  answer    \* what the last call returned

store == <<disk, call, answer>>

Idle == [op |-> "none"]
Calls == [op : {"read"}, lba : Lba] \cup [op : {"write"}, lba : Lba, data : Data]

Init == disk \in [Lba -> Data] /\ call = Idle /\ answer = Idle

Begin == call = Idle /\ call' \in Calls /\ UNCHANGED <<disk, answer>>

Store ==
  /\ call.op = "write"
  /\ disk' = [disk EXCEPT ![call.lba] = call.data]
  /\ UNCHANGED <<call, answer>>

Answer ==
  /\ call # Idle
  /\ \/ answer' = [call |-> call, ok |-> FALSE]
     \/ call.op = "write" /\ answer' = [call |-> call, ok |-> TRUE]
     \/ call.op = "read" /\ answer' = [call |-> call, ok |-> TRUE, data |-> disk[call.lba]]
  /\ call' = Idle
  /\ UNCHANGED disk

Next == Begin \/ Store \/ Answer

Spec == Init /\ [][Next]_store /\ WF_store(Answer)
=============================================================================
