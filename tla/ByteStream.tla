------------------------------- MODULE ByteStream -------------------------------
(***************************************************************************)
(* What the keyboard half of the kernel promises, with no interrupt, mask  *)
(* or command in sight: bytes arrive, and each is taken, once, in order    *)
(* and eventually.  Machine implements it.                                 *)
(***************************************************************************)
EXTENDS Naturals, Sequences

CONSTANT Byte

VARIABLES
  pending,   \* bytes that arrived and were not taken, oldest first
  taken      \* how many were taken

stream == <<pending, taken>>

Init == pending = <<>> /\ taken = 0

Arrive == \E b \in Byte : pending' = Append(pending, b) /\ UNCHANGED taken

Take == pending # <<>> /\ pending' = Tail(pending) /\ taken' = taken + 1

Next == Arrive \/ Take

Spec == Init /\ [][Next]_stream /\ WF_stream(Take)
=============================================================================
