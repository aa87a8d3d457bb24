-------------------------------- MODULE Pic --------------------------------
(***************************************************************************)
(* The pair of 8259 interrupt controllers as kernel/pic.c programs them.   *)
(* A register is the set of request lines whose bit is set in it:          *)
(*   irr  a request was latched (a rising edge of the line was seen),      *)
(*   imr  the line is masked,                                              *)
(*   isr  the CPU acknowledged the request and no EOI has ended it.        *)
(* The chip itself is external to the repository; what the kernel relies   *)
(* on is edge triggering, latching while masked and fixed priorities.      *)
(***************************************************************************)
EXTENDS Integers

CONSTANT Lines   \* the request lines, 0..15 on a PC: 1 the keyboard, 2 the cascade

ASSUME LinesAssumption == Lines \subseteq 0..15 /\ {1, 2} \subseteq Lines

VARIABLES irr, imr, isr

picVars == <<irr, imr, isr>>

KeyboardLine == 1
CascadeLine  == 2

\* Whatever the firmware left: requests latched, any mask, nothing in service.
PicInit ==
  /\ irr \in {{}, {KeyboardLine}}
  /\ imr \in SUBSET Lines
  /\ isr = {}

PicTypeOK ==
  /\ irr \subseteq Lines
  /\ imr \subseteq Lines
  /\ isr \subseteq Lines

\* The lines of the second controller share the priority of the cascade.
Rank(l) == IF l >= 8 THEN CascadeLine ELSE l

\* A request reaches the CPU when its line, and the cascade it may hang off,
\* is unmasked and nothing of the same or a higher priority is in service.
Deliverable(l) ==
  /\ l \in irr \ imr
  /\ l >= 8 => CascadeLine \notin imr
  /\ \A j \in isr : Rank(l) < Rank(j)

Acknowledge(l) ==
  /\ irr' = irr \ {l}
  /\ isr' = isr \cup {l}
  /\ UNCHANGED imr

----------------------------------------------------------------------------
(* pic.c *)

\* ICW1 resets the edge detectors, so a request latched before is forgotten;
\* the two masks are saved first and written back last.
pic_remap ==
  /\ irr' = {}
  /\ isr' = {}
  /\ UNCHANGED imr

pic_set_mask(l)   == imr' = imr \cup {l}

\* Mutant: the bit is set again instead of cleared.
pic_clear_mask_sets(l) == imr' = imr \cup {l}

pic_clear_mask(l) == imr' = imr \ {l}

\* Mutant: the EOI is never written.
pic_send_eoi_missing(l) == isr' = isr

\* Non-specific EOI: it ends the highest-priority service of the controllers
\* it is sent to, the second one only for the lines it carries.
pic_send_eoi(l) ==
  LET ended == {j \in isr : l >= 8 \/ j < 8}
  IN  isr' = isr \ {j \in ended : \A k \in ended : Rank(j) <= Rank(k)}
=============================================================================
