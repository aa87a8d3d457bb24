-------------------------------- MODULE MCFs --------------------------------
(* Sectors of two bytes, as large as TYPE's buffer, and ROMs of two sectors. *)
EXTENDS Fs

MCByte  == 0..2
MCName  == {"BASIC.ROM", "KERNAL.ROM", "Notes", "hello", "notes"}
MCLower == [n \in MCName |-> IF n = "Notes" THEN "notes" ELSE n]

F(n, d) == [name |-> n, data |-> d]
Basic  == F("BASIC.ROM", <<1, 2, 2, 1>>)
Kernal == F("KERNAL.ROM", <<2, 1, 1, 0>>)

\* Full disks, a missing or short ROM, empty and odd-sized files, a NUL in a
\* file, names that differ in case only, and no file at all.
MCSources == {
  <<Basic, Kernal, F("Notes", <<1>>), F("hello", <<2, 1, 2>>)>>,
  <<Basic, F("KERNAL.ROM", <<2, 1, 1>>), F("hello", <<>>), F("notes", <<2, 0, 1>>)>>,
  <<Kernal, F("Notes", <<1, 2>>), F("hello", <<0, 1>>), F("notes", <<2>>)>>,
  <<F("BASIC.ROM", <<>>), Kernal, F("hello", <<1, 2, 1, 2, 1>>)>>,
  <<>> }
=============================================================================
