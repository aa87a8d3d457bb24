---------------------------------- MODULE Fs ----------------------------------
(***************************************************************************)
(* The disk image of tools/build_disk.py, kernel/fs.c and the commands     *)
(* that use it: DIR, TYPE, DISKTEST and the ROM loading of C64BOOT.        *)
(*                                                                         *)
(* Sectors are read and written as SectorStore promises: a read may fail,  *)
(* a write may fail or be lost.  Commands run one at a time, but the       *)
(* machine may be switched off between any two sectors, and then only the  *)
(* disk is left.                                                           *)
(***************************************************************************)
EXTENDS Integers, Sequences, FiniteSetsExt

CONSTANTS
  Byte,          \* what a file is made of; 0 is NUL
  Name, Lower,   \* file names, and what string.c compares of each
  KernalRom, BasicRom,
  SectorSize,    \* 512
  TypeMax,       \* the buffer of cmd_type, 512
  RomSize,       \* 8192
  Sources        \* the diskfiles/ directories the disk may be built from

File == [name : Name, data : Seq(Byte)]

\* build_disk.py sorts the directory, whose names differ.  "KERNAL.ROM" and
\* "BASIC.ROM" differ in more than case.
ASSUME FsAssumption ==
  /\ 0 \in Byte /\ {KernalRom, BasicRom} \subseteq Name /\ DOMAIN Lower = Name
  /\ Lower[KernalRom] # Lower[BasicRom]
  /\ SectorSize \in Nat \ {0} /\ TypeMax \in Nat \ {0} /\ RomSize \in Nat
  /\ \A src \in Sources : /\ src \in Seq(File)
                          /\ \A j, k \in DOMAIN src : j # k => src[j].name # src[k].name

VARIABLES
  files,            \* what the disk was built from
  disk,             \* sectors, from sector 0
  header, mounted,  \* fs.c's copy of the directory
  cmd, step,        \* the command being executed and the place in it
  entry, buffer,    \* the file being read, and what was read of it
  max_len,          \* fs_read_file's limit
  c64_ram,          \* what the guest's memory holds at each ROM's address
  booted,           \* the ROMs in memory when the last session started
  shown             \* what the last command printed

diskVars == <<files, disk>>
fsVars   == <<header, mounted>>
callVars == <<cmd, step, entry, buffer, max_len>>
vars == <<diskVars, fsVars, callVars, c64_ram, booted, shown>>

----------------------------------------------------------------------------
(* tools/build_disk.py *)

\* Mutant: a file's last, partial sector is not counted.
SectorsNeeded_floor(length) == length \div SectorSize

SectorsNeeded(length) == (length + SectorSize - 1) \div SectorSize

\* current_lba when the k-th file is placed.
StartLba(src, k) ==
  LET current_lba[j \in 1..(Len(src) + 1)] ==
        IF j = 1 THEN 1 ELSE current_lba[j - 1] + SectorsNeeded(Len(src[j - 1].data))
  IN  current_lba[k]

Entries(src) == [k \in DOMAIN src |-> [name      |-> src[k].name,
                                       start_lba |-> StartLba(src, k),
                                       length    |-> Len(src[k].data)]]

\* Each file in turn, padded to whole sectors with zeros.
DataSector(src, lba) ==
  LET k == CHOOSE k \in DOMAIN src :
             lba \in StartLba(src, k)..(StartLba(src, k + 1) - 1)
      at(i) == (lba - StartLba(src, k)) * SectorSize + i
  IN  [i \in 1..SectorSize |-> IF at(i) <= Len(src[k].data) THEN src[k].data[at(i)] ELSE 0]

build_disk(src) ==
  [lba \in 0..(StartLba(src, Len(src) + 1) - 1) |->
     IF lba = 0 THEN [magic |-> TRUE, entries |-> Entries(src)] ELSE DataSector(src, lba)]

----------------------------------------------------------------------------

Nothing   == [said |-> "nothing"]
NoEntry   == [name |-> KernalRom, start_lba |-> 0, length |-> 0]
Roms      == {KernalRom, BasicRom}
Pattern   == [magic |-> FALSE, entries |-> <<>>]   \* DISKTEST's 0, 1, 2, ...
DiskCmds  == {"DIR", "TYPE", "DISKTEST", "C64BOOT"}

Init ==
  /\ files \in Sources /\ disk = build_disk(files)
  /\ header = <<>> /\ mounted = FALSE
  /\ cmd = "none" /\ step = "none" /\ entry = NoEntry /\ buffer = <<>> /\ max_len = 0
  /\ c64_ram = [r \in Roms |-> <<>>] /\ booted = <<>>
  /\ shown = Nothing

TypeOK ==
  /\ files \in Sources /\ DOMAIN disk = 0..(StartLba(files, Len(files) + 1) - 1)
  /\ mounted \in BOOLEAN /\ header \in {<<>>, Entries(files)}
  /\ cmd \in DiskCmds \cup {"none"}
  /\ step \in {"none", "mount", "list", "find", "read", "done", "write", "verify"}
  /\ entry.name \in Name /\ entry.start_lba \in Nat /\ entry.length \in Nat
  /\ buffer \in Seq(Byte) /\ Len(buffer) <= max_len
  /\ max_len \in {0, TypeMax, RomSize}
  /\ DOMAIN c64_ram = Roms /\ \A r \in Roms : c64_ram[r] \in Seq(Byte)

Goto(s) == step' = s /\ UNCHANGED <<cmd, entry, buffer, max_len>>

\* The command prints x and returns.
End(x) ==
  /\ cmd' = "none" /\ step' = "none" /\ shown' = x
  /\ entry' = NoEntry /\ buffer' = <<>> /\ max_len' = 0

Failed == End([said |-> "failed"])

\* The command asks for a file: fs_find comes next.  entry.name is the argument.
Ask(c, name, max) ==
  /\ cmd' = c /\ entry' = [NoEntry EXCEPT !.name = name]
  /\ buffer' = <<>> /\ max_len' = max

Begin ==
  /\ cmd = "none"
  /\ \/ Ask("DIR", KernalRom, 0) /\ step' = "mount"
     \/ (\E name \in Name : Ask("TYPE", name, TypeMax)) /\ step' = "mount"
     \/ Ask("C64BOOT", KernalRom, RomSize) /\ step' = "mount"
     \/ Ask("DISKTEST", KernalRom, 0) /\ step' = "write"
  /\ shown' = Nothing
  /\ UNCHANGED <<diskVars, fsVars, c64_ram, booted>>

\* Mutant: the directory is read only when none is mounted.
fs_mount_once ==
  /\ step = "mount"
  /\ IF mounted \/ disk[0].magic
     THEN /\ header' = (IF mounted THEN header ELSE disk[0].entries) /\ mounted' = TRUE
          /\ Goto(IF cmd = "DIR" THEN "list" ELSE "find") /\ UNCHANGED shown
     ELSE mounted' = FALSE /\ Failed /\ UNCHANGED header
  /\ UNCHANGED <<diskVars, c64_ram, booted>>

\* fs_mount, and the caller's message when it fails.
fs_mount ==
  /\ step = "mount"
  /\ \/ mounted' = FALSE /\ Failed /\ UNCHANGED header      \* the read fails, or no magic
     \/ /\ disk[0].magic
        /\ header' = disk[0].entries /\ mounted' = TRUE
        /\ Goto(IF cmd = "DIR" THEN "list" ELSE "find") /\ UNCHANGED shown
  /\ UNCHANGED <<diskVars, c64_ram, booted>>

\* fs_list
fs_list ==
  /\ step = "list"
  /\ End([said |-> "list",
          list |-> [k \in {j \in DOMAIN header : mounted} |->
                      <<header[k].name, header[k].length>>]])
  /\ UNCHANGED <<diskVars, fsVars, c64_ram, booted>>

Matches(name) == {k \in DOMAIN header : mounted /\ Lower[header[k].name] = Lower[name]}

\* fs_find, and load_rom's check of the size.
fs_find ==
  /\ step = "find"
  /\ IF /\ Matches(entry.name) # {}
        /\ cmd = "C64BOOT" => header[Min(Matches(entry.name))].length = RomSize
     THEN /\ entry' = header[Min(Matches(entry.name))]
          /\ step' = (IF entry'.length = 0 THEN "done" ELSE "read")
          /\ UNCHANGED <<cmd, buffer, max_len, shown>>
     ELSE Failed
  /\ UNCHANGED <<diskVars, fsVars, c64_ram, booted>>

\* The i of fs_read_file's loop.
SectorsRead == Len(buffer) \div SectorSize

Least(a, b) == IF a < b THEN a ELSE b

\* What one sector adds to the buffer.
Chunk(lba) ==
  SubSeq(disk[lba], 1, Least(Least(entry.length - Len(buffer), SectorSize),
                             max_len - Len(buffer)))

\* Mutant: every sector is read from the file's first one.
fs_read_file_same_sector ==
  /\ step = "read"
  /\ buffer' = buffer \o Chunk(entry.start_lba)
  /\ step' = (IF Len(buffer') >= Least(entry.length, max_len) THEN "done" ELSE "read")
  /\ UNCHANGED <<cmd, entry, max_len, shown>>
  /\ UNCHANGED <<diskVars, fsVars, c64_ram, booted>>

\* Mutant: the buffer's size is not looked at.
fs_read_file_unbounded ==
  /\ step = "read"
  /\ buffer' = buffer \o SubSeq(disk[entry.start_lba + SectorsRead], 1,
                                Least(entry.length - Len(buffer), SectorSize))
  /\ step' = (IF Len(buffer') >= entry.length THEN "done" ELSE "read")
  /\ UNCHANGED <<cmd, entry, max_len, shown>>
  /\ UNCHANGED <<diskVars, fsVars, c64_ram, booted>>

\* One iteration of fs_read_file.
fs_read_file ==
  /\ step = "read"
  /\ \/ Failed
     \/ /\ buffer' = buffer \o Chunk(entry.start_lba + SectorsRead)
        /\ step' = (IF Len(buffer') >= Least(entry.length, max_len) THEN "done" ELSE "read")
        /\ UNCHANGED <<cmd, entry, max_len, shown>>
  /\ UNCHANGED <<diskVars, fsVars, c64_ram, booted>>

\* console_print stops at the first NUL.
Printed(s) ==
  SubSeq(s, 1, IF \E i \in DOMAIN s : s[i] = 0
               THEN Min({i \in DOMAIN s : s[i] = 0}) - 1 ELSE Len(s))

TypeDone ==
  /\ step = "done" /\ cmd = "TYPE"
  /\ End([said |-> "file", name |-> entry.name, text |-> Printed(buffer)])
  /\ UNCHANGED <<diskVars, fsVars, c64_ram, booted>>

\* load_rom writes the guest's memory; after the second ROM c64_init resets the
\* processor and the session starts.
RomDone ==
  /\ step = "done" /\ cmd = "C64BOOT"
  /\ \E r \in Roms :
       /\ Lower[r] = Lower[entry.name]
       /\ c64_ram' = [c64_ram EXCEPT ![r] = buffer]
       /\ IF r = KernalRom
          THEN /\ Ask("C64BOOT", BasicRom, RomSize) /\ step' = "find"
               /\ UNCHANGED <<booted, shown>>
          ELSE End([said |-> "session"]) /\ booted' = <<c64_ram'[KernalRom], c64_ram'[BasicRom]>>
  /\ UNCHANGED <<diskVars, fsVars>>

\* cmd_disktest: the write to LBA 0, which may be lost unnoticed ...
TestWrite ==
  /\ step = "write"
  /\ \/ Failed /\ UNCHANGED disk
     \/ disk' \in {disk, [disk EXCEPT ![0] = Pattern]} /\ Goto("verify") /\ UNCHANGED shown
  /\ UNCHANGED <<files, fsVars, c64_ram, booted>>

\* ... and the comparison.
TestVerify ==
  /\ step = "verify"
  /\ \/ Failed
     \/ End([said |-> IF disk[0] = Pattern THEN "pass" ELSE "mismatch"])
  /\ UNCHANGED <<diskVars, fsVars, c64_ram, booted>>

\* Power off and on.
Reboot ==
  /\ header' = <<>> /\ mounted' = FALSE /\ End(Nothing)
  /\ c64_ram' = [r \in Roms |-> <<>>] /\ booted' = <<>>
  /\ UNCHANGED diskVars

Next == \/ Begin \/ fs_mount \/ fs_list \/ fs_find \/ fs_read_file
        \/ TypeDone \/ RomDone \/ TestWrite \/ TestVerify \/ Reboot

Spec == Init /\ [][Next]_vars

----------------------------------------------------------------------------
(* Properties *)

\* The file of diskfiles/ that a name stands for.
FileOf(name) ==
  files[Min({k \in DOMAIN files : Lower[files[k].name] = Lower[name]})].data

\* The text of the file that a name stands for.
TextOf(name) == Printed(FileOf(name))

\* build_disk.py, fs_mount, fs_find and fs_read_file agree on the layout: DIR
\* lists the files the disk was built from, and what TYPE prints comes from the
\* file of that name, from its beginning on, and is all of its text if that fits
\* cmd_type's buffer.
FilesReadBack ==
  /\ shown.said = "list" =>
       shown.list = [k \in DOMAIN files |-> <<files[k].name, Len(files[k].data)>>]
  /\ shown.said = "file" =>
       LET text == TextOf(shown.name)
       IN  /\ shown.text = SubSeq(text, 1, Len(shown.text))
           /\ Len(text) <= TypeMax => shown.text = text

\* "Print a file's contents" (README.md:91), "print a text file" (shell.c:102):
\* all of the text, however long it is.
TypePrintsContents == shown.said = "file" => shown.text = TextOf(shown.name)

\* A session only starts with both ROM images complete in the guest's memory,
\* whatever reads failed in this or an earlier C64BOOT.
NeverBootsHalfLoaded == booted # <<>> => booted = <<FileOf(KernalRom), FileOf(BasicRom)>>

\* fs.c keeps a copy of the directory between commands, which DISKTEST makes
\* stale: it is never what a name is looked up in or what is listed.
LookupIsCurrent ==
  step \in {"find", "list"} => mounted /\ disk[0].magic /\ header = disk[0].entries
=============================================================================
