------------------------------ MODULE Fs_proofs ------------------------------
(***************************************************************************)
(* Theorems about Fs, for every directory, sector size, buffer and         *)
(* failure.                                                                *)
(***************************************************************************)
EXTENDS Fs, NatLemmas

\* The limit each command gives fs_read_file.
LimitOf(c) == CASE c = "TYPE" -> TypeMax [] c = "C64BOOT" -> RomSize [] OTHER -> 0

\* Types, and the places each command passes through.
Typed ==
  /\ mounted \in BOOLEAN /\ header \in {<<>>, Entries(files)}
  /\ cmd \in DiskCmds \cup {"none"}
  /\ step \in {"none", "mount", "list", "find", "read", "done", "write", "verify"}
  /\ step = "mount" => cmd \in {"DIR", "TYPE", "C64BOOT"}
  /\ step \in {"find", "read", "done"} => cmd \in {"TYPE", "C64BOOT"}
  /\ entry.name \in Name /\ entry.start_lba \in Nat /\ entry.length \in Nat
  /\ max_len = LimitOf(cmd)
  /\ buffer \in Seq(Byte) /\ (step \notin {"read", "done"} => buffer = <<>>)
  /\ DOMAIN c64_ram = Roms /\ \A r \in Roms : c64_ram[r] \in Seq(Byte)

\* Sector 0 is the directory or DISKTEST's pattern; no command writes another.
DiskKept ==
  /\ files \in Sources
  /\ DOMAIN disk = DOMAIN build_disk(files)
  /\ disk[0] \in {build_disk(files)[0], Pattern}
  /\ \A lba \in DOMAIN disk \ {0} : disk[lba] = build_disk(files)[lba]

\* LookupIsCurrent is not inductive: C64BOOT looks up its second ROM when the
\* first has been read, so the copy must be current all the way from fs_mount.
Current == step \in {"find", "list", "read", "done"} =>
             mounted /\ disk[0].magic /\ header = disk[0].entries

\* The first file that fs_find takes for name.
Found(name) == Min({k \in DOMAIN files : Lower[files[k].name] = Lower[name]})

\* What has been read is the beginning of the file asked for, in whole sectors
\* until the last.
Reading ==
  step \in {"read", "done"} =>
    /\ Found(entry.name) \in DOMAIN files /\ entry = Entries(files)[Found(entry.name)]
    /\ LET data  == files[Found(entry.name)].data
           total == Least(Len(data), max_len)
       IN  /\ buffer = SubSeq(data, 1, Len(buffer))
           /\ step = "done" => Len(buffer) = total
           /\ step = "read" => /\ Len(buffer) < total
                               /\ Len(buffer) = SectorSize * SectorsRead

\* C64BOOT looks for its second ROM with the first one in the guest's memory.
Booting ==
  /\ cmd = "C64BOOT" =>
       /\ Lower[entry.name] \in {Lower[KernalRom], Lower[BasicRom]}
       /\ step \in {"mount", "find", "read", "done"}
       /\ step = "mount" => Lower[entry.name] = Lower[KernalRom]
       /\ Lower[entry.name] = Lower[BasicRom] => c64_ram[KernalRom] = FileOf(KernalRom)
       /\ step \in {"read", "done"} => entry.length = RomSize
  /\ booted # <<>> => booted = <<FileOf(KernalRom), FileOf(BasicRom)>>

FsInv == Typed /\ DiskKept /\ Current /\ Reading /\ Booting /\ FilesReadBack

----------------------------------------------------------------------------
(* The layout of the disk *)

\* The least element of a set of natural numbers is in it and below the others.
LEMMA MinOfNats ==
  ASSUME NEW T, T \subseteq Nat, T # {}
  PROVE  Min(T) \in T /\ \A y \in T : Min(T) <= y
<1>1. \E x \in T : \A y \in T : x <= y
  BY NatLeast
<1> QED
  BY <1>1 DEF Min

\* A file of n bytes has as many sectors as it takes, and no more.
LEMMA SectorsSuffice ==
  ASSUME NEW n \in Nat
  PROVE  /\ SectorsNeeded(n) \in Nat
         /\ n <= SectorSize * SectorsNeeded(n)
         /\ SectorSize * SectorsNeeded(n) < n + SectorSize
<1> DEFINE m == n + SectorSize - 1
<1>1. SectorSize \in Nat \ {0} /\ m \in Nat
  BY FsAssumption
<1> HIDE DEF m
<1>2. /\ m \div SectorSize \in Nat /\ m % SectorSize \in 0..(SectorSize - 1)
      /\ m = SectorSize * (m \div SectorSize) + (m % SectorSize)
  BY <1>1, Division
<1> DEFINE p == SectorSize * (m \div SectorSize)
<1>3. p \in Nat /\ p <= m /\ m < p + SectorSize
  <2>1. p \in Nat
    BY <1>1, <1>2, DivisionOfMultiple
  <2> HIDE DEF p
  <2>2. m = p + (m % SectorSize)
    BY <1>2 DEF p
  <2> QED
    BY <1>1, <1>2, <2>1, <2>2
<1> HIDE DEF p
<1>4. n <= p /\ p < n + SectorSize
  BY <1>1, <1>3 DEF m
<1> QED
  BY <1>2, <1>4 DEF p, m, SectorsNeeded

\* g is build_disk's current_lba when the first n files are placed.
Placed(src, n, g) ==
  g = [j \in 1..(n + 1) |->
         IF j = 1 THEN 1 ELSE g[j - 1] + SectorsNeeded(Len(src[j - 1].data))]

\* The loop of build_disk places any number of files.
LEMMA PlacedExists ==
  ASSUME NEW src, NEW n \in Nat
  PROVE  \E g : Placed(src, n, g)
<1> DEFINE T == {i \in Nat : \E g : Placed(src, i, g)}
<1>1. 0 \in T
  <2>1. Placed(src, 0, [j \in 1..1 |-> 1])
    BY DEF Placed
  <2> QED
    BY <2>1
<1>2. ASSUME NEW i \in T PROVE i + 1 \in T
  <2>1. PICK g : Placed(src, i, g)
    OBVIOUS
  <2> DEFINE s(j) == SectorsNeeded(Len(src[j - 1].data))
             h == [j \in 1..((i + 1) + 1) |-> IF j = (i + 1) + 1 THEN g[i + 1] + s(j) ELSE g[j]]
  <2> HIDE DEF s
  <2>2. ASSUME NEW j \in 1..((i + 1) + 1)
        PROVE  h[j] = IF j = 1 THEN 1 ELSE h[j - 1] + s(j)
    <3>1. CASE j = (i + 1) + 1
      BY <3>1
    <3>2. CASE j # (i + 1) + 1
      <4>1. j \in 1..(i + 1)
        BY <3>2
      <4>2. g[j] = IF j = 1 THEN 1 ELSE g[j - 1] + s(j)
        BY <2>1, <4>1 DEF Placed, s
      <4>3. j = 1 \/ h[j - 1] = g[j - 1]
        BY <4>1
      <4> QED
        BY <4>1, <4>2, <4>3, <3>2
    <3> QED
      BY <3>1, <3>2
  <2>3. DOMAIN h = 1..((i + 1) + 1)
    OBVIOUS
  <2>4. h = [j \in 1..((i + 1) + 1) |-> h[j]]
    OBVIOUS
  <2> HIDE DEF h
  <2>5. Placed(src, i + 1, h)
    BY <2>2, <2>4 DEF Placed, s
  <2> QED
    BY <2>5
<1> HIDE DEF T
<1>3. T \subseteq Nat
  BY DEF T
<1>4. T = Nat
  BY <1>1, <1>2, <1>3, NatSetInduction
<1> QED
  BY <1>4 DEF T

\* The first file follows the directory, and each other file the one before it.
LEMMA StartLbaStep ==
  ASSUME NEW src \in Seq(File)
  PROVE  /\ StartLba(src, 1) = 1
         /\ \A k \in DOMAIN src :
              StartLba(src, k + 1) = StartLba(src, k) + SectorsNeeded(Len(src[k].data))
<1> DEFINE g == CHOOSE g : Placed(src, Len(src), g)
<1>1. Len(src) \in Nat /\ DOMAIN src = 1..Len(src)
  OBVIOUS
<1>2. Placed(src, Len(src), g)
  BY <1>1, PlacedExists
<1>3. \A k : StartLba(src, k) = g[k]
  BY DEF StartLba, Placed
<1> HIDE DEF g
<1>4. g[1] = 1
  BY <1>1, <1>2 DEF Placed
<1>5. ASSUME NEW k \in 1..Len(src)
      PROVE  g[k + 1] = g[k] + SectorsNeeded(Len(src[k].data))
  <2>1. k + 1 \in 1..(Len(src) + 1) /\ k + 1 # 1 /\ (k + 1) - 1 = k
    BY <1>1
  <2> QED
    BY <1>2, <2>1 DEF Placed
<1> QED
  BY <1>1, <1>3, <1>4, <1>5

\* Every file has a sector to start at, and none starts before the files that
\* come earlier.
LEMMA StartLbaOrdered ==
  ASSUME NEW src \in Seq(File)
  PROVE  /\ \A k \in 1..(Len(src) + 1) : StartLba(src, k) \in Nat \ {0}
         /\ \A j, k \in 1..(Len(src) + 1) : j <= k => StartLba(src, j) <= StartLba(src, k)
<1> DEFINE n == Len(src)
           at(k) == StartLba(src, k)
<1>1. n \in Nat /\ DOMAIN src = 1..n
  OBVIOUS
<1>2. \A k \in 1..n : SectorsNeeded(Len(src[k].data)) \in Nat
  <2> SUFFICES ASSUME NEW k \in 1..n PROVE SectorsNeeded(Len(src[k].data)) \in Nat
    OBVIOUS
  <2>1. Len(src[k].data) \in Nat
    BY <1>1 DEF File
  <2> QED
    BY <2>1, SectorsSuffice
<1>3. at(1) = 1
  BY StartLbaStep
<1>4. \A k \in 1..n : \E d \in Nat : at(k + 1) = at(k) + d
  BY <1>1, <1>2, StartLbaStep
<1> HIDE DEF n, at
<1> DEFINE T == {i \in Nat : i + 1 \in 1..(n + 1) =>
                   \A j \in 1..(i + 1) : at(j) \in Nat \ {0} /\ at(j) <= at(i + 1)}
<1>5. 0 \in T
  BY <1>3
<1>6. ASSUME NEW i \in T PROVE i + 1 \in T
  <2> SUFFICES ASSUME (i + 1) + 1 \in 1..(n + 1)
               PROVE  \A j \in 1..((i + 1) + 1) :
                        at(j) \in Nat \ {0} /\ at(j) <= at((i + 1) + 1)
    OBVIOUS
  <2>1. i + 1 \in 1..n /\ i + 1 \in 1..(n + 1)
    BY <1>1
  <2>2. \A j \in 1..(i + 1) : at(j) \in Nat \ {0} /\ at(j) <= at(i + 1)
    BY <2>1
  <2>3. PICK d \in Nat : at((i + 1) + 1) = at(i + 1) + d
    BY <2>1, <1>4
  <2>4. at(i + 1) \in Nat \ {0}
    BY <2>2
  <2>5. at((i + 1) + 1) \in Nat \ {0} /\ at(i + 1) <= at((i + 1) + 1)
    BY <2>3, <2>4
  <2>6. ASSUME NEW j \in 1..(i + 1)
        PROVE  at(j) \in Nat \ {0} /\ at(j) <= at((i + 1) + 1)
    BY <2>2, <2>4, <2>5
  <2> QED
    BY <2>5, <2>6
<1>7. T = Nat
  <2>1. T \subseteq Nat
    OBVIOUS
  <2> HIDE DEF T
  <2> QED
    BY <1>5, <1>6, <2>1, NatSetInduction
<1>8. ASSUME NEW k \in 1..(n + 1)
      PROVE  \A j \in 1..k : at(j) \in Nat \ {0} /\ at(j) <= at(k)
  <2>1. k - 1 \in Nat /\ (k - 1) + 1 = k
    BY <1>1
  <2>2. k - 1 \in T
    BY <1>7, <2>1
  <2> QED
    BY <2>1, <2>2
<1> QED
  BY <1>8, <1>1 DEF at, n

\* The sectors of the k-th file, and only they, are filled from it.
LEMMA SectorOfFile ==
  ASSUME NEW src \in Seq(File), NEW k \in DOMAIN src, NEW i \in Nat,
         i < SectorsNeeded(Len(src[k].data))
  PROVE  LET lba == StartLba(src, k) + i
         IN  /\ lba \in DOMAIN build_disk(src) \ {0}
             /\ build_disk(src)[lba] =
                  [x \in 1..SectorSize |->
                     IF i * SectorSize + x <= Len(src[k].data)
                     THEN src[k].data[i * SectorSize + x] ELSE 0]
<1> DEFINE n == Len(src)
           at(j) == StartLba(src, j)
           lba == at(k) + i
<1>1. n \in Nat /\ DOMAIN src = 1..n
  OBVIOUS
<1>2. SectorsNeeded(Len(src[k].data)) \in Nat
  <2>1. Len(src[k].data) \in Nat
    BY <1>1 DEF File
  <2> QED
    BY <2>1, SectorsSuffice
<1>3. at(k + 1) = at(k) + SectorsNeeded(Len(src[k].data))
  BY StartLbaStep
<1>4. /\ \A j \in 1..(n + 1) : at(j) \in Nat \ {0}
      /\ \A j, m \in 1..(n + 1) : j <= m => at(j) <= at(m)
  BY StartLbaOrdered
<1> DEFINE P(j) == lba \in at(j)..(at(j + 1) - 1)
           c == CHOOSE j \in DOMAIN src : P(j)
           r == [x \in 1..SectorSize |->
                   IF i * SectorSize + x <= Len(src[k].data)
                   THEN src[k].data[i * SectorSize + x] ELSE 0]
<1> HIDE DEF n, at
<1>5. lba \in Nat \ {0} /\ P(k)
  <2>1. at(k) \in Nat \ {0} /\ k \in 1..n /\ k + 1 \in 1..(n + 1)
    BY <1>1, <1>4
  <2> QED
    BY <1>2, <1>3, <2>1
<1>6. ASSUME NEW j \in DOMAIN src, P(j) PROVE j = k
  <2>1. j \in 1..n /\ k \in 1..n
    BY <1>1
  <2>2. /\ at(j) \in Nat /\ at(j + 1) \in Nat
        /\ at(k) \in Nat /\ at(k + 1) \in Nat
    BY <1>1, <1>4, <2>1
  <2>3. j + 1 <= k => at(j + 1) <= at(k)
    BY <1>1, <1>4, <2>1
  <2>4. k + 1 <= j => at(k + 1) <= at(j)
    BY <1>1, <1>4, <2>1
  <2>5. at(j) <= lba /\ lba <= at(j + 1) - 1 /\ at(k) <= lba /\ lba <= at(k + 1) - 1
    BY <1>5, <1>6
  <2>6. ~(j + 1 <= k) /\ ~(k + 1 <= j)
    BY <2>2, <2>3, <2>4, <2>5, <1>5
  <2> QED
    BY <2>1, <2>6
<1>7. c = k
  BY <1>5, <1>6
<1>8. lba <= at(n + 1) - 1
  <2>1. k \in 1..n /\ k + 1 <= n + 1
    BY <1>1
  <2>2. at(k + 1) <= at(n + 1)
    BY <1>1, <1>4, <2>1
  <2>3. at(k + 1) \in Nat /\ at(n + 1) \in Nat
    BY <1>1, <1>4, <2>1
  <2> QED
    BY <1>5, <2>2, <2>3
<1>9. lba \in 0..(at(n + 1) - 1) /\ lba # 0
  BY <1>5, <1>8, <1>1, <1>4
<1>10. DataSector(src, lba) = r
  <2>1. lba - at(k) = i
    BY <1>1, <1>4
  <2>2. DataSector(src, lba) =
          [x \in 1..SectorSize |->
             IF (lba - at(c)) * SectorSize + x <= Len(src[c].data)
             THEN src[c].data[(lba - at(c)) * SectorSize + x] ELSE 0]
    BY DEF DataSector, at
  <2> HIDE DEF lba, c
  <2> QED
    BY <2>1, <2>2, <1>7
<1>11. /\ DOMAIN build_disk(src) = 0..(at(n + 1) - 1)
       /\ \A b \in 1..(at(n + 1) - 1) : build_disk(src)[b] = DataSector(src, b)
  BY DEF build_disk, at, n
<1> HIDE DEF r, lba
<1>12. lba \in 1..(at(n + 1) - 1)
  BY <1>9
<1>13. build_disk(src)[lba] = r
  BY <1>10, <1>11, <1>12
<1> QED
  BY <1>9, <1>11, <1>13 DEF r, lba, at

\* A prefix of a sequence, element by element.
LEMMA PrefixElements ==
  ASSUME NEW S, NEW s \in Seq(S), NEW n \in 0..Len(s)
  PROVE  /\ SubSeq(s, 1, n) \in Seq(S) /\ Len(SubSeq(s, 1, n)) = n
         /\ \A x \in 1..n : SubSeq(s, 1, n)[x] = s[x]
OBVIOUS

\* The prefix of length 0 is empty, the one of full length is the sequence.
LEMMA PrefixEnds ==
  ASSUME NEW S, NEW s \in Seq(S)
  PROVE  SubSeq(s, 1, 0) = <<>> /\ SubSeq(s, 1, Len(s)) = s
OBVIOUS

\* Sequences of one length and the same elements are equal.
LEMMA SequencesEqual ==
  ASSUME NEW S, NEW s \in Seq(S), NEW t \in Seq(S), Len(s) = Len(t),
         \A x \in 1..Len(s) : s[x] = t[x]
  PROVE  s = t
OBVIOUS

\* What is left of a file of n bytes and of a buffer of max bytes bounds the
\* part of a sector that is taken.
LEMMA ChunkLength ==
  ASSUME NEW n \in Nat, NEW max \in Nat, NEW start \in Nat, start < n, start < max
  PROVE  LET c == Least(Least(n - start, SectorSize), max - start)
         IN  /\ c \in 1..SectorSize /\ start + c <= n
             /\ start + c = Least(start + SectorSize, Least(n, max))
BY FsAssumption DEF Least

\* One sector lengthens the prefix of the file that has been read by a whole
\* sector, or to the end of the file or of the buffer.
LEMMA ChunkExtends ==
  ASSUME DiskKept, max_len \in Nat, NEW k \in DOMAIN files,
         entry = Entries(files)[k],
         buffer \in Seq(Byte), buffer = SubSeq(files[k].data, 1, Len(buffer)),
         Len(buffer) < Least(Len(files[k].data), max_len),
         Len(buffer) = SectorSize * SectorsRead
  PROVE  LET next == Least(Len(buffer) + SectorSize, Least(Len(files[k].data), max_len))
             read == buffer \o Chunk(entry.start_lba + SectorsRead)
         IN  /\ entry.start_lba + SectorsRead \in DOMAIN disk \ {0}
             /\ next \in 1..Len(files[k].data)
             /\ read = SubSeq(files[k].data, 1, next) /\ Len(read) = next
<1> DEFINE data == files[k].data
           i == SectorsRead
           lba == StartLba(files, k) + i
           start == SectorSize * i
           c == Least(Least(Len(data) - start, SectorSize), max_len - start)
           r == [x \in 1..SectorSize |->
                   IF i * SectorSize + x <= Len(data) THEN data[i * SectorSize + x] ELSE 0]
<1>1. files \in Seq(File) /\ data \in Seq(Byte) /\ Len(data) \in Nat
  <2>1. files \in Seq(File)
    BY FsAssumption DEF DiskKept
  <2>2. files[k] \in File
    BY <2>1
  <2> QED
    BY <2>1, <2>2 DEF File
<1>2. SectorSize \in Nat \ {0}
  BY FsAssumption
<1>3. Len(buffer) = start
  OBVIOUS
<1>4. start < Len(data) /\ start < max_len
  BY <1>1 DEF Least
<1>5. i \in Nat /\ start \in Nat
  <2>1. Len(buffer) \in Nat
    OBVIOUS
  <2> QED
    BY <2>1, <1>2, <1>3, Division DEF SectorsRead
<1> HIDE DEF start, data
<1>6. c \in 1..SectorSize /\ start + c <= Len(data)
      /\ start + c = Least(start + SectorSize, Least(Len(data), max_len))
  BY <1>1, <1>4, <1>5, ChunkLength
<1>7. i < SectorsNeeded(Len(data))
  <2> SUFFICES ASSUME SectorsNeeded(Len(data)) <= i PROVE FALSE
    BY <1>1, <1>5, SectorsSuffice
  <2>1. /\ SectorsNeeded(Len(data)) \in Nat
        /\ Len(data) <= SectorSize * SectorsNeeded(Len(data))
    BY <1>1, SectorsSuffice
  <2>2. SectorSize * SectorsNeeded(Len(data)) <= start
    BY <1>2, <1>5, <2>1 DEF start
  <2>3. SectorSize * SectorsNeeded(Len(data)) \in Nat
    BY <1>2, <2>1, DivisionOfMultiple
  <2> QED
    BY <1>1, <1>4, <1>5, <2>1, <2>2, <2>3
<1>8. lba \in DOMAIN build_disk(files) \ {0} /\ build_disk(files)[lba] = r
  BY <1>1, <1>5, <1>7, SectorOfFile DEF data
<1>9. lba \in DOMAIN disk \ {0} /\ disk[lba] = r
  BY <1>8 DEF DiskKept
<1>10. entry.start_lba + SectorsRead = lba /\ entry.length = Len(data)
  <2>1. /\ Entries(files)[k].start_lba = StartLba(files, k)
        /\ Entries(files)[k].length = Len(data)
    BY DEF Entries, data
  <2> QED
    BY <2>1
<1>11. \A x \in 1..c : r[x] = data[start + x]
  <2> SUFFICES ASSUME NEW x \in 1..c PROVE r[x] = data[start + x]
    OBVIOUS
  <2>1. x \in 1..SectorSize /\ i * SectorSize = start
    BY <1>2, <1>5, <1>6 DEF start
  <2>2. start + x <= Len(data)
    BY <1>1, <1>5, <1>6
  <2> QED
    BY <2>1, <2>2
<1>12. r \in Seq(Byte) /\ Len(r) = SectorSize
  <2>1. ASSUME NEW x \in 1..SectorSize PROVE r[x] \in Byte
    <3>1. i * SectorSize = start
      BY <1>2, <1>5 DEF start
    <3>2. start + x <= Len(data) => start + x \in 1..Len(data)
      BY <1>1, <1>5
    <3> QED
      BY <1>1, <3>1, <3>2, FsAssumption
  <2> HIDE DEF c
  <2>2. r \in [1..SectorSize -> Byte]
    BY <2>1
  <2> QED
    BY <1>2, <2>2
<1> HIDE DEF r, c, lba
<1>13. /\ SubSeq(r, 1, c) \in Seq(Byte) /\ Len(SubSeq(r, 1, c)) = c
       /\ \A x \in 1..c : SubSeq(r, 1, c)[x] = data[start + x]
  BY <1>2, <1>6, <1>11, <1>12, PrefixElements
<1>14. Chunk(entry.start_lba + SectorsRead) = SubSeq(r, 1, c)
  BY <1>3, <1>9, <1>10 DEF Chunk, c
<1>15. buffer = SubSeq(data, 1, start) /\ Len(buffer) = start
  BY <1>3 DEF data
<1> DEFINE q == SubSeq(r, 1, c)
           b == buffer \o q
<1>16. \A x \in 1..start : buffer[x] = data[x]
  BY <1>1, <1>4, <1>5, <1>15, PrefixElements
<1> HIDE DEF q
<1>17. b \in Seq(Byte) /\ Len(b) = start + c
  BY <1>5, <1>6, <1>13, <1>15 DEF q
<1>18. ASSUME NEW x \in 1..(start + c) PROVE b[x] = data[x]
  <2>1. CASE x <= start
    BY <1>5, <1>15, <1>16, <1>13, <2>1 DEF q
  <2>2. CASE ~(x <= start)
    <3>1. x - start \in 1..c /\ start + (x - start) = x
      BY <1>5, <1>6, <2>2
    <3>2. b[x] = q[x - start]
      BY <1>5, <1>13, <1>15, <2>2 DEF q
    <3> QED
      BY <3>1, <3>2, <1>13 DEF q
  <2> QED
    BY <2>1, <2>2
<1>19. start + c \in 1..Len(data)
  BY <1>1, <1>5, <1>6
<1> DEFINE w == SubSeq(data, 1, start + c)
<1>20. /\ w \in Seq(Byte) /\ Len(w) = start + c
       /\ \A x \in 1..(start + c) : w[x] = data[x]
  BY <1>1, <1>19, PrefixElements
<1> HIDE DEF b, w
<1>21. b = w
  BY <1>17, <1>18, <1>20, SequencesEqual
<1> QED
  BY <1>3, <1>6, <1>9, <1>10, <1>14, <1>17, <1>19, <1>21 DEF b, w, q, data

\* What the disk was built from, file by file.
LEMMA FilesTyped ==
  ASSUME DiskKept
  PROVE  /\ files \in Seq(File)
         /\ DOMAIN Entries(files) = DOMAIN files /\ DOMAIN files \subseteq Nat
         /\ \A k \in DOMAIN files :
              /\ files[k].name \in Name /\ files[k].data \in Seq(Byte)
              /\ Len(files[k].data) \in Nat
              /\ Entries(files)[k].name = files[k].name
              /\ Entries(files)[k].start_lba \in Nat
              /\ Entries(files)[k].length = Len(files[k].data)
<1>1. files \in Seq(File)
  BY FsAssumption DEF DiskKept
<1>2. DOMAIN Entries(files) = DOMAIN files /\ DOMAIN files = 1..Len(files)
  BY <1>1 DEF Entries
<1>3. ASSUME NEW k \in DOMAIN files
      PROVE  /\ files[k].name \in Name /\ files[k].data \in Seq(Byte)
             /\ Len(files[k].data) \in Nat
             /\ Entries(files)[k].name = files[k].name
             /\ Entries(files)[k].start_lba \in Nat
             /\ Entries(files)[k].length = Len(files[k].data)
  <2>1. files[k] \in File
    BY <1>1
  <2>2. StartLba(files, k) \in Nat
    <3>1. k \in 1..(Len(files) + 1)
      BY <1>1, <1>2
    <3> QED
      BY <1>1, <3>1, StartLbaOrdered
  <2> QED
    BY <2>1, <2>2 DEF File, Entries
<1> QED
  BY <1>1, <1>2, <1>3

\* Sector 0, when it still has its magic number, holds the directory.
LEMMA DirectoryOnDisk ==
  ASSUME DiskKept, disk[0].magic
  PROVE  disk[0].entries = Entries(files)
<1>1. StartLba(files, Len(files) + 1) \in Nat \ {0}
  BY FilesTyped, StartLbaOrdered
<1>2. build_disk(files)[0] = [magic |-> TRUE, entries |-> Entries(files)]
  BY <1>1 DEF build_disk
<1> QED
  BY <1>2 DEF DiskKept, Pattern

\* fs_find takes the first file of the directory whose name matches; a file
\* found by one of its names is found by the other.
LEMMA FoundByFind ==
  ASSUME DiskKept, Current, step = "find", Matches(entry.name) # {}
  PROVE  LET k == Found(entry.name)
         IN  /\ Min(Matches(entry.name)) = k /\ k \in DOMAIN files
             /\ header[k] = Entries(files)[k]
             /\ Lower[files[k].name] = Lower[entry.name]
             /\ Found(files[k].name) = k
<1> DEFINE T(name) == {k \in DOMAIN files : Lower[files[k].name] = Lower[name]}
<1>1. mounted /\ header = Entries(files)
  BY DirectoryOnDisk DEF Current
<1>2. Matches(entry.name) = T(entry.name)
  BY <1>1, FilesTyped DEF Matches
<1>3. Min(T(entry.name)) \in T(entry.name)
  <2>1. T(entry.name) \subseteq Nat /\ T(entry.name) # {}
    BY <1>2, FilesTyped
  <2> HIDE DEF T
  <2> QED
    BY <2>1, MinOfNats
<1>4. Found(entry.name) = Min(T(entry.name))
  BY DEF Found
<1>5. T(files[Found(entry.name)].name) = T(entry.name)
  BY <1>3, <1>4
<1>6. Found(files[Found(entry.name)].name) = Min(T(files[Found(entry.name)].name))
  BY DEF Found
<1> QED
  BY <1>1, <1>2, <1>3, <1>4, <1>5, <1>6

\* One iteration of fs_read_file that does not fail reads a sector of the file
\* and lengthens the prefix of it that the buffer holds.
LEMMA SectorRead ==
  ASSUME Typed, DiskKept, Reading, step = "read"
  PROVE  LET data == files[Found(entry.name)].data
             total == Least(Len(data), max_len)
             next == Least(Len(buffer) + SectorSize, total)
             read == buffer \o Chunk(entry.start_lba + SectorsRead)
         IN  /\ read \in Seq(Byte) /\ read = SubSeq(data, 1, next) /\ Len(read) = next
             /\ next \in 1..total /\ entry.length = Len(data)
             /\ next < total => next = SectorSize * (next \div SectorSize)
<1> DEFINE k == Found(entry.name)
           data == files[k].data
           total == Least(Len(data), max_len)
           next == Least(Len(buffer) + SectorSize, total)
           read == buffer \o Chunk(entry.start_lba + SectorsRead)
<1>1. max_len \in Nat
  BY FsAssumption DEF Typed, LimitOf
<1>2. /\ k \in DOMAIN files /\ entry = Entries(files)[k]
      /\ buffer \in Seq(Byte) /\ buffer = SubSeq(data, 1, Len(buffer))
      /\ Len(buffer) < total /\ Len(buffer) = SectorSize * SectorsRead
  BY DEF Reading, Typed
<1>3. next \in 1..Len(data) /\ read = SubSeq(data, 1, next) /\ Len(read) = next
  BY <1>1, <1>2, ChunkExtends
<1>4. data \in Seq(Byte) /\ entry.length = Len(data) /\ Len(data) \in Nat
  BY <1>2, FilesTyped
<1> HIDE DEF data, read, k
<1>5. read \in Seq(Byte)
  <2> HIDE DEF next
  <2>1. next \in 0..Len(data)
    BY <1>3, <1>4
  <2>2. SubSeq(data, 1, next) \in Seq(Byte)
    BY <1>4, <2>1, PrefixElements
  <2> QED
    BY <1>3, <2>2
<1>6. SectorSize \in Nat \ {0} /\ Len(buffer) \in Nat /\ SectorsRead \in Nat
  <2>1. SectorSize \in Nat \ {0}
    BY FsAssumption
  <2>2. Len(buffer) \in Nat
    BY <1>2
  <2>3. Len(buffer) \div SectorSize \in Nat
    BY <2>1, <2>2, Division
  <2> QED
    BY <2>1, <2>2, <2>3 DEF SectorsRead
<1>7. next \in 1..total
  BY <1>1, <1>3, <1>4, <1>6 DEF Least
<1>8. ASSUME next < total PROVE next = SectorSize * (next \div SectorSize)
  <2>1. next = Len(buffer) + SectorSize
    <3>1. total \in Nat
      BY <1>1, <1>4 DEF Least
    <3> HIDE DEF total
    <3> QED
      BY <1>6, <1>8, <3>1 DEF Least
  <2>2. next = SectorSize * (SectorsRead + 1)
    BY <1>2, <1>6, <2>1
  <2> HIDE DEF next
  <2> QED
    BY <1>6, <2>2, DivisionOfMultiple
<1> QED
  BY <1>3, <1>4, <1>5, <1>7, <1>8 DEF data, read, k

----------------------------------------------------------------------------
(* The inductive invariant *)

\* The invariant holds when the disk has been built.
LEMMA FsInvInit == Init => FsInv
<1> SUFFICES ASSUME Init PROVE FsInv
  OBVIOUS
<1>1. Typed
  <2>1. DOMAIN c64_ram = Roms /\ \A r \in Roms : c64_ram[r] \in Seq(Byte)
    BY DEF Init
  <2>2. max_len = LimitOf(cmd)
    BY DEF Init, LimitOf
  <2>3. entry.name \in Name /\ entry.start_lba \in Nat /\ entry.length \in Nat
    BY FsAssumption DEF Init, NoEntry
  <2>4. buffer = <<>> /\ <<>> \in Seq(Byte)
    BY DEF Init
  <2> QED
    BY <2>1, <2>2, <2>3, <2>4 DEF Init, Typed
<1>2. DiskKept
  BY DEF Init, DiskKept
<1>3. Current /\ Reading /\ Booting
  BY DEF Init, Current, Reading, Booting
<1>4. FilesReadBack
  BY DEF Init, FilesReadBack, Nothing
<1> QED
  BY <1>1, <1>2, <1>3, <1>4 DEF FsInv

\* A command that ends leaves well-typed variables behind.
LEMMA EndTyped ==
  ASSUME NEW x, End(x), UNCHANGED <<files, c64_ram>>, Typed,
         mounted' \in BOOLEAN, header' \in {<<>>, Entries(files)}
  PROVE  Typed'
BY FsAssumption DEF End, Typed, NoEntry, LimitOf

\* Every step keeps the types.
LEMMA TypedStep == FsInv /\ [Next]_vars => Typed'
<1> SUFFICES ASSUME FsInv, [Next]_vars PROVE Typed'
  OBVIOUS
<1> USE DEF FsInv
<1>1. CASE Begin
  <2>1. UNCHANGED <<files, header, mounted, c64_ram>>
    BY <1>1 DEF Begin, diskVars, fsVars
  <2>2. ASSUME NEW c, NEW name \in Name, Ask(c, name, LimitOf(c)), c \in DiskCmds,
               step' = (IF c = "DISKTEST" THEN "write" ELSE "mount")
        PROVE  Typed'
    BY <2>1, <2>2 DEF Ask, Typed, NoEntry, DiskCmds
  <2>3. KernalRom \in Name
    BY FsAssumption
  <2>4. /\ LimitOf("DIR") = 0 /\ LimitOf("TYPE") = TypeMax
        /\ LimitOf("C64BOOT") = RomSize /\ LimitOf("DISKTEST") = 0
    BY DEF LimitOf
  <2>5. {"DIR", "TYPE", "C64BOOT", "DISKTEST"} \subseteq DiskCmds
    BY DEF DiskCmds
  <2>6. CASE Ask("DIR", KernalRom, 0) /\ step' = "mount"
    BY <2>6, <2>2, <2>3, <2>4, <2>5
  <2>7. CASE (\E name \in Name : Ask("TYPE", name, TypeMax)) /\ step' = "mount"
    BY <2>7, <2>2, <2>4, <2>5
  <2>8. CASE Ask("C64BOOT", KernalRom, RomSize) /\ step' = "mount"
    BY <2>8, <2>2, <2>3, <2>4, <2>5
  <2>9. CASE Ask("DISKTEST", KernalRom, 0) /\ step' = "write"
    BY <2>9, <2>2, <2>3, <2>4, <2>5
  <2> QED
    BY <1>1, <2>6, <2>7, <2>8, <2>9 DEF Begin
<1>2. CASE fs_mount
  <2>1. CASE Failed /\ UNCHANGED header
    BY <1>2, <2>1, EndTyped DEF fs_mount, Failed, Typed, diskVars
  <2>2. CASE /\ disk[0].magic /\ header' = disk[0].entries /\ mounted' = TRUE
             /\ Goto(IF cmd = "DIR" THEN "list" ELSE "find")
    <3>1. header' = Entries(files)'
      BY <1>2, <2>2, DirectoryOnDisk DEF fs_mount, diskVars, Entries
    <3> QED
      BY <1>2, <2>2, <3>1 DEF fs_mount, Goto, Typed
  <2> QED
    BY <1>2, <2>1, <2>2 DEF fs_mount
<1>3. CASE fs_list
  BY <1>3, EndTyped DEF fs_list, Typed, diskVars, fsVars
<1>4. CASE fs_find
  <2>1. CASE Failed
    BY <1>4, <2>1, EndTyped DEF fs_find, Failed, Typed, diskVars, fsVars
  <2>2. CASE ~Failed
    <3> DEFINE k == Found(entry.name)
    <3>1. Matches(entry.name) # {} /\ entry' = header[Min(Matches(entry.name))]
      BY <1>4, <2>2 DEF fs_find
    <3>2. k \in DOMAIN files /\ entry' = Entries(files)[k]
      BY <1>4, <3>1, FoundByFind DEF fs_find
    <3>3. /\ entry'.name \in Name /\ entry'.start_lba \in Nat /\ entry'.length \in Nat
      BY <3>2, FilesTyped
    <3> QED
      BY <1>4, <2>2, <3>3 DEF fs_find, Typed, diskVars, fsVars
  <2> QED
    BY <2>1, <2>2
<1>5. CASE fs_read_file
  <2>1. CASE Failed
    BY <1>5, <2>1, EndTyped DEF fs_read_file, Failed, Typed, diskVars, fsVars
  <2>2. CASE ~Failed
    <3>1. buffer' = buffer \o Chunk(entry.start_lba + SectorsRead)
      BY <1>5, <2>2 DEF fs_read_file
    <3>2. buffer' \in Seq(Byte)
      BY <1>5, <3>1, SectorRead DEF fs_read_file
    <3> QED
      BY <1>5, <2>2, <3>2 DEF fs_read_file, Typed, diskVars, fsVars
  <2> QED
    BY <2>1, <2>2
<1>6. CASE TypeDone
  BY <1>6, EndTyped DEF TypeDone, Typed, diskVars, fsVars
<1>7. CASE RomDone
  <2>1. PICK r \in Roms :
          /\ c64_ram' = [c64_ram EXCEPT ![r] = buffer]
          /\ \/ Ask("C64BOOT", BasicRom, RomSize) /\ step' = "find"
             \/ End([said |-> "session"])
    BY <1>7 DEF RomDone
  <2>2. DOMAIN c64_ram' = Roms /\ \A q \in Roms : c64_ram'[q] \in Seq(Byte)
    BY <2>1 DEF Typed
  <2>3. CASE Ask("C64BOOT", BasicRom, RomSize) /\ step' = "find"
    BY <1>7, <2>2, <2>3, FsAssumption
    DEF RomDone, Ask, Typed, NoEntry, LimitOf, diskVars, fsVars, DiskCmds
  <2>4. CASE End([said |-> "session"])
    BY <1>7, <2>2, <2>4, FsAssumption
    DEF RomDone, End, Typed, NoEntry, LimitOf, diskVars, fsVars
  <2> QED
    BY <2>1, <2>3, <2>4
<1>8. CASE TestWrite
  <2>1. CASE Failed
    BY <1>8, <2>1, EndTyped DEF TestWrite, Failed, Typed, fsVars
  <2>2. CASE Goto("verify")
    BY <1>8, <2>2 DEF TestWrite, Goto, Typed, fsVars
  <2> QED
    BY <1>8, <2>1, <2>2 DEF TestWrite
<1>9. CASE TestVerify
  BY <1>9, EndTyped DEF TestVerify, Failed, Typed, diskVars, fsVars
<1>10. CASE Reboot
  <2>1. DOMAIN c64_ram' = Roms /\ \A r \in Roms : c64_ram'[r] \in Seq(Byte)
    BY <1>10 DEF Reboot
  <2>2. max_len' = LimitOf(cmd')
    BY <1>10 DEF Reboot, End, LimitOf
  <2>3. entry'.name \in Name /\ entry'.start_lba \in Nat /\ entry'.length \in Nat
    BY <1>10, FsAssumption DEF Reboot, End, NoEntry
  <2>4. buffer' = <<>> /\ <<>> \in Seq(Byte)
    BY <1>10 DEF Reboot, End
  <2> QED
    BY <1>10, <2>1, <2>2, <2>3, <2>4 DEF Reboot, End, Typed
<1>11. CASE UNCHANGED vars
  BY <1>11 DEF vars, diskVars, fsVars, callVars, Typed
<1> QED
  BY <1>1, <1>2, <1>3, <1>4, <1>5, <1>6, <1>7, <1>8, <1>9, <1>10, <1>11 DEF Next

\* Only DISKTEST writes, and only sector 0.
LEMMA DiskKeptStep == DiskKept /\ [Next]_vars => DiskKept'
<1> SUFFICES ASSUME DiskKept, [Next]_vars PROVE DiskKept'
  OBVIOUS
<1>1. \/ UNCHANGED <<files, disk>>
      \/ files' = files /\ disk' = [disk EXCEPT ![0] = Pattern]
  <2>1. CASE TestWrite
    BY <2>1 DEF TestWrite
  <2>2. CASE UNCHANGED vars
    BY <2>2 DEF vars, diskVars
  <2> QED
    BY <2>1, <2>2
    DEF Next, Begin, fs_mount, fs_list, fs_find, fs_read_file, TypeDone, RomDone,
        TestVerify, Reboot, diskVars
<1>2. CASE UNCHANGED <<files, disk>>
  BY <1>2 DEF DiskKept, build_disk, DataSector, Entries
<1>3. CASE files' = files /\ disk' = [disk EXCEPT ![0] = Pattern]
  <2>1. build_disk(files)' = build_disk(files)
    BY <1>3 DEF build_disk, DataSector, Entries
  <2> QED
    BY <1>3, <2>1 DEF DiskKept
<1> QED
  BY <1>1, <1>2, <1>3

\* Every step keeps the copy of the directory that a command uses up to date.
LEMMA CurrentStep == Current /\ [Next]_vars => Current'
<1> SUFFICES ASSUME Current, [Next]_vars PROVE Current'
  OBVIOUS
<1>1. CASE Begin
  BY <1>1 DEF Begin, Current
<1>2. CASE fs_mount
  BY <1>2 DEF fs_mount, Failed, End, Goto, Current, diskVars
<1>3. CASE fs_list
  BY <1>3 DEF fs_list, End, Current
<1>4. CASE fs_find
  BY <1>4 DEF fs_find, Failed, End, Current, diskVars, fsVars
<1>5. CASE fs_read_file
  BY <1>5 DEF fs_read_file, Failed, End, Current, diskVars, fsVars
<1>6. CASE TypeDone
  BY <1>6 DEF TypeDone, End, Current
<1>7. CASE RomDone
  BY <1>7 DEF RomDone, Ask, End, Current, diskVars, fsVars
<1>8. CASE TestWrite
  BY <1>8 DEF TestWrite, Failed, End, Goto, Current
<1>9. CASE TestVerify
  BY <1>9 DEF TestVerify, Failed, End, Current
<1>10. CASE Reboot
  BY <1>10 DEF Reboot, End, Current
<1>11. CASE UNCHANGED vars
  BY <1>11 DEF vars, diskVars, fsVars, callVars, Current
<1> QED
  BY <1>1, <1>2, <1>3, <1>4, <1>5, <1>6, <1>7, <1>8, <1>9, <1>10, <1>11 DEF Next

\* The disk a step leaves was built from the same files.
LEMMA FilesKept == [Next]_vars => files' = files
BY DEF Next, Begin, fs_mount, fs_list, fs_find, fs_read_file, TypeDone, RomDone,
       TestWrite, TestVerify, Reboot, vars, diskVars

\* Every sector read adds its part of the file.
LEMMA ReadingStep == FsInv /\ [Next]_vars => Reading'
<1> SUFFICES ASSUME FsInv, [Next]_vars PROVE Reading'
  OBVIOUS
<1> USE DEF FsInv
<1>1. files' = files
  BY FilesKept
<1>2. CASE fs_find
  <2>1. CASE Failed
    BY <2>1 DEF Failed, End, Reading
  <2>2. CASE ~Failed
    <3> DEFINE k == Found(entry.name)
    <3>1. /\ Matches(entry.name) # {} /\ entry' = header[Min(Matches(entry.name))]
          /\ step' = (IF entry'.length = 0 THEN "done" ELSE "read")
          /\ UNCHANGED <<buffer, max_len>> /\ step = "find"
      BY <1>2, <2>2 DEF fs_find
    <3>2. k \in DOMAIN files /\ entry' = Entries(files)[k] /\ Found(files[k].name) = k
      BY <3>1, FoundByFind
    <3>3. /\ entry'.name = files[k].name /\ entry'.length = Len(files[k].data)
          /\ Len(files[k].data) \in Nat /\ files[k].data \in Seq(Byte)
      BY <3>2, FilesTyped
    <3>4. Found(entry.name)' = Found(entry'.name)
      BY <1>1 DEF Found
    <3>5. buffer' = <<>> /\ Len(buffer') = 0
      BY <3>1 DEF Typed
    <3>6. buffer' = SubSeq(files[k].data, 1, Len(buffer'))
      BY <3>3, <3>5, PrefixEnds
    <3>7. max_len \in Nat /\ max_len' = max_len
      BY <3>1, FsAssumption DEF Typed, LimitOf
    <3>8. step' = "done" => Len(buffer') = Least(Len(files[k].data), max_len')
      BY <3>1, <3>3, <3>5, <3>7 DEF Least
    <3>9. step' = "read" => Len(buffer') < Least(Len(files[k].data), max_len')
      <4>1. cmd = "TYPE" \/ (cmd = "C64BOOT" /\ Len(files[k].data) = RomSize)
        BY <1>2, <2>2, <3>1, <3>3 DEF fs_find, Typed
      <4>2. max_len = TypeMax \/ max_len = Len(files[k].data)
        BY <4>1 DEF Typed, LimitOf
      <4> QED
        BY <3>1, <3>3, <3>5, <3>7, <4>2, FsAssumption DEF Least
    <3>10. Len(buffer') = SectorSize * SectorsRead'
      BY <3>5, FsAssumption DEF SectorsRead
    <3>11. Entries(files)' = Entries(files) /\ Found(entry.name)' = k
      BY <1>1, <3>2, <3>3, <3>4 DEF Entries
    <3> HIDE DEF k
    <3> QED
      BY <1>1, <3>2, <3>6, <3>8, <3>9, <3>10, <3>11 DEF Reading
  <2> QED
    BY <2>1, <2>2
<1>3. CASE fs_read_file
  <2>1. CASE Failed
    BY <2>1 DEF Failed, End, Reading
  <2>2. CASE ~Failed
    <3> DEFINE k == Found(entry.name)
               data == files[k].data
               total == Least(Len(data), max_len)
    <3>1. /\ buffer' = buffer \o Chunk(entry.start_lba + SectorsRead)
          /\ step' = (IF Len(buffer') >= Least(entry.length, max_len) THEN "done" ELSE "read")
          /\ UNCHANGED <<entry, max_len>> /\ step = "read"
      BY <1>3, <2>2 DEF fs_read_file
    <3>2. /\ buffer' = SubSeq(data, 1, Len(buffer'))
          /\ Len(buffer') \in 1..total /\ entry.length = Len(data)
          /\ Len(buffer') < total => Len(buffer') = SectorSize * (Len(buffer') \div SectorSize)
      BY <3>1, SectorRead
    <3>3. k \in DOMAIN files /\ entry = Entries(files)[k]
      BY <3>1 DEF Reading
    <3>4. Found(entry.name)' = k /\ Entries(files)' = Entries(files)
      BY <1>1, <3>1 DEF Found, Entries
    <3>5. total \in Nat
      BY <3>3, FilesTyped, FsAssumption DEF Typed, LimitOf, Least
    <3>6. step' = (IF Len(buffer') >= total THEN "done" ELSE "read")
      BY <3>1, <3>2
    <3>7. Len(buffer') \in Int /\ Len(buffer') <= total
      BY <3>2, <3>5
    <3> HIDE DEF total
    <3>8. /\ step' = "done" => Len(buffer') = total
          /\ step' = "read" => Len(buffer') < total
      BY <3>5, <3>6, <3>7
    <3> HIDE DEF k
    <3> QED
      BY <1>1, <3>1, <3>2, <3>3, <3>4, <3>8 DEF Reading, SectorsRead, total
  <2> QED
    BY <2>1, <2>2
<1>4. CASE step' \notin {"read", "done"}
  BY <1>4 DEF Reading
<1>5. CASE UNCHANGED vars
  BY <1>5 DEF vars, diskVars, callVars, Reading, Found, Entries, SectorsRead
<1>6. \/ fs_find \/ fs_read_file \/ step' \notin {"read", "done"} \/ UNCHANGED vars
  BY DEF Next, Begin, fs_mount, fs_list, TypeDone, RomDone, TestWrite, TestVerify, Reboot,
         Failed, End, Goto
<1> QED
  BY <1>2, <1>3, <1>4, <1>5, <1>6

\* What TYPE prints and C64BOOT copies, once fs_read_file is done.
LEMMA ReadDone ==
  ASSUME Typed, DiskKept, Reading, step = "done"
  PROVE  /\ buffer = SubSeq(FileOf(entry.name), 1, Least(Len(FileOf(entry.name)), max_len))
         /\ FileOf(entry.name) \in Seq(Byte) /\ Len(FileOf(entry.name)) \in Nat
         /\ Len(FileOf(entry.name)) = entry.length
<1> DEFINE k == Found(entry.name)
<1>1. /\ k \in DOMAIN files /\ entry = Entries(files)[k]
      /\ Len(buffer) = Least(Len(files[k].data), max_len)
      /\ buffer = SubSeq(files[k].data, 1, Len(buffer))
  BY DEF Reading
<1>2. FileOf(entry.name) = files[k].data
  BY DEF FileOf, Found
<1> HIDE DEF k
<1> QED
  BY <1>1, <1>2, FilesTyped

\* load_rom's check of the size makes it copy the whole file.
LEMMA WholeRom ==
  ASSUME Typed, DiskKept, Reading, Booting, step = "done", cmd = "C64BOOT",
         NEW r, Lower[r] = Lower[entry.name]
  PROVE  buffer = FileOf(r)
<1>1. FileOf(r) = FileOf(entry.name)
  BY DEF FileOf
<1>2. entry.length = RomSize /\ max_len = RomSize
  BY DEF Booting, Typed, LimitOf
<1>3. Least(Len(FileOf(entry.name)), max_len) = Len(FileOf(entry.name))
  BY <1>2, ReadDone DEF Least
<1>4. SubSeq(FileOf(entry.name), 1, Len(FileOf(entry.name))) = FileOf(entry.name)
  BY ReadDone, PrefixEnds
<1> QED
  BY <1>1, <1>3, <1>4, ReadDone

\* Every ROM that was loaded was loaded whole.
LEMMA BootingStep == FsInv /\ [Next]_vars => Booting'
<1> SUFFICES ASSUME FsInv, [Next]_vars PROVE Booting'
  OBVIOUS
<1> USE DEF FsInv
<1>1. \A name : FileOf(name)' = FileOf(name)
  BY FilesKept DEF FileOf
<1>2. CASE cmd' # "C64BOOT" /\ UNCHANGED booted
  BY <1>1, <1>2 DEF Booting
<1>3. CASE Begin /\ cmd' = "C64BOOT"
  <2>1. /\ entry'.name = KernalRom /\ step' = "mount" /\ UNCHANGED <<c64_ram, booted>>
    BY <1>3 DEF Begin, Ask, NoEntry
  <2> QED
    BY <1>1, <2>1, FsAssumption DEF Booting
<1>4. CASE fs_mount /\ cmd' = "C64BOOT"
  <2>1. /\ step = "mount" /\ cmd = "C64BOOT" /\ step' = "find"
        /\ UNCHANGED <<entry, c64_ram, booted>>
    BY <1>4 DEF fs_mount, Failed, End, Goto
  <2> QED
    BY <1>1, <2>1 DEF Booting
<1>5. CASE fs_find /\ cmd' = "C64BOOT"
  <2> DEFINE k == Found(entry.name)
  <2>1. /\ step = "find" /\ Matches(entry.name) # {} /\ cmd = "C64BOOT"
        /\ entry' = header[Min(Matches(entry.name))]
        /\ header[Min(Matches(entry.name))].length = RomSize
        /\ step' \in {"read", "done"}
        /\ UNCHANGED <<c64_ram, booted>>
    BY <1>5 DEF fs_find, Failed, End
  <2>2. /\ k \in DOMAIN files /\ entry' = Entries(files)[k]
        /\ Lower[files[k].name] = Lower[entry.name]
    BY <2>1, FoundByFind
  <2>3. Lower[entry'.name] = Lower[entry.name]
    BY <2>2, FilesTyped
  <2> QED
    BY <1>1, <2>1, <2>3 DEF Booting
<1>6. CASE fs_read_file /\ cmd' = "C64BOOT"
  <2>1. /\ step = "read" /\ cmd = "C64BOOT" /\ step' \in {"read", "done"}
        /\ UNCHANGED <<entry, c64_ram, booted>>
    BY <1>6 DEF fs_read_file, Failed, End
  <2> QED
    BY <1>1, <2>1 DEF Booting
<1>7. CASE RomDone
  <2>1. PICK r \in Roms :
          /\ Lower[r] = Lower[entry.name]
          /\ c64_ram' = [c64_ram EXCEPT ![r] = buffer]
          /\ IF r = KernalRom
             THEN /\ Ask("C64BOOT", BasicRom, RomSize) /\ step' = "find"
                  /\ UNCHANGED booted
             ELSE /\ End([said |-> "session"])
                  /\ booted' = <<c64_ram'[KernalRom], c64_ram'[BasicRom]>>
    BY <1>7 DEF RomDone
  <2>2. buffer = FileOf(r)
    BY <1>7, <2>1, WholeRom DEF RomDone
  <2>3. DOMAIN c64_ram = Roms /\ KernalRom # BasicRom /\ Roms = {KernalRom, BasicRom}
    BY FsAssumption DEF Typed, Roms
  <2>4. CASE r = KernalRom
    <3>1. /\ cmd' = "C64BOOT" /\ entry'.name = BasicRom /\ step' = "find"
          /\ UNCHANGED booted /\ c64_ram'[KernalRom] = FileOf(KernalRom)
      BY <2>1, <2>2, <2>3, <2>4 DEF Ask, NoEntry
    <3> QED
      BY <1>1, <3>1 DEF Booting
  <2>5. CASE r = BasicRom
    <3>1. c64_ram[KernalRom] = FileOf(KernalRom)
      BY <1>7, <2>1, <2>5 DEF Booting, RomDone
    <3>2. /\ c64_ram'[BasicRom] = FileOf(BasicRom)
          /\ c64_ram'[KernalRom] = FileOf(KernalRom)
      BY <2>1, <2>2, <2>3, <2>5, <3>1
    <3>3. cmd' = "none" /\ booted' = <<FileOf(KernalRom), FileOf(BasicRom)>>
      BY <2>1, <2>3, <2>5, <3>2 DEF End
    <3> QED
      BY <1>1, <3>3 DEF Booting
  <2> QED
    BY <2>3, <2>4, <2>5
<1>8. CASE Reboot
  BY <1>8 DEF Reboot, End, Booting
<1>9. CASE UNCHANGED vars
  BY <1>1, <1>9 DEF vars, callVars, Booting
<1>10. CASE TestWrite \/ TestVerify
  <2>1. (cmd' = cmd /\ step' = "verify") \/ cmd' = "none"
    BY <1>10 DEF TestWrite, TestVerify, Failed, End, Goto
  <2>2. step \in {"write", "verify"} /\ UNCHANGED booted
    BY <1>10 DEF TestWrite, TestVerify
  <2> QED
    BY <1>2, <2>1, <2>2 DEF Booting
<1>11. CASE fs_list \/ TypeDone
  BY <1>2, <1>11 DEF fs_list, TypeDone, End
<1>12. CASE (Begin \/ fs_mount \/ fs_find \/ fs_read_file) /\ cmd' # "C64BOOT"
  BY <1>2, <1>12 DEF Begin, fs_mount, fs_find, fs_read_file
<1> QED
  BY <1>3, <1>4, <1>5, <1>6, <1>7, <1>8, <1>9, <1>10, <1>11, <1>12 DEF Next

\* console_print shows what stands before the first NUL.
LEMMA PrintedIs ==
  ASSUME NEW s \in Seq(Byte)
  PROVE  \E k \in Nat :
           /\ k <= Len(s) /\ Printed(s) = SubSeq(s, 1, k)
           /\ \A i \in 1..k : s[i] # 0
           /\ k < Len(s) => s[k + 1] = 0
<1> DEFINE Nuls == {i \in DOMAIN s : s[i] = 0}
<1>1. DOMAIN s = 1..Len(s) /\ Len(s) \in Nat
  OBVIOUS
<1>2. CASE Nuls = {}
  <2>1. Printed(s) = SubSeq(s, 1, Len(s)) /\ \A i \in 1..Len(s) : s[i] # 0
    BY <1>1, <1>2 DEF Printed
  <2>2. Len(s) \in Nat /\ Len(s) <= Len(s) /\ ~(Len(s) < Len(s))
    BY <1>1
  <2> HIDE <1>2
  <2> WITNESS Len(s) \in Nat
  <2> QED
    BY <2>1, <2>2
<1>3. CASE Nuls # {}
  <2> DEFINE k == Min(Nuls) - 1
  <2>1. Min(Nuls) \in Nuls /\ \A y \in Nuls : Min(Nuls) <= y
    <3>1. Nuls \subseteq Nat
      BY <1>1
    <3> HIDE DEF Nuls
    <3> QED
      BY <1>3, <3>1, MinOfNats
  <2>2. Printed(s) = SubSeq(s, 1, k)
    BY <1>3 DEF Printed
  <2>3. k \in Nat /\ k < Len(s) /\ s[k + 1] = 0
    BY <1>1, <2>1
  <2>4. ASSUME NEW i \in 1..k PROVE s[i] # 0
    <3> DEFINE m == Min(Nuls)
    <3>1. i \in DOMAIN s /\ i \in Nat /\ i < m /\ m \in Nat
      BY <1>1, <2>1, <2>3
    <3>2. \A y \in Nuls : m <= y
      BY <2>1
    <3> HIDE DEF m
    <3> QED
      BY <3>1, <3>2
  <2>5. k <= Len(s)
    BY <1>1, <2>3
  <2> HIDE DEF k
  <2> QED
    BY <2>2, <2>3, <2>4, <2>5
<1> QED
  BY <1>2, <1>3

\* Of the beginning of a file, its first n bytes, console_print shows the
\* beginning of the file's text, and all of it if it has no more than n bytes.
LEMMA PrintedBeginning ==
  ASSUME NEW f \in Seq(Byte), NEW n \in Nat
  PROVE  LET part == Printed(SubSeq(f, 1, Least(Len(f), n)))
         IN  /\ part = SubSeq(Printed(f), 1, Len(part))
             /\ Len(Printed(f)) <= n => part = Printed(f)
<1> DEFINE m == Least(Len(f), n)
           g == SubSeq(f, 1, m)
<1>1. m \in Nat /\ m <= Len(f) /\ m <= n /\ (m = n \/ m = Len(f)) /\ Len(f) \in Nat
  BY DEF Least
<1> HIDE DEF m
<1>2. g \in Seq(Byte) /\ Len(g) = m /\ \A i \in 1..m : g[i] = f[i]
  BY <1>1
<1> HIDE DEF g
<1>3. PICK k \in Nat : /\ k <= Len(f) /\ Printed(f) = SubSeq(f, 1, k)
                       /\ \A i \in 1..k : f[i] # 0
                       /\ k < Len(f) => f[k + 1] = 0
  BY PrintedIs
<1>4. PICK j \in Nat : /\ j <= m /\ Printed(g) = SubSeq(g, 1, j)
                       /\ \A i \in 1..j : g[i] # 0
                       /\ j < m => g[j + 1] = 0
  BY <1>2, PrintedIs
<1>5. j <= k
  <2>1. CASE k < j
    BY <1>1, <1>2, <1>3, <1>4, <2>1
  <2> QED
    BY <2>1
<1>6. k <= n => j = k
  <2>1. CASE j < k /\ k <= n
    BY <1>1, <1>2, <1>3, <1>4, <2>1
  <2> QED
    BY <1>5, <2>1
<1>7. /\ Printed(f) \in Seq(Byte) /\ Len(Printed(f)) = k /\ \A i \in 1..k : Printed(f)[i] = f[i]
      /\ Printed(g) \in Seq(Byte) /\ Len(Printed(g)) = j /\ \A i \in 1..j : Printed(g)[i] = f[i]
  BY <1>1, <1>2, <1>3, <1>4
<1>8. Printed(g) = SubSeq(Printed(f), 1, j)
  <2>1. /\ SubSeq(Printed(f), 1, j) \in Seq(Byte) /\ Len(SubSeq(Printed(f), 1, j)) = j
        /\ \A i \in 1..j : SubSeq(Printed(f), 1, j)[i] = f[i]
    BY <1>5, <1>7
  <2> QED
    BY <1>7, <2>1, SequencesEqual
<1>9. k <= n => Printed(g) = Printed(f)
  BY <1>6, <1>7, SequencesEqual
<1> QED
  BY <1>7, <1>8, <1>9 DEF g, m

\* A file that was read is the one that was built in.
LEMMA FilesReadBackStep == FsInv /\ [Next]_vars => FilesReadBack'
<1> SUFFICES ASSUME FsInv, [Next]_vars PROVE FilesReadBack'
  OBVIOUS
<1> USE DEF FsInv
<1>1. \A name : FileOf(name)' = FileOf(name) /\ TextOf(name)' = TextOf(name)
  BY FilesKept DEF FileOf, TextOf
<1>2. CASE shown'.said \notin {"list", "file"}
  BY <1>2 DEF FilesReadBack
<1>3. CASE UNCHANGED shown
  BY <1>1, <1>3, FilesKept DEF FilesReadBack
<1>4. CASE fs_list
  <2>1. header = Entries(files) /\ mounted
    BY <1>4, DirectoryOnDisk DEF fs_list, Current
  <2>2. /\ shown'.said = "list"
        /\ shown'.list = [k \in DOMAIN files |-> <<header[k].name, header[k].length>>]
    BY <1>4, <2>1, FilesTyped DEF fs_list, End
  <2>3. shown'.list = [k \in DOMAIN files |-> <<files[k].name, Len(files[k].data)>>]
    BY <2>1, <2>2, FilesTyped
  <2> QED
    BY <2>2, <2>3, FilesKept DEF FilesReadBack
<1>5. CASE TypeDone
  <2>1. shown' = [said |-> "file", name |-> entry.name, text |-> Printed(buffer)]
    BY <1>5 DEF TypeDone, End
  <2>2. buffer = SubSeq(FileOf(entry.name), 1, Least(Len(FileOf(entry.name)), TypeMax))
    BY <1>5, ReadDone DEF TypeDone, Typed, LimitOf
  <2>3. /\ shown'.said = "file" /\ shown'.name = entry.name
        /\ shown'.text = Printed(buffer)
    BY <2>1
  <2>4. /\ shown'.text = SubSeq(TextOf(entry.name), 1, Len(shown'.text))
        /\ Len(TextOf(entry.name)) <= TypeMax => shown'.text = TextOf(entry.name)
    <3>1. FileOf(entry.name) \in Seq(Byte) /\ TypeMax \in Nat
      BY <1>5, ReadDone, FsAssumption DEF TypeDone
    <3> QED
      BY <2>2, <2>3, <3>1, PrintedBeginning DEF TextOf
  <2> QED
    BY <1>1, <2>3, <2>4 DEF FilesReadBack
<1>6. \/ shown'.said \notin {"list", "file"} \/ UNCHANGED shown \/ fs_list \/ TypeDone
  BY DEF Next, Begin, fs_mount, fs_find, fs_read_file, RomDone, TestWrite, TestVerify,
         Reboot, Failed, End, Nothing, vars
<1> QED
  BY <1>2, <1>3, <1>4, <1>5, <1>6

\* It is an invariant of every behaviour.
THEOREM FsInvariant == Spec => []FsInv
<1>1. FsInv /\ [Next]_vars => FsInv'
  BY TypedStep, DiskKeptStep, CurrentStep, ReadingStep, BootingStep, FilesReadBackStep
  DEF FsInv
<1> QED
  BY FsInvInit, <1>1, PTL DEF Spec

----------------------------------------------------------------------------
(* The theorems *)

\* Every variable of fs.c, the commands that use it and the builder keeps its
\* type; no read goes past the caller's buffer (fs_read_file's max_len).
THEOREM FsTypeCorrect == Spec => []TypeOK
<1>1. ASSUME FsInv PROVE TypeOK
  <2> USE <1>1 DEF FsInv
  <2>1. DOMAIN disk = 0..(StartLba(files, Len(files) + 1) - 1)
    BY DEF DiskKept, build_disk
  <2>2. max_len \in {0, TypeMax, RomSize} /\ max_len \in Nat
    BY FsAssumption DEF Typed, LimitOf
  <2>3. Len(buffer) <= max_len
    <3>1. CASE step \in {"read", "done"}
      <4> DEFINE n == Len(files[Found(entry.name)].data)
      <4>1. n \in Nat
        BY <3>1, FilesTyped DEF Reading
      <4>2. Len(buffer) <= Least(n, max_len)
        <5>1. Len(buffer) \in Nat /\ Least(n, max_len) \in Nat
          BY <2>2, <4>1 DEF Typed, Least
        <5>2. Len(buffer) = Least(n, max_len) \/ Len(buffer) < Least(n, max_len)
          BY <3>1 DEF Reading
        <5> HIDE DEF n
        <5> QED
          BY <5>1, <5>2
      <4>3. Len(buffer) \in Nat
        BY DEF Typed
      <4> HIDE DEF n
      <4> QED
        BY <2>2, <4>1, <4>2, <4>3 DEF Least
    <3>2. CASE step \notin {"read", "done"}
      BY <2>2, <3>2 DEF Typed
    <3> QED
      BY <3>1, <3>2
  <2> QED
    BY <2>1, <2>2, <2>3 DEF Typed, DiskKept, TypeOK
<1> QED
  BY FsInvariant, <1>1, PTL

\* fs_read_file only reads sectors of the image, and never the directory's.
ReadsFileSectors == step = "read" => entry.start_lba + SectorsRead \in DOMAIN disk \ {0}

\* Every sector that fs_read_file asks for is one that build_disk.py filled:
\* the LBA it computes from the directory is inside the image, past sector 0.
THEOREM ReadsStayOnDisk == Spec => []ReadsFileSectors
<1>1. ASSUME FsInv, step = "read" PROVE entry.start_lba + SectorsRead \in DOMAIN disk \ {0}
  <2> DEFINE k == Found(entry.name)
  <2>1. /\ k \in DOMAIN files /\ entry = Entries(files)[k] /\ buffer \in Seq(Byte)
        /\ buffer = SubSeq(files[k].data, 1, Len(buffer))
        /\ Len(buffer) < Least(Len(files[k].data), max_len)
        /\ Len(buffer) = SectorSize * SectorsRead
    BY <1>1 DEF FsInv, Reading, Typed
  <2>2. max_len \in Nat /\ DiskKept
    BY <1>1, FsAssumption DEF FsInv, Typed, LimitOf
  <2> HIDE DEF k
  <2> QED
    BY <2>1, <2>2, ChunkExtends
<1> QED
  BY FsInvariant, <1>1, PTL DEF ReadsFileSectors

\* DIR lists the files the disk was built from, and TYPE prints the text of the
\* file of that name, all of it if it fits the buffer: build_disk.py, fs_mount,
\* fs_find and fs_read_file agree on the layout, whatever the files, the sector
\* size and the reads that fail.
THEOREM FilesAlwaysReadBack == Spec => []FilesReadBack
<1>1. FsInv => FilesReadBack
  BY DEF FsInv
<1> QED
  BY FsInvariant, <1>1, PTL

\* A session only starts with both ROM images complete in the guest's memory
\* (load_rom and cmd_c64boot), whatever failed in this or an earlier C64BOOT.
THEOREM NeverHalfLoaded == Spec => []NeverBootsHalfLoaded
<1>1. FsInv => NeverBootsHalfLoaded
  BY DEF FsInv, Booting, NeverBootsHalfLoaded
<1> QED
  BY FsInvariant, <1>1, PTL

\* A name is looked up, and a directory listed, in what sector 0 holds now,
\* although fs.c keeps its copy between commands and DISKTEST overwrites the
\* sector (fs_mount at the head of every command, shell.c:575).
THEOREM LookupIsAlwaysCurrent == Spec => []LookupIsCurrent
<1>1. FsInv => LookupIsCurrent
  BY DEF FsInv, Current, LookupIsCurrent
<1> QED
  BY FsInvariant, <1>1, PTL

----------------------------------------------------------------------------
(* Commands end *)

\* C64BOOT is still at its first ROM.
FirstRom == cmd = "C64BOOT" /\ Lower[entry.name] = Lower[KernalRom]

\* The places of the commands, counted from their ends; C64BOOT goes through
\* fs_find and fs_read_file twice.
Stage ==
  CASE step = "mount" -> 8 [] step = "list" -> 7
    [] step = "find" -> (IF FirstRom THEN 6 ELSE 3)
    [] step = "read" -> (IF FirstRom THEN 5 ELSE 2)
    [] step = "done" -> (IF FirstRom THEN 4 ELSE 1)
    [] step = "write" -> 2 [] step = "verify" -> 1
    [] OTHER -> 0

\* What fs_read_file has still to read of the file.
Missing == Least(entry.length, max_len) - Len(buffer)

\* Nearer to the end of the command: further on, or with less of a file to read.
Nearer == Stage' < Stage \/ (step = "read" /\ Stage' = Stage /\ Missing' < Missing)

\* No place is without its command.
PlaceKnown == step = "none" <=> cmd = "none"

\* Every step keeps command and place together.
LEMMA PlaceStep == Typed /\ PlaceKnown /\ [Next]_vars => PlaceKnown'
<1> SUFFICES ASSUME Typed, PlaceKnown, [Next]_vars PROVE PlaceKnown'
  OBVIOUS
<1> USE DEF PlaceKnown, Typed
<1>1. CASE Begin
  BY <1>1 DEF Begin, Ask
<1>2. CASE fs_mount
  BY <1>2 DEF fs_mount, Failed, End, Goto
<1>3. CASE fs_find
  BY <1>3 DEF fs_find, Failed, End
<1>4. CASE fs_read_file
  BY <1>4 DEF fs_read_file, Failed, End
<1>5. CASE RomDone
  BY <1>5 DEF RomDone, Ask, End
<1>6. CASE TestWrite
  BY <1>6 DEF TestWrite, Failed, End, Goto
<1>7. CASE fs_list \/ TypeDone \/ TestVerify \/ Reboot
  BY <1>7 DEF fs_list, TypeDone, TestVerify, Reboot, Failed, End
<1>8. CASE UNCHANGED vars
  BY <1>8 DEF vars, callVars
<1> QED
  BY <1>1, <1>2, <1>3, <1>4, <1>5, <1>6, <1>7, <1>8 DEF Next

\* A command that has ended is at its end.
LEMMA EndedNearer ==
  ASSUME Typed, step # "none", step' = "none"
  PROVE  Nearer
<1>1. Stage' = 0
  BY DEF Stage
<1>2. Stage \in 1..8
  BY DEF Stage, Typed
<1> QED
  BY <1>1, <1>2 DEF Nearer

\* fs_find keeps to the ROM it was asked for.
LEMMA FindNearer ==
  ASSUME FsInv, fs_find
  PROVE  Nearer
<1> USE DEF FsInv
<1>1. CASE Failed
  BY <1>1, EndedNearer DEF fs_find, Failed, End
<1>2. CASE ~Failed
  <2>1. /\ Matches(entry.name) # {} /\ entry' = header[Min(Matches(entry.name))]
        /\ step' \in {"read", "done"} /\ cmd' = cmd /\ step = "find"
    BY <1>2 DEF fs_find
  <2>2. Lower[entry'.name] = Lower[entry.name]
    <3> DEFINE k == Found(entry.name)
    <3>1. k \in DOMAIN files /\ entry' = Entries(files)[k] /\ Lower[files[k].name] = Lower[entry.name]
      BY <2>1, FoundByFind
    <3> HIDE DEF k
    <3> QED
      BY <3>1, FilesTyped
  <2>3. FirstRom' = FirstRom
    BY <2>1, <2>2 DEF FirstRom
  <2> QED
    BY <2>1, <2>3 DEF Nearer, Stage
<1> QED
  BY <1>1, <1>2

\* Each sector that fs_read_file reads leaves less to read, whole sectors or not.
LEMMA ReadNearer ==
  ASSUME FsInv, fs_read_file
  PROVE  Nearer
<1> USE DEF FsInv
<1>1. CASE Failed
  BY <1>1, EndedNearer DEF fs_read_file, Failed, End
<1>2. CASE ~Failed
  <2> DEFINE total == Least(entry.length, max_len)
             n     == Len(buffer)
  <2>1. /\ buffer' = buffer \o Chunk(entry.start_lba + SectorsRead)
        /\ step' \in {"done", "read"} /\ UNCHANGED <<cmd, entry, max_len>> /\ step = "read"
    BY <1>2 DEF fs_read_file
  <2>2. FirstRom' = FirstRom
    BY <2>1 DEF FirstRom
  <2>3. CASE step' = "done"
    BY <2>1, <2>2, <2>3 DEF Nearer, Stage
  <2>4. CASE step' = "read"
    <3>1. Stage' = Stage
      BY <2>1, <2>2, <2>4 DEF Stage
    <3>2. total \in Nat /\ n \in Nat
      BY FsAssumption DEF Typed, LimitOf, Least
    <3>3. Len(buffer') = Least(n + SectorSize, total)
      <4>1. entry.length = Len(files[Found(entry.name)].data)
        BY <2>1, SectorRead
      <4> QED
        BY <2>1, <4>1, SectorRead
    <3>4. n < total
      <4>1. entry.length = Len(files[Found(entry.name)].data)
        BY <2>1, SectorRead
      <4> QED
        BY <2>1, <4>1 DEF Reading
    <3>5. Missing = total - n /\ Missing' = total - Len(buffer')
      BY <2>1 DEF Missing
    <3> HIDE DEF total, n
    <3>6. Len(buffer') > n /\ Len(buffer') \in Nat
      BY <3>2, <3>3, <3>4, FsAssumption DEF Least
    <3> QED
      BY <2>1, <3>1, <3>2, <3>5, <3>6 DEF Nearer
  <2> QED
    BY <2>1, <2>3, <2>4
<1> QED
  BY <1>1, <1>2

\* C64BOOT asks for its second ROM once.
LEMMA RomNearer ==
  ASSUME FsInv, RomDone
  PROVE  Nearer
<1> USE DEF FsInv
<1>1. PICK r \in Roms :
        /\ Lower[r] = Lower[entry.name]
        /\ IF r = KernalRom THEN Ask("C64BOOT", BasicRom, RomSize) /\ step' = "find"
           ELSE End([said |-> "session"])
  BY DEF RomDone
<1>2. CASE r = KernalRom
  <2>1. FirstRom /\ Stage = 4
    BY <1>1, <1>2 DEF RomDone, FirstRom, Stage
  <2>2. entry'.name = BasicRom
    BY <1>1, <1>2 DEF Ask, NoEntry
  <2>3. ~FirstRom'
    BY <2>2, FsAssumption DEF FirstRom
  <2>4. Stage' = 3
    BY <1>1, <1>2, <2>3 DEF Stage
  <2> QED
    BY <2>1, <2>4 DEF Nearer
<1>3. CASE r # KernalRom
  BY <1>1, <1>3, EndedNearer DEF RomDone, End
<1> QED
  BY <1>2, <1>3

\* The safety half of "every command ends": each step of a command brings it
\* nearer to its end, whatever reads fail and whatever the directory says (a
\* zero-length file, a length that fills the buffer, a last sector that is not
\* full): the loop of fs_read_file never reads nothing, C64BOOT looks up each ROM
\* once, and what was read is taken by the command that asked for it.
THEOREM CommandsEnd ==
  Spec => /\ [](step = "read" => Missing \in Nat \ {0})
          /\ [](step = "done" => \/ cmd = "TYPE"
                                 \/ cmd = "C64BOOT" /\ \E r \in Roms : Lower[r] = Lower[entry.name])
          /\ [][step # "none" => Nearer]_vars
<1> DEFINE Taken == \/ cmd = "TYPE"
                    \/ cmd = "C64BOOT" /\ \E r \in Roms : Lower[r] = Lower[entry.name]
<1>1. FsInv => (step = "read" => Missing \in Nat \ {0})
  <2> SUFFICES ASSUME FsInv, step = "read" PROVE Missing \in Nat \ {0}
    OBVIOUS
  <2> DEFINE total == Least(entry.length, max_len)
             n     == Len(buffer)
  <2>1. total \in Nat /\ n \in Nat
    BY FsAssumption DEF FsInv, Typed, LimitOf, Least
  <2>2. entry.length = Len(files[Found(entry.name)].data)
    BY SectorRead DEF FsInv
  <2>3. n < total
    BY <2>2 DEF FsInv, Reading
  <2> HIDE DEF total, n
  <2>4. total - n \in Nat \ {0}
    BY <2>1, <2>3
  <2> QED
    BY <2>4 DEF Missing, total, n
<1>2. FsInv => (step = "done" => Taken)
  BY DEF FsInv, Typed, Booting, Roms
<1>3. FsInv /\ PlaceKnown /\ [Next]_vars => [step # "none" => Nearer]_vars
  <2> SUFFICES ASSUME FsInv, PlaceKnown, Next, step # "none" PROVE Nearer
    OBVIOUS
  <2>1. CASE fs_mount
    <3>1. CASE step' = "none"
      BY <3>1, EndedNearer DEF FsInv
    <3>2. CASE step' \in {"list", "find"} /\ step = "mount"
      BY <3>2 DEF Nearer, Stage
    <3> QED
      BY <2>1, <3>1, <3>2 DEF fs_mount, Failed, End, Goto
  <2>2. CASE TestWrite
    <3>1. CASE step' = "none"
      BY <3>1, EndedNearer DEF FsInv
    <3>2. CASE step' = "verify" /\ step = "write"
      BY <3>2 DEF Nearer, Stage
    <3> QED
      BY <2>2, <3>1, <3>2 DEF TestWrite, Failed, End, Goto
  <2>3. CASE fs_list \/ TypeDone \/ TestVerify \/ Reboot
    BY <2>3, EndedNearer DEF FsInv, fs_list, TypeDone, TestVerify, Reboot, Failed, End
  <2>4. ~Begin
    BY DEF PlaceKnown, Begin
  <2> QED
    BY <2>1, <2>2, <2>3, <2>4, FindNearer, ReadNearer, RomNearer DEF Next
<1>4. Spec => []PlaceKnown
  <2>1. Init => PlaceKnown
    BY DEF Init, PlaceKnown
  <2>2. FsInv => Typed
    BY DEF FsInv
  <2> QED
    BY <2>1, <2>2, PlaceStep, FsInvariant, PTL DEF Spec
<1> QED
  BY <1>1, <1>2, <1>3, <1>4, FsInvariant, PTL DEF Spec

----------------------------------------------------------------------------
(* After DISKTEST *)

\* A disk without its directory.
Overwritten == ~disk[0].magic

\* While a command runs nothing it may have shown is left of an earlier one, and
\* an overwritten disk has shown no file, no list and no session.
NothingServed ==
  /\ step # "none" => shown = Nothing
  /\ Overwritten => step \notin {"find", "list", "read", "done"}
                    /\ shown.said \notin {"list", "file", "session"}

\* Each step keeps an overwritten disk from being served.
LEMMA NothingServedStep ==
  DiskKept /\ PlaceKnown /\ NothingServed /\ [Next]_vars
    => NothingServed' /\ (Overwritten => Overwritten' /\ booted' \in {booted, <<>>})
<1> SUFFICES ASSUME DiskKept, PlaceKnown, NothingServed, [Next]_vars
             PROVE  NothingServed' /\ (Overwritten => Overwritten' /\ booted' \in {booted, <<>>})
  OBVIOUS
<1> USE DEF NothingServed, Overwritten, Nothing
<1>1. CASE Begin
  BY <1>1 DEF Begin, Ask, diskVars
<1>2. CASE fs_mount
  BY <1>2 DEF fs_mount, Failed, End, Goto, diskVars
<1>3. CASE fs_list
  BY <1>3 DEF fs_list, End, diskVars
<1>4. CASE fs_find
  BY <1>4 DEF fs_find, Failed, End, diskVars
<1>5. CASE fs_read_file
  BY <1>5 DEF fs_read_file, Failed, End, diskVars
<1>6. CASE TypeDone
  BY <1>6 DEF TypeDone, End, diskVars
<1>7. CASE RomDone
  BY <1>7 DEF RomDone, Ask, End, diskVars
<1>8. CASE TestWrite
  <2>1. 0 \in DOMAIN disk /\ ~Pattern.magic
    <3>1. 0 \in DOMAIN build_disk(files)
      <4>1. StartLba(files, Len(files) + 1) \in Nat \ {0}
        BY FilesTyped, StartLbaOrdered
      <4> QED
        BY <4>1 DEF build_disk
    <3> QED
      BY <3>1 DEF DiskKept, Pattern
  <2>2. CASE Failed /\ UNCHANGED disk
    BY <1>8, <2>2 DEF TestWrite, Failed, End
  <2>3. CASE disk' \in {disk, [disk EXCEPT ![0] = Pattern]} /\ Goto("verify") /\ UNCHANGED shown
    <3>1. disk' = disk \/ disk'[0] = Pattern
      BY <2>1, <2>3
    <3>2. step = "write" /\ shown = Nothing /\ step' = "verify" /\ booted' = booted
      BY <1>8, <2>3 DEF TestWrite, Goto
    <3> QED
      BY <2>1, <2>3, <3>1, <3>2
  <2> QED
    BY <1>8, <2>2, <2>3 DEF TestWrite
<1>9. CASE TestVerify
  BY <1>9 DEF TestVerify, Failed, End, diskVars
<1>10. CASE Reboot
  BY <1>10 DEF Reboot, End, diskVars
<1>11. CASE UNCHANGED vars
  BY <1>11 DEF vars, diskVars, callVars
<1> QED
  BY <1>1, <1>2, <1>3, <1>4, <1>5, <1>6, <1>7, <1>8, <1>9, <1>10, <1>11 DEF Next

\* DISKTEST writes over the directory (shell.c: cmd_disktest writes LBA 0).  Once
\* its pattern is on the disk, through any commands, failures and reboots: it
\* stays, no name is looked up any more although fs.c may still hold a good copy
\* of the directory, nothing is listed or printed, and no session starts.
THEOREM OverwrittenDiskServesNothing ==
  Spec => /\ [](Overwritten => /\ step \notin {"find", "list", "read", "done"}
                               /\ shown.said \notin {"list", "file", "session"})
          /\ [][Overwritten => Overwritten' /\ booted' \in {booted, <<>>}]_vars
<1>1. Init => PlaceKnown /\ NothingServed
  <2> SUFFICES ASSUME Init PROVE PlaceKnown /\ NothingServed
    OBVIOUS
  <2>1. step = "none" /\ cmd = "none" /\ shown = Nothing
    BY DEF Init
  <2> QED
    BY <2>1 DEF PlaceKnown, NothingServed, Nothing
<1>2. FsInv => Typed /\ DiskKept
  BY DEF FsInv
<1>3. DiskKept /\ PlaceKnown /\ NothingServed /\ [Next]_vars
        => [Overwritten => Overwritten' /\ booted' \in {booted, <<>>}]_vars
  BY NothingServedStep
<1>4. NothingServed => (Overwritten => /\ step \notin {"find", "list", "read", "done"}
                                       /\ shown.said \notin {"list", "file", "session"})
  BY DEF NothingServed
<1>5. DiskKept /\ PlaceKnown /\ NothingServed /\ [Next]_vars => NothingServed'
  BY NothingServedStep
<1> QED
  BY <1>1, <1>2, <1>3, <1>4, <1>5, PlaceStep, FsInvariant, PTL DEF Spec
===============================================================================
