---------------------------- MODULE Shell_proofs ----------------------------
(***************************************************************************)
(* Theorems about Shell, for every size of screen, prompt, line and output *)
(* and every interleaving of kernel_main's instructions with keys.         *)
(***************************************************************************)
EXTENDS Shell, SequenceTheorems, TLAPS

----------------------------------------------------------------------------
(* Rows of the screen *)

\* A position at the beginning of a row.
Aligned(n) == \E q \in Nat : n = Cols * q

\* The screen has at least two rows.
LEMMA SizeFacts == Size \in Nat /\ Size >= 2 * Cols /\ Cols \in Nat /\ Cols >= 1 /\ Rows \in Nat
<1>1. Cols \in Nat /\ Cols >= 1 /\ Rows \in Nat /\ Rows >= 2
  BY ConsoleAssumption
<1>2. Cols * Rows = 2 * Cols + Cols * (Rows - 2) /\ Cols * (Rows - 2) >= 0 /\ Cols * Rows \in Nat
  BY <1>1, SMT
<1> QED
  BY <1>1, <1>2 DEF Size

\* Every position lies in a row.
LEMMA RowOf ==
  ASSUME NEW n \in Nat
  PROVE  \E q \in Nat : n = Cols * q + (n % Cols) /\ n % Cols \in 0..(Cols - 1)
<1>1. Cols \in Nat /\ Cols >= 1
  BY SizeFacts
<1>2. n = Cols * (n \div Cols) + (n % Cols) /\ n % Cols \in 0..(Cols - 1)
  BY <1>1, SMT
<1>3. n \div Cols \in Nat
  BY <1>1, SMT
<1> QED
  BY <1>2, <1>3

\* A position that begins a row has no column.
LEMMA AlignedMod == ASSUME NEW n \in Nat, Aligned(n) PROVE n % Cols = 0
<1>1. PICK q \in Nat : n = Cols * q
  BY DEF Aligned
<1>2. Cols \in Nat /\ Cols >= 1
  BY SizeFacts
<1> DEFINE r == n % Cols
<1>3. PICK d \in Nat : n = Cols * d + r /\ r \in 0..(Cols - 1)
  BY RowOf
<1>4. Cols * (q - d) = r
  <2>1. Cols * (q - d) = Cols * q - Cols * d
    BY <1>2, SMT
  <2>2. Cols * q \in Nat /\ Cols * d \in Nat
    BY <1>2, SMT
  <2> HIDE DEF r
  <2> QED
    BY <1>1, <1>3, <2>1, <2>2
<1>5. q - d >= 1 => Cols * (q - d) >= Cols
  BY <1>2, SMT
<1>6. q - d <= -1 => Cols * (q - d) <= -Cols
  BY <1>2, SMT
<1>7. q - d \in Int /\ (q - d = 0 => Cols * (q - d) = 0)
  BY <1>2
<1> QED
  BY <1>2, <1>3, <1>4, <1>5, <1>6, <1>7

\* A row that begins on the screen ends there.
LEMMA AlignedFits ==
  ASSUME NEW n \in Nat, Aligned(n), n < Size
  PROVE  n + Cols <= Size /\ Aligned(n + Cols)
<1>1. PICK q \in Nat : n = Cols * q
  BY DEF Aligned
<1>2. Cols \in Nat /\ Cols >= 1 /\ Rows \in Nat
  BY SizeFacts
<1>3. q < Rows
  <2>1. SUFFICES ASSUME q >= Rows PROVE FALSE
    BY <1>2
  <2>2. Cols * q = Cols * Rows + Cols * (q - Rows) /\ Cols * (q - Rows) >= 0
    BY <2>1, <1>2, SMT
  <2> QED
    BY <2>2, <1>1, <1>2, SizeFacts DEF Size
<1>4. Cols * (q + 1) = n + Cols
  BY <1>1, <1>2, SMT
<1>5. Cols * Rows = Cols * (q + 1) + Cols * (Rows - q - 1) /\ Cols * (Rows - q - 1) >= 0
  BY <1>2, <1>3, SMT
<1>6. q + 1 \in Nat
  OBVIOUS
<1> QED
  BY <1>4, <1>5, <1>6, <1>2, SizeFacts DEF Size, Aligned

\* The beginning of a row scrolls to that of the row before.
LEMMA AlignedUp ==
  ASSUME NEW n \in Nat, Aligned(n), n >= Cols
  PROVE  Aligned(n - Cols)
<1>1. PICK q \in Nat : n = Cols * q
  BY DEF Aligned
<1>2. Cols \in Nat /\ Cols >= 1
  BY SizeFacts
<1>3. q # 0
  BY <1>1, <1>2, SMT
<1>4. q - 1 \in Nat /\ Cols * (q - 1) = n - Cols
  BY <1>1, <1>2, <1>3, SMT
<1> QED
  BY <1>4 DEF Aligned

\* Rows begin at the beginning of the screen and at its end.
LEMMA AlignedEnds == Aligned(0) /\ Aligned(Size)
<1>1. 0 = Cols * 0 /\ Size = Cols * Rows
  BY SizeFacts DEF Size
<1> QED
  BY <1>1, SizeFacts DEF Aligned

\* A newline leads to the beginning of the next row.
LEMMA NewlineAligned ==
  ASSUME NEW n \in 0..Size
  PROVE  /\ Advance(n, Newline) \in 1..Cols
         /\ Aligned(n + Advance(n, Newline))
         /\ n < Size => n + Advance(n, Newline) <= Size
<1>0. n \in Nat /\ Cols \in Nat /\ Cols >= 1 /\ Size \in Nat
  BY SizeFacts
<1>1. PICK q \in Nat : n = Cols * q + (n % Cols) /\ n % Cols \in 0..(Cols - 1)
  BY <1>0, RowOf
<1>2. Advance(n, Newline) = Cols - (n % Cols)
  BY <1>0 DEF Advance, Rem
<1> DEFINE b == Cols * q
<1>3. b \in Nat /\ Aligned(b)
  BY <1>0, SMT DEF Aligned
<1>4. n + Advance(n, Newline) = b + Cols
  BY <1>1, <1>2, <1>0, <1>3
<1>5. b + Cols = Cols * (q + 1) /\ q + 1 \in Nat
  BY <1>0, SMT
<1>6. Aligned(b + Cols)
  BY <1>5 DEF Aligned
<1>7. n < Size => b + Cols <= Size
  <2> SUFFICES ASSUME n < Size PROVE b + Cols <= Size
    OBVIOUS
  <2>1. b < Size
    BY <1>1, <1>3, <1>0
  <2> QED
    BY <2>1, <1>3, AlignedFits
<1> QED
  BY <1>1, <1>2, <1>4, <1>6, <1>7, <1>0

\* A character that is no newline takes one cell.
LEMMA OneStep == ASSUME NEW n, NEW g \in Glyphs PROVE Advance(n, g) = 1 /\ g # Newline
  BY ConsoleAssumption DEF Advance, Newline

----------------------------------------------------------------------------
(* kernel_main's program *)

Symbols == Glyphs \cup {Newline}
Instr   == {"cursor", "start", "load", "store", "scroll", "len", "getmark", "mark"}
           \X (Symbols \cup {0})

\* The place of "len", between banner and prompt.
Between == 3 * Len(Banner) + 3

\* Prompt and banner are texts, the prompt without a newline.
LEMMA Texts ==
  /\ Prompt \in Seq(Symbols) /\ Len(Prompt) \in Nat /\ Len(Prompt) >= 1
  /\ \A i \in 1..Len(Prompt) : Prompt[i] \in Glyphs
  /\ Banner \in Seq(Symbols) /\ Len(Banner) \in Nat /\ Len(Banner) >= 1
<1>1. Prompt \in Seq(Glyphs) /\ Prompt # <<>>
  BY ShellAssumption
<1>2. Len(Prompt) \in Nat /\ Len(Prompt) >= 1
  BY <1>1, EmptySeq
<1>3. \A i \in 1..Len(Prompt) : Prompt[i] \in Glyphs
  BY <1>1, ElementOfSeq
<1>4. Prompt \in Seq(Symbols)
  BY <1>1 DEF Symbols
<1>5. Banner \in Seq(Symbols) /\ Banner # <<>>
  BY ShellAssumption DEF Symbols
<1>6. Len(Banner) \in Nat /\ Len(Banner) >= 1
  BY <1>5, EmptySeq
<1> QED
  BY <1>2, <1>3, <1>4, <1>5, <1>6

\* Each character of a text takes three instructions.
LEMMA PutLayout ==
  ASSUME NEW s \in Seq(Symbols)
  PROVE  /\ Put(s) \in Seq(Instr) /\ Len(Put(s)) = 3 * Len(s)
         /\ \A i \in 1..(3 * Len(s)) :
              /\ Put(s)[i][1] = CASE i % 3 = 1 -> "load" [] i % 3 = 2 -> "store" [] OTHER -> "scroll"
              /\ Put(s)[i][2] = s[(i + 2) \div 3]
              /\ (i + 2) \div 3 \in 1..Len(s)
<1> DEFINE op(i) == CASE i % 3 = 1 -> "load" [] i % 3 = 2 -> "store" [] OTHER -> "scroll"
<1>1. Len(s) \in Nat
  BY LenProperties
<1>2. \A i \in 1..(3 * Len(s)) : (i + 2) \div 3 \in 1..Len(s)
  BY <1>1, SMT
<1>3. \A i \in 1..(3 * Len(s)) : s[(i + 2) \div 3] \in Symbols
  BY <1>2, ElementOfSeq
<1>4. \A i \in 1..(3 * Len(s)) : op(i) \in {"load", "store", "scroll"}
  OBVIOUS
<1>5. \A i \in 1..(3 * Len(s)) : <<op(i), s[(i + 2) \div 3]>> \in Instr
  BY <1>3, <1>4 DEF Instr
<1>6. Put(s) = [i \in 1..(3 * Len(s)) |-> <<op(i), s[(i + 2) \div 3]>>]
  BY DEF Put
<1>7. 3 * Len(s) \in Nat
  BY <1>1
<1> HIDE DEF op
<1>8. Put(s) \in [1..(3 * Len(s)) -> Instr]
  BY <1>5, <1>6
<1>9. Put(s) \in Seq(Instr) /\ Len(Put(s)) = 3 * Len(s)
  BY <1>7, <1>8
<1>10. \A i \in 1..(3 * Len(s)) : Put(s)[i][1] = op(i) /\ Put(s)[i][2] = s[(i + 2) \div 3]
  BY <1>6
<1> QED
  BY <1>2, <1>9, <1>10 DEF op

\* The elements of two sequences in a row.
LEMMA Joined ==
  ASSUME NEW s \in Seq(Instr), NEW t \in Seq(Instr)
  PROVE  /\ s \o t \in Seq(Instr) /\ Len(s \o t) = Len(s) + Len(t)
         /\ \A i \in 1..Len(s \o t) : (s \o t)[i] = IF i <= Len(s) THEN s[i] ELSE t[i - Len(s)]
<1>1. /\ s \o t \in Seq(Instr) /\ Len(s \o t) = Len(s) + Len(t)
      /\ \A i \in 1..Len(s) + Len(t) : (s \o t)[i] = IF i <= Len(s) THEN s[i] ELSE t[i - Len(s)]
  BY ConcatProperties, Zenon
<1> QED
  BY <1>1, Zenon

\* Each instruction by its place.
LEMMA Layout ==
  /\ Program \in Seq(Instr)
  /\ Between \in Nat /\ Between >= 6 /\ Between % 3 = 0
  /\ Len(Program) = Between + 3 * Len(Prompt) + 2
  /\ Program[1] = <<"cursor", 0>> /\ Program[2] = <<"start", 0>>
  /\ \A i \in 3..(Between - 1) : Program[i] = Put(Banner)[i - 2]
  /\ Program[Between] = <<"len", 0>>
  /\ \A i \in (Between + 1)..(Between + 3 * Len(Prompt)) : Program[i] = Put(Prompt)[i - Between]
  /\ Program[Between + 3 * Len(Prompt) + 1] = <<"getmark", 0>>
  /\ Program[Between + 3 * Len(Prompt) + 2] = <<"mark", 0>>
<1> DEFINE a == <<<<"cursor", 0>>, <<"start", 0>>>>
           b == Put(Banner)
           c == <<<<"len", 0>>>>
           d == Put(Prompt)
           e == <<<<"getmark", 0>>, <<"mark", 0>>>>
<1>1. a \in Seq(Instr) /\ Len(a) = 2 /\ a[1] = <<"cursor", 0>> /\ a[2] = <<"start", 0>>
  BY DEF Instr
<1>2. c \in Seq(Instr) /\ Len(c) = 1 /\ c[1] = <<"len", 0>>
  BY DEF Instr
<1>3. e \in Seq(Instr) /\ Len(e) = 2 /\ e[1] = <<"getmark", 0>> /\ e[2] = <<"mark", 0>>
  BY DEF Instr
<1>4. b \in Seq(Instr) /\ Len(b) = 3 * Len(Banner)
  BY Texts, PutLayout
<1>5. d \in Seq(Instr) /\ Len(d) = 3 * Len(Prompt)
  BY Texts, PutLayout
<1> HIDE DEF a, b, c, d, e
<1> DEFINE ab == a \o b
           abc == ab \o c
           abcd == abc \o d
<1>6. Program = abcd \o e
  BY DEF Program, a, b, c, d, e
<1>7. /\ ab \in Seq(Instr) /\ Len(ab) = 2 + 3 * Len(Banner)
      /\ \A i \in 1..Len(ab) : ab[i] = IF i <= Len(a) THEN a[i] ELSE b[i - Len(a)]
  <2>1. Len(a) + Len(b) = 2 + 3 * Len(Banner)
    BY <1>1, <1>4, Texts
  <2> QED
    BY <1>1, <1>4, <2>1, Joined, Zenon
<1> HIDE DEF ab
<1>8. /\ abc \in Seq(Instr) /\ Len(abc) = 3 + 3 * Len(Banner)
      /\ \A i \in 1..Len(abc) : abc[i] = IF i <= Len(ab) THEN ab[i] ELSE c[i - Len(ab)]
  <2>1. Len(ab) + Len(c) = 3 + 3 * Len(Banner)
    BY <1>2, <1>7, Texts
  <2> QED
    BY <1>2, <1>7, <2>1, Joined, Zenon
<1> HIDE DEF abc
<1>9. /\ abcd \in Seq(Instr) /\ Len(abcd) = Between + 3 * Len(Prompt)
      /\ \A i \in 1..Len(abcd) : abcd[i] = IF i <= Len(abc) THEN abc[i] ELSE d[i - Len(abc)]
  <2>1. Len(abc) + Len(d) = Between + 3 * Len(Prompt)
    BY <1>5, <1>8, Texts DEF Between
  <2> QED
    BY <1>5, <1>8, <2>1, Joined, Zenon
<1> HIDE DEF abcd
<1>10. /\ Program \in Seq(Instr) /\ Len(Program) = Between + 3 * Len(Prompt) + 2
       /\ \A i \in 1..Len(Program) : Program[i] = IF i <= Len(abcd) THEN abcd[i] ELSE e[i - Len(abcd)]
  <2>1. Len(abcd) + Len(e) = Between + 3 * Len(Prompt) + 2
    BY <1>3, <1>9, Texts DEF Between
  <2> QED
    BY <1>3, <1>6, <1>9, <2>1, Joined, Zenon
<1>11. Between \in Nat /\ Between >= 6 /\ Between % 3 = 0 /\ Len(abc) = Between
       /\ Len(ab) = Between - 1
  BY <1>7, <1>8, Texts, SMT DEF Between
<1> DEFINE n == Len(Prompt)
<1>12. n \in Nat /\ n >= 1
  BY Texts
<1> HIDE DEF n
<1>13. \A i \in 1..Between : Program[i] = abc[i]
  BY <1>9, <1>10, <1>11, <1>12 DEF n
<1>14. \A i \in 1..(Between - 1) : Program[i] = IF i <= 2 THEN a[i] ELSE b[i - 2]
  BY <1>1, <1>7, <1>8, <1>11, <1>13
<1>15. Program[Between] = c[1]
  BY <1>8, <1>11, <1>13
<1>16. \A i \in (Between + 1)..(Between + 3 * n) : Program[i] = d[i - Between]
  BY <1>9, <1>10, <1>11, <1>12 DEF n
<1>17. Program[Between + 3 * n + 1] = e[1] /\ Program[Between + 3 * n + 2] = e[2]
  BY <1>9, <1>10, <1>11, <1>12 DEF n
<1> QED
  BY <1>1, <1>2, <1>3, <1>10, <1>11, <1>14, <1>15, <1>16, <1>17 DEF b, d, n

\* A character takes a load, a store and a scroll.
LEMMA BannerPart ==
  ASSUME NEW i \in 3..(Between - 1)
  PROVE  /\ i \in 1..Len(Program) /\ i + 1 \in 1..Len(Program)
         /\ Program[i][1] = CASE i % 3 = 0 -> "load" [] i % 3 = 1 -> "store" [] OTHER -> "scroll"
         /\ Program[i][2] \in Symbols
         /\ i = Between - 2 => Program[i][2] = Newline
<1> DEFINE n == Len(Banner)
<1>1. n \in Nat /\ n >= 1 /\ Between = 3 * n + 3 /\ Banner[n] = Newline
  BY Texts, ShellAssumption DEF Between
<1>2. Len(Prompt) \in Nat /\ Len(Program) = Between + 3 * Len(Prompt) + 2
  BY Texts, Layout
<1> HIDE DEF n
<1>3. i \in Int /\ i - 2 \in 1..(3 * n) /\ i \in 1..Len(Program) /\ i + 1 \in 1..Len(Program)
  BY <1>1, <1>2
<1>4. Program[i] = Put(Banner)[i - 2]
  BY Layout
<1>5. /\ Put(Banner)[i - 2][1] = CASE (i - 2) % 3 = 1 -> "load" [] (i - 2) % 3 = 2 -> "store" [] OTHER -> "scroll"
      /\ Put(Banner)[i - 2][2] = Banner[(i - 2 + 2) \div 3]
      /\ (i - 2 + 2) \div 3 \in 1..n
  BY <1>3, PutLayout, Texts, Zenon DEF n
<1>6. /\ ((i - 2) % 3 = 1) <=> (i % 3 = 0)
      /\ ((i - 2) % 3 = 2) <=> (i % 3 = 1)
  BY <1>3, SMT
<1>7. Banner[(i - 2 + 2) \div 3] \in Symbols
  BY <1>5, Texts, ElementOfSeq DEF n
<1>8. i = Between - 2 => (i - 2 + 2) \div 3 = n
  BY <1>1, <1>3, SMT
<1> QED
  BY <1>1, <1>3, <1>4, <1>5, <1>6, <1>7, <1>8

\* Where the prompt is printed.
LEMMA PromptPart ==
  ASSUME NEW i \in 1..(3 * Len(Prompt))
  PROVE  /\ Between + i \in 1..Len(Program) /\ Between + i + 1 \in 1..Len(Program)
         /\ Program[Between + i][1] = CASE i % 3 = 1 -> "load" [] i % 3 = 2 -> "store" [] OTHER -> "scroll"
         /\ Program[Between + i][2] = Prompt[(i + 2) \div 3]
         /\ Program[Between + i][2] \in Glyphs
         /\ (i + 2) \div 3 \in 1..Len(Prompt)
<1> DEFINE n == Len(Prompt)
<1>1. n \in Nat /\ n >= 1 /\ Len(Program) = Between + 3 * n + 2 /\ Between \in Nat
  BY Texts, Layout
<1> HIDE DEF n
<1>2. i \in Int /\ i \in 1..(3 * n)
  BY DEF n
<1>3. /\ Between + i \in 1..Len(Program) /\ Between + i + 1 \in 1..Len(Program)
      /\ Between + i \in (Between + 1)..(Between + 3 * n) /\ Between + i - Between = i
  BY <1>1, <1>2
<1>4. Program[Between + i] = Put(Prompt)[i]
  BY <1>3, Layout DEF n
<1>5. /\ Put(Prompt)[i][1] = CASE i % 3 = 1 -> "load" [] i % 3 = 2 -> "store" [] OTHER -> "scroll"
      /\ Put(Prompt)[i][2] = Prompt[(i + 2) \div 3]
      /\ (i + 2) \div 3 \in 1..n
  BY PutLayout, Texts, Zenon DEF n
<1>6. Prompt[(i + 2) \div 3] \in Glyphs
  BY <1>5, Texts DEF n
<1> QED
  BY <1>3, <1>4, <1>5, <1>6 DEF n

At(op) == pc \in 1..Len(Program) /\ Program[pc][1] = op

\* Where the places with an operation are.
LEMMA Places ==
  ASSUME NEW i \in 1..Len(Program)
  PROVE  LET op == Program[i][1]
             n  == 3 * Len(Prompt)
         IN  /\ (op = "cursor") <=> (i = 1)
             /\ (op = "start") <=> (i = 2)
             /\ (op = "len") <=> (i = Between)
             /\ (op = "getmark") <=> (i = Between + n + 1)
             /\ (op = "mark") <=> (i = Between + n + 2)
             /\ (op = "load") <=> \/ i \in 3..(Between - 1) /\ i % 3 = 0
                                  \/ i \in (Between + 1)..(Between + n) /\ (i - Between) % 3 = 1
             /\ (op = "store") <=> \/ i \in 3..(Between - 1) /\ i % 3 = 1
                                   \/ i \in (Between + 1)..(Between + n) /\ (i - Between) % 3 = 2
             /\ (op = "scroll") <=> \/ i \in 3..(Between - 1) /\ i % 3 = 2
                                    \/ i \in (Between + 1)..(Between + n) /\ (i - Between) % 3 = 0
<1> DEFINE n == 3 * Len(Prompt)
<1>1. n \in Nat /\ Between \in Nat /\ Between >= 6 /\ Len(Program) = Between + n + 2
  BY Texts, Layout
<1>2. CASE i \in 3..(Between - 1)
  <2>1. Program[i][1] = CASE i % 3 = 0 -> "load" [] i % 3 = 1 -> "store" [] OTHER -> "scroll"
    BY <1>2, BannerPart
  <2>2. i % 3 \in 0..2
    BY SMT
  <2> QED
    BY <1>1, <1>2, <2>1, <2>2
<1>3. CASE i \in (Between + 1)..(Between + n)
  <2> DEFINE k == i - Between
  <2>1. k \in 1..n /\ Between + k = i
    BY <1>1, <1>3
  <2>2. Program[Between + k][1] = CASE k % 3 = 1 -> "load" [] k % 3 = 2 -> "store" [] OTHER -> "scroll"
    BY <2>1, PromptPart
  <2>3. k % 3 \in 0..2
    BY <2>1, SMT
  <2>4. /\ i # 1 /\ i # 2 /\ i # Between /\ i # Between + n + 1 /\ i # Between + n + 2
        /\ i \notin 3..(Between - 1)
    BY <1>1, <1>3
  <2> HIDE DEF n
  <2>5. Program[i][1] = CASE (i - Between) % 3 = 1 -> "load" [] (i - Between) % 3 = 2 -> "store"
                          [] OTHER -> "scroll"
    BY <2>1, <2>2
  <2>6. (i - Between) % 3 \in {0, 1, 2}
    BY <2>3
  <2> HIDE DEF k
  <2>7. CASE (i - Between) % 3 = 0
    BY <1>3, <2>4, <2>5, <2>7 DEF n
  <2>8. CASE (i - Between) % 3 = 1
    BY <1>3, <2>4, <2>5, <2>8 DEF n
  <2>9. CASE (i - Between) % 3 = 2
    BY <1>3, <2>4, <2>5, <2>9 DEF n
  <2> QED
    BY <2>6, <2>7, <2>8, <2>9
<1>4. CASE i \in {1, 2, Between, Between + n + 1, Between + n + 2}
  <2>1. /\ Program[1][1] = "cursor" /\ Program[2][1] = "start" /\ Program[Between][1] = "len"
        /\ Program[Between + n + 1][1] = "getmark" /\ Program[Between + n + 2][1] = "mark"
    BY Layout
  <2> QED
    BY <1>1, <1>4, <2>1
<1>5. i \in 3..(Between - 1) \/ i \in (Between + 1)..(Between + n)
      \/ i \in {1, 2, Between, Between + n + 1, Between + n + 2}
  BY <1>1
<1> QED
  BY <1>2, <1>3, <1>4, <1>5

\* What follows what.
LEMMA Following ==
  ASSUME NEW i \in 1..Len(Program), i + 1 \in 1..Len(Program)
  PROVE  /\ (Program[i][1] = "store") <=> (Program[i + 1][1] = "scroll")
         /\ (Program[i][1] = "load") <=> (Program[i + 1][1] = "store")
         /\ (Program[i][1] = "getmark") <=> (Program[i + 1][1] = "mark")
<1> DEFINE n == 3 * Len(Prompt)
           k == i - Between
<1>1. n \in Nat /\ Between \in Nat /\ Between >= 6 /\ Len(Program) = Between + n + 2
      /\ Between % 3 = 0 /\ n % 3 = 0
  BY Texts, Layout, SMT
<1>2. /\ i % 3 = 0 <=> (i + 1) % 3 = 1
      /\ i % 3 = 1 <=> (i + 1) % 3 = 2
      /\ i % 3 = 2 <=> (i + 1) % 3 = 0
  BY SMT
<1>3. /\ k \in Int /\ (i + 1) - Between = k + 1
      /\ k % 3 = 0 <=> (k + 1) % 3 = 1
      /\ k % 3 = 1 <=> (k + 1) % 3 = 2
      /\ k % 3 = 2 <=> (k + 1) % 3 = 0
  BY <1>1, SMT
<1>4. /\ (Program[i][1] = "getmark") <=> (i = Between + n + 1)
      /\ (Program[i][1] = "load") <=> ((i \in 3..(Between - 1) /\ i % 3 = 0)
                                       \/ (i \in (Between + 1)..(Between + n) /\ k % 3 = 1))
      /\ (Program[i][1] = "store") <=> ((i \in 3..(Between - 1) /\ i % 3 = 1)
                                        \/ (i \in (Between + 1)..(Between + n) /\ k % 3 = 2))
  BY Places, Zenon
<1>5. /\ (Program[i + 1][1] = "mark") <=> (i + 1 = Between + n + 2)
      /\ (Program[i + 1][1] = "store") <=>
            ((i + 1 \in 3..(Between - 1) /\ (i + 1) % 3 = 1)
             \/ (i + 1 \in (Between + 1)..(Between + n) /\ ((i + 1) - Between) % 3 = 2))
      /\ (Program[i + 1][1] = "scroll") <=>
            ((i + 1 \in 3..(Between - 1) /\ (i + 1) % 3 = 2)
             \/ (i + 1 \in (Between + 1)..(Between + n) /\ ((i + 1) - Between) % 3 = 0))
  <2>1. ASSUME NEW j \in 1..Len(Program)
        PROVE  /\ (Program[j][1] = "mark") <=> (j = Between + n + 2)
               /\ (Program[j][1] = "store") <=>
                     ((j \in 3..(Between - 1) /\ j % 3 = 1)
                      \/ (j \in (Between + 1)..(Between + n) /\ (j - Between) % 3 = 2))
               /\ (Program[j][1] = "scroll") <=>
                     ((j \in 3..(Between - 1) /\ j % 3 = 2)
                      \/ (j \in (Between + 1)..(Between + n) /\ (j - Between) % 3 = 0))
    BY Places, Zenon
  <2> DEFINE m == i + 1
  <2>2. m \in 1..Len(Program)
    OBVIOUS
  <2> HIDE DEF n, m
  <2>3. /\ (Program[m][1] = "mark") <=> (m = Between + n + 2)
        /\ (Program[m][1] = "store") <=>
              ((m \in 3..(Between - 1) /\ m % 3 = 1)
               \/ (m \in (Between + 1)..(Between + n) /\ (m - Between) % 3 = 2))
        /\ (Program[m][1] = "scroll") <=>
              ((m \in 3..(Between - 1) /\ m % 3 = 2)
               \/ (m \in (Between + 1)..(Between + n) /\ (m - Between) % 3 = 0))
    BY <2>1, <2>2
  <2> QED
    BY <2>3, Zenon DEF m
<1>6. /\ 2 % 3 = 2 /\ (Between - 1) % 3 = 2 /\ (Between - 1 = i => i % 3 = 2)
      /\ (i = 2 => i % 3 = 2) /\ (k = 0 => k % 3 = 0) /\ (k = n => k % 3 = 0)
  BY <1>1, SMT
<1>7. i \in Int /\ i = Between + k
  BY <1>1
<1> HIDE DEF n, k
<1>8. /\ (i \in 3..(Between - 1) /\ i % 3 # 2) <=> (i + 1 \in 3..(Between - 1) /\ i % 3 # 2)
      /\ (i \in (Between + 1)..(Between + n) /\ k % 3 # 0)
           <=> (i + 1 \in (Between + 1)..(Between + n) /\ k % 3 # 0)
  BY <1>1, <1>3, <1>6, <1>7
<1>9. /\ ((i + 1) - Between) % 3 = 2 <=> k % 3 = 1
      /\ ((i + 1) - Between) % 3 = 0 <=> k % 3 = 2
      /\ (i + 1) % 3 = 1 <=> i % 3 = 0
      /\ (i + 1) % 3 = 2 <=> i % 3 = 1
  BY <1>2, <1>3
<1>10. (i = Between + n + 1) <=> (i + 1 = Between + n + 2)
  BY <1>1, <1>7
<1> QED
  BY <1>4, <1>5, <1>8, <1>9, <1>10

\* Each of the instructions that print has its character.
LEMMA Operands ==
  ASSUME NEW i \in 1..Len(Program), Program[i][1] \in {"load", "store", "scroll"}
  PROVE  Program[i][2] \in Symbols
<1>1. Between \in Nat /\ Len(Prompt) \in Nat
  BY Texts, Layout
<1>2. i \in 3..(Between - 1) \/ i \in (Between + 1)..(Between + 3 * Len(Prompt))
  BY Places
<1>3. CASE i \in (Between + 1)..(Between + 3 * Len(Prompt))
  <2>1. i - Between \in 1..(3 * Len(Prompt)) /\ Between + (i - Between) = i
    BY <1>1, <1>3
  <2>2. Program[Between + (i - Between)][2] \in Glyphs
    BY <2>1, PromptPart
  <2> QED
    BY <2>1, <2>2 DEF Symbols
<1> QED
  BY <1>2, <1>3, BannerPart

----------------------------------------------------------------------------
(* The inductive invariant *)

LineInv ==
  /\ line_buf \in Seq(Chars) /\ Len(line_buf) < LineMax
  /\ pc \in 1..(Len(Program) + 1)
  /\ stage \in Stages /\ todo \in Seq(Symbols) /\ synced \in BOOLEAN

\* Positions are on the screen, but for the moment between kernel_main's store
\* and its scrolling.
ScreenInv ==
  /\ vga \in Screen
  /\ cursor_pos \in 0..Size /\ line_start \in 0..Size /\ reg \in 0..Size /\ hw_cursor \in Int
  /\ cursor_pos = Size \/ line_start = Size => At("scroll") /\ reg = Size
  /\ At("store") \/ At("mark") => reg < Size

\* The first n characters of the prompt stand at begin, where a row begins.
PromptAt(v, begin, n) ==
  /\ begin \in Nat /\ begin < Size /\ Aligned(begin)
  /\ \A j \in 1..Len(Prompt) : j <= n => v[begin + j - 1] = Prompt[j]

\* A command leaves the cursor at the beginning of a row, the prompt's.
CommandInv ==
  /\ stage = "prompt" => line_buf = <<>>
  /\ stage = "output" /\ todo # <<>> => todo[Len(todo)] = Newline
  /\ Booted /\ stage = "output" /\ todo = <<>> => Aligned(cursor_pos)
  /\ Booted /\ stage = "prompt" =>
       LET k == Len(Prompt) - Len(todo)
       IN  /\ k >= 0 /\ \A j \in 1..Len(todo) : todo[j] = Prompt[k + j]
           /\ PromptAt(vga, cursor_pos - k, k)
           /\ k > 0 => hw_cursor = cursor_pos

\* As long as no key has come, kernel_main prints banner and prompt.
QuietInv ==
  synced /\ ~Booted =>
    /\ stage = "none" /\ line_buf = <<>>
    /\ At("store") \/ At("scroll") \/ At("mark") => reg = cursor_pos
    /\ At("scroll") \/ hw_cursor = cursor_pos
    /\ pc <= 2 => cursor_pos = 0
    /\ pc = Between - 1 => Aligned(cursor_pos)
    /\ pc >= Between => PromptAt(vga, cursor_pos - ((pc - Between) \div 3), (pc - Between + 1) \div 3)

ReadyInv ==
  Settled =>
    /\ cursor_pos = line_start + Len(line_buf)
    /\ \A j \in 1..Len(line_buf) : vga[line_start + j - 1] = line_buf[j]
    /\ PromptAt(vga, line_start - Len(Prompt), Len(Prompt))
    /\ hw_cursor = cursor_pos

ShellInv == LineInv /\ ScreenInv /\ CommandInv /\ QuietInv /\ ReadyInv

----------------------------------------------------------------------------
(* The console *)

\* Writing a cell, scrolling and printing leave a screen.
LEMMA WrittenScreen ==
  ASSUME NEW v \in Screen, NEW pos \in Int, NEW g \in Glyphs \cup {Blank}
  PROVE  Written(v, pos, g) \in Screen
  BY SizeFacts DEF Written, Screen, Cells

\* So does scrolling.
LEMMA ScrolledScreen == ASSUME NEW v \in Screen PROVE Scrolled(v) \in Screen
  BY SizeFacts DEF Scrolled, Screen, Cells

\* So does printing a character.
LEMMA PrintedScreen ==
  ASSUME NEW v \in Screen, NEW pos \in Int, NEW g \in Symbols
  PROVE  Printed(v, pos, g) \in Screen
  BY WrittenScreen DEF Printed, Symbols

\* console_putchar stores positions on the screen, its end only where it was there before.
LEMMA PutBounds ==
  ASSUME NEW g \in Symbols, ScreenInv, console_putchar(g)
  PROVE  /\ vga' \in Screen
         /\ cursor_pos' \in 0..Size /\ line_start' \in 0..Size /\ hw_cursor' \in Int
         /\ cursor_pos' = Size => cursor_pos = Size
         /\ line_start' = Size => line_start = Size
<1> DEFINE pos == cursor_pos + Advance(cursor_pos, g)
<1>1. /\ Size \in Nat /\ Size >= 2 * Cols /\ Cols \in Nat /\ Cols >= 1
      /\ cursor_pos \in 0..Size /\ line_start \in 0..Size
  BY SizeFacts DEF ScreenInv
<1>2. /\ pos \in 1..(Size + Cols)
      /\ cursor_pos < Size => pos <= Size
      /\ Advance(cursor_pos, g) \in 1..Cols
  <2>1. CASE g = Newline
    BY <1>1, <2>1, NewlineAligned
  <2>2. CASE g \in Glyphs
    BY <1>1, <2>2, OneStep
  <2> QED
    BY <2>1, <2>2 DEF Symbols
<1>3. Printed(vga, cursor_pos, g) \in Screen
  BY <1>1, PrintedScreen DEF ScreenInv
<1> HIDE DEF pos
<1>4. /\ pos < Size => vga' = Printed(vga, cursor_pos, g) /\ cursor_pos' = pos /\ line_start' = line_start
      /\ pos >= Size => /\ vga' = Scrolled(Printed(vga, cursor_pos, g)) /\ cursor_pos' = pos - Cols
                        /\ line_start' = IF line_start >= Cols THEN line_start - Cols ELSE line_start
      /\ hw_cursor' = cursor_pos'
  BY <1>1, <1>2 DEF console_putchar, scroll_if_needed, pos
<1>5. vga' \in Screen
  BY <1>1, <1>2, <1>3, <1>4, ScrolledScreen
<1> QED
  BY <1>1, <1>2, <1>4, <1>5

\* What the actions have in common.
LEMMA MainFrame ==
  ASSUME Main
  PROVE  /\ pc \in Int => pc <= Len(Program) /\ pc' = pc + 1
         /\ stage = "none" /\ UNCHANGED <<stage, todo, synced>>
  BY DEF Main, MainCursor, MainStart, MainLoad, MainStore, MainScroll, MainLen, MainGetMark,
         MainMark, Instruction

\* A key calls the console once at most, and leaves kernel_main's place alone.
LEMMA KeyFrame ==
  ASSUME Key
  PROVE  /\ stage = "none" /\ synced' = (synced /\ Booted) /\ UNCHANGED <<pc, reg>>
         /\ (\E g \in Symbols : console_putchar(g)) \/ console_backspace \/ UNCHANGED consoleVars
<1>1. CASE KeyBackspace
  BY <1>1 DEF KeyBackspace, AtKey
<1>2. CASE KeyEnter
  BY <1>2 DEF KeyEnter, AtKey, Symbols
<1>3. ASSUME NEW c \in Chars, KeyChar(c) PROVE
           /\ stage = "none" /\ synced' = (synced /\ Booted) /\ UNCHANGED <<pc, reg>>
           /\ (\E g \in Symbols : console_putchar(g)) \/ console_backspace \/ UNCHANGED consoleVars
  BY <1>3, ShellAssumption DEF KeyChar, AtKey, Symbols
<1> QED
  BY <1>1, <1>2, <1>3 DEF Key

\* A command leaves kernel_main's place alone.
LEMMA CommandFrame ==
  ASSUME Command
  PROVE  stage # "none" /\ UNCHANGED <<pc, reg>>
  BY DEF Command, PutNext, ClearScreen, GuestWrite, CommandDone, PromptDone, shellVars

\* A step that changes nothing.
LEMMA Stuttering == ASSUME ShellInv, UNCHANGED vars PROVE ShellInv'
  BY DEF ShellInv, LineInv, ScreenInv, CommandInv, QuietInv, ReadyInv, PromptAt, At, Booted,
         Settled, vars, consoleVars, shellVars

----------------------------------------------------------------------------
(* Types *)

\* What a backspace leaves of a line.
LEMMA FrontOf ==
  ASSUME NEW S, NEW s \in Seq(S), Len(s) > 0
  PROVE  LET t == SubSeq(s, 1, Len(s) - 1)
         IN  /\ t \in Seq(S) /\ Len(t) = Len(s) - 1
             /\ \A i \in 1..Len(t) : t[i] = s[i]
<1> DEFINE n == Len(s) - 1
<1>1. n \in Nat /\ \A i \in 1..n : s[i] \in S
  BY LenProperties, ElementOfSeq
<1> HIDE DEF n
<1>2. /\ SubSeq(s, 1, n) \in Seq(S) /\ Len(SubSeq(s, 1, n)) = n
      /\ \A i \in 1..n : SubSeq(s, 1, n)[i] = s[i]
  BY <1>1
<1> QED
  BY <1>1, <1>2 DEF n

\* Every step keeps the line and its types.
LEMMA LineStep == ASSUME LineInv, Next PROVE LineInv'
<1> USE DEF LineInv, Stages
<1>0. Len(Program) \in Nat /\ LineMax \in Nat /\ Prompt \in Seq(Symbols) /\ LineMax >= 1
      /\ Len(line_buf) \in Nat
  BY Layout, Texts, ShellAssumption, LenProperties
<1>1. CASE Main
  <2>1. pc' \in 1..(Len(Program) + 1) /\ UNCHANGED <<stage, todo, synced>>
    BY <1>0, <1>1, MainFrame
  <2>2. line_buf' = line_buf \/ line_buf' = <<>>
    BY <1>1 DEF Main, MainCursor, MainStart, MainLoad, MainStore, MainScroll, MainLen,
                MainGetMark, MainMark
  <2>3. line_buf' \in Seq(Chars) /\ Len(line_buf') < LineMax
    <3>1. <<>> \in Seq(Chars) /\ Len(<<>>) = 0
      BY EmptySeq
    <3>2. CASE line_buf' = line_buf
      BY <3>2
    <3>3. CASE line_buf' = <<>>
      <4>1. line_buf' \in Seq(Chars)
        BY <3>1, <3>3, Zenon
      <4>2. Len(line_buf') = 0
        BY <3>1, <3>3, Zenon
      <4> QED
        BY <1>0, <4>1, <4>2
    <3> QED
      BY <2>2, <3>2, <3>3
  <2> QED
    BY <2>1, <2>3
<1>2. ASSUME NEW c \in Chars, KeyChar(c) PROVE LineInv'
  <2>1. line_buf' \in Seq(Chars) /\ Len(line_buf') < LineMax
    <3>1. CASE Len(line_buf) < LineMax - 1
      <4>1. Append(line_buf, c) \in Seq(Chars) /\ Len(Append(line_buf, c)) = Len(line_buf) + 1
        BY AppendProperties, Zenon
      <4>2. line_buf' = Append(line_buf, c)
        BY <1>2, <3>1 DEF KeyChar
      <4> QED
        BY <1>0, <3>1, <4>1, <4>2
    <3>2. CASE ~(Len(line_buf) < LineMax - 1)
      BY <1>2, <3>2 DEF KeyChar
    <3> QED
      BY <3>1, <3>2
  <2> QED
    BY <1>2, <2>1 DEF KeyChar, AtKey
<1>3. CASE KeyBackspace
  <2>1. line_buf' \in Seq(Chars) /\ Len(line_buf') < LineMax
    <3>1. CASE Len(line_buf) > 0
      BY <1>0, <1>3, <3>1, FrontOf DEF KeyBackspace
    <3>2. CASE ~(Len(line_buf) > 0)
      BY <1>3, <3>2 DEF KeyBackspace
    <3> QED
      BY <3>1, <3>2
  <2> QED
    BY <1>3, <2>1 DEF KeyBackspace, AtKey
<1>4. CASE KeyEnter
  <2>1. todo' \in Seq(Symbols)
    <3>1. \A out \in Outputs : out \in Seq(Symbols)
      <4> SUFFICES ASSUME NEW out \in Outputs PROVE out \in Seq(Symbols)
        OBVIOUS
      <4> QED
        BY ShellAssumption DEF Symbols
    <3> QED
      BY <1>4, <3>1 DEF KeyEnter
  <2>2. stage' \in Stages /\ synced' \in BOOLEAN /\ UNCHANGED <<line_buf, pc>>
    BY <1>4 DEF KeyEnter, AtKey
  <2> QED
    BY <2>1, <2>2
<1>5. CASE PutNext
  BY <1>5, HeadTailProperties DEF PutNext
<1>6. CASE ClearScreen \/ GuestWrite
  BY <1>6 DEF ClearScreen, GuestWrite, shellVars
<1>7. CASE CommandDone
  BY <1>0, <1>7 DEF CommandDone
<1>8. CASE PromptDone
  BY <1>8 DEF PromptDone, Booted
<1> QED
  BY <1>1, <1>2, <1>3, <1>4, <1>5, <1>6, <1>7, <1>8 DEF Next, Key, Command

\* Every step keeps the cursors where they may be.
LEMMA ScreenStep == ASSUME LineInv, ScreenInv, Next PROVE ScreenInv'
<1>0. /\ Size \in Nat /\ Size >= 2 * Cols /\ Cols \in Nat /\ Cols >= 1 /\ Rows \in Nat
      /\ pc \in Int /\ Len(Program) \in Nat
  BY SizeFacts, Layout DEF LineInv
<1>1. CASE Main
  <2>1. pc <= Len(Program) /\ pc' = pc + 1 /\ pc \in 1..Len(Program)
    BY <1>0, <1>1, MainFrame DEF LineInv
  <2> DEFINE op == Program[pc][1]
  <2>2. /\ At("store")' => op = "load"
        /\ At("mark")' => op = "getmark"
        /\ At("scroll")' <=> op = "store"
    <3>1. CASE pc' \in 1..Len(Program)
      <4>1. /\ op = "store" <=> Program[pc + 1][1] = "scroll"
            /\ op = "load" <=> Program[pc + 1][1] = "store"
            /\ op = "getmark" <=> Program[pc + 1][1] = "mark"
        BY <2>1, <3>1, Following
      <4> QED
        BY <2>1, <3>1, <4>1 DEF At
    <3>2. CASE pc' \notin 1..Len(Program)
      BY <1>0, <2>1, <3>2, Places, Layout, Texts DEF At
    <3> QED
      BY <3>1, <3>2
  <2>3. At("scroll") <=> op = "scroll"
    BY <2>1 DEF At
  <2>4. op \in {"load", "store", "scroll"} => Program[pc][2] \in Symbols
    BY <2>1, Operands
  <2> HIDE DEF op
  <2>5. CASE MainCursor \/ MainStart \/ MainLen \/ MainGetMark \/ MainMark
    <3>1. ~At("scroll") /\ ~At("scroll")' /\ ~At("store")'
      BY <2>2, <2>3, <2>5 DEF MainCursor, MainStart, MainLen, MainGetMark, MainMark, Instruction, op
    <3>2. At("mark")' => op = "getmark"
      BY <2>2
    <3>3. cursor_pos < Size /\ line_start < Size
      BY <1>0, <3>1 DEF ScreenInv
    <3>4. CASE MainCursor \/ MainStart \/ MainLen
      <4>1. ~At("mark")'
        BY <3>2, <3>4 DEF MainCursor, MainStart, MainLen, Instruction, op
      <4> QED
        BY <1>0, <3>1, <3>3, <3>4, <4>1 DEF MainCursor, MainStart, MainLen, ScreenInv, consoleVars
    <3>5. CASE MainGetMark
      BY <1>0, <3>1, <3>3, <3>5 DEF MainGetMark, ScreenInv, consoleVars
    <3>6. CASE MainMark
      <4>1. op = "mark" /\ At("mark") /\ ~At("mark")'
        BY <2>1, <3>2, <3>6 DEF MainMark, Instruction, op, At
      <4> QED
        BY <1>0, <3>1, <3>3, <3>6, <4>1 DEF MainMark, ScreenInv
    <3> QED
      BY <2>5, <3>4, <3>5, <3>6
  <2>6. CASE MainLoad
    <3>1. op = "load"
      BY <2>6 DEF MainLoad, Instruction, op
    <3>2. vga' \in Screen
      BY <2>4, <2>6, <3>1, <1>0, PrintedScreen DEF MainLoad, Operand, ScreenInv
    <3> QED
      BY <1>0, <2>2, <2>3, <2>6, <3>1, <3>2 DEF MainLoad, ScreenInv
  <2>7. CASE MainStore
    <3>1. op = "store" /\ Program[pc][2] \in Symbols /\ reg \in 0..Size /\ reg < Size
      BY <2>1, <2>4, <2>7 DEF MainStore, Instruction, op, ScreenInv, At
    <3>2. reg + Advance(reg, Program[pc][2]) \in 0..Size
      <4>1. CASE Program[pc][2] = Newline
        <5>1. Advance(reg, Newline) \in 1..Cols /\ reg + Advance(reg, Newline) <= Size
          BY <3>1, NewlineAligned
        <5> QED
          BY <1>0, <3>1, <4>1, <5>1
      <4>2. CASE Program[pc][2] \in Glyphs
        BY <1>0, <3>1, <4>2, OneStep
      <4> QED
        BY <3>1, <4>1, <4>2 DEF Symbols
    <3> QED
      BY <1>0, <2>2, <2>3, <2>7, <3>1, <3>2 DEF MainStore, Operand, ScreenInv
  <2>8. CASE MainScroll
    <3>1. op = "scroll"
      BY <2>8 DEF MainScroll, Instruction, op
    <3>2. vga' \in Screen
      BY <1>0, <2>8, ScrolledScreen DEF MainScroll, ScreenInv, scroll_if_needed
    <3> QED
      BY <1>0, <2>2, <2>3, <2>8, <3>1, <3>2 DEF MainScroll, ScreenInv, scroll_if_needed
  <2> QED
    BY <1>1, <2>5, <2>6, <2>7, <2>8 DEF Main
<1>2. ASSUME UNCHANGED <<pc, reg>>,
             /\ vga' \in Screen
             /\ cursor_pos' \in 0..Size /\ line_start' \in 0..Size /\ hw_cursor' \in Int
             /\ cursor_pos' = Size => cursor_pos = Size
             /\ line_start' = Size => line_start = Size \/ cursor_pos = Size
      PROVE  ScreenInv'
  BY <1>2 DEF ScreenInv, At
<1>3. ASSUME NEW g \in Symbols, console_putchar(g), UNCHANGED <<pc, reg>> PROVE ScreenInv'
  BY <1>2, <1>3, PutBounds
<1>4. CASE Key
  <2>1. CASE console_backspace
    <3>1. vga' \in Screen
      BY <1>0, <2>1, WrittenScreen DEF console_backspace, ScreenInv, consoleVars
    <3> QED
      BY <1>0, <1>2, <1>4, <2>1, <3>1, KeyFrame DEF console_backspace, ScreenInv, consoleVars
  <2>2. CASE UNCHANGED consoleVars
    BY <1>2, <1>4, <2>2, KeyFrame DEF ScreenInv, consoleVars
  <2> QED
    BY <1>3, <1>4, <2>1, <2>2, KeyFrame
<1>5. CASE Command
  <2>0. UNCHANGED <<pc, reg>>
    BY <1>5, CommandFrame
  <2>1. CASE PutNext
    BY <1>3, <2>0, <2>1, HeadTailProperties DEF PutNext, LineInv
  <2>2. CASE ClearScreen
    <3>1. [i \in Cells |-> Blank] \in Screen
      BY DEF Screen
    <3> QED
      BY <1>0, <1>2, <2>0, <2>2, <3>1 DEF ClearScreen, console_clear
  <2>3. CASE GuestWrite
    <3>1. PICK cell \in GuestCells, g \in Glyphs : guest_putchar(cell[1], cell[2], g)
      BY <2>3 DEF GuestWrite
    <3>2. cell[1] \in Int /\ cell[2] \in Int
      BY <1>0, ShellAssumption
    <3>3. cell[1] * Cols + cell[2] \in Int /\ cell[1] * Cols \in Int
      BY <1>0, <3>2
    <3>4. vga' \in Screen /\ hw_cursor' \in Int
      BY <1>0, <3>1, <3>2, <3>3, WrittenScreen DEF guest_putchar, ScreenInv
    <3> QED
      BY <1>2, <2>0, <3>1, <3>4 DEF guest_putchar, ScreenInv
  <2>4. CASE CommandDone
    BY <1>2, <2>0, <2>4 DEF CommandDone, ScreenInv, consoleVars
  <2>5. CASE PromptDone
    BY <1>2, <2>0, <2>5 DEF PromptDone, ScreenInv, console_mark_line_start
  <2> QED
    BY <1>5, <2>1, <2>2, <2>3, <2>4, <2>5 DEF Command
<1> QED
  BY <1>1, <1>4, <1>5 DEF Next

----------------------------------------------------------------------------
(* Commands and the prompt *)

\* A newline begins a row.
LEMMA NewlinePut ==
  ASSUME ScreenInv, console_putchar(Newline)
  PROVE  Aligned(cursor_pos')
<1> DEFINE pos == cursor_pos + Advance(cursor_pos, Newline)
<1>1. /\ Size \in Nat /\ Size >= 2 * Cols /\ Cols \in Nat /\ Cols >= 1 /\ cursor_pos \in 0..Size
  BY SizeFacts DEF ScreenInv
<1>2. pos \in Nat /\ Aligned(pos)
  <2>1. Advance(cursor_pos, Newline) \in 1..Cols /\ Aligned(pos)
    BY <1>1, NewlineAligned
  <2> QED
    BY <1>1, <2>1
<1> HIDE DEF pos
<1>3. cursor_pos' = IF pos < Size THEN pos ELSE pos - Cols
  BY DEF console_putchar, scroll_if_needed, pos
<1> QED
  BY <1>1, <1>2, <1>3, AlignedUp

\* The prompt fits the row it begins.
LEMMA PromptFits ==
  ASSUME NEW v, NEW begin, NEW n, PromptAt(v, begin, n), NEW k \in 0..Len(Prompt)
  PROVE  begin + k \in Nat /\ begin + k < Size
<1>1. /\ Size \in Nat /\ Cols \in Nat /\ Len(Prompt) \in Nat /\ Len(Prompt) < Cols
  BY SizeFacts, Texts, ShellAssumption
<1>2. begin \in Nat /\ begin + Cols <= Size
  BY AlignedFits DEF PromptAt
<1> QED
  BY <1>1, <1>2

\* The character after the first n is put where it belongs.
LEMMA PromptGrows ==
  ASSUME NEW v \in Screen, NEW begin, NEW n \in 0..(Len(Prompt) - 1), PromptAt(v, begin, n)
  PROVE  PromptAt(Written(v, begin + n, Prompt[n + 1]), begin, n + 1)
<1> DEFINE w == Written(v, begin + n, Prompt[n + 1])
<1>1. /\ Size \in Nat /\ Len(Prompt) \in Nat /\ n \in Nat /\ n < Len(Prompt)
  BY SizeFacts, Texts
<1>2. begin \in Nat /\ begin < Size /\ Aligned(begin)
  BY DEF PromptAt
<1>3. \A j \in 1..Len(Prompt) : j <= n + 1 => begin + j - 1 \in Cells
  <2> SUFFICES ASSUME NEW j \in 1..Len(Prompt), j <= n + 1 PROVE begin + j - 1 \in Cells
    OBVIOUS
  <2>1. begin + (j - 1) \in Nat /\ begin + (j - 1) < Size
    BY <1>1, PromptFits
  <2> QED
    BY <1>1, <1>2, <2>1 DEF Cells
<1>4. ASSUME NEW j \in 1..Len(Prompt), j <= n + 1 PROVE w[begin + j - 1] = Prompt[j]
  <2>1. w[begin + j - 1] = IF begin + j - 1 = begin + n THEN Prompt[n + 1] ELSE v[begin + j - 1]
    BY <1>3, <1>4 DEF Written
  <2>2. CASE j = n + 1
    BY <1>1, <1>2, <2>1, <2>2
  <2>3. CASE j <= n
    BY <1>1, <1>2, <2>1, <2>3 DEF PromptAt
  <2> QED
    BY <1>1, <1>4, <2>2, <2>3
<1> QED
  BY <1>2, <1>4 DEF PromptAt

\* Once kernel_main is done, no store of its waits to be scrolled.
LEMMA NotPending == ASSUME ScreenInv, LineInv, Booted PROVE cursor_pos \in Nat /\ cursor_pos < Size /\ line_start < Size
<1>1. ~At("scroll") /\ Size \in Nat
  BY SizeFacts, Layout DEF Booted, At, LineInv
<1> QED
  BY <1>1 DEF ScreenInv

\* Every step keeps what the commands leave behind.
LEMMA CommandStep == ASSUME LineInv, ScreenInv, CommandInv, Next PROVE CommandInv'
<1>0. /\ Size \in Nat /\ Len(Prompt) \in Nat /\ todo \in Seq(Symbols) /\ Len(todo) \in Nat
      /\ cursor_pos \in 0..Size
  BY SizeFacts, Texts, LenProperties DEF LineInv, ScreenInv
<1>1. ASSUME stage' = "none" PROVE CommandInv'
  BY <1>1 DEF CommandInv
<1>2. CASE Main \/ KeyBackspace \/ PromptDone \/ \E c \in Chars : KeyChar(c)
  BY <1>1, <1>2, MainFrame DEF KeyBackspace, KeyChar, AtKey, PromptDone
<1>3. CASE KeyEnter
  <2>1. stage' = "output" /\ todo' \in Outputs /\ console_putchar(Newline)
    BY <1>3 DEF KeyEnter
  <2>2. todo' # <<>> => todo'[Len(todo')] = Newline
    BY <2>1, ShellAssumption
  <2>3. Aligned(cursor_pos')
    BY <2>1, NewlinePut
  <2> QED
    BY <2>1, <2>2, <2>3 DEF CommandInv
<1>4. CASE PutNext
  <2>0. /\ todo # <<>> /\ console_putchar(Head(todo)) /\ todo' = Tail(todo)
        /\ UNCHANGED <<line_buf, pc, stage>>
    BY <1>4 DEF PutNext
  <2>1. /\ Len(todo) >= 1 /\ Head(todo) = todo[1]
        /\ Len(todo') = Len(todo) - 1 /\ \A j \in 1..Len(todo') : todo'[j] = todo[j + 1]
    BY <1>0, <2>0, HeadTailProperties
  <2>2. CASE stage = "output"
    <3>1. todo' # <<>> => Len(todo') >= 1
      BY <2>0, HeadTailProperties, EmptySeq DEF LineInv
    <3>2. todo' # <<>> => todo'[Len(todo')] = Newline
      BY <1>0, <2>0, <2>1, <2>2, <3>1 DEF CommandInv
    <3>3. todo' = <<>> => Aligned(cursor_pos')
      <4> SUFFICES ASSUME todo' = <<>> PROVE Aligned(cursor_pos')
        OBVIOUS
      <4>1. Len(todo) = 1
        BY <1>0, <2>1
      <4>2. Head(todo) = Newline
        BY <2>0, <2>1, <2>2, <4>1 DEF CommandInv
      <4> QED
        BY <2>0, <4>2, NewlinePut
    <3> QED
      BY <2>0, <2>2, <3>2, <3>3 DEF CommandInv
  <2>3. CASE stage = "prompt"
    <3> DEFINE k == Len(Prompt) - Len(todo)
               begin == cursor_pos - k
    <3> SUFFICES ASSUME Booted
                 PROVE  LET k2 == Len(Prompt) - Len(todo')
                        IN  /\ k2 >= 0 /\ \A j \in 1..Len(todo') : todo'[j] = Prompt[k2 + j]
                            /\ PromptAt(vga', cursor_pos' - k2, k2)
                            /\ k2 > 0 => hw_cursor' = cursor_pos'
      BY <2>0, <2>3 DEF CommandInv, Booted
    <3>1. /\ k >= 0 /\ \A j \in 1..Len(todo) : todo[j] = Prompt[k + j]
          /\ PromptAt(vga, begin, k)
      BY <2>3 DEF CommandInv
    <3>2. k \in 0..(Len(Prompt) - 1) /\ k + 1 \in 1..Len(Prompt) /\ Head(todo) = Prompt[k + 1]
      BY <1>0, <2>1, <3>1
    <3>3. Head(todo) \in Glyphs
      BY <3>2, Texts
    <3>4. begin + (k + 1) < Size /\ cursor_pos + 1 < Size /\ begin + k = cursor_pos
      <4>1. k + 1 \in 0..Len(Prompt)
        BY <1>0, <3>2
      <4>2. begin + (k + 1) < Size
        BY <3>1, <4>1, PromptFits
      <4> QED
        BY <1>0, <4>2
    <3>5. /\ vga' = Written(vga, cursor_pos, Head(todo)) /\ cursor_pos' = cursor_pos + 1
          /\ hw_cursor' = cursor_pos'
      BY <1>0, <2>0, <3>3, <3>4, OneStep DEF console_putchar, scroll_if_needed, Printed
    <3>6. vga' = Written(vga, begin + k, Prompt[k + 1])
      BY <3>2, <3>4, <3>5
    <3> HIDE DEF begin, k
    <3>7. PromptAt(vga', begin, k + 1)
      BY <3>1, <3>2, <3>6, PromptGrows DEF ScreenInv
    <3>8. Len(Prompt) - Len(todo') = k + 1 /\ cursor_pos' - (k + 1) = begin
      BY <1>0, <2>1, <3>5 DEF begin, k
    <3>9. \A j \in 1..Len(todo') : todo'[j] = Prompt[(k + 1) + j]
      BY <1>0, <2>1, <3>1 DEF k
    <3> DEFINE k2 == Len(Prompt) - Len(todo')
    <3>10. k2 = k + 1 /\ k + 1 >= 0
      BY <1>0, <3>2, <3>8
    <3> HIDE DEF k2
    <3>11. /\ k2 >= 0 /\ \A j \in 1..Len(todo') : todo'[j] = Prompt[k2 + j]
           /\ PromptAt(vga', cursor_pos' - k2, k2) /\ hw_cursor' = cursor_pos'
      BY <3>5, <3>7, <3>8, <3>9, <3>10
    <3> QED
      BY <3>11 DEF k2
  <2> QED
    BY <1>4, <2>2, <2>3 DEF PutNext, LineInv, Stages
<1>5. CASE ClearScreen
  <2>1. cursor_pos' = 0 /\ UNCHANGED <<stage, todo>> /\ stage = "output"
    BY <1>5 DEF ClearScreen, console_clear, shellVars
  <2> QED
    BY <2>1, AlignedEnds DEF CommandInv
<1>6. CASE GuestWrite
  <2>1. UNCHANGED <<cursor_pos, stage, todo, pc>> /\ stage = "output"
    BY <1>6 DEF GuestWrite, guest_putchar, shellVars
  <2> QED
    BY <2>1 DEF CommandInv, Booted
<1>7. CASE CommandDone
  <2>1. /\ stage = "output" /\ todo = <<>> /\ stage' = "prompt" /\ todo' = Prompt /\ line_buf' = <<>>
        /\ UNCHANGED <<cursor_pos, pc>>
    BY <1>7 DEF CommandDone, consoleVars
  <2> SUFFICES ASSUME Booted PROVE PromptAt(vga', cursor_pos', 0)
    BY <1>0, <2>1 DEF CommandInv, Booted
  <2>2. Aligned(cursor_pos) /\ cursor_pos \in Nat /\ cursor_pos < Size
    BY <2>1, NotPending DEF CommandInv
  <2> QED
    BY <2>1, <2>2 DEF PromptAt
<1> QED
  BY <1>2, <1>3, <1>4, <1>5, <1>6, <1>7 DEF Next, Key, Command

----------------------------------------------------------------------------
(* kernel_main without keys *)

QuietPrompt == PromptAt(vga, cursor_pos - ((pc - Between) \div 3), (pc - Between + 1) \div 3)

\* An instruction of kernel_main, as long as no key has come.
LEMMA QuietMain == ASSUME LineInv, ScreenInv, QuietInv, Main, synced, pc + 1 <= Len(Program) PROVE QuietInv'
<1> DEFINE n == Len(Prompt)
           op == Program[pc][1]
<1>0. /\ Size \in Nat /\ Size >= 2 * Cols /\ Cols \in Nat /\ Cols >= 1
      /\ n \in Nat /\ n >= 1 /\ Between \in Nat /\ Between >= 6 /\ Between % 3 = 0
      /\ Len(Program) = Between + 3 * n + 2
      /\ pc \in Nat /\ pc >= 1 /\ pc + 1 <= Len(Program) /\ pc' = pc + 1
      /\ pc \in 1..Len(Program) /\ pc + 1 \in 1..Len(Program)
      /\ vga \in Screen /\ cursor_pos \in 0..Size
  BY SizeFacts, Texts, Layout, MainFrame DEF LineInv, ScreenInv
<1>1. /\ stage' = "none" /\ synced' = synced /\ ~Booted /\ ~Booted'
      /\ line_buf = <<>> /\ line_buf' = <<>>
  <2>1. ~Booted /\ ~Booted'
    BY <1>0 DEF Booted
  <2>2. stage' = "none" /\ synced' = synced
    BY MainFrame
  <2>3. line_buf = <<>>
    BY <2>1 DEF QuietInv
  <2>4. line_buf' = line_buf \/ line_buf' = <<>>
    BY DEF Main, MainCursor, MainStart, MainLoad, MainStore, MainScroll, MainLen,
           MainGetMark, MainMark
  <2> QED
    BY <2>1, <2>2, <2>3, <2>4
<1>2. /\ At("store") \/ At("scroll") \/ At("mark") => reg = cursor_pos
      /\ At("scroll") \/ hw_cursor = cursor_pos
      /\ pc <= 2 => cursor_pos = 0
      /\ pc = Between - 1 => Aligned(cursor_pos)
      /\ pc >= Between => QuietPrompt
  BY <1>1 DEF QuietInv, QuietPrompt
<1>3. (At("store") <=> op = "store") /\ (At("scroll") <=> op = "scroll") /\ (At("mark") <=> op = "mark")
  BY <1>0 DEF At
<1> SUFFICES /\ At("store")' \/ At("scroll")' \/ At("mark")' => reg' = cursor_pos'
             /\ At("scroll")' \/ hw_cursor' = cursor_pos'
             /\ pc' <= 2 => cursor_pos' = 0
             /\ pc' = Between - 1 => Aligned(cursor_pos')
             /\ pc' >= Between => QuietPrompt'
  BY <1>1 DEF QuietInv, QuietPrompt
<1>4. (At("store")' <=> op = "load") /\ (At("scroll")' <=> op = "store")
      /\ (At("mark")' <=> op = "getmark")
  <2>1. /\ (op = "store") <=> (Program[pc + 1][1] = "scroll")
        /\ (op = "load") <=> (Program[pc + 1][1] = "store")
        /\ (op = "getmark") <=> (Program[pc + 1][1] = "mark")
    BY <1>0, Following
  <2> QED
    BY <1>0, <2>1 DEF At
<1> DEFINE b == pc - Between
\* The places, counted from the prompt's beginning.
<1>5. /\ op = "cursor" => pc = 1
      /\ op = "start" => pc = 2
      /\ op = "len" => pc = Between
      /\ op = "getmark" => b = 3 * n + 1
      /\ op # "mark"
      /\ op = "load" => \/ pc + 1 < Between - 1
                        \/ pc > Between /\ b \in 1..(3 * n) /\ b % 3 = 1
      /\ op = "store" => \/ pc + 1 < Between
                         \/ pc > Between /\ b \in 1..(3 * n) /\ b % 3 = 2
      /\ op = "scroll" => \/ pc + 1 < Between - 1 \/ pc + 1 = Between
                          \/ pc > Between /\ b \in 1..(3 * n) /\ b % 3 = 0
  <2>1. /\ (op = "cursor") <=> (pc = 1)
        /\ (op = "start") <=> (pc = 2)
        /\ (op = "len") <=> (pc = Between)
        /\ (op = "getmark") <=> (pc = Between + 3 * n + 1)
        /\ (op = "mark") <=> (pc = Between + 3 * n + 2)
    BY <1>0, Places
  <2>2. /\ (op = "load") <=> \/ pc \in 3..(Between - 1) /\ pc % 3 = 0
                             \/ pc \in (Between + 1)..(Between + 3 * n) /\ b % 3 = 1
        /\ (op = "store") <=> \/ pc \in 3..(Between - 1) /\ pc % 3 = 1
                              \/ pc \in (Between + 1)..(Between + 3 * n) /\ b % 3 = 2
        /\ (op = "scroll") <=> \/ pc \in 3..(Between - 1) /\ pc % 3 = 2
                               \/ pc \in (Between + 1)..(Between + 3 * n) /\ b % 3 = 0
    BY <1>0, Places
  <2>3. /\ pc = Between - 1 => pc % 3 = 2
        /\ pc = Between - 2 => pc % 3 = 1
    BY <1>0, SMT
  <2>4. pc \in (Between + 1)..(Between + 3 * n) <=> b \in 1..(3 * n)
    BY <1>0
  <2>5. b \in 1..(3 * n) => pc > Between
    BY <1>0
  <2>6. op # "mark" /\ (op = "getmark" => b = 3 * n + 1)
    BY <1>0, <2>1
  <2> HIDE DEF b, n, op
  <2>7. op = "load" => \/ pc + 1 < Between - 1
                       \/ pc > Between /\ b \in 1..(3 * n) /\ b % 3 = 1
    BY <1>0, <2>2, <2>3, <2>4, <2>5
  <2>8. op = "store" => \/ pc + 1 < Between
                        \/ pc > Between /\ b \in 1..(3 * n) /\ b % 3 = 2
    BY <1>0, <2>2, <2>3, <2>4, <2>5
  <2>9. op = "scroll" => \/ pc + 1 < Between - 1 \/ pc + 1 = Between
                         \/ pc > Between /\ b \in 1..(3 * n) /\ b % 3 = 0
    BY <1>0, <2>2, <2>3, <2>4, <2>5
  <2> QED
    BY <2>1, <2>6, <2>7, <2>8, <2>9
<1>6. op \in {"load", "store", "scroll"} => pc >= 3 /\ Program[pc][2] \in Symbols
  <2>1. op \in {"load", "store", "scroll"} => pc \notin {1, 2}
    BY <1>0, Places
  <2> QED
    BY <1>0, <2>1, Operands
\* The prompt's characters.
<1>7. ASSUME pc > Between, b \in 1..(3 * n)
      PROVE  Program[pc][2] = Prompt[(b + 2) \div 3] /\ Program[pc][2] \in Glyphs
  <2>1. Between + b = pc
    BY <1>0
  <2> QED
    BY <1>7, <2>1, PromptPart
<1>8. pc' - Between = b + 1 /\ (pc' - Between) + 1 = b + 2 /\ b \in Int
  BY <1>0
<1> DEFINE Goal == PromptAt(vga', cursor_pos' - ((b + 1) \div 3), (b + 2) \div 3)
<1>9. QuietPrompt' <=> Goal
  BY <1>8 DEF QuietPrompt
<1>10. pc >= Between => PromptAt(vga, cursor_pos - (b \div 3), (b + 1) \div 3)
  BY <1>2 DEF QuietPrompt
<1> HIDE DEF b, n, op, Goal
<1>11. CASE op \in {"cursor", "start"}
  <2>0. pc <= 2
    BY <1>0, <1>5, <1>11
  <2>1. (MainCursor \/ MainStart) /\ pc <= 2
    BY <1>11, <2>0 DEF Main, MainCursor, MainStart, MainLoad, MainStore, MainScroll, MainLen,
       MainGetMark, MainMark, Instruction, op
  <2>2. cursor_pos' = 0 /\ hw_cursor' = 0
    BY <1>2, <1>3, <1>11, <2>1 DEF MainCursor, MainStart
  <2> QED
    BY <1>0, <1>4, <1>11, <2>1, <2>2
<1>12. CASE op = "load"
  <2>1. /\ reg' = cursor_pos /\ vga' = Printed(vga, cursor_pos, Program[pc][2])
        /\ UNCHANGED <<cursor_pos, hw_cursor>>
    BY <1>12 DEF Main, MainCursor, MainStart, MainLoad, MainStore, MainScroll, MainLen,
       MainGetMark, MainMark, Instruction, Operand, op
  <2>2. pc' >= Between => Goal
    <3> SUFFICES ASSUME pc' >= Between PROVE Goal
      OBVIOUS
    <3>1. pc > Between /\ b \in 1..(3 * n) /\ b % 3 = 1
      BY <1>0, <1>5, <1>12
    <3> DEFINE j == b \div 3
    <3>2. /\ j \in 0..(n - 1) /\ (b + 1) \div 3 = j /\ (b + 2) \div 3 = j + 1
      BY <1>0, <3>1, SMT
    <3> HIDE DEF j
    <3> DEFINE begin == cursor_pos - j
    <3>3. PromptAt(vga, begin, j) /\ begin + j = cursor_pos
      BY <1>0, <1>10, <3>1, <3>2 DEF j
    <3>4. vga' = Written(vga, begin + j, Prompt[j + 1])
      BY <1>7, <2>1, <3>1, <3>2, <3>3, ConsoleAssumption DEF Printed, Newline
    <3> HIDE DEF begin
    <3>5. PromptAt(vga', begin, j + 1)
      BY <1>0, <3>2, <3>3, <3>4, PromptGrows DEF n
    <3> QED
      BY <2>1, <3>2, <3>5 DEF Goal, begin
  <2> QED
    BY <1>0, <1>2, <1>3, <1>4, <1>5, <1>6, <1>9, <1>12, <2>1, <2>2
<1>13. CASE op = "store"
  <2>1. /\ reg' = reg + Advance(reg, Program[pc][2]) /\ cursor_pos' = reg' /\ reg = cursor_pos
        /\ UNCHANGED <<vga, hw_cursor>>
    <3>1. MainStore
      BY <1>13 DEF Main, MainCursor, MainStart, MainLoad, MainStore, MainScroll, MainLen,
         MainGetMark, MainMark, Instruction, op
    <3> QED
      BY <1>2, <1>3, <1>13, <3>1 DEF MainStore, Operand
  <2>2. pc' = Between - 1 => Aligned(cursor_pos')
    <3> SUFFICES ASSUME pc' = Between - 1 PROVE Aligned(cursor_pos')
      OBVIOUS
    <3>1. pc = Between - 2 /\ pc \in 3..(Between - 1)
      BY <1>0, <1>6, <1>13
    <3>2. Program[pc][2] = Newline
      BY <3>1, BannerPart
    <3> QED
      BY <1>0, <2>1, <3>2, NewlineAligned
  <2>3. pc' >= Between => Goal
    <3> SUFFICES ASSUME pc' >= Between PROVE Goal
      OBVIOUS
    <3>1. pc > Between /\ b \in 1..(3 * n) /\ b % 3 = 2
      BY <1>0, <1>5, <1>13
    <3> DEFINE j == b \div 3
    <3>2. j \in Nat /\ (b + 1) \div 3 = j + 1 /\ (b + 2) \div 3 = j + 1
      BY <1>0, <3>1, SMT
    <3> HIDE DEF j
    <3>3. cursor_pos' = cursor_pos + 1
      BY <1>7, <2>1, <3>1, OneStep
    <3>4. cursor_pos' - (j + 1) = cursor_pos - j
      BY <1>0, <3>2, <3>3
    <3>5. PromptAt(vga, cursor_pos - j, j + 1)
      BY <1>10, <1>0, <3>1, <3>2 DEF j
    <3> QED
      BY <2>1, <3>2, <3>4, <3>5 DEF Goal
  <2> QED
    BY <1>0, <1>4, <1>6, <1>9, <1>13, <2>1, <2>2, <2>3
<1>14. CASE op = "scroll"
  <2>1. MainScroll /\ reg = cursor_pos
    BY <1>2, <1>3, <1>14 DEF Main, MainCursor, MainStart, MainLoad, MainStore, MainScroll, MainLen,
       MainGetMark, MainMark, Instruction, op
  <2>2. /\ hw_cursor' = cursor_pos'
        /\ cursor_pos < Size => UNCHANGED <<vga, cursor_pos>>
        /\ ~(cursor_pos < Size) => cursor_pos' = cursor_pos - Cols
    BY <2>1 DEF MainScroll, scroll_if_needed
  <2>3. pc' >= Between => Goal
    <3> SUFFICES ASSUME pc' >= Between PROVE Goal
      OBVIOUS
    <3>1. CASE pc + 1 = Between
      <4>1. Aligned(cursor_pos) /\ b = -1
        BY <1>0, <1>2, <3>1 DEF b
      <4>2. (b + 1) \div 3 = 0 /\ (b + 2) \div 3 = 0
        BY <4>1, SMT
      <4>3. Aligned(cursor_pos') /\ cursor_pos' \in Nat /\ cursor_pos' < Size
        <5>1. CASE cursor_pos < Size
          BY <1>0, <2>2, <4>1, <5>1
        <5>2. CASE ~(cursor_pos < Size)
          BY <1>0, <2>2, <4>1, <5>2, AlignedUp
        <5> QED
          BY <5>1, <5>2
      <4>4. PromptAt(vga', cursor_pos', 0) /\ cursor_pos' - 0 = cursor_pos'
        BY <4>3 DEF PromptAt
      <4> QED
        BY <4>2, <4>4 DEF Goal
    <3>2. CASE pc > Between
      <4>1. b \in 1..(3 * n) /\ b % 3 = 0
        BY <1>0, <1>5, <1>14, <3>2
      <4> DEFINE j == b \div 3
      <4>2. j \in 0..n /\ (b + 1) \div 3 = j /\ (b + 2) \div 3 = j
        BY <1>0, <4>1, SMT
      <4> HIDE DEF j
      <4>3. PromptAt(vga, cursor_pos - j, j)
        BY <1>10, <1>0, <3>2, <4>2 DEF j
      <4>4. (cursor_pos - j) + j < Size
        BY <4>2, <4>3, PromptFits DEF n
      <4>5. cursor_pos < Size
        BY <1>0, <4>2, <4>4
      <4> QED
        BY <2>2, <4>2, <4>3, <4>5 DEF Goal
    <3> QED
      BY <1>0, <1>5, <1>14, <3>1, <3>2
  <2>4. pc' # Between - 1
    BY <1>0, <1>5, <1>14
  <2> QED
    BY <1>0, <1>4, <1>6, <1>9, <1>14, <2>2, <2>3, <2>4
<1>15. CASE op = "len"
  <2>1. UNCHANGED <<vga, cursor_pos, hw_cursor>> /\ pc = Between
    BY <1>5, <1>15 DEF Main, MainCursor, MainStart, MainLoad, MainStore, MainScroll, MainLen,
       MainGetMark, MainMark, Instruction, consoleVars, op
  <2>2. b = 0 /\ b \div 3 = 0 /\ (b + 1) \div 3 = 0 /\ (b + 2) \div 3 = 0
    <3>1. b = 0
      BY <1>0, <2>1 DEF b
    <3> QED
      BY <3>1, SMT
  <2>3. Goal
    BY <1>0, <1>10, <2>1, <2>2 DEF Goal
  <2> QED
    BY <1>0, <1>2, <1>3, <1>4, <1>9, <1>15, <2>1, <2>3
<1>16. CASE op = "getmark"
  <2>1. UNCHANGED <<vga, cursor_pos, hw_cursor>> /\ reg' = cursor_pos /\ b = 3 * n + 1
    BY <1>5, <1>16 DEF Main, MainCursor, MainStart, MainLoad, MainStore, MainScroll, MainLen,
       MainGetMark, MainMark, Instruction, consoleVars, op
  <2>2. b \div 3 = n /\ (b + 1) \div 3 = n /\ (b + 2) \div 3 = n + 1
    BY <1>0, <2>1, SMT
  <2>3. pc > Between + 1
    BY <1>0, <2>1 DEF b
  <2>4. PromptAt(vga, cursor_pos - n, n)
    BY <1>0, <1>10, <2>2, <2>3
  <2>5. PromptAt(vga, cursor_pos - n, n + 1)
    BY <1>0, <2>4 DEF PromptAt, n
  <2> QED
    BY <1>0, <1>2, <1>3, <1>4, <1>9, <1>16, <2>1, <2>2, <2>3, <2>5 DEF Goal
<1>17. op \in {"cursor", "start", "load", "store", "scroll", "len", "getmark", "mark"}
  BY DEF Main, MainCursor, MainStart, MainLoad, MainStore, MainScroll, MainLen,
     MainGetMark, MainMark, Instruction, op
<1> QED
  BY <1>5, <1>11, <1>12, <1>13, <1>14, <1>15, <1>16, <1>17

\* Any step, as long as no key has come.
LEMMA QuietStep == ASSUME LineInv, ScreenInv, QuietInv, Next PROVE QuietInv'
<1> SUFFICES ASSUME synced', ~Booted' PROVE QuietInv'
  BY DEF QuietInv
<1>0. pc \in Int /\ Len(Program) \in Nat
  BY Layout DEF LineInv
<1>1. CASE Main
  <2>1. pc' = pc + 1 /\ synced
    BY <1>0, <1>1, MainFrame
  <2>2. pc + 1 <= Len(Program)
    BY <1>0, <2>1 DEF Booted
  <2> QED
    BY <1>1, <2>1, <2>2, QuietMain
<1>2. CASE Key
  BY <1>2, KeyFrame DEF Booted
<1>3. CASE Command
  <2>1. stage # "none" /\ pc' = pc
    BY <1>3, CommandFrame
  <2>2. ~synced
    BY <2>1 DEF QuietInv, Booted
  <2>3. CASE PromptDone
    BY <2>1, <2>3 DEF PromptDone, Booted
  <2>4. CASE PutNext \/ ClearScreen \/ GuestWrite \/ CommandDone
    BY <2>2, <2>4 DEF PutNext, ClearScreen, GuestWrite, CommandDone, shellVars
  <2> QED
    BY <1>3, <2>3, <2>4 DEF Command
<1> QED
  BY <1>1, <1>2, <1>3 DEF Next

----------------------------------------------------------------------------
(* The line after the prompt *)

\* The prompt and, from start on, the line.
Shown(v, start, line) ==
  /\ PromptAt(v, start - Len(Prompt), Len(Prompt))
  /\ \A j \in 1..Len(line) : v[start + j - 1] = line[j]

\* The prompt that is shown fits before the line.
LEMMA ShownBounds ==
  ASSUME NEW v, NEW start \in Nat, NEW line, Shown(v, start, line)
  PROVE  /\ start - Len(Prompt) \in Nat /\ start < Size
         /\ \A j \in 1..Len(Prompt) : (start - Len(Prompt)) + j - 1 \in 0..(start - 1)
<1> DEFINE n == Len(Prompt)
<1>1. n \in Nat /\ Size \in Nat
  BY SizeFacts, Texts
<1>2. PromptAt(v, start - n, n)
  BY DEF Shown
<1>3. start - n \in Nat /\ (start - n) + n < Size
  <2>1. start - n \in Nat
    BY <1>2 DEF PromptAt
  <2>2. n \in 0..Len(Prompt)
    BY <1>1
  <2> QED
    BY <1>2, <2>1, <2>2, PromptFits
<1> QED
  BY <1>1, <1>3

\* A write behind the prompt and beside the line leaves both.
LEMMA ShownKept ==
  ASSUME NEW v \in Screen, NEW start \in Nat, NEW line, Len(line) \in Nat, NEW pos \in Nat, NEW g,
         Shown(v, start, line), start + Len(line) <= pos, start + Len(line) <= Size
  PROVE  Shown(Written(v, pos, g), start, line)
<1> DEFINE n == Len(Prompt)
           w == Written(v, pos, g)
<1>1. n \in Nat /\ Size \in Nat
  BY SizeFacts, Texts
<1>2. \A i \in Cells : i # pos => w[i] = v[i]
  BY DEF Written
<1> HIDE DEF w
<1>3. ASSUME NEW j \in 1..Len(line) PROVE w[start + j - 1] = line[j]
  <2>1. start + j - 1 \in Cells /\ start + j - 1 # pos
    BY <1>1 DEF Cells
  <2> QED
    BY <1>2, <2>1 DEF Shown
<1>4. ASSUME NEW j \in 1..n PROVE w[(start - n) + j - 1] = Prompt[j]
  <2>1. (start - n) + j - 1 \in 0..(start - 1) /\ start < Size
    BY ShownBounds
  <2>2. (start - n) + j - 1 \in Cells /\ (start - n) + j - 1 # pos
    BY <1>1, <2>1 DEF Cells
  <2>3. v[(start - n) + j - 1] = Prompt[j]
    BY <1>1 DEF Shown, PromptAt
  <2> QED
    BY <1>2, <2>2, <2>3
<1> QED
  BY <1>3, <1>4 DEF Shown, PromptAt, w

\* A character typed is shown at the end of the line.
LEMMA ShownAppend ==
  ASSUME NEW v \in Screen, NEW start \in Nat, NEW line \in Seq(Chars), NEW c \in Chars,
         Shown(v, start, line), start + Len(line) < Size
  PROVE  Shown(Written(v, start + Len(line), c), start, Append(line, c))
<1> DEFINE len == Len(line)
           w == Written(v, start + len, c)
<1>1. len \in Nat /\ Size \in Nat
  BY SizeFacts, LenProperties
<1>2. start + len \in Nat /\ start + len \in Cells
  BY <1>1 DEF Cells
<1>3. Shown(w, start, line)
  BY <1>1, <1>2, ShownKept
<1>4. w[start + len] = c
  BY <1>2 DEF Written
<1>5. /\ Len(Append(line, c)) = len + 1
      /\ \A j \in 1..len : Append(line, c)[j] = line[j]
      /\ Append(line, c)[len + 1] = c
  BY AppendProperties
<1> DEFINE t == Append(line, c)
<1> HIDE DEF w, len, t
<1>6. ASSUME NEW j \in 1..(len + 1) PROVE w[start + j - 1] = t[j]
  <2>1. CASE j = len + 1
    <3>1. start + j - 1 = start + len
      BY <1>1, <2>1
    <3> QED
      BY <1>4, <1>5, <2>1, <3>1 DEF t
  <2>2. CASE j \in 1..len
    <3>1. w[start + j - 1] = line[j]
      BY <1>3, <2>2 DEF Shown, len
    <3> QED
      BY <1>5, <2>2, <3>1 DEF t
  <2> QED
    BY <1>1, <2>1, <2>2
<1> QED
  BY <1>3, <1>5, <1>6 DEF Shown, w, len, t

\* What is shown is shown a row higher after scrolling.
LEMMA ShownUp ==
  ASSUME NEW v \in Screen, NEW start \in Nat, NEW line, Len(line) \in Nat, Shown(v, start, line),
         start - Len(Prompt) >= Cols, start + Len(line) <= Size
  PROVE  Shown(Scrolled(v), start - Cols, line)
<1> DEFINE n == Len(Prompt)
           w == Scrolled(v)
<1>1. n \in Nat /\ Size \in Nat /\ Cols \in Nat /\ Cols >= 1
  BY SizeFacts, Texts
<1>2. \A i \in Cells : i + Cols \in Cells => w[i] = v[i + Cols]
  BY DEF Scrolled
<1> HIDE DEF w
<1>3. start - Cols \in Nat /\ (start - Cols) - n = (start - n) - Cols
  BY <1>1
<1>4. ASSUME NEW j \in 1..Len(line) PROVE w[(start - Cols) + j - 1] = line[j]
  <2> DEFINE i == (start - Cols) + j - 1
  <2>1. i \in Cells /\ i + Cols \in Cells /\ i + Cols = start + j - 1
    BY <1>1 DEF Cells
  <2> HIDE DEF i
  <2>2. w[i] = v[start + j - 1]
    BY <1>2, <2>1
  <2> QED
    BY <2>2 DEF Shown, i
<1>5. ASSUME NEW j \in 1..n PROVE w[((start - Cols) - n) + j - 1] = Prompt[j]
  <2> DEFINE i == ((start - Cols) - n) + j - 1
  <2>0. (start - n) + j - 1 \in 0..(start - 1) /\ start < Size
    BY ShownBounds
  <2>1. i \in Cells /\ i + Cols \in Cells /\ i + Cols = (start - n) + j - 1
    BY <1>1, <2>0 DEF Cells
  <2> HIDE DEF i
  <2>2. w[i] = v[(start - n) + j - 1]
    BY <1>2, <2>1
  <2>3. v[(start - n) + j - 1] = Prompt[j]
    BY <1>1 DEF Shown, PromptAt
  <2> QED
    BY <2>2, <2>3 DEF i
<1>6. (start - n) - Cols \in Nat /\ (start - n) - Cols < Size /\ Aligned((start - n) - Cols)
  <2>1. start - n \in Nat /\ start - n < Size /\ Aligned(start - n)
    BY DEF Shown, PromptAt
  <2> HIDE DEF n
  <2>2. Aligned((start - n) - Cols)
    BY <2>1, AlignedUp DEF n
  <2> QED
    BY <1>1, <2>1, <2>2 DEF n
<1> QED
  BY <1>3, <1>4, <1>5, <1>6 DEF Shown, PromptAt, w

----------------------------------------------------------------------------
(* The line being edited *)

\* The invariant of the prompt, by what is shown.
LEMMA ReadyShown ==
  ReadyInv <=> (Settled => /\ cursor_pos = line_start + Len(line_buf)
                           /\ Shown(vga, line_start, line_buf)
                           /\ hw_cursor = cursor_pos)
  BY DEF ReadyInv, Shown

\* A character typed at the prompt.
LEMMA ReadyChar ==
  ASSUME LineInv, ScreenInv, ReadyInv, Settled, NEW c \in Chars, KeyChar(c)
  PROVE  ReadyInv'
<1> DEFINE n == Len(Prompt)
           len == Len(line_buf)
<1>0. /\ Size \in Nat /\ Size >= 2 * Cols /\ Cols \in Nat /\ Cols >= 1
      /\ n \in Nat /\ n >= 1 /\ len \in Nat /\ LineMax \in Nat /\ n + LineMax - 1 <= Size - Cols
      /\ cursor_pos \in Nat /\ line_start \in Nat /\ vga \in Screen
      /\ line_buf \in Seq(Chars) /\ c \in Glyphs
  BY SizeFacts, Texts, ShellAssumption, LenProperties DEF LineInv, ScreenInv
<1>1. /\ cursor_pos = line_start + len /\ Shown(vga, line_start, line_buf)
      /\ hw_cursor = cursor_pos /\ cursor_pos < Size
  BY ReadyShown, NotPending DEF Settled
<1> SUFFICES /\ cursor_pos' = line_start' + Len(line_buf')
             /\ Shown(vga', line_start', line_buf')
             /\ hw_cursor' = cursor_pos'
  BY DEF ReadyInv, Shown
<1>2. CASE len < LineMax - 1
  <2>1. line_buf' = Append(line_buf, c) /\ console_putchar(c)
    BY <1>2 DEF KeyChar
  <2>2. Len(line_buf') = len + 1
    BY <1>0, <2>1, AppendProperties
  <2> DEFINE w == Written(vga, cursor_pos, c)
  <2>3. Advance(cursor_pos, c) = 1 /\ Printed(vga, cursor_pos, c) = w
    BY <1>0, OneStep DEF Printed
  <2>4. /\ w \in Screen /\ Shown(w, line_start, line_buf')
    BY <1>0, <1>1, <2>1, ShownAppend, WrittenScreen
  <2>5. scroll_if_needed(w, cursor_pos + 1) /\ hw_cursor' = cursor_pos'
    BY <2>1, <2>3 DEF console_putchar
  <2> HIDE DEF n, len, w
  <2>6. CASE cursor_pos + 1 < Size
    <3>1. vga' = w /\ cursor_pos' = cursor_pos + 1 /\ line_start' = line_start
      BY <2>5, <2>6 DEF scroll_if_needed
    <3> QED
      BY <1>0, <1>1, <2>2, <2>4, <2>5, <3>1
  <2>7. CASE ~(cursor_pos + 1 < Size)
    <3>1. cursor_pos + 1 = Size /\ line_start - n >= Cols /\ line_start >= Cols
      BY <1>0, <1>1, <1>2, <2>7
    <3>2. /\ vga' = Scrolled(w) /\ cursor_pos' = (cursor_pos + 1) - Cols
          /\ line_start' = line_start - Cols
      BY <2>5, <2>7, <3>1 DEF scroll_if_needed
    <3>3. line_start + Len(line_buf') <= Size /\ Len(line_buf') \in Nat
      BY <1>0, <1>1, <2>2, <3>1
    <3>4. Shown(Scrolled(w), line_start - Cols, line_buf')
      BY <1>0, <2>4, <3>1, <3>3, ShownUp DEF n
    <3> QED
      BY <1>0, <1>1, <2>2, <2>5, <3>2, <3>4
  <2> QED
    BY <2>6, <2>7
<1>3. CASE ~(len < LineMax - 1)
  BY <1>1, <1>3 DEF KeyChar, consoleVars
<1> QED
  BY <1>2, <1>3

\* A backspace at the prompt.
LEMMA ReadyBackspace ==
  ASSUME LineInv, ScreenInv, ReadyInv, Settled, KeyBackspace
  PROVE  ReadyInv'
<1> DEFINE len == Len(line_buf)
<1>0. /\ Size \in Nat /\ len \in Nat
      /\ cursor_pos \in Nat /\ line_start \in Nat /\ vga \in Screen /\ line_buf \in Seq(Chars)
  BY SizeFacts, LenProperties DEF LineInv, ScreenInv
<1>1. /\ cursor_pos = line_start + len /\ Shown(vga, line_start, line_buf)
      /\ hw_cursor = cursor_pos /\ cursor_pos < Size
  BY ReadyShown, NotPending DEF Settled
<1> SUFFICES /\ cursor_pos' = line_start' + Len(line_buf')
             /\ Shown(vga', line_start', line_buf')
             /\ hw_cursor' = cursor_pos'
  BY DEF ReadyInv, Shown
<1>2. CASE len > 0
  <2>1. line_buf' = SubSeq(line_buf, 1, len - 1) /\ console_backspace
    BY <1>2 DEF KeyBackspace
  <2>2. Len(line_buf') = len - 1 /\ \A j \in 1..Len(line_buf') : line_buf'[j] = line_buf[j]
    BY <1>0, <1>2, <2>1, FrontOf
  <2> HIDE DEF len
  <2>3. /\ cursor_pos' = cursor_pos - 1 /\ vga' = Written(vga, cursor_pos - 1, Blank)
        /\ hw_cursor' = cursor_pos' /\ line_start' = line_start
    BY <1>0, <1>1, <1>2, <2>1 DEF console_backspace
  <2>4. Shown(vga, line_start, line_buf')
    <3>1. \A j \in 1..Len(line_buf') : j \in 1..len
      BY <1>0, <2>2
    <3> QED
      BY <1>1, <2>2, <3>1 DEF Shown, len
  <2>5. /\ cursor_pos - 1 \in Nat /\ line_start + Len(line_buf') <= cursor_pos - 1
        /\ line_start + Len(line_buf') <= Size /\ Len(line_buf') \in Nat
    BY <1>0, <1>1, <1>2, <2>2
  <2>6. Shown(Written(vga, cursor_pos - 1, Blank), line_start, line_buf')
    BY <1>0, <2>4, <2>5, ShownKept
  <2> QED
    BY <1>0, <1>1, <2>2, <2>3, <2>6
<1>3. CASE ~(len > 0)
  BY <1>1, <1>3 DEF KeyBackspace, consoleVars
<1> QED
  BY <1>2, <1>3

\* Every step keeps prompt and line on the screen.
LEMMA ReadyStep == ASSUME ShellInv, Next PROVE ReadyInv'
<1> USE DEF ShellInv
<1> SUFFICES ASSUME Settled' PROVE ReadyInv'
  BY DEF ReadyInv
<1> DEFINE n == Len(Prompt)
<1>0. /\ pc \in Int /\ Len(Program) \in Nat /\ pc >= 1
      /\ n \in Nat /\ n >= 1 /\ cursor_pos \in Nat /\ Len(<<>>) = 0
  BY Layout, Texts DEF LineInv, ScreenInv
<1>1. CASE Main
  <2>0. synced' /\ pc' > Len(Program)
    BY DEF Settled, Booted
  <2>1. pc = Len(Program) /\ synced /\ ~Booted
    <3>1. pc <= Len(Program) /\ pc' = pc + 1 /\ synced' = synced
      BY <1>0, <1>1, MainFrame
    <3>2. synced
      BY <2>0, <3>1
    <3> QED
      BY <1>0, <2>0, <3>1, <3>2 DEF Booted
  <2>2. /\ Program[pc] = <<"mark", 0>> /\ At("mark") /\ ~At("scroll")
        /\ pc >= Between /\ pc - Between = 3 * n + 2
    BY <1>0, <2>1, Layout DEF At
  <2>3. MainMark
    BY <1>1, <2>2 DEF Main, MainCursor, MainStart, MainLoad, MainStore, MainScroll, MainLen,
       MainGetMark, Instruction
  <2>4. /\ line_buf = <<>> /\ reg = cursor_pos /\ hw_cursor = cursor_pos
        /\ PromptAt(vga, cursor_pos - ((3 * n + 2) \div 3), ((3 * n + 2) + 1) \div 3)
    BY <2>1, <2>2 DEF QuietInv
  <2>5. (3 * n + 2) \div 3 = n /\ ((3 * n + 2) + 1) \div 3 = n + 1
    BY <1>0, SMT
  <2>6. PromptAt(vga, cursor_pos - n, n)
    BY <1>0, <2>4, <2>5 DEF PromptAt
  <2> QED
    BY <1>0, <2>3, <2>4, <2>6 DEF MainMark, ReadyInv
<1>2. CASE Key
  <2>1. Settled
    BY <1>2, KeyFrame DEF Settled, Booted
  <2>2. ~KeyEnter
    BY DEF Settled, KeyEnter
  <2> QED
    BY <1>2, <2>1, <2>2, ReadyChar, ReadyBackspace DEF Key
<1>3. CASE Command
  <2>1. stage # "none" /\ pc' = pc /\ stage' = "none"
    BY <1>3, CommandFrame DEF Settled
  <2>2. PromptDone
    BY <1>3, <2>1 DEF Command, PutNext, ClearScreen, GuestWrite, CommandDone, shellVars
  <2>3. /\ stage = "prompt" /\ todo = <<>> /\ Booted /\ line_start' = cursor_pos
        /\ UNCHANGED <<vga, cursor_pos, hw_cursor, line_buf>>
    BY <2>1, <2>2 DEF PromptDone, console_mark_line_start, Settled, Booted
  <2>4. /\ line_buf = <<>> /\ PromptAt(vga, cursor_pos - n, n) /\ hw_cursor = cursor_pos
    <3>1. Len(Prompt) - Len(todo) = n /\ n > 0
      BY <1>0, <2>3
    <3> QED
      BY <2>3, <3>1 DEF CommandInv
  <2> QED
    BY <1>0, <2>3, <2>4 DEF ReadyInv
<1> QED
  BY <1>1, <1>2, <1>3 DEF Next

----------------------------------------------------------------------------
(* Theorems *)

\* The machine starts with an empty screen.
LEMMA ShellInit == ASSUME Init PROVE ShellInv
<1>1. /\ Size \in Nat /\ Size >= 2 /\ Len(Program) \in Nat /\ Len(Program) >= 8
      /\ LineMax \in Nat /\ LineMax >= 1 /\ Between \in Nat /\ Between >= 6
  BY SizeFacts, Layout, Texts, ShellAssumption
<1>2. pc = 1 /\ ~At("store") /\ ~At("scroll") /\ ~At("mark") /\ ~Booted
  <2>1. Program[1][1] = "cursor"
    BY Layout
  <2> QED
    BY <1>1, <2>1 DEF Init, At, Booted
<1>3. vga \in Screen
  <2>1. PICK g \in Glyphs : vga = [i \in Cells |-> g]
    BY DEF Init
  <2> QED
    BY <2>1 DEF Screen
<1>4. /\ cursor_pos = 0 /\ line_start = 0 /\ hw_cursor = 0 /\ reg = 0
      /\ line_buf = <<>> /\ todo = <<>> /\ stage = "none" /\ synced = TRUE
  BY DEF Init
<1>5. LineInv
  <2>1. <<>> \in Seq(Chars) /\ <<>> \in Seq(Symbols) /\ Len(<<>>) = 0
    BY EmptySeq
  <2>2. Len(line_buf) < LineMax
    <3>1. Len(line_buf) = 0
      BY <1>4, <2>1, Zenon
    <3> QED
      BY <1>1, <3>1
  <2> QED
    BY <1>1, <1>2, <1>4, <2>1, <2>2 DEF LineInv, Stages
<1>6. ScreenInv
  BY <1>1, <1>2, <1>3, <1>4 DEF ScreenInv
<1>7. CommandInv
  BY <1>4 DEF CommandInv
<1>8. QuietInv
  BY <1>1, <1>2, <1>4 DEF QuietInv
<1>9. ReadyInv
  BY <1>2 DEF ReadyInv, Settled
<1> QED
  BY <1>5, <1>6, <1>7, <1>8, <1>9 DEF ShellInv

\* However keys interleave with kernel_main's instructions, in every state of
\* the shell (shell.c:201-225), its commands and its boot: the invariant holds.
THEOREM ShellInvariant == Spec => []ShellInv
<1>1. Init => ShellInv
  BY ShellInit
<1>2. ShellInv /\ [Next]_vars => ShellInv'
  <2> SUFFICES ASSUME ShellInv, [Next]_vars PROVE ShellInv'
    OBVIOUS
  <2>1. CASE Next
    <3>1. LineInv' /\ ScreenInv'
      BY <2>1, LineStep, ScreenStep DEF ShellInv
    <3>2. CommandInv' /\ QuietInv'
      BY <2>1, CommandStep, QuietStep DEF ShellInv
    <3> QED
      BY <2>1, <3>1, <3>2, ReadyStep DEF ShellInv
  <2>2. CASE UNCHANGED vars
    BY <2>2, Stuttering
  <2> QED
    BY <2>1, <2>2
<1> QED
  BY <1>1, <1>2, PTL DEF Spec

\* Every variable has its type, line_buf's bound among it: shell_input_char never
\* writes past line_buf.
THEOREM ShellTypes == Spec => []TypeOK
<1>1. ShellInv => TypeOK
  <2> SUFFICES ASSUME ShellInv PROVE TypeOK
    OBVIOUS
  <2>1. Size \in Nat
    BY SizeFacts
  <2> QED
    BY <2>1 DEF ShellInv, LineInv, ScreenInv, TypeOK, Symbols
<1> QED
  BY <1>1, ShellInvariant, PTL

\* Once kernel_main is over, cursor_pos and line_start are on the screen between
\* any two keys, those of the boot window included.
THEOREM CursorStaysOnScreen == Spec => []CursorOnScreen
<1>1. ShellInv => CursorOnScreen
  <2> SUFFICES ASSUME ShellInv, Booted PROVE cursor_pos \in Cells /\ line_start \in Cells
    BY DEF CursorOnScreen
  <2>1. Size \in Nat /\ cursor_pos < Size /\ line_start < Size
    BY SizeFacts, NotPending DEF ShellInv
  <2> QED
    BY <2>1 DEF ShellInv, ScreenInv, Cells
<1> QED
  BY <1>1, ShellInvariant, PTL

\* The screen shows line_buf after the prompt, cell by cell, whatever was typed,
\* erased, scrolled away or printed by a command before (console.c, shell.c).
THEOREM EchoAlwaysMatches == Spec => []EchoMatchesLine
<1>1. ShellInv => EchoMatchesLine
  BY DEF ShellInv, ReadyInv, EchoMatchesLine
<1> QED
  BY <1>1, ShellInvariant, PTL

\* The prompt stands complete at the beginning of a row (console_backspace stops
\* at it, scrolling takes it along).
THEOREM PromptStaysIntact == Spec => []PromptIntact
<1>1. ShellInv => PromptIntact
  <2> SUFFICES ASSUME ShellInv, Settled
               PROVE  LET begin == line_start - Len(Prompt)
                      IN  /\ begin \in Cells /\ begin % Cols = 0
                          /\ \A i \in 1..Len(Prompt) : vga[begin + i - 1] = Prompt[i]
    BY DEF PromptIntact
  <2> DEFINE n == Len(Prompt)
             begin == line_start - n
  <2>1. n \in Nat /\ PromptAt(vga, begin, n) /\ Size \in Nat
    BY Texts, SizeFacts DEF ShellInv, ReadyInv
  <2> HIDE DEF begin
  <2>2. /\ begin \in Nat /\ begin < Size /\ Aligned(begin)
        /\ \A i \in 1..n : vga[begin + i - 1] = Prompt[i]
    BY <2>1 DEF PromptAt
  <2>3. begin \in Cells /\ begin % Cols = 0
    BY <2>1, <2>2, AlignedMod DEF Cells
  <2> QED
    BY <2>2, <2>3 DEF begin
<1> QED
  BY <1>1, ShellInvariant, PTL

\* The VGA's cursor is at the end of the line even after a guest moved it
\* (console_set_hw_cursor): the prompt's first character brings it back.
THEOREM HwCursorAlwaysFollows == Spec => []HwCursorFollows
<1>1. ShellInv => HwCursorFollows
  BY DEF ShellInv, ReadyInv, HwCursorFollows
<1> QED
  BY <1>1, ShellInvariant, PTL
=============================================================================
