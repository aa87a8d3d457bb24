-------------------------------- MODULE Args --------------------------------
(***************************************************************************)
(* A command line and its arguments: shell_execute's dispatch, tokenize    *)
(* and parse_number, the number printing of console.c, the comparisons of  *)
(* string.c, and the commands whose arguments matter most, PEEK, POKE,     *)
(* DUMP and C64MEM.  A line is a sequence of characters, those of the line *)
(* buffer up to its terminating zero.                                      *)
(***************************************************************************)
EXTENDS Integers, FiniteSets, SequencesExt

CONSTANTS
  WordDigits,   \* hexadecimal digits of a uint32_t, 8
  GuestDigits,  \* of a uint16_t, 4
  ByteDigits,   \* of a uint8_t, 2
  DecDigits,    \* what console_print_dec's buffer holds, 10
  RowLen,       \* bytes in a row of a dump, 16
  DumpMax, C64MemMax,      \* 256 and 64
  TraceDefault, TraceMax,  \* 30 and 200
  VicRaster, Cia1Prb, PalRasterLines,
  Char,         \* what can be typed and shown
  GuestRam,     \* the guest's memory, which no command here changes
  Lines,        \* bound: the lines that may be entered first, second ...
  MaxCommands   \* bound: how many are entered

Power(base, n) ==
  LET p[k \in Nat] == IF k = 0 THEN 1 ELSE base * p[k - 1] IN p[n]

WordSize  == Power(16, WordDigits)
GuestSize == Power(16, GuestDigits)
ByteSize  == Power(16, ByteDigits)

ASSUME ArgsAssumption ==
  /\ {WordDigits, GuestDigits, ByteDigits, DecDigits, RowLen} \subseteq Nat \ {0}
  /\ {DumpMax, C64MemMax, TraceDefault, TraceMax, MaxCommands} \subseteq Nat
  /\ TraceDefault < WordSize /\ PalRasterLines \in Nat \ {0}
  /\ ByteDigits <= GuestDigits /\ GuestDigits <= WordDigits
  /\ WordSize <= Power(10, DecDigits)
  /\ C64MemMax <= GuestSize
  /\ GuestRam \in [0..(GuestSize - 1) -> 0..(ByteSize - 1)]
  /\ \A n \in 1..MaxCommands : Lines[n] \subseteq Seq(Char)

VARIABLES
  memory,          \* the machine's
  raster_counter,  \* the guest's
  line,            \* history: the line executed last
  reply,           \* what it printed: [kind, texts], texts as characters
  commands         \* history: lines executed

vars == <<memory, raster_counter, line, reply, commands>>

----------------------------------------------------------------------------
(* Characters *)

Lowered == [A |-> "a", B |-> "b", C |-> "c", D |-> "d", E |-> "e", F |-> "f", G |-> "g",
            H |-> "h", I |-> "i", J |-> "j", K |-> "k", L |-> "l", M |-> "m", N |-> "n",
            O |-> "o", P |-> "p", Q |-> "q", R |-> "r", S |-> "s", T |-> "t", U |-> "u",
            V |-> "v", W |-> "w", X |-> "x", Y |-> "y", Z |-> "z"]

lower(c) == IF c \in DOMAIN Lowered THEN Lowered[c] ELSE c

Lower(s) == [k \in DOMAIN s |-> lower(s[k])]

\* k_strcasecmp and k_strncasecmp returning 0; b is lower case, and n its length.
SameWord(a, b) == Lower(a) = b
SameStart(a, b) == IsPrefix(b, Lower(a))

Digits == <<"0", "1", "2", "3", "4", "5", "6", "7", "8", "9", "A", "B", "C", "D", "E", "F">>

ASSUME CharAssumption ==
  /\ {" ", "$"} \subseteq Char /\ {Digits[n] : n \in 1..16} \subseteq Char
  /\ \A c \in DOMAIN Lowered : c \in Char /\ Lowered[c] \in Char

NoDigit == 16
DigitValue(c) ==
  IF \E d \in 0..15 : c \in {Digits[d + 1], lower(Digits[d + 1])}
  THEN CHOOSE d \in 0..15 : c \in {Digits[d + 1], lower(Digits[d + 1])}
  ELSE NoDigit

----------------------------------------------------------------------------
(* parse_number and tokenize *)

Malformed == [ok |-> FALSE, val |-> 0]

\* The loop over the digits, which wraps at the width of a word.
Numeral(s, base) ==
  IF s = <<>> \/ \E k \in DOMAIN s : DigitValue(s[k]) >= base THEN Malformed
  ELSE [ok  |-> TRUE,
        val |-> LET val[k \in Nat] ==
                      IF k = 0 THEN 0
                      ELSE (base * val[k - 1] + DigitValue(s[k])) % WordSize
                IN  val[Len(s)]]

After(s, n) == SubSeq(s, n + 1, Len(s))

\* Mutant: a capital X is not taken for the prefix.
parse_number_small_x(s) ==
  IF IsPrefix(<<"$">>, s) THEN Numeral(After(s, 1), 16)
  ELSE IF IsPrefix(<<"0", "x">>, s) THEN Numeral(After(s, 2), 16)
  ELSE Numeral(s, 10)

parse_number(s) ==
  IF IsPrefix(<<"$">>, s) THEN Numeral(After(s, 1), 16)
  ELSE IF IsPrefix(<<"0", "x">>, Lower(s)) THEN Numeral(After(s, 2), 16)
  ELSE Numeral(s, 10)

Blanks(s)  == {k \in DOMAIN s : s[k] = " "}
Letters(s) == DOMAIN s \ Blanks(s)

\* The first of some places from p on, or the end of the line.
NextPlace(s, p, places) ==
  LET ahead == {k \in places : p <= k}
  IN  IF ahead = {} THEN Len(s) + 1 ELSE CHOOSE k \in ahead : \A q \in ahead : k <= q

\* The place after each token, where its terminating zero goes; the next token
\* begins after the blanks that follow.
PastTokens(s) ==
  LET past[n \in Nat] ==
        IF n = 0 THEN 0 ELSE NextPlace(s, NextPlace(s, past[n - 1] + 1, Letters(s)), Blanks(s))
  IN  past

\* Mutant: blanks before a token are not skipped.
TokenBegin_no_skip(s, n) == PastTokens(s)[n - 1] + 1

TokenBegin(s, n) == NextPlace(s, PastTokens(s)[n - 1] + 1, Letters(s))

\* There is room for four.
tokenize(s) ==
  [n \in 1..Cardinality({k \in 1..4 : TokenBegin(s, k) <= Len(s)}) |->
     SubSeq(s, TokenBegin(s, n), PastTokens(s)[n] - 1)]

----------------------------------------------------------------------------
(* Printing *)

\* The n low digits of val, highest first.
Printed(val, base, n) == [k \in 1..n |-> Digits[((val \div Power(base, n - k)) % base) + 1]]

console_print_hex_w(val, width) == Printed(val, 16, width)
console_print_hex(val) == <<"0", "x">> \o Printed(val, 16, WordDigits)

\* Mutant: a zero is a number without digits.
console_print_dec_no_zero(val) ==
  Printed(val, 10, CHOOSE n \in 0..DecDigits : (n < DecDigits => val < Power(10, n))
                     /\ (n = 0 \/ val >= Power(10, n - 1)))

\* As many digits as it has, and as the buffer holds.
console_print_dec(val) ==
  Printed(val, 10, CHOOSE n \in 1..DecDigits : (n < DecDigits => val < Power(10, n))
                     /\ (n = 1 \/ val >= Power(10, n - 1)))

\* Mutant: a short row stops before its last byte.
RowSize_short(len, first) == IF len - first < RowLen THEN len - first - 1 ELSE RowLen

RowSize(len, first) == IF len - first < RowLen THEN len - first ELSE RowLen

\* The rows of DUMP and C64MEM: an address and up to RowLen of the bytes.
Rows(addr, bytes) ==
  [r \in 1..((Len(bytes) + RowLen - 1) \div RowLen) |->
     LET first == RowLen * (r - 1)
     IN  <<console_print_hex((addr + first) % WordSize)>>
         \o [j \in 1..RowSize(Len(bytes), first) |-> console_print_hex_w(bytes[first + j], ByteDigits)]]

----------------------------------------------------------------------------
(* Commands *)

Says(kind, texts) == reply' = [kind |-> kind, texts |-> texts]

Usage == Says("usage", <<>>) /\ UNCHANGED <<memory, raster_counter>>
Bad   == Says("bad", <<>>) /\ UNCHANGED <<memory, raster_counter>>

cmd_peek(t) ==
  LET addr == parse_number(t[2])
      val  == memory[addr.val]
  IN  IF Len(t) < 2 THEN Usage
      ELSE IF ~addr.ok THEN Bad
      ELSE /\ Says("peek", <<console_print_hex(addr.val), console_print_hex(val), console_print_dec(val)>>)
           /\ UNCHANGED <<memory, raster_counter>>

\* Mutant: the value is not cut to a byte.
cmd_poke_wide(t) ==
  LET addr == parse_number(t[2])
      val  == parse_number(t[3])
  IN  IF Len(t) < 3 THEN Usage
      ELSE IF ~addr.ok \/ ~val.ok THEN Bad
      ELSE /\ memory' = [memory EXCEPT ![addr.val] = val.val]
           /\ Says("poke", <<>>)
           /\ UNCHANGED raster_counter

cmd_poke(t) ==
  LET addr == parse_number(t[2])
      val  == parse_number(t[3])
  IN  IF Len(t) < 3 THEN Usage
      ELSE IF ~addr.ok \/ ~val.ok THEN Bad
      ELSE /\ memory' = [memory EXCEPT ![addr.val] = val.val % ByteSize]
           /\ Says("poke", <<>>)
           /\ UNCHANGED raster_counter

AtMost(n, max) == IF n > max THEN max ELSE n

cmd_dump(t) ==
  LET addr == parse_number(t[2])
      len  == parse_number(t[3])
  IN  IF Len(t) < 3 THEN Usage
      ELSE IF ~addr.ok \/ ~len.ok THEN Bad
      ELSE /\ Says("dump", Rows(addr.val, [k \in 1..AtMost(len.val, DumpMax) |->
                                           memory[(addr.val + k - 1) % WordSize]]))
           /\ UNCHANGED <<memory, raster_counter>>

cpu6502_read(a) ==
  CASE a = VicRaster -> ((raster_counter + 1) % PalRasterLines) % ByteSize
    [] a = Cia1Prb   -> ByteSize - 1
    [] OTHER         -> GuestRam[a]

\* Reading the raster line moves it on first; a dump comes by it once at most.
cmd_c64mem(t) ==
  LET addr == parse_number(t[2])
      len  == parse_number(t[3])
      size == AtMost(len.val, C64MemMax)
      seen == \E a \in addr.val..(addr.val + size - 1) : a % GuestSize = VicRaster
  IN  IF Len(t) < 3 THEN Usage
      ELSE IF ~addr.ok \/ ~len.ok THEN Bad
      ELSE /\ Says("c64mem", Rows(addr.val, [k \in 1..size |-> cpu6502_read((addr.val + k - 1) % GuestSize)]))
           /\ raster_counter' = IF seen THEN (raster_counter + 1) % PalRasterLines ELSE raster_counter
           /\ UNCHANGED memory

\* The steps themselves are modelled in Guest.
cmd_c64trace(t) ==
  LET n == IF Len(t) < 2 THEN [ok |-> TRUE, val |-> TraceDefault] ELSE parse_number(t[2])
  IN  IF ~n.ok THEN Bad
      ELSE /\ Says("trace", <<console_print_dec(AtMost(n.val, TraceMax))>>)
           /\ UNCHANGED <<memory, raster_counter>>

\* What reaches the file system, and the guest's queue.
cmd_type(t) ==
  IF Len(t) < 2 THEN Usage
  ELSE Says("file", <<t[2]>>) /\ UNCHANGED <<memory, raster_counter>>

cmd_c64key(t) ==
  IF Len(t) < 2 \/ t[2] = <<>> THEN Usage
  ELSE Says("key", <<<<t[2][1]>>>>) /\ UNCHANGED <<memory, raster_counter>>

\* The rest of the line, blanks and all, comes from before tokenize.
cmd_c64type(text) == Says("type", <<text>>) /\ UNCHANGED <<memory, raster_counter>>

TypePrefix == <<"c", "6", "4", "t", "y", "p", "e", " ">>

\* The names that shell_execute compares with, which take arguments.
Names == [peek |-> <<"p", "e", "e", "k">>,  poke |-> <<"p", "o", "k", "e">>,
          dump |-> <<"d", "u", "m", "p">>,  file |-> <<"t", "y", "p", "e">>,
          c64mem |-> <<"c", "6", "4", "m", "e", "m">>,
          key    |-> <<"c", "6", "4", "k", "e", "y">>,
          trace  |-> <<"c", "6", "4", "t", "r", "a", "c", "e">>]

\* Those that take none; what they do, and the guest that some of them run, is
\* modelled in the other modules.
Plain == {<<"h", "e", "l", "p">>, <<"c", "l", "e", "a", "r">>, <<"d", "i", "r">>,
          <<"k", "b", "d", "s", "t", "a", "t">>, <<"c", "p", "u", "t", "e", "s", "t">>,
          <<"d", "i", "s", "k", "t", "e", "s", "t">>, <<"c", "6", "4", "b", "o", "o", "t">>,
          <<"c", "6", "4", "e", "n", "t", "e", "r">>, <<"c", "6", "4", "s", "c", "r", "e", "e", "n">>,
          <<"c", "6", "4", "r", "e", "s", "u", "m", "e">>,
          <<"c", "6", "4", "t", "r", "a", "c", "e", "d", "u", "m", "p">>}

shell_execute(s) ==
  LET t == tokenize(s)
      Named(name) == SameWord(t[1], Names[name])
  IN  IF SameStart(s, TypePrefix) THEN cmd_c64type(After(s, 8))
      ELSE IF t = <<>> THEN Says("nothing", <<>>) /\ UNCHANGED <<memory, raster_counter>>
      ELSE \/ Named("trace")  /\ cmd_c64trace(t)
           \/ Named("c64mem") /\ cmd_c64mem(t)
           \/ Named("key")    /\ cmd_c64key(t)
           \/ Named("file")   /\ cmd_type(t)
           \/ Named("peek")   /\ cmd_peek(t)
           \/ Named("poke")   /\ cmd_poke(t)
           \/ Named("dump")   /\ cmd_dump(t)
           \/ /\ \A name \in DOMAIN Names : ~Named(name)
              /\ IF \E name \in Plain : SameWord(t[1], name)
                 THEN Says("plain", <<>>) ELSE Says("unknown", <<t[1]>>)
              /\ UNCHANGED <<memory, raster_counter>>

Init ==
  /\ memory = [a \in 0..(WordSize - 1) |-> 0]
  /\ raster_counter = 0
  /\ line = <<>> /\ reply = [kind |-> "nothing", texts |-> <<>>] /\ commands = 0

Enter ==
  /\ commands < MaxCommands /\ commands' = commands + 1
  /\ \E s \in Lines[commands + 1] : line' = s /\ shell_execute(s)

Next == Enter

Spec == Init /\ [][Next]_vars

----------------------------------------------------------------------------
(* Properties.  Words and numbers once more, as a reader of the help text   *)
(* understands them.                                                        *)

\* The words of a line are its longest runs of characters without a blank.
Starts(s) == {b \in DOMAIN s : s[b] # " " /\ (b = 1 \/ s[b - 1] = " ")}
Ends(s)   == {e \in DOMAIN s : s[e] # " " /\ (e = Len(s) \/ s[e + 1] = " ")}

NumWords(s) == Cardinality(Starts(s))

Nth(set, n) == CHOOSE x \in set : Cardinality({y \in set : y < x}) = n - 1
WordOf(s, n) == SubSeq(s, Nth(Starts(s), n), Nth(Ends(s), n))

\* "Addresses/values: decimal, 0xHEX, or $HEX" (shell.c:114): the set with the
\* number a word stands for, empty if it is none.
Sum(s, base) ==
  LET sum[k \in Nat] ==  \* of the last k digits
        IF k = 0 THEN 0
        ELSE sum[k - 1] + DigitValue(s[Len(s) + 1 - k]) * Power(base, k - 1)
  IN  sum[Len(s)]

StandsFor(s) ==
  LET Begins(p) == IsPrefix(p, s)
      prefix == IF Begins(<<"$">>) THEN 1
                ELSE IF Begins(<<"0", "x">>) \/ Begins(<<"0", "X">>) THEN 2 ELSE 0
      base   == IF prefix = 0 THEN 10 ELSE 16
      digits == SubSeq(s, prefix + 1, Len(s))
  IN  IF digits # <<>> /\ \A k \in DOMAIN digits : DigitValue(digits[k]) < base
      THEN {Sum(digits, base)} ELSE {}

\* The number that the n-th word of the line stands for, as a machine word.
Argument(n) == (CHOOSE v \in StandsFor(WordOf(line, n)) : TRUE) % WordSize

\* Type invariant.
TypeOK ==
  /\ memory \in [0..(WordSize - 1) -> 0..(ByteSize - 1)]
  /\ raster_counter \in 0..(PalRasterLines - 1)
  /\ reply.kind \in {"nothing", "usage", "bad", "peek", "poke", "dump", "c64mem", "trace",
                     "file", "key", "type", "plain", "unknown"}
  /\ \A n \in DOMAIN reply.texts : \A k \in DOMAIN reply.texts[n] :
       reply.texts[n][k] \in IF reply.kind \in {"dump", "c64mem"} THEN Seq(Char) ELSE Char
  /\ commands \in 0..MaxCommands

\* The words that each command's usage text asks for, its name among them
\* (shell.c:120, 141, 156, 202, 329, 423).
Needs == [peek |-> 2, file |-> 2, key |-> 2, poke |-> 3, dump |-> 3, c64mem |-> 3]

\* The line's first word is a name, in letters of either case.
Asked(name) ==
  NumWords(line) # 0 /\ ~SameStart(line, TypePrefix) /\ SameWord(WordOf(line, 1), name)

\* Every command is given the words of its line, however many blanks stand
\* between and around them: the first chooses the command, which is unknown
\* only if no command has that name; its arguments are the next words, and it
\* shows its usage exactly when one that the usage names is missing; C64TYPE
\* alone gets the line as it was typed.
WordsReachCommand ==
  /\ reply.kind \in DOMAIN Names => Asked(Names[reply.kind])
  /\ reply.kind = "plain" <=> \E name \in Plain : Asked(name)
  /\ reply.kind = "unknown" =>
       /\ reply.texts = <<WordOf(line, 1)>>
       /\ \A name \in DOMAIN Names : ~Asked(Names[name])
  /\ reply.kind = "usage" <=>
       \E name \in DOMAIN Needs : Asked(Names[name]) /\ NumWords(line) < Needs[name]
  /\ reply.kind = "file" => reply.texts = <<WordOf(line, 2)>>
  /\ reply.kind = "key" => reply.texts = <<SubSeq(WordOf(line, 2), 1, 1)>>
  /\ reply.kind = "type" => SubSeq(line, 1, 8) \o reply.texts[1] = line
  /\ reply.kind = "nothing" <=> NumWords(line) = 0

\* PEEK prints the address asked for and the byte there, in notations that the
\* shell itself takes for the same numbers; it refuses what is not a number.
NumbersReadBack ==
  /\ reply.kind = "peek" =>
       LET val == {memory[Argument(2)]}
       IN  /\ StandsFor(reply.texts[1]) = {Argument(2)}
           /\ StandsFor(reply.texts[2]) = val /\ StandsFor(reply.texts[3]) = val
           /\ \A n \in 1..3 : {parse_number(reply.texts[n]).val} = StandsFor(reply.texts[n])
  /\ reply.kind = "bad" => \E n \in 2..NumWords(line) : StandsFor(WordOf(line, n)) = {}

\* DUMP and C64MEM show as many bytes as asked for, up to their limit, each the
\* one in memory, every row full but the last, every label the address of the
\* byte beside it, also where the addresses wrap.
DumpShowsMemory ==
  reply.kind \in {"dump", "c64mem"} =>
    LET rows  == reply.texts
        addr  == Argument(2)
        size  == AtMost(Argument(3), IF reply.kind = "dump" THEN DumpMax ELSE C64MemMax)
        Shown(a) == IF reply.kind = "dump" THEN memory[a % WordSize] ELSE GuestRam[a % GuestSize]
        Fixed(a) == reply.kind = "c64mem" /\ a % GuestSize \in {VicRaster, Cia1Prb}
    IN  /\ size = IF rows = <<>> THEN 0
                  ELSE RowLen * (Len(rows) - 1) + Len(rows[Len(rows)]) - 1
        /\ \A r \in DOMAIN rows :
             LET first == addr + RowLen * (r - 1)
             IN  /\ StandsFor(rows[r][1]) = {first % WordSize}
                 /\ r < Len(rows) => Len(rows[r]) = RowLen + 1
                 /\ Len(rows[r]) > 1
                 /\ \A j \in 1..(Len(rows[r]) - 1) :
                      \/ Fixed(first + j - 1)
                      \/ Sum(rows[r][j + 1], 16) = Shown(first + j - 1)

\* A line that reads POKE and two numbers changes the byte it names, to the
\* second number cut to a byte, at the first cut to a word, in any notation and
\* with any blanks; no other line and no other byte changes.
Pokes(s) == /\ NumWords(s) >= 3
            /\ SameWord(WordOf(s, 1), Names.poke)
            /\ StandsFor(WordOf(s, 2)) # {} /\ StandsFor(WordOf(s, 3)) # {}

PokeStores ==
  [][memory' = IF Pokes(line') THEN [memory EXCEPT ![Argument(2)'] = Argument(3)' % ByteSize]
               ELSE memory]_vars
=============================================================================
