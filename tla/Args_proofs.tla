----------------------------- MODULE Args_proofs -----------------------------
(***************************************************************************)
(* Theorems about Args: a command is given the words of its line, numbers  *)
(* are read as what they stand for and printed so that they read back, a   *)
(* dump shows the bytes at its addresses, and only POKE changes memory.    *)
(***************************************************************************)
EXTENDS Args, NatLemmas, FiniteSetTheorems, SequenceTheorems

----------------------------------------------------------------------------
(* The recursive functions of Args *)

\* Powers of a base.
LEMMA Powers ==
  ASSUME NEW b \in Nat \ {0}
  PROVE  /\ Power(b, 0) = 1
         /\ \A n \in Nat : Power(b, n) \in Nat \ {0} /\ Power(b, n + 1) = b * Power(b, n)
<1> DEFINE S == Nat \ {0}
           Is(p) == p = [k \in Nat |-> IF k = 0 THEN 1 ELSE b * p[k - 1]]
           step == [k \in Nat |-> [v \in S |-> b * v]]
<1>1. 1 \in S /\ step \in [Nat -> [S -> S]]
  OBVIOUS
<1>2. PICK g : Recursion(g, S, 1, step)
  <2> HIDE DEF step, S
  <2> QED
    BY <1>1, RecursiveFunction
<1>3. Is(g)
  <2> USE DEF Recursion
  <2>1. ASSUME NEW k \in Nat PROVE g[k] = IF k = 0 THEN 1 ELSE b * g[k - 1]
    <3>1. k # 0 => k - 1 \in Nat /\ g[k - 1] \in S
      BY <1>2
    <3> QED
      BY <1>2, <3>1
  <2> QED
    BY <1>2, <2>1
<1> DEFINE p == CHOOSE p : Is(p)
<1>4. Is(p)
  BY <1>3
<1>5. \A n : Power(b, n) = p[n]
  BY DEF Power
<1> HIDE DEF p
<1>6. p[0] = 1 /\ \A k \in Nat : p[k + 1] = b * p[k]
  <2>1. \A k \in Nat : k + 1 \in Nat /\ k + 1 # 0 /\ (k + 1) - 1 = k
    OBVIOUS
  <2> QED
    BY <1>4, <2>1
<1>7. \A n \in Nat : p[n] \in S
  <2> DEFINE T == {n \in Nat : p[n] \in S}
  <2>1. 0 \in T
    BY <1>6
  <2>2. ASSUME NEW n \in T PROVE n + 1 \in T
    <3> DEFINE v == p[n]
    <3>1. v \in Nat \ {0} /\ p[n + 1] = b * v
      BY <1>6
    <3> HIDE DEF v
    <3>2. b * v \in Nat \ {0}
      BY <3>1, ProductsGrow
    <3> QED
      BY <3>1, <3>2
  <2>3. T \subseteq Nat
    OBVIOUS
  <2> HIDE DEF T
  <2>4. T = Nat
    BY <2>1, <2>2, <2>3, NatSetInduction
  <2> QED
    BY <2>4 DEF T
<1> QED
  BY <1>5, <1>6, <1>7

\* The constants, and the sizes of the numbers of so many digits.
LEMMA Sizes ==
  /\ WordSize \in Nat \ {0} /\ GuestSize \in Nat \ {0} /\ ByteSize \in Nat \ {0}
  /\ WordDigits \in Nat \ {0} /\ GuestDigits \in Nat \ {0} /\ ByteDigits \in Nat \ {0}
  /\ DecDigits \in Nat \ {0} /\ RowLen \in Nat \ {0}
<1>1. /\ WordDigits \in Nat \ {0} /\ GuestDigits \in Nat \ {0} /\ ByteDigits \in Nat \ {0}
      /\ DecDigits \in Nat \ {0} /\ RowLen \in Nat \ {0}
  BY ArgsAssumption
<1>2. \A n \in Nat : Power(16, n) \in Nat \ {0}
  BY Powers
<1> QED
  BY <1>1, <1>2 DEF WordSize, GuestSize, ByteSize

\* What is no digit counts as 16.
LEMMA DigitIsSmall == ASSUME NEW c PROVE DigitValue(c) \in 0..16
BY DEF DigitValue, NoDigit

\* The loop of parse_number.
Loops(val, s, base) ==
  /\ val \in [Nat -> Nat] /\ val[0] = 0
  /\ \A k \in Nat : k # 0 => val[k] = (base * val[k - 1] + DigitValue(s[k])) % WordSize

\* What parse_number takes for digits.
WellFormed(s, base) == s # <<>> /\ \A k \in DOMAIN s : DigitValue(s[k]) < base

\* Numeral is that loop, which there always is.
LEMMA NumeralLoops ==
  ASSUME NEW base \in Nat, NEW s
  PROVE  \E val : /\ Loops(val, s, base)
                  /\ Numeral(s, base) = IF WellFormed(s, base)
                                        THEN [ok |-> TRUE, val |-> val[Len(s)]] ELSE Malformed
<1> DEFINE Is(val) == val = [k \in Nat |->
                               IF k = 0 THEN 0
                               ELSE (base * val[k - 1] + DigitValue(s[k])) % WordSize]
           step == [k \in Nat |-> [v \in Nat |-> (base * v + DigitValue(s[k])) % WordSize]]
<1>1. ASSUME NEW k \in Nat, NEW v \in Nat PROVE (base * v + DigitValue(s[k])) % WordSize \in Nat
  <2>1. base * v + DigitValue(s[k]) \in Nat
    BY DigitIsSmall
  <2> QED
    BY <2>1, Sizes
<1>2. 0 \in Nat /\ step \in [Nat -> [Nat -> Nat]]
  BY <1>1
<1>3. PICK g : Recursion(g, Nat, 0, step)
  <2> HIDE DEF step
  <2> QED
    BY <1>2, RecursiveFunction
<1>4. ASSUME NEW k \in Nat
      PROVE  g[k] = IF k = 0 THEN 0 ELSE (base * g[k - 1] + DigitValue(s[k])) % WordSize
  <2>1. k # 0 => k - 1 \in Nat /\ g[k - 1] \in Nat
    BY <1>3 DEF Recursion
  <2> QED
    BY <1>3, <2>1 DEF Recursion
<1>5. Is(g)
  BY <1>3, <1>4 DEF Recursion
<1> DEFINE val == CHOOSE val : Is(val)
<1>6. Is(val)
  BY <1>5
<1>7. Numeral(s, base) = IF WellFormed(s, base)
                         THEN [ok |-> TRUE, val |-> val[Len(s)]] ELSE Malformed
  <2>1. WellFormed(s, base) <=> ~(s = <<>> \/ \E k \in DOMAIN s : DigitValue(s[k]) >= base)
    BY DigitIsSmall DEF WellFormed
  <2> QED
    BY <2>1 DEF Numeral
<1> HIDE DEF val
<1>8. val \in [Nat -> Nat]
  <2> DEFINE T == {k \in Nat : val[k] \in Nat}
  <2>1. 0 \in T
    BY <1>6
  <2>2. ASSUME NEW k \in T PROVE k + 1 \in T
    <3>1. k + 1 \in Nat /\ k + 1 # 0 /\ (k + 1) - 1 = k
      OBVIOUS
    <3>2. val[k + 1] = (base * val[k] + DigitValue(s[k + 1])) % WordSize
      BY <1>6, <3>1
    <3> QED
      BY <1>1, <3>1, <3>2
  <2>3. T \subseteq Nat
    OBVIOUS
  <2> HIDE DEF T
  <2>4. T = Nat
    BY <2>1, <2>2, <2>3, NatSetInduction
  <2>5. val = [k \in Nat |-> val[k]]
    BY <1>6
  <2> QED
    BY <2>4, <2>5 DEF T
<1> QED
  BY <1>6, <1>7, <1>8 DEF Loops

\* The sum of digits by place, from the last one.
Adds(sum, s, base) ==
  /\ sum \in [Nat -> Nat] /\ sum[0] = 0
  /\ \A k \in Nat :
       k # 0 => sum[k] = sum[k - 1] + DigitValue(s[Len(s) + 1 - k]) * Power(base, k - 1)

\* Sum is the last of such sums, which there always are.
LEMMA SumAdds ==
  ASSUME NEW base \in Nat \ {0}, NEW s
  PROVE  \E sum : Adds(sum, s, base) /\ Sum(s, base) = sum[Len(s)]
<1> DEFINE d(k) == DigitValue(s[Len(s) + 1 - k]) * Power(base, k - 1)
           Is(sum) == sum = [k \in Nat |-> IF k = 0 THEN 0 ELSE sum[k - 1] + d(k)]
           step == [k \in Nat |-> [v \in Nat |-> IF k = 0 THEN 0 ELSE v + d(k)]]
<1>1. ASSUME NEW k \in Nat, k # 0 PROVE d(k) \in Nat
  <2>1. k - 1 \in Nat
    BY <1>1
  <2>2. Power(base, k - 1) \in Nat
    BY <2>1, Powers
  <2>3. DigitValue(s[Len(s) + 1 - k]) \in Nat
    BY DigitIsSmall
  <2> QED
    BY <2>2, <2>3
<1> DEFINE sum == CHOOSE sum : Is(sum)
<1>2. Sum(s, base) = sum[Len(s)]
  BY DEF Sum
<1> HIDE DEF d
<1>3. 0 \in Nat /\ step \in [Nat -> [Nat -> Nat]]
  BY <1>1
<1>4. PICK g : Recursion(g, Nat, 0, step)
  <2> HIDE DEF step
  <2> QED
    BY <1>3, RecursiveFunction
<1>5. ASSUME NEW k \in Nat PROVE g[k] = IF k = 0 THEN 0 ELSE g[k - 1] + d(k)
  <2>1. k # 0 => k - 1 \in Nat /\ g[k - 1] \in Nat
    BY <1>4 DEF Recursion
  <2> QED
    BY <1>4, <2>1 DEF Recursion
<1>6. Is(g)
  BY <1>4, <1>5 DEF Recursion
<1>7. Is(sum)
  BY <1>6
<1> HIDE DEF sum
<1>8. sum \in [Nat -> Nat]
  <2> DEFINE T == {k \in Nat : sum[k] \in Nat}
  <2>1. 0 \in T
    BY <1>7
  <2>2. ASSUME NEW k \in T PROVE k + 1 \in T
    <3>1. k + 1 \in Nat /\ k + 1 # 0 /\ (k + 1) - 1 = k
      OBVIOUS
    <3>2. sum[k + 1] = sum[k] + d(k + 1)
      BY <1>7, <3>1
    <3> QED
      BY <1>1, <3>1, <3>2
  <2>3. T \subseteq Nat
    OBVIOUS
  <2> HIDE DEF T
  <2>4. T = Nat
    BY <2>1, <2>2, <2>3, NatSetInduction
  <2>5. sum = [k \in Nat |-> sum[k]]
    BY <1>7
  <2> QED
    BY <2>4, <2>5 DEF T
<1> QED
  BY <1>2, <1>7, <1>8 DEF Adds, d

\* The first place from p on, or the end.
LEMMA NextPlaceIs ==
  ASSUME NEW s, Len(s) \in Nat, DOMAIN s = 1..Len(s), NEW p \in Nat,
         NEW places, places \subseteq DOMAIN s, NEW q, q = NextPlace(s, p, places)
  PROVE  /\ q \in 1..(Len(s) + 1)
         /\ \A k \in places : p <= k => q <= k
         /\ q # Len(s) + 1 => q \in places /\ p <= q
<1> DEFINE ahead == {k \in places : p <= k}
<1>1. CASE ahead = {}
  BY <1>1 DEF NextPlace
<1>2. CASE ahead # {}
  <2>1. ahead \subseteq Nat
    OBVIOUS
  <2>2. \E k \in ahead : \A x \in ahead : k <= x
    <3> HIDE DEF ahead
    <3> QED
      BY <1>2, <2>1, NatLeast
  <2>3. q \in ahead /\ \A x \in ahead : q <= x
    BY <1>2, <2>2 DEF NextPlace
  <2> QED
    BY <2>3
<1> QED
  BY <1>1, <1>2

\* Blanks and letters are places of the line.
LEMMA PlacesOfLine ==
  ASSUME NEW s \in Seq(Char)
  PROVE  /\ Len(s) \in Nat /\ DOMAIN s = 1..Len(s)
         /\ Blanks(s) \subseteq DOMAIN s /\ Letters(s) \subseteq DOMAIN s
<1>1. Len(s) \in Nat /\ DOMAIN s = 1..Len(s)
  OBVIOUS
<1> QED
  BY <1>1 DEF Blanks, Letters

\* The loop of tokenize.
Splits(past, s) ==
  /\ past \in [Nat -> Nat] /\ past[0] = 0
  /\ \A n \in Nat :
       n # 0 => past[n] = NextPlace(s, NextPlace(s, past[n - 1] + 1, Letters(s)), Blanks(s))

\* PastTokens is such a function.
LEMMA PastSplits ==
  ASSUME NEW s \in Seq(Char)
  PROVE  Splits(PastTokens(s), s)
<1> DEFINE f(p) == NextPlace(s, NextPlace(s, p + 1, Letters(s)), Blanks(s))
           Is(past) == past = [n \in Nat |-> IF n = 0 THEN 0 ELSE f(past[n - 1])]
           step == [n \in Nat |-> [v \in Nat |-> f(v)]]
           past == PastTokens(s)
<1>1. ASSUME NEW v \in Nat PROVE f(v) \in Nat
  <2>1. NextPlace(s, v + 1, Letters(s)) \in Nat
    BY PlacesOfLine, NextPlaceIs
  <2> QED
    BY <2>1, PlacesOfLine, NextPlaceIs
<1>2. past = CHOOSE t : Is(t)
  BY DEF PastTokens
<1> HIDE DEF f, past
<1>3. 0 \in Nat /\ step \in [Nat -> [Nat -> Nat]]
  BY <1>1
<1>4. PICK g : Recursion(g, Nat, 0, step)
  <2> HIDE DEF step
  <2> QED
    BY <1>3, RecursiveFunction
<1>5. ASSUME NEW k \in Nat PROVE g[k] = IF k = 0 THEN 0 ELSE f(g[k - 1])
  <2>1. k # 0 => k - 1 \in Nat /\ g[k - 1] \in Nat
    BY <1>4 DEF Recursion
  <2> QED
    BY <1>4, <2>1 DEF Recursion
<1>6. Is(g)
  BY <1>4, <1>5 DEF Recursion
<1>7. Is(past)
  BY <1>2, <1>6
<1>8. past \in [Nat -> Nat]
  <2> DEFINE T == {k \in Nat : past[k] \in Nat}
  <2>1. 0 \in T
    BY <1>7
  <2>2. ASSUME NEW k \in T PROVE k + 1 \in T
    <3>1. k + 1 \in Nat /\ k + 1 # 0 /\ (k + 1) - 1 = k
      OBVIOUS
    <3>2. past[k + 1] = f(past[k])
      BY <1>7, <3>1
    <3> QED
      BY <1>1, <3>1, <3>2
  <2>3. T \subseteq Nat
    OBVIOUS
  <2> HIDE DEF T
  <2>4. T = Nat
    BY <2>1, <2>2, <2>3, NatSetInduction
  <2>5. past = [k \in Nat |-> past[k]]
    BY <1>7
  <2>6. \A k \in Nat : past[k] \in Nat
    BY <2>4 DEF T
  <2> QED
    BY <2>5, <2>6
<1> QED
  BY <1>7, <1>8 DEF Splits, f, past

----------------------------------------------------------------------------
(* Tokens are the words of a line *)

\* Where the n-th token is.
LEMMA TokenPlace ==
  ASSUME NEW s \in Seq(Char), NEW n \in Nat \ {0},
         NEW a, a = PastTokens(s)[n - 1],
         NEW b, b = TokenBegin(s, n), NEW p, p = PastTokens(s)[n]
  PROVE  /\ a \in Nat /\ b \in 1..(Len(s) + 1) /\ p \in 1..(Len(s) + 1)
         /\ \A k \in 1..Len(s) : a < k /\ k < b => k \in Blanks(s)
         /\ \A k \in 1..Len(s) : b <= k /\ k < p => k \in Letters(s)
         /\ b <= Len(s) => b \in Letters(s) /\ a < b /\ b < p
         /\ b = Len(s) + 1 => p = Len(s) + 1
         /\ p <= Len(s) => p \in Blanks(s)
<1>1. Splits(PastTokens(s), s) /\ n - 1 \in Nat
  BY PastSplits
<1>2. /\ Len(s) \in Nat /\ DOMAIN s = 1..Len(s)
      /\ Blanks(s) \subseteq DOMAIN s /\ Letters(s) \subseteq DOMAIN s
  BY PlacesOfLine
<1>3. a \in Nat /\ b = NextPlace(s, a + 1, Letters(s)) /\ p = NextPlace(s, b, Blanks(s))
  BY <1>1 DEF Splits, TokenBegin
<1>4. /\ b \in 1..(Len(s) + 1)
      /\ \A k \in Letters(s) : a + 1 <= k => b <= k
      /\ b # Len(s) + 1 => b \in Letters(s) /\ a + 1 <= b
  BY <1>2, <1>3, NextPlaceIs
<1>5. /\ p \in 1..(Len(s) + 1)
      /\ \A k \in Blanks(s) : b <= k => p <= k
      /\ p # Len(s) + 1 => p \in Blanks(s) /\ b <= p
  BY <1>2, <1>3, <1>4, NextPlaceIs
<1>6. \A k \in 1..Len(s) : (k \in Letters(s)) <=> (k \notin Blanks(s))
  BY <1>2 DEF Letters
<1>7. ASSUME b <= Len(s) PROVE b < p
  <2>1. b \in Letters(s) /\ b \notin Blanks(s)
    BY <1>2, <1>4, <1>6, <1>7
  <2>2. CASE p = Len(s) + 1
    BY <1>2, <1>4, <1>7, <2>2
  <2>3. CASE p # Len(s) + 1
    BY <1>2, <1>4, <1>5, <2>1, <2>3
  <2> QED
    BY <2>2, <2>3
<1>8. \A k \in 1..Len(s) : a < k /\ k < b => k \in Blanks(s)
  BY <1>2, <1>3, <1>4, <1>6
<1>9. \A k \in 1..Len(s) : b <= k /\ k < p => k \in Letters(s)
  BY <1>2, <1>4, <1>5, <1>6
<1>10. b = Len(s) + 1 => p = Len(s) + 1
  BY <1>2, <1>4, <1>5
<1>11. b <= Len(s) => b \in Letters(s) /\ a < b /\ b < p
  BY <1>2, <1>3, <1>4, <1>7
<1>12. p <= Len(s) => p \in Blanks(s)
  BY <1>2, <1>5
<1> QED
  BY <1>3, <1>4, <1>5, <1>8, <1>9, <1>10, <1>11, <1>12

\* No place after a token is in it.
LEMMA PastIsNoLetter ==
  ASSUME NEW s \in Seq(Char), NEW n \in Nat
  PROVE  /\ PastTokens(s)[n] \in 0..(Len(s) + 1)
         /\ PastTokens(s)[n] = 0 \/ PastTokens(s)[n] > Len(s) \/ PastTokens(s)[n] \in Blanks(s)
<1>1. Len(s) \in Nat
  OBVIOUS
<1>2. CASE n = 0
  BY <1>1, <1>2, PastSplits DEF Splits
<1>3. CASE n # 0
  <2> DEFINE p == PastTokens(s)[n]
  <2>1. p \in 1..(Len(s) + 1) /\ (p <= Len(s) => p \in Blanks(s))
    BY <1>3, TokenPlace
  <2> HIDE DEF p
  <2>2. p \in 0..(Len(s) + 1) /\ (p = 0 \/ p > Len(s) \/ p \in Blanks(s))
    BY <1>1, <2>1
  <2> QED
    BY <2>2 DEF p
<1> QED
  BY <1>2, <1>3

\* The words that begin, and those that end, up to a place.
StartsTo(s, p) == {y \in Starts(s) : y <= p}
EndsTo(s, p)   == {y \in Ends(s) : y <= p}

\* Starts and ends by letters.
LEMMA StartsAndEnds ==
  ASSUME NEW s \in Seq(Char)
  PROVE  /\ Starts(s) = {b \in Letters(s) : b = 1 \/ b - 1 \in Blanks(s)}
         /\ Ends(s) = {e \in Letters(s) : e = Len(s) \/ e + 1 \in Blanks(s)}
<1> DEFINE N == Len(s)
<1>1. N \in Nat /\ DOMAIN s = 1..N
  OBVIOUS
<1> HIDE DEF N
<1>2. ASSUME NEW b \in 1..N, b # 1 PROVE b - 1 \in 1..N
  BY <1>1, <1>2
<1>3. ASSUME NEW e \in 1..N, e # N PROVE e + 1 \in 1..N
  BY <1>1, <1>3
<1>4. Starts(s) = {b \in Letters(s) : b = 1 \/ b - 1 \in Blanks(s)}
  BY <1>1, <1>2 DEF Starts, Letters, Blanks
<1>5. Ends(s) = {e \in Letters(s) : e = N \/ e + 1 \in Blanks(s)}
  BY <1>1, <1>3 DEF Ends, Letters, Blanks, N
<1> QED
  BY <1>4, <1>5 DEF N

\* The token from b to p - 1, if there is one, adds a word to those up to a.
AddsWord(s, a, b, p) ==
  /\ b > Len(s) => StartsTo(s, p) = StartsTo(s, a) /\ EndsTo(s, p) = EndsTo(s, a)
  /\ b <= Len(s) => /\ StartsTo(s, p) = StartsTo(s, a) \cup {b}
                    /\ EndsTo(s, p) = EndsTo(s, a) \cup {p - 1}
                    /\ b \in Starts(s) /\ b \notin StartsTo(s, a)
                    /\ p - 1 \in Ends(s) /\ p - 1 \notin EndsTo(s, a)
                    /\ StartsTo(s, a) = {y \in Starts(s) : y < b}
                    /\ EndsTo(s, a) = {y \in Ends(s) : y < p - 1}

\* Between the ends of two tokens one word starts and one ends, if there is one.
LEMMA TokenAddsWord ==
  ASSUME NEW s \in Seq(Char), NEW n \in Nat \ {0},
         NEW a, a = PastTokens(s)[n - 1],
         NEW b, b = TokenBegin(s, n), NEW p, p = PastTokens(s)[n]
  PROVE  AddsWord(s, a, b, p)
<1> USE DEF AddsWord
<1> DEFINE L == Letters(s)
           E == Blanks(s)
           N == Len(s)
<1>1. /\ N \in Nat /\ L \subseteq 1..N /\ E \subseteq 1..N
      /\ \A k \in 1..N : (k \in L) <=> (k \notin E)
  BY PlacesOfLine DEF Letters
<1>2. /\ Starts(s) = {k \in L : k = 1 \/ k - 1 \in E}
      /\ Ends(s) = {k \in L : k = N \/ k + 1 \in E}
  BY StartsAndEnds
<1>3. /\ a \in Nat /\ b \in 1..(N + 1) /\ p \in 1..(N + 1)
      /\ \A k \in 1..N : a < k /\ k < b => k \in E
      /\ \A k \in 1..N : b <= k /\ k < p => k \in L
      /\ b <= N => b \in L /\ a < b /\ b < p
      /\ b = N + 1 => p = N + 1
      /\ p <= N => p \in E
  BY TokenPlace
<1>4. a = 0 \/ a > N \/ a \in E
  BY PastIsNoLetter
<1>5. Starts(s) \subseteq L /\ Ends(s) \subseteq L
  BY <1>2
<1> HIDE DEF L, E, N
<1>6. CASE b > N
  <2>1. b = N + 1 /\ p = N + 1
    BY <1>1, <1>3, <1>6
  <2>2. \A k \in L : k <= a /\ k <= p
    BY <1>1, <1>3, <2>1
  <2>3. StartsTo(s, p) = StartsTo(s, a) /\ EndsTo(s, p) = EndsTo(s, a)
    BY <1>5, <2>2 DEF StartsTo, EndsTo
  <2> QED
    BY <1>1, <1>6, <2>3, <2>1 DEF N
<1>7. CASE b <= N
  <2>1. /\ b \in L /\ a < b /\ b < p /\ a <= N
        /\ N \in Nat /\ a \in Nat /\ b \in Nat /\ p \in Nat
    BY <1>1, <1>3, <1>7
  <2>2. b \in Starts(s)
    <3>1. b = 1 \/ (b - 1 \in 1..N /\ a < b - 1) \/ b - 1 = a
      BY <1>1, <1>3, <2>1
    <3>2. b = 1 \/ b - 1 \in E
      BY <1>1, <1>3, <1>4, <2>1, <3>1
    <3> QED
      BY <1>2, <2>1, <3>2
  <2>3. p - 1 \in Ends(s) /\ a < p - 1
    <3>1. p - 1 \in 1..N /\ b <= p - 1 /\ p - 1 < p /\ (p - 1) + 1 = p
      BY <1>1, <1>3, <2>1
    <3>2. p - 1 \in L /\ (p - 1 = N \/ p \in E)
      BY <1>1, <1>3, <3>1
    <3> QED
      BY <1>2, <2>1, <1>3, <3>1, <3>2
  <2>4. ASSUME NEW y \in Starts(s) PROVE y \in 1..N /\ (y <= a \/ y = b \/ y > p)
    <3>1. y \in L /\ y \in 1..N /\ y \notin E
      BY <1>1, <1>2
    <3>2. ~(a < y /\ y < b)
      BY <1>3, <3>1
    <3>3. ~(b < y /\ y < p)
      <4> SUFFICES ASSUME b < y, y < p PROVE FALSE
        OBVIOUS
      <4>1. y - 1 \in 1..N /\ b <= y - 1 /\ y - 1 < p /\ y # 1
        BY <1>1, <1>3, <3>1
      <4>2. y - 1 \in L
        BY <1>3, <4>1
      <4>3. y - 1 \in E
        BY <1>2, <4>1
      <4> QED
        BY <1>1, <4>1, <4>2, <4>3
    <3>4. y # p
      BY <1>1, <1>3, <3>1
    <3> QED
      BY <2>1, <3>1, <3>2, <3>3, <3>4
  <2>5. ASSUME NEW y \in Ends(s) PROVE y \in 1..N /\ (y <= a \/ y = p - 1 \/ y > p)
    <3>1. y \in L /\ y \in 1..N /\ y \notin E
      BY <1>1, <1>2
    <3>2. ~(a < y /\ y < b)
      BY <1>3, <3>1
    <3>3. ~(b <= y /\ y < p - 1)
      <4> SUFFICES ASSUME b <= y, y < p - 1 PROVE FALSE
        OBVIOUS
      <4>1. y + 1 \in 1..N /\ b <= y + 1 /\ y + 1 < p /\ y # N
        BY <1>1, <1>3, <3>1
      <4>2. y + 1 \in L
        BY <1>3, <4>1
      <4>3. y + 1 \in E
        BY <1>2, <4>1
      <4> QED
        BY <1>1, <4>1, <4>2, <4>3
    <3>4. y # p
      BY <1>1, <1>3, <3>1
    <3> QED
      BY <2>1, <3>1, <3>2, <3>3, <3>4
  <2>6. StartsTo(s, p) = StartsTo(s, a) \cup {b} /\ b \notin StartsTo(s, a)
    <3>1. ASSUME NEW y \in Starts(s) PROVE (y <= p) <=> (y <= a \/ y = b)
      BY <2>1, <2>4
    <3>2. ~(b <= a)
      BY <2>1
    <3> QED
      BY <2>2, <3>1, <3>2 DEF StartsTo
  <2>7. EndsTo(s, p) = EndsTo(s, a) \cup {p - 1} /\ p - 1 \notin EndsTo(s, a)
    BY <2>1, <2>3, <2>5 DEF EndsTo
  <2>8. StartsTo(s, a) = {y \in Starts(s) : y < b}
    BY <2>1, <2>4 DEF StartsTo
  <2>9. EndsTo(s, a) = {y \in Ends(s) : y < p - 1}
    BY <2>1, <2>3, <2>5 DEF EndsTo
  <2> QED
    BY <1>1, <1>3, <1>7, <2>2, <2>3, <2>6, <2>7, <2>8, <2>9 DEF N
<1> QED
  BY <1>1, <1>3, <1>6, <1>7

\* As many words as tokens begin and end up to the place after a token.
LEMMA WordsCounted ==
  ASSUME NEW s \in Seq(Char), NEW n \in Nat
  PROVE  LET p == PastTokens(s)[n]
             S == Cardinality(StartsTo(s, p))
             E == Cardinality(EndsTo(s, p))
         IN  /\ S \in 0..n /\ E \in 0..n
             /\ n # 0 /\ TokenBegin(s, n) <= Len(s) => S = n /\ E = n
             /\ n # 0 /\ TokenBegin(s, n) > Len(s) => S < n
<1> DEFINE P(k) == PastTokens(s)[k]
           B(k) == TokenBegin(s, k)
           N == Len(s)
           S(k) == Cardinality(StartsTo(s, P(k)))
           E(k) == Cardinality(EndsTo(s, P(k)))
           T == {k \in Nat : /\ S(k) \in 0..k /\ E(k) \in 0..k
                             /\ k # 0 /\ B(k) <= N => S(k) = k /\ E(k) = k
                             /\ k # 0 /\ B(k) > N => S(k) < k}
<1>1. N \in Nat /\ DOMAIN s = 1..N
  OBVIOUS
<1>2. Starts(s) \subseteq 1..N /\ Ends(s) \subseteq 1..N
  BY <1>1 DEF Starts, Ends
<1>3. \A p : IsFiniteSet(StartsTo(s, p)) /\ IsFiniteSet(EndsTo(s, p))
  <2>1. IsFiniteSet(1..N)
    BY <1>1, FS_Interval
  <2>2. \A p : StartsTo(s, p) \subseteq 1..N /\ EndsTo(s, p) \subseteq 1..N
    BY <1>2 DEF StartsTo, EndsTo
  <2> QED
    BY <2>1, <2>2, FS_Subset
<1>4. 0 \in T
  <2>1. P(0) = 0
    BY PastSplits DEF Splits
  <2>2. StartsTo(s, 0) = {} /\ EndsTo(s, 0) = {}
    BY <1>1, <1>2 DEF StartsTo, EndsTo
  <2>3. S(0) = 0 /\ E(0) = 0
    BY <2>1, <2>2, FS_EmptySet
  <2> HIDE DEF S, E
  <2> QED
    BY <2>3
<1>5. ASSUME NEW k \in T PROVE k + 1 \in T
  <2>1. k \in Nat /\ k + 1 \in Nat \ {0} /\ (k + 1) - 1 = k
    OBVIOUS
  <2> DEFINE a == P(k)
             b == B(k + 1)
             p == P(k + 1)
  <2>2. /\ a \in Nat /\ b \in 1..(N + 1) /\ p \in 1..(N + 1) /\ (b <= N => a < b)
    BY <2>1, TokenPlace
  <2>3. /\ b > N => StartsTo(s, p) = StartsTo(s, a) /\ EndsTo(s, p) = EndsTo(s, a)
        /\ b <= N => /\ StartsTo(s, p) = StartsTo(s, a) \cup {b}
                     /\ EndsTo(s, p) = EndsTo(s, a) \cup {p - 1}
                     /\ b \notin StartsTo(s, a) /\ p - 1 \notin EndsTo(s, a)
    <3> DEFINE m == k + 1
    <3>1. m \in Nat \ {0} /\ a = PastTokens(s)[m - 1] /\ b = TokenBegin(s, m) /\ p = PastTokens(s)[m]
      BY <2>1
    <3> HIDE DEF a, b, p, m
    <3>2. AddsWord(s, a, b, p)
      BY <3>1, TokenAddsWord
    <3> QED
      BY <3>2 DEF AddsWord
  <2>4. k # 0 /\ B(k) > N => a = N + 1
    <3> SUFFICES ASSUME k # 0, B(k) > N PROVE a = N + 1
      OBVIOUS
    <3>1. B(k) \in 1..(N + 1) /\ (B(k) = N + 1 => a = N + 1)
      BY <2>1, TokenPlace
    <3> HIDE DEF B, N
    <3> QED
      BY <1>1, <3>1
  <2>5. /\ S(k) \in 0..k /\ E(k) \in 0..k
        /\ k # 0 /\ B(k) <= N => S(k) = k /\ E(k) = k
    OBVIOUS
  <2>6. b > N => S(k + 1) = S(k) /\ E(k + 1) = E(k)
    BY <2>3
  <2>7. b <= N => S(k + 1) = S(k) + 1 /\ E(k + 1) = E(k) + 1
    BY <1>3, <2>3, FS_AddElement
  <2>8. B(k) \in Int \/ k = 0
    BY <2>1, TokenPlace
  <2> HIDE DEF S, E, N, a
  <2>9. b <= N => S(k) = k /\ E(k) = k
    <3> HIDE DEF B
    <3> QED
      BY <1>1, <2>1, <2>2, <2>4, <2>5, <2>8
  <2>10. b <= N => S(k + 1) = k + 1 /\ E(k + 1) = k + 1
    BY <2>7, <2>9
  <2>11. b > N => S(k + 1) \in 0..k /\ E(k + 1) \in 0..k
    BY <2>5, <2>6
  <2>12. b <= N \/ b > N
    BY <1>1, <2>2
  <2> QED
    BY <2>1, <2>10, <2>11, <2>12
<1> HIDE DEF P, B, N, S, E
<1>6. T \subseteq Nat
  OBVIOUS
<1>7. T = Nat
  <2> HIDE DEF T
  <2> QED
    BY <1>4, <1>5, <1>6, NatSetInduction
<1>8. /\ S(n) \in 0..n /\ E(n) \in 0..n
      /\ n # 0 /\ B(n) <= N => S(n) = n /\ E(n) = n
      /\ n # 0 /\ B(n) > N => S(n) < n
  BY <1>7
<1> QED
  BY <1>8 DEF P, B, N, S, E

\* The element with n - 1 others below it is the n-th.
LEMMA NthIs ==
  ASSUME NEW set, set \subseteq Nat, IsFiniteSet(set), NEW n \in Nat, NEW x \in set,
         Cardinality({y \in set : y < x}) = n - 1
  PROVE  Nth(set, n) = x
<1> DEFINE Below(z) == {y \in set : y < z}
<1>1. ASSUME NEW z \in set, NEW w \in set, z < w
      PROVE  Cardinality(Below(z)) # Cardinality(Below(w))
  <2>1. IsFiniteSet(Below(z)) /\ IsFiniteSet(Below(w))
    <3>1. Below(z) \subseteq set /\ Below(w) \subseteq set
      OBVIOUS
    <3> HIDE DEF Below
    <3> QED
      BY <3>1, FS_Subset
  <2>2. Below(z) \subseteq Below(w) /\ z \in Below(w) /\ z \notin Below(z)
    <3>1. z \in Nat /\ w \in Nat /\ \A y \in set : y \in Nat
      OBVIOUS
    <3>2. \A y \in set : y < z => y < w
      BY <1>1, <3>1
    <3>4. Below(z) \subseteq Below(w)
      BY <3>2
    <3>3. z \in Below(w) /\ z \notin Below(z)
      BY <1>1, <3>1
    <3> QED
      BY <3>3, <3>4
  <2> HIDE DEF Below
  <2>3. Cardinality(Below(z)) = Cardinality(Below(w)) => Below(z) = Below(w)
    BY <2>1, <2>2, FS_Subset
  <2> QED
    BY <2>2, <2>3
<1>2. ASSUME NEW z \in set, Cardinality(Below(z)) = n - 1 PROVE z = x
  <2>1. z = x \/ z < x \/ x < z
    OBVIOUS
  <2>2. Cardinality(Below(x)) = n - 1
    OBVIOUS
  <2> HIDE DEF Below
  <2> QED
    BY <1>1, <1>2, <2>1, <2>2
<1>3. Nth(set, n) = CHOOSE z \in set : Cardinality(Below(z)) = n - 1
  BY DEF Nth
<1>4. Cardinality(Below(x)) = n - 1
  OBVIOUS
<1> HIDE DEF Below
<1> QED
  BY <1>2, <1>3, <1>4

\* There is an n-th token exactly if there is an n-th word.
LEMMA TokenIffWord ==
  ASSUME NEW s \in Seq(Char), NEW n \in Nat \ {0}
  PROVE  NumWords(s) \in Nat /\ ((TokenBegin(s, n) <= Len(s)) <=> (n <= NumWords(s)))
<1> DEFINE p == PastTokens(s)[n]
           b == TokenBegin(s, n)
           N == Len(s)
           S == Cardinality(StartsTo(s, p))
<1>1. N \in Nat /\ DOMAIN s = 1..N
  OBVIOUS
<1>2. IsFiniteSet(Starts(s)) /\ Starts(s) \subseteq 1..N
  <2>1. Starts(s) \subseteq 1..N
    BY <1>1 DEF Starts
  <2> HIDE DEF N
  <2> QED
    BY <1>1, <2>1, FS_Interval, FS_Subset
<1>3. NumWords(s) \in Nat /\ S <= NumWords(s)
  <2>1. StartsTo(s, p) \subseteq Starts(s)
    BY DEF StartsTo
  <2> HIDE DEF p
  <2> QED
    BY <1>2, <2>1, FS_Subset, FS_CardinalityType DEF NumWords
<1>4. b \in 1..(N + 1) /\ (b = N + 1 => p = N + 1)
  BY TokenPlace
<1>5. S \in 0..n /\ (b <= N => S = n) /\ (b > N => S < n)
  BY WordsCounted
<1>6. p = N + 1 => S = NumWords(s)
  <2> SUFFICES ASSUME p = N + 1 PROVE S = NumWords(s)
    OBVIOUS
  <2> HIDE DEF p, N
  <2>1. StartsTo(s, p) = Starts(s)
    BY <1>1, <1>2 DEF StartsTo
  <2> QED
    BY <2>1 DEF NumWords
<1> HIDE DEF p, b, N, S
<1>7. NumWords(s) \in Nat /\ ((b <= N) <=> (n <= NumWords(s)))
  BY <1>1, <1>3, <1>4, <1>5, <1>6
<1> QED
  BY <1>7 DEF b, N

\* The n-th word is the n-th token.
LEMMA WordIs ==
  ASSUME NEW s \in Seq(Char), NEW n \in Nat \ {0}, n <= NumWords(s)
  PROVE  WordOf(s, n) = SubSeq(s, TokenBegin(s, n), PastTokens(s)[n] - 1)
<1> DEFINE a == PastTokens(s)[n - 1]
           p == PastTokens(s)[n]
           b == TokenBegin(s, n)
           N == Len(s)
<1>1. N \in Nat /\ DOMAIN s = 1..N /\ b <= N
  BY TokenIffWord
<1>2. /\ Starts(s) \subseteq Nat /\ IsFiniteSet(Starts(s))
      /\ Ends(s) \subseteq Nat /\ IsFiniteSet(Ends(s))
      /\ \A y \in Starts(s) \cup Ends(s) : ~(y <= 0)
  <2>1. Starts(s) \subseteq 1..N /\ Ends(s) \subseteq 1..N
    BY <1>1 DEF Starts, Ends
  <2> HIDE DEF N
  <2>2. IsFiniteSet(Starts(s)) /\ IsFiniteSet(Ends(s))
    BY <1>1, <2>1, FS_Interval, FS_Subset
  <2>3. \A y \in 1..N : y \in Nat /\ ~(y <= 0)
    BY <1>1
  <2> QED
    BY <2>1, <2>2, <2>3
<1>3. /\ b \in Starts(s) /\ StartsTo(s, a) = {y \in Starts(s) : y < b}
      /\ p - 1 \in Ends(s) /\ EndsTo(s, a) = {y \in Ends(s) : y < p - 1}
  <2> HIDE DEF a, p, b, N
  <2>1. a = PastTokens(s)[n - 1] /\ b = TokenBegin(s, n) /\ p = PastTokens(s)[n] /\ b <= Len(s)
    BY <1>1 DEF a, b, p, N
  <2>2. AddsWord(s, a, b, p)
    BY <2>1, TokenAddsWord
  <2> QED
    BY <2>1, <2>2 DEF AddsWord
<1>4. Cardinality(StartsTo(s, a)) = n - 1 /\ Cardinality(EndsTo(s, a)) = n - 1
  <2>1. CASE n = 1
    <3>1. PastTokens(s)[0] = 0
      BY PastSplits DEF Splits
    <3>2. StartsTo(s, 0) = {} /\ EndsTo(s, 0) = {}
      BY <1>2 DEF StartsTo, EndsTo
    <3>3. a = 0
      BY <2>1, <3>1
    <3> HIDE DEF a
    <3>4. Cardinality({}) = n - 1
      BY <2>1, FS_EmptySet
    <3> QED
      BY <3>2, <3>3, <3>4
  <2>2. CASE n # 1
    <3>1. n - 1 \in Nat \ {0} /\ n - 1 \in Nat
      BY <2>2
    <3>2. n - 1 <= NumWords(s)
      BY TokenIffWord
    <3>3. TokenBegin(s, n - 1) <= Len(s)
      BY <3>1, <3>2, TokenIffWord
    <3> QED
      BY <3>1, <3>3, WordsCounted
  <2> QED
    BY <2>1, <2>2
<1> HIDE DEF a, b, p, N
<1>5. Nth(Starts(s), n) = b
  BY <1>2, <1>3, <1>4, NthIs
<1>6. Nth(Ends(s), n) = p - 1
  BY <1>2, <1>3, <1>4, NthIs
<1> QED
  BY <1>5, <1>6 DEF WordOf, b, p

\* A command is given the words of its line, the first four.
LEMMA TokensAreWords ==
  ASSUME NEW s \in Seq(Char), NEW t, t = tokenize(s)
  PROVE  /\ NumWords(s) \in Nat
         /\ t \in Seq(Seq(Char) \ {<<>>})
         /\ Len(t) = IF NumWords(s) < 4 THEN NumWords(s) ELSE 4
         /\ \A n \in 1..Len(t) : t[n] = WordOf(s, n) /\ n <= NumWords(s)
<1> DEFINE C == {k \in 1..4 : TokenBegin(s, k) <= Len(s)}
           W == NumWords(s)
           m == IF W < 4 THEN W ELSE 4
           word(n) == SubSeq(s, TokenBegin(s, n), PastTokens(s)[n] - 1)
<1>1. W \in Nat /\ m \in 0..4
  <2>1. W \in Nat
    BY TokenIffWord
  <2> HIDE DEF W
  <2> QED
    BY <2>1
<1>2. C = 1..m
  <2>1. \A k \in 1..4 : (TokenBegin(s, k) <= Len(s)) <=> (k <= W)
    BY TokenIffWord
  <2> HIDE DEF W
  <2> QED
    BY <1>1, <2>1
<1> HIDE DEF W
<1>3. Cardinality(C) = m
  <2> HIDE DEF C, m
  <2> QED
    <3>1. 1 \in Int /\ m \in Int
      BY <1>1
    <3>2. Cardinality(1..m) = IF 1 > m THEN 0 ELSE m - 1 + 1
      BY <3>1, FS_Interval
    <3> QED
      BY <1>1, <1>2, <3>2
<1>4. t = [n \in 1..m |-> word(n)]
  <2> HIDE DEF m
  <2> QED
    BY <1>3 DEF tokenize
<1>5. ASSUME NEW n \in 1..m PROVE n \in Nat \ {0} /\ n <= W /\ word(n) = WordOf(s, n)
  <2>1. n \in Nat \ {0} /\ n <= W
    BY <1>1
  <2> QED
    BY <2>1, WordIs DEF W
<1>6. ASSUME NEW n \in 1..m PROVE word(n) \in Seq(Char) \ {<<>>}
  <2> DEFINE b == TokenBegin(s, n)
             e == PastTokens(s)[n] - 1
  <2>1. Len(s) \in Nat /\ n \in Nat \ {0} /\ b <= Len(s)
    BY <1>5, TokenIffWord DEF W
  <2>2. b \in 1..Len(s) /\ e \in b..Len(s)
    BY <2>1, TokenPlace
  <2> HIDE DEF b, e
  <2>3. SubSeq(s, b, e) \in Seq(Char) /\ Len(SubSeq(s, b, e)) = e - b + 1
    BY <2>1, <2>2
  <2>4. SubSeq(s, b, e) # <<>>
    BY <2>1, <2>2, <2>3
  <2> QED
    BY <2>3, <2>4 DEF b, e
<1> HIDE DEF m, word
<1>7. t \in Seq(Seq(Char) \ {<<>>}) /\ Len(t) = m
  BY <1>1, <1>4, <1>6
<1> QED
  BY <1>1, <1>4, <1>5, <1>7 DEF W, m

----------------------------------------------------------------------------
(* Numbers *)

\* What the loop of parse_number computes is the sum of the digits by place, up
\* to the width of a word.
LEMMA LoopIsSum ==
  ASSUME NEW base \in Nat \ {0}, NEW s, Len(s) \in Nat,
         NEW val, Loops(val, s, base), NEW sum, Adds(sum, s, base)
  PROVE  val[Len(s)] = sum[Len(s)] % WordSize
<1> DEFINE N == Len(s)
           W == WordSize
           P(k) == Power(base, k)
           d(k) == DigitValue(s[k])
<1>1. N \in Nat /\ W \in Nat \ {0} /\ P(0) = 1 /\ \A k \in Nat : d(k) \in Nat
  <2>1. P(0) = 1
    BY Powers
  <2>2. \A k \in Nat : d(k) \in Nat
    BY DigitIsSmall
  <2> QED
    BY <2>1, <2>2, Sizes
<1>2. \A k \in Nat : P(k) \in Nat \ {0} /\ P(k + 1) = base * P(k)
  BY Powers
<1>3. /\ val[0] = 0 /\ \A k \in Nat : val[k] \in Nat
      /\ \A k \in Nat : k # 0 => val[k] = (base * val[k - 1] + d(k)) % W
  BY DEF Loops
<1>4. /\ sum[0] = 0 /\ \A k \in Nat : sum[k] \in Nat
      /\ \A k \in Nat : k # 0 => sum[k] = sum[k - 1] + d(N + 1 - k) * P(k - 1)
  BY DEF Adds
<1> DEFINE T == {k \in Nat : k <= N =>
                   \E q \in Int : sum[N] = val[k] * P(N - k) + sum[N - k] + q * W}
<1> HIDE DEF P, d, N, W
<1>5. 0 \in T
  <2>1. N - 0 = N /\ sum[N] \in Nat /\ P(N) \in Nat
    BY <1>1, <1>2, <1>4
  <2>2. val[0] * P(N - 0) = 0 /\ 0 * W = 0
    BY <1>1, <1>3, <2>1
  <2>3. sum[N] = val[0] * P(N - 0) + sum[N - 0] + 0 * W
    BY <2>1, <2>2
  <2> QED
    BY <2>3
<1>6. ASSUME NEW k \in T PROVE k + 1 \in T
  <2> SUFFICES ASSUME k + 1 <= N
               PROVE  \E q \in Int : sum[N] = val[k + 1] * P(N - (k + 1)) + sum[N - (k + 1)] + q * W
    OBVIOUS
  <2> DEFINE j == N - (k + 1)
             v == val[k]
             u == val[k + 1]
             c == d(k + 1)
             p == P(j)
             r == (base * v + c) \div W
  <2>1. k \in Nat /\ j \in Nat /\ N - k = j + 1 /\ N + 1 - (j + 1) = k + 1
    BY <1>1
  <2>2. PICK q \in Int : sum[N] = v * P(j + 1) + sum[j + 1] + q * W
    BY <1>1, <2>1
  <2>3. P(j + 1) = base * p /\ p \in Nat
    BY <1>2, <2>1
  <2>4. sum[j + 1] = sum[j] + c * p /\ sum[j] \in Nat
    <3>1. j + 1 \in Nat /\ j + 1 # 0 /\ (j + 1) - 1 = j
      BY <2>1
    <3> QED
      BY <1>4, <2>1, <3>1
  <2>5. v \in Nat /\ u \in Nat /\ c \in Nat
    <3>1. k \in Nat /\ k + 1 \in Nat
      BY <2>1
    <3> QED
      BY <1>1, <1>3, <3>1
  <2>6. u = (base * v + c) % W
    <3>1. k + 1 \in Nat /\ k + 1 # 0 /\ (k + 1) - 1 = k
      BY <2>1
    <3> QED
      BY <1>3, <3>1
  <2>7. base * v + c \in Nat /\ base * v \in Nat
    BY <2>5
  <2>8. r \in Nat /\ base * v + c = W * r + u
    BY <1>1, <2>6, <2>7, Division
  <2> HIDE DEF j, v, u, c, p, r
  <2>9. (base * v + c) * p = (W * r + u) * p
    BY <2>8
  <2>10. (base * v + c) * p = v * (base * p) + c * p
    BY <2>3, <2>5
  <2>11. (W * r + u) * p = u * p + (r * p) * W
    BY <1>1, <2>3, <2>5, <2>8
  <2>12. (r * p) * W + q * W = (r * p + q) * W /\ r * p + q \in Int
    BY <1>1, <2>3, <2>8
  <2>13. /\ v * (base * p) \in Int /\ c * p \in Int /\ u * p \in Int
         /\ (r * p) * W \in Int /\ q * W \in Int /\ (r * p + q) * W \in Int
    BY <1>1, <2>3, <2>5, <2>8
  <2>14. sum[N] = v * (base * p) + (sum[j] + c * p) + q * W
    BY <2>2, <2>3, <2>4
  <2>15. v * (base * p) + c * p = u * p + (r * p) * W
    BY <2>9, <2>10, <2>11
  <2>16. sum[N] = u * p + sum[j] + (r * p + q) * W
    <3> DEFINE x == sum[N]
               y == sum[j]
               e1 == v * (base * p)
               e2 == c * p
               e3 == u * p
               e4 == (r * p) * W
               e5 == q * W
               e6 == (r * p + q) * W
    <3>1. /\ e1 \in Int /\ e2 \in Int /\ e3 \in Int /\ e4 \in Int /\ e5 \in Int /\ e6 \in Int
          /\ x = e1 + (y + e2) + e5 /\ e1 + e2 = e3 + e4 /\ e4 + e5 = e6
      BY <2>12, <2>13, <2>14, <2>15
    <3>2. x \in Nat
      BY <1>1, <1>4
    <3>3. y \in Nat
      BY <2>4
    <3> HIDE DEF x, y, e1, e2, e3, e4, e5, e6
    <3>4. x = e3 + y + e6
      BY <3>1, <3>2, <3>3
    <3> QED
      BY <3>4 DEF x, y, e3, e6
  <2> QED
    BY <2>12, <2>16 DEF j, u, p
<1>7. T \subseteq Nat
  OBVIOUS
<1>8. N \in T
  <2> HIDE DEF T
  <2> QED
    BY <1>1, <1>5, <1>6, <1>7, NatSetInduction
<1>9. PICK q \in Int : sum[N] = val[N] * P(N - N) + sum[N - N] + q * W
  BY <1>1, <1>8
<1>10. sum[N] = W * q + val[N] /\ sum[N] \in Nat /\ val[N] \in Nat
  <2>1. N - N = 0 /\ val[N] \in Nat /\ sum[N] \in Nat
    BY <1>1, <1>3, <1>4
  <2>2. sum[N] = val[N] * 1 + 0 + q * W
    BY <1>1, <1>4, <1>9, <2>1
  <2>3. q * W = W * q /\ W * q \in Int
    BY <1>1, Products
  <2> QED
    BY <2>1, <2>2, <2>3
<1>11. val[N] \in 0..(W - 1)
  <2>1. CASE N = 0
    <3>1. val[N] = 0
      BY <1>3, <2>1
    <3> QED
      BY <1>1, <3>1
  <2>2. CASE N # 0
    <3> DEFINE x == base * val[N - 1] + d(N)
    <3>1. N - 1 \in Nat /\ x \in Nat
      <4>1. N - 1 \in Nat /\ d(N) \in Nat
        BY <1>1, <2>2
      <4>2. val[N - 1] \in Nat
        BY <1>3, <4>1
      <4> QED
        BY <4>1, <4>2
    <3>2. val[N] = x % W
      BY <1>1, <1>3, <2>2
    <3> HIDE DEF x
    <3> QED
      BY <1>1, <3>1, <3>2, Division
  <2> QED
    BY <2>1, <2>2
<1>12. sum[N] % W = val[N]
  BY <1>1, <1>10, <1>11, DivisionUnique
<1> QED
  BY <1>12 DEF N, W

----------------------------------------------------------------------------
(* Characters and prefixes *)

\* The cases of the characters that matter.
LEMMA LowerCases ==
  ASSUME NEW c
  PROVE  /\ c \in Char => lower(c) \in Char
         /\ (lower(c) = "0") <=> (c = "0")
         /\ (lower(c) = "x") <=> (c \in {"x", "X"})
         /\ (lower(c) = "c") <=> (c \in {"c", "C"})
         /\ (lower(c) = " ") <=> (c = " ")
<1> DEFINE Capitals == {"A", "B", "C", "D", "E", "F", "G", "H", "I", "J", "K", "L", "M",
                        "N", "O", "P", "Q", "R", "S", "T", "U", "V", "W", "X", "Y", "Z"}
<1>1. DOMAIN Lowered = Capitals
  BY DEF Lowered
<1>2. CASE c \in Capitals
  <2>1. lower(c) = Lowered[c]
    BY <1>1, <1>2 DEF lower
  <2>2. /\ Lowered["A"] = "a" /\ Lowered["B"] = "b" /\ Lowered["C"] = "c" /\ Lowered["D"] = "d"
        /\ Lowered["E"] = "e" /\ Lowered["F"] = "f" /\ Lowered["G"] = "g" /\ Lowered["H"] = "h"
        /\ Lowered["I"] = "i" /\ Lowered["J"] = "j" /\ Lowered["K"] = "k" /\ Lowered["L"] = "l"
        /\ Lowered["M"] = "m" /\ Lowered["N"] = "n" /\ Lowered["O"] = "o" /\ Lowered["P"] = "p"
        /\ Lowered["Q"] = "q" /\ Lowered["R"] = "r" /\ Lowered["S"] = "s" /\ Lowered["T"] = "t"
        /\ Lowered["U"] = "u" /\ Lowered["V"] = "v" /\ Lowered["W"] = "w" /\ Lowered["X"] = "x"
        /\ Lowered["Y"] = "y" /\ Lowered["Z"] = "z"
    BY DEF Lowered
  <2>3. /\ Lowered[c] \in Char /\ Lowered[c] \notin {"0", " "} /\ c \notin {"0", " ", "x", "c"}
        /\ (Lowered[c] = "x") <=> (c = "X")
        /\ (Lowered[c] = "c") <=> (c = "C")
    <3>1. Lowered[c] \in Char /\ Lowered[c] \notin {"0", " "}
      <4>1. Lowered[c] \in Char
        BY <1>1, <1>2, CharAssumption
      <4>2. Lowered[c] \notin {"0", " "}
        BY <1>2, <2>2
      <4> QED
        BY <4>1, <4>2
    <3>2. c \notin {"0", " ", "x", "c"}
      BY <1>2
    <3>3. (Lowered[c] = "x") <=> (c = "X")
      BY <1>2, <2>2
    <3>4. (Lowered[c] = "c") <=> (c = "C")
      BY <1>2, <2>2
    <3> QED
      BY <3>1, <3>2, <3>3, <3>4
  <2> QED
    BY <2>1, <2>3
<1>3. CASE c \notin Capitals
  <2>1. lower(c) = c
    BY <1>1, <1>3 DEF lower
  <2> QED
    BY <1>3, <2>1
<1> QED
  BY <1>2, <1>3

\* A line in lower case is as long.
LEMMA LowerIs ==
  ASSUME NEW s \in Seq(Char)
  PROVE  /\ Lower(s) \in Seq(Char) /\ Len(Lower(s)) = Len(s)
         /\ \A k \in 1..Len(s) : Lower(s)[k] = lower(s[k])
<1>1. Len(s) \in Nat /\ DOMAIN s = 1..Len(s) /\ \A k \in 1..Len(s) : s[k] \in Char
  OBVIOUS
<1>2. \A k \in 1..Len(s) : lower(s[k]) \in Char
  BY <1>1, LowerCases
<1>3. Lower(s) = [k \in 1..Len(s) |-> lower(s[k])]
  BY <1>1 DEF Lower
<1> QED
  BY <1>1, <1>2, <1>3

\* A prefix, character by character.
LEMMA PrefixIs ==
  ASSUME NEW p \in Seq(Char), NEW s \in Seq(Char)
  PROVE  IsPrefix(p, s) <=> (Len(p) <= Len(s) /\ \A k \in 1..Len(p) : s[k] = p[k])
<1>1. Len(p) \in Nat /\ Len(s) \in Nat
  OBVIOUS
<1>2. CASE Len(p) <= Len(s)
  <2>1. /\ SubSeq(p, 1, Len(p)) \in Seq(Char) /\ Len(SubSeq(p, 1, Len(p))) = Len(p)
        /\ \A k \in 1..Len(p) : SubSeq(p, 1, Len(p))[k] = p[k]
    BY <1>1
  <2>2. /\ SubSeq(s, 1, Len(p)) \in Seq(Char) /\ Len(SubSeq(s, 1, Len(p))) = Len(p)
        /\ \A k \in 1..Len(p) : SubSeq(s, 1, Len(p))[k] = s[k]
    BY <1>1, <1>2
  <2>3. (SubSeq(p, 1, Len(p)) = SubSeq(s, 1, Len(p))) <=> (\A k \in 1..Len(p) : s[k] = p[k])
    BY <1>1, <2>1, <2>2
  <2> QED
    BY <1>2, <2>3 DEF IsPrefix
<1>3. CASE ~(Len(p) <= Len(s))
  BY <1>3 DEF IsPrefix
<1> QED
  BY <1>2, <1>3

----------------------------------------------------------------------------
(* parse_number reads what a word stands for *)

\* A numeral is read as its sum by place, cut to a word.
LEMMA NumeralIsSum ==
  ASSUME NEW base \in Nat \ {0}, NEW s \in Seq(Char)
  PROVE  /\ Sum(s, base) \in Nat
         /\ Numeral(s, base) = IF WellFormed(s, base)
                               THEN [ok |-> TRUE, val |-> Sum(s, base) % WordSize] ELSE Malformed
<1>1. Len(s) \in Nat
  OBVIOUS
<1>2. PICK val : /\ Loops(val, s, base)
                 /\ Numeral(s, base) = IF WellFormed(s, base)
                                       THEN [ok |-> TRUE, val |-> val[Len(s)]] ELSE Malformed
  BY NumeralLoops
<1>3. PICK sum : Adds(sum, s, base) /\ Sum(s, base) = sum[Len(s)]
  BY SumAdds
<1>4. val[Len(s)] = sum[Len(s)] % WordSize
  BY <1>1, <1>2, <1>3, LoopIsSum
<1>5. sum[Len(s)] \in Nat
  BY <1>1, <1>3 DEF Adds
<1> QED
  BY <1>2, <1>3, <1>4, <1>5

\* The prefixes of a number.
LEMMA NumberPrefixes ==
  ASSUME NEW s \in Seq(Char)
  PROVE  /\ IsPrefix(<<"$">>, s) <=> (Len(s) >= 1 /\ s[1] = "$")
         /\ (IsPrefix(<<"0", "x">>, s) \/ IsPrefix(<<"0", "X">>, s))
              <=> (Len(s) >= 2 /\ s[1] = "0" /\ s[2] \in {"x", "X"})
         /\ IsPrefix(<<"0", "x">>, Lower(s))
              <=> (Len(s) >= 2 /\ s[1] = "0" /\ s[2] \in {"x", "X"})
<1>1. {"$", "0", "x", "X"} \subseteq Char
  <2>1. "X" \in DOMAIN Lowered /\ Lowered["X"] = "x" /\ Digits[1] = "0"
    BY DEF Lowered, Digits
  <2>2. "X" \in Char /\ "x" \in Char /\ "$" \in Char
    BY <2>1, CharAssumption
  <2>3. "0" \in {Digits[n] : n \in 1..16}
    BY <2>1
  <2> QED
    BY <2>2, <2>3, CharAssumption
<1>2. /\ <<"$">> \in Seq(Char) /\ <<"0", "x">> \in Seq(Char) /\ <<"0", "X">> \in Seq(Char)
      /\ Lower(s) \in Seq(Char) /\ Len(s) \in Nat
  BY <1>1, LowerIs
<1>3. IsPrefix(<<"$">>, s) <=> (Len(s) >= 1 /\ s[1] = "$")
  <2>1. IsPrefix(<<"$">>, s) <=> (1 <= Len(s) /\ \A k \in 1..1 : s[k] = <<"$">>[k])
    BY <1>2, PrefixIs
  <2> QED
    BY <1>2, <2>1
<1>4. ASSUME NEW x, x \in Char, NEW w \in Seq(Char)
      PROVE  IsPrefix(<<"0", x>>, w) <=> (2 <= Len(w) /\ w[1] = "0" /\ w[2] = x)
  <2>1. <<"0", x>> \in Seq(Char) /\ Len(<<"0", x>>) = 2
    BY <1>1, <1>4
  <2>2. IsPrefix(<<"0", x>>, w) <=> (2 <= Len(w) /\ \A k \in 1..2 : w[k] = <<"0", x>>[k])
    BY <2>1, PrefixIs
  <2> QED
    BY <2>2
<1>5. IsPrefix(<<"0", "x">>, Lower(s)) <=> (2 <= Len(s) /\ lower(s[1]) = "0" /\ lower(s[2]) = "x")
  <2>1. IsPrefix(<<"0", "x">>, Lower(s)) <=> (2 <= Len(Lower(s)) /\ Lower(s)[1] = "0" /\ Lower(s)[2] = "x")
    BY <1>1, <1>2, <1>4
  <2> QED
    BY <1>2, <2>1, LowerIs
<1>6. (lower(s[1]) = "0") <=> (s[1] = "0")
  BY LowerCases
<1>7. (lower(s[2]) = "x") <=> (s[2] \in {"x", "X"})
  BY LowerCases
<1>8. /\ IsPrefix(<<"0", "x">>, s) <=> (2 <= Len(s) /\ s[1] = "0" /\ s[2] = "x")
      /\ IsPrefix(<<"0", "X">>, s) <=> (2 <= Len(s) /\ s[1] = "0" /\ s[2] = "X")
  BY <1>1, <1>4
<1> QED
  BY <1>2, <1>3, <1>5, <1>6, <1>7, <1>8

\* What follows the prefix, and its base.
LEMMA NumberIs ==
  ASSUME NEW s \in Seq(Char)
  PROVE  \E d \in Seq(Char), base \in {10, 16} :
           /\ StandsFor(s) = IF WellFormed(d, base) THEN {Sum(d, base)} ELSE {}
           /\ parse_number(s) = Numeral(d, base)
           /\ ~(Len(s) >= 1 /\ s[1] = "$") /\ ~(Len(s) >= 2 /\ s[2] \in {"x", "X"}) => d = s /\ base = 10
           /\ Len(s) >= 2 /\ s[1] = "0" /\ s[2] = "x" => d = After(s, 2) /\ base = 16
<1> DEFINE A == Len(s) >= 1 /\ s[1] = "$"
           B == Len(s) >= 2 /\ s[1] = "0" /\ s[2] \in {"x", "X"}
           prefix == IF A THEN 1 ELSE IF B THEN 2 ELSE 0
           base == IF prefix = 0 THEN 10 ELSE 16
           d == SubSeq(s, prefix + 1, Len(s))
<1>1. /\ IsPrefix(<<"$">>, s) <=> A
      /\ (IsPrefix(<<"0", "x">>, s) \/ IsPrefix(<<"0", "X">>, s)) <=> B
      /\ IsPrefix(<<"0", "x">>, Lower(s)) <=> B
  <2>1. IsPrefix(<<"$">>, s) <=> A
    BY NumberPrefixes
  <2>2. (IsPrefix(<<"0", "x">>, s) \/ IsPrefix(<<"0", "X">>, s)) <=> B
    BY NumberPrefixes
  <2>3. IsPrefix(<<"0", "x">>, Lower(s)) <=> B
    BY NumberPrefixes
  <2> QED
    BY <2>1, <2>2, <2>3
<1>2. StandsFor(s) = IF WellFormed(d, base) THEN {Sum(d, base)} ELSE {}
  <2> HIDE DEF A, B
  <2> QED
    BY <1>1 DEF StandsFor, WellFormed
<1>3. Len(s) \in Nat /\ prefix \in 0..2 /\ prefix <= Len(s)
  OBVIOUS
<1>4. d \in Seq(Char) /\ (prefix = 0 => d = s)
  <2> HIDE DEF prefix
  <2>1. d \in Seq(Char)
    BY <1>3
  <2>2. SubSeq(s, 1, Len(s)) = s
    BY <1>3
  <2> QED
    BY <2>1, <2>2
<1>5. parse_number(s) = Numeral(d, base)
  <2> HIDE DEF A, B
  <2> QED
    BY <1>1, <1>4 DEF parse_number, After
<1>6. base \in {10, 16}
  OBVIOUS
<1>7. Len(s) >= 2 /\ s[1] = "0" /\ s[2] = "x" => d = After(s, 2) /\ base = 16
  BY DEF After
<1>8. ~(Len(s) >= 1 /\ s[1] = "$") /\ ~(Len(s) >= 2 /\ s[2] \in {"x", "X"}) => d = s /\ base = 10
  BY <1>4
<1> HIDE DEF d, base
<1> QED
  BY <1>2, <1>4, <1>5, <1>6, <1>7, <1>8

\* A number is read, up to the width of a word, exactly if there is one.
LEMMA NumberRead ==
  ASSUME NEW s \in Seq(Char), NEW n, n = parse_number(s)
  PROVE  /\ n.ok \in BOOLEAN /\ n.val \in 0..(WordSize - 1)
         /\ n.ok <=> StandsFor(s) # {}
         /\ n.ok => \E v \in Nat : StandsFor(s) = {v} /\ n.val = v % WordSize
<1>1. PICK d \in Seq(Char), base \in {10, 16} :
        /\ StandsFor(s) = IF WellFormed(d, base) THEN {Sum(d, base)} ELSE {}
        /\ n = Numeral(d, base)
  BY NumberIs
<1>2. base \in Nat \ {0}
  OBVIOUS
<1>3. /\ Sum(d, base) \in Nat
      /\ n = IF WellFormed(d, base) THEN [ok |-> TRUE, val |-> Sum(d, base) % WordSize] ELSE Malformed
  BY <1>1, <1>2, NumeralIsSum
<1>4. Sum(d, base) % WordSize \in 0..(WordSize - 1) /\ 0 \in 0..(WordSize - 1)
  <2> DEFINE x == Sum(d, base)
             W == WordSize
  <2>1. x \in Nat /\ W \in Nat \ {0}
    BY <1>3, Sizes
  <2> HIDE DEF x, W
  <2>2. x % W \in 0..(W - 1) /\ 0 \in 0..(W - 1)
    BY <2>1, Division
  <2> QED
    BY <2>2 DEF x, W
<1>5. CASE WellFormed(d, base)
  <2>1. n.ok /\ n.val = Sum(d, base) % WordSize /\ StandsFor(s) = {Sum(d, base)} /\ n.ok \in BOOLEAN
    BY <1>1, <1>3, <1>5
  <2> QED
    BY <1>3, <1>4, <2>1
<1>6. CASE ~WellFormed(d, base)
  BY <1>1, <1>3, <1>4, <1>6 DEF Malformed
<1> QED
  BY <1>5, <1>6

----------------------------------------------------------------------------
(* What is printed can be read *)

\* The sixteen digits.
LEMMA DigitsAre ==
  /\ Digits[1] = "0" /\ Digits[2] = "1" /\ Digits[3] = "2" /\ Digits[4] = "3"
  /\ Digits[5] = "4" /\ Digits[6] = "5" /\ Digits[7] = "6" /\ Digits[8] = "7"
  /\ Digits[9] = "8" /\ Digits[10] = "9" /\ Digits[11] = "A" /\ Digits[12] = "B"
  /\ Digits[13] = "C" /\ Digits[14] = "D" /\ Digits[15] = "E" /\ Digits[16] = "F"
BY DEF Digits

\* A digit has the value it was printed for, and is no letter of a prefix.
LEMMA DigitReadsBack ==
  ASSUME NEW v \in 0..15
  PROVE  /\ DigitValue(Digits[v + 1]) = v /\ Digits[v + 1] \in Char
         /\ Digits[v + 1] \notin {"$", "x", "X"}
<1> DEFINE Smalls == {"a", "b", "c", "d", "e", "f"}
           D(d) == Digits[d + 1]
<1>1. \A d \in 0..15 : D(d) \notin Smalls \cup {"$", "x", "X"}
  BY DigitsAre
<1>2. \A d \in 0..15 : lower(D(d)) \in Smalls \cup {D(d)}
  <2>1. lower("A") = "a" /\ lower("B") = "b" /\ lower("C") = "c"
    BY DEF lower, Lowered
  <2>2. lower("D") = "d" /\ lower("E") = "e" /\ lower("F") = "f"
    BY DEF lower, Lowered
  <2>3. \A c \in {"0", "1", "2", "3", "4", "5", "6", "7", "8", "9"} : lower(c) = c
    BY DEF lower, Lowered
  <2>4. \A d \in 0..15 : D(d) \in {"0", "1", "2", "3", "4", "5", "6", "7", "8", "9"}
                                 \cup {"A", "B", "C", "D", "E", "F"}
    BY DigitsAre
  <2> QED
    BY <2>1, <2>2, <2>3, <2>4
<1>3. \A d \in 0..15 : D(d) = D(v) => d = v
  BY DigitsAre
<1> HIDE DEF Smalls, D
<1>4. \A d \in 0..15 : (D(v) \in {D(d), lower(D(d))}) <=> (d = v)
  BY <1>1, <1>2, <1>3
<1>5. DigitValue(D(v)) = v
  BY <1>4 DEF DigitValue, D
<1>6. D(v) \in Char
  <2>1. v + 1 \in 1..16
    OBVIOUS
  <2> QED
    BY <2>1, CharAssumption DEF D
<1> QED
  BY <1>1, <1>5, <1>6 DEF D

\* A number that has no more than n digits is printed so that it is read again.
LEMMA PrintedReadsBack ==
  ASSUME NEW base \in {10, 16}, NEW val \in Nat, NEW n \in Nat, val < Power(base, n),
         NEW d, d = Printed(val, base, n)
  PROVE  /\ d \in Seq(Char) /\ Len(d) = n
         /\ \A k \in 1..n : DigitValue(d[k]) < base /\ d[k] \notin {"$", "x", "X"}
         /\ Sum(d, base) = val
<1> DEFINE P(k) == Power(base, k)
           v(k) == (val \div P(n - k)) % base
<1>1. base \in Nat \ {0} /\ base <= 16
  OBVIOUS
<1>2. P(0) = 1 /\ \A k \in Nat : P(k) \in Nat \ {0} /\ P(k + 1) = base * P(k)
  <2>1. P(0) = 1
    BY <1>1, Powers
  <2>2. \A k \in Nat : P(k) \in Nat \ {0} /\ P(k + 1) = base * P(k)
    BY <1>1, Powers
  <2> QED
    BY <2>1, <2>2
<1>3. d = [k \in 1..n |-> Digits[v(k) + 1]]
  BY DEF Printed
<1> HIDE DEF P
<1>4. ASSUME NEW k \in 1..n PROVE v(k) \in 0..(base - 1) /\ v(k) \in 0..15
  <2>1. n - k \in Nat
    OBVIOUS
  <2>2. P(n - k) \in Nat \ {0}
    BY <1>2, <2>1
  <2>3. v(k) \in 0..(base - 1)
    BY <1>1, <2>2, RemainderByProduct
  <2> HIDE DEF v
  <2> QED
    BY <1>1, <2>3
<1>5. ASSUME NEW k \in 1..n
      PROVE  DigitValue(d[k]) = v(k) /\ d[k] \in Char /\ d[k] \notin {"$", "x", "X"}
  <2> HIDE DEF v
  <2> QED
    BY <1>3, <1>4, DigitReadsBack
<1>6. d \in Seq(Char) /\ Len(d) = n
  <2> HIDE DEF v
  <2>1. \A k \in 1..n : Digits[v(k) + 1] \in Char
    BY <1>3, <1>5
  <2> QED
    BY <1>3, <2>1
<1>7. PICK sum : Adds(sum, d, base) /\ Sum(d, base) = sum[Len(d)]
  BY <1>1, SumAdds
<1>8. sum[0] = 0 /\ \A k \in Nat : sum[k] \in Nat
  BY <1>7 DEF Adds
<1> DEFINE T == {k \in Nat : k <= n => sum[k] = val % P(k)}
<1>9. 0 \in T
  <2>1. val % 1 = 0
    OBVIOUS
  <2> QED
    BY <1>2, <1>8, <2>1
<1>10. ASSUME NEW k \in T PROVE k + 1 \in T
  <2> SUFFICES ASSUME k + 1 <= n PROVE sum[k + 1] = val % P(k + 1)
    OBVIOUS
  <2> DEFINE j == n - k
  <2>1. /\ k \in Nat /\ k + 1 \in Nat /\ k + 1 # 0 /\ (k + 1) - 1 = k
        /\ j \in 1..n /\ n - j = k /\ n + 1 - (k + 1) = j
    OBVIOUS
  <2>2. sum[k + 1] = sum[k] + DigitValue(d[Len(d) + 1 - (k + 1)]) * Power(base, (k + 1) - 1)
    BY <1>7, <2>1 DEF Adds
  <2>3. sum[k + 1] = sum[k] + DigitValue(d[j]) * P(k)
    BY <1>6, <2>1, <2>2 DEF P
  <2>4. DigitValue(d[j]) = (val \div P(k)) % base
    BY <1>5, <2>1
  <2>5. sum[k] = val % P(k)
    BY <2>1
  <2>6. P(k) \in Nat \ {0} /\ P(k + 1) = base * P(k)
    BY <1>2, <2>1
  <2> HIDE DEF j, T
  <2>7. val % (base * P(k)) = (val % P(k)) + ((val \div P(k)) % base) * P(k)
    BY <1>1, <2>6, RemainderByProduct
  <2> QED
    BY <2>3, <2>4, <2>5, <2>6, <2>7
<1>11. T \subseteq Nat
  OBVIOUS
<1>12. n \in T
  <2> HIDE DEF T
  <2> QED
    BY <1>9, <1>10, <1>11, NatSetInduction
<1>13. val % P(n) = val
  <2> DEFINE p == P(n)
  <2>1. p \in Nat \ {0} /\ val < p
    BY <1>2 DEF P
  <2> HIDE DEF p
  <2>2. val = p * 0 + val /\ val \in 0..(p - 1)
    BY <2>1
  <2>3. val % p = val
    BY <2>1, <2>2, DivisionUnique
  <2> QED
    BY <2>3 DEF p
<1>14. Sum(d, base) = val
  BY <1>6, <1>7, <1>12, <1>13
<1>15. \A k \in 1..n : DigitValue(d[k]) < base
  <2> HIDE DEF v
  <2> QED
    BY <1>1, <1>4, <1>5
<1> QED
  BY <1>5, <1>6, <1>14, <1>15

\* What stands for its own number is read as it.
ReadsBack(w, val) == w \in Seq(Char) /\ StandsFor(w) = {val} /\ parse_number(w).val = val

\* A number that fits a word is read as itself.
LEMMA ReadAsItself ==
  ASSUME NEW w \in Seq(Char), NEW val \in 0..(WordSize - 1), StandsFor(w) = {val}
  PROVE  ReadsBack(w, val)
<1>1. PICK v \in Nat : {val} = {v} /\ parse_number(w).val = v % WordSize
  BY NumberRead
<1>2. v % WordSize = v
  <2> DEFINE W == WordSize
  <2>1. W \in Nat \ {0} /\ v \in 0..(W - 1)
    BY <1>1, Sizes
  <2> HIDE DEF W
  <2>2. v = W * 0 + v
    BY <2>1
  <2>3. v % W = v
    BY <2>1, <2>2, DivisionUnique
  <2> QED
    BY <2>3 DEF W
<1> QED
  BY <1>1, <1>2 DEF ReadsBack

\* console_print_hex.
LEMMA HexReadsBack ==
  ASSUME NEW val \in 0..(WordSize - 1)
  PROVE  ReadsBack(console_print_hex(val), val)
<1> DEFINE d == Printed(val, 16, WordDigits)
           w == console_print_hex(val)
           n == WordDigits
<1>1. n \in Nat \ {0} /\ val \in Nat /\ val < Power(16, n) /\ 16 \in {10, 16}
  BY Sizes DEF WordSize
<1>2. /\ d \in Seq(Char) /\ Len(d) = n /\ Sum(d, 16) = val
      /\ \A k \in 1..n : DigitValue(d[k]) < 16
  BY <1>1, PrintedReadsBack
<1>3. w = <<"0", "x">> \o d
  BY DEF console_print_hex
<1> HIDE DEF d, n, w
<1>4. "0" \in Char /\ "x" \in Char
  <2>1. "X" \in DOMAIN Lowered /\ Lowered["X"] = "x" /\ Digits[1] = "0"
    BY DEF Lowered, Digits
  <2>2. "0" \in {Digits[k] : k \in 1..16}
    BY <2>1
  <2> QED
    BY <2>1, <2>2, CharAssumption
<1>5. /\ w \in Seq(Char) /\ Len(w) = n + 2 /\ w[1] = "0" /\ w[2] = "x"
      /\ \A k \in 1..n : w[k + 2] = d[k]
  <2> DEFINE p == <<"0", "x">>
  <2>1. p \in Seq(Char) /\ Len(p) = 2 /\ p[1] = "0" /\ p[2] = "x"
    BY <1>4
  <2> HIDE DEF p
  <2>2. w = p \o d
    BY <1>3 DEF p
  <2>3. /\ w \in Seq(Char) /\ Len(w) = n + 2
        /\ \A k \in 1..(2 + n) : w[k] = IF k <= 2 THEN p[k] ELSE d[k - 2]
    <3>1. /\ p \o d \in Seq(Char) /\ Len(p \o d) = Len(p) + Len(d)
          /\ \A k \in 1..(Len(p) + Len(d)) :
               (p \o d)[k] = IF k <= Len(p) THEN p[k] ELSE d[k - Len(p)]
      BY <1>2, <2>1, ConcatProperties
    <3> QED
      BY <1>1, <1>2, <2>1, <2>2, <3>1
  <2>4. w[1] = "0" /\ w[2] = "x"
    BY <1>1, <2>1, <2>3
  <2>5. ASSUME NEW k \in 1..n PROVE w[k + 2] = d[k]
    <3>1. k + 2 \in 1..(2 + n) /\ ~(k + 2 <= 2) /\ (k + 2) - 2 = k
      BY <1>1
    <3> QED
      BY <2>3, <3>1
  <2> QED
    BY <2>3, <2>4, <2>5
<1>6. After(w, 2) = d
  <2>1. After(w, 2) \in Seq(Char) /\ Len(After(w, 2)) = n
    BY <1>1, <1>5 DEF After
  <2>2. \A k \in 1..n : After(w, 2)[k] = d[k]
    BY <1>1, <1>5 DEF After
  <2> QED
    BY <1>1, <1>2, <2>1, <2>2
<1>7. PICK d1 \in Seq(Char), base \in {10, 16} :
        /\ StandsFor(w) = IF WellFormed(d1, base) THEN {Sum(d1, base)} ELSE {}
        /\ Len(w) >= 2 /\ w[1] = "0" /\ w[2] = "x" => d1 = After(w, 2) /\ base = 16
  BY <1>5, NumberIs
<1>8. Len(w) >= 2
  BY <1>1, <1>5
<1>9. d1 = d /\ base = 16
  BY <1>5, <1>6, <1>7, <1>8
<1>10. WellFormed(d, 16)
  <2>1. d # <<>> /\ DOMAIN d = 1..n
    BY <1>1, <1>2
  <2> QED
    BY <1>2, <2>1 DEF WellFormed
<1>11. StandsFor(w) = {val}
  BY <1>2, <1>7, <1>9, <1>10
<1>12. ReadsBack(w, val)
  BY <1>5, <1>11, ReadAsItself
<1> QED
  BY <1>12 DEF w

\* console_print_dec.
LEMMA DecReadsBack ==
  ASSUME NEW val \in 0..(WordSize - 1)
  PROVE  ReadsBack(console_print_dec(val), val)
<1> DEFINE P(k) == Power(10, k)
           Fits(k) == (k < DecDigits => val < P(k)) /\ (k = 1 \/ val >= P(k - 1))
           n == CHOOSE k \in 1..DecDigits : Fits(k)
           w == Printed(val, 10, n)
<1>1. console_print_dec(val) = w
  BY DEF console_print_dec
<1>2. DecDigits \in Nat \ {0} /\ val \in Nat /\ val < P(DecDigits)
  <2>1. WordSize <= P(DecDigits) /\ DecDigits \in Nat \ {0} /\ WordSize \in Nat
    BY ArgsAssumption, Sizes
  <2>2. P(DecDigits) \in Nat
    BY <2>1, Powers
  <2> HIDE DEF P
  <2> QED
    BY <2>1, <2>2
<1>3. \A k \in Nat : P(k) \in Nat
  <2>1. 10 \in Nat \ {0}
    OBVIOUS
  <2>2. \A k \in Nat : Power(10, k) \in Nat \ {0}
    BY <2>1, Powers
  <2> QED
    BY <2>2
<1> HIDE DEF P
<1>4. \E k \in 1..DecDigits : Fits(k)
  <2> DEFINE T == {k \in 1..DecDigits : k < DecDigits => val < P(k)}
  <2>1. T \subseteq Nat /\ DecDigits \in T
    BY <1>2
  <2>2. PICK k \in T : \A j \in T : k <= j
    <3> HIDE DEF T
    <3> QED
      BY <2>1, NatLeast
  <2>3. k = 1 \/ val >= P(k - 1)
    <3> SUFFICES ASSUME k # 1 PROVE val >= P(k - 1)
      OBVIOUS
    <3>1. k - 1 \in 1..DecDigits /\ k - 1 < k /\ k - 1 \in Nat
      BY <1>2
    <3>2. k - 1 \notin T
      BY <2>2, <3>1
    <3>3. ~(val < P(k - 1)) /\ P(k - 1) \in Nat
      BY <1>3, <3>1, <3>2
    <3> QED
      BY <1>2, <3>3
  <2> QED
    BY <2>2, <2>3
<1>5. n \in 1..DecDigits /\ Fits(n)
  BY <1>4
<1> HIDE DEF n
<1>6. n \in Nat \ {0} /\ val < P(n)
  <2>1. n \in Nat \ {0} /\ (n < DecDigits \/ n = DecDigits)
    BY <1>2, <1>5
  <2> QED
    BY <1>2, <1>5, <2>1
<1>7. /\ w \in Seq(Char) /\ Len(w) = n /\ Sum(w, 10) = val
      /\ \A k \in 1..n : DigitValue(w[k]) < 10 /\ w[k] \notin {"$", "x", "X"}
  <2>1. 10 \in {10, 16} /\ val < Power(10, n) /\ n \in Nat
    BY <1>6 DEF P
  <2> QED
    BY <1>2, <2>1, PrintedReadsBack
<1> HIDE DEF w
<1>8. PICK d1 \in Seq(Char), base \in {10, 16} :
        /\ StandsFor(w) = IF WellFormed(d1, base) THEN {Sum(d1, base)} ELSE {}
        /\ ~(Len(w) >= 1 /\ w[1] = "$") /\ ~(Len(w) >= 2 /\ w[2] \in {"x", "X"}) => d1 = w /\ base = 10
  BY <1>7, NumberIs
<1>9. ~(Len(w) >= 1 /\ w[1] = "$") /\ ~(Len(w) >= 2 /\ w[2] \in {"x", "X"})
  <2>1. 1 \in 1..n /\ (n >= 2 => 2 \in 1..n)
    BY <1>6
  <2> QED
    BY <1>7, <2>1
<1>10. WellFormed(w, 10)
  <2>1. w # <<>> /\ DOMAIN w = 1..n
    BY <1>6, <1>7
  <2> QED
    BY <1>7, <2>1 DEF WellFormed
<1>11. StandsFor(w) = {val}
  BY <1>7, <1>8, <1>9, <1>10
<1> QED
  BY <1>1, <1>7, <1>11, ReadAsItself

----------------------------------------------------------------------------
(* Rows *)

\* console_print_hex_w of a byte.
LEMMA BytePrinted ==
  ASSUME NEW val \in 0..(ByteSize - 1)
  PROVE  /\ console_print_hex_w(val, ByteDigits) \in Seq(Char)
         /\ Sum(console_print_hex_w(val, ByteDigits), 16) = val
<1>1. ByteDigits \in Nat /\ val \in Nat /\ val < Power(16, ByteDigits) /\ 16 \in {10, 16}
  BY Sizes DEF ByteSize
<1> QED
  BY <1>1, PrintedReadsBack DEF console_print_hex_w

\* The rows that show n bytes: all are full but the last, which is not empty.
LEMMA RowsFill ==
  ASSUME NEW n \in Nat, NEW R \in Nat \ {0}, NEW m, m = (n + R - 1) \div R
  PROVE  /\ m \in Nat
         /\ m = 0 => n = 0
         /\ m # 0 => R * (m - 1) \in Nat /\ n - R * (m - 1) \in 1..R
         /\ \A r \in 1..m : /\ R * (r - 1) \in Nat
                            /\ r < m => n - R * (r - 1) >= R
                            /\ n - R * (r - 1) >= 1
<1> DEFINE x == n + R - 1
<1>1. x \in Nat
  OBVIOUS
<1>2. m \in Nat /\ x % R \in 0..(R - 1) /\ x = R * m + (x % R)
  <2> HIDE DEF x
  <2>1. m = x \div R
    BY DEF x
  <2> QED
    BY <1>1, <2>1, Division
<1>3. R * m \in Nat /\ R * m <= n + R - 1 /\ n + R - 1 <= R * m + R - 1
  <2>1. R * m \in Nat
    BY <1>2, ProductsGrow
  <2> DEFINE y == R * m
             z == x % R
  <2>2. y \in Nat /\ z \in 0..(R - 1) /\ n + R - 1 = y + z
    BY <1>2, <2>1
  <2> HIDE DEF y, z
  <2>3. y <= n + R - 1 /\ n + R - 1 <= y + R - 1
    BY <2>2
  <2> QED
    BY <2>1, <2>3 DEF y
<1> HIDE DEF x
<1>4. m = 0 => n = 0
  <2> SUFFICES ASSUME m = 0 PROVE n = 0
    OBVIOUS
  <2>1. R * m = 0
    OBVIOUS
  <2> QED
    BY <1>3, <2>1
<1>5. ASSUME NEW r \in 1..m PROVE R * (r - 1) \in Nat /\ R * (r - 1) = R * r - R /\ R * r \in Nat /\ R * r <= R * m
  <2>1. r - 1 \in Nat /\ r \in Nat /\ r <= m
    BY <1>2
  <2>2. R * (r - 1) \in Nat
    BY <2>1, ProductsGrow
  <2>3. R * r \in Nat /\ R * r <= R * m
    BY <1>2, <2>1, ProductsGrow
  <2>4. R * (r - 1) = R * r - R
    BY <2>1
  <2> QED
    BY <2>2, <2>3, <2>4
<1>6. ASSUME NEW r \in 1..m PROVE n - R * (r - 1) >= 1
  <2> DEFINE a == R * (r - 1)
             b == R * r
             c == R * m
  <2>1. a \in Nat /\ a = b - R /\ b \in Nat /\ b <= c /\ c \in Nat /\ c <= n + R - 1
    BY <1>3, <1>5
  <2> HIDE DEF a, b, c
  <2>2. n - a >= 1
    BY <2>1
  <2> QED
    BY <2>2 DEF a
<1>7. ASSUME NEW r \in 1..m, r < m PROVE n - R * (r - 1) >= R
  <2>1. r + 1 \in 1..m /\ (r + 1) - 1 = r
    BY <1>2, <1>7
  <2>2. n - R * r >= 1 /\ R * (r - 1) = R * r - R /\ R * r \in Nat
    BY <1>5, <1>6, <2>1
  <2> DEFINE a == R * (r - 1)
             b == R * r
  <2>3. n - b >= 1 /\ a = b - R /\ b \in Nat
    BY <2>2
  <2> HIDE DEF a, b
  <2>4. n - a >= R
    BY <2>3
  <2> QED
    BY <2>4 DEF a
<1>8. ASSUME m # 0 PROVE R * (m - 1) \in Nat /\ n - R * (m - 1) \in 1..R
  <2>1. m \in 1..m
    BY <1>2, <1>8
  <2>2. R * (m - 1) \in Nat /\ R * (m - 1) = R * m - R /\ n - R * (m - 1) >= 1
    BY <1>5, <1>6, <2>1
  <2> DEFINE a == R * (m - 1)
             b == R * m
  <2>3. a \in Nat /\ a = b - R /\ n - a >= 1 /\ b \in Nat /\ n + R - 1 <= b + R - 1
    BY <1>3, <2>2
  <2> HIDE DEF a, b
  <2>4. n - a \in 1..R
    BY <2>3
  <2> QED
    BY <2>3, <2>4 DEF a
<1> QED
  BY <1>2, <1>4, <1>5, <1>6, <1>7, <1>8

\* The rows of a dump of the n bytes b from addr on.
RowsShow(rows, addr, n, b) ==
  /\ rows \in Seq(Seq(Seq(Char)))
  /\ n = IF rows = <<>> THEN 0 ELSE RowLen * (Len(rows) - 1) + Len(rows[Len(rows)]) - 1
  /\ \A r \in DOMAIN rows :
       /\ RowLen * (r - 1) \in Nat
       /\ StandsFor(rows[r][1]) = {(addr + RowLen * (r - 1)) % WordSize}
       /\ r < Len(rows) => Len(rows[r]) = RowLen + 1
       /\ Len(rows[r]) > 1
       /\ \A j \in 1..(Len(rows[r]) - 1) :
            /\ RowLen * (r - 1) + j \in 1..n
            /\ Sum(rows[r][j + 1], 16) = b[RowLen * (r - 1) + j]

\* Rows builds such rows.
LEMMA RowsAre ==
  ASSUME NEW addr \in Nat, NEW n \in Nat, NEW b \in [1..n -> 0..(ByteSize - 1)],
         NEW rows, rows = Rows(addr, b)
  PROVE  RowsShow(rows, addr, n, b)
<1> DEFINE R == RowLen
           m == (n + R - 1) \div R
           first(r) == R * (r - 1)
           size(r) == RowSize(n, first(r))
           label(r) == console_print_hex((addr + first(r)) % WordSize)
           cells(r) == [j \in 1..size(r) |-> console_print_hex_w(b[first(r) + j], ByteDigits)]
<1>1. R \in Nat \ {0} /\ Len(b) = n
  BY Sizes
<1>2. /\ m \in Nat /\ (m = 0 => n = 0)
      /\ m # 0 => first(m) \in Nat /\ n - first(m) \in 1..R
      /\ \A r \in 1..m : first(r) \in Nat /\ (r < m => n - first(r) >= R) /\ n - first(r) >= 1
  <2>1. m = (n + R - 1) \div R /\ R \in Nat \ {0}
    BY <1>1
  <2> HIDE DEF m, R
  <2>2. m \in Nat /\ (m = 0 => n = 0)
    BY <2>1, RowsFill
  <2>3. m # 0 => R * (m - 1) \in Nat /\ n - R * (m - 1) \in 1..R
    BY <2>1, RowsFill
  <2>4. ASSUME NEW r \in 1..m
        PROVE  R * (r - 1) \in Nat /\ (r < m => n - R * (r - 1) >= R) /\ n - R * (r - 1) >= 1
    BY <2>1, RowsFill
  <2> QED
    BY <2>2, <2>3, <2>4
<1>3. rows = [r \in 1..m |-> <<label(r)>> \o cells(r)]
  BY <1>1 DEF Rows
<1> HIDE DEF first, m, R
<1>4. ASSUME NEW r \in 1..m
      PROVE  /\ size(r) \in 1..R /\ (r < m => size(r) = R)
             /\ r = m => size(r) = n - first(r)
             /\ \A j \in 1..size(r) : first(r) + j \in 1..n
  <2> DEFINE f == first(r)
  <2>1. f \in Nat /\ (r < m => n - f >= R) /\ n - f >= 1 /\ (r = m => n - f <= R)
    BY <1>1, <1>2
  <2>2. size(r) = IF n - f < R THEN n - f ELSE R
    BY DEF RowSize, R
  <2> HIDE DEF f, size
  <2>3. size(r) \in 1..R /\ (r < m => size(r) = R) /\ (r = m => size(r) = n - f) /\ f + size(r) <= n
    BY <1>1, <2>1, <2>2
  <2>4. ASSUME NEW j \in 1..size(r) PROVE f + j \in 1..n
    BY <1>1, <2>1, <2>3
  <2> QED
    BY <2>3, <2>4 DEF f
<1>5. ASSUME NEW r \in 1..m
      PROVE  /\ label(r) \in Seq(Char)
             /\ StandsFor(label(r)) = {(addr + first(r)) % WordSize}
  <2> DEFINE x == addr + first(r)
             W == WordSize
  <2>1. x \in Nat /\ W \in Nat \ {0}
    BY <1>2, Sizes
  <2> HIDE DEF x, W
  <2>2. x % W \in 0..(W - 1)
    BY <2>1, Division
  <2>3. ReadsBack(console_print_hex(x % W), x % W)
    BY <2>2, HexReadsBack DEF W
  <2> QED
    BY <2>3 DEF ReadsBack, x, W
<1>6. ASSUME NEW r \in 1..m
      PROVE  /\ cells(r) \in Seq(Seq(Char)) /\ Len(cells(r)) = size(r)
             /\ \A j \in 1..size(r) : Sum(cells(r)[j], 16) = b[first(r) + j]
  <2> HIDE DEF size
  <2>1. ASSUME NEW j \in 1..size(r)
        PROVE  LET w == console_print_hex_w(b[first(r) + j], ByteDigits)
               IN  w \in Seq(Char) /\ Sum(w, 16) = b[first(r) + j]
    <3>1. b[first(r) + j] \in 0..(ByteSize - 1)
      BY <1>4
    <3> QED
      BY <3>1, BytePrinted
  <2>2. size(r) \in Nat
    BY <1>1, <1>4
  <2> QED
    BY <2>1, <2>2
<1> HIDE DEF label, cells, size
<1>7. ASSUME NEW r \in 1..m
      PROVE  /\ rows[r] \in Seq(Seq(Char)) /\ Len(rows[r]) = size(r) + 1
             /\ rows[r][1] = label(r) /\ \A j \in 1..size(r) : rows[r][j + 1] = cells(r)[j]
  <2> DEFINE p == <<label(r)>>
             c == cells(r)
             q == p \o c
  <2>1. /\ p \in Seq(Seq(Char)) /\ Len(p) = 1 /\ p[1] = label(r)
        /\ c \in Seq(Seq(Char)) /\ Len(c) = size(r) /\ size(r) \in Nat
    BY <1>1, <1>4, <1>5, <1>6
  <2>2. rows[r] = q
    BY <1>3
  <2> HIDE DEF p, c
  <2>3. /\ q \in Seq(Seq(Char)) /\ Len(q) = Len(p) + Len(c)
        /\ \A k \in 1..(Len(p) + Len(c)) : q[k] = IF k <= Len(p) THEN p[k] ELSE c[k - Len(p)]
    BY <2>1, ConcatProperties
  <2> HIDE DEF q
  <2>4. q[1] = label(r)
    BY <2>1, <2>3
  <2>5. ASSUME NEW j \in 1..size(r) PROVE q[j + 1] = c[j]
    <3>1. j + 1 \in 1..(Len(p) + Len(c)) /\ ~(j + 1 <= Len(p)) /\ (j + 1) - Len(p) = j
      BY <2>1
    <3> QED
      BY <2>3, <3>1
  <2> QED
    BY <2>1, <2>2, <2>3, <2>4, <2>5 DEF c
<1>8. rows \in Seq(Seq(Seq(Char))) /\ Len(rows) = m /\ DOMAIN rows = 1..m
  <2>1. rows = [r \in 1..m |-> rows[r]]
    BY <1>3
  <2>2. m \in Nat /\ \A r \in 1..m : rows[r] \in Seq(Seq(Char))
    BY <1>2, <1>7
  <2> DEFINE S == Seq(Seq(Char))
  <2> HIDE DEF S
  <2>3. rows \in [1..m -> S]
    BY <2>1, <2>2 DEF S
  <2>4. rows \in Seq(S) /\ Len(rows) = m /\ DOMAIN rows = 1..m
    BY <2>2, <2>3
  <2> QED
    BY <2>4 DEF S
<1>9. n = IF rows = <<>> THEN 0 ELSE R * (Len(rows) - 1) + Len(rows[Len(rows)]) - 1
  <2>1. CASE m = 0
    BY <1>2, <1>8, <2>1
  <2>2. CASE m # 0
    <3>1. m \in 1..m /\ rows # <<>>
      BY <1>2, <1>8, <2>2
    <3>2. Len(rows[m]) = size(m) + 1 /\ size(m) = n - first(m) /\ first(m) \in Nat
      BY <1>2, <1>4, <1>7, <3>1
    <3>3. n = first(m) + Len(rows[m]) - 1
      BY <3>2
    <3> QED
      BY <1>8, <3>1, <3>3 DEF first
  <2> QED
    BY <2>1, <2>2
<1>10. ASSUME NEW r \in 1..m
       PROVE  /\ first(r) \in Nat
              /\ StandsFor(rows[r][1]) = {(addr + first(r)) % WordSize}
              /\ r < m => Len(rows[r]) = R + 1
              /\ Len(rows[r]) > 1
              /\ \A j \in 1..(Len(rows[r]) - 1) :
                   first(r) + j \in 1..n /\ Sum(rows[r][j + 1], 16) = b[first(r) + j]
  <2>1. size(r) \in Nat /\ size(r) >= 1 /\ Len(rows[r]) = size(r) + 1
    BY <1>1, <1>4, <1>7
  <2>2. Len(rows[r]) - 1 = size(r) /\ Len(rows[r]) > 1
    BY <2>1
  <2>3. first(r) \in Nat
    BY <1>2
  <2>4. StandsFor(rows[r][1]) = {(addr + first(r)) % WordSize}
    BY <1>5, <1>7
  <2>5. r < m => Len(rows[r]) = R + 1
    BY <1>4, <2>1
  <2>6. ASSUME NEW j \in 1..size(r)
        PROVE  first(r) + j \in 1..n /\ Sum(rows[r][j + 1], 16) = b[first(r) + j]
    <3>1. rows[r][j + 1] = cells(r)[j]
      BY <1>7
    <3>2. Sum(cells(r)[j], 16) = b[first(r) + j]
      BY <1>6
    <3> QED
      BY <1>4, <3>1, <3>2
  <2> QED
    BY <2>2, <2>3, <2>4, <2>5, <2>6
<1> QED
  BY <1>8, <1>9, <1>10 DEF RowsShow, first, R

----------------------------------------------------------------------------
(* What a command is given, and what it does with it *)

\* The number that the n-th word of s stands for, as a machine word; Argument
\* is that of the line executed last.
Read(s, n) == (CHOOSE v \in StandsFor(WordOf(s, n)) : TRUE) % WordSize

\* A command reads its arguments as the help text says.
LEMMA ArgumentRead ==
  ASSUME NEW s \in Seq(Char), NEW t, t = tokenize(s), NEW n \in 1..Len(t)
  PROVE  /\ parse_number(t[n]).ok <=> StandsFor(WordOf(s, n)) # {}
         /\ parse_number(t[n]).val \in 0..(WordSize - 1)
         /\ parse_number(t[n]).ok => parse_number(t[n]).val = Read(s, n)
<1>1. t[n] \in Seq(Char) /\ t[n] = WordOf(s, n)
  BY TokensAreWords
<1> DEFINE w == WordOf(s, n)
           p == parse_number(w)
<1>2. /\ p.val \in 0..(WordSize - 1) /\ (p.ok <=> StandsFor(w) # {})
      /\ p.ok => \E v \in Nat : StandsFor(w) = {v} /\ p.val = v % WordSize
  BY <1>1, NumberRead
<1>3. ASSUME p.ok PROVE p.val = Read(s, n)
  <2>1. PICK v \in Nat : StandsFor(w) = {v} /\ p.val = v % WordSize
    BY <1>2, <1>3
  <2>2. (CHOOSE x \in StandsFor(w) : TRUE) = v
    BY <2>1
  <2> QED
    BY <2>1, <2>2 DEF Read
<1> QED
  BY <1>1, <1>2, <1>3

\* A sequence of eight.
LEMMA EightInSeq ==
  ASSUME NEW S, NEW a \in S, NEW b \in S, NEW c \in S, NEW d \in S,
         NEW e \in S, NEW f \in S, NEW g \in S, NEW h \in S
  PROVE  <<a, b, c, d, e, f, g, h>> \in Seq(S)
OBVIOUS

\* A line that begins with C64TYPE and a blank.
LEMMA TypeLine ==
  ASSUME NEW s \in Seq(Char), SameStart(s, TypePrefix)
  PROVE  /\ NumWords(s) # 0
         /\ ~SameWord(WordOf(s, 1), Names.poke)
         /\ After(s, 8) \in Seq(Char)
         /\ SubSeq(s, 1, 8) \o After(s, 8) = s
<1>1. TypePrefix \in Seq(Char) /\ Len(TypePrefix) = 8 /\ TypePrefix[1] = "c"
  <2>1. "6" \in Char /\ "4" \in Char
    <3>1. Digits[7] = "6" /\ Digits[5] = "4" /\ 7 \in 1..16 /\ 5 \in 1..16
      BY DEF Digits
    <3>2. \A n \in 1..16 : Digits[n] \in Char
      BY CharAssumption
    <3> QED
      BY <3>1, <3>2
  <2>2. /\ Lowered["C"] \in Char /\ Lowered["T"] \in Char /\ Lowered["Y"] \in Char
        /\ Lowered["P"] \in Char /\ Lowered["E"] \in Char
    BY CharAssumption DEF Lowered
  <2>3. /\ Lowered["C"] = "c" /\ Lowered["T"] = "t" /\ Lowered["Y"] = "y"
        /\ Lowered["P"] = "p" /\ Lowered["E"] = "e"
    BY DEF Lowered
  <2>4. {"c", "6", "4", "t", "y", "p", "e", " "} \subseteq Char
    BY <2>1, <2>2, <2>3, CharAssumption
  <2>5. Len(TypePrefix) = 8 /\ TypePrefix[1] = "c"
    BY DEF TypePrefix
  <2>6. TypePrefix \in Seq(Char)
    BY <2>4, EightInSeq DEF TypePrefix
  <2> QED
    BY <2>5, <2>6
<1>2. /\ Lower(s) \in Seq(Char) /\ Len(Lower(s)) = Len(s) /\ Len(s) \in Nat
      /\ \A k \in 1..Len(s) : Lower(s)[k] = lower(s[k])
  BY LowerIs
<1>3. Len(s) >= 8 /\ Lower(s)[1] = "c"
  <2>1. 8 <= Len(Lower(s)) /\ \A k \in 1..8 : Lower(s)[k] = TypePrefix[k]
    BY <1>1, <1>2, PrefixIs DEF SameStart
  <2>2. 1 \in 1..8
    OBVIOUS
  <2> QED
    BY <1>1, <1>2, <2>1, <2>2
<1>4. s[1] # " " /\ lower(s[1]) = "c"
  <2>1. lower(s[1]) = "c"
    BY <1>2, <1>3
  <2> QED
    BY <2>1, LowerCases
<1>5. TokenBegin(s, 1) = 1 /\ PastTokens(s)[1] - 1 \in 1..Len(s)
  <2> DEFINE b == TokenBegin(s, 1)
             p == PastTokens(s)[1]
  <2>1. PastTokens(s)[1 - 1] = 0
    BY PastSplits DEF Splits
  <2>2. /\ b \in 1..(Len(s) + 1) /\ p \in 1..(Len(s) + 1)
        /\ \A k \in 1..Len(s) : 0 < k /\ k < b => k \in Blanks(s)
        /\ b <= Len(s) => b < p
    BY <2>1, TokenPlace
  <2> HIDE DEF b, p
  <2>3. 1 \in 1..Len(s) /\ 1 \notin Blanks(s)
    <3>1. 1 \in 1..Len(s)
      BY <1>2, <1>3
    <3>2. 1 \notin Blanks(s)
      BY <1>4 DEF Blanks
    <3> QED
      BY <3>1, <3>2
  <2>4. b = 1
    BY <1>2, <2>2, <2>3
  <2>5. p - 1 \in 1..Len(s)
    BY <1>2, <2>2, <2>3, <2>4
  <2> QED
    BY <2>4, <2>5 DEF b, p
<1>6. NumWords(s) \in Nat /\ 1 <= NumWords(s)
  BY <1>2, <1>3, <1>5, TokenIffWord
<1>7. Len(WordOf(s, 1)) >= 1 /\ WordOf(s, 1)[1] = s[1] /\ WordOf(s, 1) \in Seq(Char)
  <2> DEFINE e == PastTokens(s)[1] - 1
  <2>1. WordOf(s, 1) = SubSeq(s, TokenBegin(s, 1), e)
    BY <1>6, WordIs
  <2>2. WordOf(s, 1) = SubSeq(s, 1, e)
    BY <1>5, <2>1
  <2>3. e \in 1..Len(s)
    BY <1>5
  <2> HIDE DEF e
  <2> QED
    BY <1>2, <2>2, <2>3
<1>8. ~SameWord(WordOf(s, 1), Names.poke)
  <2>1. 1 \in 1..Len(WordOf(s, 1))
    BY <1>7
  <2>2. Lower(WordOf(s, 1))[1] = "c"
    BY <1>4, <1>7, <2>1, LowerIs
  <2> QED
    BY <2>2 DEF SameWord, Names
<1>9. After(s, 8) \in Seq(Char) /\ SubSeq(s, 1, 8) \o After(s, 8) = s
  <2> DEFINE N == Len(s)
             x == SubSeq(s, 1, 8)
             y == SubSeq(s, 9, N)
  <2>1. N \in Nat /\ N >= 8 /\ \A k \in 1..N : s[k] \in Char
    BY <1>2, <1>3
  <2>2. /\ x \in Seq(Char) /\ Len(x) = 8 /\ \A k \in 1..8 : x[k] = s[k]
    BY <2>1
  <2>3. y \in Seq(Char) /\ Len(y) = N - 8 /\ \A k \in 1..(N - 8) : y[k] = s[9 + k - 1]
    <3>1. 9 \in 1..(N + 1) /\ N \in (9 - 1)..N /\ N - 9 + 1 = N - 8
      BY <2>1
    <3> HIDE DEF N
    <3> QED
      BY <2>1, <3>1, SubSeqProperties DEF N
  <2>4. \A k \in 1..(N - 8) : y[k] = s[8 + k]
    <3>1. \A k \in 1..(N - 8) : 9 + k - 1 = 8 + k
      BY <2>1
    <3> QED
      BY <2>3, <3>1
  <2> HIDE DEF x, y, N
  <2>5. /\ x \o y \in Seq(Char) /\ Len(x \o y) = N
        /\ \A k \in 1..N : (x \o y)[k] = IF k <= 8 THEN x[k] ELSE y[k - 8]
    <3>1. Len(x) = 8 /\ Len(x) + Len(y) = N
      BY <2>1, <2>2, <2>3
    <3>2. /\ x \o y \in Seq(Char) /\ Len(x \o y) = Len(x) + Len(y)
          /\ \A k \in 1..(Len(x) + Len(y)) : (x \o y)[k] = IF k <= Len(x) THEN x[k] ELSE y[k - Len(x)]
      BY <2>2, <2>3, ConcatProperties
    <3> QED
      BY <3>1, <3>2
  <2>6. ASSUME NEW k \in 1..N PROVE (x \o y)[k] = s[k]
    <3>1. (x \o y)[k] = IF k <= 8 THEN x[k] ELSE y[k - 8]
      BY <2>5
    <3>2. k <= 8 => k \in 1..8
      BY <2>1
    <3>3. ~(k <= 8) => k - 8 \in 1..(N - 8) /\ 8 + (k - 8) = k
      BY <2>1
    <3> QED
      BY <2>2, <2>4, <3>1, <3>2, <3>3
  <2>7. x \o y = s
    BY <2>5, <2>6, SeqEqual DEF N
  <2>8. After(s, 8) = y
    BY DEF After, y, N
  <2> QED
    BY <2>3, <2>7, <2>8 DEF x
<1> QED
  BY <1>6, <1>8, <1>9

\* A byte fits a word, as it has no more digits.
LEMMA BytesFit == ByteSize <= WordSize
<1> DEFINE a == ByteDigits
           P(k) == Power(16, k)
           D == {d \in Nat : P(a) <= P(a + d)}
<1>1. /\ \A n \in Nat : P(n) \in Nat \ {0} /\ P(n + 1) = 16 * P(n)
      /\ a \in Nat /\ WordDigits \in Nat /\ a <= WordDigits
  <2>1. \A n \in Nat : P(n) \in Nat \ {0} /\ P(n + 1) = 16 * P(n)
    BY Powers
  <2>2. a \in Nat /\ WordDigits \in Nat /\ a <= WordDigits
    BY ArgsAssumption
  <2> QED
    BY <2>1, <2>2
<1> HIDE DEF P, a
<1>2. 0 \in D
  BY <1>1
<1>3. ASSUME NEW d \in Nat, d \in D PROVE d + 1 \in D
  <2>1. a + d \in Nat /\ (a + d) + 1 = a + (d + 1)
    BY <1>1
  <2>2. P(a + d) \in Nat /\ P(a + (d + 1)) = 16 * P(a + d) /\ P(a) \in Nat
    BY <1>1, <2>1
  <2>3. P(a) <= P(a + (d + 1))
    BY <1>3, <2>2
  <2> QED
    BY <2>3
<1>4. \A d \in Nat : P(a) <= P(a + d)
  <2>1. D \subseteq Nat /\ \A d \in D : d + 1 \in D
    BY <1>3
  <2> HIDE DEF D
  <2>2. D = Nat
    BY <1>2, <2>1, NatSetInduction
  <2> QED
    BY <2>2 DEF D
<1>5. WordDigits - a \in Nat /\ a + (WordDigits - a) = WordDigits
  BY <1>1
<1> QED
  BY <1>4, <1>5, Sizes DEF P, a, ByteSize, WordSize

\* What the guest reads is a byte.
LEMMA GuestReads ==
  ASSUME TypeOK, NEW a \in 0..(GuestSize - 1)
  PROVE  /\ cpu6502_read(a) \in 0..(ByteSize - 1)
         /\ a \notin {VicRaster, Cia1Prb} => cpu6502_read(a) = GuestRam[a]
<1> DEFINE x == (raster_counter + 1) % PalRasterLines
           B == ByteSize
<1>1. x \in Nat /\ B \in Nat \ {0} /\ GuestRam[a] \in 0..(B - 1)
  <2>1. raster_counter + 1 \in Nat /\ PalRasterLines \in Nat \ {0}
    BY ArgsAssumption DEF TypeOK
  <2>2. x \in 0..(PalRasterLines - 1)
    BY <2>1, Division
  <2> QED
    BY <2>1, <2>2, ArgsAssumption, Sizes
<1>2. x % B \in 0..(B - 1) /\ B - 1 \in 0..(B - 1)
  <2> HIDE DEF x, B
  <2> QED
    BY <1>1, Division
<1>3. cpu6502_read(a) = CASE a = VicRaster -> x % B
                          [] a = Cia1Prb   -> B - 1
                          [] OTHER         -> GuestRam[a]
  BY DEF cpu6502_read
<1> QED
  BY <1>1, <1>2, <1>3

\* What most commands leave alone.
Same == UNCHANGED <<memory, raster_counter>>

\* The first n words are there, the name and numbers.
Given(t, n) == Len(t) >= n /\ \A k \in 2..n : parse_number(t[k]).ok

\* The bytes that a dump reads, of the machine's memory and of the guest's.
DumpBytes(t) ==
  [k \in 1..AtMost(parse_number(t[3]).val, DumpMax) |->
     memory[(parse_number(t[2]).val + k - 1) % WordSize]]

C64MemBytes(t) ==
  [k \in 1..AtMost(parse_number(t[3]).val, C64MemMax) |->
     cpu6502_read((parse_number(t[2]).val + k - 1) % GuestSize)]

\* A command that complains, POKE, one that shows memory, and any other.
Refused(t) ==
  /\ Same
  /\ \/ Says("usage", <<>>) /\ Len(t) < 3
     \/ Says("bad", <<>>) /\ \E n \in 2..3 : n <= Len(t) /\ ~parse_number(t[n]).ok

Poked(t) ==
  /\ SameWord(t[1], Names.poke) /\ Given(t, 3) /\ Says("poke", <<>>)
  /\ memory' = [memory EXCEPT ![parse_number(t[2]).val] = parse_number(t[3]).val % ByteSize]
  /\ UNCHANGED raster_counter

Shown(t) ==
  /\ ~SameWord(t[1], Names.poke) /\ UNCHANGED memory
  /\ \/ /\ Given(t, 2) /\ UNCHANGED raster_counter
        /\ LET addr == parse_number(t[2]).val
           IN  Says("peek", <<console_print_hex(addr), console_print_hex(memory[addr]),
                              console_print_dec(memory[addr])>>)
     \/ /\ Given(t, 3) /\ UNCHANGED raster_counter
        /\ Says("dump", Rows(parse_number(t[2]).val, DumpBytes(t)))
     \/ /\ Given(t, 3)
        /\ Says("c64mem", Rows(parse_number(t[2]).val, C64MemBytes(t)))
        /\ raster_counter' \in {raster_counter, (raster_counter + 1) % PalRasterLines}

Passed(t) ==
  /\ ~SameWord(t[1], Names.poke) /\ Same
  /\ \/ \E n \in Nat : n < WordSize /\ Says("trace", <<console_print_dec(n)>>)
     \/ Len(t) >= 2 /\ Says("file", <<t[2]>>)
     \/ Len(t) >= 2 /\ t[2] # <<>> /\ Says("key", <<<<t[2][1]>>>>)
     \/ Says("plain", <<>>)
     \/ Says("unknown", <<t[1]>>)

\* What becomes of a line, of which t are the words.
LEMMA Executed ==
  ASSUME NEW s \in Seq(Char), NEW t, t = tokenize(s), shell_execute(s)
  PROVE  \/ SameStart(s, TypePrefix) /\ Says("type", <<After(s, 8)>>) /\ Same
         \/ t = <<>> /\ Says("nothing", <<>>) /\ Same
         \/ t # <<>> /\ (Refused(t) \/ Poked(t) \/ Shown(t) \/ Passed(t))
<1> DEFINE Named(name) == SameWord(t[1], Names[name])
<1>1. Len(t) \in Nat /\ (t # <<>> => Len(t) >= 1)
  BY TokensAreWords
<1>2. \A n \in 1..Len(t) : parse_number(t[n]).val \in 0..(WordSize - 1)
  BY ArgumentRead
<1>3. /\ Named("poke") <=> SameWord(t[1], Names.poke)
      /\ Named("poke") => ~Named("trace") /\ ~Named("c64mem") /\ ~Named("key")
                          /\ ~Named("file") /\ ~Named("peek") /\ ~Named("dump")
  BY DEF SameWord, Names
<1>4. CASE SameStart(s, TypePrefix)
  BY <1>4 DEF shell_execute, cmd_c64type, Same
<1>5. CASE ~SameStart(s, TypePrefix) /\ t = <<>>
  BY <1>5 DEF shell_execute, Same
<1>6. CASE ~SameStart(s, TypePrefix) /\ t # <<>>
  <2>1. Refused(t) \/ Poked(t) \/ Shown(t) \/ Passed(t)
    <3>1. CASE Named("trace") /\ cmd_c64trace(t)
      <4> DEFINE n == IF Len(t) < 2 THEN [ok |-> TRUE, val |-> TraceDefault] ELSE parse_number(t[2])
                 v == n.val
      <4>1. CASE ~n.ok
        BY <1>1, <3>1, <4>1 DEF cmd_c64trace, Bad, Refused, Same
      <4>2. CASE n.ok
        <5>1. v \in Nat /\ v < WordSize
          <6>1. CASE Len(t) < 2
            BY <6>1, ArgsAssumption
          <6>2. CASE ~(Len(t) < 2)
            BY <1>1, <1>2, <6>2, Sizes
          <6> QED
            BY <6>1, <6>2
        <5>2. AtMost(v, TraceMax) \in Nat /\ AtMost(v, TraceMax) < WordSize
          BY <5>1, ArgsAssumption, Sizes DEF AtMost
        <5>3. Says("trace", <<console_print_dec(AtMost(v, TraceMax))>>) /\ Same
          BY <3>1, <4>2 DEF cmd_c64trace, Same
        <5> QED
          BY <1>3, <3>1, <5>2, <5>3 DEF Passed
      <4> QED
        BY <4>1, <4>2
    <3>2. CASE Named("c64mem") /\ cmd_c64mem(t)
      <4>1. CASE Len(t) < 3
        BY <1>1, <3>2, <4>1 DEF cmd_c64mem, Usage, Refused, Same
      <4>2. CASE Len(t) >= 3 /\ ~(parse_number(t[2]).ok /\ parse_number(t[3]).ok)
        <5>1. Bad
          BY <1>1, <3>2, <4>2 DEF cmd_c64mem
        <5> QED
          BY <1>1, <4>2, <5>1 DEF Bad, Refused, Same
      <4>3. CASE Len(t) >= 3 /\ parse_number(t[2]).ok /\ parse_number(t[3]).ok
        <5>1. /\ Says("c64mem", Rows(parse_number(t[2]).val, C64MemBytes(t)))
              /\ raster_counter' \in {raster_counter, (raster_counter + 1) % PalRasterLines}
              /\ UNCHANGED memory
          BY <1>1, <3>2, <4>3 DEF cmd_c64mem, C64MemBytes
        <5>2. Given(t, 3)
          BY <4>3 DEF Given
        <5> QED
          BY <1>3, <3>2, <5>1, <5>2 DEF Shown
      <4> QED
        BY <1>1, <4>1, <4>2, <4>3
    <3>3. CASE Named("key") /\ cmd_c64key(t)
      <4>1. CASE Len(t) < 2 \/ t[2] = <<>>
        <5>1. Len(t) < 2
          BY <1>1, <4>1, TokensAreWords
        <5> QED
          BY <1>1, <3>3, <5>1 DEF cmd_c64key, Usage, Refused, Same
      <4>2. CASE ~(Len(t) < 2 \/ t[2] = <<>>)
        BY <1>1, <1>3, <3>3, <4>2 DEF cmd_c64key, Passed, Same
      <4> QED
        BY <4>1, <4>2
    <3>4. CASE Named("file") /\ cmd_type(t)
      BY <1>1, <1>3, <3>4 DEF cmd_type, Usage, Refused, Passed, Same
    <3>5. CASE Named("peek") /\ cmd_peek(t)
      <4>1. CASE Len(t) < 2
        BY <1>1, <3>5, <4>1 DEF cmd_peek, Usage, Refused, Same
      <4>2. CASE Len(t) >= 2 /\ ~parse_number(t[2]).ok
        <5>1. Bad
          BY <1>1, <3>5, <4>2 DEF cmd_peek
        <5> QED
          BY <1>1, <4>2, <5>1 DEF Bad, Refused, Same
      <4>3. CASE Len(t) >= 2 /\ parse_number(t[2]).ok
        <5>1. /\ Same
              /\ LET addr == parse_number(t[2]).val
                 IN  Says("peek", <<console_print_hex(addr), console_print_hex(memory[addr]),
                                    console_print_dec(memory[addr])>>)
          BY <1>1, <3>5, <4>3 DEF cmd_peek, Same
        <5>2. Given(t, 2)
          BY <4>3 DEF Given
        <5> QED
          BY <1>3, <3>5, <5>1, <5>2 DEF Shown, Same
      <4> QED
        BY <1>1, <4>1, <4>2, <4>3
    <3>6. CASE Named("poke") /\ cmd_poke(t)
      <4>1. CASE Len(t) < 3
        BY <1>1, <3>6, <4>1 DEF cmd_poke, Usage, Refused, Same
      <4>2. CASE Len(t) >= 3 /\ ~(parse_number(t[2]).ok /\ parse_number(t[3]).ok)
        <5>1. Bad
          BY <1>1, <3>6, <4>2 DEF cmd_poke
        <5> QED
          BY <1>1, <4>2, <5>1 DEF Bad, Refused, Same
      <4>3. CASE Len(t) >= 3 /\ parse_number(t[2]).ok /\ parse_number(t[3]).ok
        <5>1. Given(t, 3)
          BY <4>3 DEF Given
        <5> QED
          BY <1>1, <1>3, <3>6, <4>3, <5>1 DEF cmd_poke, Poked
      <4> QED
        BY <1>1, <4>1, <4>2, <4>3
    <3>7. CASE Named("dump") /\ cmd_dump(t)
      <4>1. CASE Len(t) < 3
        BY <1>1, <3>7, <4>1 DEF cmd_dump, Usage, Refused, Same
      <4>2. CASE Len(t) >= 3 /\ ~(parse_number(t[2]).ok /\ parse_number(t[3]).ok)
        <5>1. Bad
          BY <1>1, <3>7, <4>2 DEF cmd_dump
        <5> QED
          BY <1>1, <4>2, <5>1 DEF Bad, Refused, Same
      <4>3. CASE Len(t) >= 3 /\ parse_number(t[2]).ok /\ parse_number(t[3]).ok
        <5>1. Says("dump", Rows(parse_number(t[2]).val, DumpBytes(t))) /\ Same
          BY <1>1, <3>7, <4>3 DEF cmd_dump, DumpBytes, Same
        <5>2. Given(t, 3)
          BY <4>3 DEF Given
        <5> QED
          BY <1>3, <3>7, <5>1, <5>2 DEF Shown, Same
      <4> QED
        BY <1>1, <4>1, <4>2, <4>3
    <3>8. CASE /\ \A name \in DOMAIN Names : ~Named(name)
               /\ IF \E name \in Plain : SameWord(t[1], name)
                  THEN Says("plain", <<>>) ELSE Says("unknown", <<t[1]>>)
               /\ UNCHANGED <<memory, raster_counter>>
      <4>1. ~SameWord(t[1], Names.poke)
        BY <1>3, <3>8 DEF Names
      <4> QED
        BY <3>8, <4>1 DEF Passed, Same
    <3> QED
      BY <1>6, <3>1, <3>2, <3>3, <3>4, <3>5, <3>6, <3>7, <3>8 DEF shell_execute
  <2> QED
    BY <1>6, <2>1
<1> QED
  BY <1>4, <1>5, <1>6

\* The line of t calls the command of that name.
Calls(t, name) == SameWord(t[1], Names[name])

\* No two names are the same.
LEMMA NamesDiffer ==
  /\ \A a, b \in DOMAIN Names : Names[a] = Names[b] => a = b
  /\ \A a \in DOMAIN Names : Names[a] \notin Plain
  /\ DOMAIN Needs \subseteq DOMAIN Names
<1>1. DOMAIN Names = {"peek", "poke", "dump", "file", "c64mem", "key", "trace"}
  BY DEF Names
<1>2. \A a, b \in DOMAIN Names : Names[a] = Names[b] => a = b
  BY <1>1 DEF Names
<1>3. ASSUME NEW a \in DOMAIN Names PROVE Names[a] \notin Plain
  BY <1>1 DEF Names, Plain
<1>4. DOMAIN Needs \subseteq DOMAIN Names
  BY <1>1 DEF Needs
<1> QED
  BY <1>2, <1>3, <1>4

\* A command answers in its own way, and complains as its usage says.
Answers(t, name) ==
  /\ reply'.kind \in {name, "usage", "bad"}
  /\ reply'.kind = "usage" <=> name \in DOMAIN Needs /\ Len(t) < Needs[name]

\* What kind of answer a line gets.
LEMMA Replied ==
  ASSUME NEW s \in Seq(Char), NEW t, t = tokenize(s), shell_execute(s),
         ~SameStart(s, TypePrefix), t # <<>>
  PROVE  \/ \E name \in DOMAIN Names : Calls(t, name) /\ Answers(t, name)
         \/ /\ \A name \in DOMAIN Names : ~Calls(t, name)
            /\ reply'.kind = IF \E name \in Plain : SameWord(t[1], name) THEN "plain" ELSE "unknown"
<1>1. Len(t) \in Nat /\ (Len(t) >= 2 => t[2] # <<>>)
  BY TokensAreWords
<1>2. /\ DOMAIN Names = {"peek", "poke", "dump", "file", "c64mem", "key", "trace"}
      /\ DOMAIN Needs = {"peek", "poke", "dump", "file", "c64mem", "key"}
      /\ Needs["peek"] = 2 /\ Needs["file"] = 2 /\ Needs["key"] = 2
      /\ Needs["poke"] = 3 /\ Needs["dump"] = 3 /\ Needs["c64mem"] = 3
  BY DEF Names, Needs
<1>3. \/ Calls(t, "trace") /\ cmd_c64trace(t)
      \/ Calls(t, "c64mem") /\ cmd_c64mem(t)
      \/ Calls(t, "key") /\ cmd_c64key(t)
      \/ Calls(t, "file") /\ cmd_type(t)
      \/ Calls(t, "peek") /\ cmd_peek(t)
      \/ Calls(t, "poke") /\ cmd_poke(t)
      \/ Calls(t, "dump") /\ cmd_dump(t)
      \/ /\ \A name \in DOMAIN Names : ~Calls(t, name)
         /\ IF \E name \in Plain : SameWord(t[1], name)
            THEN Says("plain", <<>>) ELSE Says("unknown", <<t[1]>>)
  BY DEF shell_execute, Calls
<1>4. cmd_c64trace(t) => Answers(t, "trace")
  BY <1>2 DEF cmd_c64trace, Bad, Says, Answers
<1>5. cmd_c64mem(t) => Answers(t, "c64mem")
  BY <1>1, <1>2 DEF cmd_c64mem, Usage, Bad, Says, Answers
<1>6. cmd_c64key(t) => Answers(t, "key")
  BY <1>1, <1>2 DEF cmd_c64key, Usage, Says, Answers
<1>7. cmd_type(t) => Answers(t, "file")
  BY <1>1, <1>2 DEF cmd_type, Usage, Says, Answers
<1>8. cmd_peek(t) => Answers(t, "peek")
  BY <1>1, <1>2 DEF cmd_peek, Usage, Bad, Says, Answers
<1>9. cmd_poke(t) => Answers(t, "poke")
  BY <1>1, <1>2 DEF cmd_poke, Usage, Bad, Says, Answers
<1>10. cmd_dump(t) => Answers(t, "dump")
  BY <1>1, <1>2 DEF cmd_dump, Usage, Bad, Says, Answers
<1>11. ASSUME \A name \in DOMAIN Names : ~Calls(t, name),
              IF \E name \in Plain : SameWord(t[1], name)
              THEN Says("plain", <<>>) ELSE Says("unknown", <<t[1]>>)
       PROVE  reply'.kind = IF \E name \in Plain : SameWord(t[1], name) THEN "plain" ELSE "unknown"
  BY <1>11 DEF Says
<1> QED
  BY <1>2, <1>3, <1>4, <1>5, <1>6, <1>7, <1>8, <1>9, <1>10, <1>11

\* A line is entered in a state of the right type.
LEMMA EnterIs ==
  ASSUME TypeOK, Enter
  PROVE  /\ line' \in Seq(Char) /\ shell_execute(line')
         /\ commands' \in 0..MaxCommands
<1>1. MaxCommands \in Nat /\ \A n \in 1..MaxCommands : Lines[n] \subseteq Seq(Char)
  BY ArgsAssumption
<1>2. commands + 1 \in 1..MaxCommands /\ commands' = commands + 1
  BY <1>1 DEF Enter, TypeOK
<1>3. PICK s \in Lines[commands + 1] : line' = s /\ shell_execute(s)
  BY DEF Enter
<1>4. line' \in Seq(Char)
  BY <1>1, <1>2, <1>3
<1> QED
  BY <1>2, <1>3, <1>4

\* The bytes a dump shows.
LEMMA BytesShown ==
  ASSUME TypeOK, NEW s \in Seq(Char), NEW t, t = tokenize(s), Given(t, 3)
  PROVE  /\ parse_number(t[2]).val = Read(s, 2) /\ parse_number(t[3]).val = Read(s, 3)
         /\ Read(s, 2) \in 0..(WordSize - 1) /\ Read(s, 3) \in 0..(WordSize - 1)
         /\ AtMost(Read(s, 3), DumpMax) \in Nat
         /\ DumpBytes(t) \in [1..AtMost(Read(s, 3), DumpMax) -> 0..(ByteSize - 1)]
         /\ AtMost(Read(s, 3), C64MemMax) \in Nat
         /\ C64MemBytes(t) \in [1..AtMost(Read(s, 3), C64MemMax) -> 0..(ByteSize - 1)]
<1>1. 2 \in 1..Len(t) /\ 3 \in 1..Len(t) /\ parse_number(t[2]).ok /\ parse_number(t[3]).ok
  BY TokensAreWords DEF Given
<1>2. /\ parse_number(t[2]).val = Read(s, 2) /\ parse_number(t[3]).val = Read(s, 3)
      /\ Read(s, 2) \in 0..(WordSize - 1) /\ Read(s, 3) \in 0..(WordSize - 1)
  BY <1>1, ArgumentRead
<1>3. AtMost(Read(s, 3), DumpMax) \in Nat /\ AtMost(Read(s, 3), C64MemMax) \in Nat
  BY <1>2, ArgsAssumption, Sizes DEF AtMost
<1> DEFINE A == Read(s, 2)
           W == WordSize
           G == GuestSize
<1>4. A \in Nat /\ W \in Nat \ {0} /\ G \in Nat \ {0}
  BY <1>2, Sizes
<1>5. ASSUME NEW k \in Nat \ {0}
      PROVE  (A + k - 1) % W \in 0..(W - 1) /\ (A + k - 1) % G \in 0..(G - 1)
  <2> DEFINE x == A + k - 1
  <2> HIDE DEF A, W, G
  <2>1. x \in Nat
    BY <1>4
  <2> HIDE DEF x
  <2>2. x % W \in 0..(W - 1) /\ x % G \in 0..(G - 1)
    BY <1>4, <2>1, Division
  <2> QED
    BY <2>2 DEF x
<1>6. \A k \in Nat \ {0} : memory[(A + k - 1) % W] \in 0..(ByteSize - 1)
  BY <1>5 DEF TypeOK
<1>7. \A k \in Nat \ {0} : cpu6502_read((A + k - 1) % G) \in 0..(ByteSize - 1)
  BY <1>5, GuestReads
<1>8. DumpBytes(t) \in [1..AtMost(Read(s, 3), DumpMax) -> 0..(ByteSize - 1)]
  <2>1. DumpBytes(t) = [k \in 1..AtMost(Read(s, 3), DumpMax) |-> memory[(A + k - 1) % W]]
    BY <1>2 DEF DumpBytes
  <2>2. \A k \in 1..AtMost(Read(s, 3), DumpMax) : k \in Nat \ {0}
    BY <1>3
  <2> QED
    BY <1>6, <2>1, <2>2
<1>9. C64MemBytes(t) \in [1..AtMost(Read(s, 3), C64MemMax) -> 0..(ByteSize - 1)]
  <2>1. C64MemBytes(t) = [k \in 1..AtMost(Read(s, 3), C64MemMax) |-> cpu6502_read((A + k - 1) % G)]
    BY <1>2 DEF C64MemBytes
  <2>2. \A k \in 1..AtMost(Read(s, 3), C64MemMax) : k \in Nat \ {0}
    BY <1>3
  <2> QED
    BY <1>7, <2>1, <2>2
<1> QED
  BY <1>2, <1>3, <1>8, <1>9

\* What PEEK shows.
LEMMA PeekShown ==
  ASSUME TypeOK, NEW s \in Seq(Char), NEW t, t = tokenize(s), Given(t, 2)
  PROVE  /\ parse_number(t[2]).val = Read(s, 2)
         /\ ReadsBack(console_print_hex(Read(s, 2)), Read(s, 2))
         /\ memory[Read(s, 2)] \in 0..(ByteSize - 1)
         /\ ReadsBack(console_print_hex(memory[Read(s, 2)]), memory[Read(s, 2)])
         /\ ReadsBack(console_print_dec(memory[Read(s, 2)]), memory[Read(s, 2)])
<1>1. 2 \in 1..Len(t) /\ parse_number(t[2]).ok
  BY TokensAreWords DEF Given
<1>2. parse_number(t[2]).val = Read(s, 2) /\ Read(s, 2) \in 0..(WordSize - 1)
  BY <1>1, ArgumentRead
<1>3. memory[Read(s, 2)] \in 0..(ByteSize - 1)
  BY <1>2 DEF TypeOK
<1>4. memory[Read(s, 2)] \in 0..(WordSize - 1)
  BY <1>3, BytesFit, Sizes
<1> QED
  BY <1>2, <1>3, <1>4, HexReadsBack, DecReadsBack

\* What is printed.
Texts(kind, texts) ==
  \A n \in DOMAIN texts : \A k \in DOMAIN texts[n] :
    texts[n][k] \in IF kind \in {"dump", "c64mem"} THEN Seq(Char) ELSE Char

\* What is replied.
Kinds == {"nothing", "usage", "bad", "peek", "poke", "dump", "c64mem", "trace",
          "file", "key", "type", "plain", "unknown"}

\* A line keeps every variable's type.
LEMMA EnterTypes == ASSUME TypeOK, Enter PROVE TypeOK'
<1> DEFINE s == line'
           t == tokenize(s)
<1>1. s \in Seq(Char) /\ shell_execute(s) /\ commands' \in 0..MaxCommands
  BY EnterIs
<1>2. /\ t \in Seq(Seq(Char) \ {<<>>})
      /\ Len(t) \in Nat
  BY <1>1, TokensAreWords
<1> SUFFICES /\ memory' \in [0..(WordSize - 1) -> 0..(ByteSize - 1)]
             /\ raster_counter' \in 0..(PalRasterLines - 1)
             /\ \E kind \in Kinds : \E texts : Says(kind, texts) /\ Texts(kind, texts)
  BY <1>1 DEF TypeOK, Says, Texts, Kinds
<1> DEFINE Fine == \E kind \in Kinds : \E texts : Says(kind, texts) /\ Texts(kind, texts)
<1>3. ASSUME NEW kind \in Kinds, Says(kind, <<>>) PROVE Fine
  BY <1>3 DEF Texts
<1>4. ASSUME NEW kind \in Kinds \ {"dump", "c64mem"}, NEW w \in Seq(Char), Says(kind, <<w>>)
      PROVE  Fine
  <2>1. \A n \in DOMAIN <<w>> : <<w>>[n] = w
    OBVIOUS
  <2>2. \A k \in DOMAIN w : w[k] \in Char
    OBVIOUS
  <2>3. Texts(kind, <<w>>)
    BY <2>1, <2>2 DEF Texts
  <2> QED
    BY <1>4, <2>3
<1>5. ASSUME NEW kind \in {"dump", "c64mem"}, NEW rows \in Seq(Seq(Seq(Char))), Says(kind, rows)
      PROVE  Fine
  <2>1. \A n \in DOMAIN rows : rows[n] \in Seq(Seq(Char))
    OBVIOUS
  <2>2. \A n \in DOMAIN rows : \A k \in DOMAIN rows[n] : rows[n][k] \in Seq(Char)
    BY <2>1
  <2>3. Texts(kind, rows) /\ kind \in Kinds
    BY <2>2 DEF Texts, Kinds
  <2> QED
    BY <1>5, <2>3
<1>6. ASSUME Same
      PROVE  /\ memory' \in [0..(WordSize - 1) -> 0..(ByteSize - 1)]
             /\ raster_counter' \in 0..(PalRasterLines - 1)
  BY <1>6 DEF Same, TypeOK
<1>7. CASE SameStart(s, TypePrefix) /\ Says("type", <<After(s, 8)>>) /\ Same
  <2>1. After(s, 8) \in Seq(Char) /\ "type" \in Kinds \ {"dump", "c64mem"}
    BY <1>1, <1>7, TypeLine DEF Kinds
  <2> QED
    BY <1>4, <1>6, <1>7, <2>1
<1>8. CASE t = <<>> /\ Says("nothing", <<>>) /\ Same
  BY <1>3, <1>6, <1>8 DEF Kinds
<1>9. CASE Refused(t)
  <2>1. Same /\ \E kind \in Kinds : Says(kind, <<>>)
    BY <1>9 DEF Refused, Kinds
  <2> QED
    BY <1>3, <1>6, <2>1
<1>10. CASE Poked(t)
  <2> DEFINE a == parse_number(t[2]).val
             v == parse_number(t[3]).val
  <2>1. 2 \in 1..Len(t) /\ 3 \in 1..Len(t)
    BY <1>2, <1>10 DEF Poked, Given
  <2>2. a \in 0..(WordSize - 1) /\ v \in Nat
    BY <1>1, <2>1, ArgumentRead, Sizes
  <2>3. v % ByteSize \in 0..(ByteSize - 1)
    <3> DEFINE B == ByteSize
    <3>1. B \in Nat \ {0}
      BY Sizes
    <3> HIDE DEF B, v
    <3>2. v % B \in 0..(B - 1)
      BY <2>2, <3>1, Division
    <3> QED
      BY <3>2 DEF B
  <2>4. memory' = [memory EXCEPT ![a] = v % ByteSize] /\ UNCHANGED raster_counter /\ Says("poke", <<>>)
    BY <1>10 DEF Poked
  <2> HIDE DEF a, v
  <2>5. memory' \in [0..(WordSize - 1) -> 0..(ByteSize - 1)]
    BY <2>2, <2>3, <2>4 DEF TypeOK
  <2>6. raster_counter' \in 0..(PalRasterLines - 1) /\ "poke" \in Kinds
    BY <2>4 DEF TypeOK, Kinds
  <2> QED
    BY <1>3, <2>4, <2>5, <2>6
<1>11. CASE Shown(t)
  <2>1. memory' \in [0..(WordSize - 1) -> 0..(ByteSize - 1)]
    BY <1>11 DEF Shown, TypeOK
  <2>2. raster_counter' \in 0..(PalRasterLines - 1)
    <3>1. raster_counter' \in {raster_counter, (raster_counter + 1) % PalRasterLines}
      BY <1>11 DEF Shown
    <3>2. raster_counter + 1 \in Nat /\ PalRasterLines \in Nat \ {0}
      BY ArgsAssumption DEF TypeOK
    <3>3. (raster_counter + 1) % PalRasterLines \in 0..(PalRasterLines - 1)
      BY <3>2, Division
    <3> QED
      BY <3>1, <3>3 DEF TypeOK
  <2>3. CASE /\ Given(t, 2)
             /\ LET addr == parse_number(t[2]).val
                IN  Says("peek", <<console_print_hex(addr), console_print_hex(memory[addr]),
                                   console_print_dec(memory[addr])>>)
    <3> DEFINE addr == Read(s, 2)
               x == console_print_hex(addr)
               y == console_print_hex(memory[addr])
               z == console_print_dec(memory[addr])
    <3>1. x \in Seq(Char) /\ y \in Seq(Char) /\ z \in Seq(Char) /\ parse_number(t[2]).val = addr
      BY <1>1, <2>3, PeekShown DEF ReadsBack
    <3>2. Says("peek", <<x, y, z>>)
      BY <2>3, <3>1
    <3> HIDE DEF x, y, z, addr
    <3>3. \A n \in DOMAIN <<x, y, z>> : <<x, y, z>>[n] \in Seq(Char)
      BY <3>1
    <3>4. \A n \in DOMAIN <<x, y, z>> : \A k \in DOMAIN (<<x, y, z>>[n]) : <<x, y, z>>[n][k] \in Char
      BY <3>3
    <3>5. Texts("peek", <<x, y, z>>) /\ "peek" \in Kinds
      BY <3>4 DEF Texts, Kinds
    <3> QED
      BY <2>1, <2>2, <3>2, <3>5
  <2>4. CASE Given(t, 3) /\ Says("dump", Rows(parse_number(t[2]).val, DumpBytes(t)))
    <3>1. /\ parse_number(t[2]).val \in 0..(WordSize - 1) /\ AtMost(Read(s, 3), DumpMax) \in Nat
          /\ DumpBytes(t) \in [1..AtMost(Read(s, 3), DumpMax) -> 0..(ByteSize - 1)]
      BY <1>1, <2>4, BytesShown
    <3>2. parse_number(t[2]).val \in Nat
      BY <3>1, Sizes
    <3>3. Rows(parse_number(t[2]).val, DumpBytes(t)) \in Seq(Seq(Seq(Char)))
      BY <3>1, <3>2, RowsAre DEF RowsShow
    <3> QED
      BY <1>5, <2>1, <2>2, <2>4, <3>3
  <2>5. CASE Given(t, 3) /\ Says("c64mem", Rows(parse_number(t[2]).val, C64MemBytes(t)))
    <3>1. /\ parse_number(t[2]).val \in 0..(WordSize - 1) /\ AtMost(Read(s, 3), C64MemMax) \in Nat
          /\ C64MemBytes(t) \in [1..AtMost(Read(s, 3), C64MemMax) -> 0..(ByteSize - 1)]
      BY <1>1, <2>5, BytesShown
    <3>2. parse_number(t[2]).val \in Nat
      BY <3>1, Sizes
    <3>3. Rows(parse_number(t[2]).val, C64MemBytes(t)) \in Seq(Seq(Seq(Char)))
      BY <3>1, <3>2, RowsAre DEF RowsShow
    <3> QED
      BY <1>5, <2>1, <2>2, <2>5, <3>3
  <2> QED
    BY <1>11, <2>3, <2>4, <2>5 DEF Shown
<1>12. CASE Passed(t) /\ t # <<>>
  <2>1. Same
    BY <1>12 DEF Passed
  <2>2. CASE Says("plain", <<>>)
    BY <1>3, <1>6, <2>1, <2>2 DEF Kinds
  <2>3. ASSUME NEW n \in Nat, n < WordSize, Says("trace", <<console_print_dec(n)>>) PROVE Fine
    <3>1. n \in 0..(WordSize - 1)
      BY <2>3, Sizes
    <3>2. console_print_dec(n) \in Seq(Char) /\ "trace" \in Kinds \ {"dump", "c64mem"}
      BY <3>1, DecReadsBack DEF ReadsBack, Kinds
    <3> QED
      BY <1>4, <2>3, <3>2
  <2>4. CASE Len(t) >= 2 /\ Says("file", <<t[2]>>)
    <3>1. t[2] \in Seq(Char) /\ "file" \in Kinds \ {"dump", "c64mem"}
      BY <1>2, <2>4 DEF Kinds
    <3> QED
      BY <1>4, <1>6, <2>1, <2>4, <3>1
  <2>5. CASE Len(t) >= 2 /\ t[2] # <<>> /\ Says("key", <<<<t[2][1]>>>>)
    <3>1. t[2] \in Seq(Char)
      BY <1>2, <2>5
    <3>2. <<t[2][1]>> \in Seq(Char) /\ "key" \in Kinds \ {"dump", "c64mem"}
      BY <2>5, <3>1 DEF Kinds
    <3> QED
      BY <1>4, <1>6, <2>1, <2>5, <3>2
  <2>6. CASE Says("unknown", <<t[1]>>)
    <3>1. t[1] \in Seq(Char) /\ "unknown" \in Kinds \ {"dump", "c64mem"}
      BY <1>2, <1>12 DEF Kinds
    <3> QED
      BY <1>4, <1>6, <2>1, <2>6, <3>1
  <2> QED
    BY <1>6, <1>12, <2>1, <2>2, <2>3, <2>4, <2>5, <2>6 DEF Passed
<1> QED
  BY <1>1, <1>7, <1>8, <1>9, <1>10, <1>11, <1>12, Executed

\* Every variable keeps its type.
THEOREM ArgsTypeCorrect == Spec => []TypeOK
<1>1. Init => TypeOK
  <2> SUFFICES ASSUME Init PROVE TypeOK
    OBVIOUS
  <2>1. memory \in [0..(WordSize - 1) -> 0..(ByteSize - 1)]
    BY Sizes DEF Init
  <2>2. raster_counter \in 0..(PalRasterLines - 1) /\ commands \in 0..MaxCommands
    BY ArgsAssumption DEF Init
  <2> QED
    BY <2>1, <2>2 DEF Init, TypeOK
<1>2. TypeOK /\ [Next]_vars => TypeOK'
  <2>1. ASSUME TypeOK, UNCHANGED vars PROVE TypeOK'
    BY <2>1 DEF TypeOK, vars
  <2> QED
    BY <2>1, EnterTypes DEF Next
<1> QED
  BY <1>1, <1>2, PTL DEF Spec

----------------------------------------------------------------------------
(* The properties.  What a line does says all of them, whatever was executed  *)
(* before it.                                                                 *)

\* The first word chooses the command, which complains if words are missing.
LEMMA RightCommand ==
  ASSUME TypeOK, Enter
  PROVE  /\ reply'.kind \in DOMAIN Names => Asked(Names[reply.kind])'
         /\ reply'.kind = "plain" <=> \E name \in Plain : Asked(name)'
         /\ reply'.kind = "unknown" => \A name \in DOMAIN Names : ~Asked(Names[name])'
         /\ reply'.kind = "usage" <=>
              \E name \in DOMAIN Needs : Asked(Names[name])' /\ NumWords(line') < Needs[name]
<1> DEFINE s == line'
           t == tokenize(s)
           kind == reply'.kind
           N == NumWords(s)
           W == WordOf(s, 1)
           Given1(name) == N # 0 /\ ~SameStart(s, TypePrefix) /\ SameWord(W, name)
<1>1. s \in Seq(Char) /\ shell_execute(s)
  BY EnterIs
<1>2. /\ N \in Nat /\ Len(t) \in Nat
      /\ Len(t) = IF N < 4 THEN N ELSE 4
      /\ t # <<>> => Len(t) >= 1 /\ t[1] = W
      /\ t = <<>> => Len(t) = 0
  BY <1>1, TokensAreWords
<1>3. t = <<>> <=> N = 0
  BY <1>2
<1>4. DOMAIN Names = {"peek", "poke", "dump", "file", "c64mem", "key", "trace"}
  BY DEF Names
<1>5. DOMAIN Needs = {"peek", "poke", "dump", "file", "c64mem", "key"}
      /\ \A name \in DOMAIN Needs : Needs[name] \in 2..3
  BY DEF Needs
<1> SUFFICES /\ kind \in DOMAIN Names => Given1(Names[kind])
             /\ kind = "plain" <=> \E name \in Plain : Given1(name)
             /\ kind = "unknown" => \A name \in DOMAIN Names : ~Given1(Names[name])
             /\ kind = "usage" <=> \E name \in DOMAIN Needs : Given1(Names[name]) /\ N < Needs[name]
  BY DEF Asked
<1>6. CASE SameStart(s, TypePrefix)
  <2>1. kind = "type"
    BY <1>1, <1>6 DEF shell_execute, cmd_c64type, Says
  <2> QED
    BY <1>4, <1>6, <2>1
<1>7. CASE ~SameStart(s, TypePrefix) /\ t = <<>>
  <2>1. kind = "nothing"
    BY <1>1, <1>7 DEF shell_execute, Says
  <2> QED
    BY <1>3, <1>4, <1>7, <2>1
<1>8. CASE ~SameStart(s, TypePrefix) /\ t # <<>>
  <2>1. \A name : Given1(name) <=> SameWord(t[1], name)
    BY <1>2, <1>3, <1>8
  <2>2. \A name \in DOMAIN Names : Given1(Names[name]) <=> Calls(t, name)
    BY <2>1 DEF Calls
  <2>3. \A name \in DOMAIN Needs : N < Needs[name] <=> Len(t) < Needs[name]
    BY <1>2, <1>5
  <2>4. CASE \E name \in DOMAIN Names : Calls(t, name) /\ Answers(t, name)
    <3>1. PICK name \in DOMAIN Names : Calls(t, name) /\ Answers(t, name)
      BY <2>4
    <3>2. \A other \in DOMAIN Names : Calls(t, other) => other = name
      BY <3>1, NamesDiffer DEF Calls, SameWord
    <3>3. \A other \in Plain : ~SameWord(t[1], other)
      BY <3>1, NamesDiffer DEF Calls, SameWord
    <3>4. kind \in {name, "usage", "bad"} /\ (kind = "usage" <=> name \in DOMAIN Needs /\ Len(t) < Needs[name])
      BY <3>1 DEF Answers
    <3> HIDE DEF Given1, kind, N, t, W
    <3>5. kind \in DOMAIN Names => Given1(Names[kind])
      BY <1>4, <2>2, <3>1, <3>4
    <3>6. kind # "plain" /\ kind # "unknown" /\ ~\E other \in Plain : Given1(other)
      BY <1>4, <2>1, <3>3, <3>4
    <3>7. kind = "usage" <=> \E other \in DOMAIN Needs : Given1(Names[other]) /\ N < Needs[other]
      BY <2>2, <2>3, <3>1, <3>2, <3>4, NamesDiffer
    <3> QED
      BY <3>5, <3>6, <3>7
  <2>5. CASE /\ \A name \in DOMAIN Names : ~Calls(t, name)
             /\ kind = IF \E name \in Plain : SameWord(t[1], name) THEN "plain" ELSE "unknown"
    <3> HIDE DEF Given1, kind, N, t, W
    <3> QED
      BY <1>4, <2>1, <2>2, <2>5, NamesDiffer
  <2> QED
    BY <1>1, <1>8, <2>4, <2>5, Replied
<1> QED
  BY <1>6, <1>7, <1>8

\* The words in the reply are the line's.
LEMMA WordsPassed ==
  ASSUME TypeOK, Enter
  PROVE  /\ reply'.kind = "unknown" => reply'.texts = <<WordOf(line', 1)>>
         /\ reply'.kind = "file" => reply'.texts = <<WordOf(line', 2)>>
         /\ reply'.kind = "key" => reply'.texts = <<SubSeq(WordOf(line', 2), 1, 1)>>
         /\ reply'.kind = "type" => SubSeq(line', 1, 8) \o reply'.texts[1] = line'
         /\ reply'.kind = "nothing" <=> NumWords(line') = 0
<1> DEFINE s == line'
           t == tokenize(s)
<1>1. s \in Seq(Char) /\ shell_execute(s)
  BY EnterIs
<1>2. /\ NumWords(s) \in Nat /\ Len(t) \in Nat
      /\ Len(t) = IF NumWords(s) < 4 THEN NumWords(s) ELSE 4
      /\ \A n \in 1..Len(t) : t[n] = WordOf(s, n) /\ t[n] \in Seq(Char) \ {<<>>}
      /\ t # <<>> => Len(t) >= 1
      /\ t = <<>> => Len(t) = 0
  BY <1>1, TokensAreWords
<1>3. (t = <<>>) <=> (NumWords(s) = 0)
  BY <1>2
<1> HIDE DEF t
<1>4. CASE SameStart(s, TypePrefix) /\ Says("type", <<After(s, 8)>>) /\ Same
  <2>1. NumWords(s) # 0 /\ SubSeq(s, 1, 8) \o After(s, 8) = s
    BY <1>1, <1>4, TypeLine
  <2> QED
    BY <1>4, <2>1 DEF Says
<1>5. CASE t = <<>> /\ Says("nothing", <<>>) /\ Same
  BY <1>3, <1>5 DEF Says
<1>6. CASE t # <<>> /\ Refused(t)
  BY <1>3, <1>6 DEF Refused, Says
<1>7. CASE t # <<>> /\ Poked(t)
  BY <1>3, <1>7 DEF Poked, Says
<1>8. CASE t # <<>> /\ Shown(t)
  BY <1>3, <1>8 DEF Shown, Says
<1>9. CASE t # <<>> /\ Passed(t)
  <2>1. CASE Len(t) >= 2 /\ Says("file", <<t[2]>>)
    BY <1>2, <1>3, <1>9, <2>1 DEF Says
  <2>2. CASE Len(t) >= 2 /\ t[2] # <<>> /\ Says("key", <<<<t[2][1]>>>>)
    <3>1. t[2] = WordOf(s, 2) /\ t[2] \in Seq(Char) /\ t[2] # <<>>
      BY <1>2, <2>2
    <3>2. SubSeq(t[2], 1, 1) = <<t[2][1]>>
      <4> DEFINE w == t[2]
      <4>1. w \in Seq(Char) /\ Len(w) >= 1
        BY <3>1
      <4> HIDE DEF w
      <4>2. SubSeq(w, 1, 1) \in Seq(Char) /\ Len(SubSeq(w, 1, 1)) = 1 /\ SubSeq(w, 1, 1)[1] = w[1]
        BY <4>1
      <4>3. w[1] \in Char
        BY <4>1
      <4>4. <<w[1]>> \in Seq(Char) /\ Len(<<w[1]>>) = 1 /\ <<w[1]>>[1] = w[1]
        BY <4>3
      <4>5. \A k \in 1..1 : SubSeq(w, 1, 1)[k] = <<w[1]>>[k]
        BY <4>2, <4>4
      <4>6. SubSeq(w, 1, 1) = <<w[1]>>
        BY <4>2, <4>4, <4>5, SeqEqual
      <4> QED
        BY <4>6 DEF w
    <3> QED
      BY <1>3, <1>9, <2>2, <3>1, <3>2 DEF Says
  <2>3. CASE Says("unknown", <<t[1]>>)
    <3>1. t[1] = WordOf(s, 1)
      BY <1>2, <1>9
    <3> QED
      BY <1>3, <1>9, <2>3, <3>1 DEF Says
  <2>4. CASE Says("plain", <<>>) \/ \E n \in Nat : Says("trace", <<console_print_dec(n)>>)
    BY <1>3, <1>9, <2>4 DEF Says
  <2> QED
    BY <1>9, <2>1, <2>2, <2>3, <2>4 DEF Passed
<1> QED
  BY <1>1, <1>4, <1>5, <1>6, <1>7, <1>8, <1>9, Executed DEF t

\* The command is the one asked for, and its words are the line's.
LEMMA EnterWords == ASSUME TypeOK, Enter PROVE WordsReachCommand'
<1>1. /\ reply'.kind \in DOMAIN Names => Asked(Names[reply.kind])'
      /\ reply'.kind = "plain" <=> \E name \in Plain : Asked(name)'
      /\ reply'.kind = "unknown" => \A name \in DOMAIN Names : ~Asked(Names[name])'
      /\ reply'.kind = "usage" <=>
           \E name \in DOMAIN Needs : Asked(Names[name])' /\ NumWords(line') < Needs[name]
  BY RightCommand
<1> QED
  BY <1>1, WordsPassed DEF WordsReachCommand

\* PEEK shows the argument and the byte there.
LEMMA EnterNumbers == ASSUME TypeOK, Enter PROVE NumbersReadBack'
<1> DEFINE s == line'
           t == tokenize(s)
<1>1. s \in Seq(Char) /\ shell_execute(s)
  BY EnterIs
<1>2. NumWords(s) \in Nat /\ Len(t) \in Nat /\ Len(t) <= NumWords(s)
  BY <1>1, TokensAreWords
<1>3. CASE reply'.kind \notin {"peek", "bad"}
  BY <1>3 DEF NumbersReadBack
<1>4. CASE Says("bad", <<>>) /\ \E n \in 2..3 : n <= Len(t) /\ ~parse_number(t[n]).ok
  <2>1. PICK n \in 2..3 : n <= Len(t) /\ ~parse_number(t[n]).ok
    BY <1>4
  <2>2. n \in 1..Len(t) /\ n \in 2..NumWords(s)
    BY <1>2, <2>1
  <2>3. StandsFor(WordOf(s, n)) = {}
    BY <1>1, <2>1, <2>2, ArgumentRead
  <2> QED
    BY <1>4, <2>2, <2>3 DEF Says, NumbersReadBack
<1>5. CASE /\ UNCHANGED memory /\ Given(t, 2)
           /\ LET addr == parse_number(t[2]).val
              IN  Says("peek", <<console_print_hex(addr), console_print_hex(memory[addr]),
                                 console_print_dec(memory[addr])>>)
  <2> DEFINE a == Read(s, 2)
             v == memory[a]
             x == console_print_hex(a)
             y == console_print_hex(v)
             z == console_print_dec(v)
  <2>1. parse_number(t[2]).val = a /\ ReadsBack(x, a) /\ ReadsBack(y, v) /\ ReadsBack(z, v)
    BY <1>1, <1>5, PeekShown
  <2>2. Argument(2)' = a /\ memory'[Argument(2)'] = v
    BY <1>5 DEF Argument, Read
  <2>3. reply'.kind = "peek" /\ reply'.texts = <<x, y, z>>
    BY <1>5, <2>1 DEF Says
  <2> HIDE DEF a, v, x, y, z
  <2>4. /\ StandsFor(reply'.texts[1]) = {a} /\ StandsFor(reply'.texts[2]) = {v}
        /\ StandsFor(reply'.texts[3]) = {v}
    BY <2>1, <2>3 DEF ReadsBack
  <2>5. \A n \in 1..3 : {parse_number(reply'.texts[n]).val} = StandsFor(reply'.texts[n])
    <3>1. \A n \in 1..3 : n \in {1, 2, 3}
      OBVIOUS
    <3> QED
      BY <2>1, <2>3, <3>1 DEF ReadsBack
  <2> QED
    BY <2>2, <2>3, <2>4, <2>5 DEF NumbersReadBack
<1>6. reply'.kind \in {"peek", "bad"} =>
        \/ Says("bad", <<>>) /\ \E n \in 2..3 : n <= Len(t) /\ ~parse_number(t[n]).ok
        \/ /\ UNCHANGED memory /\ Given(t, 2)
           /\ LET addr == parse_number(t[2]).val
              IN  Says("peek", <<console_print_hex(addr), console_print_hex(memory[addr]),
                                 console_print_dec(memory[addr])>>)
  <2> HIDE DEF t
  <2>1. CASE Refused(t)
    BY <2>1 DEF Refused, Says
  <2>2. CASE Poked(t)
    BY <2>2 DEF Poked, Says
  <2>3. CASE Shown(t)
    BY <2>3 DEF Shown, Says
  <2>4. CASE Passed(t)
    BY <2>4 DEF Passed, Says
  <2>5. CASE Says("type", <<After(s, 8)>>) \/ Says("nothing", <<>>)
    BY <2>5 DEF Says
  <2> QED
    BY <1>1, <2>1, <2>2, <2>3, <2>4, <2>5, Executed DEF t
<1> QED
  BY <1>3, <1>4, <1>5, <1>6

\* The rows shown are of the bytes that the addresses hold.
LEMMA EnterDumps == ASSUME TypeOK, Enter PROVE DumpShowsMemory'
<1> DEFINE s == line'
           t == tokenize(s)
           A == Read(s, 2)
           n1 == AtMost(Read(s, 3), DumpMax)
           n2 == AtMost(Read(s, 3), C64MemMax)
<1>1. s \in Seq(Char) /\ shell_execute(s)
  BY EnterIs
<1>2. Argument(2)' = A /\ Argument(3)' = Read(s, 3)
  BY DEF Argument, Read
<1>3. CASE reply'.kind \notin {"dump", "c64mem"}
  BY <1>3 DEF DumpShowsMemory
<1>4. CASE UNCHANGED memory /\ Given(t, 3) /\ Says("dump", Rows(parse_number(t[2]).val, DumpBytes(t)))
  <2> DEFINE b == DumpBytes(t)
             rows == Rows(A, b)
  <2>1. /\ parse_number(t[2]).val = A /\ A \in Nat /\ n1 \in Nat
        /\ b \in [1..n1 -> 0..(ByteSize - 1)]
    BY <1>1, <1>4, BytesShown, Sizes
  <2>2. reply'.kind = "dump" /\ reply'.texts = rows
    BY <1>4, <2>1 DEF Says
  <2>3. RowsShow(rows, A, n1, b)
    BY <2>1, RowsAre
  <2>4. \A k \in 1..n1 : b[k] = memory'[(A + k - 1) % WordSize]
    BY <1>4, <2>1 DEF DumpBytes
  <2>5. ASSUME NEW r \in DOMAIN rows, NEW j \in 1..(Len(rows[r]) - 1)
        PROVE  Sum(rows[r][j + 1], 16) = memory'[((A + RowLen * (r - 1)) + j - 1) % WordSize]
    <3> DEFINE f == RowLen * (r - 1)
    <3>1. f \in Nat /\ f + j \in 1..n1 /\ Sum(rows[r][j + 1], 16) = b[f + j]
      BY <2>3 DEF RowsShow
    <3>2. rows[r] \in Seq(Seq(Char))
      BY <2>3 DEF RowsShow
    <3>3. j \in Nat
      BY <3>2
    <3> HIDE DEF f, A
    <3>4. A + (f + j) - 1 = (A + f) + j - 1
      BY <2>1, <3>1, <3>3
    <3>5. Sum(rows[r][j + 1], 16) = memory'[(A + (f + j) - 1) % WordSize]
      BY <2>4, <3>1
    <3> QED
      BY <3>4, <3>5 DEF f
  <2> HIDE DEF rows, A
  <2> QED
    BY <1>2, <2>2, <2>3, <2>5 DEF DumpShowsMemory, RowsShow
<1>5. CASE Given(t, 3) /\ Says("c64mem", Rows(parse_number(t[2]).val, C64MemBytes(t)))
  <2> DEFINE b == C64MemBytes(t)
             rows == Rows(A, b)
             Fixed(a) == a % GuestSize \in {VicRaster, Cia1Prb}
  <2>1. /\ parse_number(t[2]).val = A /\ A \in Nat /\ n2 \in Nat
        /\ b \in [1..n2 -> 0..(ByteSize - 1)]
    BY <1>1, <1>5, BytesShown, Sizes
  <2>2. reply'.kind = "c64mem" /\ reply'.texts = rows
    BY <1>5, <2>1 DEF Says
  <2>3. RowsShow(rows, A, n2, b)
    BY <2>1, RowsAre
  <2>4. \A k \in 1..n2 : Fixed(A + k - 1) \/ b[k] = GuestRam[(A + k - 1) % GuestSize]
    <3>1. \A k \in 1..n2 : b[k] = cpu6502_read((A + k - 1) % GuestSize)
      BY <2>1 DEF C64MemBytes
    <3>2. ASSUME NEW k \in 1..n2 PROVE (A + k - 1) % GuestSize \in 0..(GuestSize - 1)
      <4> DEFINE x == A + k - 1
                 G == GuestSize
      <4>1. G \in Nat \ {0}
        BY Sizes
      <4> HIDE DEF G, A, n2
      <4>2. x \in Nat
        BY <2>1
      <4> HIDE DEF x
      <4>3. x % G \in 0..(G - 1)
        BY <4>1, <4>2, Division
      <4> QED
        BY <4>3 DEF x, G
    <3> QED
      BY <3>1, <3>2, GuestReads
  <2>5. ASSUME NEW r \in DOMAIN rows, NEW j \in 1..(Len(rows[r]) - 1)
        PROVE  \/ Fixed((A + RowLen * (r - 1)) + j - 1)
               \/ Sum(rows[r][j + 1], 16) = GuestRam[((A + RowLen * (r - 1)) + j - 1) % GuestSize]
    <3> DEFINE f == RowLen * (r - 1)
    <3>1. f \in Nat /\ f + j \in 1..n2 /\ Sum(rows[r][j + 1], 16) = b[f + j]
      BY <2>3 DEF RowsShow
    <3>2. rows[r] \in Seq(Seq(Char))
      BY <2>3 DEF RowsShow
    <3>3. j \in Nat
      BY <3>2
    <3> HIDE DEF f, A, Fixed
    <3>4. A + (f + j) - 1 = (A + f) + j - 1
      BY <2>1, <3>1, <3>3
    <3>5. \/ Fixed(A + (f + j) - 1)
          \/ Sum(rows[r][j + 1], 16) = GuestRam[(A + (f + j) - 1) % GuestSize]
      BY <2>4, <3>1
    <3> QED
      BY <3>4, <3>5 DEF f
  <2> HIDE DEF rows, A
  <2> QED
    BY <1>2, <2>2, <2>3, <2>5 DEF DumpShowsMemory, RowsShow
<1>6. reply'.kind \in {"dump", "c64mem"} =>
        /\ Given(t, 3) /\ UNCHANGED memory
        /\ \/ Says("dump", Rows(parse_number(t[2]).val, DumpBytes(t)))
           \/ Says("c64mem", Rows(parse_number(t[2]).val, C64MemBytes(t)))
  <2> HIDE DEF t
  <2>1. CASE Refused(t)
    BY <2>1 DEF Refused, Says
  <2>2. CASE Poked(t)
    BY <2>2 DEF Poked, Says
  <2>3. CASE Shown(t)
    BY <2>3 DEF Shown, Says
  <2>4. CASE Passed(t)
    BY <2>4 DEF Passed, Says
  <2>5. CASE Says("type", <<After(s, 8)>>) \/ Says("nothing", <<>>)
    BY <2>5 DEF Says
  <2> QED
    BY <1>1, <2>1, <2>2, <2>3, <2>4, <2>5, Executed DEF t
<1> QED
  BY <1>3, <1>4, <1>5, <1>6

\* Memory changes by POKE alone.
LEMMA EnterPokes ==
  ASSUME TypeOK, Enter
  PROVE  memory' = IF Pokes(line') THEN [memory EXCEPT ![Argument(2)'] = Argument(3)' % ByteSize]
                   ELSE memory
<1> DEFINE s == line'
           t == tokenize(s)
<1>1. s \in Seq(Char) /\ shell_execute(s)
  BY EnterIs
<1>2. /\ NumWords(s) \in Nat /\ Len(t) \in Nat
      /\ Len(t) = IF NumWords(s) < 4 THEN NumWords(s) ELSE 4
      /\ \A n \in 1..Len(t) : t[n] = WordOf(s, n)
      /\ t # <<>> => Len(t) >= 1
      /\ t = <<>> => Len(t) = 0
  BY <1>1, TokensAreWords
<1>3. \A n \in 1..Len(t) : /\ parse_number(t[n]).ok <=> StandsFor(WordOf(s, n)) # {}
                           /\ parse_number(t[n]).ok => parse_number(t[n]).val = Read(s, n)
  BY <1>1, ArgumentRead
<1>4. Argument(2)' = Read(s, 2) /\ Argument(3)' = Read(s, 3)
  BY DEF Argument, Read
<1>5. ASSUME Pokes(s)
      PROVE  Len(t) >= 3 /\ SameWord(t[1], Names.poke) /\ parse_number(t[2]).ok /\ parse_number(t[3]).ok
  <2>1. Len(t) >= 3
    BY <1>2, <1>5 DEF Pokes
  <2>2. 1 \in 1..Len(t) /\ 2 \in 1..Len(t) /\ 3 \in 1..Len(t)
    BY <1>2, <2>1
  <2> HIDE DEF t
  <2> QED
    BY <1>2, <1>3, <1>5, <2>1, <2>2 DEF Pokes
<1>6. CASE SameStart(s, TypePrefix) /\ Says("type", <<After(s, 8)>>) /\ Same
  <2>1. ~Pokes(s)
    BY <1>1, <1>6, TypeLine DEF Pokes
  <2> QED
    BY <1>6, <2>1 DEF Same
<1> HIDE DEF t
<1>7. CASE t = <<>> /\ Same
  BY <1>2, <1>5, <1>7 DEF Same
<1>8. CASE Refused(t)
  <2>1. Same /\ (Len(t) < 3 \/ ~parse_number(t[2]).ok \/ ~parse_number(t[3]).ok)
    <3>1. \A n \in 2..3 : n \in {2, 3}
      OBVIOUS
    <3> QED
      BY <1>8, <3>1 DEF Refused
  <2> QED
    BY <1>2, <1>5, <2>1 DEF Same
<1>9. CASE Poked(t)
  <2>1. Len(t) >= 3 /\ SameWord(t[1], Names.poke) /\ parse_number(t[2]).ok /\ parse_number(t[3]).ok
    <3>1. 2 \in 2..3 /\ 3 \in 2..3
      OBVIOUS
    <3> QED
      BY <1>9, <3>1 DEF Poked, Given
  <2>2. 1 \in 1..Len(t) /\ 2 \in 1..Len(t) /\ 3 \in 1..Len(t) /\ NumWords(s) >= 3
    BY <1>2, <2>1
  <2>3. Pokes(s)
    BY <1>2, <1>3, <2>1, <2>2 DEF Pokes
  <2>4. parse_number(t[2]).val = Read(s, 2) /\ parse_number(t[3]).val = Read(s, 3)
    BY <1>3, <2>1, <2>2
  <2>5. memory' = [memory EXCEPT ![Read(s, 2)] = Read(s, 3) % ByteSize]
    BY <1>9, <2>4 DEF Poked
  <2> QED
    BY <1>4, <2>3, <2>5
<1>10. CASE Shown(t) \/ Passed(t)
  <2>1. ~SameWord(t[1], Names.poke) /\ UNCHANGED memory
    BY <1>10 DEF Shown, Passed, Same
  <2> QED
    BY <1>5, <2>1
<1> QED
  BY <1>1, <1>6, <1>7, <1>8, <1>9, <1>10, Executed DEF t

\* At boot nothing has been entered.
LEMMA InitReply ==
  ASSUME Init
  PROVE  WordsReachCommand /\ NumbersReadBack /\ DumpShowsMemory
<1>1. Starts(<<>>) = {}
  BY DEF Starts
<1>2. NumWords(line) = 0
  BY <1>1, FS_EmptySet DEF Init, NumWords
<1> QED
  BY <1>2 DEF Init, WordsReachCommand, NumbersReadBack, DumpShowsMemory, Asked, Names

\* Every command is given the words of its line, however many blanks stand
\* between and around them (shell_execute, tokenize).
THEOREM WordsReachCommandHolds == Spec => []WordsReachCommand
<1>1. Init => WordsReachCommand
  BY InitReply
<1>2. TypeOK /\ WordsReachCommand /\ [Next]_vars => WordsReachCommand'
  <2>1. WordsReachCommand /\ UNCHANGED vars => WordsReachCommand'
    BY DEF WordsReachCommand, Asked, vars
  <2> QED
    BY <2>1, EnterWords DEF Next
<1> QED
  BY <1>1, <1>2, ArgsTypeCorrect, PTL DEF Spec

\* What PEEK prints are the address and the byte there, in notations that the
\* shell reads as the same numbers, and no number is refused (parse_number,
\* console_print_hex, console_print_dec).
THEOREM NumbersReadBackHolds == Spec => []NumbersReadBack
<1>1. Init => NumbersReadBack
  BY InitReply
<1>2. TypeOK /\ NumbersReadBack /\ [Next]_vars => NumbersReadBack'
  <2>1. NumbersReadBack /\ UNCHANGED vars => NumbersReadBack'
    BY DEF NumbersReadBack, Argument, vars
  <2> QED
    BY <2>1, EnterNumbers DEF Next
<1> QED
  BY <1>1, <1>2, ArgsTypeCorrect, PTL DEF Spec

\* A dump shows the bytes it was asked for, in full rows but the last, beside
\* their addresses (cmd_dump, cmd_c64mem).
THEOREM DumpShowsMemoryHolds == Spec => []DumpShowsMemory
<1>1. Init => DumpShowsMemory
  BY InitReply
<1>2. TypeOK /\ DumpShowsMemory /\ [Next]_vars => DumpShowsMemory'
  <2>1. DumpShowsMemory /\ UNCHANGED vars => DumpShowsMemory'
    BY DEF DumpShowsMemory, Argument, vars
  <2> QED
    BY <2>1, EnterDumps DEF Next
<1> QED
  BY <1>1, <1>2, ArgsTypeCorrect, PTL DEF Spec

\* Memory changes by POKE and two numbers only, and then the byte that they name
\* (cmd_poke).
THEOREM PokeStoresHolds == Spec => PokeStores
<1> DEFINE Stores == memory' = IF Pokes(line')
                               THEN [memory EXCEPT ![Argument(2)'] = Argument(3)' % ByteSize]
                               ELSE memory
<1>1. TypeOK /\ [Next]_vars => [Stores]_vars
  <2>1. TypeOK /\ Enter => Stores
    BY EnterPokes
  <2> QED
    BY <2>1 DEF Next
<1>2. PokeStores <=> [][Stores]_vars
  BY DEF PokeStores
<1> QED
  BY <1>1, <1>2, ArgsTypeCorrect, PTL DEF Spec
===============================================================================
