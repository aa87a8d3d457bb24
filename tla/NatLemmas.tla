------------------------------ MODULE NatLemmas ------------------------------
(***************************************************************************)
(* Induction over the natural numbers in the form the proofs of this       *)
(* project use it, for sets instead of predicates; the existence of        *)
(* recursive functions; products and division.                             *)
(***************************************************************************)
EXTENDS Integers, WellFoundedInduction, TLAPS

\* A set of natural numbers that is not empty has a least element.
LEMMA NatLeast ==
  ASSUME NEW T, T \subseteq Nat, T # {}
  PROVE  \E x \in T : \A y \in T : x <= y
<1> DEFINE R == {p \in Nat \X Nat : p[1] < p[2]}
<1>1. IsWellFoundedOn(OpToRel(<, Nat), Nat)
  BY NatLessThanWellFounded
<1>2. OpToRel(<, Nat) = R
  BY DEF OpToRel
<1>3. IsWellFoundedOn(R, Nat)
  BY <1>1, <1>2
<1> HIDE DEF R
<1>4. PICK x \in T : \A y \in T : <<y, x>> \notin R
  BY <1>3, WFMin
<1>5. \A y \in T : ~(y < x)
  BY <1>4 DEF R
<1> QED
  BY <1>4, <1>5

\* A set of natural numbers that holds 0 and the successor of each of its
\* elements holds them all.
LEMMA NatSetInduction ==
  ASSUME NEW T, T \subseteq Nat, 0 \in T, \A n \in T : n + 1 \in T
  PROVE  T = Nat
<1> SUFFICES ASSUME Nat \ T # {} PROVE FALSE
  OBVIOUS
<1>1. PICK x \in Nat \ T : \A y \in Nat \ T : x <= y
  BY NatLeast
<1>2. x # 0
  OBVIOUS
<1>3. x - 1 \in Nat
  BY <1>1, <1>2
<1>4. x - 1 \in T
  BY <1>1, <1>3
<1> QED
  BY <1>1, <1>4, <1>3

\* Quotient and remainder.
LEMMA Division ==
  ASSUME NEW n \in Nat, NEW s \in Nat \ {0}
  PROVE  /\ n \div s \in Nat /\ n % s \in 0..(s - 1)
         /\ n = s * (n \div s) + (n % s)
<1>1. /\ n \div s \in Int /\ n % s \in 0..(s - 1)
      /\ n = s * (n \div s) + (n % s)
  OBVIOUS
<1>2. n \div s >= 0
  BY <1>1
<1> QED
  BY <1>1, <1>2

\* Division undoes multiplication.
LEMMA DivisionOfMultiple ==
  ASSUME NEW q \in Nat, NEW s \in Nat \ {0}
  PROVE  (s * q) \div s = q /\ s * q \in Nat
OBVIOUS

\* g follows the recursion from init by step as far as n.
Follows(g, n, init, step) ==
  g = [k \in 0..n |-> IF k = 0 THEN init ELSE step[k][g[k - 1]]]

\* The values that it passes are in S.
LEMMA FollowsFits ==
  ASSUME NEW S, NEW init \in S, NEW step \in [Nat -> [S -> S]],
         NEW n \in Nat, NEW g, Follows(g, n, init, step)
  PROVE  \A k \in 0..n : g[k] \in S
<1> DEFINE T == {k \in Nat : k \in 0..n => g[k] \in S}
<1>1. 0 \in T
  BY DEF Follows
<1>2. ASSUME NEW k \in T PROVE k + 1 \in T
  BY DEF Follows
<1>3. T \subseteq Nat
  OBVIOUS
<1> HIDE DEF T
<1>4. T = Nat
  BY <1>1, <1>2, <1>3, NatSetInduction
<1> QED
  BY <1>4 DEF T

\* Two that follow the same recursion agree.
LEMMA FollowsAgree ==
  ASSUME NEW init, NEW step, NEW n \in Nat, NEW m \in Nat, n <= m,
         NEW g, Follows(g, n, init, step), NEW h, Follows(h, m, init, step)
  PROVE  \A k \in 0..n : g[k] = h[k]
<1> DEFINE T == {k \in Nat : k \in 0..n => g[k] = h[k]}
<1>1. 0 \in T
  BY DEF Follows
<1>2. ASSUME NEW k \in T PROVE k + 1 \in T
  <2> SUFFICES ASSUME k + 1 \in 0..n PROVE g[k + 1] = h[k + 1]
    OBVIOUS
  <2>1. k \in 0..n /\ k + 1 \in 0..m /\ (k + 1) - 1 = k /\ k + 1 # 0
    OBVIOUS
  <2>2. g[k + 1] = step[k + 1][g[k]]
    BY <2>1 DEF Follows
  <2>3. h[k + 1] = step[k + 1][h[k]]
    BY <2>1 DEF Follows
  <2> QED
    BY <2>1, <2>2, <2>3
<1>3. T \subseteq Nat
  OBVIOUS
<1> HIDE DEF T
<1>4. T = Nat
  BY <1>1, <1>2, <1>3, NatSetInduction
<1> QED
  BY <1>4 DEF T

\* There is one that goes so far.
LEMMA FollowsExists ==
  ASSUME NEW init, NEW step, NEW n \in Nat
  PROVE  \E g : Follows(g, n, init, step)
<1> DEFINE T == {i \in Nat : \E g : Follows(g, i, init, step)}
<1>1. 0 \in T
  <2>1. Follows([k \in 0..0 |-> init], 0, init, step)
    BY DEF Follows
  <2> QED
    BY <2>1
<1>2. ASSUME NEW i \in T PROVE i + 1 \in T
  <2>1. PICK g : Follows(g, i, init, step)
    OBVIOUS
  <2> DEFINE h == [k \in 0..(i + 1) |-> IF k = i + 1 THEN step[k][g[i]] ELSE g[k]]
  <2>2. ASSUME NEW k \in 0..(i + 1)
        PROVE  h[k] = IF k = 0 THEN init ELSE step[k][h[k - 1]]
    <3>1. CASE k = i + 1
      BY <3>1
    <3>2. CASE k # i + 1
      <4>1. k \in 0..i
        BY <3>2
      <4>2. g[k] = IF k = 0 THEN init ELSE step[k][g[k - 1]]
        BY <2>1, <4>1 DEF Follows
      <4>3. k = 0 \/ h[k - 1] = g[k - 1]
        BY <4>1
      <4> QED
        BY <4>1, <4>2, <4>3, <3>2
    <3> QED
      BY <3>1, <3>2
  <2>3. h = [k \in 0..(i + 1) |-> h[k]]
    OBVIOUS
  <2> HIDE DEF h
  <2>4. Follows(h, i + 1, init, step)
    BY <2>2, <2>3 DEF Follows
  <2> QED
    BY <2>4
<1>3. T \subseteq Nat
  OBVIOUS
<1> HIDE DEF T
<1>4. T = Nat
  BY <1>1, <1>2, <1>3, NatSetInduction
<1> QED
  BY <1>4 DEF T

\* g is the function into S that a recursion from init by step defines.
Recursion(g, S, init, step) ==
  /\ g \in [Nat -> S] /\ g[0] = init
  /\ \A k \in Nat : k # 0 => g[k] = step[k][g[k - 1]]

\* If its steps stay in S, there is one.
LEMMA RecursiveFunction ==
  ASSUME NEW S, NEW init, NEW step, init \in S, step \in [Nat -> [S -> S]]
  PROVE  \E g : Recursion(g, S, init, step)
<1> DEFINE upto(n) == CHOOSE g : Follows(g, n, init, step)
           g == [n \in Nat |-> upto(n)[n]]
<1>1. \A n \in Nat : Follows(upto(n), n, init, step)
  BY FollowsExists
<1> HIDE DEF upto
<1>2. \A n \in Nat : g[n] \in S
  BY <1>1, FollowsFits
<1>3. g[0] = init
  BY <1>1 DEF Follows
<1>4. ASSUME NEW k \in Nat PROVE g[k + 1] = step[k + 1][g[k]]
  <2>1. upto(k + 1)[k] = upto(k)[k]
    BY <1>1, FollowsAgree
  <2>2. /\ Follows(upto(k + 1), k + 1, init, step)
        /\ k + 1 \in 0..(k + 1) /\ k + 1 # 0 /\ (k + 1) - 1 = k
    BY <1>1
  <2>3. upto(k + 1)[k + 1] = step[k + 1][upto(k + 1)[k]]
    BY <2>2 DEF Follows
  <2> QED
    BY <2>1, <2>3
<1>5. ASSUME NEW k \in Nat, k # 0 PROVE g[k] = step[k][g[k - 1]]
  <2>1. k - 1 \in Nat /\ (k - 1) + 1 = k
    BY <1>5
  <2> QED
    BY <2>1, <1>4
<1>6. g \in [Nat -> S]
  BY <1>2
<1> HIDE DEF g
<1> QED
  BY <1>3, <1>5, <1>6 DEF Recursion

\* Products of integers distribute over sums, and associate.
LEMMA Products ==
  ASSUME NEW a \in Int, NEW b \in Int, NEW c \in Int
  PROVE  /\ (a + b) * c = a * c + b * c /\ a * (b * c) = (a * b) * c
         /\ a * b = b * a /\ a * b \in Int
OBVIOUS

\* There is only one way to divide.
LEMMA DivisionUnique ==
  ASSUME NEW n \in Nat, NEW s \in Nat \ {0}, NEW q \in Int, NEW r \in 0..(s - 1),
         n = s * q + r
  PROVE  n \div s = q /\ n % s = r
<1> DEFINE d == n \div s
           m == n % s
<1>1. d \in Int /\ m \in 0..(s - 1) /\ n = s * d + m
  BY Division
<1> HIDE DEF d, m
<1>2. ASSUME NEW x \in Int, NEW y \in Int, x < y PROVE s * x + s <= s * y
  <2>1. PICK k \in Nat : y = x + 1 + k
    <3>1. y - x - 1 \in Nat /\ y = x + 1 + (y - x - 1)
      BY <1>2
    <3> QED
      BY <3>1
  <2>2. s * y = s * x + s + s * k
    BY <2>1
  <2>3. s * k \in Nat /\ s * x \in Int
    OBVIOUS
  <2> QED
    BY <2>2, <2>3
<1>3. s * q \in Int /\ s * d \in Int
  BY <1>1
<1>4. ~(q < d)
  <2> SUFFICES ASSUME q < d PROVE FALSE
    OBVIOUS
  <2>1. s * q + s <= s * d
    BY <1>1, <1>2
  <2> QED
    BY <1>1, <1>3, <2>1
<1>5. ~(d < q)
  <2> SUFFICES ASSUME d < q PROVE FALSE
    OBVIOUS
  <2>1. s * d + s <= s * q
    BY <1>1, <1>2
  <2> QED
    BY <1>1, <1>3, <2>1
<1>6. d = q
  BY <1>1, <1>4, <1>5
<1>7. m = r
  BY <1>1, <1>3, <1>6
<1> QED
  BY <1>6, <1>7 DEF d, m

\* Products of natural numbers grow with their factors.
LEMMA ProductsGrow ==
  ASSUME NEW a \in Nat, NEW b \in Nat, NEW c \in Nat, a <= b
  PROVE  c * a \in Nat /\ c * b \in Nat /\ c * a <= c * b
<1>1. PICK k \in Nat : b = a + k
  <2>1. b - a \in Nat /\ b = a + (b - a)
    OBVIOUS
  <2> QED
    BY <2>1
<1>2. c * b = c * a + c * k
  BY <1>1
<1>3. c * a \in Nat /\ c * k \in Nat
  BY <1>1
<1> QED
  BY <1>2, <1>3

\* The remainder by a product, digit by digit.
LEMMA RemainderByProduct ==
  ASSUME NEW n \in Nat, NEW p \in Nat \ {0}, NEW b \in Nat \ {0}
  PROVE  /\ b * p \in Nat \ {0} /\ n \div p \in Nat /\ (n \div p) % b \in 0..(b - 1)
         /\ n % (b * p) = (n % p) + ((n \div p) % b) * p
<1> DEFINE q == n \div p
           r == n % p
           t == q \div b
           u == q % b
<1>1. q \in Nat /\ r \in 0..(p - 1) /\ n = p * q + r
  BY Division
<1>2. t \in Nat /\ u \in 0..(b - 1) /\ q = b * t + u
  <2> HIDE DEF q
  <2> QED
    BY <1>1, Division
<1> HIDE DEF q, r, t, u
<1>3. p * (b * t + u) = (b * p) * t + u * p
  BY <1>1, <1>2
<1>4. b * p \in Nat \ {0}
  <2>1. PICK x \in Nat : b = x + 1
    <3>1. b - 1 \in Nat /\ b = (b - 1) + 1
      OBVIOUS
    <3> QED
      BY <3>1
  <2>2. b * p = x * p + p /\ x * p \in Nat
    BY <2>1
  <2> QED
    BY <2>2
<1>5. p * u <= p * (b - 1) /\ p * u \in Nat
  <2>1. u \in Nat /\ b - 1 \in Nat /\ u <= b - 1
    BY <1>2
  <2> HIDE DEF u
  <2> QED
    BY <2>1, ProductsGrow
<1>6. p * (b - 1) = b * p - p /\ u * p = p * u
  BY <1>2
<1>7. u * p + r \in 0..(b * p - 1)
  <2> DEFINE m == b * p
             w == u * p
  <2>1. m \in Nat \ {0} /\ w \in Nat /\ w <= m - p
    BY <1>4, <1>5, <1>6
  <2> HIDE DEF m, w
  <2>2. w + r \in 0..(m - 1)
    BY <1>1, <2>1
  <2> QED
    BY <2>2 DEF m, w
<1>8. n = (b * p) * t + (u * p + r)
  <2>1. n = ((b * p) * t + u * p) + r
    BY <1>1, <1>2, <1>3
  <2>2. (b * p) * t \in Int /\ u * p \in Int /\ r \in Int
    BY <1>1, <1>2, <1>4, <1>5, <1>6
  <2> QED
    BY <2>1, <2>2
<1>9. n % (b * p) = u * p + r
  <2> DEFINE m == b * p
             w == u * p + r
  <2>1. m \in Nat \ {0} /\ w \in 0..(m - 1) /\ n = m * t + w /\ t \in Int
    BY <1>2, <1>4, <1>7, <1>8
  <2> HIDE DEF m, w
  <2>2. n % m = w
    BY <2>1, DivisionUnique
  <2> QED
    BY <2>2 DEF m, w
<1>10. u * p + r = r + u * p
  BY <1>1, <1>5, <1>6
<1> QED
  BY <1>1, <1>2, <1>4, <1>9, <1>10 DEF q, r, u
===============================================================================
