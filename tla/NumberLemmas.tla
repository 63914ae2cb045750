---------------------------- MODULE NumberLemmas ----------------------------
(***************************************************************************)
(* Least and greatest elements of sets of numbers, which the task table    *)
(* and the mutexes are searched for, and remainders of numbers that leave  *)
(* a range by less than its length: tick counters and ring buffers.        *)
(***************************************************************************)
EXTENDS Integers, FiniteSetsExt, TLAPS, WellFoundedInduction

(* A set of natural numbers that is not empty has a least element. *)
LEMMA MinIn ==
    ASSUME NEW S \in SUBSET Nat, S # {}
    PROVE  Min(S) \in S /\ \A y \in S : Min(S) <= y
<1>1. PICK x \in S : \A y \in S : ~ (<<y, x>> \in OpToRel(<, Nat))
  BY NatLessThanWellFounded, WFMin, Zenon
<1>2. ASSUME NEW y \in S PROVE x <= y
  <2>1. <<y, x>> \in Nat \X Nat /\ <<y, x>>[1] = y /\ <<y, x>>[2] = x
    OBVIOUS
  <2>2. y < x => <<y, x>> \in OpToRel(<, Nat)
    BY <2>1, Zenon DEF OpToRel
  <2>3. ~ (y < x)
    BY <1>1, <2>2, Zenon
  <2>. QED
    BY <2>3
<1>. QED
  BY <1>2 DEF Min

(* A set of numbers up to n that is not empty has a greatest element. *)
LEMMA MaxIn ==
    ASSUME NEW n \in Nat, NEW S \in SUBSET (0 .. n), S # {}
    PROVE  Max(S) \in S /\ \A y \in S : Max(S) >= y
<1>. DEFINE T == {k \in 0 .. n : n - k \in S}
<1>1. ASSUME NEW x \in S PROVE n - x \in T
  OBVIOUS
<1>2. T \subseteq Nat
  OBVIOUS
<1>3. T # {}
  BY <1>1
<1>4. Min(T) \in T /\ \A y \in T : Min(T) <= y
  <2>. HIDE DEF T
  <2>. QED
    BY <1>2, <1>3, MinIn
<1>5. n - Min(T) \in S
  BY <1>4
<1>6. ASSUME NEW y \in S PROVE n - Min(T) >= y
  <2>1. n - y \in T
    BY <1>1
  <2>. QED
    BY <1>4, <2>1
<1>. QED
  BY <1>5, <1>6 DEF Max

(* The remainder of a number in range, and of one a whole range off *)
LEMMA ModIn ==
    ASSUME NEW n \in Nat \ {0}, NEW x \in 0 .. n - 1
    PROVE  x % n = x /\ (x + n) % n = x /\ (x - n) % n = x
<1>1. x % n = x
  OBVIOUS
<1>2. (x + n) % n = x
  OBVIOUS
<1>3. (x - n) % n = x
  OBVIOUS
<1>. QED
  BY <1>1, <1>2, <1>3

(* A set of numbers up to n that has 0 and with each number the next one   *)
(* has them all.                                                           *)
LEMMA UpTo ==
    ASSUME NEW n \in Nat, NEW S, 0 \in S,
           \A k \in 1 .. n : k - 1 \in S => k \in S
    PROVE  0 .. n \subseteq S
<1>. DEFINE T == (0 .. n) \ S
<1>1. SUFFICES ASSUME T # {} PROVE FALSE
  OBVIOUS
<1>2. T \in SUBSET Nat
  OBVIOUS
<1>3. Min(T) \in T /\ \A y \in T : Min(T) <= y
  <2>. HIDE DEF T
  <2>. QED
    BY <1>1, <1>2, MinIn
<1>4. Min(T) \in 1 .. n /\ Min(T) - 1 \in 0 .. n
  BY <1>3
<1>5. Min(T) - 1 \in S
  BY <1>3, <1>4
<1>. QED
  BY <1>3, <1>4, <1>5

(* A product grows with its factor. *)
LEMMA ProductGrows ==
    ASSUME NEW d \in Nat, NEW a \in Int, NEW b \in Int, a <= b
    PROVE  d * a <= d * b
<1>1. PICK k \in Nat : b = a + k
  <2>1. b - a \in Nat /\ b = a + (b - a)
    OBVIOUS
  <2>. QED
    BY <2>1
<1>2. d * b = d * a + d * k
  BY <1>1
<1>3. d * k \in Nat /\ d * a \in Int
  BY <1>1
<1>. QED
  BY <1>2, <1>3

(* A quotient grows with the number that is divided *)
LEMMA QuotientGrows ==
    ASSUME NEW d \in Nat \ {0}, NEW x \in Int, NEW y \in Int, x <= y
    PROVE  x \div d \in Int /\ y \div d \in Int /\ x \div d <= y \div d
<1>. DEFINE p == x \div d
            q == y \div d
<1>1. p \in Int /\ d * p <= x
  OBVIOUS
<1>2. q \in Int /\ y < d * q + d
  OBVIOUS
<1>. HIDE DEF p, q
<1>3. ~ (q + 1 <= p)
  <2>1. SUFFICES ASSUME q + 1 <= p PROVE FALSE
    OBVIOUS
  <2>2. d * (q + 1) <= d * p
    BY <1>1, <1>2, <2>1, ProductGrows
  <2>3. d * (q + 1) = d * q + d
    BY <1>2
  <2>4. d * q \in Int /\ d * p \in Int
    BY <1>1, <1>2
  <2>. QED
    BY <1>1, <1>2, <2>2, <2>3, <2>4
<1>. QED
  BY <1>1, <1>2, <1>3 DEF p, q

(* and stays below n as long as that number is below n times the divisor. *)
LEMMA QuotientIn ==
    ASSUME NEW d \in Nat \ {0}, NEW n \in Nat, NEW x \in 0 .. d * n - 1
    PROVE  x \div d \in 0 .. n - 1
<1>. DEFINE q == x \div d
<1>1. q \in Int /\ d * q <= x /\ x < d * q + d /\ d * q \in Int
  OBVIOUS
<1>2. d * n \in Int /\ 0 <= x /\ x < d * n /\ x \in Int
  OBVIOUS
<1>. HIDE DEF q
<1>3. ~ (n <= q)
  <2>1. SUFFICES ASSUME n <= q PROVE FALSE
    OBVIOUS
  <2>2. d * n <= d * q
    BY <1>1, <2>1, ProductGrows
  <2>. QED
    BY <1>1, <1>2, <2>2
<1>4. ~ (q + 1 <= 0)
  <2>1. SUFFICES ASSUME q + 1 <= 0 PROVE FALSE
    OBVIOUS
  <2>2. d * (q + 1) <= d * 0
    BY <1>1, <2>1, ProductGrows
  <2>3. d * (q + 1) = d * q + d /\ d * 0 = 0
    BY <1>1
  <2>. QED
    BY <1>1, <1>2, <2>2, <2>3
<1>. QED
  BY <1>1, <1>3, <1>4 DEF q

(* A function that takes one step of F after the other within a set is     *)
(* there, and stays in the set.                                            *)
LEMMA Iteration ==
    ASSUME NEW S, NEW x \in S, NEW k \in Nat, NEW F \in [1 .. k -> [S -> S]]
    PROVE  \E g \in [0 .. k -> S] :
               g[0] = x /\ \A n \in 1 .. k : g[n] = F[n][g[n - 1]]
<1>. DEFINE Is(g, m) == g = [n \in 0 .. m |->
                               IF n = 0 THEN x ELSE F[n][g[n - 1]]]
            T == {m \in 0 .. k : \E g \in [0 .. m -> S] : Is(g, m)}
<1>1. 0 \in T
  <2>. DEFINE g == [n \in 0 .. 0 |-> x]
  <2>1. g \in [0 .. 0 -> S] /\ Is(g, 0)
    OBVIOUS
  <2>. HIDE DEF Is, g
  <2>. QED
    BY <2>1
<1>2. ASSUME NEW m \in 1 .. k, m - 1 \in T PROVE m \in T
  <2>1. PICK g \in [0 .. m - 1 -> S] : Is(g, m - 1)
    BY <1>2
  <2>. DEFINE h == [n \in 0 .. m |-> IF n < m THEN g[n] ELSE F[m][g[m - 1]]]
  <2>2. g[m - 1] \in S
    OBVIOUS
  <2>3. F[m][g[m - 1]] \in S
    BY <2>2
  <2>4. h \in [0 .. m -> S]
    BY <2>3
  <2>5. ASSUME NEW n \in 0 .. m
        PROVE  h[n] = IF n = 0 THEN x ELSE F[n][h[n - 1]]
    <3>1. CASE n < m
      <4>1. h[n] = g[n] /\ (n > 0 => h[n - 1] = g[n - 1]) /\ n \in 0 .. m - 1
        BY <3>1
      <4>2. g[n] = IF n = 0 THEN x ELSE F[n][g[n - 1]]
        <5>. HIDE DEF h
        <5>. QED
          BY <2>1, <4>1
      <4>. HIDE DEF h
      <4>. QED
        BY <4>1, <4>2
    <3>2. CASE n = m
      <4>1. h[n] = F[m][g[m - 1]] /\ h[n - 1] = g[m - 1] /\ n # 0
        BY <3>2
      <4>. QED
        BY <3>2, <4>1
    <3>. QED
      BY <3>1, <3>2
  <2>6. Is(h, m)
    BY <2>5, Zenon
  <2>. HIDE DEF Is, h
  <2>. QED
    BY <2>4, <2>6
<1>3. 0 .. k \subseteq T
  <2>. HIDE DEF T
  <2>. QED
    BY <1>1, <1>2, UpTo
<1>4. PICK g \in [0 .. k -> S] : Is(g, k)
  <2>. HIDE DEF Is
  <2>. QED
    BY <1>3
<1>5. \A n \in 0 .. k : g[n] = IF n = 0 THEN x ELSE F[n][g[n - 1]]
  BY <1>4
<1>. QED
  BY <1>5
=============================================================================
