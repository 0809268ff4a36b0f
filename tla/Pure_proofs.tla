---------------------------- MODULE Pure_proofs -----------------------------
(***************************************************************************)
(* Theorems about the functions of Bcm4313Qmath and Bcm4313Ucode, for      *)
(* every input: what their loops over bits and entries compute.            *)
(***************************************************************************)
EXTENDS MCPure, WellFoundedInduction, FiniteSetTheorems, TLAPS

(* Least elements and recursive functions.                                 *)

\* Every set of natural numbers that is not empty has a least element.
LEMMA LeastElement ==
  ASSUME NEW T, T \subseteq Nat, T # {} PROVE \E x \in T : \A y \in T : ~(y < x)
<1>1. IsWellFoundedOn(OpToRel(<, Nat), Nat)
  BY NatLessThanWellFounded, Zenon
<1>2. \E x \in T : \A y \in T : <<y, x>> \notin OpToRel(<, Nat)
  BY <1>1, WFMin, Zenon
<1> QED
  BY <1>2, Zenon DEF OpToRel

\* Min of such a set is in it, and below the others.
LEMMA MinIs ==
  ASSUME NEW T, T \subseteq Nat, T # {} PROVE Min(T) \in T /\ \A y \in T : Min(T) <= y
<1>1. PICK x \in T : \A y \in T : ~(y < x)
  BY LeastElement
<1>2. \A y \in T : x <= y
  BY <1>1
<1> QED
  BY <1>2 DEF Min

\* It is the only such element.
LEMMA MinOf ==
  ASSUME NEW T, T \subseteq Nat, NEW x \in T, \A y \in T : x <= y PROVE Min(T) = x
<1>1. T # {}
  OBVIOUS
<1>2. Min(T) \in T /\ Min(T) <= x
  BY <1>1, MinIs
<1>3. Min(T) \in Nat /\ x \in Nat /\ x <= Min(T)
  BY <1>2
<1> QED
  BY <1>2, <1>3

\* Induction up to a bound, over the set of numbers that were reached.
LEMMA Reaches ==
  ASSUME NEW top \in Nat, NEW B, 0 \in B, \A i \in 1 .. top : i - 1 \in B => i \in B
  PROVE  \A i \in 0 .. top : i \in B
<1> DEFINE T == {i \in 0 .. top : i \notin B}
<1>1. SUFFICES ASSUME T # {} PROVE FALSE
  OBVIOUS
<1>2. T \subseteq Nat
  OBVIOUS
<1>3. PICK i \in T : \A j \in T : ~(j < i)
  BY <1>1, <1>2, LeastElement
<1>4. i # 0
  BY <1>3
<1>5. i \in 1 .. top /\ i - 1 \in 0 .. top /\ i - 1 < i
  BY <1>3, <1>4
<1>6. i - 1 \in B
  BY <1>3, <1>5
<1> QED
  BY <1>3, <1>5, <1>6

\* f begins with first and goes on as step says.
Runs(f, top, first, step) ==
  f[0] = first /\ \A i \in 1 .. top : f[i] = step[<<i, f[i - 1]>>]

\* A recursion over an interval has a solution.
LEMMA Solvable ==
  ASSUME NEW top \in Nat, NEW V, NEW first \in V, NEW step \in [(1 .. top) \X V -> V]
  PROVE  \E f \in [0 .. top -> V] : Runs(f, top, first, step)
<1> DEFINE Good(g, m) == /\ g \in [0 .. m -> V] /\ g[0] = first
                         /\ \A i \in 1 .. m : g[i] = step[<<i, g[i - 1]>>]
           B == {m \in 0 .. top : \E g : Good(g, m)}
<1>1. 0 \in B
  <2>1. Good([i \in 0 .. 0 |-> first], 0)
    OBVIOUS
  <2>2. 0 \in 0 .. top
    OBVIOUS
  <2> HIDE DEF Good
  <2> QED
    BY <2>1, <2>2
<1>2. ASSUME NEW m \in 1 .. top, m - 1 \in B PROVE m \in B
  <2>1. PICK g : Good(g, m - 1)
    BY <1>2
  <2>2. m - 1 \in 0 .. m - 1 /\ m - 1 \in Nat
    OBVIOUS
  <2>3. g[m - 1] \in V
    BY <2>1, <2>2
  <2> DEFINE next == step[<<m, g[m - 1]>>]
             h == [i \in 0 .. m |-> IF i = m THEN next ELSE g[i]]
  <2>4. next \in V
    BY <2>3
  <2> HIDE DEF next
  <2>5. h \in [0 .. m -> V] /\ h[0] = first
    <3>1. \A i \in 0 .. m : i # m => i \in 0 .. m - 1
      OBVIOUS
    <3>2. 0 \in 0 .. m /\ 0 # m
      OBVIOUS
    <3> QED
      BY <2>1, <2>4, <3>1, <3>2
  <2>6. ASSUME NEW i \in 1 .. m PROVE h[i] = step[<<i, h[i - 1]>>]
    <3>1. i \in 0 .. m /\ i - 1 \in 0 .. m /\ i - 1 # m
      OBVIOUS
    <3>2. h[i - 1] = g[i - 1]
      BY <3>1
    <3>3. CASE i = m
      BY <3>1, <3>2, <3>3 DEF next
    <3>4. CASE i # m
      <4>1. i \in 1 .. m - 1
        BY <3>4
      <4>2. h[i] = g[i]
        BY <3>1, <3>4
      <4> QED
        BY <2>1, <3>2, <4>1, <4>2
    <3> QED
      BY <3>3, <3>4
  <2> HIDE DEF h
  <2>7. Good(h, m)
    BY <2>5, <2>6
  <2> QED
    BY <2>7
<1> HIDE DEF B
<1>3. top \in B
  <2>1. top \in 0 .. top
    OBVIOUS
  <2> QED
    BY <1>1, <1>2, <2>1, Reaches
<1> QED
  BY <1>3 DEF B, Runs
-----------------------------------------------------------------------------
(* Powers: the provers know each one, but not how they go on.              *)

\* The powers of two that fit into a word of the code.
LEMMA PowersOfTwo ==
  ASSUME NEW k \in 0 .. 31 PROVE 2^(k + 1) = 2 * 2^k /\ 2^k \in Nat \ {0}
<1>1. CASE k = 0
  BY <1>1
<1>2. CASE k = 1
  BY <1>2
<1>3. CASE k = 2
  BY <1>3
<1>4. CASE k = 3
  BY <1>4
<1>5. CASE k = 4
  BY <1>5
<1>6. CASE k = 5
  BY <1>6
<1>7. CASE k = 6
  BY <1>7
<1>8. CASE k = 7
  BY <1>8
<1>9. CASE k = 8
  BY <1>9
<1>10. CASE k = 9
  BY <1>10
<1>11. CASE k = 10
  BY <1>11
<1>12. CASE k = 11
  BY <1>12
<1>13. CASE k = 12
  BY <1>13
<1>14. CASE k = 13
  BY <1>14
<1>15. CASE k = 14
  BY <1>15
<1>16. CASE k = 15
  BY <1>16
<1>17. CASE k = 16
  BY <1>17
<1>18. CASE k = 17
  BY <1>18
<1>19. CASE k = 18
  BY <1>19
<1>20. CASE k = 19
  BY <1>20
<1>21. CASE k = 20
  BY <1>21
<1>22. CASE k = 21
  BY <1>22
<1>23. CASE k = 22
  BY <1>23
<1>24. CASE k = 23
  BY <1>24
<1>25. CASE k = 24
  BY <1>25
<1>26. CASE k = 25
  BY <1>26
<1>27. CASE k = 26
  BY <1>27
<1>28. CASE k = 27
  BY <1>28
<1>29. CASE k = 28
  BY <1>29
<1>30. CASE k = 29
  BY <1>30
<1>31. CASE k = 30
  BY <1>31
<1>32. CASE k = 31
  BY <1>32
<1>33. k = 0 \/ k = 1 \/ k = 2 \/ k = 3 \/ k = 4 \/ k = 5 \/ k = 6 \/ k = 7 \/
      k = 8 \/ k = 9 \/ k = 10 \/ k = 11 \/ k = 12 \/ k = 13 \/ k = 14 \/ k = 15 \/
      k = 16 \/ k = 17 \/ k = 18 \/ k = 19 \/ k = 20 \/ k = 21 \/ k = 22 \/ k = 23 \/
      k = 24 \/ k = 25 \/ k = 26 \/ k = 27 \/ k = 28 \/ k = 29 \/ k = 30 \/ k = 31
  OBVIOUS
<1> QED
  BY <1>1, <1>2, <1>3, <1>4, <1>5, <1>6, <1>7, <1>8, <1>9, <1>10, <1>11, <1>12, <1>13, <1>14,
     <1>15, <1>16, <1>17, <1>18, <1>19, <1>20, <1>21, <1>22, <1>23, <1>24, <1>25, <1>26, <1>27,
     <1>28, <1>29, <1>30, <1>31, <1>32, <1>33

\* ... and of four.
LEMMA PowersOfFour ==
  ASSUME NEW k \in 0 .. 15 PROVE 4^(k + 1) = 4 * 4^k /\ 4^k \in Nat \ {0}
<1>1. CASE k = 0
  BY <1>1
<1>2. CASE k = 1
  BY <1>2
<1>3. CASE k = 2
  BY <1>3
<1>4. CASE k = 3
  BY <1>4
<1>5. CASE k = 4
  BY <1>5
<1>6. CASE k = 5
  BY <1>6
<1>7. CASE k = 6
  BY <1>7
<1>8. CASE k = 7
  BY <1>8
<1>9. CASE k = 8
  BY <1>9
<1>10. CASE k = 9
  BY <1>10
<1>11. CASE k = 10
  BY <1>11
<1>12. CASE k = 11
  BY <1>12
<1>13. CASE k = 12
  BY <1>13
<1>14. CASE k = 13
  BY <1>14
<1>15. CASE k = 14
  BY <1>15
<1>16. CASE k = 15
  BY <1>16
<1>17. k = 0 \/ k = 1 \/ k = 2 \/ k = 3 \/ k = 4 \/ k = 5 \/ k = 6 \/ k = 7 \/
      k = 8 \/ k = 9 \/ k = 10 \/ k = 11 \/ k = 12 \/ k = 13 \/ k = 14 \/ k = 15
  OBVIOUS
<1> QED
  BY <1>1, <1>2, <1>3, <1>4, <1>5, <1>6, <1>7, <1>8, <1>9, <1>10, <1>11, <1>12, <1>13, <1>14,
     <1>15, <1>16, <1>17

\* The power of four above a number of that many bits.
LEMMA TopDigit ==
  ASSUME NEW k \in 1 .. 30 PROVE 2^k <= 4^(((k - 1) \div 2) + 1)
<1>1. CASE k = 1
  BY <1>1
<1>2. CASE k = 2
  BY <1>2
<1>3. CASE k = 3
  BY <1>3
<1>4. CASE k = 4
  BY <1>4
<1>5. CASE k = 5
  BY <1>5
<1>6. CASE k = 6
  BY <1>6
<1>7. CASE k = 7
  BY <1>7
<1>8. CASE k = 8
  BY <1>8
<1>9. CASE k = 9
  BY <1>9
<1>10. CASE k = 10
  BY <1>10
<1>11. CASE k = 11
  BY <1>11
<1>12. CASE k = 12
  BY <1>12
<1>13. CASE k = 13
  BY <1>13
<1>14. CASE k = 14
  BY <1>14
<1>15. CASE k = 15
  BY <1>15
<1>16. CASE k = 16
  BY <1>16
<1>17. CASE k = 17
  BY <1>17
<1>18. CASE k = 18
  BY <1>18
<1>19. CASE k = 19
  BY <1>19
<1>20. CASE k = 20
  BY <1>20
<1>21. CASE k = 21
  BY <1>21
<1>22. CASE k = 22
  BY <1>22
<1>23. CASE k = 23
  BY <1>23
<1>24. CASE k = 24
  BY <1>24
<1>25. CASE k = 25
  BY <1>25
<1>26. CASE k = 26
  BY <1>26
<1>27. CASE k = 27
  BY <1>27
<1>28. CASE k = 28
  BY <1>28
<1>29. CASE k = 29
  BY <1>29
<1>30. CASE k = 30
  BY <1>30
<1>31. k = 1 \/ k = 2 \/ k = 3 \/ k = 4 \/ k = 5 \/ k = 6 \/ k = 7 \/ k = 8 \/
      k = 9 \/ k = 10 \/ k = 11 \/ k = 12 \/ k = 13 \/ k = 14 \/ k = 15 \/ k = 16 \/
      k = 17 \/ k = 18 \/ k = 19 \/ k = 20 \/ k = 21 \/ k = 22 \/ k = 23 \/ k = 24 \/
      k = 25 \/ k = 26 \/ k = 27 \/ k = 28 \/ k = 29 \/ k = 30
  OBVIOUS
<1> QED
  BY <1>1, <1>2, <1>3, <1>4, <1>5, <1>6, <1>7, <1>8, <1>9, <1>10, <1>11, <1>12, <1>13, <1>14,
     <1>15, <1>16, <1>17, <1>18, <1>19, <1>20, <1>21, <1>22, <1>23, <1>24, <1>25, <1>26, <1>27,
     <1>28, <1>29, <1>30, <1>31

\* Larger exponents, larger powers.
LEMMA PowersGrow ==
  ASSUME NEW a \in 0 .. 31, NEW b \in 0 .. 31, a <= b PROVE 2^a <= 2^b
<1> DEFINE B == {i \in 0 .. b - a : 2^a <= 2^(a + i)}
<1>1. 2^a \in Nat
  BY PowersOfTwo, Zenon
<1>2. b - a \in Nat /\ 0 \in B
  <2>1. b - a \in Nat /\ 0 \in 0 .. b - a /\ a + 0 = a
    OBVIOUS
  <2> DEFINE u == 2^a
  <2>2. u <= u
    BY <1>1
  <2> QED
    BY <2>1, <2>2
<1>3. ASSUME NEW i \in 1 .. b - a, i - 1 \in B PROVE i \in B
  <2> DEFINE c == a + (i - 1)
             u == 2^a
             v == 2^c
             x == 2^(c + 1)
  <2>1. c \in 0 .. 31 /\ c + 1 = a + i /\ i \in 0 .. b - a
    OBVIOUS
  <2>2. x = 2 * v /\ v \in Nat /\ u \in Nat
    BY <1>1, <2>1, PowersOfTwo, Zenon
  <2>3. u <= v
    BY <1>3
  <2>4. x = 2^(a + i)
    BY <2>1
  <2> HIDE DEF u, v, x, c
  <2>5. u <= x
    BY <2>2, <2>3
  <2> QED
    BY <2>1, <2>4, <2>5 DEF u
<1>4. b - a \in B
  <2>1. b - a \in 0 .. b - a
    BY <1>2
  <2> HIDE DEF B
  <2> QED
    BY <1>2, <1>3, <2>1, Reaches
<1>5. a + (b - a) = b
  OBVIOUS
<1> QED
  BY <1>4, <1>5

-----------------------------------------------------------------------------
(* Division.                                                               *)

\* Quotient and remainder.
LEMMA Division ==
  ASSUME NEW x \in Nat, NEW d \in Nat \ {0}
  PROVE  x \div d \in Nat /\ x % d \in Nat /\ x % d < d /\ x = (x \div d) * d + (x % d)
  BY SMTT(30)

\* There is one quotient only.
LEMMA DivisionUnique ==
  ASSUME NEW x \in Nat, NEW d \in Nat \ {0}, NEW q \in Nat, NEW r \in Nat, r < d, x = q * d + r
  PROVE  x \div d = q /\ x % d = r
  BY SMTT(30)

\* A quotient and what remains.
Parts == [quo : Nat, rem : Nat]

\* What qdiv_roundup()'s loop keeps: so far it has divided some multiple.
Divides(s, x, d) == s \in Parts /\ x = s.quo * d + s.rem /\ s.rem < d

\* What an uint32_t holds.
Words == 0 .. 2^32 - 1

LEMMA Uint32Keeps == ASSUME NEW x \in Words PROVE Uint32(x) = x
<1>1. 2^32 = 4294967296 /\ 2^30 = 1073741824
  BY Z3
<1>2. x \in Nat /\ x < 4294967296
  BY <1>1, SMT DEF Words
<1>3. x \div 1073741824 < 4
  BY <1>2, SMT
<1> QED
  BY <1>1, <1>3, SMT DEF Uint32

LEMMA Uint32Typed == ASSUME NEW x \in Nat PROVE Uint32(x) \in Nat
<1>1. 2^32 = 4294967296
  BY Z3
<1>2. x % 4294967296 \in Nat
  BY SMT
<1> QED
  BY <1>1, <1>2, SMT DEF Uint32

\* One turn of the loop adds a bit c to the quotient and keeps what remains.
LEMMA NextBitIs ==
  ASSUME NEW d \in Nat \ {0}, NEW s \in Parts, s.rem < d
  PROVE  \E c \in {0, 1} :
           /\ NextBit(s, d) = [quo |-> Uint32(2 * s.quo + c), rem |-> 2 * s.rem - c * d]
           /\ 2 * s.rem - c * d \in Nat
           /\ 2 * s.rem - c * d < d
<1> DEFINE h == d \div 2
           b == d % 2
<1>1. h \in Nat /\ b \in 0 .. 1 /\ d = 2 * h + b
  OBVIOUS
<1>2. s.quo \in Nat /\ s.rem \in Nat
  BY DEF Parts
<1> HIDE DEF h, b
<1>3. CASE s.rem >= h + b
  <2>1. NextBit(s, d) = [quo |-> Uint32(2 * s.quo + 1), rem |-> 2 * (s.rem - (h + b)) + b]
    BY <1>3 DEF NextBit, h, b
  <2>2. /\ 2 * (s.rem - (h + b)) + b = 2 * s.rem - 1 * d
        /\ 2 * s.rem - 1 * d \in Nat
        /\ 2 * s.rem - 1 * d < d
    BY <1>1, <1>2, <1>3
  <2> QED
    BY <2>1, <2>2
<1>4. CASE ~(s.rem >= h + b)
  <2>1. NextBit(s, d) = [quo |-> Uint32(2 * s.quo), rem |-> 2 * s.rem]
    BY <1>4 DEF NextBit, h, b
  <2>2. /\ 2 * s.quo = 2 * s.quo + 0
        /\ 2 * s.rem = 2 * s.rem - 0 * d
        /\ 2 * s.rem - 0 * d \in Nat
        /\ 2 * s.rem - 0 * d < d
    BY <1>1, <1>2, <1>4
  <2> QED
    BY <2>1, <2>2
<1> QED
  BY <1>3, <1>4

\* It divides twice as much, as long as the quotient does not wrap.
LEMMA NextBitDivides ==
  ASSUME NEW x \in Nat, NEW d \in Nat \ {0}, NEW s, Divides(s, x, d),
         2 * s.quo \in Words, 2 * s.quo + 1 \in Words
  PROVE  Divides(NextBit(s, d), 2 * x, d)
<1> DEFINE u == s.quo * d
<1>1. s \in Parts /\ s.quo \in Nat /\ s.rem \in Nat /\ s.rem < d /\ x = u + s.rem /\ u \in Nat
  BY DEF Divides, Parts
<1>2. PICK c \in {0, 1} :
        /\ NextBit(s, d) = [quo |-> Uint32(2 * s.quo + c), rem |-> 2 * s.rem - c * d]
        /\ 2 * s.rem - c * d \in Nat
        /\ 2 * s.rem - c * d < d
  BY <1>1, NextBitIs
<1>3. Uint32(2 * s.quo + c) = 2 * s.quo + c
  <2>1. CASE c = 0
    <3>1. 2 * s.quo + c = 2 * s.quo
      BY <1>1, <2>1
    <3> QED
      BY <3>1, Uint32Keeps
  <2>2. CASE c = 1
    BY <2>2, Uint32Keeps
  <2> QED
    BY <2>1, <2>2
<1>4. (2 * s.quo + c) * d = 2 * u + c * d
  <2>1. CASE c = 0
    BY <1>1, <2>1
  <2>2. CASE c = 1
    BY <1>1, <2>2
  <2> QED
    BY <2>1, <2>2
<1> DEFINE e == c * d
<1>5. e \in Nat
  OBVIOUS
<1> HIDE DEF u, e
<1>6. 2 * x = (2 * u + e) + (2 * s.rem - e) /\ 2 * s.quo + c \in Nat
  BY <1>1, <1>5
<1> QED
  BY <1>2, <1>3, <1>4, <1>6 DEF Divides, Parts, e

\* Numbers that fit.
LEMMA WordsAreNat == \A x \in Words : x \in Nat
  BY Z3 DEF Words

LEMMA WordsAreClosed == ASSUME NEW y \in Words, NEW x \in Nat, x <= y PROVE x \in Words
<1>1. 2^32 = 4294967296
  BY Z3
<1> QED
  BY <1>1, SMT DEF Words

\* Where the double of a number fits, there is place for one more.
LEMMA DoublesFit ==
  ASSUME NEW y \in Words, NEW q \in Nat, 2 * q <= y
  PROVE  2 * q \in Words /\ 2 * q + 1 \in Words
<1>1. 2^32 = 4294967296
  BY Z3
<1>2. y \in Int /\ y <= 4294967295
  BY <1>1, SMT DEF Words
<1> HIDE DEF Words
<1>3. 2 * q <= 4294967295 /\ 2 * q <= 4294967294
  BY <1>2, Z3
<1> QED
  BY <1>1, <1>3, Z3 DEF Words

\* The quotient of at most half of y is at most half of y's.
LEMMA HalfQuotient ==
  ASSUME NEW x \in Nat, NEW y \in Nat, NEW d \in Nat \ {0}, NEW s, Divides(s, x, d), 2 * x <= y,
         NEW q \in Nat, NEW r \in Nat, r < d, y = q * d + r
  PROVE  2 * s.quo <= q
<1>1. s.quo \in Nat /\ s.rem \in Nat /\ x = s.quo * d + s.rem
  BY DEF Divides, Parts
<1> DEFINE p == 2 * s.quo
<1>2. p \in Nat /\ p * d <= y
  <2> DEFINE u == s.quo * d
  <2>1. p * d = 2 * u /\ u \in Nat
    BY <1>1
  <2> HIDE DEF u, p
  <2>2. x = u + s.rem
    BY <1>1 DEF u
  <2>3. 2 * u <= y
    BY <1>1, <2>1, <2>2
  <2> QED
    BY <1>1, <2>1, <2>3 DEF p
<1> HIDE DEF p
<1>3. ~(p >= q + 1)
  <2>1. SUFFICES ASSUME p >= q + 1 PROVE FALSE
    OBVIOUS
  <2>2. p * d >= (q + 1) * d
    BY <1>2, <2>1, Z3
  <2>3. (q + 1) * d = q * d + d /\ q * d \in Nat
    OBVIOUS
  <2> DEFINE w == q * d
             v == p * d
  <2>4. v \in Nat
    BY <1>2
  <2>5. v <= y /\ v >= w + d /\ w \in Nat /\ y = w + r
    BY <1>2, <2>2, <2>3
  <2> HIDE DEF w, v
  <2> QED
    BY <2>4, <2>5
<1> QED
  BY <1>2, <1>3 DEF p

\* qdiv_roundup() (lcn:429-457) rounds once, to the nearest and halves up, whatever
\* the dividend, the divisor and the number of bits, as long as the result fits the
\* uint32_t it is returned in (the quotient wraps at 442 otherwise): the bit that an
\* odd divisor loses when it is halved is made up for.
THEOREM QdivIsExact ==
  ASSUME NEW dividend \in Words, NEW divisor \in Words \ {0}, NEW precision \in 0 .. 31,
         DivRoundUp(dividend * 2^precision, divisor) \in Words
  PROVE  QdivRoundup(dividend, divisor, precision) = DivRoundUp(dividend * 2^precision, divisor)
<1> DEFINE first == [quo |-> dividend \div divisor, rem |-> dividend % divisor]
           Solves(f) ==
             f = [k \in 0 .. precision |-> IF k = 0 THEN first ELSE NextBit(f[k - 1], divisor)]
           bits == CHOOSE f : Solves(f)
<1>0. dividend \in Nat /\ divisor \in Nat \ {0}
  BY WordsAreNat
<1>1. first \in Parts /\ Divides(first, dividend, divisor)
  BY <1>0, Division DEF Divides, Parts
<1> HIDE DEF first
<1>2. \E f : Solves(f)
  <2> DEFINE V == {s \in Parts : s.rem < divisor}
             step == [w \in (1 .. precision) \X V |-> NextBit(w[2], divisor)]
  <2>1. ASSUME NEW s \in V PROVE NextBit(s, divisor) \in V
    <3>1. s \in Parts /\ s.rem < divisor /\ s.quo \in Nat
      BY DEF Parts
    <3>2. PICK c \in {0, 1} :
            /\ NextBit(s, divisor) = [quo |-> Uint32(2 * s.quo + c), rem |-> 2 * s.rem - c * divisor]
            /\ 2 * s.rem - c * divisor \in Nat
            /\ 2 * s.rem - c * divisor < divisor
      BY <1>0, <3>1, NextBitIs
    <3>3. Uint32(2 * s.quo + c) \in Nat
      <4>1. 2 * s.quo + c \in Nat
        BY <3>1
      <4> QED
        BY <4>1, Uint32Typed
    <3> QED
      BY <3>2, <3>3 DEF Parts
  <2>2. step \in [(1 .. precision) \X V -> V] /\ first \in V
    BY <1>1, <2>1 DEF Divides
  <2>3. \A i \in 1 .. precision, s \in V : step[<<i, s>>] = NextBit(s, divisor)
    OBVIOUS
  <2> HIDE DEF V, step
  <2>4. PICK f \in [0 .. precision -> V] : Runs(f, precision, first, step)
    <3>1. precision \in Nat
      OBVIOUS
    <3> QED
      BY <2>2, <3>1, Solvable
  <2>5. \A i \in 0 .. precision : i # 0 => i \in 1 .. precision /\ i - 1 \in 0 .. precision
    OBVIOUS
  <2>6. \A i \in 0 .. precision : f[i] = IF i = 0 THEN first ELSE NextBit(f[i - 1], divisor)
    BY <2>3, <2>4, <2>5 DEF Runs
  <2>7. Solves(f)
    BY <2>4, <2>6
  <2> QED
    BY <2>7
<1>3. Solves(bits)
  BY <1>2
<1>4. QdivRoundup(dividend, divisor, precision) =
        LET last == bits[precision]
        IN IF last.rem >= (divisor \div 2) + (divisor % 2) THEN Uint32(last.quo + 1) ELSE last.quo
  BY DEF QdivRoundup, first
<1> HIDE DEF bits
<1> DEFINE x == dividend * 2^precision
           whole == x \div divisor
<1>6. x \in Nat
  <2>1. 2^precision \in Nat
    BY PowersOfTwo
  <2> QED
    BY <1>0, <2>1
<1>11. whole \in Nat /\ x % divisor \in Nat /\ x % divisor < divisor /\
       x = whole * divisor + (x % divisor) /\ whole <= DivRoundUp(x, divisor)
  <2>1. /\ whole \in Nat /\ x % divisor \in Nat /\ x % divisor < divisor
        /\ x = whole * divisor + (x % divisor)
    BY <1>0, <1>6, Division
  <2> HIDE DEF whole
  <2>3. DivRoundUp(x, divisor) =
          whole + (IF x % divisor >= (divisor \div 2) + (divisor % 2) THEN 1 ELSE 0)
    BY DEF DivRoundUp, whole
  <2>2. DivRoundUp(x, divisor) = whole \/ DivRoundUp(x, divisor) = whole + 1
    BY <2>1, <2>3
  <2> QED
    BY <2>1, <2>2
<1>12. whole \in Words
  <2> HIDE DEF whole, x
  <2>1. DivRoundUp(x, divisor) \in Words
    BY DEF x
  <2> QED
    BY <1>11, <2>1, WordsAreClosed
<1> HIDE DEF whole
<1>5. \A i \in 0 .. precision : Divides(bits[i], dividend * 2^i, divisor)
  <2> DEFINE B == {i \in 0 .. precision : Divides(bits[i], dividend * 2^i, divisor)}
  <2>1. 0 \in B
    <3>1. dividend * 2^0 = dividend
      BY <1>0, Z3
    <3>2. 0 \in 0 .. precision
      OBVIOUS
    <3> QED
      BY <1>1, <1>3, <3>1, <3>2
  <2>2. ASSUME NEW i \in 1 .. precision, i - 1 \in B PROVE i \in B
    <3>1. i - 1 \in 0 .. 31 /\ i \in 0 .. precision /\ i # 0 /\ (i - 1) + 1 = i
      OBVIOUS
    <3> DEFINE v == 2^(i - 1)
    <3>2. v \in Nat /\ 2^i = 2 * v
      BY <3>1, PowersOfTwo
    <3>3. Divides(bits[i - 1], dividend * v, divisor)
      BY <2>2
    <3> HIDE DEF v
    <3>4. dividend * v \in Nat /\ dividend * (2 * v) = 2 * (dividend * v)
      BY <1>0, <3>2
    <3>8. 2 * bits[i - 1].quo \in Words /\ 2 * bits[i - 1].quo + 1 \in Words
      <4>1. 2 * (dividend * v) <= x
        <5>1. i \in 0 .. 31 /\ i <= precision /\ precision \in 0 .. 31
          OBVIOUS
        <5>5. 2^i <= 2^precision /\ 2^precision \in Nat
          BY <5>1, PowersGrow, PowersOfTwo, Zenon
        <5>2. 2 * v <= 2^precision /\ 2^precision \in Nat
          BY <3>2, <5>5
        <5> DEFINE w == 2^precision
        <5> HIDE DEF w
        <5>3. 2 * v <= w /\ w \in Nat
          BY <5>2 DEF w
        <5>4. dividend * (2 * v) <= dividend * w
          BY <1>0, <3>2, <5>3, Z3
        <5> QED
          BY <3>4, <5>4 DEF x, w
      <4> HIDE DEF x
      <4>2. 2 * bits[i - 1].quo <= whole
        BY <1>0, <1>6, <1>11, <3>3, <3>4, <4>1, HalfQuotient
      <4>3. bits[i - 1].quo \in Nat
        BY <3>3 DEF Divides, Parts
      <4> QED
        BY <1>12, <4>2, <4>3, DoublesFit
    <3>5. Divides(NextBit(bits[i - 1], divisor), 2 * (dividend * v), divisor)
      BY <1>0, <3>3, <3>4, <3>8, NextBitDivides
    <3>6. bits[i] = NextBit(bits[i - 1], divisor)
      BY <1>3, <3>1
    <3>7. Divides(bits[i], dividend * 2^i, divisor)
      BY <3>2, <3>4, <3>5, <3>6
    <3> QED
      BY <3>1, <3>7
  <2> HIDE DEF B
  <2>3. \A i \in 0 .. precision : i \in B
    BY <2>1, <2>2, Reaches
  <2> QED
    BY <2>3 DEF B
<1> DEFINE last == bits[precision]
<1>7. Divides(last, x, divisor)
  BY <1>5
<1>8. QdivRoundup(dividend, divisor, precision) =
        IF last.rem >= (divisor \div 2) + (divisor % 2) THEN Uint32(last.quo + 1) ELSE last.quo
  BY <1>4
<1> HIDE DEF x, last
<1>9. last.quo \in Nat /\ x \div divisor = last.quo /\ x % divisor = last.rem
  BY <1>0, <1>6, <1>7, DivisionUnique DEF Divides, Parts
<1>10. DivRoundUp(x, divisor) =
         last.quo + (IF last.rem >= (divisor \div 2) + (divisor % 2) THEN 1 ELSE 0)
  BY <1>9 DEF DivRoundUp
<1>13. QdivRoundup(dividend, divisor, precision) = DivRoundUp(x, divisor)
  <2>1. CASE last.rem >= (divisor \div 2) + (divisor % 2)
    <3>1. DivRoundUp(x, divisor) = last.quo + 1 /\ DivRoundUp(x, divisor) \in Words
      BY <1>10, <2>1 DEF x
    <3>2. Uint32(last.quo + 1) = last.quo + 1
      BY <3>1, Uint32Keeps
    <3> QED
      BY <1>8, <2>1, <3>1, <3>2
  <2>2. CASE ~(last.rem >= (divisor \div 2) + (divisor % 2))
    BY <1>8, <1>9, <1>10, <2>2
  <2> QED
    BY <2>1, <2>2
<1> QED
  BY <1>13 DEF x

-----------------------------------------------------------------------------
(* Roots.                                                                  *)

\* The numbers that Nbits measures.
Measurable == 2^30

\* nbits() of a number that is not zero.
LEMMA NbitsIs ==
  ASSUME NEW x \in Nat \ {0}, x < Measurable
  PROVE  Nbits(x) \in 1 .. 30 /\ x < 2^Nbits(x)
<1> DEFINE T == {k \in 0 .. 30 : x \div 2^k = 0}
<1>1. 30 \in T
  <2>1. Measurable \in Nat \ {0}
    BY PowersOfTwo DEF Measurable
  <2>2. x \div Measurable = 0
    <3>1. x = 0 * Measurable + x
      BY <2>1
    <3> QED
      BY <2>1, <3>1, DivisionUnique
  <2> QED
    BY <2>2 DEF Measurable
<1>2. 0 \notin T
  <2>1. 2^0 = 1
    BY Z3
  <2>2. x \div 1 = x
    OBVIOUS
  <2> QED
    BY <2>1, <2>2
<1>3. T \subseteq Nat /\ T # {}
  <2>1. T \subseteq 0 .. 30
    BY Zenon
  <2>2. 0 .. 30 \subseteq Nat
    OBVIOUS
  <2> HIDE DEF T
  <2> QED
    BY <1>1, <2>1, <2>2
<1>4. Nbits(x) = Min(T)
  BY DEF Nbits
<1> HIDE DEF T
<1>5. Nbits(x) \in T
  BY <1>3, <1>4, MinIs
<1>6. Nbits(x) \in 0 .. 30 /\ Nbits(x) # 0 /\ x \div 2^Nbits(x) = 0
  BY <1>2, <1>5 DEF T
<1> DEFINE m == 2^Nbits(x)
<1>7. m \in Nat \ {0} /\ x \div m = 0
  <2>1. Nbits(x) \in 0 .. 31
    BY <1>6
  <2> QED
    BY <1>6, <2>1, PowersOfTwo, Zenon
<1> HIDE DEF m
<1>8. x < m
  BY <1>7, Division
<1> QED
  BY <1>6, <1>8 DEF m

\* The variables of isqrt()'s loop.
Digits == [x : Nat, y : Nat]

\* What the loop keeps, with m = 4^j above the digits that are still to come:
\* the root so far is q * 2^j, y holds q * m, and the square of the root has
\* been taken from v; the root has no further multiple of 2^j in it.
Roots(s, v, m) ==
  \E q \in Nat : /\ s.y = q * m /\ v = s.x + (q * q) * m
                 /\ s.x < 2 * (q * m) + m /\ s \in Digits

\* One turn of the loop.
NextDigit(s, m) ==
  IF s.x >= s.y + m THEN [x |-> s.x - (s.y + m), y |-> s.y \div 2 + m]
  ELSE [x |-> s.x, y |-> s.y \div 2]

\* It finds the next digit.
LEMMA NextDigitRoots ==
  ASSUME NEW v \in Nat, NEW m \in Nat \ {0}, NEW s, Roots(s, v, 4 * m)
  PROVE  Roots(NextDigit(s, m), v, m)
<1>1. PICK q \in Nat : /\ s.y = q * (4 * m) /\ v = s.x + (q * q) * (4 * m)
                       /\ s.x < 2 * (q * (4 * m)) + 4 * m /\ s \in Digits
  BY DEF Roots
<1> DEFINE a == q * m
           b == (q * q) * m
<1>2. a \in Nat /\ b \in Nat /\ q * (4 * m) = 4 * a /\ (q * q) * (4 * m) = 4 * b
  <2>1. q * q \in Nat /\ a \in Nat /\ m \in Nat
    OBVIOUS
  <2>2. q * (4 * m) = 4 * a
    OBVIOUS
  <2> DEFINE u == q * q
  <2>3. u \in Nat
    BY <2>1
  <2> HIDE DEF u
  <2>4. u * m \in Nat /\ u * (4 * m) = 4 * (u * m)
    BY <2>3
  <2> QED
    BY <2>1, <2>2, <2>4 DEF u
<1>3. /\ (2 * q + 1) * m = 2 * a + m /\ ((2 * q + 1) * (2 * q + 1)) * m = 4 * b + 4 * a + m
      /\ (2 * q) * m = 2 * a /\ ((2 * q) * (2 * q)) * m = 4 * b
  <2>1. (2 * q + 1) * (2 * q + 1) = 4 * (q * q) + 4 * q + 1 /\ (2 * q) * (2 * q) = 4 * (q * q)
    OBVIOUS
  <2> DEFINE u == q * q
  <2>2. u \in Nat
    OBVIOUS
  <2> HIDE DEF u
  <2>3. (4 * u + 4 * q + 1) * m = 4 * (u * m) + 4 * (q * m) + m /\ (4 * u) * m = 4 * (u * m)
    BY <2>2
  <2>4. (2 * q + 1) * m = 2 * (q * m) + m /\ (2 * q) * m = 2 * (q * m)
    OBVIOUS
  <2> QED
    BY <2>1, <2>3, <2>4 DEF u
<1> HIDE DEF a, b
<1> DEFINE next == NextDigit(s, m)
<1>4. /\ s.y = 4 * a /\ v = s.x + 4 * b /\ s.x < 8 * a + 4 * m /\ s.x \in Nat
  BY <1>1, <1>2 DEF Digits
<1>5. s.y \div 2 = 2 * a
  BY <1>2, <1>4
<1>6. CASE s.x >= 4 * a + m
  <2> DEFINE p == 2 * q + 1
  <2>1. next = [x |-> s.x - (4 * a + m), y |-> 2 * a + m]
    BY <1>4, <1>5, <1>6 DEF NextDigit
  <2>2. s.x - (4 * a + m) \in Nat /\ 2 * a + m \in Nat
    BY <1>2, <1>4, <1>6
  <2>3. v = (s.x - (4 * a + m)) + (4 * b + 4 * a + m)
    BY <1>2, <1>4
  <2>4. s.x - (4 * a + m) < 2 * (2 * a + m) + m
    BY <1>2, <1>4
  <2>5. p \in Nat /\ p * m = 2 * a + m /\ (p * p) * m = 4 * b + 4 * a + m
    BY <1>3
  <2> HIDE DEF p, next
  <2>6. next \in Digits /\ next.y = p * m /\ v = next.x + (p * p) * m
    BY <2>1, <2>2, <2>3, <2>5 DEF Digits
  <2>7. next.x < 2 * (p * m) + m
    BY <2>1, <2>4, <2>5
  <2> QED
    BY <2>5, <2>6, <2>7, Zenon DEF Roots, next
<1>7. CASE ~(s.x >= 4 * a + m)
  <2> DEFINE p == 2 * q
  <2>1. next = [x |-> s.x, y |-> 2 * a]
    BY <1>4, <1>5, <1>7 DEF NextDigit
  <2>2. 2 * a \in Nat /\ s.x < 2 * (2 * a) + m
    BY <1>2, <1>4, <1>7
  <2>3. p \in Nat /\ p * m = 2 * a /\ (p * p) * m = 4 * b
    BY <1>3
  <2> HIDE DEF p, next
  <2>4. next \in Digits /\ next.y = p * m /\ v = next.x + (p * p) * m
    BY <1>4, <2>1, <2>2, <2>3 DEF Digits
  <2>5. next.x < 2 * (p * m) + m
    BY <2>1, <2>2, <2>3
  <2> QED
    BY <2>3, <2>4, <2>5, Zenon DEF Roots, next
<1> QED
  BY <1>6, <1>7

\* isqrt() (lcn:97-115) is the root rounded down, for every number that Nbits measures.
THEOREM IsqrtIsExact ==
  ASSUME NEW x \in Nat, x < Measurable
  PROVE  Isqrt(x) \in Nat /\ Isqrt(x) * Isqrt(x) <= x /\ x < (Isqrt(x) + 1) * (Isqrt(x) + 1)
<1>1. CASE x <= 1
  <2>1. Isqrt(x) = x
    BY <1>1 DEF Isqrt
  <2>2. x = 0 \/ x = 1
    BY <1>1
  <2> QED
    BY <2>1, <2>2
<1>2. CASE x > 1
  <2> DEFINE top == (Nbits(x) - 1) \div 2
             first == [x |-> x, y |-> 0]
             Solves(f) ==
               f = [i \in 0 .. top + 1 |->
                      IF i = 0 THEN first
                      ELSE LET s == f[i - 1]
                               m == 4^(top + 1 - i)
                           IN IF s.x >= s.y + m THEN [x |-> s.x - (s.y + m), y |-> s.y \div 2 + m]
                              ELSE [x |-> s.x, y |-> s.y \div 2]]
             Follows(f) ==
               f = [i \in 0 .. top + 1 |->
                      IF i = 0 THEN first ELSE NextDigit(f[i - 1], 4^(top + 1 - i))]
             digits == CHOOSE f : Solves(f)
  <2>1. Nbits(x) \in 1 .. 30 /\ x < 2^Nbits(x)
    BY <1>2, NbitsIs
  <2>2. top \in 0 .. 14
    BY <2>1
  <2>3. Isqrt(x) = digits[top + 1].y
    BY <1>2 DEF Isqrt
  <2>4. \A f : Solves(f) <=> Follows(f)
    BY DEF NextDigit
  <2> DEFINE M(i) == 4^(top + 1 - i)
  <2>5. first \in Digits /\ Roots(first, x, M(0))
    <3>1. 2^Nbits(x) <= 4^(top + 1)
      BY <2>1, TopDigit
    <3>2. top + 1 \in 0 .. 15 /\ (top + 1) - 0 = top + 1
      BY <2>2
    <3> DEFINE m == 4^(top + 1)
    <3>3. m \in Nat \ {0} /\ x < m
      <4>1. Nbits(x) \in 0 .. 31
        BY <2>1
      <4> DEFINE u == 2^Nbits(x)
      <4>2. u \in Nat /\ m \in Nat \ {0}
        BY <3>2, <4>1, PowersOfTwo, PowersOfFour, Zenon
      <4>3. x < u /\ u <= m
        BY <2>1, <3>1
      <4> HIDE DEF u, m
      <4> QED
        BY <4>2, <4>3
    <3>4. M(0) = m
      BY <3>2
    <3> HIDE DEF m, M
    <3>5. 0 = 0 * m /\ x = x + (0 * 0) * m /\ x < 2 * (0 * m) + m
      BY <3>3
    <3> QED
      BY <3>4, <3>5 DEF Roots, Digits
  <2> HIDE DEF top, first, Solves, Follows
  <2>6. \A i \in 1 .. top + 1 : M(i) \in Nat \ {0} /\ M(i - 1) = 4 * M(i)
    <3>1. SUFFICES ASSUME NEW i \in 1 .. top + 1 PROVE M(i) \in Nat \ {0} /\ M(i - 1) = 4 * M(i)
      OBVIOUS
    <3>2. top + 1 - i \in 0 .. 15 /\ top + 1 - (i - 1) = (top + 1 - i) + 1
      BY <2>2
    <3> QED
      BY <3>2, PowersOfFour
  <2>7. \E f : Follows(f)
    <3> DEFINE step == [w \in (1 .. top + 1) \X Digits |-> NextDigit(w[2], M(w[1]))]
    <3>1. ASSUME NEW i \in 1 .. top + 1, NEW s \in Digits PROVE NextDigit(s, M(i)) \in Digits
      <4> DEFINE m == M(i)
      <4>1. m \in Nat
        BY <2>6
      <4> HIDE DEF m
      <4>2. NextDigit(s, m) \in Digits
        BY <4>1 DEF NextDigit, Digits
      <4> QED
        BY <4>2 DEF m
    <3>2. step \in [(1 .. top + 1) \X Digits -> Digits]
      <4> HIDE DEF M
      <4> QED
        BY <3>1
    <3>3. \A i \in 1 .. top + 1, s \in Digits : step[<<i, s>>] = NextDigit(s, M(i))
      <4> HIDE DEF M
      <4> QED
        OBVIOUS
    <3> HIDE DEF step, M
    <3>4. top + 1 \in Nat
      BY <2>2
    <3>5. PICK f \in [0 .. top + 1 -> Digits] : Runs(f, top + 1, first, step)
      BY <2>5, <3>2, <3>4, Solvable
    <3>6. \A i \in 0 .. top + 1 : i # 0 => i \in 1 .. top + 1 /\ i - 1 \in 0 .. top + 1
      BY <2>2
    <3>7. \A i \in 0 .. top + 1 : f[i] = IF i = 0 THEN first ELSE NextDigit(f[i - 1], M(i))
      BY <3>3, <3>5, <3>6 DEF Runs
    <3>8. Follows(f)
      BY <3>5, <3>7 DEF Follows, M
    <3> QED
      BY <3>8
  <2>8. Follows(digits)
    BY <2>4, <2>7
  <2> HIDE DEF digits
  <2>9. Roots(digits[top + 1], x, M(top + 1))
    <3> HIDE DEF M
    <3> DEFINE B == {i \in 0 .. top + 1 : Roots(digits[i], x, M(i))}
    <3>1. 0 \in B
      <4>1. 0 \in 0 .. top + 1
        BY <2>2
      <4>2. digits[0] = first
        BY <2>8, <4>1 DEF Follows
      <4> QED
        BY <2>5, <4>1, <4>2
    <3>2. ASSUME NEW i \in 1 .. top + 1, i - 1 \in B PROVE i \in B
      <4>1. i \in 0 .. top + 1 /\ i # 0
        BY <2>2
      <4>2. digits[i] = NextDigit(digits[i - 1], M(i))
        BY <2>8, <4>1 DEF Follows, M
      <4>3. Roots(digits[i - 1], x, 4 * M(i))
        BY <2>6, <3>2
      <4>4. Roots(NextDigit(digits[i - 1], M(i)), x, M(i))
        BY <2>6, <4>3, NextDigitRoots
      <4> QED
        BY <4>1, <4>2, <4>4
    <3> HIDE DEF B
    <3>3. top + 1 \in Nat /\ top + 1 \in 0 .. top + 1
      BY <2>2
    <3>4. \A i \in 0 .. top + 1 : i \in B
      BY <3>1, <3>2, <3>3, Reaches
    <3> QED
      BY <3>3, <3>4 DEF B
  <2>10. M(top + 1) = 1
    <3>1. top + 1 - (top + 1) = 0
      BY <2>2
    <3>2. 4^0 = 1
      BY Z3
    <3> QED
      BY <3>1, <3>2
  <2> HIDE DEF M
  <2> DEFINE s == digits[top + 1]
  <2>11. PICK q \in Nat : /\ s.y = q * 1 /\ x = s.x + (q * q) * 1
                          /\ s.x < 2 * (q * 1) + 1 /\ s \in Digits
    BY <2>9, <2>10 DEF Roots
  <2> HIDE DEF s
  <2>12. s.y = q /\ x = s.x + q * q /\ s.x < 2 * q + 1 /\ s.x \in Nat
    <3>1. q * q \in Nat
      OBVIOUS
    <3> QED
      BY <2>11, <3>1 DEF Digits
  <2>13. q * q <= x /\ x < (q + 1) * (q + 1)
    <3>1. (q + 1) * (q + 1) = q * q + 2 * q + 1 /\ q * q \in Nat
      OBVIOUS
    <3> QED
      BY <2>12, <3>1
  <2> QED
    BY <2>3, <2>12, <2>13 DEF s
<1> QED
  BY <1>1, <1>2

-----------------------------------------------------------------------------
(* Coefficients and temperatures.                                          *)

\* What set_cc() writes to the radio for a leakage coefficient, get_cc() reads
\* back, for every coefficient of four bits and a sign.
THEOREM LoftReadsBack ==
  ASSUME NEW x \in -15 .. 15
  PROVE  LoftWord(x) \in 0 .. 255 /\ LoftRead(LoftWord(x)) = x % 256
<1> DEFINE c == CalcCeil(x)
           f == CalcFloor(x)
<1>1. c \in -7 .. 8 /\ f \in -8 .. 7 /\ c + f = x
  BY DEF CalcCeil, CalcFloor, CDiv
<1> HIDE DEF c, f
<1>2. LoftWord(x) = (8 - c) * 16 + (8 + f) /\ 8 - c \in 0 .. 15 /\ 8 + f \in 0 .. 15
  BY <1>1 DEF LoftWord, c, f
<1> DEFINE hi == 8 - c
           lo == 8 + f
           w == hi * 16 + lo
<1>3. w \in 0 .. 255 /\ w % 16 = lo /\ (w \div 16) % 16 = hi
  BY <1>2
<1>4. lo - hi = x
  BY <1>1
<1>5. LoftRead(w) = (lo - hi) % 256
  BY <1>3 DEF LoftRead
<1> QED
  BY <1>2, <1>3, <1>4, <1>5

\* The temperature that the driver reads back from the 9 bits of tempsense()
\* lies between what the two sensors say, below zero too.
THEOREM TempSenseBetween ==
  ASSUME NEW val1 \in 0 .. 511, NEW val2 \in 0 .. 511
  PROVE  LET t == Signed(TempSense(val1, val2))
         IN  \/ Signed(val1) <= t /\ t <= Signed(val2)
             \/ Signed(val2) <= t /\ t <= Signed(val1)
<1> DEFINE a == Signed(val1)
           b == Signed(val2)
           avg == CDiv(a + b, 2)
<1>1. a \in -256 .. 255 /\ b \in -256 .. 255
  BY DEF Signed
<1> HIDE DEF a, b
<1>2. avg \in -256 .. 255 /\ ((a <= avg /\ avg <= b) \/ (b <= avg /\ avg <= a))
  <2>1. CASE a + b < 0
    <3> DEFINE h == (-(a + b)) \div 2
    <3>1. 2 * h <= -(a + b) /\ -(a + b) <= 2 * h + 1 /\ h \in Nat
      BY <1>1, <2>1
    <3>2. avg = -h
      BY <2>1 DEF CDiv
    <3> HIDE DEF h, avg
    <3> QED
      BY <1>1, <2>1, <3>1, <3>2
  <2>2. CASE ~(a + b < 0)
    <3> DEFINE h == (a + b) \div 2
    <3>1. 2 * h <= a + b /\ a + b <= 2 * h + 1 /\ h \in Nat
      BY <1>1, <2>2
    <3>2. avg = h
      BY <2>2 DEF CDiv
    <3> HIDE DEF h, avg
    <3> QED
      BY <1>1, <2>2, <3>1, <3>2
  <2> QED
    BY <2>1, <2>2
<1>3. TempSense(val1, val2) = IF avg < 0 THEN avg + 512 ELSE avg
  BY DEF TempSense, a, b
<1> HIDE DEF avg
<1>4. Signed(TempSense(val1, val2)) = avg
  BY <1>2, <1>3 DEF Signed
<1> QED
  BY <1>2, <1>4 DEF a, b

-----------------------------------------------------------------------------
(* The logarithm.                                                          *)

\* Every number of 31 bits lies between two powers.
LEMMA Magnitude ==
  ASSUME NEW x \in Nat \ {0}, x < 2^31 PROVE \E k \in 0 .. 30 : 2^k <= x /\ x < 2^(k + 1)
<1> DEFINE B == {i \in 0 .. 31 : ~(x < 2^i)}
<1>1. 0 \in B
  <2>1. 2^0 = 1
    BY Z3
  <2> QED
    BY <2>1
<1>2. ~(\A i \in 0 .. 31 : i \in B)
  OBVIOUS
<1>3. PICK i \in 1 .. 31 : i - 1 \in B /\ i \notin B
  <2> HIDE DEF B
  <2> QED
    BY <1>1, <1>2, Reaches
<1> DEFINE k == i - 1
<1>4. k \in 0 .. 30 /\ k + 1 = i /\ i \in 0 .. 31 /\ k \in 0 .. 31
  OBVIOUS
<1>5. 2^k \in Nat
  BY <1>4, PowersOfTwo, Zenon
<1>6. ~(x < 2^k) /\ x < 2^i
  BY <1>3, <1>4
<1> DEFINE u == 2^k
<1>7. u <= x
  <2>1. ~(x < u) /\ u \in Nat
    BY <1>5, <1>6
  <2> HIDE DEF u
  <2> QED
    BY <2>1
<1> QED
  BY <1>4, <1>6, <1>7

\* norm32() counts the bits that are free in front of the highest one.
LEMMA Norm32Is ==
  ASSUME NEW x \in Nat \ {0}, NEW k \in 0 .. 30, 2^k <= x, x < 2^(k + 1) PROVE Norm32(x) = 30 - k
<1> DEFINE T == {j \in 0 .. 30 : x >= 2^(30 - j) \/ x < -(2^(30 - j))}
<1>1. 30 - k \in T
  <2>1. 30 - k \in 0 .. 30 /\ 30 - (30 - k) = k /\ k \in 0 .. 31
    OBVIOUS
  <2> DEFINE u == 2^k
  <2>2. u \in Nat
    BY <2>1, PowersOfTwo, Zenon
  <2>3. x >= u
    <3>1. u <= x
      OBVIOUS
    <3> HIDE DEF u
    <3> QED
      BY <2>2, <3>1
  <2> QED
    BY <2>1, <2>3
<1>2. ASSUME NEW j \in T PROVE 30 - k <= j
  <2>1. SUFFICES ASSUME ~(30 - k <= j) PROVE FALSE
    OBVIOUS
  <2>2. j \in 0 .. 30
    OBVIOUS
  <2>3. 30 - j \in 0 .. 31 /\ k + 1 \in 0 .. 31 /\ k + 1 <= 30 - j
    BY <2>1, <2>2
  <2> DEFINE u == 2^(30 - j)
             v == 2^(k + 1)
  <2>4. v <= u
    BY <2>3, PowersGrow
  <2>5. u \in Nat /\ v \in Nat
    BY <2>3, PowersOfTwo, Zenon
  <2>6. x >= u \/ x < -u
    OBVIOUS
  <2>7. x < v
    OBVIOUS
  <2> HIDE DEF u, v
  <2> QED
    BY <2>4, <2>5, <2>6, <2>7
<1>3. T \subseteq Nat
  OBVIOUS
<1>4. Norm32(x) = Min(T)
  BY DEF Norm32
<1> HIDE DEF T
<1> QED
  BY <1>1, <1>2, <1>3, <1>4, MinOf

\* Fractions of 15 bits.
Fractions == {x \in Nat : x < 32768}

\* The table of logarithms.
LEMMA LogTableIs ==
  ASSUME NEW i \in 1 .. 32
  PROVE  LogTable[i] \in Fractions /\ LogTable[i + 1] \in Fractions /\ LogTable[i] <= LogTable[i + 1]
<1>2. CASE i \in 1 .. 4
  <2>1. CASE i = 1
    <3>1. LogTable[i] = 0 /\ LogTable[i + 1] = 1455
      BY <2>1, SMT DEF LogTable
    <3>2. 0 \in Fractions /\ 1455 \in Fractions
      BY SMT DEF Fractions
    <3> QED
      BY <3>1, <3>2, SMT
  <2>2. CASE i = 2
    <3>1. LogTable[i] = 1455 /\ LogTable[i + 1] = 2866
      BY <2>2, SMT DEF LogTable
    <3>2. 1455 \in Fractions /\ 2866 \in Fractions
      BY SMT DEF Fractions
    <3> QED
      BY <3>1, <3>2, SMT
  <2>3. CASE i = 3
    <3>1. LogTable[i] = 2866 /\ LogTable[i + 1] = 4236
      BY <2>3, SMT DEF LogTable
    <3>2. 2866 \in Fractions /\ 4236 \in Fractions
      BY SMT DEF Fractions
    <3> QED
      BY <3>1, <3>2, SMT
  <2>4. CASE i = 4
    <3>1. LogTable[i] = 4236 /\ LogTable[i + 1] = 5568
      BY <2>4, SMT DEF LogTable
    <3>2. 4236 \in Fractions /\ 5568 \in Fractions
      BY SMT DEF Fractions
    <3> QED
      BY <3>1, <3>2, SMT
  <2> QED
    BY <1>2, <2>1, <2>2, <2>3, <2>4, SMT
<1>3. CASE i \in 5 .. 8
  <2>1. CASE i = 5
    <3>1. LogTable[i] = 5568 /\ LogTable[i + 1] = 6863
      BY <2>1, SMT DEF LogTable
    <3>2. 5568 \in Fractions /\ 6863 \in Fractions
      BY SMT DEF Fractions
    <3> QED
      BY <3>1, <3>2, SMT
  <2>2. CASE i = 6
    <3>1. LogTable[i] = 6863 /\ LogTable[i + 1] = 8124
      BY <2>2, SMT DEF LogTable
    <3>2. 6863 \in Fractions /\ 8124 \in Fractions
      BY SMT DEF Fractions
    <3> QED
      BY <3>1, <3>2, SMT
  <2>3. CASE i = 7
    <3>1. LogTable[i] = 8124 /\ LogTable[i + 1] = 9352
      BY <2>3, SMT DEF LogTable
    <3>2. 8124 \in Fractions /\ 9352 \in Fractions
      BY SMT DEF Fractions
    <3> QED
      BY <3>1, <3>2, SMT
  <2>4. CASE i = 8
    <3>1. LogTable[i] = 9352 /\ LogTable[i + 1] = 10549
      BY <2>4, SMT DEF LogTable
    <3>2. 9352 \in Fractions /\ 10549 \in Fractions
      BY SMT DEF Fractions
    <3> QED
      BY <3>1, <3>2, SMT
  <2> QED
    BY <1>3, <2>1, <2>2, <2>3, <2>4, SMT
<1>4. CASE i \in 9 .. 12
  <2>1. CASE i = 9
    <3>1. LogTable[i] = 10549 /\ LogTable[i + 1] = 11716
      BY <2>1, SMT DEF LogTable
    <3>2. 10549 \in Fractions /\ 11716 \in Fractions
      BY SMT DEF Fractions
    <3> QED
      BY <3>1, <3>2, SMT
  <2>2. CASE i = 10
    <3>1. LogTable[i] = 11716 /\ LogTable[i + 1] = 12855
      BY <2>2, SMT DEF LogTable
    <3>2. 11716 \in Fractions /\ 12855 \in Fractions
      BY SMT DEF Fractions
    <3> QED
      BY <3>1, <3>2, SMT
  <2>3. CASE i = 11
    <3>1. LogTable[i] = 12855 /\ LogTable[i + 1] = 13968
      BY <2>3, SMT DEF LogTable
    <3>2. 12855 \in Fractions /\ 13968 \in Fractions
      BY SMT DEF Fractions
    <3> QED
      BY <3>1, <3>2, SMT
  <2>4. CASE i = 12
    <3>1. LogTable[i] = 13968 /\ LogTable[i + 1] = 15055
      BY <2>4, SMT DEF LogTable
    <3>2. 13968 \in Fractions /\ 15055 \in Fractions
      BY SMT DEF Fractions
    <3> QED
      BY <3>1, <3>2, SMT
  <2> QED
    BY <1>4, <2>1, <2>2, <2>3, <2>4, SMT
<1>5. CASE i \in 13 .. 16
  <2>1. CASE i = 13
    <3>1. LogTable[i] = 15055 /\ LogTable[i + 1] = 16117
      BY <2>1, SMT DEF LogTable
    <3>2. 15055 \in Fractions /\ 16117 \in Fractions
      BY SMT DEF Fractions
    <3> QED
      BY <3>1, <3>2, SMT
  <2>2. CASE i = 14
    <3>1. LogTable[i] = 16117 /\ LogTable[i + 1] = 17156
      BY <2>2, SMT DEF LogTable
    <3>2. 16117 \in Fractions /\ 17156 \in Fractions
      BY SMT DEF Fractions
    <3> QED
      BY <3>1, <3>2, SMT
  <2>3. CASE i = 15
    <3>1. LogTable[i] = 17156 /\ LogTable[i + 1] = 18173
      BY <2>3, SMT DEF LogTable
    <3>2. 17156 \in Fractions /\ 18173 \in Fractions
      BY SMT DEF Fractions
    <3> QED
      BY <3>1, <3>2, SMT
  <2>4. CASE i = 16
    <3>1. LogTable[i] = 18173 /\ LogTable[i + 1] = 19168
      BY <2>4, SMT DEF LogTable
    <3>2. 18173 \in Fractions /\ 19168 \in Fractions
      BY SMT DEF Fractions
    <3> QED
      BY <3>1, <3>2, SMT
  <2> QED
    BY <1>5, <2>1, <2>2, <2>3, <2>4, SMT
<1>6. CASE i \in 17 .. 20
  <2>1. CASE i = 17
    <3>1. LogTable[i] = 19168 /\ LogTable[i + 1] = 20143
      BY <2>1, SMT DEF LogTable
    <3>2. 19168 \in Fractions /\ 20143 \in Fractions
      BY SMT DEF Fractions
    <3> QED
      BY <3>1, <3>2, SMT
  <2>2. CASE i = 18
    <3>1. LogTable[i] = 20143 /\ LogTable[i + 1] = 21098
      BY <2>2, SMT DEF LogTable
    <3>2. 20143 \in Fractions /\ 21098 \in Fractions
      BY SMT DEF Fractions
    <3> QED
      BY <3>1, <3>2, SMT
  <2>3. CASE i = 19
    <3>1. LogTable[i] = 21098 /\ LogTable[i + 1] = 22034
      BY <2>3, SMT DEF LogTable
    <3>2. 21098 \in Fractions /\ 22034 \in Fractions
      BY SMT DEF Fractions
    <3> QED
      BY <3>1, <3>2, SMT
  <2>4. CASE i = 20
    <3>1. LogTable[i] = 22034 /\ LogTable[i + 1] = 22952
      BY <2>4, SMT DEF LogTable
    <3>2. 22034 \in Fractions /\ 22952 \in Fractions
      BY SMT DEF Fractions
    <3> QED
      BY <3>1, <3>2, SMT
  <2> QED
    BY <1>6, <2>1, <2>2, <2>3, <2>4, SMT
<1>7. CASE i \in 21 .. 24
  <2>1. CASE i = 21
    <3>1. LogTable[i] = 22952 /\ LogTable[i + 1] = 23852
      BY <2>1, SMT DEF LogTable
    <3>2. 22952 \in Fractions /\ 23852 \in Fractions
      BY SMT DEF Fractions
    <3> QED
      BY <3>1, <3>2, SMT
  <2>2. CASE i = 22
    <3>1. LogTable[i] = 23852 /\ LogTable[i + 1] = 24736
      BY <2>2, SMT DEF LogTable
    <3>2. 23852 \in Fractions /\ 24736 \in Fractions
      BY SMT DEF Fractions
    <3> QED
      BY <3>1, <3>2, SMT
  <2>3. CASE i = 23
    <3>1. LogTable[i] = 24736 /\ LogTable[i + 1] = 25604
      BY <2>3, SMT DEF LogTable
    <3>2. 24736 \in Fractions /\ 25604 \in Fractions
      BY SMT DEF Fractions
    <3> QED
      BY <3>1, <3>2, SMT
  <2>4. CASE i = 24
    <3>1. LogTable[i] = 25604 /\ LogTable[i + 1] = 26455
      BY <2>4, SMT DEF LogTable
    <3>2. 25604 \in Fractions /\ 26455 \in Fractions
      BY SMT DEF Fractions
    <3> QED
      BY <3>1, <3>2, SMT
  <2> QED
    BY <1>7, <2>1, <2>2, <2>3, <2>4, SMT
<1>8. CASE i \in 25 .. 28
  <2>1. CASE i = 25
    <3>1. LogTable[i] = 26455 /\ LogTable[i + 1] = 27292
      BY <2>1, SMT DEF LogTable
    <3>2. 26455 \in Fractions /\ 27292 \in Fractions
      BY SMT DEF Fractions
    <3> QED
      BY <3>1, <3>2, SMT
  <2>2. CASE i = 26
    <3>1. LogTable[i] = 27292 /\ LogTable[i + 1] = 28114
      BY <2>2, SMT DEF LogTable
    <3>2. 27292 \in Fractions /\ 28114 \in Fractions
      BY SMT DEF Fractions
    <3> QED
      BY <3>1, <3>2, SMT
  <2>3. CASE i = 27
    <3>1. LogTable[i] = 28114 /\ LogTable[i + 1] = 28922
      BY <2>3, SMT DEF LogTable
    <3>2. 28114 \in Fractions /\ 28922 \in Fractions
      BY SMT DEF Fractions
    <3> QED
      BY <3>1, <3>2, SMT
  <2>4. CASE i = 28
    <3>1. LogTable[i] = 28922 /\ LogTable[i + 1] = 29717
      BY <2>4, SMT DEF LogTable
    <3>2. 28922 \in Fractions /\ 29717 \in Fractions
      BY SMT DEF Fractions
    <3> QED
      BY <3>1, <3>2, SMT
  <2> QED
    BY <1>8, <2>1, <2>2, <2>3, <2>4, SMT
<1>9. CASE i \in 29 .. 32
  <2>1. CASE i = 29
    <3>1. LogTable[i] = 29717 /\ LogTable[i + 1] = 30498
      BY <2>1, SMT DEF LogTable
    <3>2. 29717 \in Fractions /\ 30498 \in Fractions
      BY SMT DEF Fractions
    <3> QED
      BY <3>1, <3>2, SMT
  <2>2. CASE i = 30
    <3>1. LogTable[i] = 30498 /\ LogTable[i + 1] = 31267
      BY <2>2, SMT DEF LogTable
    <3>2. 30498 \in Fractions /\ 31267 \in Fractions
      BY SMT DEF Fractions
    <3> QED
      BY <3>1, <3>2, SMT
  <2>3. CASE i = 31
    <3>1. LogTable[i] = 31267 /\ LogTable[i + 1] = 32024
      BY <2>3, SMT DEF LogTable
    <3>2. 31267 \in Fractions /\ 32024 \in Fractions
      BY SMT DEF Fractions
    <3> QED
      BY <3>1, <3>2, SMT
  <2>4. CASE i = 32
    <3>1. LogTable[i] = 32024 /\ LogTable[i + 1] = 32767
      BY <2>4, SMT DEF LogTable
    <3>2. 32024 \in Fractions /\ 32767 \in Fractions
      BY SMT DEF Fractions
    <3> QED
      BY <3>1, <3>2, SMT
  <2> QED
    BY <1>9, <2>1, <2>2, <2>3, <2>4, SMT
<1> QED
  BY <1>2, <1>3, <1>4, <1>5, <1>6, <1>7, <1>8, <1>9

\* The fraction of the binary logarithm, from a number moved to the left as far as it goes.
Fraction(m) ==
  LET i == ((m \div 2^25) % 32) + 1
      offset == (m % 2^25) \div 2^9
      step == (offset * (LogTable[i + 1] - LogTable[i])) \div 2^16
  IN Sat16(LogTable[i] + step)

\* It has 15 bits.
LEMMA FractionIs == ASSUME NEW m \in Nat PROVE Fraction(m) \in Fractions
<1> DEFINE i == ((m \div 2^25) % 32) + 1
           offset == (m % 2^25) \div 2^9
           rise == LogTable[i + 1] - LogTable[i]
           step == (offset * rise) \div 2^16
<1>1. i \in 1 .. 32
  <2> DEFINE q == m \div 2^25
  <2>1. 2^25 = 33554432
    BY Z3
  <2>2. q \in Nat
    BY <2>1
  <2> HIDE DEF q
  <2> QED
    BY <2>2 DEF q
<1>2. offset \in Nat
  <2>1. 2^25 = 33554432 /\ 2^9 = 512
    BY Z3
  <2> DEFINE q == m % 2^25
  <2>2. q \in Nat
    BY <2>1
  <2> HIDE DEF q
  <2>3. q \div 512 \in Nat
    BY <2>2
  <2> QED
    BY <2>1, <2>3 DEF q
<1> HIDE DEF i, offset
<1>3. rise \in Nat /\ LogTable[i] \in Nat
  <2> DEFINE a == LogTable[i]
             b == LogTable[i + 1]
  <2>1. a \in Fractions /\ b \in Fractions /\ a <= b
    BY <1>1, LogTableIs, Zenon
  <2> HIDE DEF a, b
  <2>2. a \in Nat /\ b - a \in Nat
    BY <2>1, SMT DEF Fractions
  <2> QED
    BY <2>2, Zenon DEF a, b
<1> HIDE DEF rise
<1>4. step \in Nat
  <2>1. 2^16 = 65536
    BY Z3
  <2> DEFINE q == offset * rise
  <2>2. q \in Nat
    BY <1>2, <1>3, SMT
  <2> HIDE DEF q
  <2>3. q \div 65536 \in Nat
    BY <2>2
  <2> QED
    BY <2>1, <2>3 DEF q
<1>5. Fraction(m) = Sat16(LogTable[i] + step)
  BY DEF Fraction, i, offset, rise
<1> HIDE DEF step
<1>6. LogTable[i] + step \in Nat
  BY <1>3, <1>4, SMT
<1> DEFINE y == LogTable[i] + step
<1> HIDE DEF y
<1>7. y \in Nat => Sat16(y) \in Fractions
  BY SMT DEF Sat16, Fractions
<1> QED
  BY <1>5, <1>6, <1>7 DEF y

\* What qm_log10() makes of a binary logarithm with 15 bits after the point, in 1024ths.
Decimal(l) ==
  MulS16(Int16(Shl32(l, Norm32(l) - 16)), Log10Of2) \div 2^(Norm32(l) - 10)

\* The product with log10(2), scaled: the error is below 1.3.
Scaled(l, v) == v \in Nat /\ 2097152 * v <= 19728 * l /\ 19728 * l < 2097152 * v + 2708720

\* Numbers of 15 bits, the highest one set.
Normed == {x \in Nat : 16384 <= x /\ x < 32768}

\* They are multiplied by 19728 / 2^15.
LEMMA Multiplied ==
  ASSUME NEW a \in Normed
  PROVE  LET b == MulS16(Int16(a), Log10Of2)
         IN b \in Nat /\ 32768 * b <= 19728 * a /\ 19728 * a < 32768 * b + 32768
<1>1. ASSUME NEW y \in Nat, y < 32768 PROVE Int16(y) = y
  <2>1. (y + 32768) % 65536 = y + 32768
    BY <1>1, SMT
  <2> QED
    BY <1>1, <2>1, SMT DEF Int16
<1> DEFINE p == a * 19728
           b == p \div 32768
<1>2. a \in Nat /\ a < 32768 /\ a # -32768
  BY SMT DEF Normed
<1>3. p \in Nat /\ p <= 19728 * 32767 /\ p = 19728 * a
  BY <1>2, SMT
<1>4. Int16(a) = a
  BY <1>1, <1>2
<1>5. MulS16(a, Log10Of2) = Int16(b)
  <2>1. 2^15 = 32768
    BY Z3
  <2>2. MulS16(a, Log10Of2) = Int16(p \div 2^15)
    BY <1>2, SMT DEF MulS16, Log10Of2
  <2> QED
    BY <2>1, <2>2, SMT
<1> HIDE DEF p
<1>6. b \in Nat /\ 32768 * b <= p /\ p < 32768 * b + 32768
  BY <1>3, SMT
<1> HIDE DEF b
<1>7. b < 32768
  BY <1>3, <1>6, SMT
<1>8. Int16(b) = b
  BY <1>1, <1>6, <1>7
<1> QED
  BY <1>3, <1>4, <1>5, <1>6, <1>8, SMT

\* shl32() to the left ...
LEMMA ShlLeft == ASSUME NEW l, NEW s \in Nat PROVE Shl32(l, s) = l * 2^s
<1>1. s >= 0
  OBVIOUS
<1> QED
  BY <1>1, Zenon DEF Shl32

\* ... and to the right.
LEMMA ShlRight ==
  ASSUME NEW l, NEW s \in Int, NEW t \in Nat \ {0}, s = -t PROVE Shl32(l, s) = l \div 2^t
<1>1. ~(s >= 0) /\ -s = t
  OBVIOUS
<1> QED
  BY <1>1, Zenon DEF Shl32

\* Logarithms of 20 bits.
Logs == {l \in Nat : l < 1048576}

\* Whatever its size.
LEMMA DecimalIs == ASSUME NEW l \in Logs PROVE Scaled(l, Decimal(l))
<1>0. l \in Nat
  BY SMT DEF Logs
<1>1. CASE l = 0
  <2>1. Norm32(l) = 31
    BY <1>1, Zenon DEF Norm32
  <2>2. 2^15 = 32768 /\ 2^21 = 2097152
    BY Z3
  <2>3. Shl32(l, 15) = 0
    BY <1>1, <2>2 DEF Shl32
  <2>4. Int16(0) = 0
    BY DEF Int16
  <2>5. MulS16(0, Log10Of2) = 0
    BY <2>2, <2>4 DEF MulS16, Log10Of2
  <2>6. Decimal(l) = 0 \div 2^21
    <3>1. 31 - 16 = 15 /\ 31 - 10 = 21
      BY SMT
    <3> QED
      BY <2>1, <2>3, <2>4, <2>5, <3>1, Zenon DEF Decimal
  <2>7. 0 \div 2^21 = 0
    BY <2>2, SMT
  <2> QED
    BY <1>1, <2>6, <2>7, SMT DEF Scaled
<1>2. CASE l # 0
  <2>1. PICK k \in 0 .. 30 : 2^k <= l /\ l < 2^(k + 1)
    <3>1. l < 2^31
      BY Z3 DEF Logs
    <3>2. l \in Nat \ {0}
      BY <1>0, <1>2, SMT
    <3> QED
      BY <3>1, <3>2, Magnitude, Zenon
  <2>2. Norm32(l) = 30 - k
    <3>1. l \in Nat \ {0}
      BY <1>0, <1>2, SMT
    <3> QED
      BY <2>1, <3>1, Norm32Is, Zenon
  <2>3. k \in 0 .. 19
    <3>1. SUFFICES ASSUME k > 19 PROVE FALSE
      OBVIOUS
    <3>2. 20 <= k /\ k \in 0 .. 31 /\ 20 \in 0 .. 31
      BY <3>1
    <3>3. 2^20 <= 2^k
      BY <3>2, PowersGrow
    <3>4. l < 2^20
      BY Z3 DEF Logs
    <3> DEFINE u == 2^k
               v == 2^20
    <3>5. u \in Nat /\ v \in Nat
      BY <3>2, PowersOfTwo, Zenon
    <3>6. v <= u /\ u <= l /\ l < v
      BY <2>1, <3>3, <3>4, Zenon
    <3> HIDE DEF u, v
    <3> QED
      BY <1>0, <3>5, <3>6, SMT
  <2> DEFINE b(a) == MulS16(Int16(a), Log10Of2)
  <2>4. CASE k = 0
    <3>1. 2^k = 1 /\ 2^(k + 1) = 2 /\ 2^(30 - k - 10) = 1048576
      BY <2>4
    <3>2. Shl32(l, 30 - k - 16) = l * 16384
      <4>1. 30 - k - 16 = 14 /\ 2^14 = 16384
        BY <2>4
      <4>2. Shl32(l, 14) = l * 2^14
        BY ShlLeft
      <4> QED
        BY <4>1, <4>2, SMT
    <3> DEFINE a == l * 16384
    <3>3. a \in Normed
      BY <1>0, <2>1, <3>1, SMT DEF Normed
    <3>4. a = 16384 * l
      BY <1>0, SMT
    <3> HIDE DEF a
    <3> DEFINE v == b(a) \div 1048576
    <3>5. Decimal(l) = v
      BY <2>2, <3>1, <3>2, SMT DEF Decimal, a
    <3>6. b(a) \in Nat /\ 32768 * b(a) <= 19728 * a /\ 19728 * a < 32768 * b(a) + 32768
      BY <3>3, Multiplied, SMT
    <3> HIDE DEF b
    <3>7. v \in Nat /\ 1048576 * v <= b(a) /\ b(a) <= 1048576 * v + 1048575
      BY <3>6, SMT
    <3> HIDE DEF v
    <3>8. Scaled(l, v)
      BY <1>0, <3>3, <3>4, <3>6, <3>7, SMT DEF Scaled, Normed
    <3> QED
      BY <3>5, <3>8, Zenon
  <2>5. CASE k = 1
    <3>1. 2^k = 2 /\ 2^(k + 1) = 4 /\ 2^(30 - k - 10) = 524288
      BY <2>5
    <3>2. Shl32(l, 30 - k - 16) = l * 8192
      <4>1. 30 - k - 16 = 13 /\ 2^13 = 8192
        BY <2>5
      <4>2. Shl32(l, 13) = l * 2^13
        BY ShlLeft
      <4> QED
        BY <4>1, <4>2, SMT
    <3> DEFINE a == l * 8192
    <3>3. a \in Normed
      BY <1>0, <2>1, <3>1, SMT DEF Normed
    <3>4. a = 8192 * l
      BY <1>0, SMT
    <3> HIDE DEF a
    <3> DEFINE v == b(a) \div 524288
    <3>5. Decimal(l) = v
      BY <2>2, <3>1, <3>2, SMT DEF Decimal, a
    <3>6. b(a) \in Nat /\ 32768 * b(a) <= 19728 * a /\ 19728 * a < 32768 * b(a) + 32768
      BY <3>3, Multiplied, SMT
    <3> HIDE DEF b
    <3>7. v \in Nat /\ 524288 * v <= b(a) /\ b(a) <= 524288 * v + 524287
      BY <3>6, SMT
    <3> HIDE DEF v
    <3>8. Scaled(l, v)
      BY <1>0, <3>3, <3>4, <3>6, <3>7, SMT DEF Scaled, Normed
    <3> QED
      BY <3>5, <3>8, Zenon
  <2>6. CASE k = 2
    <3>1. 2^k = 4 /\ 2^(k + 1) = 8 /\ 2^(30 - k - 10) = 262144
      BY <2>6
    <3>2. Shl32(l, 30 - k - 16) = l * 4096
      <4>1. 30 - k - 16 = 12 /\ 2^12 = 4096
        BY <2>6
      <4>2. Shl32(l, 12) = l * 2^12
        BY ShlLeft
      <4> QED
        BY <4>1, <4>2, SMT
    <3> DEFINE a == l * 4096
    <3>3. a \in Normed
      BY <1>0, <2>1, <3>1, SMT DEF Normed
    <3>4. a = 4096 * l
      BY <1>0, SMT
    <3> HIDE DEF a
    <3> DEFINE v == b(a) \div 262144
    <3>5. Decimal(l) = v
      BY <2>2, <3>1, <3>2, SMT DEF Decimal, a
    <3>6. b(a) \in Nat /\ 32768 * b(a) <= 19728 * a /\ 19728 * a < 32768 * b(a) + 32768
      BY <3>3, Multiplied, SMT
    <3> HIDE DEF b
    <3>7. v \in Nat /\ 262144 * v <= b(a) /\ b(a) <= 262144 * v + 262143
      BY <3>6, SMT
    <3> HIDE DEF v
    <3>8. Scaled(l, v)
      BY <1>0, <3>3, <3>4, <3>6, <3>7, SMT DEF Scaled, Normed
    <3> QED
      BY <3>5, <3>8, Zenon
  <2>7. CASE k = 3
    <3>1. 2^k = 8 /\ 2^(k + 1) = 16 /\ 2^(30 - k - 10) = 131072
      BY <2>7
    <3>2. Shl32(l, 30 - k - 16) = l * 2048
      <4>1. 30 - k - 16 = 11 /\ 2^11 = 2048
        BY <2>7
      <4>2. Shl32(l, 11) = l * 2^11
        BY ShlLeft
      <4> QED
        BY <4>1, <4>2, SMT
    <3> DEFINE a == l * 2048
    <3>3. a \in Normed
      BY <1>0, <2>1, <3>1, SMT DEF Normed
    <3>4. a = 2048 * l
      BY <1>0, SMT
    <3> HIDE DEF a
    <3> DEFINE v == b(a) \div 131072
    <3>5. Decimal(l) = v
      BY <2>2, <3>1, <3>2, SMT DEF Decimal, a
    <3>6. b(a) \in Nat /\ 32768 * b(a) <= 19728 * a /\ 19728 * a < 32768 * b(a) + 32768
      BY <3>3, Multiplied, SMT
    <3> HIDE DEF b
    <3>7. v \in Nat /\ 131072 * v <= b(a) /\ b(a) <= 131072 * v + 131071
      BY <3>6, SMT
    <3> HIDE DEF v
    <3>8. Scaled(l, v)
      BY <1>0, <3>3, <3>4, <3>6, <3>7, SMT DEF Scaled, Normed
    <3> QED
      BY <3>5, <3>8, Zenon
  <2>8. CASE k = 4
    <3>1. 2^k = 16 /\ 2^(k + 1) = 32 /\ 2^(30 - k - 10) = 65536
      BY <2>8
    <3>2. Shl32(l, 30 - k - 16) = l * 1024
      <4>1. 30 - k - 16 = 10 /\ 2^10 = 1024
        BY <2>8
      <4>2. Shl32(l, 10) = l * 2^10
        BY ShlLeft
      <4> QED
        BY <4>1, <4>2, SMT
    <3> DEFINE a == l * 1024
    <3>3. a \in Normed
      BY <1>0, <2>1, <3>1, SMT DEF Normed
    <3>4. a = 1024 * l
      BY <1>0, SMT
    <3> HIDE DEF a
    <3> DEFINE v == b(a) \div 65536
    <3>5. Decimal(l) = v
      BY <2>2, <3>1, <3>2, SMT DEF Decimal, a
    <3>6. b(a) \in Nat /\ 32768 * b(a) <= 19728 * a /\ 19728 * a < 32768 * b(a) + 32768
      BY <3>3, Multiplied, SMT
    <3> HIDE DEF b
    <3>7. v \in Nat /\ 65536 * v <= b(a) /\ b(a) <= 65536 * v + 65535
      BY <3>6, SMT
    <3> HIDE DEF v
    <3>8. Scaled(l, v)
      BY <1>0, <3>3, <3>4, <3>6, <3>7, SMT DEF Scaled, Normed
    <3> QED
      BY <3>5, <3>8, Zenon
  <2>9. CASE k = 5
    <3>1. 2^k = 32 /\ 2^(k + 1) = 64 /\ 2^(30 - k - 10) = 32768
      BY <2>9
    <3>2. Shl32(l, 30 - k - 16) = l * 512
      <4>1. 30 - k - 16 = 9 /\ 2^9 = 512
        BY <2>9
      <4>2. Shl32(l, 9) = l * 2^9
        BY ShlLeft
      <4> QED
        BY <4>1, <4>2, SMT
    <3> DEFINE a == l * 512
    <3>3. a \in Normed
      BY <1>0, <2>1, <3>1, SMT DEF Normed
    <3>4. a = 512 * l
      BY <1>0, SMT
    <3> HIDE DEF a
    <3> DEFINE v == b(a) \div 32768
    <3>5. Decimal(l) = v
      BY <2>2, <3>1, <3>2, SMT DEF Decimal, a
    <3>6. b(a) \in Nat /\ 32768 * b(a) <= 19728 * a /\ 19728 * a < 32768 * b(a) + 32768
      BY <3>3, Multiplied, SMT
    <3> HIDE DEF b
    <3>7. v \in Nat /\ 32768 * v <= b(a) /\ b(a) <= 32768 * v + 32767
      BY <3>6, SMT
    <3> HIDE DEF v
    <3>8. Scaled(l, v)
      BY <1>0, <3>3, <3>4, <3>6, <3>7, SMT DEF Scaled, Normed
    <3> QED
      BY <3>5, <3>8, Zenon
  <2>10. CASE k = 6
    <3>1. 2^k = 64 /\ 2^(k + 1) = 128 /\ 2^(30 - k - 10) = 16384
      BY <2>10
    <3>2. Shl32(l, 30 - k - 16) = l * 256
      <4>1. 30 - k - 16 = 8 /\ 2^8 = 256
        BY <2>10
      <4>2. Shl32(l, 8) = l * 2^8
        BY ShlLeft
      <4> QED
        BY <4>1, <4>2, SMT
    <3> DEFINE a == l * 256
    <3>3. a \in Normed
      BY <1>0, <2>1, <3>1, SMT DEF Normed
    <3>4. a = 256 * l
      BY <1>0, SMT
    <3> HIDE DEF a
    <3> DEFINE v == b(a) \div 16384
    <3>5. Decimal(l) = v
      BY <2>2, <3>1, <3>2, SMT DEF Decimal, a
    <3>6. b(a) \in Nat /\ 32768 * b(a) <= 19728 * a /\ 19728 * a < 32768 * b(a) + 32768
      BY <3>3, Multiplied, SMT
    <3> HIDE DEF b
    <3>7. v \in Nat /\ 16384 * v <= b(a) /\ b(a) <= 16384 * v + 16383
      BY <3>6, SMT
    <3> HIDE DEF v
    <3>8. Scaled(l, v)
      BY <1>0, <3>3, <3>4, <3>6, <3>7, SMT DEF Scaled, Normed
    <3> QED
      BY <3>5, <3>8, Zenon
  <2>11. CASE k = 7
    <3>1. 2^k = 128 /\ 2^(k + 1) = 256 /\ 2^(30 - k - 10) = 8192
      BY <2>11
    <3>2. Shl32(l, 30 - k - 16) = l * 128
      <4>1. 30 - k - 16 = 7 /\ 2^7 = 128
        BY <2>11
      <4>2. Shl32(l, 7) = l * 2^7
        BY ShlLeft
      <4> QED
        BY <4>1, <4>2, SMT
    <3> DEFINE a == l * 128
    <3>3. a \in Normed
      BY <1>0, <2>1, <3>1, SMT DEF Normed
    <3>4. a = 128 * l
      BY <1>0, SMT
    <3> HIDE DEF a
    <3> DEFINE v == b(a) \div 8192
    <3>5. Decimal(l) = v
      BY <2>2, <3>1, <3>2, SMT DEF Decimal, a
    <3>6. b(a) \in Nat /\ 32768 * b(a) <= 19728 * a /\ 19728 * a < 32768 * b(a) + 32768
      BY <3>3, Multiplied, SMT
    <3> HIDE DEF b
    <3>7. v \in Nat /\ 8192 * v <= b(a) /\ b(a) <= 8192 * v + 8191
      BY <3>6, SMT
    <3> HIDE DEF v
    <3>8. Scaled(l, v)
      BY <1>0, <3>3, <3>4, <3>6, <3>7, SMT DEF Scaled, Normed
    <3> QED
      BY <3>5, <3>8, Zenon
  <2>12. CASE k = 8
    <3>1. 2^k = 256 /\ 2^(k + 1) = 512 /\ 2^(30 - k - 10) = 4096
      BY <2>12
    <3>2. Shl32(l, 30 - k - 16) = l * 64
      <4>1. 30 - k - 16 = 6 /\ 2^6 = 64
        BY <2>12
      <4>2. Shl32(l, 6) = l * 2^6
        BY ShlLeft
      <4> QED
        BY <4>1, <4>2, SMT
    <3> DEFINE a == l * 64
    <3>3. a \in Normed
      BY <1>0, <2>1, <3>1, SMT DEF Normed
    <3>4. a = 64 * l
      BY <1>0, SMT
    <3> HIDE DEF a
    <3> DEFINE v == b(a) \div 4096
    <3>5. Decimal(l) = v
      BY <2>2, <3>1, <3>2, SMT DEF Decimal, a
    <3>6. b(a) \in Nat /\ 32768 * b(a) <= 19728 * a /\ 19728 * a < 32768 * b(a) + 32768
      BY <3>3, Multiplied, SMT
    <3> HIDE DEF b
    <3>7. v \in Nat /\ 4096 * v <= b(a) /\ b(a) <= 4096 * v + 4095
      BY <3>6, SMT
    <3> HIDE DEF v
    <3>8. Scaled(l, v)
      BY <1>0, <3>3, <3>4, <3>6, <3>7, SMT DEF Scaled, Normed
    <3> QED
      BY <3>5, <3>8, Zenon
  <2>13. CASE k = 9
    <3>1. 2^k = 512 /\ 2^(k + 1) = 1024 /\ 2^(30 - k - 10) = 2048
      BY <2>13
    <3>2. Shl32(l, 30 - k - 16) = l * 32
      <4>1. 30 - k - 16 = 5 /\ 2^5 = 32
        BY <2>13
      <4>2. Shl32(l, 5) = l * 2^5
        BY ShlLeft
      <4> QED
        BY <4>1, <4>2, SMT
    <3> DEFINE a == l * 32
    <3>3. a \in Normed
      BY <1>0, <2>1, <3>1, SMT DEF Normed
    <3>4. a = 32 * l
      BY <1>0, SMT
    <3> HIDE DEF a
    <3> DEFINE v == b(a) \div 2048
    <3>5. Decimal(l) = v
      BY <2>2, <3>1, <3>2, SMT DEF Decimal, a
    <3>6. b(a) \in Nat /\ 32768 * b(a) <= 19728 * a /\ 19728 * a < 32768 * b(a) + 32768
      BY <3>3, Multiplied, SMT
    <3> HIDE DEF b
    <3>7. v \in Nat /\ 2048 * v <= b(a) /\ b(a) <= 2048 * v + 2047
      BY <3>6, SMT
    <3> HIDE DEF v
    <3>8. Scaled(l, v)
      BY <1>0, <3>3, <3>4, <3>6, <3>7, SMT DEF Scaled, Normed
    <3> QED
      BY <3>5, <3>8, Zenon
  <2>14. CASE k = 10
    <3>1. 2^k = 1024 /\ 2^(k + 1) = 2048 /\ 2^(30 - k - 10) = 1024
      BY <2>14
    <3>2. Shl32(l, 30 - k - 16) = l * 16
      <4>1. 30 - k - 16 = 4 /\ 2^4 = 16
        BY <2>14
      <4>2. Shl32(l, 4) = l * 2^4
        BY ShlLeft
      <4> QED
        BY <4>1, <4>2, SMT
    <3> DEFINE a == l * 16
    <3>3. a \in Normed
      BY <1>0, <2>1, <3>1, SMT DEF Normed
    <3>4. a = 16 * l
      BY <1>0, SMT
    <3> HIDE DEF a
    <3> DEFINE v == b(a) \div 1024
    <3>5. Decimal(l) = v
      BY <2>2, <3>1, <3>2, SMT DEF Decimal, a
    <3>6. b(a) \in Nat /\ 32768 * b(a) <= 19728 * a /\ 19728 * a < 32768 * b(a) + 32768
      BY <3>3, Multiplied, SMT
    <3> HIDE DEF b
    <3>7. v \in Nat /\ 1024 * v <= b(a) /\ b(a) <= 1024 * v + 1023
      BY <3>6, SMT
    <3> HIDE DEF v
    <3>8. Scaled(l, v)
      BY <1>0, <3>3, <3>4, <3>6, <3>7, SMT DEF Scaled, Normed
    <3> QED
      BY <3>5, <3>8, Zenon
  <2>15. CASE k = 11
    <3>1. 2^k = 2048 /\ 2^(k + 1) = 4096 /\ 2^(30 - k - 10) = 512
      BY <2>15
    <3>2. Shl32(l, 30 - k - 16) = l * 8
      <4>1. 30 - k - 16 = 3 /\ 2^3 = 8
        BY <2>15
      <4>2. Shl32(l, 3) = l * 2^3
        BY ShlLeft
      <4> QED
        BY <4>1, <4>2, SMT
    <3> DEFINE a == l * 8
    <3>3. a \in Normed
      BY <1>0, <2>1, <3>1, SMT DEF Normed
    <3>4. a = 8 * l
      BY <1>0, SMT
    <3> HIDE DEF a
    <3> DEFINE v == b(a) \div 512
    <3>5. Decimal(l) = v
      BY <2>2, <3>1, <3>2, SMT DEF Decimal, a
    <3>6. b(a) \in Nat /\ 32768 * b(a) <= 19728 * a /\ 19728 * a < 32768 * b(a) + 32768
      BY <3>3, Multiplied, SMT
    <3> HIDE DEF b
    <3>7. v \in Nat /\ 512 * v <= b(a) /\ b(a) <= 512 * v + 511
      BY <3>6, SMT
    <3> HIDE DEF v
    <3>8. Scaled(l, v)
      BY <1>0, <3>3, <3>4, <3>6, <3>7, SMT DEF Scaled, Normed
    <3> QED
      BY <3>5, <3>8, Zenon
  <2>16. CASE k = 12
    <3>1. 2^k = 4096 /\ 2^(k + 1) = 8192 /\ 2^(30 - k - 10) = 256
      BY <2>16
    <3>2. Shl32(l, 30 - k - 16) = l * 4
      <4>1. 30 - k - 16 = 2 /\ 2^2 = 4
        BY <2>16
      <4>2. Shl32(l, 2) = l * 2^2
        BY ShlLeft
      <4> QED
        BY <4>1, <4>2, SMT
    <3> DEFINE a == l * 4
    <3>3. a \in Normed
      BY <1>0, <2>1, <3>1, SMT DEF Normed
    <3>4. a = 4 * l
      BY <1>0, SMT
    <3> HIDE DEF a
    <3> DEFINE v == b(a) \div 256
    <3>5. Decimal(l) = v
      BY <2>2, <3>1, <3>2, SMT DEF Decimal, a
    <3>6. b(a) \in Nat /\ 32768 * b(a) <= 19728 * a /\ 19728 * a < 32768 * b(a) + 32768
      BY <3>3, Multiplied, SMT
    <3> HIDE DEF b
    <3>7. v \in Nat /\ 256 * v <= b(a) /\ b(a) <= 256 * v + 255
      BY <3>6, SMT
    <3> HIDE DEF v
    <3>8. Scaled(l, v)
      BY <1>0, <3>3, <3>4, <3>6, <3>7, SMT DEF Scaled, Normed
    <3> QED
      BY <3>5, <3>8, Zenon
  <2>17. CASE k = 13
    <3>1. 2^k = 8192 /\ 2^(k + 1) = 16384 /\ 2^(30 - k - 10) = 128
      BY <2>17
    <3>2. Shl32(l, 30 - k - 16) = l * 2
      <4>1. 30 - k - 16 = 1 /\ 2^1 = 2
        BY <2>17
      <4>2. Shl32(l, 1) = l * 2^1
        BY ShlLeft
      <4> QED
        BY <4>1, <4>2, SMT
    <3> DEFINE a == l * 2
    <3>3. a \in Normed
      BY <1>0, <2>1, <3>1, SMT DEF Normed
    <3>4. a = 2 * l
      BY <1>0, SMT
    <3> HIDE DEF a
    <3> DEFINE v == b(a) \div 128
    <3>5. Decimal(l) = v
      BY <2>2, <3>1, <3>2, SMT DEF Decimal, a
    <3>6. b(a) \in Nat /\ 32768 * b(a) <= 19728 * a /\ 19728 * a < 32768 * b(a) + 32768
      BY <3>3, Multiplied, SMT
    <3> HIDE DEF b
    <3>7. v \in Nat /\ 128 * v <= b(a) /\ b(a) <= 128 * v + 127
      BY <3>6, SMT
    <3> HIDE DEF v
    <3>8. Scaled(l, v)
      BY <1>0, <3>3, <3>4, <3>6, <3>7, SMT DEF Scaled, Normed
    <3> QED
      BY <3>5, <3>8, Zenon
  <2>18. CASE k = 14
    <3>1. 2^k = 16384 /\ 2^(k + 1) = 32768 /\ 2^(30 - k - 10) = 64
      BY <2>18
    <3>2. Shl32(l, 30 - k - 16) = l * 1
      <4>1. 30 - k - 16 = 0 /\ 2^0 = 1
        BY <2>18
      <4>2. Shl32(l, 0) = l * 2^0
        BY ShlLeft
      <4> QED
        BY <4>1, <4>2, SMT
    <3> DEFINE a == l * 1
    <3>3. a \in Normed
      BY <1>0, <2>1, <3>1, SMT DEF Normed
    <3>4. a = 1 * l
      BY <1>0, SMT
    <3> HIDE DEF a
    <3> DEFINE v == b(a) \div 64
    <3>5. Decimal(l) = v
      BY <2>2, <3>1, <3>2, SMT DEF Decimal, a
    <3>6. b(a) \in Nat /\ 32768 * b(a) <= 19728 * a /\ 19728 * a < 32768 * b(a) + 32768
      BY <3>3, Multiplied, SMT
    <3> HIDE DEF b
    <3>7. v \in Nat /\ 64 * v <= b(a) /\ b(a) <= 64 * v + 63
      BY <3>6, SMT
    <3> HIDE DEF v
    <3>8. Scaled(l, v)
      BY <1>0, <3>3, <3>4, <3>6, <3>7, SMT DEF Scaled, Normed
    <3> QED
      BY <3>5, <3>8, Zenon
  <2>19. CASE k = 15
    <3>1. 2^k = 32768 /\ 2^(k + 1) = 65536 /\ 2^(30 - k - 10) = 32
      BY <2>19
    <3>2. Shl32(l, 30 - k - 16) = l \div 2
      <4> DEFINE s == 30 - k - 16
      <4>1. s \in Int /\ s = -1 /\ 2^1 = 2 /\ 1 \in Nat \ {0}
        BY <2>19
      <4> HIDE DEF s
      <4>2. Shl32(l, s) = l \div 2^1
        BY <4>1, ShlRight, Zenon
      <4> QED
        BY <4>1, <4>2, SMT DEF s
    <3> DEFINE a == l \div 2
    <3>3. a \in Normed
      BY <1>0, <2>1, <3>1, SMT DEF Normed
    <3>4. 2 * a <= l /\ l <= 2 * a + 1
      BY <1>0, SMT
    <3> HIDE DEF a
    <3> DEFINE v == b(a) \div 32
    <3>5. Decimal(l) = v
      BY <2>2, <3>1, <3>2, SMT DEF Decimal, a
    <3>6. b(a) \in Nat /\ 32768 * b(a) <= 19728 * a /\ 19728 * a < 32768 * b(a) + 32768
      BY <3>3, Multiplied, SMT
    <3> HIDE DEF b
    <3>7. v \in Nat /\ 32 * v <= b(a) /\ b(a) <= 32 * v + 31
      BY <3>6, SMT
    <3> HIDE DEF v
    <3>8. Scaled(l, v)
      BY <1>0, <3>3, <3>4, <3>6, <3>7, SMT DEF Scaled, Normed
    <3> QED
      BY <3>5, <3>8, Zenon
  <2>20. CASE k = 16
    <3>1. 2^k = 65536 /\ 2^(k + 1) = 131072 /\ 2^(30 - k - 10) = 16
      BY <2>20
    <3>2. Shl32(l, 30 - k - 16) = l \div 4
      <4> DEFINE s == 30 - k - 16
      <4>1. s \in Int /\ s = -2 /\ 2^2 = 4 /\ 2 \in Nat \ {0}
        BY <2>20
      <4> HIDE DEF s
      <4>2. Shl32(l, s) = l \div 2^2
        BY <4>1, ShlRight, Zenon
      <4> QED
        BY <4>1, <4>2, SMT DEF s
    <3> DEFINE a == l \div 4
    <3>3. a \in Normed
      BY <1>0, <2>1, <3>1, SMT DEF Normed
    <3>4. 4 * a <= l /\ l <= 4 * a + 3
      BY <1>0, SMT
    <3> HIDE DEF a
    <3> DEFINE v == b(a) \div 16
    <3>5. Decimal(l) = v
      BY <2>2, <3>1, <3>2, SMT DEF Decimal, a
    <3>6. b(a) \in Nat /\ 32768 * b(a) <= 19728 * a /\ 19728 * a < 32768 * b(a) + 32768
      BY <3>3, Multiplied, SMT
    <3> HIDE DEF b
    <3>7. v \in Nat /\ 16 * v <= b(a) /\ b(a) <= 16 * v + 15
      BY <3>6, SMT
    <3> HIDE DEF v
    <3>8. Scaled(l, v)
      BY <1>0, <3>3, <3>4, <3>6, <3>7, SMT DEF Scaled, Normed
    <3> QED
      BY <3>5, <3>8, Zenon
  <2>21. CASE k = 17
    <3>1. 2^k = 131072 /\ 2^(k + 1) = 262144 /\ 2^(30 - k - 10) = 8
      BY <2>21
    <3>2. Shl32(l, 30 - k - 16) = l \div 8
      <4> DEFINE s == 30 - k - 16
      <4>1. s \in Int /\ s = -3 /\ 2^3 = 8 /\ 3 \in Nat \ {0}
        BY <2>21
      <4> HIDE DEF s
      <4>2. Shl32(l, s) = l \div 2^3
        BY <4>1, ShlRight, Zenon
      <4> QED
        BY <4>1, <4>2, SMT DEF s
    <3> DEFINE a == l \div 8
    <3>3. a \in Normed
      BY <1>0, <2>1, <3>1, SMT DEF Normed
    <3>4. 8 * a <= l /\ l <= 8 * a + 7
      BY <1>0, SMT
    <3> HIDE DEF a
    <3> DEFINE v == b(a) \div 8
    <3>5. Decimal(l) = v
      BY <2>2, <3>1, <3>2, SMT DEF Decimal, a
    <3>6. b(a) \in Nat /\ 32768 * b(a) <= 19728 * a /\ 19728 * a < 32768 * b(a) + 32768
      BY <3>3, Multiplied, SMT
    <3> HIDE DEF b
    <3>7. v \in Nat /\ 8 * v <= b(a) /\ b(a) <= 8 * v + 7
      BY <3>6, SMT
    <3> HIDE DEF v
    <3>8. Scaled(l, v)
      BY <1>0, <3>3, <3>4, <3>6, <3>7, SMT DEF Scaled, Normed
    <3> QED
      BY <3>5, <3>8, Zenon
  <2>22. CASE k = 18
    <3>1. 2^k = 262144 /\ 2^(k + 1) = 524288 /\ 2^(30 - k - 10) = 4
      BY <2>22
    <3>2. Shl32(l, 30 - k - 16) = l \div 16
      <4> DEFINE s == 30 - k - 16
      <4>1. s \in Int /\ s = -4 /\ 2^4 = 16 /\ 4 \in Nat \ {0}
        BY <2>22
      <4> HIDE DEF s
      <4>2. Shl32(l, s) = l \div 2^4
        BY <4>1, ShlRight, Zenon
      <4> QED
        BY <4>1, <4>2, SMT DEF s
    <3> DEFINE a == l \div 16
    <3>3. a \in Normed
      BY <1>0, <2>1, <3>1, SMT DEF Normed
    <3>4. 16 * a <= l /\ l <= 16 * a + 15
      BY <1>0, SMT
    <3> HIDE DEF a
    <3> DEFINE v == b(a) \div 4
    <3>5. Decimal(l) = v
      BY <2>2, <3>1, <3>2, SMT DEF Decimal, a
    <3>6. b(a) \in Nat /\ 32768 * b(a) <= 19728 * a /\ 19728 * a < 32768 * b(a) + 32768
      BY <3>3, Multiplied, SMT
    <3> HIDE DEF b
    <3>7. v \in Nat /\ 4 * v <= b(a) /\ b(a) <= 4 * v + 3
      BY <3>6, SMT
    <3> HIDE DEF v
    <3>8. Scaled(l, v)
      BY <1>0, <3>3, <3>4, <3>6, <3>7, SMT DEF Scaled, Normed
    <3> QED
      BY <3>5, <3>8, Zenon
  <2>23. CASE k = 19
    <3>1. 2^k = 524288 /\ 2^(k + 1) = 1048576 /\ 2^(30 - k - 10) = 2
      BY <2>23
    <3>2. Shl32(l, 30 - k - 16) = l \div 32
      <4> DEFINE s == 30 - k - 16
      <4>1. s \in Int /\ s = -5 /\ 2^5 = 32 /\ 5 \in Nat \ {0}
        BY <2>23
      <4> HIDE DEF s
      <4>2. Shl32(l, s) = l \div 2^5
        BY <4>1, ShlRight, Zenon
      <4> QED
        BY <4>1, <4>2, SMT DEF s
    <3> DEFINE a == l \div 32
    <3>3. a \in Normed
      BY <1>0, <2>1, <3>1, SMT DEF Normed
    <3>4. 32 * a <= l /\ l <= 32 * a + 31
      BY <1>0, SMT
    <3> HIDE DEF a
    <3> DEFINE v == b(a) \div 2
    <3>5. Decimal(l) = v
      BY <2>2, <3>1, <3>2, SMT DEF Decimal, a
    <3>6. b(a) \in Nat /\ 32768 * b(a) <= 19728 * a /\ 19728 * a < 32768 * b(a) + 32768
      BY <3>3, Multiplied, SMT
    <3> HIDE DEF b
    <3>7. v \in Nat /\ 2 * v <= b(a) /\ b(a) <= 2 * v + 1
      BY <3>6, SMT
    <3> HIDE DEF v
    <3>8. Scaled(l, v)
      BY <1>0, <3>3, <3>4, <3>6, <3>7, SMT DEF Scaled, Normed
    <3> QED
      BY <3>5, <3>8, Zenon
  <2> QED
    BY <2>3, <2>4, <2>5, <2>6, <2>7, <2>8, <2>9, <2>10, <2>11, <2>12, <2>13, <2>14, <2>15,
       <2>16, <2>17, <2>18, <2>19, <2>20, <2>21, <2>22, <2>23
<1> QED
  BY <1>1, <1>2


\* The binary logarithm of a number from 2^k on: the exponent and the fraction.
Binary(x, k) == Fraction(x * 2^(30 - k)) + k * 32768

\* The logarithm of a number between two powers of two.
LEMMA LogIs ==
  ASSUME NEW x \in Nat \ {0}, NEW k \in 0 .. 30, 2^k <= x, x < 2^(k + 1)
  PROVE  Log10Value(x) = Decimal(Binary(x, k))
<1>1. Norm32(x) = 30 - k
  BY Norm32Is
<1> DEFINE m == x * 2^(30 - k)
           log2 == Fraction(m) - (0 + (30 - k) - 30) * 2^15
<1>2. m \in Nat
  <2> DEFINE u == 2^(30 - k)
  <2>1. 30 - k \in 0 .. 31
    OBVIOUS
  <2>2. u \in Nat
    BY <2>1, PowersOfTwo, Zenon
  <2> HIDE DEF u
  <2>3. x * u \in Nat
    BY <2>2
  <2> QED
    BY <2>3 DEF u
<1>3. QmLog10(x, 0) = [log |-> MulS16(Int16(Shl32(log2, Norm32(log2) - 16)), Log10Of2),
                       q |-> Norm32(log2)]
  BY <1>1 DEF QmLog10, Fraction
<1>4. log2 = Fraction(m) + k * 32768
  <2> HIDE DEF m
  <2>1. Fraction(m) \in Fractions
    BY <1>2, FractionIs
  <2>2. 2^15 = 32768
    BY Z3
  <2> DEFINE fr == Fraction(m)
  <2> HIDE DEF fr
  <2>3. fr \in Fractions => fr - (0 + (30 - k) - 30) * 32768 = fr + k * 32768
    BY SMT DEF Fractions
  <2> QED
    BY <2>1, <2>2, <2>3 DEF fr
<1> HIDE DEF m, log2
<1> QED
  BY <1>3, <1>4 DEF Log10Value, Decimal, Binary, m

\* qm_log10() (lcn:1746-1771) of twice a number is log10(2) more, to less than a
\* thousandth and a half, for every number whose double is an int32_t.
THEOREM Log10AddsUp == ASSUME NEW x \in Nat PROVE Log10Doubles(x)
<1>1. SUFFICES ASSUME x \in 1 .. 2^30 - 1 PROVE Log10Value(2 * x) - Log10Value(x) \in 307 .. 309
  BY DEF Log10Doubles
<1>2. 2^30 = 1073741824 /\ 2^31 = 2147483648
  BY Z3
<1>3. x \in Nat \ {0} /\ x < 2^30 /\ x < 2^31 /\ 2 * x \in Nat \ {0}
  BY <1>1, <1>2
<1>4. PICK k \in 0 .. 30 : 2^k <= x /\ x < 2^(k + 1)
  BY <1>3, Magnitude
<1>5. k \in 0 .. 29
  <2>1. SUFFICES ASSUME k = 30 PROVE FALSE
    OBVIOUS
  <2>2. 1073741824 <= x
    BY <1>2, <1>4, <2>1
  <2> QED
    BY <1>1, <1>2, <2>2
<1>6. 2^(k + 1) <= 2 * x /\ 2 * x < 2^(k + 1 + 1)
  <2> DEFINE u == 2^k
             v == 2^(k + 1)
             w == 2^(k + 1 + 1)
  <2>1. k \in 0 .. 31 /\ k + 1 \in 0 .. 31
    BY <1>5
  <2>2. v = 2 * u /\ w = 2 * v /\ u \in Nat /\ v \in Nat
    BY <2>1, PowersOfTwo, Zenon
  <2>3. u <= x /\ x < v
    BY <1>4
  <2> HIDE DEF u, v, w
  <2>4. v <= 2 * x /\ 2 * x < w
    BY <1>3, <2>2, <2>3
  <2> QED
    BY <2>4 DEF v, w
<1> DEFINE m == x * 2^(30 - k)
           m2 == (2 * x) * 2^(30 - (k + 1))
<1>7. m = m2 /\ m \in Nat
  <2> DEFINE u == 2^(29 - k)
             v == 2^(29 - k + 1)
  <2>1. 29 - k \in 0 .. 31 /\ 29 - k + 1 = 30 - k /\ 30 - (k + 1) = 29 - k
    BY <1>5
  <2>2. v = 2 * u /\ u \in Nat
    BY <2>1, PowersOfTwo, Zenon
  <2>3. m = x * v /\ m2 = (2 * x) * u
    BY <2>1
  <2> HIDE DEF u, v, m, m2
  <2>4. x * (2 * u) = (2 * x) * u /\ x * (2 * u) \in Nat
    BY <1>3, <2>2
  <2> QED
    BY <2>2, <2>3, <2>4
<1> DEFINE l1 == Binary(x, k)
           l2 == Binary(2 * x, k + 1)
           v1 == Decimal(l1)
           v2 == Decimal(l2)
<1>8. Log10Value(x) = v1
  BY <1>3, <1>4, LogIs
<1>9. Log10Value(2 * x) = v2
  <2>1. k + 1 \in 0 .. 30
    BY <1>5
  <2> QED
    BY <1>3, <1>6, <2>1, LogIs, Zenon
<1>10. (l1 \in Logs /\ l2 \in Logs) /\ l2 = l1 + 32768
  <2> DEFINE fr == Fraction(m)
  <2>1. fr \in Fractions
    BY <1>7, FractionIs, Zenon
  <2>2. l1 = fr + k * 32768 /\ l2 = fr + (k + 1) * 32768
    <3>1. Fraction(m2) = fr
      BY <1>7, Zenon
    <3> QED
      BY <3>1, SMT DEF Binary
  <2> HIDE DEF fr, l1, l2
  <2> QED
    BY <1>5, <2>1, <2>2, SMT DEF Fractions, Logs
<1> HIDE DEF l1, l2
<1>11. Scaled(l1, v1) /\ Scaled(l2, v2)
  <2>1. l1 \in Logs /\ l2 \in Logs
    BY <1>10, SMT
  <2> QED
    BY <2>1, DecimalIs, Zenon
<1> HIDE DEF v1, v2
<1>12. v2 - v1 \in 307 .. 309
  BY <1>10, <1>11, SMT DEF Scaled, Logs
<1> QED
  BY <1>8, <1>9, <1>12

-----------------------------------------------------------------------------
(* Together.                                                               *)

\* Min and Max of two numbers.
LEMMA PairBounds ==
  ASSUME NEW a \in Int, NEW b \in Int, a <= b
  PROVE  Min({a, b}) = a /\ Max({a, b}) = b /\ Min({b, a}) = a /\ Max({b, a}) = b
<1> DEFINE T == {a, b}
<1>1. {b, a} = T
  OBVIOUS
<1>2. a \in T /\ \A y \in T : a <= y
  OBVIOUS
<1>3. b \in T /\ \A y \in T : y <= b
  OBVIOUS
<1>4. \A x \in T : x \in Int
  OBVIOUS
<1> HIDE DEF T
<1> DEFINE lo == Min(T)
           hi == Max(T)
<1>5. lo \in T /\ \A y \in T : lo <= y
  BY <1>2, Zenon DEF Min
<1>6. hi \in T /\ \A y \in T : y <= hi
  BY <1>3 DEF Max
<1> HIDE DEF lo, hi
<1>7. lo = a /\ hi = b
  <2>1. lo \in Int /\ hi \in Int
    BY <1>4, <1>5, <1>6
  <2>2. lo <= a /\ a <= lo /\ hi <= b /\ b <= hi
    BY <1>2, <1>3, <1>5, <1>6
  <2> QED
    BY <2>1, <2>2
<1> QED
  BY <1>1, <1>7 DEF lo, hi, T

\* The numbers whose squares, and all that comes before the next square, Nbits
\* measures.
Squarable == 32767

\* The roots next to such a square.
LEMMA RootsFloor ==
  ASSUME NEW k \in Nat, k < Squarable PROVE IsqrtFloors(k)
<1> DEFINE inputs == {k, k * k, k * k + 2 * k, k * 1021}
<1>1. \A x \in inputs : x \in Nat /\ x < Measurable
  <2>1. Measurable = 1073741824 /\ k < 32767
    BY Z3 DEF Measurable, Squarable
  <2> DEFINE q == k * k
  <2>2. q \in Nat /\ q <= 32766 * 32766
    <3>1. q <= k * 32766 /\ k * 32766 <= 32766 * 32766 /\ q \in Nat
      BY <2>1, Z3
    <3> HIDE DEF q
    <3> QED
      BY <3>1, SMT
  <2>3. inputs = {k, q, q + 2 * k, k * 1021}
    BY SMT
  <2> HIDE DEF q, inputs
  <2>4. \A x \in {k, q, q + 2 * k, k * 1021} : x \in Nat /\ x < Measurable
    BY <2>1, <2>2, SMT
  <2> QED
    BY <2>3, <2>4, SMT
<1> HIDE DEF inputs
<1>2. \A x \in inputs : Isqrt(x) * Isqrt(x) <= x /\ x < (Isqrt(x) + 1) * (Isqrt(x) + 1)
  BY <1>1, IsqrtIsExact, Zenon
<1> QED
  BY <1>2, SMT DEF IsqrtFloors, inputs

\* The quotients of the inputs fit.
LEMMA SmallQuotient ==
  ASSUME NEW k \in Nat, k < Squarable, NEW divisor \in 1 .. 24, NEW p \in {0, 1, 2, 5, 10}
  PROVE  DivRoundUp(k * 2^p, divisor) \in Words
<1> DEFINE v == 2^p
           x == k * v
           q == x \div divisor
<1>1. k < 32767 /\ 2^32 = 4294967296
  BY Z3 DEF Squarable
<1>2. v \in 1 .. 1024
  <2>1. 2^0 = 1 /\ 2^1 = 2 /\ 2^2 = 4 /\ 2^5 = 32 /\ 2^10 = 1024
    BY Z3
  <2>3. p = 0 \/ p = 1 \/ p = 2 \/ p = 5 \/ p = 10
    OBVIOUS
  <2>2. v = 2^0 \/ v = 2^1 \/ v = 2^2 \/ v = 2^5 \/ v = 2^10
    BY <2>3, Zenon
  <2> HIDE DEF v
  <2> QED
    BY <2>1, <2>2, Z3
<1> HIDE DEF v
<1>3. x \in Nat /\ x <= 32767 * 1024
  <2>1. x \in Nat /\ x <= k * 1024
    BY <1>2, Z3
  <2> HIDE DEF x
  <2> QED
    BY <1>1, <2>1, SMT
<1> HIDE DEF x
<1>4. q \in Nat /\ q <= x
  <2>1. divisor \in Nat \ {0} /\ divisor >= 1
    OBVIOUS
  <2>2. q \in Nat /\ x % divisor \in Nat /\ x = q * divisor + (x % divisor)
    BY <1>3, <2>1, Division
  <2> HIDE DEF q
  <2>3. q <= q * divisor /\ q * divisor \in Nat
    BY <2>1, <2>2, Z3
  <2> QED
    BY <1>3, <2>2, <2>3
<1>8. DivRoundUp(x, divisor) =
        q + (IF x % divisor >= (divisor \div 2) + (divisor % 2) THEN 1 ELSE 0)
  BY DEF DivRoundUp
<1> HIDE DEF q
<1>5. DivRoundUp(x, divisor) = q \/ DivRoundUp(x, divisor) = q + 1
  BY <1>4, <1>8
<1>6. DivRoundUp(x, divisor) \in Nat /\ DivRoundUp(x, divisor) <= 32767 * 1024 + 1
  BY <1>3, <1>4, <1>5, SMT
<1>7. DivRoundUp(x, divisor) \in Words
  BY <1>1, <1>6, SMT DEF Words
<1> QED
  BY <1>7 DEF x, v

\* The divisions, by what the driver divides by.
LEMMA QdivAlways == ASSUME NEW k \in Nat, k < Squarable PROVE QdivRounds(k)
<1>1. ASSUME NEW divisor \in 1 .. 24, NEW p \in {0, 1, 2, 5, 10}
      PROVE  QdivRoundup(k, divisor, p) = DivRoundUp(k * 2^p, divisor)
  <2>1. p \in 0 .. 31
    OBVIOUS
  <2>2. k \in Words /\ divisor \in Words \ {0}
    <3>1. k < 32767 /\ 2^32 = 4294967296
      BY Z3 DEF Squarable
    <3>2. k <= 4294967295 /\ divisor <= 4294967295 /\ divisor \in Nat /\ divisor # 0
      BY <3>1, Z3
    <3>3. k \in Words /\ divisor \in Words
      BY <3>1, <3>2, Z3 DEF Words
    <3> QED
      BY <3>2, <3>3
  <2>3. DivRoundUp(k * 2^p, divisor) \in Words
    BY SmallQuotient
  <2> QED
    BY <2>1, <2>2, <2>3, QdivIsExact, Zenon
<1> QED
  BY <1>1, Zenon DEF QdivRounds

\* The coefficients.
LEMMA LoftAlways == ASSUME NEW k \in Nat PROVE LoftRoundTrips(k)
<1> DEFINE x == (k % 31) - 15
<1>1. x \in -15 .. 15
  OBVIOUS
<1> HIDE DEF x
<1>2. LoftWord(x) \in 0 .. 255 /\ LoftRead(LoftWord(x)) = x % 256
  BY <1>1, LoftReadsBack
<1> QED
  BY <1>2 DEF LoftRoundTrips, x

\* Every pair of readings of the two sensors.
LEMMA TempSensePair ==
  ASSUME NEW val1 \in 0 .. 511, NEW val2 \in 0 .. 511
  PROVE  Signed(TempSense(val1, val2)) \in
           Min({Signed(val1), Signed(val2)}) .. Max({Signed(val1), Signed(val2)})
<1> DEFINE a == Signed(val1)
           b == Signed(val2)
           t == Signed(TempSense(val1, val2))
<1>1. (a <= t /\ t <= b) \/ (b <= t /\ t <= a)
  BY TempSenseBetween
<1>2. a \in Int /\ b \in Int
  BY DEF Signed
<1>3. t \in Int
  <2>1. TempSense(val1, val2) \in Int
    BY <1>2 DEF TempSense, CDiv
  <2> QED
    BY <2>1 DEF Signed
<1> HIDE DEF a, b, t
<1>4. t \in Min({a, b}) .. Max({a, b})
  <2>1. CASE a <= t /\ t <= b
    <3>1. Min({a, b}) = a /\ Max({a, b}) = b
      BY <1>2, <1>3, <2>1, PairBounds
    <3> QED
      BY <1>2, <1>3, <2>1, <3>1
  <2>2. CASE b <= t /\ t <= a
    <3>1. Min({a, b}) = b /\ Max({a, b}) = a
      BY <1>2, <1>3, <2>2, PairBounds
    <3> QED
      BY <1>2, <1>3, <2>2, <3>1
  <2> QED
    BY <1>1, <2>1, <2>2
<1> QED
  BY <1>4 DEF a, b, t

\* Those of the inputs are readings.
LEMMA TempSenseAlways == ASSUME NEW k \in Nat PROVE TempSenseAverages(k)
<1> DEFINE val1 == k % 512
           readings == {0, 1, 255, 256, 257, 511, (7 * k) % 512}
<1>1. val1 \in 0 .. 511
  OBVIOUS
<1>2. \A val2 \in readings : val2 \in 0 .. 511
  OBVIOUS
<1> HIDE DEF val1, readings
<1>3. \A val2 \in readings :
        Signed(TempSense(val1, val2)) \in
          Min({Signed(val1), Signed(val2)}) .. Max({Signed(val1), Signed(val2)})
  BY <1>1, <1>2, TempSensePair
<1> QED
  BY <1>3 DEF TempSenseAverages, val1, readings

\* The PHY's arithmetic is exact (the quotient, the root, the coefficients, the
\* temperature and the logarithm) for every input whose square nbits() measures.
THEOREM ArithmeticAlwaysExact == ASSUME Inputs <= Squarable PROVE Spec => []ArithmeticIsExact
<1>1. n \in Nat /\ n < Inputs => ArithmeticIsExact
  <2>1. SUFFICES ASSUME n \in Nat, n < Inputs PROVE ArithmeticIsExact
    OBVIOUS
  <2>2. n < Squarable
    <3>1. Squarable \in Nat
      BY SMT DEF Squarable
    <3> QED
      BY <2>1, <3>1, InputsAssumption, SMT
  <2> QED
    BY <2>1, <2>2, QdivAlways, RootsFloor, LoftAlways, TempSenseAlways, Log10AddsUp, Zenon
    DEF ArithmeticIsExact
<1>2. Init => n \in Nat /\ n < Inputs
  BY InputsAssumption DEF Init
<1>3. (n \in Nat /\ n < Inputs) /\ [Next]_n => (n \in Nat /\ n < Inputs)'
  BY InputsAssumption DEF Next, Call
<1> QED
  BY <1>1, <1>2, <1>3, PTL DEF Spec

-----------------------------------------------------------------------------
(* The image of the microcode.                                             *)

\* The lists that dump_inits() is given.
InitEntries == [addr : Nat, size : Nat]

\* dump_inits() (if_bcm4313.c:1083-1104) applies a list with an end mark entry by entry up to
\* its first one, although its bound compares entries with bytes.
THEOREM ListAppliedUpToEnd ==
  ASSUME NEW list \in Seq(InitEntries) PROVE AppliesUpToEnd(list)
<1>1. SUFFICES ASSUME End \in {list[i] : i \in DOMAIN list} PROVE AppliesUpToEnd(list)
  BY DEF AppliesUpToEnd
<1> DEFINE T == {i \in DOMAIN list : list[i] = End}
           end == Min(T)
           len == Len(list)
           S == {i \in 0 .. EntrySize * len :
                   i + EntrySize > EntrySize * len \/ (i < len /\ list[i + 1] = End)}
<1>2. len \in Nat /\ DOMAIN list = 1 .. len
  OBVIOUS
<1>3. end \in 1 .. len /\ list[end] = End /\ \A i \in 1 .. len : list[i] = End => end <= i
  <2>1. T # {} /\ T \subseteq Nat
    BY <1>1, <1>2
  <2>2. end \in T /\ \A i \in T : end <= i
    BY <2>1, MinIs
  <2> HIDE DEF end
  <2> QED
    BY <1>2, <2>2
<1> HIDE DEF end, len
<1>4. Min(S) = end - 1
  <2>1. S \subseteq Nat
    BY <1>2 DEF EntrySize
  <2>2. end - 1 \in S
    <3>1. end - 1 \in 0 .. EntrySize * len /\ end - 1 < len /\ (end - 1) + 1 = end
      BY <1>2, <1>3 DEF EntrySize
    <3> QED
      BY <1>3, <3>1
  <2>3. ASSUME NEW i \in S PROVE end - 1 <= i
    <3>1. i \in Nat
      BY <2>1
    <3>2. CASE i + EntrySize > EntrySize * len
      BY <1>2, <1>3, <3>1, <3>2 DEF EntrySize
    <3>3. CASE i < len /\ list[i + 1] = End
      <4>1. i + 1 \in 1 .. len
        BY <1>2, <3>1, <3>3
      <4>2. end <= i + 1
        BY <1>3, <3>3, <4>1
      <4> QED
        BY <1>3, <3>1, <4>2
    <3> QED
      BY <3>2, <3>3
  <2> HIDE DEF S
  <2> QED
    BY <2>1, <2>2, <2>3, MinOf
<1>5. StopsAt(list, EntrySize * len) = end - 1
  BY <1>4 DEF StopsAt, len
<1> QED
  BY <1>5 DEF AppliesUpToEnd, DumpInits, end, len

\* The only section with the index is found.
LEMMA FoundSection ==
  ASSUME NEW header, NEW want, NEW i \in Nat, {j \in DOMAIN header : header[j].idx = want} = {i}
  PROVE  FindSection(header, want) = {header[i]}
<1>1. Min({i}) = i
  BY MinOf
<1> QED
  BY <1>1 DEF FindSection

\* ucode_download() (if_bcm4313.c:1106-1152) uploads whole words of the LCN section whatever
\* size the image gives, and applies both lists of the driver's own image.
THEOREM UploadStaysInside == ASSUME NEW size \in Nat PROVE UploadsInside(size)
<1>1. ASSUME NEW d \in Download(Header, size)
      PROVE  \E s \in FindSection(Header, LcnUcode) :
               d.from = s.offset /\ 4 * d.words = size /\ d.from + 4 * d.words <= BinSize
  <2>1. PICK s \in FindSection(Header, LcnUcode) :
          /\ Inside(s) /\ size <= s.len /\ size % 4 = 0
          /\ d = [from |-> s.offset, words |-> size \div 4]
    BY DEF Download
  <2>2. s.offset \in Nat /\ s.len \in Nat
    <3>1. s \in {Header[i] : i \in DOMAIN Header}
      <4> DEFINE found == {i \in DOMAIN Header : Header[i].idx = LcnUcode}
      <4>1. found # {} /\ s = Header[Min(found)]
        BY DEF FindSection
      <4>2. found \subseteq Nat
        BY DEF Header
      <4>3. Min(found) \in found
        BY <4>1, <4>2, MinIs
      <4> QED
        BY <4>1, <4>3
    <3>2. \A i \in DOMAIN Header : Header[i].offset \in Nat /\ Header[i].len \in Nat
      BY DEF Header, Section
    <3> QED
      BY <3>1, <3>2
  <2>3. 4 * (size \div 4) = size
    BY <2>1
  <2>4. s.offset + size <= BinSize
    BY <2>1, <2>2 DEF Inside, BinSize
  <2> QED
    BY <2>1, <2>3, <2>4
<1>2. Cardinality(Lists(Header)) = 2
  <2> DEFINE one == Section(\h158c0, \h120, 1)
             two == Section(\h14ae0, \hdd8, 2)
  <2>1. FindSection(Header, 1) = {one}
    <3>1. {i \in DOMAIN Header : Header[i].idx = 1} = {11} /\ Header[11] = one
      BY DEF Header, Section
    <3> HIDE DEF one
    <3> QED
      BY <3>1, FoundSection
  <2>2. FindSection(Header, 2) = {two}
    <3>1. {i \in DOMAIN Header : Header[i].idx = 2} = {10} /\ Header[10] = two
      BY DEF Header, Section
    <3> HIDE DEF two
    <3> QED
      BY <3>1, FoundSection
  <2>3. UNION {FindSection(Header, InitLists[i]) : i \in DOMAIN InitLists} = {one, two}
    <3>1. DOMAIN InitLists = {1, 2} /\ InitLists[1] = 1 /\ InitLists[2] = 2
      BY DEF InitLists
    <3> HIDE DEF one, two
    <3> QED
      BY <2>1, <2>2, <3>1
  <2>4. one.offset + one.len <= BinSize /\ two.offset + two.len <= BinSize /\ one # two
    BY DEF Section, BinSize
  <2> HIDE DEF one, two
  <2>5. Lists(Header) = {one, two}
    BY <2>3, <2>4 DEF Lists
  <2>6. one \notin {} /\ two \notin {one} /\ {one, two} = {one} \cup {two}
    BY <2>4
  <2>7. IsFiniteSet({one}) /\ Cardinality({one}) = 1
    BY FS_Singleton
  <2>8. Cardinality({one} \cup {two}) = 2
    BY <2>6, <2>7, FS_AddElement
  <2> QED
    BY <2>5, <2>6, <2>8
<1> QED
  BY <1>1, <1>2 DEF UploadsInside

\* Both, for every input.
THEOREM ImageAlwaysApplied == Spec => []ImageIsApplied
<1>1. ASSUME NEW k \in Nat PROVE List(k) \in Seq(InitEntries)
  <2>1. \A j \in 1 .. 4 : Kinds[j] \in InitEntries
    BY DEF Kinds, End, InitEntries
  <2> QED
    BY <2>1 DEF List
<1>2. n \in Nat => ImageIsApplied
  <2>1. SUFFICES ASSUME n \in Nat PROVE ImageIsApplied
    OBVIOUS
  <2>2. AppliesUpToEnd(List(n))
    BY <1>1, <2>1, ListAppliedUpToEnd
  <2>3. 40 * n \in Nat
    BY <2>1
  <2> QED
    BY <2>2, <2>3, UploadStaysInside DEF ImageIsApplied
<1>3. Init => n \in Nat
  BY DEF Init
<1>4. n \in Nat /\ [Next]_n => (n \in Nat)'
  BY InputsAssumption DEF Next, Call
<1> QED
  BY <1>2, <1>3, <1>4, PTL DEF Spec

=============================================================================
