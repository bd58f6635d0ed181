---------------------------- MODULE Markov_proofs ----------------------------
(***************************************************************************)
(* Proofs about Bounded, for every width and bound, and about the chains   *)
(* of Markov, which draw by it.                                            *)
(***************************************************************************)
EXTENDS Markov, FiniteSetTheorems, SequenceTheorems, WellFoundedInduction, TLAPS

-----------------------------------------------------------------------------
(* Bounded: powers of two.                                                 *)

\* What holds of zero and of what comes after a number holds of all.
LEMMA SetInduction ==
  ASSUME NEW S, 0 \in S, \A n \in Nat : n \in S => n + 1 \in S
  PROVE  \A n \in Nat : n \in S
<1> DEFINE T == {n \in Nat : n \notin S}
           R == OpToRel(<, Nat)
<1> SUFFICES ASSUME T # {} PROVE FALSE
  OBVIOUS
<1>1. IsWellFoundedOn(R, Nat)
  BY NatLessThanWellFounded
<1>2. \A i, j \in Nat : <<i, j>> \in R <=> i < j
  BY DEF OpToRel
<1> HIDE DEF R
<1>3. PICK x \in T : \A y \in T : <<y, x>> \notin R
  BY <1>1, WFMin, Zenon
<1>4. x \in Nat /\ x # 0 /\ x - 1 \in Nat
  OBVIOUS
<1>5. x - 1 \in T
  <2>1. (x - 1) + 1 = x
    BY <1>4
  <2> QED
    BY <1>4, <2>1
<1>6. <<x - 1, x>> \in R
  BY <1>2, <1>4
<1> QED
  BY <1>3, <1>5, <1>6

\* There is one quotient and one remainder.
LEMMA OneQuotient ==
  ASSUME NEW b \in Nat \ {0}, NEW q \in Nat, NEW r \in 0..b-1,
         NEW d \in Nat, NEW e \in 0..b-1, q * b + r = d * b + e
  PROVE  q = d /\ r = e
<1>1. ~(q < d)
  <2> SUFFICES ASSUME q < d PROVE FALSE
    OBVIOUS
  <2>1. PICK k \in Nat : d = q + 1 + k
    <3>1. d - q - 1 \in Nat /\ d = q + 1 + (d - q - 1)
      OBVIOUS
    <3> QED
      BY <3>1
  <2>2. d * b = q * b + b + k * b /\ k * b \in Nat
    BY <2>1
  <2> QED
    BY <2>2
<1>2. ~(d < q)
  <2> SUFFICES ASSUME d < q PROVE FALSE
    OBVIOUS
  <2>1. PICK k \in Nat : q = d + 1 + k
    <3>1. q - d - 1 \in Nat /\ q = d + 1 + (q - d - 1)
      OBVIOUS
    <3> QED
      BY <3>1
  <2>2. q * b = d * b + b + k * b /\ k * b \in Nat
    BY <2>1
  <2> QED
    BY <2>2
<1>3. q = d
  BY <1>1, <1>2
<1> QED
  BY <1>3

\* f is the powers up to the n-th.
Powers(f, n) ==
  f \in [0..n -> Nat] /\ f[0] = 1 /\ \A k \in 1..n : f[k] = 2 * f[k - 1]

LEMMA PowersFound == \A n \in Nat : \E f : Powers(f, n)
<1> DEFINE S == {n \in Nat : \E f : Powers(f, n)}
<1>1. 0 \in S
  <2>1. PICK f : f = [k \in 0..0 |-> 1]
    OBVIOUS
  <2>2. Powers(f, 0)
    BY <2>1 DEF Powers
  <2> QED
    BY <2>2
<1>2. ASSUME NEW n \in Nat, n \in S PROVE n + 1 \in S
  <2>1. PICK m \in Nat : m = n + 1
    OBVIOUS
  <2>2. PICK f : Powers(f, n)
    BY <1>2
  <2>3. PICK g : g = [k \in 0..m |-> IF k = m THEN 2 * f[n] ELSE f[k]]
    OBVIOUS
  <2>4. f \in [0..n -> Nat] /\ f[n] \in Nat /\ f[0] = 1
    BY <2>2 DEF Powers
  <2>5. \A k \in 0..m : (IF k = m THEN 2 * f[n] ELSE f[k]) \in Nat
    BY <2>1, <2>4
  <2>6. g \in [0..m -> Nat]
    BY <2>3, <2>5
  <2>7. g[0] = 1
    BY <2>1, <2>3, <2>4
  <2>8. ASSUME NEW k \in 1..m PROVE g[k] = 2 * g[k - 1]
    <3>1. k - 1 \in 0..n /\ k - 1 \in 0..m /\ k - 1 # m /\ k \in 0..m
      BY <2>1
    <3>2. g[k - 1] = f[k - 1]
      BY <2>3, <3>1
    <3>3. CASE k = m
      <4>1. k - 1 = n
        BY <2>1, <3>3
      <4> QED
        BY <2>3, <3>1, <3>2, <3>3, <4>1
    <3>4. CASE k # m
      <4>1. k \in 1..n
        BY <2>1, <3>4
      <4>2. f[k] = 2 * f[k - 1]
        BY <2>2, <4>1 DEF Powers
      <4> QED
        BY <2>3, <3>1, <3>2, <3>4, <4>2
    <3> QED
      BY <3>3, <3>4
  <2>9. Powers(g, m)
    BY <2>6, <2>7, <2>8 DEF Powers
  <2> QED
    BY <2>1, <2>9
<1> HIDE DEF S
<1>3. \A n \in Nat : n \in S
  BY <1>1, <1>2, SetInduction
<1> QED
  BY <1>3 DEF S

LEMMA PowersAgree ==
  ASSUME NEW m \in Nat, NEW n \in Nat, NEW f, NEW g, Powers(f, m), Powers(g, n)
  PROVE  \A k \in Nat : k <= m /\ k <= n => f[k] = g[k]
<1> DEFINE S == {k \in Nat : k <= m /\ k <= n => f[k] = g[k]}
<1>1. 0 \in S
  BY DEF Powers
<1>2. ASSUME NEW k \in Nat, k \in S PROVE k + 1 \in S
  <2> SUFFICES ASSUME k + 1 <= m, k + 1 <= n PROVE f[k + 1] = g[k + 1]
    OBVIOUS
  <2>1. PICK i : i = k + 1
    OBVIOUS
  <2>2. i \in 1..m /\ i \in 1..n /\ i - 1 = k /\ f[k] = g[k]
    BY <1>2, <2>1
  <2>3. f[i] = 2 * f[k] /\ g[i] = 2 * g[k]
    BY <2>2 DEF Powers
  <2> QED
    BY <2>1, <2>2, <2>3
<1> HIDE DEF S
<1>3. \A k \in Nat : k \in S
  BY <1>1, <1>2, SetInduction
<1> QED
  BY <1>3 DEF S

LEMMA PowerFacts ==
  /\ Power \in [Nat -> Nat]
  /\ Power[0] = 1
  /\ \A k \in Nat : Power[k + 1] = 2 * Power[k]
<1>1. PICK F : F = [n \in Nat |-> (CHOOSE f : Powers(f, n))]
  OBVIOUS
<1>2. \A n \in Nat : Powers(F[n], n)
  BY <1>1, PowersFound
<1>3. PICK P : P = [n \in Nat |-> F[n][n]]
  OBVIOUS
<1>4. \A n \in Nat : P[n] = F[n][n] /\ P[n] \in Nat
  <2> SUFFICES ASSUME NEW n \in Nat PROVE P[n] = F[n][n] /\ P[n] \in Nat
    OBVIOUS
  <2>1. n \in 0..n /\ F[n] \in [0..n -> Nat]
    BY <1>2 DEF Powers
  <2> QED
    BY <1>3, <2>1
<1>5. P[0] = 1
  <2>1. Powers(F[0], 0)
    BY <1>2
  <2> QED
    BY <1>4, <2>1 DEF Powers
<1>6. ASSUME NEW k \in Nat, k # 0 PROVE P[k] = 2 * P[k - 1]
  <2>1. k - 1 \in Nat /\ k - 1 <= k - 1 /\ k - 1 <= k /\ k \in 1..k
    BY <1>6
  <2>2. Powers(F[k], k) /\ Powers(F[k - 1], k - 1)
    BY <1>2, <2>1
  <2>3. F[k][k - 1] = F[k - 1][k - 1]
    BY <2>1, <2>2, PowersAgree
  <2>4. F[k][k] = 2 * F[k][k - 1]
    BY <2>1, <2>2 DEF Powers
  <2> QED
    BY <1>4, <2>1, <2>3, <2>4
<1>7. P = [k \in Nat |-> IF k = 0 THEN 1 ELSE 2 * P[k - 1]]
  <2>1. \A k \in Nat : P[k] = IF k = 0 THEN 1 ELSE 2 * P[k - 1]
    BY <1>5, <1>6
  <2>2. P = [k \in Nat |-> P[k]]
    BY <1>3
  <2> QED
    BY <2>1, <2>2
<1>8. PICK Q : Q = Power
  OBVIOUS
<1>9. Q = [k \in Nat |-> IF k = 0 THEN 1 ELSE 2 * Q[k - 1]]
  BY <1>7, <1>8 DEF Power
<1>10. Q[0] = 1
  BY <1>9
<1>11. \A k \in Nat : Q[k + 1] = 2 * Q[k]
  <2> SUFFICES ASSUME NEW k \in Nat PROVE Q[k + 1] = 2 * Q[k]
    OBVIOUS
  <2>1. PICK i : i = k + 1
    OBVIOUS
  <2>2. i \in Nat /\ i # 0 /\ i - 1 = k
    BY <2>1
  <2>3. Q[i] = 2 * Q[i - 1]
    BY <1>9, <2>2
  <2> QED
    BY <2>1, <2>2, <2>3
<1>12. \A k \in Nat : Q[k] \in Nat
  <2> DEFINE S == {k \in Nat : Q[k] \in Nat}
  <2>1. 0 \in S
    BY <1>10
  <2>2. ASSUME NEW k \in Nat, k \in S PROVE k + 1 \in S
    BY <1>11, <2>2
  <2> HIDE DEF S
  <2>3. \A k \in Nat : k \in S
    BY <2>1, <2>2, SetInduction
  <2> QED
    BY <2>3 DEF S
<1>13. Q \in [Nat -> Nat]
  <2>1. Q = [k \in Nat |-> Q[k]]
    BY <1>9
  <2> QED
    BY <1>12, <2>1
<1> QED
  BY <1>8, <1>10, <1>11, <1>13

LEMMA PowerPositive == \A k \in Nat : Power[k] \in Nat \ {0}
<1> DEFINE S == {k \in Nat : Power[k] \in Nat \ {0}}
<1>1. 0 \in S
  BY PowerFacts
<1>2. ASSUME NEW k \in Nat, k \in S PROVE k + 1 \in S
  BY <1>2, PowerFacts
<1> HIDE DEF S
<1>3. \A k \in Nat : k \in S
  BY <1>1, <1>2, SetInduction
<1> QED
  BY <1>3 DEF S

LEMMA PowerSum ==
  ASSUME NEW a \in Nat
  PROVE  \A b \in Nat : Power[a + b] = Power[a] * Power[b]
<1> DEFINE S == {b \in Nat : Power[a + b] = Power[a] * Power[b]}
<1>1. 0 \in S
  BY PowerFacts
<1>2. ASSUME NEW b \in Nat, b \in S PROVE b + 1 \in S
  <2>1. PICK x \in Nat, y \in Nat, z \in Nat : x = Power[a] /\ y = Power[b] /\ z = Power[a + b]
    <3>1. a + b \in Nat
      OBVIOUS
    <3>2. Power[a] \in Nat /\ Power[b] \in Nat /\ Power[a + b] \in Nat
      BY <3>1, PowerFacts
    <3> QED
      BY <3>2
  <2>2. z = x * y
    BY <1>2, <2>1
  <2>3. Power[b + 1] = 2 * y
    BY <2>1, PowerFacts
  <2>4. Power[a + (b + 1)] = 2 * z
    <3>1. a + (b + 1) = (a + b) + 1 /\ a + b \in Nat
      OBVIOUS
    <3> QED
      BY <2>1, <3>1, PowerFacts
  <2>5. 2 * (x * y) = x * (2 * y)
    BY <2>1
  <2> QED
    BY <2>1, <2>2, <2>3, <2>4, <2>5
<1> HIDE DEF S
<1>3. \A b \in Nat : b \in S
  BY <1>1, <1>2, SetInduction
<1> QED
  BY <1>3 DEF S

-----------------------------------------------------------------------------
(* Bounded: the bits of a number.                                          *)

Bit(n, i) == (n \div Power[i]) % 2

LEMMA Halves ==
  ASSUME NEW x \in Nat
  PROVE  x \div 2 \in Nat /\ x % 2 \in 0..1 /\ x = 2 * (x \div 2) + (x % 2)
OBVIOUS

LEMMA Quotient ==
  ASSUME NEW b \in Nat \ {0}, NEW x \in Nat
  PROVE  x \div b \in Nat /\ x % b \in 0..b-1 /\ x = (x \div b) * b + (x % b)
OBVIOUS

LEMMA QuotientIs ==
  ASSUME NEW b \in Nat \ {0}, NEW q \in Nat, NEW r \in 0..b-1, NEW x \in Nat, x = q * b + r
  PROVE  x \div b = q /\ x % b = r
<1>1. PICK d, e : d = x \div b /\ e = x % b
  OBVIOUS
<1>2. d \in Nat /\ e \in 0..b-1 /\ x = d * b + e
  BY <1>1, Quotient
<1>3. q = d /\ r = e
  BY <1>2, OneQuotient
<1> QED
  BY <1>1, <1>3

LEMMA HalvesAre ==
  ASSUME NEW h \in Nat, NEW l \in 0..1, NEW x, x = 2 * h + l
  PROVE  x \in Nat /\ x \div 2 = h /\ x % 2 = l
OBVIOUS

\* A shift by one place more is that of the half.
LEMMA ShiftStep ==
  ASSUME NEW x \in Nat, NEW i \in Nat
  PROVE  x \div Power[i + 1] = (x \div 2) \div Power[i]
<1>1. PICK p \in Nat \ {0} : p = Power[i] /\ Power[i + 1] = 2 * p
  BY PowerPositive, PowerFacts
<1>2. PICK h \in Nat, l \in 0..1 : h = x \div 2 /\ x = 2 * h + l
  BY Halves
<1>3. PICK q \in Nat, r \in 0..p-1 : q = h \div p /\ h = q * p + r
  <2>1. h \div p \in Nat /\ h % p \in 0..p-1 /\ h = (h \div p) * p + (h % p)
    BY Quotient
  <2> QED
    BY <2>1
<1>4. PICK b \in Nat \ {0} : b = 2 * p
  BY <1>1
<1>5. PICK e \in 0..b-1 : e = 2 * r + l
  BY <1>4
<1>6. x = q * b + e
  <2>1. PICK m \in Nat : m = q * p
    OBVIOUS
  <2>2. q * b = 2 * m
    BY <1>4, <2>1
  <2> QED
    BY <1>2, <1>3, <1>5, <2>1, <2>2
<1>7. x \div b = q
  BY <1>6, QuotientIs
<1> QED
  BY <1>1, <1>2, <1>3, <1>4, <1>7

LEMMA BitFacts ==
  ASSUME NEW x \in Nat
  PROVE  /\ Bit(x, 0) = x % 2
         /\ \A i \in Nat : Bit(x, i + 1) = Bit(x \div 2, i)
         /\ \A i \in Nat : Bit(x, i) \in 0..1
<1>1. Bit(x, 0) = x % 2
  <2>1. Power[0] = 1 /\ x \div 1 = x
    BY PowerFacts
  <2> QED
    BY <2>1 DEF Bit
<1>2. ASSUME NEW i \in Nat PROVE Bit(x, i + 1) = Bit(x \div 2, i)
  BY ShiftStep DEF Bit
<1>3. ASSUME NEW i \in Nat PROVE Bit(x, i) \in 0..1
  <2>1. x \div Power[i] \in Nat
    BY PowerPositive, Quotient
  <2> QED
    BY <2>1 DEF Bit
<1> QED
  BY <1>1, <1>2, <1>3

\* A number below a power has a half below the power before.
LEMMA HalfBelow ==
  ASSUME NEW w \in Nat, NEW x \in Nat
  PROVE  x < Power[w + 1] <=> x \div 2 < Power[w]
<1>1. PICK p \in Nat : p = Power[w] /\ Power[w + 1] = 2 * p
  BY PowerFacts
<1> QED
  BY <1>1, Halves

\* Numbers with the same bits are the same.
LEMMA BitsTell ==
  ASSUME NEW w \in Nat
  PROVE  \A x, y \in Nat :
           /\ x < Power[w] /\ y < Power[w]
           /\ \A i \in 0..w-1 : Bit(x, i) = Bit(y, i)
           => x = y
<1> DEFINE Told(v) == \A x, y \in Nat :
             /\ x < Power[v] /\ y < Power[v]
             /\ \A i \in 0..v-1 : Bit(x, i) = Bit(y, i)
             => x = y
           S == {v \in Nat : Told(v)}
<1>1. 0 \in S
  BY PowerFacts
<1>2. ASSUME NEW v \in Nat, v \in S PROVE v + 1 \in S
  <2> SUFFICES ASSUME NEW x \in Nat, NEW y \in Nat, x < Power[v + 1], y < Power[v + 1],
                      \A i \in 0..v : Bit(x, i) = Bit(y, i)
               PROVE  x = y
    OBVIOUS
  <2>1. PICK g \in Nat, h \in Nat : g = x \div 2 /\ h = y \div 2
    BY Halves
  <2>2. g < Power[v] /\ h < Power[v]
    BY <2>1, HalfBelow
  <2>3. ASSUME NEW i \in 0..v-1 PROVE Bit(g, i) = Bit(h, i)
    <3>1. i \in Nat /\ i + 1 \in 0..v
      OBVIOUS
    <3>2. Bit(x, i + 1) = Bit(g, i) /\ Bit(y, i + 1) = Bit(h, i)
      BY <2>1, <3>1, BitFacts
    <3> QED
      BY <3>1, <3>2
  <2>4. g = h
    BY <1>2, <2>2, <2>3
  <2>5. x % 2 = y % 2
    <3>1. 0 \in 0..v
      OBVIOUS
    <3> QED
      BY <3>1, BitFacts
  <2> QED
    BY <2>1, <2>4, <2>5, Halves
<1> HIDE DEF S
<1>3. w \in S
  BY <1>1, <1>2, SetInduction
<1> QED
  BY <1>3 DEF S

\* There is a number with any bits.
LEMMA BitsGiven ==
  ASSUME NEW w \in Nat
  PROVE  \A T \in SUBSET (0..w-1) :
           \E x \in Nat : x < Power[w] /\ \A i \in 0..w-1 : Bit(x, i) = 1 <=> i \in T
<1> DEFINE Given(v) == \A T \in SUBSET (0..v-1) :
             \E x \in Nat : x < Power[v] /\ \A i \in 0..v-1 : Bit(x, i) = 1 <=> i \in T
           S == {v \in Nat : Given(v)}
<1>1. 0 \in S
  <2> SUFFICES ASSUME NEW T \in SUBSET (0..0-1)
               PROVE \E x \in Nat : x < Power[0] /\ \A i \in 0..0-1 : Bit(x, i) = 1 <=> i \in T
    OBVIOUS
  <2>1. 0 < Power[0] /\ \A i \in 0..0-1 : Bit(0, i) = 1 <=> i \in T
    BY PowerFacts
  <2> QED
    BY <2>1
<1>2. ASSUME NEW v \in Nat, v \in S PROVE v + 1 \in S
  <2> SUFFICES ASSUME NEW T \in SUBSET (0..v)
               PROVE  \E x \in Nat : x < Power[v + 1] /\ \A i \in 0..v : Bit(x, i) = 1 <=> i \in T
    OBVIOUS
  <2>1. PICK U : U = {i \in 0..v-1 : i + 1 \in T}
    OBVIOUS
  <2>2. PICK h \in Nat : h < Power[v] /\ \A i \in 0..v-1 : Bit(h, i) = 1 <=> i \in U
    BY <1>2, <2>1
  <2>3. PICK l \in 0..1 : l = 1 <=> 0 \in T
    <3>1. CASE 0 \in T
      BY <3>1
    <3>2. CASE 0 \notin T
      BY <3>2
    <3> QED
      BY <3>1, <3>2
  <2>4. PICK x : x = 2 * h + l
    OBVIOUS
  <2>5. x \in Nat /\ x \div 2 = h /\ x % 2 = l
    BY <2>4, HalvesAre
  <2>6. x < Power[v + 1]
    BY <2>2, <2>5, HalfBelow
  <2>7. ASSUME NEW i \in 0..v PROVE Bit(x, i) = 1 <=> i \in T
    <3>1. CASE i = 0
      BY <2>3, <2>5, <3>1, BitFacts
    <3>2. CASE i # 0
      <4>1. PICK j : j = i - 1
        OBVIOUS
      <4>2. j \in 0..v-1 /\ j \in Nat /\ j + 1 = i
        BY <3>2, <4>1
      <4>3. Bit(x, i) = Bit(h, j)
        BY <2>5, <4>2, BitFacts
      <4>4. j \in U <=> i \in T
        BY <2>1, <4>2
      <4> QED
        BY <2>2, <4>2, <4>3, <4>4
    <3> QED
      BY <3>1, <3>2
  <2> QED
    BY <2>5, <2>6, <2>7
<1> HIDE DEF S
<1>3. w \in S
  BY <1>1, <1>2, SetInduction
<1> QED
  BY <1>3 DEF S

\* The bits of what is shifted.
LEMMA BitShifted ==
  ASSUME NEW s \in Nat
  PROVE  \A x, i \in Nat : x \div Power[s] \in Nat /\ Bit(x \div Power[s], i) = Bit(x, i + s)
<1> DEFINE S == {t \in Nat : \A x, i \in Nat : Bit(x \div Power[t], i) = Bit(x, i + t)}
<1>1. 0 \in S
  <2>1. \A x \in Nat : x \div Power[0] = x
    BY PowerFacts
  <2>2. \A i \in Nat : i + 0 = i
    OBVIOUS
  <2> QED
    BY <2>1, <2>2
<1>2. ASSUME NEW t \in Nat, t \in S PROVE t + 1 \in S
  <2> SUFFICES ASSUME NEW x \in Nat, NEW i \in Nat
               PROVE  Bit(x \div Power[t + 1], i) = Bit(x, i + (t + 1))
    OBVIOUS
  <2>1. PICK h \in Nat : h = x \div 2
    BY Halves
  <2>2. x \div Power[t + 1] = h \div Power[t]
    BY <2>1, ShiftStep
  <2>3. Bit(h \div Power[t], i) = Bit(h, i + t)
    BY <1>2
  <2>4. PICK j \in Nat : j = i + t
    OBVIOUS
  <2>5. Bit(x, j + 1) = Bit(h, j) /\ i + (t + 1) = j + 1
    BY <2>1, <2>4, BitFacts
  <2> QED
    BY <2>2, <2>3, <2>4, <2>5
<1> HIDE DEF S
<1>3. s \in S
  BY <1>1, <1>2, SetInduction
<1>4. \A x \in Nat : x \div Power[s] \in Nat
  BY PowerPositive, Quotient
<1> QED
  BY <1>3, <1>4 DEF S

\* Above a number there are no bits.
LEMMA NoBitsAbove ==
  ASSUME NEW w \in Nat
  PROVE  \A x, i \in Nat : x < Power[w] /\ i >= w => Bit(x, i) = 0
<1> DEFINE S == {v \in Nat : \A x, i \in Nat : x < Power[v] /\ i >= v => Bit(x, i) = 0}
<1>1. 0 \in S
  <2> SUFFICES ASSUME NEW x \in Nat, NEW i \in Nat, x < Power[0] PROVE Bit(x, i) = 0
    OBVIOUS
  <2>1. x = 0
    BY PowerFacts
  <2>2. PICK p \in Nat \ {0} : p = Power[i]
    BY PowerPositive
  <2>3. 0 = 0 * p + 0
    OBVIOUS
  <2>4. 0 \div p = 0
    BY <2>3, QuotientIs
  <2> QED
    BY <2>1, <2>2, <2>4 DEF Bit
<1>2. ASSUME NEW v \in Nat, v \in S PROVE v + 1 \in S
  <2> SUFFICES ASSUME NEW x \in Nat, NEW i \in Nat, x < Power[v + 1], i >= v + 1
               PROVE  Bit(x, i) = 0
    OBVIOUS
  <2>1. PICK h \in Nat : h = x \div 2
    BY Halves
  <2>2. h < Power[v]
    BY <2>1, HalfBelow
  <2>3. PICK j \in Nat : i = j + 1 /\ j >= v
    <3>1. i - 1 \in Nat /\ i = (i - 1) + 1 /\ i - 1 >= v
      OBVIOUS
    <3> QED
      BY <3>1
  <2>4. Bit(x, i) = Bit(h, j)
    BY <2>1, <2>3, BitFacts
  <2> QED
    BY <1>2, <2>2, <2>3, <2>4
<1> HIDE DEF S
<1>3. w \in S
  BY <1>1, <1>2, SetInduction
<1> QED
  BY <1>3 DEF S

\* The highest bit of a number.
LEMMA HighestBit ==
  ASSUME NEW w \in Nat
  PROVE  \A x \in Nat : x > 0 /\ x < Power[w] =>
           \E h \in 0..w-1 : Power[h] <= x /\ x < Power[h + 1] /\ Bit(x, h) = 1
<1> DEFINE High(v) == \A x \in Nat : x > 0 /\ x < Power[v] =>
             \E h \in 0..v-1 : Power[h] <= x /\ x < Power[h + 1] /\ Bit(x, h) = 1
           S == {v \in Nat : High(v)}
<1>1. 0 \in S
  BY PowerFacts
<1>2. ASSUME NEW v \in Nat, v \in S PROVE v + 1 \in S
  <2> SUFFICES ASSUME NEW x \in Nat, x > 0, x < Power[v + 1]
               PROVE  \E h \in 0..v : Power[h] <= x /\ x < Power[h + 1] /\ Bit(x, h) = 1
    OBVIOUS
  <2>1. CASE x < Power[v]
    <3>1. PICK h \in 0..v-1 : Power[h] <= x /\ x < Power[h + 1] /\ Bit(x, h) = 1
      BY <1>2, <2>1
    <3>2. h \in 0..v
      OBVIOUS
    <3> QED
      BY <3>1, <3>2
  <2>2. CASE ~(x < Power[v])
    <3>1. PICK p \in Nat \ {0} : p = Power[v] /\ Power[v + 1] = 2 * p
      BY PowerPositive, PowerFacts
    <3>2. PICK r : r = x - p
      OBVIOUS
    <3>3. r \in 0..p-1 /\ x = 1 * p + r
      BY <2>2, <3>1, <3>2
    <3>4. x \div p = 1
      BY <3>3, QuotientIs
    <3>5. Bit(x, v) = 1
      BY <3>1, <3>4 DEF Bit
    <3>6. v \in 0..v /\ Power[v] <= x
      BY <2>2, <3>1
    <3> QED
      BY <3>5, <3>6
  <2> QED
    BY <2>1, <2>2
<1> HIDE DEF S
<1>3. w \in S
  BY <1>1, <1>2, SetInduction
<1> QED
  BY <1>3 DEF S

\* The lower bits of a number are the remainder.
LEMMA LowerBits ==
  ASSUME NEW k \in Nat
  PROVE  \A x, i \in Nat :
           /\ x % Power[k] \in 0..Power[k]-1
           /\ i < k => Bit(x % Power[k], i) = Bit(x, i)
<1> DEFINE S == {v \in Nat : \A x, i \in Nat : i < v => Bit(x % Power[v], i) = Bit(x, i)}
<1>1. 0 \in S
  OBVIOUS
<1>2. ASSUME NEW v \in Nat, v \in S PROVE v + 1 \in S
  <2> SUFFICES ASSUME NEW x \in Nat, NEW i \in Nat, i < v + 1
               PROVE  Bit(x % Power[v + 1], i) = Bit(x, i)
    OBVIOUS
  <2>1. PICK p \in Nat \ {0} : p = Power[v] /\ Power[v + 1] = 2 * p
    BY PowerPositive, PowerFacts
  <2>2. PICK g \in Nat, l \in 0..1 : g = x \div 2 /\ l = x % 2 /\ x = 2 * g + l
    BY Halves
  <2>3. PICK q \in Nat, r \in 0..p-1 : r = g % p /\ g = q * p + r
    <3>1. g \div p \in Nat /\ g % p \in 0..p-1 /\ g = (g \div p) * p + (g % p)
      BY Quotient
    <3> QED
      BY <3>1
  <2>4. PICK b \in Nat \ {0} : b = 2 * p
    BY <2>1
  <2>5. PICK e \in 0..b-1 : e = 2 * r + l
    BY <2>4
  <2>6. x = q * b + e
    <3>1. PICK m \in Nat : m = q * p
      OBVIOUS
    <3>2. q * b = 2 * m
      BY <2>4, <3>1
    <3> QED
      BY <2>2, <2>3, <2>5, <3>1, <3>2
  <2>7. x % Power[v + 1] = e
    <3>1. x % b = e
      BY <2>6, QuotientIs
    <3> QED
      BY <2>1, <2>4, <3>1
  <2>8. e \in Nat /\ e \div 2 = r /\ e % 2 = l /\ r \in Nat
    <3>1. r \in Nat
      OBVIOUS
    <3> QED
      BY <2>5, <3>1, HalvesAre
  <2>9. CASE i = 0
    BY <2>2, <2>7, <2>8, <2>9, BitFacts
  <2>10. CASE i # 0
    <3>1. PICK j \in Nat : i = j + 1 /\ j < v
      <4>1. i - 1 \in Nat /\ i = (i - 1) + 1 /\ i - 1 < v
        BY <2>10
      <4> QED
        BY <4>1
    <3>2. Bit(e, i) = Bit(r, j) /\ Bit(x, i) = Bit(g, j)
      BY <2>2, <2>8, <3>1, BitFacts
    <3>3. Bit(r, j) = Bit(g, j)
      BY <1>2, <2>1, <2>3, <3>1
    <3> QED
      BY <2>7, <3>2, <3>3
  <2> QED
    BY <2>9, <2>10
<1> HIDE DEF S
<1>3. k \in S
  BY <1>1, <1>2, SetInduction
<1>4. \A x \in Nat : x % Power[k] \in 0..Power[k]-1
  BY PowerPositive, Quotient
<1> QED
  BY <1>3, <1>4 DEF S

-----------------------------------------------------------------------------
(* Bounded: numbers and their bits.                                        *)

LEMMA RawFacts ==
  /\ Width \in Nat \ {0}
  /\ \A n \in Raw : n \in Nat /\ n < Power[Width]
  /\ \A n \in Nat : n < Power[Width] => n \in Raw
<1>1. Width \in Nat \ {0} /\ Power[Width] \in Nat
  BY WidthAssumption, PowerFacts
<1> QED
  BY <1>1 DEF Raw

LEMMA BitsAre ==
  ASSUME NEW n \in Raw
  PROVE  /\ Bits[n] \subseteq 0..Width-1
         /\ \A i \in 0..Width-1 : i \in Bits[n] <=> Bit(n, i) = 1
<1>1. Bits[n] = {i \in 0..Width-1 : Bit(n, i) = 1}
  BY DEF Bits, Bit
<1> QED
  BY <1>1

LEMMA NumberFacts ==
  ASSUME NEW T \in SUBSET (0..Width-1)
  PROVE  Number(T) \in Raw /\ Bits[Number(T)] = T
<1>1. PICK x \in Nat : x < Power[Width] /\ \A i \in 0..Width-1 : Bit(x, i) = 1 <=> i \in T
  BY RawFacts, BitsGiven
<1>2. x \in Raw
  BY <1>1, RawFacts
<1>3. Bits[x] = T
  BY <1>1, <1>2, BitsAre
<1> QED
  BY <1>2, <1>3 DEF Number

LEMMA NumberTells ==
  ASSUME NEW n \in Raw
  PROVE  Number(Bits[n]) = n
<1>1. PICK m : m = Number(Bits[n])
  OBVIOUS
<1>2. Bits[n] \in SUBSET (0..Width-1)
  BY BitsAre
<1>3. m \in Raw /\ Bits[m] = Bits[n]
  BY <1>1, <1>2, NumberFacts
<1>4. ASSUME NEW i \in 0..Width-1 PROVE Bit(m, i) = Bit(n, i)
  <2>1. i \in Nat /\ m \in Nat /\ n \in Nat
    BY <1>3, RawFacts
  <2>2. Bit(m, i) \in 0..1 /\ Bit(n, i) \in 0..1
    BY <2>1, BitFacts
  <2>3. Bit(m, i) = 1 <=> Bit(n, i) = 1
    BY <1>3, BitsAre
  <2> QED
    BY <2>2, <2>3
<1>5. m \in Nat /\ n \in Nat /\ m < Power[Width] /\ n < Power[Width] /\ Width \in Nat
  BY <1>3, RawFacts
<1>6. m = n
  BY <1>4, <1>5, BitsTell
<1> QED
  BY <1>1, <1>6

LEMMA ShiftedFacts ==
  ASSUME NEW x \in Raw, NEW s \in Nat
  PROVE  /\ Shifted(x, s) \in Raw
         /\ \A i \in 0..Width-1 : i \in Bits[Shifted(x, s)] <=> i + s \in Bits[x]
<1>1. PICK p \in Nat \ {0} : p = Power[s]
  BY PowerPositive
<1>2. x \in Nat /\ x < Power[Width] /\ Power[Width] \in Nat /\ Width \in Nat
  BY RawFacts, PowerFacts
<1>3. PICK y \in Nat : y = Shifted(x, s) /\ y <= x
  <2>1. PICK q, e : q = x \div p /\ e = x % p
    OBVIOUS
  <2>2. q \in Nat /\ e \in 0..p-1 /\ x = q * p + e
    BY <1>2, <2>1, Quotient
  <2>3. PICK d \in Nat : p = d + 1
    <3>1. p - 1 \in Nat /\ p = (p - 1) + 1
      OBVIOUS
    <3> QED
      BY <3>1
  <2>4. PICK m \in Nat : m = q * d
    BY <2>2
  <2>5. q * p = m + q
    BY <2>2, <2>3, <2>4
  <2>6. q <= x
    BY <1>2, <2>2, <2>4, <2>5
  <2> QED
    BY <1>1, <2>1, <2>2, <2>6 DEF Shifted
<1>4. y \in Raw
  BY <1>2, <1>3, RawFacts
<1>5. ASSUME NEW i \in 0..Width-1 PROVE i \in Bits[y] <=> i + s \in Bits[x]
  <2>1. i \in Nat /\ i + s \in Nat
    OBVIOUS
  <2>2. Bit(y, i) = Bit(x, i + s)
    BY <1>2, <1>3, <2>1, BitShifted DEF Shifted
  <2>3. i \in Bits[y] <=> Bit(x, i + s) = 1
    BY <1>4, <2>2, BitsAre
  <2>4. CASE i + s \in 0..Width-1
    BY <2>3, <2>4, BitsAre
  <2>5. CASE i + s \notin 0..Width-1
    <3>1. i + s >= Width
      BY <1>2, <2>1, <2>5
    <3>2. Bit(x, i + s) = 0
      BY <1>2, <2>1, <3>1, NoBitsAbove
    <3>3. i + s \notin Bits[x]
      BY <2>5, BitsAre
    <3> QED
      BY <2>3, <3>2, <3>3
  <2> QED
    BY <2>4, <2>5
<1> QED
  BY <1>3, <1>4, <1>5

LEMMA OrFacts ==
  ASSUME NEW a \in Raw, NEW b \in Raw
  PROVE  Or(a, b) \in Raw /\ Bits[Or(a, b)] = Bits[a] \union Bits[b]
<1>1. Bits[a] \union Bits[b] \in SUBSET (0..Width-1)
  BY BitsAre
<1> QED
  BY <1>1, NumberFacts DEF Or

-----------------------------------------------------------------------------
(* Bounded: the mask.                                                      *)

LEMMA ShiftsFacts == Shifts \in 3..6 /\ Power[Shifts] = Width
<1>1. Power[1] = 2 /\ Power[2] = 4 /\ Power[3] = 8 /\ Power[4] = 16 /\ Power[5] = 32 /\ Power[6] = 64
  <2>1. /\ Power[0 + 1] = 2 * Power[0] /\ Power[1 + 1] = 2 * Power[1] /\ Power[2 + 1] = 2 * Power[2]
        /\ Power[3 + 1] = 2 * Power[3] /\ Power[4 + 1] = 2 * Power[4] /\ Power[5 + 1] = 2 * Power[5]
        /\ Power[0] = 1
    BY PowerFacts
  <2> QED
    BY <2>1
<1>2. \E k \in 3..6 : Power[k] = Width
  <2>1. 3 \in 3..6 /\ 4 \in 3..6 /\ 5 \in 3..6 /\ 6 \in 3..6
    OBVIOUS
  <2> QED
    BY <1>1, <2>1, WidthAssumption
<1>3. PICK k \in 3..6 : Power[k] = Width
  BY <1>2
<1> QED
  BY <1>3 DEF Shifts

\* How far the k-th shift goes.
Stride(k) == Width \div Power[k]

LEMMA StrideFacts ==
  /\ Stride(0) = Width /\ Stride(Shifts) = 1
  /\ \A k \in 0..Shifts : Stride(k) \in Nat
  /\ \A k \in 1..Shifts : Stride(k - 1) = 2 * Stride(k)
<1>1. PICK s \in Nat : s = Shifts /\ Power[s] = Width
  BY ShiftsFacts
<1>2. ASSUME NEW k \in 0..s PROVE Stride(k) = Power[s - k]
  <2>1. PICK d \in Nat : d = s - k /\ k + d = s
    <3>1. s - k \in Nat /\ k + (s - k) = s
      OBVIOUS
    <3> QED
      BY <3>1
  <2>2. PICK p \in Nat \ {0}, q \in Nat : p = Power[k] /\ q = Power[d]
    <3>1. k \in Nat
      OBVIOUS
    <3>2. Power[k] \in Nat \ {0}
      BY <3>1, PowerPositive
    <3>3. Power[d] \in Nat
      BY PowerFacts
    <3> QED
      BY <3>2, <3>3
  <2>3. Power[k + d] = Power[k] * Power[d]
    BY PowerSum
  <2>4. Width = q * p + 0 /\ Width \in Nat
    BY <1>1, <2>1, <2>2, <2>3, WidthAssumption
  <2>5. Width \div p = q
    BY <2>4, QuotientIs
  <2> QED
    BY <2>1, <2>2, <2>5 DEF Stride
<1>3. Stride(0) = Width /\ Stride(s) = 1
  <2>1. 0 \in 0..s /\ s \in 0..s /\ s - 0 = s /\ s - s = 0
    OBVIOUS
  <2> QED
    BY <1>1, <1>2, <2>1, PowerFacts
<1>4. ASSUME NEW k \in 0..s PROVE Stride(k) \in Nat
  <2>1. s - k \in Nat
    OBVIOUS
  <2> QED
    BY <1>2, <2>1, PowerFacts
<1>5. ASSUME NEW k \in 1..s PROVE Stride(k - 1) = 2 * Stride(k)
  <2>1. PICK d \in Nat : d = s - k
    OBVIOUS
  <2>2. k \in 0..s /\ k - 1 \in 0..s /\ s - (k - 1) = d + 1
    BY <2>1
  <2>3. Stride(k) = Power[d] /\ Stride(k - 1) = Power[d + 1]
    BY <1>2, <2>1, <2>2
  <2> QED
    BY <2>3, PowerFacts
<1> QED
  BY <1>1, <1>3, <1>4, <1>5

\* The masks that the shifts make one after the other.
SmearStep(x, k) == Or(x, Shifted(x, Stride(k)))

Smearing(f, n, max) ==
  f \in [0..n -> Raw] /\ f[0] = max /\ \A k \in 1..n : f[k] = SmearStep(f[k - 1], k)

LEMMA SmearStepFacts ==
  ASSUME NEW x \in Raw, NEW k \in 0..Shifts
  PROVE  /\ SmearStep(x, k) \in Raw
         /\ \A i \in 0..Width-1 :
              i \in Bits[SmearStep(x, k)] <=> i \in Bits[x] \/ i + Stride(k) \in Bits[x]
<1>1. PICK s \in Nat : s = Stride(k)
  BY StrideFacts
<1>2. PICK y : y = Shifted(x, s)
  OBVIOUS
<1>3. y \in Raw /\ \A i \in 0..Width-1 : i \in Bits[y] <=> i + s \in Bits[x]
  BY <1>2, ShiftedFacts
<1>4. Or(x, y) \in Raw /\ Bits[Or(x, y)] = Bits[x] \union Bits[y]
  BY <1>3, OrFacts
<1>5. SmearStep(x, k) = Or(x, y)
  BY <1>1, <1>2 DEF SmearStep
<1> QED
  BY <1>1, <1>3, <1>4, <1>5

LEMMA SmearingFound ==
  ASSUME NEW max \in Raw
  PROVE  \A n \in Nat : n <= Shifts => \E f : Smearing(f, n, max)
<1> DEFINE S == {n \in Nat : n <= Shifts => \E f : Smearing(f, n, max)}
<1>0. Shifts \in Nat
  BY ShiftsFacts
<1>1. 0 \in S
  <2>1. PICK f : f = [k \in 0..0 |-> max]
    OBVIOUS
  <2>2. Smearing(f, 0, max)
    BY <2>1 DEF Smearing
  <2> QED
    BY <2>2
<1>2. ASSUME NEW n \in Nat, n \in S PROVE n + 1 \in S
  <2> SUFFICES ASSUME n + 1 <= Shifts PROVE \E f : Smearing(f, n + 1, max)
    OBVIOUS
  <2>1. PICK m \in Nat : m = n + 1
    OBVIOUS
  <2>2. PICK f : Smearing(f, n, max)
    BY <1>0, <1>2
  <2>3. f \in [0..n -> Raw] /\ f[0] = max /\ f[n] \in Raw
    BY <2>2 DEF Smearing
  <2>4. PICK z : z = SmearStep(f[n], m)
    OBVIOUS
  <2>5. z \in Raw
    BY <1>0, <2>1, <2>3, <2>4, SmearStepFacts
  <2>6. PICK g : g = [k \in 0..m |-> IF k = m THEN z ELSE f[k]]
    OBVIOUS
  <2>7. \A k \in 0..m : (IF k = m THEN z ELSE f[k]) \in Raw
    BY <2>1, <2>3, <2>5
  <2>8. g \in [0..m -> Raw]
    BY <2>6, <2>7
  <2>9. g[0] = max
    BY <2>1, <2>3, <2>6
  <2>10. ASSUME NEW k \in 1..m PROVE g[k] = SmearStep(g[k - 1], k)
    <3>1. k - 1 \in 0..n /\ k - 1 \in 0..m /\ k - 1 # m /\ k \in 0..m
      BY <2>1
    <3>2. g[k - 1] = f[k - 1]
      BY <2>6, <3>1
    <3>3. CASE k = m
      <4>1. k - 1 = n
        BY <2>1, <3>3
      <4> QED
        BY <2>4, <2>6, <3>1, <3>2, <3>3, <4>1
    <3>4. CASE k # m
      <4>1. k \in 1..n
        BY <2>1, <3>4
      <4>2. f[k] = SmearStep(f[k - 1], k)
        BY <2>2, <4>1 DEF Smearing
      <4> QED
        BY <2>6, <3>1, <3>2, <3>4, <4>2
    <3> QED
      BY <3>3, <3>4
  <2>11. Smearing(g, m, max)
    BY <2>8, <2>9, <2>10 DEF Smearing
  <2> QED
    BY <2>1, <2>11
<1> HIDE DEF S
<1>3. \A n \in Nat : n \in S
  BY <1>1, <1>2, SetInduction
<1> QED
  BY <1>3 DEF S

LEMMA SmearedIs ==
  ASSUME NEW max \in Raw
  PROVE  \E f : Smearing(f, Shifts, max) /\ Smeared(max) = f[Shifts]
<1> DEFINE Masks(f) == f = [k \in 0..Shifts |->
                              IF k = 0 THEN max
                              ELSE Or(f[k - 1], Shifted(f[k - 1], Width \div Power[k]))]
           F == CHOOSE f : Masks(f)
<1>0. PICK s \in Nat : s = Shifts
  BY ShiftsFacts
<1>1. Smeared(max) = F[Shifts]
  BY DEF Smeared
<1>2. \E f : Masks(f)
  <2>1. PICK f : Smearing(f, s, max)
    BY <1>0, SmearingFound
  <2>2. ASSUME NEW k \in 0..s
        PROVE  f[k] = IF k = 0 THEN max ELSE Or(f[k - 1], Shifted(f[k - 1], Width \div Power[k]))
    <3>1. CASE k = 0
      BY <2>1, <3>1 DEF Smearing
    <3>2. CASE k # 0
      <4>1. k \in 1..s
        BY <3>2
      <4>2. f[k] = SmearStep(f[k - 1], k)
        BY <2>1, <4>1 DEF Smearing
      <4> QED
        BY <3>2, <4>2 DEF SmearStep, Stride
    <3> QED
      BY <3>1, <3>2
  <2>3. f = [k \in 0..s |-> f[k]]
    BY <2>1 DEF Smearing
  <2>4. PICK g : g = [k \in 0..s |-> IF k = 0 THEN max
                                     ELSE Or(f[k - 1], Shifted(f[k - 1], Width \div Power[k]))]
    OBVIOUS
  <2>5. f = g
    BY <2>2, <2>3, <2>4
  <2>6. Masks(f)
    BY <1>0, <2>4, <2>5
  <2> QED
    BY <2>6
<1>3. Masks(F)
  BY <1>2
<1>4. PICK f : f = F
  OBVIOUS
<1> HIDE DEF F, Masks
<1>5. f = [k \in 0..s |-> IF k = 0 THEN max
                          ELSE Or(f[k - 1], Shifted(f[k - 1], Width \div Power[k]))]
  <2>1. Masks(f)
    BY <1>3, <1>4
  <2> QED
    BY <1>0, <2>1 DEF Masks
<1>6. f[0] = max /\ \A k \in 1..s : f[k] = SmearStep(f[k - 1], k)
  <2>1. f[0] = max
    BY <1>5
  <2>2. ASSUME NEW k \in 1..s PROVE f[k] = SmearStep(f[k - 1], k)
    <3>1. k \in 0..s /\ k # 0
      OBVIOUS
    <3>2. f[k] = Or(f[k - 1], Shifted(f[k - 1], Width \div Power[k]))
      BY <1>5, <3>1
    <3> QED
      BY <3>2 DEF SmearStep, Stride
  <2> QED
    BY <2>1, <2>2
<1> DEFINE S == {k \in Nat : k <= s => f[k] \in Raw}
<1>7. 0 \in S
  BY <1>6
<1>8. ASSUME NEW k \in Nat, k \in S PROVE k + 1 \in S
  <2> SUFFICES ASSUME k + 1 <= s PROVE f[k + 1] \in Raw
    OBVIOUS
  <2>1. PICK i : i = k + 1
    OBVIOUS
  <2>2. i \in 1..s /\ i \in 0..Shifts /\ i - 1 = k /\ f[k] \in Raw
    BY <1>0, <1>8, <2>1
  <2>3. f[i] = SmearStep(f[k], i)
    BY <1>6, <2>2
  <2> QED
    BY <2>1, <2>2, <2>3, SmearStepFacts
<1> HIDE DEF S
<1>9. \A k \in Nat : k \in S
  BY <1>7, <1>8, SetInduction
<1>10. \A k \in 0..s : f[k] \in Raw
  BY <1>9 DEF S
<1>11. f \in [0..s -> Raw]
  <2>1. f = [k \in 0..s |-> f[k]]
    BY <1>5
  <2> QED
    BY <1>10, <2>1
<1>12. Smearing(f, s, max)
  BY <1>6, <1>11 DEF Smearing
<1> QED
  BY <1>0, <1>1, <1>4, <1>12

\* The mask has all bits up to the highest of the bound, and no other: a shift doubles
\* the number of those that are known to be set in steps of its length.
LEMMA MaskIs ==
  ASSUME NEW max \in Nat, max > 0, max < Power[Width]
  PROVE  /\ Smeared(max) \in Raw
         /\ \E h \in 0..Width-1 :
              Power[h] <= max /\ max < Power[h + 1] /\ Bits[Smeared(max)] = 0..h
<1>1. PICK h \in 0..Width-1 : Power[h] <= max /\ max < Power[h + 1] /\ Bit(max, h) = 1
  BY RawFacts, HighestBit
<1>2. max \in Raw /\ h \in Nat /\ h + 1 \in Nat /\ Width \in Nat
  BY RawFacts
<1>3. PICK f : Smearing(f, Shifts, max) /\ Smeared(max) = f[Shifts]
  BY <1>2, SmearedIs
<1>4. PICK s \in Nat : s = Shifts
  BY ShiftsFacts
<1>5. f \in [0..s -> Raw] /\ f[0] = max /\ \A k \in 1..s : f[k] = SmearStep(f[k - 1], k)
  BY <1>3, <1>4 DEF Smearing
<1> DEFINE Known(k) ==
             /\ \A i \in 0..Width-1 : i > h => i \notin Bits[f[k]]
             /\ \A j \in 0..h : \A m \in Nat : h = j + m * Stride(k) => j \in Bits[f[k]]
           S == {k \in Nat : k <= s => Known(k)}
<1>6. 0 \in S
  <2>1. ASSUME NEW i \in 0..Width-1, i > h PROVE i \notin Bits[f[0]]
    <3>1. Bit(max, i) = 0
      <4>1. i \in Nat /\ i >= h + 1
        BY <1>2, <2>1
      <4> QED
        BY <1>1, <1>2, <4>1, NoBitsAbove
    <3> QED
      BY <1>2, <1>5, <3>1, BitsAre
  <2>2. ASSUME NEW j \in 0..h, NEW m \in Nat, h = j + m * Stride(0) PROVE j \in Bits[f[0]]
    <3>1. h = j + m * Width
      BY <2>2, StrideFacts
    <3>2. m = 0
      <4> SUFFICES ASSUME m # 0 PROVE FALSE
        OBVIOUS
      <4>1. PICK d \in Nat : m = d + 1
        <5>1. m - 1 \in Nat /\ m = (m - 1) + 1
          OBVIOUS
        <5> QED
          BY <5>1
      <4>2. PICK y \in Nat : y = d * Width
        BY <1>2
      <4>3. m * Width = y + Width
        BY <1>2, <4>1, <4>2
      <4> QED
        BY <1>2, <3>1, <4>2, <4>3
    <3>3. j = h
      BY <1>2, <3>1, <3>2
    <3> QED
      BY <1>1, <1>2, <1>5, <3>3, BitsAre
  <2> QED
    BY <2>1, <2>2
<1>7. ASSUME NEW k \in Nat, k \in S PROVE k + 1 \in S
  <2> SUFFICES ASSUME k + 1 <= s PROVE Known(k + 1)
    OBVIOUS
  <2>1. PICK i : i = k + 1
    OBVIOUS
  <2>2. i \in 1..s /\ i \in 0..Shifts /\ i - 1 = k /\ k \in 0..s /\ Known(k)
    BY <1>4, <1>7, <2>1
  <2>3. PICK x : x = f[k]
    OBVIOUS
  <2>3a. PICK t \in Nat : t = Stride(i)
    BY <2>2, StrideFacts
  <2>4. x \in Raw /\ f[i] = SmearStep(x, i) /\ Stride(k) = 2 * t
    BY <1>4, <1>5, <2>2, <2>3, <2>3a, StrideFacts
  <2>5. PICK y : y = f[i]
    OBVIOUS
  <2>6. \A j \in 0..Width-1 : j \in Bits[y] <=> j \in Bits[x] \/ j + t \in Bits[x]
    BY <2>2, <2>3, <2>3a, <2>4, <2>5, SmearStepFacts
  <2>7. /\ \A j \in 0..Width-1 : j > h => j \notin Bits[x]
        /\ \A j \in 0..h : \A m \in Nat : h = j + m * (2 * t) => j \in Bits[x]
    BY <2>2, <2>3, <2>3a, <2>4
  <2>8. ASSUME NEW j \in 0..Width-1, j > h PROVE j \notin Bits[y]
    <3>1. j \notin Bits[x]
      BY <2>7, <2>8
    <3>2. j + t \notin Bits[x]
      <4>1. CASE j + t \in 0..Width-1
        <5>1. j + t > h
          BY <1>2, <2>8
        <5> QED
          BY <2>7, <4>1, <5>1
      <4>2. CASE j + t \notin 0..Width-1
        BY <2>4, <4>2, BitsAre
      <4> QED
        BY <4>1, <4>2
    <3> QED
      BY <2>6, <3>1, <3>2
  <2>9. ASSUME NEW j \in 0..h, NEW m \in Nat, h = j + m * t PROVE j \in Bits[y]
    <3>1. j \in 0..Width-1 /\ j \in Nat
      BY <1>2
    <3>2. PICK g \in Nat, l \in 0..1 : m = 2 * g + l
      BY Halves
    <3>3. PICK w \in Nat : w = g * t
      OBVIOUS
    <3>4. CASE l = 0
      <4>1. m * t = 2 * w /\ g * (2 * t) = 2 * w
        BY <3>2, <3>3, <3>4
      <4>2. h = j + g * (2 * t)
        BY <2>9, <4>1
      <4>3. j \in Bits[x]
        BY <2>7, <4>2
      <4> QED
        BY <2>6, <3>1, <4>3
    <3>5. CASE l = 1
      <4>1. m * t = 2 * w + t /\ g * (2 * t) = 2 * w
        BY <3>2, <3>3, <3>5
      <4>2. PICK u : u = j + t
        OBVIOUS
      <4>3. u \in 0..h /\ h = u + g * (2 * t)
        BY <1>2, <2>9, <3>1, <4>1, <4>2
      <4>4. u \in Bits[x]
        BY <2>7, <4>3
      <4> QED
        BY <2>6, <3>1, <4>2, <4>4
    <3> QED
      BY <3>4, <3>5
  <2>10. Known(i)
    BY <2>3, <2>3a, <2>5, <2>8, <2>9
  <2> QED
    BY <2>1, <2>10
<1> HIDE DEF S
<1>8. s \in S
  BY <1>6, <1>7, SetInduction
<1>9. Known(s)
  BY <1>8 DEF S
<1>10. PICK x : x = f[s]
  OBVIOUS
<1>11. x \in Raw /\ Smeared(max) = x
  BY <1>3, <1>4, <1>5, <1>10
<1>12. Bits[x] = 0..h
  <2>1. ASSUME NEW j \in 0..h PROVE j \in Bits[x]
    <3>1. h - j \in Nat /\ Stride(s) = 1
      BY <1>2, <1>4, StrideFacts
    <3>2. PICK m \in Nat : m = h - j
      BY <3>1
    <3>3. m * Stride(s) = m
      BY <3>1
    <3>4. h = j + m * Stride(s)
      BY <1>2, <3>2, <3>3
    <3> QED
      BY <1>9, <1>10, <3>4
  <2>2. Bits[x] \subseteq 0..Width-1
    BY <1>11, BitsAre
  <2>3. \A i \in 0..Width-1 : i > h => i \notin Bits[x]
    BY <1>9, <1>10
  <2>4. ASSUME NEW i \in Bits[x] PROVE i \in 0..h
    <3>1. i \in 0..Width-1 /\ ~(i > h)
      BY <2>2, <2>3
    <3> QED
      BY <1>2, <3>1
  <2> QED
    BY <2>1, <2>4
<1> QED
  BY <1>1, <1>11, <1>12

-----------------------------------------------------------------------------
(* Bounded: the draw.                                                      *)

\* Under the mask of the lowest bits, the remainder is left.
LEMMA MaskedIs ==
  ASSUME NEW raw \in Raw, NEW mask \in Raw, NEW h \in 0..Width-1, Bits[mask] = 0..h
  PROVE  And(raw, mask) = raw % Power[h + 1]
<1>1. Width \in Nat /\ h \in Nat /\ h + 1 \in Nat /\ raw \in Nat /\ raw < Power[Width]
      /\ Power[Width] \in Nat
  BY RawFacts, PowerFacts
<1>2. PICK p \in Nat \ {0} : p = Power[h + 1]
  BY <1>1, PowerPositive
<1>3. PICK n : n = raw % p
  OBVIOUS
<1>4. n \in 0..p-1 /\ n <= raw
  <2>1. PICK q : q = raw \div p
    OBVIOUS
  <2>2. q \in Nat /\ n \in 0..p-1 /\ raw = q * p + n
    BY <1>1, <1>3, <2>1, Quotient
  <2>3. q * p \in Nat
    BY <2>2
  <2> QED
    BY <2>2, <2>3
<1>5. n \in Raw /\ n \in Nat /\ n < p
  <2>1. n \in Nat /\ n < p
    BY <1>4
  <2>2. n < Power[Width]
    BY <1>1, <1>4, <2>1
  <2> QED
    BY <2>1, <2>2, RawFacts
<1>6. ASSUME NEW i \in 0..Width-1 PROVE i \in Bits[n] <=> i \in Bits[raw] /\ i \in 0..h
  <2>1. i \in Nat
    OBVIOUS
  <2>2. CASE i <= h
    <3>1. Bit(n, i) = Bit(raw, i)
      <4>1. i < h + 1
        BY <1>1, <2>1, <2>2
      <4>2. Bit(raw % Power[h + 1], i) = Bit(raw, i)
        BY <1>1, <2>1, <4>1, LowerBits
      <4> QED
        BY <1>2, <1>3, <4>2
    <3>2. i \in 0..h
      BY <1>1, <2>1, <2>2
    <3> QED
      BY <1>5, <3>1, <3>2, BitsAre
  <2>3. CASE ~(i <= h)
    <3>1. i >= h + 1 /\ i \notin 0..h
      BY <1>1, <2>1, <2>3
    <3>2. Bit(n, i) = 0
      BY <1>1, <1>2, <1>5, <2>1, <3>1, NoBitsAbove
    <3> QED
      BY <1>5, <3>1, <3>2, BitsAre
  <2> QED
    BY <2>2, <2>3
<1>7. Bits[n] = Bits[raw] \intersect Bits[mask]
  <2>1. Bits[n] \subseteq 0..Width-1 /\ Bits[raw] \subseteq 0..Width-1
    BY <1>5, BitsAre
  <2> QED
    BY <1>6, <2>1
<1>8. Number(Bits[n]) = n
  BY <1>5, NumberTells
<1> QED
  BY <1>2, <1>3, <1>7, <1>8 DEF And

\* Each remainder is left by as many numbers.
LEMMA MadeBy ==
  ASSUME NEW p \in Nat \ {0}, NEW q \in Nat \ {0}, Power[Width] = q * p, NEW c \in 0..p-1
  PROVE  Cardinality({raw \in Raw : raw % p = c}) = q
<1> DEFINE T == {raw \in Raw : raw % p = c}
           S == 0..q-1
<1>1. PICK g : g = [m \in S |-> m * p + c]
  OBVIOUS
<1>2. \A m \in S : g[m] = m * p + c
  BY <1>1
<1>3. ASSUME NEW m \in S PROVE g[m] \in T /\ g[m] \div p = m
  <2>1. m \in Nat
    OBVIOUS
  <2>2. PICK x : x = m * p
    OBVIOUS
  <2>3. x \in Nat
    BY <2>1, <2>2
  <2>4. PICK y \in Nat : y = x + c /\ y = g[m]
    BY <1>2, <2>2, <2>3
  <2>5. y \div p = m /\ y % p = c
    <3>1. y = m * p + c
      BY <2>2, <2>4
    <3> QED
      BY <2>1, <3>1, QuotientIs
  <2>6. y < Power[Width]
    <3>1. PICK d \in Nat : q = m + 1 + d
      <4>1. q - m - 1 \in Nat /\ q = m + 1 + (q - m - 1)
        OBVIOUS
      <4> QED
        BY <4>1
    <3>2. PICK z : z = d * p
      OBVIOUS
    <3>3. z \in Nat
      BY <3>1, <3>2
    <3>4. q * p = x + p + z
      BY <2>1, <2>2, <3>1, <3>2
    <3> QED
      BY <2>3, <2>4, <3>3, <3>4
  <2> QED
    BY <2>4, <2>5, <2>6, RawFacts
<1>4. ASSUME NEW raw \in T PROVE \E m \in S : g[m] = raw
  <2>1. raw \in Nat /\ raw < Power[Width] /\ raw % p = c
    BY RawFacts
  <2>2. PICK m : m = raw \div p
    OBVIOUS
  <2>3. m \in Nat /\ raw = m * p + c
    BY <2>1, <2>2, Quotient
  <2>4. m < q
    <3> SUFFICES ASSUME ~(m < q) PROVE FALSE
      OBVIOUS
    <3>1. PICK d \in Nat : m = q + d
      <4>1. m - q \in Nat /\ m = q + (m - q)
        BY <2>3
      <4> QED
        BY <4>1
    <3>2. PICK x, z : x = q * p /\ z = d * p
      OBVIOUS
    <3>3. x \in Nat /\ z \in Nat
      BY <3>1, <3>2
    <3>4. m * p = x + z
      BY <3>1, <3>2
    <3> QED
      BY <2>1, <2>3, <3>2, <3>3, <3>4
  <2>5. m \in S
    BY <2>3, <2>4
  <2> QED
    BY <1>2, <2>3, <2>5
<1> HIDE DEF T, S
<1>5. g \in [S -> T]
  BY <1>1, <1>3
<1>6. g \in Bijection(S, T)
  <2>1. \A a, b \in S : g[a] = g[b] => a = b
    BY <1>3
  <2>2. \A t \in T : \E a \in S : g[a] = t
    BY <1>4
  <2> QED
    BY <1>5, <2>1, <2>2 DEF Bijection, Injection, Surjection, IsInjective
<1>7. ExistsBijection(S, T)
  BY <1>6 DEF ExistsBijection
<1>8. IsFiniteSet(S) /\ Cardinality(S) = q
  <2>1. 0 \in Int /\ q - 1 \in Int /\ ~(0 > q - 1) /\ (q - 1) - 0 + 1 = q
    OBVIOUS
  <2> QED
    BY <2>1, FS_Interval DEF S
<1>9. Cardinality(T) = q
  BY <1>7, <1>8, FS_Bijection
<1> QED
  BY <1>9 DEF T

LEMMA DrawIsFair ==
  ASSUME NEW max \in 1..MaxBound
  PROVE  Fair(max)
<1>1. max \in Nat /\ max > 0 /\ max < Power[Width] /\ Power[Width] \in Nat
  BY BoundAssumption, RawFacts, PowerFacts
<1>2. PICK mask : mask = Smeared(max)
  OBVIOUS
<1>3. PICK h \in 0..Width-1 :
        mask \in Raw /\ Power[h] <= max /\ max < Power[h + 1] /\ Bits[mask] = 0..h
  BY <1>1, <1>2, MaskIs
<1>4. h \in Nat /\ Width \in Nat
  BY RawFacts
<1>5. PICK b \in Nat \ {0}, p \in Nat \ {0} : b = Power[h] /\ p = Power[h + 1] /\ p = 2 * b
  <2>1. Power[h] \in Nat \ {0} /\ Power[h + 1] \in Nat \ {0} /\ Power[h + 1] = 2 * Power[h]
    BY <1>4, PowerPositive, PowerFacts
  <2> QED
    BY <2>1
<1>6. PICK q \in Nat \ {0} : Power[Width] = q * p
  <2>1. PICK d \in Nat : (h + 1) + d = Width
    <3>1. Width - (h + 1) \in Nat /\ (h + 1) + (Width - (h + 1)) = Width
      BY <1>4
    <3> QED
      BY <3>1
  <2>2. PICK q \in Nat \ {0} : q = Power[d]
    BY <2>1, PowerPositive
  <2>3. h + 1 \in Nat
    BY <1>4
  <2>4. Power[(h + 1) + d] = Power[h + 1] * Power[d]
    BY <2>1, <2>3, PowerSum
  <2>5. Power[Width] = p * q
    BY <1>5, <2>1, <2>2, <2>4
  <2>6. p * q = q * p
    BY <2>2
  <2> QED
    BY <2>5, <2>6
<1>7. \A raw \in Raw : And(raw, mask) = raw % p
  BY <1>3, <1>5, MaskedIs
<1> DEFINE masked == [raw \in Raw |-> And(raw, mask)]
<1>8. ASSUME NEW c \in 0..p-1 PROVE Cardinality({raw \in Raw : masked[raw] = c}) = q
  <2>1. \A raw \in Raw : masked[raw] = raw % p
    BY <1>7
  <2>2. {raw \in Raw : masked[raw] = c} = {raw \in Raw : raw % p = c}
    BY <2>1
  <2>3. Cardinality({raw \in Raw : raw % p = c}) = q
    BY <1>6, MadeBy
  <2> QED
    BY <2>2, <2>3
<1>9. \A c \in 0..max-1 : c \in 0..p-1
  BY <1>1, <1>3, <1>5
<1>10. 0 \in 0..max-1
  BY <1>1
<1>11. Drawn[max] = 0..max-1
  <2>1. PICK M : M = {And(raw, mask) : raw \in Raw}
    OBVIOUS
  <2>2. Drawn[max] = {num \in M : num < max}
    BY <1>2, <2>1 DEF Drawn, LetThrough
  <2>3. ASSUME NEW num \in M PROVE num \in Nat
    <3>1. PICK raw \in Raw : num = raw % p
      BY <1>7, <2>1
    <3>2. raw \in Nat
      BY RawFacts
    <3> QED
      BY <3>1, <3>2, Quotient
  <2>4. ASSUME NEW c \in 0..max-1 PROVE c \in M
    <3>1. c \in Nat /\ c < Power[Width] /\ c \in 0..p-1
      BY <1>1, <1>9
    <3>2. c \in Raw
      BY <3>1, RawFacts
    <3>3. c = 0 * p + c
      OBVIOUS
    <3>4. c % p = c
      BY <3>1, <3>3, QuotientIs
    <3> QED
      BY <1>7, <2>1, <3>2, <3>4
  <2> QED
    BY <1>1, <2>2, <2>3, <2>4
<1>12. 2 * max * q >= Power[Width]
  <2>1. PICK d \in Nat : max = b + d
    <3>1. max - b \in Nat /\ max = b + (max - b)
      BY <1>1, <1>3, <1>5
    <3> QED
      BY <3>1
  <2>2. PICK y, z : y = b * q /\ z = d * q
    OBVIOUS
  <2>3. y \in Nat /\ z \in Nat
    BY <2>1, <2>2
  <2>4. 2 * max * q = 2 * y + 2 * z
    BY <2>1, <2>2
  <2>5. q * p = 2 * y
    BY <1>5, <2>2
  <2> QED
    BY <1>6, <2>3, <2>4, <2>5
<1> DEFINE made(c) == Cardinality({raw \in Raw : masked[raw] = c})
<1>13. \A c \in 0..max-1 : made(c) = q
  BY <1>8, <1>9
<1>14. made(0) = q
  BY <1>10, <1>13
<1> HIDE DEF made
<1>15. /\ Drawn[max] = 0..max-1
       /\ \A c \in 0..max-1 : made(c) = made(0)
       /\ 2 * max * made(0) >= Power[Width]
  BY <1>11, <1>12, <1>13, <1>14
<1> QED
  BY <1>2, <1>15 DEF Fair, made

-----------------------------------------------------------------------------
(* Markov: tables.                                                         *)

\* A table, nodes and leaves alike: an entry sits in the slot of its codepoint.
IsTable(T) ==
  /\ \E S : T \in [kind : {"node", "leaf"}, size : 1..Len(Sizes), slots : S, total : Nat]
  /\ InUse(T) \subseteq 0..Capacity(T)-1
  /\ T.slots \in [InUse(T) -> AnyEntry]
  /\ \A s \in InUse(T) :
       /\ Slot(T, T.slots[s].codepoint) = s
       /\ T.slots[s].value # 0
       /\ T.kind = "leaf" => T.slots[s].value < CountMax

\* What a table holds for a codepoint, if codepoints are compared.
Lookup(T, c) ==
  IF Slot(T, c) \in InUse(T) /\ T.slots[Slot(T, c)].codepoint = c
    THEN T.slots[Slot(T, c)].value ELSE 0

\* What a slot keeps of a value that is put into it first.
Kept(kind, value) == IF kind = "leaf" THEN value % CountMax ELSE value

LEMMA LastIsNat == LastCodepoint \in Nat
BY SMT DEF LastCodepoint

LEMMA CodepointIsNat == Codepoints \subseteq Nat /\ 0 \in Codepoints
BY LastIsNat DEF Codepoints

LEMMA SizesFacts ==
  /\ Len(Sizes) = 24
  /\ \A s \in 1..24 : Sizes[s] \in Nat \ {0}
  /\ \A s \in 19..24 : \A c \in Codepoints : c < Sizes[s]
<1>1. Len(Sizes) = 24
  BY SMT DEF Sizes
<1>2. \A s \in 1..24 : Sizes[s] \in Nat \ {0}
  BY SMT DEF Sizes
<1>3. \A s \in 19..24 : Sizes[s] \in Nat /\ LastCodepoint < Sizes[s]
  BY SMT DEF Sizes, LastCodepoint
<1>4. \A s \in 19..24 : \A c \in Codepoints : c < Sizes[s]
  BY <1>3, LastIsNat DEF Codepoints
<1> QED
  BY <1>1, <1>2, <1>4

LEMMA Remainder ==
  ASSUME NEW c \in Nat, NEW m \in Nat \ {0}
  PROVE  c % m \in 0..m-1 /\ (c < m => c % m = c)
OBVIOUS

LEMMA CountMaxFacts == CountMax \in Nat \ {0}
BY CountAssumption

LEMMA EntryIs ==
  ASSUME NEW c \in Codepoints, NEW v \in Nat
  PROVE  /\ Entry(c, v) \in AnyEntry
         /\ Entry(c, v).codepoint = c /\ Entry(c, v).value = v
BY DEF Entry, AnyEntry

LEMMA EntryHas ==
  ASSUME NEW e \in AnyEntry
  PROVE  e.codepoint \in Codepoints /\ e.value \in Nat /\ e = Entry(e.codepoint, e.value)
BY DEF Entry, AnyEntry

\* The types of a table's parts, and where lookups go.
LEMMA TableHas ==
  ASSUME NEW T, IsTable(T)
  PROVE  /\ T.kind \in {"node", "leaf"} /\ T.size \in 1..24 /\ T.total \in Nat
         /\ Capacity(T) \in Nat \ {0}
         /\ \A c \in Codepoints : Slot(T, c) \in 0..Capacity(T)-1
         /\ \A s \in InUse(T) : T.slots[s] \in AnyEntry
<1>1. PICK S : T \in [kind : {"node", "leaf"}, size : 1..Len(Sizes), slots : S, total : Nat]
  BY DEF IsTable
<1>2. T.kind \in {"node", "leaf"} /\ T.size \in 1..24 /\ T.total \in Nat
  BY <1>1, SizesFacts
<1>3. Capacity(T) \in Nat \ {0}
  BY <1>2, SizesFacts DEF Capacity
<1>4. ASSUME NEW c \in Codepoints PROVE Slot(T, c) \in 0..Capacity(T)-1
  <2>1. c \in Nat
    BY CodepointIsNat
  <2> QED
    BY <2>1, <1>3, Remainder DEF Slot
<1>5. \A s \in InUse(T) : T.slots[s] \in AnyEntry
  BY DEF IsTable
<1> QED
  BY <1>2, <1>3, <1>4, <1>5

LEMMA LookupHas ==
  ASSUME NEW T, IsTable(T), NEW c \in Codepoints
  PROVE  /\ Lookup(T, c) \in Nat
         /\ Lookup(T, c) # 0 => Slot(T, c) \in InUse(T) /\ T.slots[Slot(T, c)] = Entry(c, Lookup(T, c))
         /\ T.kind = "leaf" => Lookup(T, c) < CountMax
         /\ Lookup(T, c) # 0 => Value(T, c) = Lookup(T, c) /\ ~Taken(T, c)
         /\ ~Taken(T, c) => Value(T, c) = Lookup(T, c)
         /\ Taken(T, c) => Lookup(T, c) = 0
<1>1. PICK t : t = Slot(T, c)
  OBVIOUS
<1>2. t \in InUse(T) => T.slots[t] \in AnyEntry /\ T.slots[t].value # 0
                        /\ (T.kind = "leaf" => T.slots[t].value < CountMax)
  BY TableHas DEF IsTable
<1>3. t \in InUse(T) => T.slots[t].value \in Nat /\ T.slots[t] = Entry(T.slots[t].codepoint, T.slots[t].value)
  BY <1>2, EntryHas
<1> QED
  BY <1>1, <1>2, <1>3, CountMaxFacts DEF Lookup, Value, Taken

\* An entry in a slot is the one its codepoint is looked up as.
LEMMA SlotLookup ==
  ASSUME NEW T, IsTable(T), NEW s \in InUse(T)
  PROVE  /\ T.slots[s].codepoint \in Codepoints
         /\ Slot(T, T.slots[s].codepoint) = s
         /\ Lookup(T, T.slots[s].codepoint) = T.slots[s].value
         /\ T.slots[s].value \in Nat \ {0}
<1>1. T.slots[s] \in AnyEntry /\ Slot(T, T.slots[s].codepoint) = s /\ T.slots[s].value # 0
  BY DEF IsTable
<1> QED
  BY <1>1, EntryHas DEF Lookup

\* Beyond the nineteenth size a codepoint is its own slot.
LEMMA RoomForAll ==
  ASSUME NEW T, IsTable(T), T.size >= 19, NEW c \in Codepoints
  PROVE  ~Taken(T, c)
<1>1. Capacity(T) \in Nat \ {0} /\ \A d \in Codepoints : d < Capacity(T)
  <2>1. T.size \in 19..24
    BY TableHas
  <2> QED
    BY <2>1, TableHas, SizesFacts DEF Capacity
<1>2. \A d \in Codepoints : Slot(T, d) = d
  <2> SUFFICES ASSUME NEW d \in Codepoints PROVE Slot(T, d) = d
    OBVIOUS
  <2>1. d \in Nat /\ d < Capacity(T)
    BY <1>1, CodepointIsNat
  <2> QED
    BY <2>1, <1>1, Remainder DEF Slot
<1>3. ASSUME Taken(T, c) PROVE FALSE
  <2>1. PICK t : t = Slot(T, c)
    OBVIOUS
  <2>2. t \in InUse(T) /\ T.slots[t].codepoint # c /\ t = c
    BY <1>2, <1>3, <2>1 DEF Taken
  <2>3. Slot(T, T.slots[t].codepoint) = t /\ T.slots[t].codepoint \in Codepoints
    BY <2>2, SlotLookup
  <2> QED
    BY <1>2, <2>2, <2>3
<1> QED
  BY <1>3

\* A table with nothing in it.
IsNew(T, kind, size) ==
  /\ IsTable(T) /\ T.kind = kind /\ T.size = size /\ T.total = 0 /\ InUse(T) = {}
  /\ \A c \in Codepoints : Lookup(T, c) = 0 /\ ~Taken(T, c)

LEMMA NewTableIs ==
  ASSUME NEW kind \in {"node", "leaf"}, NEW size \in 1..24
  PROVE  IsNew(NewTable(kind, size), kind, size)
<1>1. PICK T : T = NewTable(kind, size)
  OBVIOUS
<1>2. PICK E : E = <<>>
  OBVIOUS
<1>3. T = [kind |-> kind, size |-> size, slots |-> E, total |-> 0] /\ DOMAIN E = {}
  BY <1>1, <1>2 DEF NewTable
<1>4. T \in [kind : {"node", "leaf"}, size : 1..Len(Sizes), slots : {E}, total : Nat]
  BY <1>3, SizesFacts
<1>5. InUse(T) = {} /\ T.slots = E /\ T.kind = kind /\ T.size = size /\ T.total = 0
  BY <1>3 DEF InUse
<1>6. E \in [{} -> AnyEntry]
  BY <1>2
<1>7. IsTable(T)
  BY <1>4, <1>5, <1>6 DEF IsTable
<1>8. \A c \in Codepoints : Lookup(T, c) = 0 /\ ~Taken(T, c)
  BY <1>5 DEF Lookup, Taken
<1> QED
  BY <1>1, <1>5, <1>7, <1>8 DEF IsNew

-----------------------------------------------------------------------------
(* Markov: the running sums of a table's counts.                           *)

\* f is the running sums of the first m entries.
Summing(f, m, entries) ==
  f = [n \in 0..m |-> IF n = 0 THEN 0 ELSE f[n-1] + entries[n].value]

LEMMA SummingFound ==
  ASSUME NEW entries
  PROVE  \A m \in Nat : \E f : Summing(f, m, entries)
<1> DEFINE S == {m \in Nat : \E f : Summing(f, m, entries)}
<1>1. 0 \in S
  <2>1. PICK f : f = [n \in 0..0 |-> 0]
    OBVIOUS
  <2>2. \A n \in 0..0 : f[n] = IF n = 0 THEN 0 ELSE f[n-1] + entries[n].value
    BY <2>1
  <2>3. Summing(f, 0, entries)
    BY <2>1, <2>2 DEF Summing
  <2> QED
    BY <2>3
<1>2. ASSUME NEW n \in Nat, n \in S PROVE n + 1 \in S
  <2>1. PICK m \in Nat : m = n + 1
    OBVIOUS
  <2>2. PICK f : Summing(f, n, entries)
    BY <1>2
  <2>3. PICK z : z = f[n] + entries[m].value
    OBVIOUS
  <2>4. PICK g : g = [k \in 0..m |-> IF k = m THEN z ELSE f[k]]
    OBVIOUS
  <2>5. ASSUME NEW k \in 0..m PROVE g[k] = IF k = 0 THEN 0 ELSE g[k-1] + entries[k].value
    <3>1. CASE k = 0
      <4>1. k # m /\ k \in 0..n
        BY <2>1, <3>1
      <4> QED
        BY <2>2, <2>4, <3>1, <4>1 DEF Summing
    <3>2. CASE k # 0
      <4>1. k - 1 \in 0..n /\ k - 1 \in 0..m /\ k - 1 # m
        BY <2>1, <3>2
      <4>2. g[k - 1] = f[k - 1]
        BY <2>4, <4>1
      <4>3. CASE k = m
        <5>1. k - 1 = n
          BY <2>1, <4>3
        <5> QED
          BY <2>3, <2>4, <3>2, <4>2, <4>3, <5>1
      <4>4. CASE k # m
        <5>1. k \in 0..n
          BY <2>1, <4>4
        <5>2. f[k] = f[k-1] + entries[k].value
          BY <2>2, <3>2, <5>1 DEF Summing
        <5> QED
          BY <2>4, <3>2, <4>2, <4>4, <5>2
      <4> QED
        BY <4>3, <4>4
    <3> QED
      BY <3>1, <3>2
  <2>6. g = [k \in 0..m |-> g[k]]
    BY <2>4
  <2>7. Summing(g, m, entries)
    BY <2>5, <2>6 DEF Summing
  <2> QED
    BY <2>1, <2>7
<1> HIDE DEF S
<1>3. \A n \in Nat : n \in S
  BY <1>1, <1>2, SetInduction
<1> QED
  BY <1>3 DEF S

LEMMA SumsAre ==
  ASSUME NEW entries \in Seq(AnyEntry)
  PROVE  /\ Sums(entries)[0] = 0
         /\ \A n \in 1..Len(entries) : Sums(entries)[n] = Sums(entries)[n-1] + entries[n].value
         /\ \A n \in 0..Len(entries) : Sums(entries)[n] \in Nat
<1>1. PICK m \in Nat : m = Len(entries)
  OBVIOUS
<1>2. PICK g : Summing(g, m, entries)
  BY SummingFound
<1>3. PICK f : f = Sums(entries)
  OBVIOUS
<1>4. f = [n \in 0..m |-> IF n = 0 THEN 0 ELSE f[n-1] + entries[n].value]
  BY <1>1, <1>2, <1>3 DEF Sums, Summing
<1>5. f[0] = 0 /\ \A n \in 1..m : f[n] = f[n-1] + entries[n].value
  BY <1>1, <1>4
<1>6. \A n \in 1..m : entries[n].value \in Nat
  BY <1>1, EntryHas
<1> DEFINE S == {n \in Nat : n <= m => f[n] \in Nat}
<1>7. 0 \in S
  BY <1>5
<1>8. ASSUME NEW n \in Nat, n \in S PROVE n + 1 \in S
  <2> SUFFICES ASSUME n + 1 <= m PROVE f[n + 1] \in Nat
    OBVIOUS
  <2>1. PICK k : k = n + 1
    OBVIOUS
  <2>2. k \in 1..m /\ k - 1 = n /\ f[n] \in Nat
    BY <1>1, <1>8, <2>1
  <2> QED
    BY <1>5, <1>6, <2>1, <2>2
<1> HIDE DEF S
<1>9. \A n \in Nat : n \in S
  BY <1>7, <1>8, SetInduction
<1>10. \A n \in 0..m : f[n] \in Nat
  BY <1>9 DEF S
<1> QED
  BY <1>1, <1>3, <1>5, <1>10

\* The p-th value is more by v, if it is one of the first n, and no other differs.
MoreAt(p, v, more, entries, n) ==
  \A i \in 1..n : more[i].value = entries[i].value + (IF i = p THEN v ELSE 0)

\* Then all sums from there on are more by v.
LEMMA SumsDiffer ==
  ASSUME NEW entries \in Seq(AnyEntry), NEW more \in Seq(AnyEntry),
         NEW n \in Nat, n <= Len(entries), n <= Len(more), NEW p \in Nat, NEW v \in Nat,
         MoreAt(p, v, more, entries, n)
  PROVE  \A m \in 0..n : Sums(more)[m] = Sums(entries)[m] + (IF 1 <= p /\ p <= m THEN v ELSE 0)
<1>1. PICK f : f = Sums(entries)
  OBVIOUS
<1>2. PICK g : g = Sums(more)
  OBVIOUS
<1>3. f[0] = 0 /\ g[0] = 0
  BY <1>1, <1>2, SumsAre
<1>4. \A i \in 1..n : /\ f[i] = f[i-1] + entries[i].value
                      /\ g[i] = g[i-1] + more[i].value
                      /\ entries[i].value \in Nat /\ f[i-1] \in Nat
  <2> SUFFICES ASSUME NEW i \in 1..n
               PROVE  /\ f[i] = f[i-1] + entries[i].value
                      /\ g[i] = g[i-1] + more[i].value
                      /\ entries[i].value \in Nat /\ f[i-1] \in Nat
    OBVIOUS
  <2>1. i \in 1..Len(entries) /\ i \in 1..Len(more) /\ i - 1 \in 0..Len(entries)
    OBVIOUS
  <2>2. entries[i] \in AnyEntry
    BY <2>1
  <2> QED
    BY <1>1, <1>2, <2>1, <2>2, SumsAre, EntryHas
<1> DEFINE S == {m \in Nat : m <= n => g[m] = f[m] + (IF 1 <= p /\ p <= m THEN v ELSE 0)}
<1>5. 0 \in S
  BY <1>3
<1>6. ASSUME NEW m \in Nat, m \in S PROVE m + 1 \in S
  <2> SUFFICES ASSUME m + 1 <= n
               PROVE  g[m + 1] = f[m + 1] + (IF 1 <= p /\ p <= m + 1 THEN v ELSE 0)
    OBVIOUS
  <2>1. PICK k : k = m + 1
    OBVIOUS
  <2>2. k \in 1..n /\ k - 1 = m /\ g[m] = f[m] + (IF 1 <= p /\ p <= m THEN v ELSE 0)
    BY <1>6, <2>1
  <2>3. /\ f[k] = f[m] + entries[k].value
        /\ g[k] = g[m] + more[k].value
        /\ entries[k].value \in Nat /\ f[m] \in Nat
    BY <1>4, <2>2
  <2>4. more[k].value = entries[k].value + (IF k = p THEN v ELSE 0)
    BY <2>2 DEF MoreAt
  <2>5. PICK x \in Nat : x = f[m]
    BY <2>3
  <2>6. PICK y \in Nat : y = entries[k].value
    BY <2>3
  <2>7. f[k] = x + y
    BY <2>3, <2>5, <2>6
  <2>8. g[k] = (x + (IF 1 <= p /\ p <= m THEN v ELSE 0)) + (y + (IF k = p THEN v ELSE 0))
    BY <2>2, <2>3, <2>4, <2>5, <2>6
  <2>9. g[k] = f[k] + (IF 1 <= p /\ p <= k THEN v ELSE 0)
    BY <2>1, <2>7, <2>8
  <2> QED
    BY <2>1, <2>9
<1> HIDE DEF S
<1>7. \A m \in Nat : m \in S
  BY <1>5, <1>6, SetInduction
<1> QED
  BY <1>1, <1>2, <1>7 DEF S

\* Sums are no less than what they add up.
LEMMA SumsBound ==
  ASSUME NEW entries \in Seq(AnyEntry), NEW p \in 1..Len(entries)
  PROVE  entries[p].value <= Sums(entries)[Len(entries)]
<1>1. PICK f : f = Sums(entries)
  OBVIOUS
<1>2. PICK n \in Nat : n = Len(entries)
  OBVIOUS
<1>3. \A i \in 1..n : /\ f[i] = f[i-1] + entries[i].value
                      /\ f[i] \in Nat /\ entries[i].value \in Nat /\ f[i-1] \in Nat
  <2> SUFFICES ASSUME NEW i \in 1..n
               PROVE  /\ f[i] = f[i-1] + entries[i].value
                      /\ f[i] \in Nat /\ entries[i].value \in Nat /\ f[i-1] \in Nat
    OBVIOUS
  <2>1. i \in 1..Len(entries) /\ i - 1 \in 0..Len(entries) /\ i \in 0..Len(entries)
    BY <1>2
  <2>2. entries[i] \in AnyEntry
    BY <2>1
  <2> QED
    BY <1>1, <2>1, <2>2, SumsAre, EntryHas
<1> DEFINE S == {m \in Nat : p <= m /\ m <= n => entries[p].value <= f[m]}
<1>4. 0 \in S
  OBVIOUS
<1>5. ASSUME NEW m \in Nat, m \in S PROVE m + 1 \in S
  <2> SUFFICES ASSUME p <= m + 1, m + 1 <= n PROVE entries[p].value <= f[m + 1]
    OBVIOUS
  <2>1. PICK k : k = m + 1
    OBVIOUS
  <2>2. k \in 1..n /\ k - 1 = m
    BY <2>1
  <2>3. f[k] = f[m] + entries[k].value /\ f[m] \in Nat /\ entries[k].value \in Nat
    BY <1>3, <2>2
  <2>4. CASE p = k
    <3>1. entries[p].value \in Nat /\ f[k] = f[m] + entries[p].value
      BY <2>3, <2>4
    <3> QED
      BY <2>1, <2>3, <3>1
  <2>5. CASE p # k
    <3>1. p <= m /\ m <= n
      BY <2>1, <2>5
    <3>2. entries[p].value <= f[m] /\ entries[p].value \in Nat
      BY <1>2, <1>3, <1>5, <3>1
    <3> QED
      BY <2>1, <2>3, <3>2
  <2> QED
    BY <2>4, <2>5
<1> HIDE DEF S
<1>6. \A m \in Nat : m \in S
  BY <1>4, <1>5, SetInduction
<1>7. p <= n /\ n <= n
  BY <1>2
<1> QED
  BY <1>1, <1>2, <1>6, <1>7 DEF S

LEMMA EntriesAre ==
  ASSUME NEW T, IsTable(T)
  PROVE  /\ Entries(T) \in Seq(AnyEntry)
         /\ Len(Entries(T)) = Capacity(T)
         /\ \A i \in 1..Capacity(T) :
              Entries(T)[i] = IF i - 1 \in InUse(T) THEN T.slots[i - 1] ELSE Entry(0, 0)
<1>1. PICK m \in Nat : m = Capacity(T)
  BY TableHas
<1>2. \A i \in 1..m : (IF i - 1 \in InUse(T) THEN T.slots[i - 1] ELSE Entry(0, 0)) \in AnyEntry
  BY TableHas, EntryIs, CodepointIsNat
<1>3. PICK e : e = Entries(T)
  OBVIOUS
<1>4. e = [i \in 1..m |-> IF i - 1 \in InUse(T) THEN T.slots[i - 1] ELSE Entry(0, 0)]
  BY <1>1, <1>3 DEF Entries
<1>5. e \in [1..m -> AnyEntry]
  BY <1>2, <1>4
<1>6. e \in Seq(AnyEntry) /\ Len(e) = m
  BY <1>5
<1> QED
  BY <1>1, <1>3, <1>4, <1>6

\* What an entry of Entries says of lookups, and the other way around.
LEMMA EntriesTell ==
  ASSUME NEW T, IsTable(T)
  PROVE  /\ \A i \in 1..Capacity(T) : Entries(T)[i].value # 0 =>
              /\ Entries(T)[i].codepoint \in Codepoints
              /\ Slot(T, Entries(T)[i].codepoint) = i - 1
              /\ Lookup(T, Entries(T)[i].codepoint) = Entries(T)[i].value
         /\ \A c \in Codepoints : Lookup(T, c) # 0 =>
              /\ Slot(T, c) + 1 \in 1..Capacity(T)
              /\ Entries(T)[Slot(T, c) + 1] = Entry(c, Lookup(T, c))
<1>1. ASSUME NEW i \in 1..Capacity(T), Entries(T)[i].value # 0
      PROVE  /\ Entries(T)[i].codepoint \in Codepoints
             /\ Slot(T, Entries(T)[i].codepoint) = i - 1
             /\ Lookup(T, Entries(T)[i].codepoint) = Entries(T)[i].value
  <2>1. i - 1 \in InUse(T)
    BY <1>1, EntriesAre, EntryIs, CodepointIsNat
  <2>2. Entries(T)[i] = T.slots[i - 1]
    BY <1>1, <2>1, EntriesAre
  <2> QED
    BY <2>1, <2>2, SlotLookup
<1>2. ASSUME NEW c \in Codepoints, Lookup(T, c) # 0
      PROVE  /\ Slot(T, c) + 1 \in 1..Capacity(T)
             /\ Entries(T)[Slot(T, c) + 1] = Entry(c, Lookup(T, c))
  <2>1. PICK t : t = Slot(T, c)
    OBVIOUS
  <2>2. t \in 0..Capacity(T)-1 /\ Capacity(T) \in Nat
    BY <2>1, TableHas
  <2>3. PICK i : i = t + 1
    OBVIOUS
  <2>4. i \in 1..Capacity(T) /\ i - 1 = t
    BY <2>2, <2>3
  <2>5. t \in InUse(T) /\ T.slots[t] = Entry(c, Lookup(T, c))
    BY <1>2, <2>1, LookupHas
  <2>6. Entries(T)[i] = Entry(c, Lookup(T, c))
    BY <2>4, <2>5, EntriesAre
  <2> QED
    BY <2>1, <2>3, <2>4, <2>6
<1> QED
  BY <1>1, <1>2

-----------------------------------------------------------------------------
(* Markov: putting an entry into a slot that is not taken.                 *)

\* The count that makes up what a table's counts add up to.
Sound(T) == T.total = Sums(Entries(T))[Capacity(T)]

\* The slots of T, with v for c.
Replaced(T, c, v) ==
  [s \in (InUse(T) \ {Slot(T, c)}) \union (IF v = 0 THEN {} ELSE {Slot(T, c)}) |->
     IF s = Slot(T, c) THEN Entry(c, v) ELSE T.slots[s]]

LEMMA ReplacedIs ==
  ASSUME NEW T, IsTable(T), NEW c \in Codepoints, ~Taken(T, c), NEW v \in Nat,
         T.kind = "leaf" => v < CountMax,
         NEW total \in Nat, NEW R,
         R = [kind |-> T.kind, size |-> T.size, slots |-> Replaced(T, c, v), total |-> total]
  PROVE  /\ IsTable(R) /\ R.kind = T.kind /\ R.size = T.size /\ R.total = total
         /\ Capacity(R) = Capacity(T)
         /\ \A d \in Codepoints : Lookup(R, d) = IF d = c THEN v ELSE Lookup(T, d)
         /\ \A i \in 1..Capacity(T) :
              /\ i # Slot(T, c) + 1 => Entries(R)[i].value = Entries(T)[i].value
              /\ i = Slot(T, c) + 1 => Entries(R)[i].value = v /\ Entries(T)[i].value = Lookup(T, c)
<1>1. PICK t : t = Slot(T, c)
  OBVIOUS
<1>2. PICK U : U = (InUse(T) \ {t}) \union (IF v = 0 THEN {} ELSE {t})
  OBVIOUS
<1>3. PICK f : f = Replaced(T, c, v)
  OBVIOUS
<1>4. f = [s \in U |-> IF s = t THEN Entry(c, v) ELSE T.slots[s]]
  BY <1>1, <1>2, <1>3 DEF Replaced
<1>5. t \in 0..Capacity(T)-1 /\ InUse(T) \subseteq 0..Capacity(T)-1 /\ Capacity(T) \in Nat \ {0}
  BY <1>1, TableHas DEF IsTable
<1>6. U \subseteq 0..Capacity(T)-1
  BY <1>2, <1>5
<1>7. R = [kind |-> T.kind, size |-> T.size, slots |-> f, total |-> total]
  BY <1>3
<1>8. R.kind = T.kind /\ R.size = T.size /\ R.slots = f /\ R.total = total
  BY <1>7
<1>9. InUse(R) = U /\ Capacity(R) = Capacity(T)
  BY <1>4, <1>8 DEF InUse, Capacity
<1>10. \A d : Slot(R, d) = Slot(T, d)
  BY <1>9 DEF Slot
<1>11. \A s \in U : /\ s = t => f[s] = Entry(c, v) /\ v # 0
                    /\ s # t => f[s] = T.slots[s] /\ s \in InUse(T)
  BY <1>2, <1>4
<1>12. IsTable(R)
  <2>1. T.kind \in {"node", "leaf"} /\ T.size \in 1..Len(Sizes)
    BY TableHas, SizesFacts
  <2>2. R \in [kind : {"node", "leaf"}, size : 1..Len(Sizes), slots : {f}, total : Nat]
    BY <1>7, <2>1
  <2>3. ASSUME NEW s \in U
        PROVE  /\ f[s] \in AnyEntry
               /\ Slot(R, f[s].codepoint) = s
               /\ f[s].value # 0
               /\ R.kind = "leaf" => f[s].value < CountMax
    <3>1. CASE s = t
      BY <1>1, <1>8, <1>10, <1>11, <3>1, EntryIs
    <3>2. CASE s # t
      <4>1. s \in InUse(T) /\ f[s] = T.slots[s]
        BY <1>11, <3>2
      <4>2. /\ T.slots[s] \in AnyEntry
            /\ Slot(T, T.slots[s].codepoint) = s
            /\ T.slots[s].value # 0
            /\ T.kind = "leaf" => T.slots[s].value < CountMax
        BY <4>1 DEF IsTable
      <4> QED
        BY <1>8, <1>10, <4>1, <4>2
    <3> QED
      BY <3>1, <3>2
  <2>4. f \in [U -> AnyEntry]
    BY <1>4, <2>3
  <2> QED
    BY <1>6, <1>8, <1>9, <2>2, <2>3, <2>4 DEF IsTable
<1>13. ASSUME NEW d \in Codepoints
       PROVE  Lookup(R, d) = IF d = c THEN v ELSE Lookup(T, d)
  <2>1. PICK u : u = Slot(T, d)
    OBVIOUS
  <2>2. Lookup(R, d) = IF u \in U /\ f[u].codepoint = d THEN f[u].value ELSE 0
    BY <1>8, <1>9, <1>10, <2>1 DEF Lookup
  <2>3. CASE d = c
    <3>1. u = t
      BY <1>1, <2>1, <2>3
    <3>2. CASE v = 0
      <4>1. u \notin U
        BY <1>2, <3>1, <3>2
      <4> QED
        BY <2>2, <2>3, <3>2, <4>1
    <3>3. CASE v # 0
      <4>1. u \in U /\ f[u] = Entry(c, v)
        BY <1>2, <1>11, <3>1, <3>3
      <4> QED
        BY <2>2, <2>3, <4>1, EntryIs
    <3> QED
      BY <3>2, <3>3
  <2>4. CASE d # c
    <3>1. CASE u = t
      <4>1. Lookup(R, d) = 0
        BY <1>11, <2>2, <2>4, <3>1, EntryIs
      <4>2. Lookup(T, d) = 0
        BY <1>1, <2>1, <2>4, <3>1 DEF Taken, Lookup
      <4> QED
        BY <2>4, <4>1, <4>2
    <3>2. CASE u # t
      <4>1. u \in U <=> u \in InUse(T)
        BY <1>2, <3>2
      <4>2. u \in U => f[u] = T.slots[u]
        BY <1>11, <3>2
      <4> QED
        BY <2>1, <2>2, <2>4, <4>1, <4>2 DEF Lookup
    <3> QED
      BY <3>1, <3>2
  <2> QED
    BY <2>3, <2>4
<1>14. ASSUME NEW i \in 1..Capacity(T)
       PROVE  /\ i # t + 1 => Entries(R)[i].value = Entries(T)[i].value
              /\ i = t + 1 => Entries(R)[i].value = v /\ Entries(T)[i].value = Lookup(T, c)
  <2>1. PICK j : j = i - 1
    OBVIOUS
  <2>2. Entries(R)[i] = IF j \in U THEN f[j] ELSE Entry(0, 0)
    BY <1>8, <1>9, <1>12, <2>1, EntriesAre
  <2>3. Entries(T)[i] = IF j \in InUse(T) THEN T.slots[j] ELSE Entry(0, 0)
    BY <2>1, EntriesAre
  <2>4. i = t + 1 <=> j = t
    BY <1>5, <2>1
  <2>5. Entry(0, 0).value = 0
    BY CodepointIsNat, EntryIs
  <2>6. CASE j # t
    <3>1. Entries(R)[i] = Entries(T)[i]
      BY <1>2, <1>11, <2>2, <2>3, <2>6
    <3> QED
      BY <2>4, <2>6, <3>1
  <2>7. CASE j = t
    <3>1. Entries(R)[i].value = v
      <4>1. v = 0 => j \notin U
        BY <1>2, <2>7
      <4>2. v # 0 => j \in U /\ f[j] = Entry(c, v)
        BY <1>2, <1>11, <2>7
      <4> QED
        BY <2>2, <2>5, <4>1, <4>2, EntryIs
    <3>2. Entries(T)[i].value = Lookup(T, c)
      BY <1>1, <2>3, <2>5, <2>7 DEF Lookup, Taken
    <3> QED
      BY <2>4, <2>7, <3>1, <3>2
  <2> QED
    BY <2>6, <2>7
<1> QED
  BY <1>1, <1>8, <1>9, <1>12, <1>13, <1>14

\* A record is what its fields are.
LEMMA TableIs ==
  ASSUME NEW T, IsTable(T)
  PROVE  T = [kind |-> T.kind, size |-> T.size, slots |-> T.slots, total |-> T.total]
<1>1. PICK S : T \in [kind : {"node", "leaf"}, size : 1..Len(Sizes), slots : S, total : Nat]
  BY DEF IsTable
<1> QED
  BY <1>1

LEMMA PutIs ==
  ASSUME NEW T, IsTable(T), NEW e \in AnyEntry, e.value # 0, ~Taken(T, e.codepoint)
  PROVE  LET R == Put(T, e)
             old == Lookup(T, e.codepoint)
         IN  /\ IsTable(R) /\ R.kind = T.kind /\ R.size = T.size
             /\ T.kind = "leaf" => R.total = T.total + e.value
             /\ \A d \in Codepoints :
                  Lookup(R, d) = IF d # e.codepoint THEN Lookup(T, d)
                                 ELSE IF T.kind = "leaf" THEN (old + e.value) % CountMax
                                 ELSE e.value
             /\ T.kind = "leaf" /\ Sound(T) /\ T.total + e.value < CountMax => Sound(R)
<1>1. PICK c, w : c = e.codepoint /\ w = e.value
  OBVIOUS
<1>2. c \in Codepoints /\ w \in Nat \ {0} /\ e = Entry(c, w) /\ ~Taken(T, c)
  BY <1>1, EntryHas
<1>3. PICK old : old = Lookup(T, c)
  OBVIOUS
<1>4. old \in Nat /\ Value(T, c) = old
  BY <1>2, <1>3, LookupHas
<1>5. PICK R : R = Put(T, e)
  OBVIOUS
<1>6. T = [kind |-> T.kind, size |-> T.size, slots |-> T.slots, total |-> T.total]
      /\ T.kind \in {"node", "leaf"} /\ T.total \in Nat
  BY TableIs, TableHas
<1>7. CASE T.kind = "node"
  <2>1. R = PutChild(T, e)
    BY <1>5, <1>7 DEF Put
  <2>2. [s \in InUse(T) \union {Slot(T, c)} |-> IF s = Slot(T, c) THEN e ELSE T.slots[s]]
        = Replaced(T, c, w)
    <3>1. InUse(T) \union {Slot(T, c)} = (InUse(T) \ {Slot(T, c)}) \union (IF w = 0 THEN {} ELSE {Slot(T, c)})
      BY <1>2
    <3> QED
      BY <1>2, <3>1 DEF Replaced
  <2>3. R = [kind |-> T.kind, size |-> T.size, slots |-> Replaced(T, c, w), total |-> T.total]
    BY <1>1, <1>6, <2>1, <2>2 DEF PutChild
  <2>4. /\ IsTable(R) /\ R.kind = T.kind /\ R.size = T.size
        /\ \A d \in Codepoints : Lookup(R, d) = IF d = c THEN w ELSE Lookup(T, d)
    BY <1>2, <1>6, <1>7, <2>3, ReplacedIs
  <2> QED
    BY <1>1, <1>5, <1>7, <2>4
<1>8. CASE T.kind = "leaf"
  <2>1. PICK sum : sum = (old + w) % CountMax
    OBVIOUS
  <2>2. sum \in Nat /\ sum < CountMax /\ (old + w < CountMax => sum = old + w)
    <3>1. PICK x \in Nat : x = old + w
      BY <1>2, <1>4
    <3>2. PICK m \in Nat \ {0} : m = CountMax
      BY CountMaxFacts
    <3>3. sum = x % m /\ x % m \in 0..m-1 /\ (x < m => x % m = x)
      BY <2>1, <3>1, <3>2, Remainder
    <3> QED
      BY <3>1, <3>2, <3>3
  <2>3. PICK total \in Nat : total = T.total + w
    BY <1>2, <1>6
  <2>4. R = PutCount(T, e)
    BY <1>5, <1>8 DEF Put
  <2>5. R = [kind |-> T.kind, size |-> T.size, slots |-> Replaced(T, c, sum), total |-> total]
    BY <1>1, <1>4, <1>6, <2>1, <2>3, <2>4 DEF PutCount, Replaced
  <2>6. /\ IsTable(R) /\ R.kind = T.kind /\ R.size = T.size /\ R.total = total
        /\ Capacity(R) = Capacity(T)
        /\ \A d \in Codepoints : Lookup(R, d) = IF d = c THEN sum ELSE Lookup(T, d)
        /\ \A i \in 1..Capacity(T) :
              /\ i # Slot(T, c) + 1 => Entries(R)[i].value = Entries(T)[i].value
              /\ i = Slot(T, c) + 1 => Entries(R)[i].value = sum /\ Entries(T)[i].value = old
    BY <1>2, <1>3, <2>2, <2>5, ReplacedIs
  <2>7. ASSUME Sound(T), T.total + w < CountMax PROVE Sound(R)
    <3>1. PICK n \in Nat \ {0} : n = Capacity(T)
      BY TableHas
    <3>2. /\ Entries(T) \in Seq(AnyEntry) /\ Len(Entries(T)) = n
          /\ Entries(R) \in Seq(AnyEntry) /\ Len(Entries(R)) = n
      BY <2>6, <3>1, EntriesAre
    <3>3. PICK p \in 1..n : p = Slot(T, c) + 1
      <4>1. Slot(T, c) \in 0..n-1
        BY <1>2, <3>1, TableHas
      <4> QED
        BY <4>1
    <3>4. old <= T.total
      <4>1. Entries(T)[p].value = old
        BY <2>6, <3>1, <3>3
      <4> QED
        BY <2>7, <3>1, <3>2, <4>1, SumsBound DEF Sound
    <3>5. sum = old + w
      BY <1>2, <1>4, <1>6, <2>2, <2>7, <3>4, CountMaxFacts
    <3>6. \A i \in 1..n : Entries(R)[i].value = Entries(T)[i].value + (IF i = p THEN w ELSE 0)
      <4> SUFFICES ASSUME NEW i \in 1..n
                   PROVE  Entries(R)[i].value = Entries(T)[i].value + (IF i = p THEN w ELSE 0)
        OBVIOUS
      <4>1. Entries(T)[i].value \in Nat
        BY <3>2, EntryHas
      <4> QED
        BY <2>6, <3>1, <3>3, <3>5, <4>1
    <3>7. Sums(Entries(R))[n] = Sums(Entries(T))[n] + (IF 1 <= p /\ p <= n THEN w ELSE 0)
      <4>1. PICK a \in Seq(AnyEntry) : a = Entries(T)
        BY <3>2
      <4>2. PICK b \in Seq(AnyEntry) : b = Entries(R)
        BY <3>2
      <4>3. n \in Nat /\ n <= Len(a) /\ n <= Len(b) /\ p \in Nat /\ w \in Nat /\ n \in 0..n
        BY <1>2, <3>2, <4>1, <4>2
      <4>4. MoreAt(p, w, b, a, n)
        BY <3>6, <4>1, <4>2 DEF MoreAt
      <4>5. \A m \in 0..n : Sums(b)[m] = Sums(a)[m] + (IF 1 <= p /\ p <= m THEN w ELSE 0)
        BY <4>3, <4>4, SumsDiffer
      <4> QED
        BY <4>1, <4>2, <4>3, <4>5
    <3> QED
      BY <2>3, <2>6, <2>7, <3>1, <3>7 DEF Sound
  <2> QED
    BY <1>1, <1>3, <1>5, <1>8, <2>1, <2>3, <2>6, <2>7
<1> QED
  BY <1>6, <1>7, <1>8

-----------------------------------------------------------------------------
(* Markov: insertion, and the tables that a table which is too small becomes. *)

\* What an insertion makes of a table.
InsertsWell(T, e, R) ==
  /\ IsTable(R) /\ R.kind = T.kind /\ R.size >= T.size
  /\ e.value = 0 => R = T
  /\ e.value # 0 =>
       \A d \in Codepoints :
         Lookup(R, d) = IF d # e.codepoint THEN Lookup(T, d)
                        ELSE IF T.kind = "leaf" THEN (Lookup(T, d) + e.value) % CountMax
                        ELSE e.value
  /\ T.kind = "leaf" /\ Sound(T) /\ T.total + e.value < CountMax =>
       Sound(R) /\ R.total = T.total + e.value

\* No two of the first n entries are for the same codepoint.
Separate(entries, n) ==
  \A i, j \in 1..n :
    i # j /\ entries[i].value # 0 /\ entries[j].value # 0
      => entries[i].codepoint # entries[j].codepoint

\* A table holds the first n entries.
Holds(R, kind, entries, n) ==
  /\ \A i \in 1..n : entries[i].value # 0 =>
       Lookup(R, entries[i].codepoint) = Kept(kind, entries[i].value)
  /\ \A d \in Codepoints : Lookup(R, d) # 0 =>
       \E i \in 1..n : entries[i].value # 0 /\ entries[i].codepoint = d

\* What filling a table of a size with the first n entries makes.
FilledWell(kind, size, entries, n, R) ==
  /\ IsTable(R) /\ R.kind = kind /\ R.size >= size
  /\ kind = "leaf" /\ Sums(entries)[n] < CountMax => Sound(R) /\ R.total = Sums(entries)[n]
  /\ Separate(entries, n) => Holds(R, kind, entries, n)

\* All tables from a size on are filled well.
FillsFrom(filled, kind, size) ==
  \A s \in size..24 : \A entries \in Seq(AnyEntry) :
    FilledWell(kind, s, entries, Len(entries), filled[s][entries])

LEMMA KeptFacts ==
  ASSUME NEW kind, NEW v \in Nat
  PROVE  /\ Kept(kind, v) \in Nat
         /\ kind = "leaf" => Kept(kind, v) = (0 + v) % CountMax
         /\ kind # "leaf" => Kept(kind, v) = v
         /\ (kind = "leaf" => v < CountMax) => Kept(kind, v) = v
<1>1. PICK m \in Nat \ {0} : m = CountMax
  BY CountMaxFacts
<1>2. v % m \in Nat /\ (v < m => v % m = v) /\ 0 + v = v
  BY Remainder
<1> QED
  BY <1>1, <1>2 DEF Kept

\* What is added to all slots of a table whose slot for it is taken is separate from them.
LEMMA AppendedEntries ==
  ASSUME NEW T, IsTable(T), NEW e \in AnyEntry
  PROVE  LET more == Append(Entries(T), e)
             n == Capacity(T)
         IN  /\ more \in Seq(AnyEntry) /\ Len(more) = n + 1 /\ n \in Nat
             /\ more[n + 1] = e
             /\ \A i \in 1..n : more[i] = Entries(T)[i]
             /\ Sums(more)[n + 1] = Sums(Entries(T))[n] + e.value
             /\ Lookup(T, e.codepoint) = 0 => Separate(more, n + 1)
<1>1. PICK a \in Seq(AnyEntry) : a = Entries(T)
  BY EntriesAre
<1>2. PICK n \in Nat : n = Capacity(T)
  BY TableHas
<1>3. Len(a) = n
  BY <1>1, <1>2, EntriesAre
<1>4. PICK more : more = Append(a, e)
  OBVIOUS
<1>5. PICK m : m = n + 1
  OBVIOUS
<1>6. more \in Seq(AnyEntry) /\ Len(more) = m /\ more[m] = e /\ \A i \in 1..n : more[i] = a[i]
  BY <1>3, <1>4, <1>5
<1>7. Sums(more)[m] = Sums(a)[n] + e.value
  <2>1. MoreAt(0, 0, more, a, n)
    <3> SUFFICES ASSUME NEW i \in 1..n
                 PROVE  more[i].value = a[i].value + (IF i = 0 THEN 0 ELSE 0)
      BY DEF MoreAt
    <3>1. a[i].value \in Nat
      BY <1>3, EntryHas
    <3> QED
      BY <1>6, <3>1
  <2>2. n <= Len(a) /\ n <= Len(more) /\ 0 \in Nat /\ n \in 0..n
    BY <1>3, <1>5, <1>6
  <2>3. \A k \in 0..n : Sums(more)[k] = Sums(a)[k] + (IF 1 <= 0 /\ 0 <= k THEN 0 ELSE 0)
    BY <1>6, <2>1, <2>2, SumsDiffer
  <2>4. Sums(a)[n] \in Nat
    BY <1>3, <2>2, SumsAre
  <2>5. Sums(more)[n] = Sums(a)[n]
    BY <2>2, <2>3, <2>4
  <2>6. m \in 1..Len(more) /\ m - 1 = n
    BY <1>5, <1>6
  <2> QED
    BY <1>6, <2>5, <2>6, SumsAre
<1>8. ASSUME Lookup(T, e.codepoint) = 0 PROVE Separate(more, m)
  <2> SUFFICES ASSUME NEW i \in 1..m, NEW j \in 1..m, i # j,
                      more[i].value # 0, more[j].value # 0,
                      more[i].codepoint = more[j].codepoint
               PROVE  FALSE
    BY DEF Separate
  <2>1. \A k \in 1..m : k # m => k \in 1..n
    BY <1>5
  <2>2. ASSUME NEW k \in 1..n, more[k].value # 0
        PROVE  /\ Slot(T, more[k].codepoint) = k - 1
               /\ Lookup(T, more[k].codepoint) = more[k].value
    BY <1>1, <1>2, <1>6, <2>2, EntriesTell
  <2>3. CASE i = m
    <3>1. j \in 1..n /\ more[j].codepoint = e.codepoint
      BY <1>6, <2>1, <2>3
    <3> QED
      BY <1>8, <2>2, <3>1
  <2>4. CASE j = m
    <3>1. i \in 1..n /\ more[i].codepoint = e.codepoint
      BY <1>6, <2>1, <2>4
    <3> QED
      BY <1>8, <2>2, <3>1
  <2>5. CASE i # m /\ j # m
    <3>1. i \in 1..n /\ j \in 1..n
      BY <2>1, <2>5
    <3>2. i - 1 = j - 1
      BY <2>2, <3>1
    <3> QED
      BY <3>1, <3>2
  <2> QED
    BY <2>3, <2>4, <2>5
<1> QED
  BY <1>1, <1>2, <1>4, <1>5, <1>6, <1>7, <1>8

LEMMA InsertedByIs ==
  ASSUME NEW T, IsTable(T), NEW e \in AnyEntry, NEW filled, FillsFrom(filled, T.kind, T.size + 1)
  PROVE  InsertsWell(T, e, InsertedBy(filled, T, e))
<1>1. PICK c, w : c = e.codepoint /\ w = e.value
  OBVIOUS
<1>2. c \in Codepoints /\ w \in Nat
  BY <1>1, EntryHas
<1>3. T.kind \in {"node", "leaf"} /\ T.size \in 1..24 /\ T.total \in Nat
  BY TableHas
<1>4. PICK R : R = InsertedBy(filled, T, e)
  OBVIOUS
<1>5. CASE w = 0
  <2>1. R = T
    BY <1>1, <1>4, <1>5 DEF InsertedBy
  <2>2. T.total + w = T.total
    BY <1>3, <1>5
  <2> QED
    BY <1>1, <1>3, <1>4, <1>5, <2>1, <2>2 DEF InsertsWell
<1>6. CASE w # 0 /\ ~Taken(T, c)
  <2>1. R = Put(T, e)
    BY <1>1, <1>4, <1>6 DEF InsertedBy
  <2>2. /\ IsTable(R) /\ R.kind = T.kind /\ R.size = T.size
        /\ T.kind = "leaf" => R.total = T.total + w
        /\ \A d \in Codepoints :
             Lookup(R, d) = IF d # c THEN Lookup(T, d)
                            ELSE IF T.kind = "leaf" THEN (Lookup(T, c) + w) % CountMax
                            ELSE w
        /\ T.kind = "leaf" /\ Sound(T) /\ T.total + w < CountMax => Sound(R)
    BY <1>1, <1>6, <2>1, PutIs
  <2>3. R.size >= T.size
    BY <1>3, <2>2
  <2> QED
    BY <1>1, <1>4, <1>6, <2>2, <2>3 DEF InsertsWell
<1>7. CASE w # 0 /\ Taken(T, c)
  <2>1. PICK more, n : more = Append(Entries(T), e) /\ n = Capacity(T)
    OBVIOUS
  <2>2. PICK m : m = n + 1
    OBVIOUS
  <2>3. Lookup(T, c) = 0
    BY <1>2, <1>7, LookupHas
  <2>4. /\ more \in Seq(AnyEntry) /\ Len(more) = m /\ n \in Nat
        /\ more[m] = e
        /\ \A i \in 1..n : more[i] = Entries(T)[i]
        /\ Sums(more)[m] = Sums(Entries(T))[n] + w
        /\ Separate(more, m)
    BY <1>1, <2>1, <2>2, <2>3, AppendedEntries
  <2>5. T.size < 19
    BY <1>2, <1>3, <1>7, RoomForAll
  <2>6. PICK s \in 2..24 : s = T.size + 1
    BY <1>3, <2>5
  <2>7. R = filled[s][more]
    BY <1>1, <1>4, <1>7, <2>1, <2>6 DEF InsertedBy
  <2>8. FilledWell(T.kind, s, more, m, R)
    <3>1. s \in s..24
      OBVIOUS
    <3> QED
      BY <2>4, <2>6, <2>7, <3>1 DEF FillsFrom
  <2>9. IsTable(R) /\ R.kind = T.kind /\ R.size >= T.size
    <3>1. IsTable(R) /\ R.kind = T.kind /\ R.size >= s
      BY <2>8 DEF FilledWell
    <3>2. R.size \in 1..24
      BY <3>1, TableHas
    <3> QED
      BY <1>3, <2>6, <3>1, <3>2
  <2>10. Holds(R, T.kind, more, m)
    BY <2>4, <2>8 DEF FilledWell
  <2>11. ASSUME NEW d \in Codepoints
         PROVE  Lookup(R, d) = IF d # c THEN Lookup(T, d)
                               ELSE IF T.kind = "leaf" THEN (Lookup(T, d) + w) % CountMax
                               ELSE w
    <3>1. CASE d = c
      <4>1. m \in 1..m /\ more[m].value # 0 /\ more[m].codepoint = c /\ more[m].value = w
        BY <1>1, <1>7, <2>2, <2>4
      <4>2. Lookup(R, c) = Kept(T.kind, w)
        BY <2>10, <4>1 DEF Holds
      <4> QED
        BY <1>2, <1>3, <2>3, <3>1, <4>2, KeptFacts
    <3>2. CASE d # c
      <4>1. CASE Lookup(T, d) # 0
        <5>1. PICK p : p = Slot(T, d) + 1
          OBVIOUS
        <5>2. PICK x : x = Lookup(T, d)
          OBVIOUS
        <5>3. p \in 1..n /\ Entries(T)[p] = Entry(d, x)
          BY <2>1, <4>1, <5>1, <5>2, EntriesTell
        <5>4. x \in Nat /\ x # 0 /\ (T.kind = "leaf" => x < CountMax)
          BY <4>1, <5>2, LookupHas
        <5>5. p \in 1..m /\ more[p] = Entry(d, x)
          BY <2>2, <2>4, <5>3
        <5>6. more[p].value = x /\ more[p].codepoint = d
          BY <5>4, <5>5, EntryIs
        <5>7. Lookup(R, d) = Kept(T.kind, x)
          BY <2>10, <5>4, <5>5, <5>6 DEF Holds
        <5> QED
          BY <3>2, <5>2, <5>4, <5>7, KeptFacts
      <4>2. CASE Lookup(T, d) = 0
        <5>1. ASSUME Lookup(R, d) # 0 PROVE FALSE
          <6>1. PICK i \in 1..m : more[i].value # 0 /\ more[i].codepoint = d
            BY <2>10, <5>1 DEF Holds
          <6>2. i # m
            BY <1>1, <2>4, <3>2, <6>1
          <6>3. i \in 1..n
            BY <2>2, <2>4, <6>2
          <6>4. Entries(T)[i].value # 0 /\ Entries(T)[i].codepoint = d
            BY <2>4, <6>1, <6>3
          <6> QED
            BY <2>1, <4>2, <6>3, <6>4, EntriesTell
        <5> QED
          BY <3>2, <4>2, <5>1
      <4> QED
        BY <4>1, <4>2
    <3> QED
      BY <3>1, <3>2
  <2>12. ASSUME T.kind = "leaf", Sound(T), T.total + w < CountMax
         PROVE  Sound(R) /\ R.total = T.total + w
    <3>1. Sums(more)[m] = T.total + w
      BY <2>1, <2>4, <2>12 DEF Sound
    <3> QED
      BY <2>8, <2>12, <3>1 DEF FilledWell
  <2> QED
    BY <1>1, <1>4, <1>7, <2>9, <2>11, <2>12 DEF InsertsWell
<1> QED
  BY <1>5, <1>6, <1>7

\* f is a table of a size and what inserting the first m entries makes of it.
FillsIn(f, m, filled, kind, size, entries) ==
  f = [n \in 0..m |-> IF n = 0 THEN NewTable(kind, size) ELSE InsertedBy(filled, f[n-1], entries[n])]

LEMMA FillFound ==
  ASSUME NEW filled, NEW kind, NEW size, NEW entries
  PROVE  \A m \in Nat : \E f : FillsIn(f, m, filled, kind, size, entries)
<1> DEFINE S == {m \in Nat : \E f : FillsIn(f, m, filled, kind, size, entries)}
<1>1. 0 \in S
  <2>1. PICK f : f = [n \in 0..0 |-> NewTable(kind, size)]
    OBVIOUS
  <2>2. \A n \in 0..0 :
          f[n] = IF n = 0 THEN NewTable(kind, size) ELSE InsertedBy(filled, f[n-1], entries[n])
    BY <2>1
  <2>3. FillsIn(f, 0, filled, kind, size, entries)
    BY <2>1, <2>2 DEF FillsIn
  <2> QED
    BY <2>3
<1>2. ASSUME NEW n \in Nat, n \in S PROVE n + 1 \in S
  <2>1. PICK m \in Nat : m = n + 1
    OBVIOUS
  <2>2. PICK f : FillsIn(f, n, filled, kind, size, entries)
    BY <1>2
  <2>3. PICK z : z = InsertedBy(filled, f[n], entries[m])
    OBVIOUS
  <2>4. PICK g : g = [k \in 0..m |-> IF k = m THEN z ELSE f[k]]
    OBVIOUS
  <2>5. ASSUME NEW k \in 0..m
        PROVE  g[k] = IF k = 0 THEN NewTable(kind, size) ELSE InsertedBy(filled, g[k-1], entries[k])
    <3>1. CASE k = 0
      <4>1. k # m /\ k \in 0..n
        BY <2>1, <3>1
      <4> QED
        BY <2>2, <2>4, <3>1, <4>1 DEF FillsIn
    <3>2. CASE k # 0
      <4>1. k - 1 \in 0..n /\ k - 1 \in 0..m /\ k - 1 # m
        BY <2>1, <3>2
      <4>2. g[k - 1] = f[k - 1]
        BY <2>4, <4>1
      <4>3. CASE k = m
        <5>1. k - 1 = n
          BY <2>1, <4>3
        <5> QED
          BY <2>3, <2>4, <3>2, <4>2, <4>3, <5>1
      <4>4. CASE k # m
        <5>1. k \in 0..n
          BY <2>1, <4>4
        <5>2. f[k] = InsertedBy(filled, f[k-1], entries[k])
          BY <2>2, <3>2, <5>1 DEF FillsIn
        <5> QED
          BY <2>4, <3>2, <4>2, <4>4, <5>2
      <4> QED
        BY <4>3, <4>4
    <3> QED
      BY <3>1, <3>2
  <2>6. g = [k \in 0..m |-> g[k]]
    BY <2>4
  <2>7. FillsIn(g, m, filled, kind, size, entries)
    BY <2>5, <2>6 DEF FillsIn
  <2> QED
    BY <2>1, <2>7
<1> HIDE DEF S
<1>3. \A n \in Nat : n \in S
  BY <1>1, <1>2, SetInduction
<1> QED
  BY <1>3 DEF S

\* One entry more.
LEMMA FilledMore ==
  ASSUME NEW kind \in {"node", "leaf"}, NEW size \in 1..24, NEW entries \in Seq(AnyEntry),
         NEW n \in 1..Len(entries), NEW T, FilledWell(kind, size, entries, n - 1, T),
         NEW R, InsertsWell(T, entries[n], R)
  PROVE  FilledWell(kind, size, entries, n, R)
<1>1. PICK k \in Nat : k = n - 1
  OBVIOUS
<1>2. PICK c, w : c = entries[n].codepoint /\ w = entries[n].value
  OBVIOUS
<1>3. c \in Codepoints /\ w \in Nat
  BY <1>2, EntryHas
<1>4. FilledWell(kind, size, entries, k, T)
  BY <1>1
<1>5. IsTable(R) /\ R.kind = kind /\ R.size >= size
  <2>1. IsTable(T) /\ T.kind = kind /\ T.size >= size
    BY <1>4 DEF FilledWell
  <2>2. IsTable(R) /\ R.kind = T.kind /\ R.size >= T.size
    BY DEF InsertsWell
  <2>3. PICK t \in 1..24 : t = T.size
    BY <2>1, TableHas
  <2>4. PICK r \in 1..24 : r = R.size
    BY <2>2, TableHas
  <2>5. r >= t /\ t >= size
    BY <2>1, <2>2, <2>3, <2>4
  <2>6. r >= size
    BY <2>5
  <2> QED
    BY <2>1, <2>2, <2>4, <2>6
<1>6. n \in 1..n /\ k + 1 = n /\ \A i \in 1..n : i # n => i \in 1..k
  BY <1>1
<1>7. ASSUME kind = "leaf", Sums(entries)[n] < CountMax
      PROVE  Sound(R) /\ R.total = Sums(entries)[n]
  <2>1. k \in 0..Len(entries) /\ n \in 1..Len(entries)
    BY <1>1
  <2>2. Sums(entries)[n] = Sums(entries)[k] + w /\ Sums(entries)[k] \in Nat
    BY <1>1, <1>2, <2>1, SumsAre
  <2>3. PICK x \in Nat : x = Sums(entries)[k]
    BY <2>2
  <2>4. x < CountMax /\ x + w < CountMax
    BY <1>3, <1>7, <2>2, <2>3, CountMaxFacts
  <2>5. Sound(T) /\ T.total = x /\ T.kind = "leaf"
    BY <1>4, <1>7, <2>3, <2>4 DEF FilledWell
  <2> QED
    BY <1>2, <2>2, <2>3, <2>4, <2>5 DEF InsertsWell
<1>8. ASSUME Separate(entries, n) PROVE Holds(R, kind, entries, n)
  <2>1. Separate(entries, k)
    BY <1>1, <1>8 DEF Separate
  <2>2. Holds(T, kind, entries, k)
    BY <1>4, <2>1 DEF FilledWell
  <2>3. CASE w = 0
    <3>1. R = T
      BY <1>2, <2>3 DEF InsertsWell
    <3>2. \A i \in 1..n : entries[i].value # 0 => i \in 1..k
      BY <1>2, <1>6, <2>3
    <3>3. \A i \in 1..k : i \in 1..n
      BY <1>1
    <3> QED
      BY <2>2, <3>1, <3>2, <3>3 DEF Holds
  <2>4. CASE w # 0
    <3>1. \A i \in 1..k : entries[i].value # 0 => entries[i].codepoint # c
      <4>1. \A i \in 1..k : i \in 1..n /\ i # n
        BY <1>1
      <4> QED
        BY <1>2, <1>6, <1>8, <2>4, <4>1 DEF Separate
    <3>2. Lookup(T, c) = 0
      BY <1>3, <2>2, <3>1 DEF Holds
    <3>3. T.kind = kind
      BY <1>4 DEF FilledWell
    <3>4. \A d \in Codepoints : Lookup(R, d) = IF d # c THEN Lookup(T, d) ELSE Kept(kind, w)
      <4> SUFFICES ASSUME NEW d \in Codepoints
                   PROVE  Lookup(R, d) = IF d # c THEN Lookup(T, d) ELSE Kept(kind, w)
        OBVIOUS
      <4>1. Lookup(R, d) = IF d # c THEN Lookup(T, d)
                           ELSE IF kind = "leaf" THEN (Lookup(T, d) + w) % CountMax
                           ELSE w
        BY <1>2, <2>4, <3>3 DEF InsertsWell
      <4> QED
        BY <1>3, <3>2, <4>1, KeptFacts
    <3>5. ASSUME NEW i \in 1..n, entries[i].value # 0
          PROVE  Lookup(R, entries[i].codepoint) = Kept(kind, entries[i].value)
      <4>1. CASE i = n
        BY <1>2, <1>3, <3>4, <4>1
      <4>2. CASE i # n
        <5>1. i \in 1..k /\ i \in 1..Len(entries)
          BY <1>1, <1>6, <4>2
        <5>2. entries[i].codepoint \in Codepoints
          BY <5>1, EntryHas
        <5> QED
          BY <2>2, <3>1, <3>4, <3>5, <5>1, <5>2 DEF Holds
      <4> QED
        BY <4>1, <4>2
    <3>6. ASSUME NEW d \in Codepoints, Lookup(R, d) # 0
          PROVE  \E i \in 1..n : entries[i].value # 0 /\ entries[i].codepoint = d
      <4>1. CASE d = c
        BY <1>2, <1>6, <2>4, <4>1
      <4>2. CASE d # c
        <5>1. Lookup(T, d) # 0
          BY <3>4, <3>6, <4>2
        <5>2. PICK i \in 1..k : entries[i].value # 0 /\ entries[i].codepoint = d
          BY <2>2, <5>1 DEF Holds
        <5>3. i \in 1..n
          BY <1>1
        <5> QED
          BY <5>2, <5>3
      <4> QED
        BY <4>1, <4>2
    <3> QED
      BY <3>5, <3>6 DEF Holds
  <2> QED
    BY <2>3, <2>4
<1> QED
  BY <1>5, <1>7, <1>8 DEF FilledWell

\* In an empty table the counts add up to zero.
LEMMA NewTableSound ==
  ASSUME NEW kind \in {"node", "leaf"}, NEW size \in 1..24
  PROVE  Sound(NewTable(kind, size))
<1>10. PICK T : T = NewTable(kind, size)
  OBVIOUS
<1>11. IsTable(T) /\ T.total = 0 /\ InUse(T) = {}
  <2>1. IsNew(NewTable(kind, size), kind, size)
    BY NewTableIs
  <2> QED
    BY <1>10, <2>1 DEF IsNew
<1>1. PICK n \in Nat \ {0} : n = Capacity(T)
  BY <1>11, TableHas
<1>2. PICK a \in Seq(AnyEntry) : a = Entries(T)
  BY <1>11, EntriesAre
<1>3. Len(a) = n /\ \A i \in 1..n : a[i].value = 0
  BY <1>11, <1>1, <1>2, EntriesAre, EntryIs, CodepointIsNat
<1>4. PICK g : g = Sums(a)
  OBVIOUS
<1>5. g[0] = 0 /\ \A i \in 1..n : g[i] = g[i-1] + a[i].value
  BY <1>3, <1>4, SumsAre
<1> DEFINE Z == {k \in Nat : k <= n => g[k] = 0}
<1>6. 0 \in Z
  BY <1>5
<1>7. ASSUME NEW k \in Nat, k \in Z PROVE k + 1 \in Z
  <2> SUFFICES ASSUME k + 1 <= n PROVE g[k + 1] = 0
    OBVIOUS
  <2>1. PICK i : i = k + 1
    OBVIOUS
  <2>2. i \in 1..n /\ i - 1 = k /\ g[k] = 0
    BY <1>7, <2>1
  <2> QED
    BY <1>3, <1>5, <2>1, <2>2
<1> HIDE DEF Z
<1>8. \A k \in Nat : k \in Z
  BY <1>6, <1>7, SetInduction
<1>9. g[n] = 0
  BY <1>8 DEF Z
<1> QED
  BY <1>10, <1>11, <1>1, <1>2, <1>4, <1>9 DEF Sound

LEMMA FillIs ==
  ASSUME NEW kind \in {"node", "leaf"}, NEW size \in 1..24, NEW entries \in Seq(AnyEntry),
         NEW filled, FillsFrom(filled, kind, size + 1),
         NEW f, FillsIn(f, Len(entries), filled, kind, size, entries)
  PROVE  \A n \in 0..Len(entries) : FilledWell(kind, size, entries, n, f[n])
<1>1. PICK m \in Nat : m = Len(entries)
  OBVIOUS
<1>2. f[0] = NewTable(kind, size) /\ \A n \in 1..m : f[n] = InsertedBy(filled, f[n-1], entries[n])
  BY <1>1 DEF FillsIn
<1> DEFINE S == {n \in Nat : n <= m => FilledWell(kind, size, entries, n, f[n])}
<1>3. 0 \in S
  <2>1. PICK T : T = NewTable(kind, size)
    OBVIOUS
  <2>2. /\ IsTable(T) /\ T.kind = kind /\ T.size = size /\ T.total = 0 /\ InUse(T) = {}
        /\ \A c \in Codepoints : Lookup(T, c) = 0
    <3>1. IsNew(NewTable(kind, size), kind, size)
      BY NewTableIs
    <3> QED
      BY <2>1, <3>1 DEF IsNew
  <2>3. Sums(entries)[0] = 0
    BY SumsAre
  <2>4. Sound(T)
    BY <2>1, NewTableSound
  <2>5. FilledWell(kind, size, entries, 0, T)
    <3>1. Holds(T, kind, entries, 0)
      BY <2>2 DEF Holds
    <3>2. T.size >= size
      BY <2>2
    <3> QED
      BY <2>2, <2>3, <2>4, <3>1, <3>2 DEF FilledWell
  <2> QED
    BY <1>2, <2>1, <2>5
<1>4. ASSUME NEW k \in Nat, k \in S PROVE k + 1 \in S
  <2> SUFFICES ASSUME k + 1 <= m PROVE FilledWell(kind, size, entries, k + 1, f[k + 1])
    OBVIOUS
  <2>1. PICK n : n = k + 1
    OBVIOUS
  <2>2. n \in 1..Len(entries) /\ n - 1 = k
    BY <1>1, <2>1
  <2>3. PICK T : T = f[k]
    OBVIOUS
  <2>4. FilledWell(kind, size, entries, k, T)
    BY <1>1, <1>4, <2>1, <2>2, <2>3
  <2>5. IsTable(T) /\ T.kind = kind /\ T.size >= size
    BY <2>4 DEF FilledWell
  <2>6. entries[n] \in AnyEntry
    BY <2>2
  <2>7. FillsFrom(filled, T.kind, T.size + 1)
    <3>1. PICK z \in 1..24 : z = T.size
      BY <2>5, TableHas
    <3>2. z >= size
      BY <2>5, <3>1
    <3>3. \A s \in z+1..24 : s \in size+1..24
      BY <3>2
    <3> QED
      BY <2>5, <3>1, <3>3 DEF FillsFrom
  <2>8. InsertsWell(T, entries[n], InsertedBy(filled, T, entries[n]))
    BY <2>5, <2>6, <2>7, InsertedByIs
  <2>9. f[n] = InsertedBy(filled, T, entries[n])
    BY <1>1, <1>2, <2>2, <2>3
  <2>10. FilledWell(kind, size, entries, n, f[n])
    BY <2>2, <2>4, <2>8, <2>9, FilledMore
  <2> QED
    BY <2>1, <2>10
<1> HIDE DEF S
<1>5. \A n \in Nat : n \in S
  BY <1>3, <1>4, SetInduction
<1> QED
  BY <1>1, <1>5 DEF S

\* What entries become in a table of a size.
FillOf(filled, kind, size, entries) ==
  (CHOOSE f : FillsIn(f, Len(entries), filled, kind, size, entries))[Len(entries)]

\* The recursion that Filled is defined by.
FillsAll(filled, kind) ==
  filled = [size \in 1..Len(Sizes) |->
              [entries \in Seq(AnyEntry) |-> FillOf(filled, kind, size, entries)]]

LEMMA FilledChosen ==
  ASSUME NEW kind
  PROVE  Filled(kind) = CHOOSE filled : FillsAll(filled, kind)
BY DEF Filled, FillsAll, FillOf, FillsIn

LEMMA FillOfWell ==
  ASSUME NEW kind \in {"node", "leaf"}, NEW size \in 1..24, NEW entries \in Seq(AnyEntry),
         NEW filled, FillsFrom(filled, kind, size + 1)
  PROVE  FilledWell(kind, size, entries, Len(entries), FillOf(filled, kind, size, entries))
<1>1. PICK m \in Nat : m = Len(entries)
  OBVIOUS
<1>2. \E f : FillsIn(f, m, filled, kind, size, entries)
  BY FillFound
<1>3. PICK f : f = CHOOSE g : FillsIn(g, m, filled, kind, size, entries)
  OBVIOUS
<1>4. FillsIn(f, m, filled, kind, size, entries)
  BY <1>2, <1>3
<1>5. \A n \in 0..m : FilledWell(kind, size, entries, n, f[n])
  BY <1>1, <1>4, FillIs
<1> QED
  BY <1>1, <1>3, <1>5 DEF FillOf

\* It matters only what the larger tables become.
SameAbove(other, filled, size) == \A s \in size+1..24 : other[s] = filled[s]

LEMMA FillOfSame ==
  ASSUME NEW kind \in {"node", "leaf"}, NEW size \in 1..24, NEW entries \in Seq(AnyEntry),
         NEW filled, FillsFrom(filled, kind, size + 1),
         NEW other, SameAbove(other, filled, size)
  PROVE  FillOf(other, kind, size, entries) = FillOf(filled, kind, size, entries)
<1>1. PICK m \in Nat : m = Len(entries)
  OBVIOUS
<1>2. PICK f : f = CHOOSE g : FillsIn(g, m, filled, kind, size, entries)
  OBVIOUS
<1>3. PICK h : h = CHOOSE g : FillsIn(g, m, other, kind, size, entries)
  OBVIOUS
<1>4. FillsIn(f, m, filled, kind, size, entries)
  <2>1. \E g : FillsIn(g, m, filled, kind, size, entries)
    BY FillFound
  <2> QED
    BY <1>2, <2>1
<1>5. FillsIn(h, m, other, kind, size, entries)
  <2>1. \E g : FillsIn(g, m, other, kind, size, entries)
    BY FillFound
  <2> QED
    BY <1>3, <2>1
<1>6. \A n \in 0..m : FilledWell(kind, size, entries, n, f[n])
  BY <1>1, <1>4, FillIs
<1>7. /\ f[0] = NewTable(kind, size) /\ h[0] = NewTable(kind, size)
      /\ \A n \in 1..m : f[n] = InsertedBy(filled, f[n-1], entries[n])
                         /\ h[n] = InsertedBy(other, h[n-1], entries[n])
  BY <1>4, <1>5 DEF FillsIn
<1>8. ASSUME NEW T, IsTable(T), T.size >= size, NEW e \in AnyEntry
      PROVE  InsertedBy(other, T, e) = InsertedBy(filled, T, e)
  <2>1. CASE Taken(T, e.codepoint)
    <3>1. PICK t \in 1..24 : t = T.size
      BY <1>8, TableHas
    <3>2. t < 19
      BY <1>8, <2>1, <3>1, RoomForAll, EntryHas
    <3>3. t >= size
      BY <1>8, <3>1
    <3>4. t + 1 \in size+1..24
      BY <3>2, <3>3
    <3>5. other[T.size + 1] = filled[T.size + 1]
      BY <3>1, <3>4 DEF SameAbove
    <3> QED
      BY <3>5 DEF InsertedBy
  <2>2. CASE ~Taken(T, e.codepoint)
    BY <2>2 DEF InsertedBy
  <2> QED
    BY <2>1, <2>2
<1> DEFINE S == {n \in Nat : n <= m => h[n] = f[n]}
<1>9. 0 \in S
  BY <1>7
<1>10. ASSUME NEW k \in Nat, k \in S PROVE k + 1 \in S
  <2> SUFFICES ASSUME k + 1 <= m PROVE h[k + 1] = f[k + 1]
    OBVIOUS
  <2>1. PICK n : n = k + 1
    OBVIOUS
  <2>2. n \in 1..m /\ n - 1 = k /\ k \in 0..m /\ h[k] = f[k]
    BY <1>10, <2>1
  <2>3. entries[n] \in AnyEntry
    BY <1>1, <2>2
  <2>4. IsTable(f[k]) /\ f[k].size >= size
    BY <1>6, <2>2 DEF FilledWell
  <2>5. InsertedBy(other, f[k], entries[n]) = InsertedBy(filled, f[k], entries[n])
    BY <1>8, <2>3, <2>4
  <2> QED
    BY <1>7, <2>1, <2>2, <2>5
<1> HIDE DEF S
<1>11. \A n \in Nat : n \in S
  BY <1>9, <1>10, SetInduction
<1>12. h[m] = f[m]
  BY <1>11 DEF S
<1> QED
  BY <1>1, <1>2, <1>3, <1>12 DEF FillOf

\* The sizes from s on.
FilledDown(g, kind, s) ==
  /\ g = [r \in 1..24 |-> g[r]]
  /\ \A r \in s..24 : g[r] = [entries \in Seq(AnyEntry) |-> FillOf(g, kind, r, entries)]
  /\ FillsFrom(g, kind, s)

LEMMA FilledFound ==
  ASSUME NEW kind \in {"node", "leaf"}
  PROVE  \E g : FilledDown(g, kind, 1)
<1> DEFINE S == {k \in Nat : k <= 24 => \E g : FilledDown(g, kind, 25 - k)}
<1>1. 0 \in S
  <2>1. PICK g : g = [r \in 1..24 |-> 0]
    OBVIOUS
  <2>2. \A r \in 25..24 : FALSE
    OBVIOUS
  <2>3. FilledDown(g, kind, 25)
    BY <2>1, <2>2 DEF FilledDown, FillsFrom
  <2> QED
    BY <2>3
<1>2. ASSUME NEW k \in Nat, k \in S PROVE k + 1 \in S
  <2> SUFFICES ASSUME k + 1 <= 24 PROVE \E g : FilledDown(g, kind, 25 - (k + 1))
    OBVIOUS
  <2>1. PICK s \in 1..24 : s = 25 - (k + 1)
    <3>1. 25 - (k + 1) \in 1..24
      OBVIOUS
    <3> QED
      BY <3>1
  <2>2. 25 - k = s + 1
    BY <2>1
  <2>3. PICK g : FilledDown(g, kind, s + 1)
    BY <1>2, <2>2
  <2>4. PICK z : z = [entries \in Seq(AnyEntry) |-> FillOf(g, kind, s, entries)]
    OBVIOUS
  <2>5. PICK h : h = [r \in 1..24 |-> IF r = s THEN z ELSE g[r]]
    OBVIOUS
  <2>6. h[s] = z /\ \A r \in s+1..24 : h[r] = g[r]
    BY <2>5
  <2>7. ASSUME NEW r \in s..24, NEW entries \in Seq(AnyEntry)
        PROVE  FillOf(h, kind, r, entries) = FillOf(g, kind, r, entries)
    <3>1. FillsFrom(g, kind, r + 1)
      <4>1. \A t \in r+1..24 : t \in s+1..24
        OBVIOUS
      <4> QED
        BY <2>3, <4>1 DEF FilledDown, FillsFrom
    <3>2. SameAbove(h, g, r)
      BY <2>6 DEF SameAbove
    <3>3. r \in 1..24
      OBVIOUS
    <3> QED
      BY <3>1, <3>2, <3>3, FillOfSame
  <2>8. ASSUME NEW r \in s..24
        PROVE  h[r] = [entries \in Seq(AnyEntry) |-> FillOf(h, kind, r, entries)]
    <3>1. [entries \in Seq(AnyEntry) |-> FillOf(h, kind, r, entries)]
          = [entries \in Seq(AnyEntry) |-> FillOf(g, kind, r, entries)]
      BY <2>7
    <3>2. CASE r = s
      BY <2>4, <2>6, <3>1, <3>2
    <3>3. CASE r # s
      <4>1. r \in s+1..24
        BY <3>3
      <4>2. g[r] = [entries \in Seq(AnyEntry) |-> FillOf(g, kind, r, entries)]
        BY <2>3, <4>1 DEF FilledDown
      <4> QED
        BY <2>6, <3>1, <4>1, <4>2
    <3> QED
      BY <3>2, <3>3
  <2>9. FillsFrom(h, kind, s)
    <3> SUFFICES ASSUME NEW r \in s..24, NEW entries \in Seq(AnyEntry)
                 PROVE  FilledWell(kind, r, entries, Len(entries), h[r][entries])
      BY DEF FillsFrom
    <3>1. CASE r = s
      <4>1. h[r][entries] = FillOf(g, kind, s, entries)
        BY <2>4, <2>6, <3>1
      <4>2. FillsFrom(g, kind, s + 1)
        BY <2>3 DEF FilledDown
      <4> QED
        BY <3>1, <4>1, <4>2, FillOfWell
    <3>2. CASE r # s
      <4>1. r \in s+1..24
        BY <3>2
      <4> QED
        BY <2>3, <2>6, <4>1 DEF FilledDown, FillsFrom
    <3> QED
      BY <3>1, <3>2
  <2>10. h = [r \in 1..24 |-> h[r]]
    BY <2>5
  <2>11. FilledDown(h, kind, s)
    BY <2>8, <2>9, <2>10 DEF FilledDown
  <2> QED
    BY <2>1, <2>11
<1> HIDE DEF S
<1>3. \A k \in Nat : k \in S
  BY <1>1, <1>2, SetInduction
<1>4. 24 \in S /\ 24 <= 24 /\ 25 - 24 = 1
  BY <1>3
<1> QED
  BY <1>4 DEF S

LEMMA FilledIs ==
  ASSUME NEW kind \in {"node", "leaf"}
  PROVE  FillsFrom(Filled(kind), kind, 1)
<1>1. PICK g : FilledDown(g, kind, 1)
  BY FilledFound
<1>2. FillsAll(g, kind)
  <2>1. PICK z : z = [r \in 1..24 |-> [entries \in Seq(AnyEntry) |-> FillOf(g, kind, r, entries)]]
    OBVIOUS
  <2>2. g = [r \in 1..24 |-> g[r]]
    BY <1>1 DEF FilledDown
  <2>3. \A r \in 1..24 : g[r] = z[r]
    BY <1>1, <2>1 DEF FilledDown
  <2>4. z = [r \in 1..24 |-> z[r]]
    BY <2>1
  <2>5. g = z
    BY <2>2, <2>3, <2>4
  <2> QED
    BY <2>1, <2>5, SizesFacts DEF FillsAll
<1>3. PICK h : h = Filled(kind)
  OBVIOUS
<1>4. FillsAll(h, kind)
  <2>1. FillsAll(CHOOSE filled : FillsAll(filled, kind), kind)
    BY <1>2, Zenon
  <2>2. FillsAll(Filled(kind), kind)
    BY <2>1, FilledChosen
  <2> QED
    BY <1>3, <2>2
<1>5. \A r \in 1..24 : \A entries \in Seq(AnyEntry) : h[r][entries] = FillOf(h, kind, r, entries)
  <2>1. h = [size \in 1..24 |-> [entries \in Seq(AnyEntry) |-> FillOf(h, kind, size, entries)]]
    BY <1>4, SizesFacts DEF FillsAll
  <2>2. PICK z : z = [size \in 1..24 |->
                        [entries \in Seq(AnyEntry) |-> FillOf(h, kind, size, entries)]]
    OBVIOUS
  <2>3. h = z
    BY <2>1, <2>2, Zenon
  <2>4. \A r \in 1..24 : \A entries \in Seq(AnyEntry) : z[r][entries] = FillOf(h, kind, r, entries)
    BY <2>2
  <2> QED
    BY <2>3, <2>4
<1> DEFINE S == {k \in Nat : k <= 24 => FillsFrom(h, kind, 25 - k)}
<1>6. 0 \in S
  <2>1. \A r \in 25..24 : FALSE
    OBVIOUS
  <2>2. FillsFrom(h, kind, 25)
    BY <2>1 DEF FillsFrom
  <2> QED
    BY <2>2
<1>7. ASSUME NEW k \in Nat, k \in S PROVE k + 1 \in S
  <2> SUFFICES ASSUME k + 1 <= 24 PROVE FillsFrom(h, kind, 25 - (k + 1))
    OBVIOUS
  <2>1. PICK s \in 1..24 : s = 25 - (k + 1)
    <3>1. 25 - (k + 1) \in 1..24
      OBVIOUS
    <3> QED
      BY <3>1
  <2>2. 25 - k = s + 1
    BY <2>1
  <2>3. FillsFrom(h, kind, s + 1)
    BY <1>7, <2>2
  <2>4. FillsFrom(h, kind, s)
    <3> SUFFICES ASSUME NEW r \in s..24, NEW entries \in Seq(AnyEntry)
                 PROVE  FilledWell(kind, r, entries, Len(entries), h[r][entries])
      BY DEF FillsFrom
    <3>1. CASE r = s
      BY <1>5, <2>3, <3>1, FillOfWell
    <3>2. CASE r # s
      <4>1. r \in s+1..24
        BY <3>2
      <4> QED
        BY <2>3, <4>1 DEF FillsFrom
    <3> QED
      BY <3>1, <3>2
  <2> QED
    BY <2>1, <2>4
<1> HIDE DEF S
<1>8. \A k \in Nat : k \in S
  BY <1>6, <1>7, SetInduction
<1>9. 24 \in S /\ 24 <= 24 /\ 25 - 24 = 1
  BY <1>8
<1>10. FillsFrom(h, kind, 1)
  BY <1>9 DEF S
<1> QED
  BY <1>3, <1>10

\* passgen_markov_leaf_insert and passgen_markov_node_insert, through whatever growth:
\* nothing is lost or changed but what is inserted.
LEMMA InsertedIs ==
  ASSUME NEW T, IsTable(T), NEW e \in AnyEntry
  PROVE  InsertsWell(T, e, Inserted(T, e))
<1>1. T.kind \in {"node", "leaf"} /\ T.size \in 1..24
  BY TableHas
<1>2. FillsFrom(Filled(T.kind), T.kind, T.size + 1)
  <2>1. FillsFrom(Filled(T.kind), T.kind, 1)
    BY <1>1, FilledIs
  <2>2. \A s \in T.size+1..24 : s \in 1..24
    BY <1>1
  <2> QED
    BY <2>1, <2>2 DEF FillsFrom
<1> QED
  BY <1>2, InsertedByIs DEF Inserted

-----------------------------------------------------------------------------
(* Markov: the tree of tables.                                             *)

\* The tables at the addresses 1..n, each with the codepoints that lead to it: a child
\* has one more than its parent, every table but the root has a parent, no two have
\* the same, and the leaves are those at the depth of a context.
IsTree(M, P, n, depth) ==
  /\ n \in Nat \ {0} /\ DOMAIN M = 1..n
  /\ P \in [1..n -> Seq(Codepoints)] /\ P[1] = <<>>
  /\ \A a \in 1..n :
       /\ IsTable(M[a])
       /\ Len(P[a]) <= depth
       /\ M[a].kind = IF Len(P[a]) = depth THEN "leaf" ELSE "node"
       /\ Len(P[a]) # depth => \A c \in Codepoints : Lookup(M[a], c) # 0 =>
            Lookup(M[a], c) \in 2..n /\ P[Lookup(M[a], c)] = Append(P[a], c)
  /\ \A b \in 2..n : \E a \in 1..n : \E c \in Codepoints :
       Len(P[a]) # depth /\ Lookup(M[a], c) = b
  /\ \A a, b \in 1..n : P[a] = P[b] => a = b

\* Where an entry of a node leads.
LEMMA ChildIs ==
  ASSUME NEW n, NEW P, NEW M, NEW depth \in Nat, IsTree(M, P, n, depth),
         NEW a \in 1..n, Len(P[a]) # depth, NEW c \in Codepoints, Lookup(M[a], c) # 0
  PROVE  Lookup(M[a], c) \in 2..n /\ P[Lookup(M[a], c)] = Append(P[a], c)
BY DEF IsTree

LEMMA ChildFound ==
  ASSUME NEW n, NEW P, NEW M, NEW depth \in Nat, IsTree(M, P, n, depth),
         NEW a \in 1..n, Len(P[a]) # depth, NEW c \in Codepoints, NEW e, e = Lookup(M[a], c), e # 0
  PROVE  \E b \in 2..n : b = e /\ P[b] = Append(P[a], c)
BY ChildIs

\* A table is the child of one parent.
LEMMA OneParent ==
  ASSUME NEW n, NEW P, NEW M, NEW depth \in Nat, IsTree(M, P, n, depth),
         NEW a \in 1..n, Len(P[a]) # depth, NEW d \in Codepoints,
         NEW b \in 2..n, Lookup(M[a], d) = b,
         NEW at \in 1..n, NEW c \in Codepoints, P[b] = Append(P[at], c)
  PROVE  a = at /\ d = c
<1>1. b # 0
  <2>1. n \in Nat
    BY DEF IsTree
  <2> QED
    BY <2>1
<1>2. P[b] = Append(P[a], d)
  <2>1. \E e \in 2..n : e = b /\ P[e] = Append(P[a], d)
    BY <1>1, ChildFound
  <2> QED
    BY <2>1
<1>3. P[a] \in Seq(Codepoints) /\ P[at] \in Seq(Codepoints)
  BY DEF IsTree
<1>4. PICK p, q \in Seq(Codepoints) : p = P[a] /\ q = P[at]
  BY <1>3
<1>5. Append(p, d) = Append(q, c)
  BY <1>2, <1>4
<1>6. p = q /\ d = c
  BY <1>5, AppendInjective
<1> QED
  BY <1>4, <1>6 DEF IsTree

\* Tables that hold the same make the same tree.
LEMMA TreeSame ==
  ASSUME NEW n, NEW P, NEW M, NEW depth \in Nat, IsTree(M, P, n, depth),
         NEW N, DOMAIN N = 1..n,
         \A a \in 1..n : IsTable(N[a]) /\ N[a].kind = M[a].kind,
         \A a \in 1..n : Len(P[a]) # depth => \A c \in Codepoints : Lookup(N[a], c) = Lookup(M[a], c)
  PROVE  IsTree(N, P, n, depth)
<1>1. /\ n \in Nat \ {0}
      /\ P \in [1..n -> Seq(Codepoints)] /\ P[1] = <<>>
      /\ \A a, b \in 1..n : P[a] = P[b] => a = b
  BY DEF IsTree
<1>2. ASSUME NEW a \in 1..n
      PROVE  /\ IsTable(N[a])
             /\ Len(P[a]) <= depth
             /\ N[a].kind = IF Len(P[a]) = depth THEN "leaf" ELSE "node"
             /\ Len(P[a]) # depth => \A c \in Codepoints : Lookup(N[a], c) # 0 =>
                  Lookup(N[a], c) \in 2..n /\ P[Lookup(N[a], c)] = Append(P[a], c)
  <2>1. ASSUME Len(P[a]) # depth, NEW c \in Codepoints, Lookup(N[a], c) # 0
        PROVE  Lookup(N[a], c) \in 2..n /\ P[Lookup(N[a], c)] = Append(P[a], c)
    <3>1. Lookup(N[a], c) = Lookup(M[a], c)
      BY <2>1
    <3>2. Lookup(M[a], c) # 0
      BY <2>1, <3>1
    <3> QED
      BY <2>1, <3>1, <3>2, ChildIs
  <2>2. /\ IsTable(N[a]) /\ Len(P[a]) <= depth
        /\ N[a].kind = IF Len(P[a]) = depth THEN "leaf" ELSE "node"
    BY DEF IsTree
  <2> QED
    BY <2>1, <2>2
<1>3. ASSUME NEW b \in 2..n
      PROVE  \E a \in 1..n : \E c \in Codepoints : Len(P[a]) # depth /\ Lookup(N[a], c) = b
  <2>1. PICK a \in 1..n, c \in Codepoints : Len(P[a]) # depth /\ Lookup(M[a], c) = b
    BY DEF IsTree
  <2> QED
    BY <2>1
<1> QED
  BY <1>1, <1>2, <1>3 DEF IsTree

LEMMA Longer ==
  ASSUME NEW p \in Seq(Codepoints), NEW c \in Codepoints
  PROVE  /\ Append(p, c) \in Seq(Codepoints)
         /\ Len(Append(p, c)) = Len(p) + 1
         /\ \A i \in 1..Len(p) : Append(p, c)[i] = p[i]
         /\ Append(p, c)[Len(p) + 1] = c
         /\ Append(p, c) # <<>>
BY AppendProperties

\* A table more, which a parent has got an entry for.
HasChild(M, P, n, depth, at, c, N, Q, m) ==
  /\ m = n + 1 /\ DOMAIN N = 1..m
  /\ Q = [a \in 1..m |-> IF a = m THEN Append(P[at], c) ELSE P[a]]
  /\ \A a \in 1..n : IsTable(N[a]) /\ N[a].kind = M[a].kind
  /\ \A a \in 1..n : a # at => \A d \in Codepoints : Lookup(N[a], d) = Lookup(M[a], d)
  /\ \A d \in Codepoints : Lookup(N[at], d) = IF d = c THEN m ELSE Lookup(M[at], d)
  /\ IsTable(N[m]) /\ N[m].kind = IF Len(P[at]) + 1 = depth THEN "leaf" ELSE "node"
  /\ \A d \in Codepoints : Lookup(N[m], d) = 0

LEMMA TreeMore ==
  ASSUME NEW n, NEW P, NEW M, NEW depth \in Nat, IsTree(M, P, n, depth),
         NEW at \in 1..n, Len(P[at]) # depth, NEW c \in Codepoints, Lookup(M[at], c) = 0,
         NEW N, NEW Q, NEW m \in Nat, HasChild(M, P, n, depth, at, c, N, Q, m)
  PROVE  IsTree(N, Q, m, depth)
<1>11. m = n + 1 /\ DOMAIN N = 1..m /\ Q = [a \in 1..m |-> IF a = m THEN Append(P[at], c) ELSE P[a]]
  BY DEF HasChild
<1>12. /\ \A a \in 1..n : IsTable(N[a]) /\ N[a].kind = M[a].kind
       /\ \A a \in 1..n : a # at => \A d \in Codepoints : Lookup(N[a], d) = Lookup(M[a], d)
       /\ \A d \in Codepoints : Lookup(N[at], d) = IF d = c THEN m ELSE Lookup(M[at], d)
  BY DEF HasChild
<1>13. /\ IsTable(N[m]) /\ N[m].kind = IF Len(P[at]) + 1 = depth THEN "leaf" ELSE "node"
       /\ \A d \in Codepoints : Lookup(N[m], d) = 0
  BY DEF HasChild
<1>1. n \in Nat \ {0} /\ m = n + 1 /\ m \in Nat \ {0} /\ (\A a \in 1..m : a # m => a \in 1..n)
      /\ (\A a \in 1..n : a \in 1..m /\ a # m)
  <2>1. n \in Nat \ {0} /\ m = n + 1
    BY <1>11 DEF IsTree
  <2> QED
    BY <2>1
<1>2. \A a \in 1..n : P[a] \in Seq(Codepoints) /\ Len(P[a]) \in Nat /\ Len(P[a]) <= depth
  BY LenProperties DEF IsTree
<1>3. PICK q \in Seq(Codepoints) : q = Append(P[at], c)
  BY <1>2, Longer
<1>4. Len(q) = Len(P[at]) + 1 /\ Len(q) <= depth /\ q # <<>>
  BY <1>2, <1>3, Longer
<1>5. Q[m] = q /\ \A a \in 1..n : Q[a] = P[a]
  BY <1>1, <1>3, <1>11
<1>6. \A a \in 1..n : P[a] # q
  <2> SUFFICES ASSUME NEW b \in 1..n, P[b] = q PROVE FALSE
    OBVIOUS
  <2>1. b \in 2..n
    BY <1>1, <1>4 DEF IsTree
  <2>2. PICK a \in 1..n, d \in Codepoints : Len(P[a]) # depth /\ Lookup(M[a], d) = b
    BY <2>1 DEF IsTree
  <2>3. a = at /\ d = c
    BY <1>3, <2>1, <2>2, OneParent
  <2> QED
    BY <2>1, <2>2, <2>3
<1>7. DOMAIN N = 1..m /\ Q \in [1..m -> Seq(Codepoints)] /\ Q[1] = <<>>
  <2>1. 1 \in 1..n /\ P[1] = <<>>
    BY <1>1 DEF IsTree
  <2>2. \A a \in 1..m : Q[a] \in Seq(Codepoints)
    BY <1>1, <1>2, <1>3, <1>5
  <2>3. DOMAIN Q = 1..m /\ Q = [a \in 1..m |-> Q[a]]
    BY <1>11
  <2> QED
    BY <1>5, <1>11, <2>1, <2>2, <2>3
<1>8. ASSUME NEW a \in 1..m
      PROVE  /\ IsTable(N[a])
             /\ Len(Q[a]) <= depth
             /\ N[a].kind = IF Len(Q[a]) = depth THEN "leaf" ELSE "node"
             /\ Len(Q[a]) # depth => \A d \in Codepoints : Lookup(N[a], d) # 0 =>
                  Lookup(N[a], d) \in 2..m /\ Q[Lookup(N[a], d)] = Append(Q[a], d)
  <2>1. CASE a = m
    BY <1>4, <1>5, <1>13, <2>1
  <2>2. CASE a # m
    <3>1. a \in 1..n /\ Q[a] = P[a]
      BY <1>1, <1>5, <2>2
    <3>2. /\ IsTable(N[a]) /\ Len(P[a]) <= depth
          /\ N[a].kind = IF Len(P[a]) = depth THEN "leaf" ELSE "node"
      BY <1>12, <3>1 DEF IsTree
    <3>3. ASSUME Len(P[a]) # depth, NEW d \in Codepoints, Lookup(N[a], d) # 0
          PROVE  Lookup(N[a], d) \in 2..m /\ Q[Lookup(N[a], d)] = Append(P[a], d)
      <4>1. CASE a = at /\ d = c
        <5>1. Lookup(N[a], d) = m
          BY <1>12, <4>1
        <5>2. m \in 2..m
          BY <1>1
        <5> QED
          BY <1>3, <1>5, <4>1, <5>1, <5>2
      <4>2. CASE ~(a = at /\ d = c)
        <5>1. Lookup(N[a], d) = Lookup(M[a], d)
          BY <1>12, <3>1, <4>2
        <5>2. PICK b \in 2..n : b = Lookup(M[a], d) /\ P[b] = Append(P[a], d)
          <6>1. \E e : e = Lookup(M[a], d) /\ e # 0
            BY <3>3, <5>1
          <6> QED
            BY <3>1, <3>3, <6>1, ChildFound
        <5>3. b \in 2..m /\ b \in 1..n
          BY <1>1
        <5> QED
          BY <1>5, <5>1, <5>2, <5>3
      <4> QED
        BY <4>1, <4>2
    <3> QED
      BY <3>1, <3>2, <3>3
  <2> QED
    BY <2>1, <2>2
<1>9. ASSUME NEW b \in 2..m
      PROVE  \E a \in 1..m : \E d \in Codepoints : Len(Q[a]) # depth /\ Lookup(N[a], d) = b
  <2>1. CASE b = m
    BY <1>1, <1>5, <1>12, <2>1
  <2>2. CASE b # m
    <3>1. b \in 2..n /\ b # 0
      BY <1>1, <2>2
    <3>2. PICK a \in 1..n, d \in Codepoints : Len(P[a]) # depth /\ Lookup(M[a], d) = b
      BY <1>12, <3>1 DEF IsTree
    <3>3. ~(a = at /\ d = c)
      BY <3>1, <3>2
    <3>4. Lookup(N[a], d) = b
      BY <1>12, <3>2, <3>3
    <3> QED
      BY <1>1, <1>5, <3>2, <3>4
  <2> QED
    BY <2>1, <2>2
<1>10. ASSUME NEW a \in 1..m, NEW b \in 1..m, Q[a] = Q[b] PROVE a = b
  <2>1. CASE a = m \/ b = m
    BY <1>1, <1>5, <1>6, <1>10, <2>1
  <2>2. CASE a # m /\ b # m
    <3>1. a \in 1..n /\ b \in 1..n /\ P[a] = P[b]
      BY <1>1, <1>5, <1>10, <2>2
    <3> QED
      BY <3>1 DEF IsTree
  <2> QED
    BY <2>1, <2>2
<1> QED
  BY <1>1, <1>7, <1>8, <1>9, <1>10 DEF IsTree

-----------------------------------------------------------------------------
(* Markov: the way down.                                                   *)

\* Of the leaves of a tree that grew, the old ones are as before and the new ones empty.
Grows(M, P, n, N, Q, m, depth) ==
  /\ n <= m
  /\ \A a \in 1..n : Q[a] = P[a] /\ (Len(P[a]) = depth => N[a] = M[a])
  /\ \A a \in n+1..m : Len(Q[a]) = depth => N[a] = NewTable("leaf", 1)

LEMMA GrowsOn ==
  ASSUME NEW n \in Nat, NEW P, NEW M, NEW m \in Nat, NEW Q, NEW N, NEW k \in Nat, NEW R, NEW O,
         NEW depth \in Nat, Grows(M, P, n, N, Q, m, depth), Grows(N, Q, m, O, R, k, depth)
  PROVE  Grows(M, P, n, O, R, k, depth)
<1>1. n <= k
  BY DEF Grows
<1>2. ASSUME NEW a \in 1..n PROVE R[a] = P[a] /\ (Len(P[a]) = depth => O[a] = M[a])
  <2>1. a \in 1..m
    BY DEF Grows
  <2>2. Q[a] = P[a] /\ R[a] = Q[a]
    BY <2>1 DEF Grows
  <2>3. ASSUME Len(P[a]) = depth PROVE O[a] = M[a]
    <3>1. N[a] = M[a]
      BY <2>3 DEF Grows
    <3>2. Len(Q[a]) = depth
      BY <2>2, <2>3
    <3>3. O[a] = N[a]
      BY <2>1, <3>2 DEF Grows
    <3> QED
      BY <3>1, <3>3
  <2> QED
    BY <2>2, <2>3
<1>3. ASSUME NEW a \in n+1..k, Len(R[a]) = depth PROVE O[a] = NewTable("leaf", 1)
  <2>1. CASE a \in m+1..k
    BY <1>3, <2>1 DEF Grows
  <2>2. CASE a \notin m+1..k
    <3>1. a \in 1..m /\ a \in n+1..m
      BY <2>2
    <3>2. R[a] = Q[a]
      BY <3>1 DEF Grows
    <3>3. Len(Q[a]) = depth
      BY <1>3, <3>2
    <3>4. N[a] = NewTable("leaf", 1) /\ O[a] = N[a]
      BY <3>1, <3>3 DEF Grows
    <3> QED
      BY <3>4
  <2> QED
    BY <2>1, <2>2
<1> QED
  BY <1>1, <1>2, <1>3 DEF Grows

\* A memory that grew, and the address of the table that codepoints lead to in it.
LeadsTo(M, P, n, depth, N, at, p) ==
  \E m : \E Q :
    /\ IsTree(N, Q, m, depth) /\ Grows(M, P, n, N, Q, m, depth)
    /\ at \in 1..m /\ Q[at] = p

\* passgen_markov_node_insert_word, one node down.
LEMMA DownIs ==
  ASSUME NEW n, NEW P, NEW M, NEW depth \in Nat, IsTree(M, P, n, depth),
         NEW at \in 1..n, Len(P[at]) # depth, NEW c \in Codepoints,
         NEW kind, kind = IF Len(P[at]) + 1 = depth THEN "leaf" ELSE "node"
  PROVE  LeadsTo(M, P, n, depth, Down(M, at, c, kind).memory, Down(M, at, c, kind).at, Append(P[at], c))
<1>1. n \in Nat \ {0} /\ DOMAIN M = 1..n
  BY DEF IsTree
<1>2. IsTable(M[at]) /\ M[at].kind = "node"
  BY DEF IsTree
<1>3. kind \in {"node", "leaf"}
  OBVIOUS
<1>4. PICK old : old = Lookup(M[at], c)
  OBVIOUS
<1>5. PICK child : child = ChildOf(M, at, c)
  OBVIOUS
<1>6. child = IF old = 0 THEN n + 1 ELSE old
  <2>1. Cardinality(DOMAIN M) = n
    <3>1. Cardinality(1..n) = n
      BY <1>1, FS_Interval
    <3> QED
      BY <1>1, <3>1
  <2>2. old # 0 => Value(M[at], c) = old /\ ~Taken(M[at], c)
    BY <1>2, <1>4, LookupHas
  <2>3. old = 0 => Taken(M[at], c) \/ Value(M[at], c) = 0
    BY <1>2, <1>4, LookupHas
  <2> QED
    BY <1>5, <2>1, <2>2, <2>3 DEF ChildOf
<1>7. old # 0 => old \in 2..n /\ P[old] = Append(P[at], c)
  BY <1>4, ChildFound
<1>8. child \in Nat \ {0}
  BY <1>1, <1>6, <1>7
<1>9. PICK R : R = Inserted(M[at], Entry(c, child))
  OBVIOUS
<1>10. /\ IsTable(R) /\ R.kind = M[at].kind
       /\ \A d \in Codepoints : Lookup(R, d) = IF d = c THEN child ELSE Lookup(M[at], d)
  <2>1. Entry(c, child) \in AnyEntry /\ Entry(c, child).codepoint = c /\ Entry(c, child).value = child
    BY <1>8, EntryIs
  <2>2. InsertsWell(M[at], Entry(c, child), R)
    BY <1>2, <1>9, <2>1, InsertedIs
  <2>3. child # 0 /\ M[at].kind # "leaf"
    BY <1>2, <1>8
  <2> QED
    BY <2>1, <2>2, <2>3 DEF InsertsWell
<1>11. PICK parent : parent = With(M, at, R)
  OBVIOUS
<1>12. DOMAIN parent = 1..n /\ parent[at] = R /\ \A b \in 1..n : b # at => parent[b] = M[b]
  <2>1. DOMAIN M \union {at} = 1..n
    BY <1>1
  <2> QED
    BY <1>1, <1>11, <2>1 DEF With
<1>13. \A a \in 1..n : IsTable(parent[a]) /\ parent[a].kind = M[a].kind
  BY <1>2, <1>10, <1>12 DEF IsTree
<1>14. \A a \in 1..n : a # at => \A d \in Codepoints : Lookup(parent[a], d) = Lookup(M[a], d)
  BY <1>12
<1>15. \A d \in Codepoints : Lookup(parent[at], d) = IF d = c THEN child ELSE Lookup(M[at], d)
  BY <1>10, <1>12
<1>16. PICK D : D = Down(M, at, c, kind)
  OBVIOUS
<1>17. D.at = child
       /\ D.memory = IF child \in DOMAIN M THEN parent ELSE With(parent, child, NewTable(kind, 1))
  BY <1>5, <1>9, <1>11, <1>16 DEF Down
<1>18. CASE old # 0
  <2>1. child = old /\ child \in 2..n /\ child \in 1..n /\ P[child] = Append(P[at], c)
    BY <1>1, <1>6, <1>7, <1>18
  <2>2. D.memory = parent
    BY <1>1, <1>17, <2>1
  <2>3. \A a \in 1..n : Len(P[a]) # depth => \A d \in Codepoints : Lookup(parent[a], d) = Lookup(M[a], d)
    BY <1>4, <1>14, <1>15, <2>1
  <2>4. IsTree(parent, P, n, depth)
    BY <1>12, <1>13, <2>3, TreeSame
  <2>5. Grows(M, P, n, parent, P, n, depth)
    <3>1. \A a \in n+1..n : FALSE
      BY <1>1
    <3> QED
      BY <1>1, <1>12, <3>1 DEF Grows
  <2> QED
    BY <1>16, <1>17, <2>1, <2>2, <2>4, <2>5 DEF LeadsTo
<1>19. CASE old = 0
  <2>1. child = n + 1 /\ child \notin 1..n
    BY <1>1, <1>6, <1>19
  <2>2. PICK N : N = With(parent, child, NewTable(kind, 1))
    OBVIOUS
  <2>3. D.memory = N
    BY <1>1, <1>17, <2>1, <2>2
  <2>4. PICK m \in Nat : m = n + 1
    BY <1>1
  <2>5. DOMAIN N = 1..m /\ N[m] = NewTable(kind, 1) /\ \A b \in 1..n : N[b] = parent[b]
    <3>1. 1..n \union {m} = 1..m
      BY <1>1, <2>4
    <3>2. DOMAIN N = DOMAIN parent \union {m} /\ N[m] = NewTable(kind, 1)
          /\ \A b \in DOMAIN parent : b # m => N[b] = parent[b]
      BY <2>1, <2>2, <2>4 DEF With
    <3> QED
      BY <1>12, <2>1, <2>4, <3>1, <3>2
  <2>6. \A a \in 1..n : IsTable(N[a]) /\ N[a].kind = M[a].kind
    BY <1>13, <2>5
  <2>7. \A a \in 1..n : a # at => \A d \in Codepoints : Lookup(N[a], d) = Lookup(M[a], d)
    BY <1>14, <2>5
  <2>8. \A d \in Codepoints : Lookup(N[at], d) = IF d = c THEN m ELSE Lookup(M[at], d)
    BY <1>15, <2>1, <2>4, <2>5
  <2>9. IsTable(N[m]) /\ N[m].kind = kind /\ \A d \in Codepoints : Lookup(N[m], d) = 0
    <3>1. IsNew(NewTable(kind, 1), kind, 1)
      BY <1>3, NewTableIs
    <3>2. N[m] = NewTable(kind, 1)
      BY <2>5
    <3> QED
      BY <3>1, <3>2 DEF IsNew
  <2>10. PICK Q : Q = [a \in 1..m |-> IF a = m THEN Append(P[at], c) ELSE P[a]]
    OBVIOUS
  <2>11. Lookup(M[at], c) = 0
    BY <1>4, <1>19
  <2>12. IsTree(N, Q, m, depth)
    <3>1. HasChild(M, P, n, depth, at, c, N, Q, m)
      BY <2>4, <2>5, <2>6, <2>7, <2>8, <2>9, <2>10 DEF HasChild
    <3> QED
      BY <2>11, <3>1, TreeMore
  <2>13. Q[m] = Append(P[at], c) /\ \A a \in 1..n : Q[a] = P[a]
    BY <1>1, <2>4, <2>10
  <2>14. Len(Q[m]) = Len(P[at]) + 1
    <3>1. P[at] \in Seq(Codepoints)
      BY DEF IsTree
    <3> QED
      BY <2>13, <3>1, Longer
  <2>15. Grows(M, P, n, N, Q, m, depth)
    <3>1. n <= m /\ \A a \in n+1..m : a = m
      BY <1>1, <2>4
    <3>2. ASSUME NEW a \in 1..n, Len(P[a]) = depth PROVE N[a] = M[a]
      <4>1. a # at
        BY <3>2
      <4> QED
        BY <1>12, <2>5, <4>1
    <3>3. Len(Q[m]) = depth => N[m] = NewTable("leaf", 1)
      BY <2>5, <2>14
    <3> QED
      BY <2>13, <3>1, <3>2, <3>3 DEF Grows
  <2>16. child = m /\ m \in 1..m
    BY <1>1, <2>1, <2>4
  <2> QED
    BY <1>16, <1>17, <2>3, <2>12, <2>13, <2>15, <2>16 DEF LeadsTo
<1> QED
  BY <1>18, <1>19

-----------------------------------------------------------------------------
(* Markov: a window inserted.                                              *)

\* One level down, to a node or, at the depth of a context, to a leaf.
Step(d, c, k, depth) == Down(d.memory, d.at, c, IF k = depth THEN "leaf" ELSE "node")

\* f goes down m levels, for the first codepoints of a sequence.
GoesDown(f, m, memory, sequence, depth) ==
  f = [k \in 0..m |-> IF k = 0 THEN [memory |-> memory, at |-> Root] ELSE Step(f[k-1], sequence[k], k, depth)]

LEMMA GoesDownFound ==
  ASSUME NEW memory, NEW sequence, NEW depth
  PROVE  \A m \in Nat : \E f : GoesDown(f, m, memory, sequence, depth)
<1> DEFINE S == {m \in Nat : \E f : GoesDown(f, m, memory, sequence, depth)}
<1>1. 0 \in S
  <2>1. PICK f : f = [k \in 0..0 |-> [memory |-> memory, at |-> Root]]
    OBVIOUS
  <2>2. \A k \in 0..0 : f[k] = IF k = 0 THEN [memory |-> memory, at |-> Root] ELSE Step(f[k-1], sequence[k], k, depth)
    BY <2>1
  <2>3. GoesDown(f, 0, memory, sequence, depth)
    BY <2>1, <2>2 DEF GoesDown
  <2> QED
    BY <2>3
<1>2. ASSUME NEW n \in Nat, n \in S PROVE n + 1 \in S
  <2>1. PICK m \in Nat : m = n + 1
    OBVIOUS
  <2>2. PICK f : GoesDown(f, n, memory, sequence, depth)
    BY <1>2
  <2>3. PICK z : z = Step(f[n], sequence[m], m, depth)
    OBVIOUS
  <2>4. PICK g : g = [k \in 0..m |-> IF k = m THEN z ELSE f[k]]
    OBVIOUS
  <2>5. ASSUME NEW k \in 0..m
        PROVE  g[k] = IF k = 0 THEN [memory |-> memory, at |-> Root] ELSE Step(g[k-1], sequence[k], k, depth)
    <3>1. CASE k = 0
      <4>1. k # m /\ k \in 0..n
        BY <2>1, <3>1
      <4> QED
        BY <2>2, <2>4, <3>1, <4>1 DEF GoesDown
    <3>2. CASE k # 0
      <4>1. k - 1 \in 0..n /\ k - 1 \in 0..m /\ k - 1 # m
        BY <2>1, <3>2
      <4>2. g[k - 1] = f[k - 1]
        BY <2>4, <4>1
      <4>3. CASE k = m
        <5>1. k - 1 = n
          BY <2>1, <4>3
        <5> QED
          BY <2>3, <2>4, <3>2, <4>2, <4>3, <5>1
      <4>4. CASE k # m
        <5>1. k \in 0..n
          BY <2>1, <4>4
        <5>2. f[k] = Step(f[k-1], sequence[k], k, depth)
          BY <2>2, <3>2, <5>1 DEF GoesDown
        <5> QED
          BY <2>4, <3>2, <4>2, <4>4, <5>2
      <4> QED
        BY <4>3, <4>4
    <3> QED
      BY <3>1, <3>2
  <2>6. g = [k \in 0..m |-> g[k]]
    BY <2>4
  <2>7. GoesDown(g, m, memory, sequence, depth)
    BY <2>5, <2>6 DEF GoesDown
  <2> QED
    BY <2>1, <2>7
<1> HIDE DEF S
<1>3. \A n \in Nat : n \in S
  BY <1>1, <1>2, SetInduction
<1> QED
  BY <1>3 DEF S

LEMMA WordInsertedIs ==
  ASSUME level \in Nat, NEW memory, NEW sequence, NEW weight
  PROVE  \E f : /\ GoesDown(f, level, memory, sequence, level)
               /\ WordInserted(memory, sequence, weight)
                  = With(f[level].memory, f[level].at,
                         Inserted(f[level].memory[f[level].at], Entry(sequence[level + 1], weight)))
<1>1. PICK f : f = CHOOSE g : GoesDown(g, level, memory, sequence, level)
  OBVIOUS
<1>2. GoesDown(f, level, memory, sequence, level)
  <2>1. \E g : GoesDown(g, level, memory, sequence, level)
    BY GoesDownFound
  <2> QED
    BY <1>1, <2>1
<1>3. WordInserted(memory, sequence, weight)
      = With(f[level].memory, f[level].at,
             Inserted(f[level].memory[f[level].at], Entry(sequence[level + 1], weight)))
  BY <1>1 DEF WordInserted, GoesDown, Step
<1> QED
  BY <1>2, <1>3

\* The table that codepoints lead to in a memory that grew; one that is new is empty.
Before(M, n, a) == IF a \in 1..n THEN M[a] ELSE NewTable("leaf", 1)

\* A memory in which the leaf of a context, and no other, got an entry.
Gains(M, P, n, depth, N, Q, m, p, e) ==
  /\ n <= m
  /\ \A a \in 1..n : Q[a] = P[a]
  /\ \A a \in 1..m : Len(Q[a]) = depth /\ Q[a] # p => N[a] = Before(M, n, a)
  /\ \E b \in 1..m : Q[b] = p /\ InsertsWell(Before(M, n, b), e, N[b])

\* The first codepoints of a sequence.
LEMMA FirstIs ==
  ASSUME NEW s \in Seq(Codepoints), NEW k \in Nat, k < Len(s)
  PROVE  /\ SubSeq(s, 1, k) \in Seq(Codepoints) /\ Len(SubSeq(s, 1, k)) = k
         /\ s[k + 1] \in Codepoints
         /\ SubSeq(s, 1, k + 1) = Append(SubSeq(s, 1, k), s[k + 1])
         /\ k = 0 => SubSeq(s, 1, k) = <<>>
<1>1. PICK p : p = SubSeq(s, 1, k)
  OBVIOUS
<1>2. PICK m \in Nat : m = k + 1
  OBVIOUS
<1>3. PICK q : q = SubSeq(s, 1, m)
  OBVIOUS
<1>4. \A i \in 1..m : s[i] \in Codepoints
  BY <1>2
<1>5. p \in Seq(Codepoints) /\ Len(p) = k /\ \A i \in 1..k : p[i] = s[i]
  <2>1. \A i \in 1..k : s[i] \in Codepoints
    BY <1>2, <1>4
  <2>2. /\ SubSeq(s, 1, k) \in Seq(Codepoints)
        /\ Len(SubSeq(s, 1, k)) = IF 1 <= k THEN k-1+1 ELSE 0
        /\ \A i \in 1..k-1+1 : SubSeq(s, 1, k)[i] = s[1+i-1]
    BY <2>1, SubSeqProperties
  <2> QED
    BY <1>1, <2>2
<1>6. q \in Seq(Codepoints) /\ Len(q) = m /\ \A i \in 1..m : q[i] = s[i]
  <2>1. /\ SubSeq(s, 1, m) \in Seq(Codepoints)
        /\ Len(SubSeq(s, 1, m)) = IF 1 <= m THEN m-1+1 ELSE 0
        /\ \A i \in 1..m-1+1 : SubSeq(s, 1, m)[i] = s[1+i-1]
    BY <1>4, SubSeqProperties
  <2> QED
    BY <1>2, <1>3, <2>1
<1>7. s[m] \in Codepoints
  BY <1>2, <1>4
<1>8. PICK r : r = Append(p, s[m])
  OBVIOUS
<1>9. r \in Seq(Codepoints) /\ Len(r) = m /\ (\A i \in 1..k : r[i] = p[i]) /\ r[m] = s[m]
  BY <1>2, <1>5, <1>7, <1>8, Longer
<1>10. \A i \in 1..m : r[i] = q[i]
  <2> SUFFICES ASSUME NEW i \in 1..m PROVE r[i] = q[i]
    OBVIOUS
  <2>1. i = m \/ i \in 1..k
    BY <1>2
  <2> QED
    BY <1>5, <1>6, <1>9, <2>1
<1>11. r = q
  BY <1>6, <1>9, <1>10, SeqEqual
<1>12. k = 0 => p = <<>>
  BY <1>5, EmptySeq
<1> QED
  BY <1>1, <1>2, <1>3, <1>5, <1>7, <1>8, <1>11, <1>12

\* passgen_markov_node_insert_word: the tree has a leaf for the context then, which got
\* what follows it; all other leaves are as they were, or new and empty.
LEMMA WordIs ==
  ASSUME NEW depth \in Nat \ {0}, level = depth, NEW n, NEW P, NEW M, IsTree(M, P, n, depth),
         NEW s \in Seq(Codepoints), Len(s) = depth + 1, NEW v \in Nat
  PROVE  \E m : \E Q : /\ m \in Nat /\ IsTree(WordInserted(M, s, v), Q, m, depth)
                       /\ Gains(M, P, n, depth, WordInserted(M, s, v), Q, m,
                                SubSeq(s, 1, depth), Entry(s[depth + 1], v))
<1>1. PICK f : /\ GoesDown(f, depth, M, s, depth)
               /\ WordInserted(M, s, v)
                  = With(f[depth].memory, f[depth].at,
                         Inserted(f[depth].memory[f[depth].at], Entry(s[depth + 1], v)))
  BY WordInsertedIs
<1>2. f[0] = [memory |-> M, at |-> Root] /\ \A k \in 1..depth : f[k] = Step(f[k-1], s[k], k, depth)
  BY <1>1 DEF GoesDown
<1> DEFINE S == {k \in Nat : k <= depth => LeadsTo(M, P, n, depth, f[k].memory, f[k].at, SubSeq(s, 1, k))}
<1>3. 0 \in S
  <2>1. f[0].memory = M /\ f[0].at = 1
    BY <1>2 DEF Root
  <2>2. SubSeq(s, 1, 0) = <<>> /\ P[1] = <<>>
    BY FirstIs DEF IsTree
  <2>3. n \in Nat \ {0} /\ 1 \in 1..n
    BY DEF IsTree
  <2>4. Grows(M, P, n, M, P, n, depth)
    <3>1. \A a \in n+1..n : FALSE
      BY <2>3
    <3> QED
      BY <2>3, <3>1 DEF Grows
  <2> QED
    BY <2>1, <2>2, <2>3, <2>4 DEF LeadsTo
<1>4. ASSUME NEW k \in Nat, k \in S PROVE k + 1 \in S
  <2> SUFFICES ASSUME k + 1 <= depth
               PROVE  LeadsTo(M, P, n, depth, f[k+1].memory, f[k+1].at, SubSeq(s, 1, k + 1))
    OBVIOUS
  <2>1. PICK j \in 1..depth : j = k + 1
    <3>1. k + 1 \in 1..depth
      OBVIOUS
    <3> QED
      BY <3>1
  <2>2. PICK p \in Seq(Codepoints), c \in Codepoints : p = SubSeq(s, 1, k) /\ c = s[j]
    <3>1. k < Len(s)
      BY <2>1
    <3>2. SubSeq(s, 1, k) \in Seq(Codepoints) /\ s[k + 1] \in Codepoints
      BY <3>1, FirstIs
    <3> QED
      BY <2>1, <3>2
  <2>3. Len(p) = k /\ SubSeq(s, 1, j) = Append(p, c)
    BY <2>1, <2>2, FirstIs
  <2>4. PICK N, at : N = f[k].memory /\ at = f[k].at
    OBVIOUS
  <2>5. LeadsTo(M, P, n, depth, N, at, p)
    <3>1. LeadsTo(M, P, n, depth, f[k].memory, f[k].at, SubSeq(s, 1, k))
      BY <1>4, <2>1
    <3> QED
      BY <2>2, <2>4, <3>1
  <2>6. PICK m, Q : /\ IsTree(N, Q, m, depth) /\ Grows(M, P, n, N, Q, m, depth)
                    /\ at \in 1..m /\ Q[at] = p
    BY <2>5 DEF LeadsTo
  <2>7. PICK kind : kind = IF j = depth THEN "leaf" ELSE "node"
    OBVIOUS
  <2>8. f[j] = Down(N, at, c, kind)
    <3>1. j - 1 = k
      BY <2>1
    <3>2. f[j] = Step(f[k], s[j], j, depth)
      BY <1>2, <3>1
    <3> QED
      BY <2>2, <2>4, <2>7, <3>2 DEF Step
  <2>9. Len(Q[at]) # depth /\ kind = IF Len(Q[at]) + 1 = depth THEN "leaf" ELSE "node"
    BY <2>1, <2>3, <2>6, <2>7
  <2>10. LeadsTo(N, Q, m, depth, Down(N, at, c, kind).memory, Down(N, at, c, kind).at, Append(Q[at], c))
    BY <2>6, <2>9, DownIs
  <2>11. PICK O, to : O = f[j].memory /\ to = f[j].at
    OBVIOUS
  <2>12. LeadsTo(N, Q, m, depth, O, to, Append(p, c))
    BY <2>6, <2>8, <2>10, <2>11
  <2>13. PICK l, R : /\ IsTree(O, R, l, depth) /\ Grows(N, Q, m, O, R, l, depth)
                     /\ to \in 1..l /\ R[to] = Append(p, c)
    BY <2>12 DEF LeadsTo
  <2>14. Grows(M, P, n, O, R, l, depth)
    <3>1. n \in Nat /\ m \in Nat /\ l \in Nat
      BY <2>6, <2>13 DEF IsTree
    <3> QED
      BY <2>6, <2>13, <3>1, GrowsOn
  <2>15. LeadsTo(M, P, n, depth, O, to, SubSeq(s, 1, j))
    BY <2>3, <2>13, <2>14 DEF LeadsTo
  <2> QED
    BY <2>1, <2>11, <2>15
<1> HIDE DEF S
<1>5. \A k \in Nat : k \in S
  BY <1>3, <1>4, SetInduction
<1>6. PICK p, c : p = SubSeq(s, 1, depth) /\ c = s[depth + 1]
  OBVIOUS
<1>7. p \in Seq(Codepoints) /\ Len(p) = depth /\ c \in Codepoints
  BY <1>6, FirstIs
<1>8. PICK N, at : N = f[depth].memory /\ at = f[depth].at
  OBVIOUS
<1>9. LeadsTo(M, P, n, depth, N, at, p)
  <2>1. LeadsTo(M, P, n, depth, f[depth].memory, f[depth].at, SubSeq(s, 1, depth))
    BY <1>5 DEF S
  <2> QED
    BY <1>6, <1>8, <2>1
<1>10. PICK m, Q : /\ IsTree(N, Q, m, depth) /\ Grows(M, P, n, N, Q, m, depth)
                   /\ at \in 1..m /\ Q[at] = p
  BY <1>9 DEF LeadsTo
<1>11. n \in Nat /\ m \in Nat /\ DOMAIN N = 1..m
  BY <1>10 DEF IsTree
<1>12. PICK e : e = Entry(c, v)
  OBVIOUS
<1>13. PICK T : T = N[at]
  OBVIOUS
<1>14. PICK R : R = Inserted(T, e)
  OBVIOUS
<1>15. PICK W : W = With(N, at, R)
  OBVIOUS
<1>16. WordInserted(M, s, v) = W
  BY <1>1, <1>6, <1>8, <1>12, <1>13, <1>14, <1>15
<1>17. IsTable(T)
  BY <1>10, <1>13 DEF IsTree
<1>18. InsertsWell(T, e, R)
  <2>1. e \in AnyEntry
    BY <1>7, <1>12, EntryIs
  <2> QED
    BY <1>14, <1>17, <2>1, InsertedIs
<1>19. DOMAIN W = 1..m /\ W[at] = R /\ \A b \in 1..m : b # at => W[b] = N[b]
  <2>1. 1..m \union {at} = 1..m
    BY <1>10
  <2> QED
    BY <1>10, <1>11, <1>15, <2>1 DEF With
<1>20. IsTree(W, Q, m, depth)
  <2>1. IsTable(R) /\ R.kind = T.kind
    BY <1>18 DEF InsertsWell
  <2>2. \A a \in 1..m : IsTable(N[a])
    BY <1>10 DEF IsTree
  <2>3. \A a \in 1..m : IsTable(W[a]) /\ W[a].kind = N[a].kind
    BY <1>13, <1>19, <2>1, <2>2
  <2>4. \A a \in 1..m : Len(Q[a]) # depth => \A d \in Codepoints : Lookup(W[a], d) = Lookup(N[a], d)
    BY <1>7, <1>10, <1>19
  <2> QED
    BY <1>10, <1>19, <2>3, <2>4, TreeSame
<1>21. \A a \in 1..m : Len(Q[a]) = depth => N[a] = Before(M, n, a)
  <2> SUFFICES ASSUME NEW a \in 1..m, Len(Q[a]) = depth PROVE N[a] = Before(M, n, a)
    OBVIOUS
  <2>1. CASE a \in 1..n
    BY <1>10, <2>1 DEF Grows, Before
  <2>2. CASE a \notin 1..n
    <3>1. a \in n+1..m
      BY <1>11, <2>2
    <3> QED
      BY <1>10, <2>2, <3>1 DEF Grows, Before
  <2> QED
    BY <2>1, <2>2
<1>22. Gains(M, P, n, depth, W, Q, m, p, e)
  <2>1. n <= m /\ \A a \in 1..n : Q[a] = P[a]
    BY <1>10 DEF Grows
  <2>2. \A a \in 1..m : Len(Q[a]) = depth /\ Q[a] # p => W[a] = Before(M, n, a)
    BY <1>10, <1>19, <1>21
  <2>3. Q[at] = p /\ InsertsWell(Before(M, n, at), e, W[at])
    <3>1. N[at] = Before(M, n, at)
      BY <1>7, <1>10, <1>21
    <3> QED
      BY <1>10, <1>13, <1>18, <1>19, <3>1
  <2> QED
    BY <1>10, <2>1, <2>2, <2>3 DEF Gains
<1> QED
  BY <1>6, <1>11, <1>12, <1>16, <1>20, <1>22

-----------------------------------------------------------------------------
(* Markov: what the leaves of a tree hold.                                 *)

\* As long as what was counted fits, totals are what the counts add up to, and no more.
Counted(M, P, n, depth, w) ==
  w < CountMax => \A a \in 1..n : Len(P[a]) = depth => Sound(M[a]) /\ M[a].total <= w

\* What holds of a leaf when the window of p and c was inserted v times.
LeafGains(M, P, n, N, Q, a, p, c, v, w) ==
  /\ a \in 1..n => P[a] = Q[a]
  /\ w + v < CountMax =>
       /\ Sound(N[a]) /\ N[a].total \in Nat /\ N[a].total <= w + v
       /\ a \in 1..n => N[a].total >= M[a].total
       /\ Q[a] = p /\ v # 0 => N[a].total # 0
  /\ \A d \in Codepoints :
       Lookup(N[a], d) # 0 /\ ~(Q[a] = p /\ d = c /\ v # 0) => a \in 1..n /\ Lookup(M[a], d) # 0

LEMMA LeafGainsIs ==
  ASSUME NEW depth \in Nat \ {0}, NEW n, NEW P, NEW M, IsTree(M, P, n, depth),
         NEW m, NEW Q, NEW N, IsTree(N, Q, m, depth),
         NEW p, NEW c \in Codepoints, NEW v \in Nat, Gains(M, P, n, depth, N, Q, m, p, Entry(c, v)),
         NEW w \in Nat, Counted(M, P, n, depth, w),
         NEW a \in 1..m, Len(Q[a]) = depth
  PROVE  LeafGains(M, P, n, N, Q, a, p, c, v, w)
<1>1. n \in Nat \ {0} /\ m \in Nat \ {0} /\ CountMax \in Nat
  BY CountMaxFacts DEF IsTree
<1>2. a \in 1..n => P[a] = Q[a]
  BY DEF Gains
<1>3. PICK T : T = Before(M, n, a)
  OBVIOUS
<1>4. a \in 1..n => T = M[a]
  BY <1>3 DEF Before
<1>5. a \notin 1..n => T.total = 0 /\ \A d \in Codepoints : Lookup(T, d) = 0
  <2> SUFFICES ASSUME a \notin 1..n PROVE T.total = 0 /\ \A d \in Codepoints : Lookup(T, d) = 0
    OBVIOUS
  <2>1. T = NewTable("leaf", 1)
    BY <1>3 DEF Before
  <2>2. IsNew(NewTable("leaf", 1), "leaf", 1)
    BY NewTableIs
  <2> QED
    BY <2>1, <2>2 DEF IsNew
<1>6. IsTable(T) /\ T.kind = "leaf"
  <2>1. CASE a \in 1..n
    BY <1>2, <1>4, <2>1 DEF IsTree
  <2>2. CASE a \notin 1..n
    <3>1. T = NewTable("leaf", 1)
      BY <1>3, <2>2 DEF Before
    <3>2. IsNew(NewTable("leaf", 1), "leaf", 1)
      BY NewTableIs
    <3> QED
      BY <3>1, <3>2 DEF IsNew
  <2> QED
    BY <2>1, <2>2
<1>7. w < CountMax => Sound(T) /\ T.total <= w
  <2>1. CASE a \in 1..n
    BY <1>2, <1>4, <2>1 DEF Counted
  <2>2. CASE a \notin 1..n
    <3>1. T = NewTable("leaf", 1)
      BY <1>3, <2>2 DEF Before
    <3>2. Sound(NewTable("leaf", 1))
      BY NewTableSound
    <3>3. PICK t \in Nat : t = T.total /\ t = 0
      BY <1>5, <2>2
    <3>4. t <= w
      BY <3>3
    <3> QED
      BY <3>1, <3>2, <3>3, <3>4
  <2> QED
    BY <2>1, <2>2
<1>8. PICK e : e = Entry(c, v)
  OBVIOUS
<1>9. e \in AnyEntry /\ e.codepoint = c /\ e.value = v
  BY <1>8, EntryIs
<1>10. PICK t \in Nat : t = T.total
  BY <1>6, TableHas
<1>11. PICK R : R = N[a]
  OBVIOUS
<1>12. CASE Q[a] # p
  <2>1. R = T
    BY <1>3, <1>11, <1>12 DEF Gains
  <2>2. w + v < CountMax => w < CountMax /\ (t <= w => t <= w + v)
    BY <1>1, <1>10
  <2>3. w + v < CountMax => Sound(R) /\ t <= w + v
    BY <1>7, <1>10, <2>1, <2>2
  <2>4. a \in 1..n => M[a].total = t
    BY <1>4, <1>10
  <2>5. \A d \in Codepoints : Lookup(R, d) # 0 => a \in 1..n /\ Lookup(M[a], d) # 0
    BY <1>4, <1>5, <2>1
  <2> QED
    BY <1>2, <1>10, <1>11, <1>12, <2>1, <2>3, <2>4, <2>5 DEF LeafGains
<1>13. CASE Q[a] = p
  <2>1. InsertsWell(T, e, R)
    <3>1. PICK b \in 1..m : Q[b] = p /\ InsertsWell(Before(M, n, b), e, N[b])
      BY <1>8 DEF Gains
    <3>2. b = a
      BY <1>13, <3>1 DEF IsTree
    <3> QED
      BY <1>3, <1>11, <3>1, <3>2
  <2>2. IsTable(R)
    BY <2>1 DEF InsertsWell
  <2>3. PICK r \in Nat : r = R.total
    BY <2>2, TableHas
  <2>4. ASSUME w + v < CountMax PROVE Sound(R) /\ r = t + v /\ t + v <= w + v
    <3>1. Sound(T) /\ t <= w
      BY <1>1, <1>7, <1>10, <2>4
    <3>2. t + v < CountMax
      BY <1>1, <2>4, <3>1
    <3>3. T.total + e.value < CountMax
      BY <1>9, <1>10, <3>2
    <3>4. Sound(R) /\ R.total = T.total + e.value
      BY <1>6, <2>1, <3>1, <3>3 DEF InsertsWell
    <3>5. r = t + v
      BY <1>9, <1>10, <2>3, <3>4
    <3> QED
      BY <3>1, <3>4, <3>5
  <2>5. ASSUME NEW d \in Codepoints, Lookup(R, d) # 0, ~(d = c /\ v # 0)
        PROVE  a \in 1..n /\ Lookup(M[a], d) # 0
    <3>1. Lookup(R, d) = Lookup(T, d)
      <4>1. CASE v = 0
        BY <1>9, <2>1, <4>1 DEF InsertsWell
      <4>2. CASE v # 0
        BY <1>9, <2>1, <2>5, <4>2 DEF InsertsWell
      <4> QED
        BY <4>1, <4>2
    <3> QED
      BY <1>4, <1>5, <2>5, <3>1
  <2>6. a \in 1..n => M[a].total = t
    BY <1>4, <1>10
  <2>7. w + v < CountMax => Sound(R) /\ r <= w + v /\ r >= t /\ (v # 0 => r # 0)
    <3>1. r = t + v => r >= t /\ (v # 0 => r # 0)
      OBVIOUS
    <3> QED
      BY <2>4, <3>1
  <2>8. N[a].total = r
    BY <1>11, <2>3
  <2>9. \A d \in Codepoints : Lookup(N[a], d) # 0 /\ ~(Q[a] = p /\ d = c /\ v # 0)
          => a \in 1..n /\ Lookup(M[a], d) # 0
    BY <1>11, <1>13, <2>5
  <2>10. w + v < CountMax =>
           /\ Sound(N[a]) /\ N[a].total \in Nat /\ N[a].total <= w + v
           /\ a \in 1..n => N[a].total >= M[a].total
           /\ Q[a] = p /\ v # 0 => N[a].total # 0
    <3>1. a \in 1..n /\ w + v < CountMax => N[a].total >= M[a].total
      BY <2>6, <2>7, <2>8
    <3>2. w + v < CountMax => Sound(N[a]) /\ N[a].total \in Nat /\ N[a].total <= w + v
                             /\ (v # 0 => N[a].total # 0)
      BY <1>11, <2>7, <2>8
    <3> QED
      BY <3>1, <3>2
  <2> QED
    BY <1>2, <2>9, <2>10 DEF LeafGains
<1> QED
  BY <1>12, <1>13

\* Of what follows a context there is an entry only if what follows then has a leaf,
\* with something to choose from as long as counts fit; the last window is still to
\* be followed by one.
Covered(M, P, n, depth, w, last) ==
  \A a \in 1..n : \A c \in Codepoints :
    Len(P[a]) = depth /\ c # 0 /\ Lookup(M[a], c) # 0 /\ Append(P[a], c) # last =>
      \E b \in 1..n : P[b] = Tail(Append(P[a], c)) /\ (w < CountMax => M[b].total # 0)

\* The context that words start from.
Started(M, P, n, depth, w) ==
  \E b \in 1..n : P[b] = Zeros(depth) /\ (0 < w /\ w < CountMax => M[b].total # 0)

LEMMA ShorterIs ==
  ASSUME NEW p \in Seq(Codepoints), NEW c \in Codepoints
  PROVE  Len(Tail(Append(p, c))) = Len(p)
<1>1. PICK q \in Seq(Codepoints) : q = Append(p, c)
  BY Longer
<1>2. q # <<>> /\ Len(q) = Len(p) + 1
  BY <1>1, Longer
<1>3. Len(Tail(q)) = Len(q) - 1
  BY <1>2, HeadTailProperties
<1> QED
  BY <1>1, <1>2, <1>3

LEMMA CoveredMore ==
  ASSUME NEW depth \in Nat \ {0}, NEW n, NEW P, NEW M, IsTree(M, P, n, depth),
         NEW m, NEW Q, NEW N, IsTree(N, Q, m, depth),
         NEW p \in Seq(Codepoints), Len(p) = depth, NEW c \in Codepoints, NEW v \in Nat,
         Gains(M, P, n, depth, N, Q, m, p, Entry(c, v)),
         NEW w \in Nat, Counted(M, P, n, depth, w),
         NEW last, Covered(M, P, n, depth, w, last), v # 0 => last = <<>> \/ Tail(last) = p,
         NEW next, v = 0 => next = last, v # 0 => next = Append(p, c)
  PROVE  Counted(N, Q, m, depth, w + v) /\ Covered(N, Q, m, depth, w + v, next)
<1>1. \A a \in 1..m : Len(Q[a]) = depth => LeafGains(M, P, n, N, Q, a, p, c, v, w)
  BY LeafGainsIs
<1>2. n \in Nat \ {0} /\ m \in Nat \ {0} /\ CountMax \in Nat /\ n <= m
  BY CountMaxFacts DEF IsTree, Gains
<1>3. Counted(N, Q, m, depth, w + v)
  BY <1>1 DEF Counted, LeafGains
<1>4. \A b \in 1..n : b \in 1..m /\ Q[b] = P[b] /\ P[b] \in Seq(Codepoints)
  <2>1. P \in [1..n -> Seq(Codepoints)]
    BY DEF IsTree
  <2>2. \A b \in 1..n : Q[b] = P[b]
    BY DEF Gains
  <2> QED
    BY <1>2, <2>1, <2>2
<1>5. ASSUME NEW a \in 1..m, NEW d \in Codepoints,
             Len(Q[a]) = depth, d # 0, Lookup(N[a], d) # 0, Append(Q[a], d) # next
      PROVE  \E b \in 1..m : Q[b] = Tail(Append(Q[a], d)) /\ (w + v < CountMax => N[b].total # 0)
  <2>1. LeafGains(M, P, n, N, Q, a, p, c, v, w)
    BY <1>1, <1>5
  <2>2. ~(Q[a] = p /\ d = c /\ v # 0)
    BY <1>5
  <2>3. a \in 1..n /\ Lookup(M[a], d) # 0 /\ P[a] = Q[a]
    BY <1>5, <2>1, <2>2 DEF LeafGains
  <2>4. w + v < CountMax => w < CountMax
    BY <1>2
  <2>5. PICK q : q = Append(Q[a], d)
    OBVIOUS
  <2>6. Len(Tail(q)) = depth
    BY <1>4, <1>5, <2>3, <2>5, ShorterIs
  <2>7. CASE q = last
    <3>1. v # 0 /\ last # <<>>
      <4>1. q # <<>>
        BY <1>4, <2>3, <2>5, Longer
      <4> QED
        BY <1>5, <2>5, <2>7, <4>1
    <3>2. Tail(q) = p
      BY <2>7, <3>1
    <3>3. PICK b \in 1..m : Q[b] = p
      BY DEF Gains
    <3>4. LeafGains(M, P, n, N, Q, b, p, c, v, w)
      BY <1>1, <3>3
    <3>5. w + v < CountMax => N[b].total # 0
      BY <3>1, <3>3, <3>4 DEF LeafGains
    <3> QED
      BY <2>5, <3>2, <3>3, <3>5
  <2>8. CASE q # last
    <3>1. PICK b \in 1..n : P[b] = Tail(q) /\ (w < CountMax => M[b].total # 0)
      BY <1>5, <2>3, <2>5, <2>8 DEF Covered
    <3>2. b \in 1..m /\ Q[b] = Tail(q)
      BY <1>4, <3>1
    <3>3. LeafGains(M, P, n, N, Q, b, p, c, v, w)
      BY <1>1, <2>6, <3>2
    <3>4. ASSUME w + v < CountMax PROVE N[b].total # 0
      <4>1. IsTable(M[b])
        BY DEF IsTree
      <4>2. PICK t \in Nat : t = M[b].total
        BY <4>1, TableHas
      <4>3. PICK r \in Nat : r = N[b].total
        BY <3>3, <3>4 DEF LeafGains
      <4>4. t # 0
        BY <2>4, <3>1, <3>4, <4>2
      <4>5. r >= t
        BY <3>3, <3>4, <4>2, <4>3 DEF LeafGains
      <4> QED
        BY <4>3, <4>4, <4>5
    <3> QED
      BY <2>5, <3>2, <3>4
  <2> QED
    BY <2>7, <2>8
<1> QED
  BY <1>3, <1>5 DEF Covered

LEMMA StartedMore ==
  ASSUME NEW depth \in Nat \ {0}, NEW n, NEW P, NEW M, IsTree(M, P, n, depth),
         NEW m, NEW Q, NEW N, IsTree(N, Q, m, depth),
         NEW p, NEW c \in Codepoints, NEW v \in Nat, Gains(M, P, n, depth, N, Q, m, p, Entry(c, v)),
         NEW w \in Nat, Counted(M, P, n, depth, w),
         w > 0 => Started(M, P, n, depth, w),
         p = Zeros(depth) \/ (Started(M, P, n, depth, w) /\ (w = 0 => v = 0))
  PROVE  Started(N, Q, m, depth, w + v)
<1>1. \A a \in 1..m : Len(Q[a]) = depth => LeafGains(M, P, n, N, Q, a, p, c, v, w)
  BY LeafGainsIs
<1>2. n \in Nat \ {0} /\ m \in Nat \ {0} /\ CountMax \in Nat /\ n <= m
  BY CountMaxFacts DEF IsTree, Gains
<1>3. \A b \in 1..n : b \in 1..m /\ Q[b] = P[b]
  BY <1>2 DEF Gains
<1>4. Len(Zeros(depth)) = depth
  <2>1. Zeros(depth) \in Seq(Codepoints)
    BY CodepointIsNat DEF Zeros
  <2> QED
    BY <2>1 DEF Zeros
<1>5. CASE Started(M, P, n, depth, w) /\ (w = 0 => v = 0)
  <2>1. PICK b \in 1..n : P[b] = Zeros(depth) /\ (0 < w /\ w < CountMax => M[b].total # 0)
    BY <1>5 DEF Started
  <2>2. b \in 1..m /\ Q[b] = Zeros(depth)
    BY <1>3, <2>1
  <2>3. LeafGains(M, P, n, N, Q, b, p, c, v, w)
    BY <1>1, <1>4, <2>2
  <2>4. ASSUME 0 < w + v, w + v < CountMax PROVE N[b].total # 0
    <3>1. 0 < w /\ w < CountMax
      BY <1>2, <1>5, <2>4
    <3>2. IsTable(M[b])
      BY DEF IsTree
    <3>3. PICK t \in Nat : t = M[b].total
      BY <3>2, TableHas
    <3>4. PICK r \in Nat : r = N[b].total
      BY <2>3, <2>4 DEF LeafGains
    <3>5. t # 0
      BY <2>1, <3>1, <3>3
    <3>6. r >= t
      BY <2>3, <2>4, <3>3, <3>4 DEF LeafGains
    <3> QED
      BY <3>4, <3>5, <3>6
  <2> QED
    BY <2>2, <2>4 DEF Started
<1>6. CASE p = Zeros(depth) /\ v # 0
  <2>1. PICK b \in 1..m : Q[b] = p
    BY DEF Gains
  <2>2. LeafGains(M, P, n, N, Q, b, p, c, v, w)
    BY <1>1, <1>4, <1>6, <2>1
  <2>3. w + v < CountMax => N[b].total # 0
    BY <1>6, <2>1, <2>2 DEF LeafGains
  <2> QED
    BY <1>6, <2>1, <2>3 DEF Started
<1>7. CASE p = Zeros(depth) /\ v = 0 /\ w = 0
  <2>1. PICK b \in 1..m : Q[b] = p
    BY DEF Gains
  <2>2. ~(0 < w + v)
    BY <1>7
  <2> QED
    BY <1>7, <2>1, <2>2 DEF Started
<1>8. w # 0 => w > 0
  OBVIOUS
<1> QED
  BY <1>5, <1>6, <1>7, <1>8

-----------------------------------------------------------------------------
(* Markov: the windows over a word.                                        *)

\* The word with zeros around it.
Padded(w, depth, k) == IF depth < k /\ k <= depth + Len(w) THEN w[k - depth] ELSE 0

\* The window that begins at a place of it.
IsWindow(s, w, depth, i) ==
  /\ s \in Seq(Codepoints) /\ Len(s) = depth + 1
  /\ \A j \in 1..depth+1 : s[j] = Padded(w, depth, i + j - 1)

\* Part of a sequence that is part of the padded word.
LEMMA PartIsWindow ==
  ASSUME NEW depth \in Nat \ {0}, NEW w \in Seq(Codepoints), NEW i \in Nat,
         NEW s \in Seq(Codepoints), NEW k \in Nat \ {0}, k + depth <= Len(s),
         \A j \in k..k+depth : s[j] = Padded(w, depth, i + j - k)
  PROVE  IsWindow(SubSeq(s, k, k + depth), w, depth, i)
<1>1. PICK e \in Nat : e = k + depth
  OBVIOUS
<1>2. \A j \in k..e : s[j] \in Codepoints
  <2>1. \A j \in k..e : j \in 1..Len(s)
    BY <1>1
  <2> QED
    BY <2>1, ElementOfSeq
<1>3. /\ SubSeq(s, k, e) \in Seq(Codepoints)
      /\ Len(SubSeq(s, k, e)) = IF k <= e THEN e-k+1 ELSE 0
      /\ \A j \in 1..e-k+1 : SubSeq(s, k, e)[j] = s[k+j-1]
  BY <1>2, SubSeqProperties
<1>4. PICK q \in Seq(Codepoints) : q = SubSeq(s, k, e)
  BY <1>3
<1>5. Len(q) = depth + 1 /\ \A j \in 1..depth+1 : q[j] = s[k+j-1]
  <2>1. k <= e /\ e - k + 1 = depth + 1
    BY <1>1
  <2> QED
    BY <1>3, <1>4, <2>1
<1>6. ASSUME NEW j \in 1..depth+1 PROVE q[j] = Padded(w, depth, i + j - 1)
  <2>1. PICK l \in k..k+depth : l = k + j - 1
    <3>1. k + j - 1 \in k..k+depth
      OBVIOUS
    <3> QED
      BY <3>1
  <2>2. i + l - k = i + j - 1
    BY <2>1
  <2> QED
    BY <1>5, <2>1, <2>2
<1> QED
  BY <1>1, <1>4, <1>5, <1>6 DEF IsWindow

LEMMA ZerosAre ==
  ASSUME NEW n \in Nat
  PROVE  /\ Zeros(n) \in Seq(Codepoints) /\ Len(Zeros(n)) = n
         /\ \A i \in 1..n : Zeros(n)[i] = 0
<1>1. Zeros(n) \in Seq(Codepoints)
  BY CodepointIsNat DEF Zeros
<1> QED
  BY <1>1 DEF Zeros

LEMMA LeastIs ==
  ASSUME NEW a \in Nat, NEW b \in Nat
  PROVE  /\ Least(a, b) \in Nat /\ Least(a, b) <= a /\ Least(a, b) <= b
         /\ Least(a, b) = a \/ Least(a, b) = b
         /\ Least(a, b) = Least(b, a)
         /\ Less(a, b) = a - Least(a, b)
BY DEF Least, Less

\* A sequence of k and then l codepoints.
IsJoined(s, a, b, k, l) ==
  /\ s \in Seq(Codepoints) /\ Len(s) = k + l
  /\ \A i \in 1..k+l : s[i] = IF i <= k THEN a[i] ELSE b[i - k]

LEMMA JoinedIs ==
  ASSUME NEW a \in Seq(Codepoints), NEW b \in Seq(Codepoints),
         NEW k \in Nat, Len(a) = k, NEW l \in Nat, Len(b) = l
  PROVE  IsJoined(a \o b, a, b, k, l)
<1>1. /\ a \o b \in Seq(Codepoints)
      /\ Len(a \o b) = Len(a) + Len(b)
      /\ \A i \in 1..Len(a)+Len(b) : (a \o b)[i] = IF i <= Len(a) THEN a[i] ELSE b[i - Len(a)]
  BY ConcatProperties
<1> QED
  BY <1>1 DEF IsJoined

\* passgen_markov_add: all windows over the padded word, from the first to the last.
LEMMA WindowsAre ==
  ASSUME NEW depth \in Nat \ {0}, level = depth, NEW w \in Seq(Codepoints)
  PROVE  /\ Len(Windows(w)) = Len(w) + 1
         /\ \A i \in 1..Len(w)+1 : IsWindow(Windows(w)[i], w, depth, i)
<1>1. PICK len \in Nat : len = Len(w)
  OBVIOUS
<1>2. PICK some \in Nat : some = Least(depth, len)
  BY LeastIs
<1>3. some <= depth /\ some <= len /\ (some = depth \/ some = len)
  BY <1>2, LeastIs
<1>4. Less(depth, len) = depth - some /\ Less(len, depth) = len - some
  BY <1>2, LeastIs
<1>5. PICK head : head = SubSeq(w, 1, some)
  OBVIOUS
<1>6. head \in Seq(Codepoints) /\ Len(head) = some /\ \A j \in 1..some : head[j] = w[j]
  <2>1. \A j \in 1..some : w[j] \in Codepoints
    BY <1>1, <1>3
  <2>2. /\ SubSeq(w, 1, some) \in Seq(Codepoints)
        /\ Len(SubSeq(w, 1, some)) = IF 1 <= some THEN some-1+1 ELSE 0
        /\ \A j \in 1..some-1+1 : SubSeq(w, 1, some)[j] = w[1+j-1]
    BY <2>1, SubSeqProperties
  <2> QED
    BY <1>5, <2>2
<1>7. PICK start : start = Zeros(depth) \o head
  OBVIOUS
<1>8. start \in Seq(Codepoints) /\ Len(start) = depth + some
      /\ \A j \in 1..depth+some : start[j] = Padded(w, depth, j)
  <2>1. PICK z \in Seq(Codepoints) : z = Zeros(depth)
    BY ZerosAre
  <2>2. Len(z) = depth /\ \A j \in 1..depth : z[j] = 0
    BY <2>1, ZerosAre
  <2>3. /\ start \in Seq(Codepoints) /\ Len(start) = depth + some
        /\ \A j \in 1..depth+some : start[j] = IF j <= depth THEN z[j] ELSE head[j - depth]
    <3>1. IsJoined(z \o head, z, head, depth, some)
      BY <1>6, <2>2, JoinedIs
    <3>2. IsJoined(start, z, head, depth, some)
      BY <1>7, <2>1, <3>1
    <3> QED
      BY <3>2 DEF IsJoined
  <2>4. ASSUME NEW j \in 1..depth+some PROVE start[j] = Padded(w, depth, j)
    <3>1. CASE j <= depth
      <4>1. j \in 1..depth /\ ~(depth < j)
        BY <3>1
      <4> QED
        BY <2>2, <2>3, <3>1, <4>1 DEF Padded
    <3>2. CASE ~(j <= depth)
      <4>1. j - depth \in 1..some /\ depth < j /\ j <= depth + Len(w)
        BY <1>1, <1>3, <3>2
      <4> QED
        BY <1>6, <2>3, <3>2, <4>1 DEF Padded
    <3> QED
      BY <3>1, <3>2
  <2> QED
    BY <2>3, <2>4
<1>9. PICK tail : tail = SubSeq(w, len - some + 1, len)
  OBVIOUS
<1>10. tail \in Seq(Codepoints) /\ Len(tail) = some /\ \A j \in 1..some : tail[j] = w[len - some + j]
  <2>1. PICK f \in Nat : f = len - some + 1
    BY <1>3
  <2>2. \A j \in f..len : w[j] \in Codepoints
    <3>1. \A j \in f..len : j \in 1..Len(w)
      BY <1>1, <1>3, <2>1
    <3> QED
      BY <3>1, ElementOfSeq
  <2>3. /\ SubSeq(w, f, len) \in Seq(Codepoints)
        /\ Len(SubSeq(w, f, len)) = IF f <= len THEN len-f+1 ELSE 0
        /\ \A j \in 1..len-f+1 : SubSeq(w, f, len)[j] = w[f+j-1]
    BY <2>2, SubSeqProperties
  <2>4. len - f + 1 = some /\ (~(f <= len) => some = 0) /\ \A j \in 1..some : f + j - 1 = len - some + j
    BY <1>3, <2>1
  <2> QED
    BY <1>9, <2>1, <2>3, <2>4
<1>11. PICK end : end = Zeros(depth - some) \o tail \o <<0>>
  OBVIOUS
<1>12. IsWindow(end, w, depth, len + 1)
  <2>1. PICK d \in Nat : d = depth - some
    BY <1>3
  <2>2. PICK z \in Seq(Codepoints) : z = Zeros(d)
    BY ZerosAre
  <2>3. Len(z) = d /\ \A j \in 1..d : z[j] = 0
    BY <2>2, ZerosAre
  <2>4. PICK b : b = z \o tail
    OBVIOUS
  <2>5. /\ b \in Seq(Codepoints) /\ Len(b) = depth
        /\ \A j \in 1..depth : b[j] = IF j <= d THEN z[j] ELSE tail[j - d]
    <3>1. /\ b \in Seq(Codepoints) /\ Len(b) = d + some
          /\ \A j \in 1..d+some : b[j] = IF j <= d THEN z[j] ELSE tail[j - d]
      <4>1. IsJoined(z \o tail, z, tail, d, some)
        BY <1>10, <2>3, JoinedIs
      <4>2. IsJoined(b, z, tail, d, some)
        BY <2>4, <4>1
      <4> QED
        BY <4>2 DEF IsJoined
    <3>2. d + some = depth
      BY <2>1
    <3> QED
      BY <3>1, <3>2
  <2>6. end = Append(b, 0)
    <3>1. end = b \o <<0>>
      BY <1>11, <2>1, <2>2, <2>4
    <3> QED
      BY <2>5, <3>1, AppendIsConcat
  <2>7. /\ end \in Seq(Codepoints) /\ Len(end) = depth + 1
        /\ \A j \in 1..depth : end[j] = b[j]
        /\ end[depth + 1] = 0
    BY <2>5, <2>6, CodepointIsNat, Longer
  <2>8. ASSUME NEW j \in 1..depth+1 PROVE end[j] = Padded(w, depth, len + 1 + j - 1)
    <3>1. PICK k \in Nat : k = len + j
      OBVIOUS
    <3>2. CASE j = depth + 1
      <4>1. ~(k <= depth + Len(w))
        BY <1>1, <3>1, <3>2
      <4> QED
        BY <2>7, <3>1, <3>2, <4>1 DEF Padded
    <3>3. CASE j # depth + 1 /\ j <= d
      <4>1. j \in 1..depth /\ j \in 1..d
        BY <3>3
      <4>2. ~(depth < k)
        BY <1>3, <2>1, <3>1, <3>3
      <4> QED
        BY <2>3, <2>5, <2>7, <3>1, <3>3, <4>1, <4>2 DEF Padded
    <3>4. CASE j # depth + 1 /\ ~(j <= d)
      <4>1. j \in 1..depth /\ j - d \in 1..some
        BY <2>1, <3>4
      <4>2. end[j] = w[len - some + (j - d)]
        BY <1>10, <2>5, <2>7, <3>4, <4>1
      <4>3. len - some + (j - d) = k - depth /\ depth < k /\ k <= depth + Len(w)
        BY <1>1, <1>3, <2>1, <3>1, <4>1
      <4> QED
        BY <3>1, <4>2, <4>3 DEF Padded
    <3> QED
      BY <3>2, <3>3, <3>4
  <2> QED
    BY <2>7, <2>8 DEF IsWindow
<1>13. PICK A : A = [i \in 1..some |-> SubSeq(start, i, i + depth)]
  OBVIOUS
<1>14. \A i \in 1..some : IsWindow(A[i], w, depth, i)
  <2> SUFFICES ASSUME NEW i \in 1..some PROVE IsWindow(A[i], w, depth, i)
    OBVIOUS
  <2>1. i \in Nat \ {0} /\ i + depth <= Len(start)
    BY <1>8
  <2>2. ASSUME NEW j \in i..i+depth PROVE start[j] = Padded(w, depth, i + j - i)
    <3>1. j \in 1..depth+some /\ i + j - i = j
      OBVIOUS
    <3> QED
      BY <1>8, <3>1
  <2>3. IsWindow(SubSeq(start, i, i + depth), w, depth, i)
    BY <1>8, <2>1, <2>2, PartIsWindow
  <2> QED
    BY <1>13, <2>3
<1>15. PICK B : B = [i \in 1..len-some |-> SubSeq(w, i, i + depth)]
  OBVIOUS
<1>16. \A i \in 1..len-some : IsWindow(B[i], w, depth, some + i)
  <2> SUFFICES ASSUME NEW i \in 1..len-some PROVE IsWindow(B[i], w, depth, some + i)
    OBVIOUS
  <2>1. i \in Nat \ {0} /\ some = depth /\ i + depth <= Len(w)
    BY <1>1, <1>3
  <2>2. PICK h \in Nat : h = some + i
    BY <2>1
  <2>3. ASSUME NEW j \in i..i+depth PROVE w[j] = Padded(w, depth, h + j - i)
    <3>1. PICK k \in Nat : k = depth + j
      BY <2>1
    <3>2. h + j - i = k /\ depth < k /\ k <= depth + Len(w) /\ k - depth = j
      BY <2>1, <2>2, <3>1
    <3> QED
      BY <3>2 DEF Padded
  <2>4. IsWindow(SubSeq(w, i, i + depth), w, depth, h)
    BY <2>1, <2>3, PartIsWindow
  <2> QED
    BY <1>15, <2>2, <2>4
<1>17. PICK Z : Z = Seq(Codepoints)
  OBVIOUS
<1>18. A \in Seq(Z) /\ Len(A) = some
  <2>1. \A i \in 1..some : A[i] \in Z
    BY <1>14, <1>17 DEF IsWindow
  <2>2. A \in [1..some -> Z]
    BY <1>13, <2>1
  <2> QED
    BY <2>2
<1>19. PICK rest \in Nat : rest = len - some
  BY <1>3
<1>20. B \in Seq(Z) /\ Len(B) = rest
  <2>1. \A i \in 1..rest : B[i] \in Z
    BY <1>16, <1>17, <1>19 DEF IsWindow
  <2>2. B \in [1..rest -> Z]
    BY <1>15, <1>19, <2>1
  <2> QED
    BY <2>2
<1>21. Windows(w) = A \o B \o <<end>>
  BY <1>1, <1>2, <1>4, <1>5, <1>7, <1>9, <1>11, <1>13, <1>15 DEF Windows
<1>22. PICK C : C = A \o B
  OBVIOUS
<1>23. C \in Seq(Z) /\ Len(C) = len
       /\ \A i \in 1..len : C[i] = IF i <= some THEN A[i] ELSE B[i - some]
  <2>1. /\ C \in Seq(Z) /\ Len(C) = some + rest
        /\ \A i \in 1..some+rest : C[i] = IF i <= some THEN A[i] ELSE B[i - some]
    BY <1>18, <1>20, <1>22, ConcatProperties
  <2>2. some + rest = len
    BY <1>19
  <2> QED
    BY <2>1, <2>2
<1>24. PICK D : D = Append(C, end)
  OBVIOUS
<1>25. Windows(w) = D
  <2>1. end \in Z
    BY <1>12, <1>17 DEF IsWindow
  <2> QED
    BY <1>21, <1>22, <1>23, <1>24, <2>1, AppendIsConcat
<1>26. /\ Len(D) = len + 1 /\ D[len + 1] = end
       /\ \A i \in 1..len : D[i] = C[i]
  <2>1. end \in Z
    BY <1>12, <1>17 DEF IsWindow
  <2> QED
    BY <1>23, <1>24, <2>1, AppendProperties
<1>27. ASSUME NEW i \in 1..len+1 PROVE IsWindow(D[i], w, depth, i)
  <2>1. CASE i = len + 1
    BY <1>12, <1>26, <2>1
  <2>2. CASE i # len + 1 /\ i <= some
    <3>1. i \in 1..len /\ i \in 1..some
      BY <2>2
    <3> QED
      BY <1>14, <1>23, <1>26, <2>2, <3>1
  <2>3. CASE i # len + 1 /\ ~(i <= some)
    <3>1. i \in 1..len
      BY <2>3
    <3>2. PICK k \in 1..len-some : k = i - some
      <4>1. i - some \in 1..len-some
        BY <2>3
      <4> QED
        BY <4>1
    <3>3. some + k = i
      BY <3>2
    <3>4. IsWindow(B[k], w, depth, some + k)
      BY <1>16
    <3> QED
      BY <1>23, <1>26, <2>3, <3>1, <3>2, <3>3, <3>4
  <2> QED
    BY <2>1, <2>2, <2>3
<1> QED
  BY <1>1, <1>25, <1>26, <1>27

\* Neighbouring windows overlap in a context.
LEMMA WindowNext ==
  ASSUME NEW depth \in Nat \ {0}, NEW w \in Seq(Codepoints), NEW i \in Nat,
         NEW s, IsWindow(s, w, depth, i), NEW t, IsWindow(t, w, depth, i + 1)
  PROVE  Tail(s) = SubSeq(t, 1, depth)
<1>1. s \in Seq(Codepoints) /\ Len(s) = depth + 1 /\ s # <<>>
  BY EmptySeq DEF IsWindow
<1>2. t \in Seq(Codepoints) /\ Len(t) = depth + 1
  BY DEF IsWindow
<1>3. PICK a \in Seq(Codepoints) : a = Tail(s)
  BY <1>1, HeadTailProperties
<1>4. Len(a) = depth /\ \A j \in 1..depth : a[j] = s[j + 1]
  <2>1. Len(Tail(s)) = Len(s) - 1 /\ \A j \in 1..Len(Tail(s)) : Tail(s)[j] = s[j + 1]
    BY <1>1, HeadTailProperties
  <2> QED
    BY <1>1, <1>3, <2>1
<1>5. PICK b \in Seq(Codepoints) : b = SubSeq(t, 1, depth)
  <2>1. depth \in Nat /\ depth < Len(t)
    BY <1>2
  <2> QED
    BY <1>2, <2>1, FirstIs
<1>6. Len(b) = depth /\ \A j \in 1..depth : b[j] = t[j]
  <2>1. \A j \in 1..depth : t[j] \in Codepoints
    BY <1>2
  <2>2. /\ Len(SubSeq(t, 1, depth)) = IF 1 <= depth THEN depth-1+1 ELSE 0
        /\ \A j \in 1..depth-1+1 : SubSeq(t, 1, depth)[j] = t[1+j-1]
    BY <2>1, SubSeqProperties
  <2> QED
    BY <1>5, <2>2
<1>7. ASSUME NEW j \in 1..depth PROVE a[j] = b[j]
  <2>1. s[j + 1] = Padded(w, depth, i + (j + 1) - 1)
    BY DEF IsWindow
  <2>2. t[j] = Padded(w, depth, i + 1 + j - 1)
    BY DEF IsWindow
  <2>3. i + (j + 1) - 1 = i + 1 + j - 1
    OBVIOUS
  <2> QED
    BY <1>4, <1>6, <2>1, <2>2, <2>3
<1>8. a = b
  BY <1>4, <1>6, <1>7, SeqEqual
<1> QED
  BY <1>3, <1>5, <1>8

LEMMA WindowFirst ==
  ASSUME NEW depth \in Nat \ {0}, NEW w \in Seq(Codepoints), NEW s, IsWindow(s, w, depth, 1)
  PROVE  SubSeq(s, 1, depth) = Zeros(depth)
<1>1. s \in Seq(Codepoints) /\ Len(s) = depth + 1
  BY DEF IsWindow
<1>2. PICK b \in Seq(Codepoints) : b = SubSeq(s, 1, depth)
  <2>1. depth \in Nat /\ depth < Len(s)
    BY <1>1
  <2> QED
    BY <1>1, <2>1, FirstIs
<1>3. Len(b) = depth /\ \A j \in 1..depth : b[j] = s[j]
  <2>1. \A j \in 1..depth : s[j] \in Codepoints
    BY <1>1
  <2>2. /\ Len(SubSeq(s, 1, depth)) = IF 1 <= depth THEN depth-1+1 ELSE 0
        /\ \A j \in 1..depth-1+1 : SubSeq(s, 1, depth)[j] = s[1+j-1]
    BY <2>1, SubSeqProperties
  <2> QED
    BY <1>2, <2>2
<1>4. PICK z \in Seq(Codepoints) : z = Zeros(depth)
  BY ZerosAre
<1>5. Len(z) = depth /\ \A j \in 1..depth : z[j] = 0
  BY <1>4, ZerosAre
<1>6. ASSUME NEW j \in 1..depth PROVE b[j] = z[j]
  <2>1. s[j] = Padded(w, depth, 1 + j - 1)
    BY DEF IsWindow
  <2>2. ~(depth < 1 + j - 1)
    OBVIOUS
  <2> QED
    BY <1>3, <1>5, <2>1, <2>2 DEF Padded
<1>7. b = z
  BY <1>3, <1>5, <1>6, SeqEqual
<1> QED
  BY <1>2, <1>4, <1>7

LEMMA WindowLast ==
  ASSUME NEW depth \in Nat \ {0}, NEW w \in Seq(Codepoints), NEW i, i = Len(w) + 1,
         NEW s, IsWindow(s, w, depth, i)
  PROVE  s[depth + 1] = 0
<1>1. s[depth + 1] = Padded(w, depth, i + (depth + 1) - 1)
  BY DEF IsWindow
<1>2. PICK len \in Nat : len = Len(w)
  OBVIOUS
<1>3. ~(i + (depth + 1) - 1 <= depth + len)
  BY <1>2
<1> QED
  BY <1>1, <1>2, <1>3 DEF Padded

LEMMA WindowIs ==
  ASSUME NEW depth \in Nat \ {0}, NEW s \in Seq(Codepoints), Len(s) = depth + 1
  PROVE  /\ SubSeq(s, 1, depth) \in Seq(Codepoints) /\ Len(SubSeq(s, 1, depth)) = depth
         /\ s[depth + 1] \in Codepoints
         /\ s = Append(SubSeq(s, 1, depth), s[depth + 1])
<1>1. depth \in Nat /\ depth < Len(s)
  OBVIOUS
<1>2. /\ SubSeq(s, 1, depth) \in Seq(Codepoints) /\ Len(SubSeq(s, 1, depth)) = depth
      /\ s[depth + 1] \in Codepoints
      /\ SubSeq(s, 1, depth + 1) = Append(SubSeq(s, 1, depth), s[depth + 1])
  BY <1>1, FirstIs
<1>3. SubSeq(s, 1, depth + 1) = s
  <2>1. SubSeq(s, 1, Len(s)) = s
    BY SubSeqFull
  <2> QED
    BY <2>1
<1> QED
  BY <1>2, <1>3

-----------------------------------------------------------------------------
(* Markov: all windows inserted.                                           *)

\* f inserts the first m windows over a word.
Inserting(f, m, memory, w, v) ==
  f = [k \in 0..m |-> IF k = 0 THEN memory ELSE WordInserted(f[k-1], Windows(w)[k], v)]

LEMMA InsertingFound ==
  ASSUME NEW memory, NEW w, NEW v
  PROVE  \A m \in Nat : \E f : Inserting(f, m, memory, w, v)
<1> DEFINE S == {m \in Nat : \E f : Inserting(f, m, memory, w, v)}
<1>1. 0 \in S
  <2>1. PICK f : f = [k \in 0..0 |-> memory]
    OBVIOUS
  <2>2. \A k \in 0..0 : f[k] = IF k = 0 THEN memory ELSE WordInserted(f[k-1], Windows(w)[k], v)
    BY <2>1
  <2>3. Inserting(f, 0, memory, w, v)
    BY <2>1, <2>2 DEF Inserting
  <2> QED
    BY <2>3
<1>2. ASSUME NEW n \in Nat, n \in S PROVE n + 1 \in S
  <2>1. PICK m \in Nat : m = n + 1
    OBVIOUS
  <2>2. PICK f : Inserting(f, n, memory, w, v)
    BY <1>2
  <2>3. PICK z : z = WordInserted(f[n], Windows(w)[m], v)
    OBVIOUS
  <2>4. PICK g : g = [k \in 0..m |-> IF k = m THEN z ELSE f[k]]
    OBVIOUS
  <2>5. ASSUME NEW k \in 0..m
        PROVE  g[k] = IF k = 0 THEN memory ELSE WordInserted(g[k-1], Windows(w)[k], v)
    <3>1. CASE k = 0
      <4>1. k # m /\ k \in 0..n
        BY <2>1, <3>1
      <4> QED
        BY <2>2, <2>4, <3>1, <4>1 DEF Inserting
    <3>2. CASE k # 0
      <4>1. k - 1 \in 0..n /\ k - 1 \in 0..m /\ k - 1 # m
        BY <2>1, <3>2
      <4>2. g[k - 1] = f[k - 1]
        BY <2>4, <4>1
      <4>3. CASE k = m
        <5>1. k - 1 = n
          BY <2>1, <4>3
        <5> QED
          BY <2>3, <2>4, <3>2, <4>2, <4>3, <5>1
      <4>4. CASE k # m
        <5>1. k \in 0..n
          BY <2>1, <4>4
        <5>2. f[k] = WordInserted(f[k-1], Windows(w)[k], v)
          BY <2>2, <3>2, <5>1 DEF Inserting
        <5> QED
          BY <2>4, <3>2, <4>2, <4>4, <5>2
      <4> QED
        BY <4>3, <4>4
    <3> QED
      BY <3>1, <3>2
  <2>6. g = [k \in 0..m |-> g[k]]
    BY <2>4
  <2>7. Inserting(g, m, memory, w, v)
    BY <2>5, <2>6 DEF Inserting
  <2> QED
    BY <2>1, <2>7
<1> HIDE DEF S
<1>3. \A n \in Nat : n \in S
  BY <1>1, <1>2, SetInduction
<1> QED
  BY <1>3 DEF S


\* The tree while windows are inserted, and after how much.
Going(M, depth, c, last) ==
  \E n : \E P :
    /\ IsTree(M, P, n, depth) /\ Counted(M, P, n, depth, c)
    /\ Covered(M, P, n, depth, c, last) /\ Started(M, P, n, depth, c)

\* The tree between two words: only before the first is there no leaf.
Standing(M, P, n, depth, c) ==
  /\ IsTree(M, P, n, depth) /\ Counted(M, P, n, depth, c) /\ Covered(M, P, n, depth, c, <<>>)
  /\ Started(M, P, n, depth, c) \/ (c = 0 /\ InUse(M[1]) = {})

LEMMA WindowGoes ==
  ASSUME NEW depth \in Nat \ {0}, level = depth, NEW c \in Nat, NEW v \in Nat,
         NEW n, NEW P, NEW M, IsTree(M, P, n, depth), Counted(M, P, n, depth, c),
         NEW last, Covered(M, P, n, depth, c, last), c > 0 => Started(M, P, n, depth, c),
         NEW s \in Seq(Codepoints), Len(s) = depth + 1,
         v # 0 => last = <<>> \/ Tail(last) = SubSeq(s, 1, depth),
         SubSeq(s, 1, depth) = Zeros(depth) \/ (Started(M, P, n, depth, c) /\ (c = 0 => v = 0)),
         NEW next, v = 0 => next = last, v # 0 => next = s
  PROVE  Going(WordInserted(M, s, v), depth, c + v, next)
<1>1. PICK p \in Seq(Codepoints), d \in Codepoints : p = SubSeq(s, 1, depth) /\ d = s[depth + 1]
  BY WindowIs
<1>2. Len(p) = depth /\ s = Append(p, d)
  BY <1>1, WindowIs
<1>3. PICK N : N = WordInserted(M, s, v)
  OBVIOUS
<1>4. PICK m, Q : /\ m \in Nat /\ IsTree(WordInserted(M, s, v), Q, m, depth)
                  /\ Gains(M, P, n, depth, WordInserted(M, s, v), Q, m,
                           SubSeq(s, 1, depth), Entry(s[depth + 1], v))
  BY WordIs
<1>5. IsTree(N, Q, m, depth) /\ Gains(M, P, n, depth, N, Q, m, p, Entry(d, v))
  BY <1>1, <1>3, <1>4
<1>6. v # 0 => last = <<>> \/ Tail(last) = p
  BY <1>1
<1>7. (v = 0 => next = last) /\ (v # 0 => next = Append(p, d))
  BY <1>2
<1>8. Counted(N, Q, m, depth, c + v) /\ Covered(N, Q, m, depth, c + v, next)
  BY <1>2, <1>5, <1>6, <1>7, CoveredMore
<1>9. p = Zeros(depth) \/ (Started(M, P, n, depth, c) /\ (c = 0 => v = 0))
  BY <1>1
<1>10. Started(N, Q, m, depth, c + v)
  BY <1>5, <1>9, StartedMore
<1>11. Going(N, depth, c + v, next)
  BY <1>5, <1>8, <1>10 DEF Going
<1> QED
  BY <1>3, <1>11

LEMMA Times ==
  ASSUME NEW i \in Nat, NEW v \in Nat
  PROVE  i * v \in Nat /\ (i + 1) * v = i * v + v
OBVIOUS

\* What is to follow once the last window of some was inserted.
ToFollow(v, s) == IF v = 0 THEN <<>> ELSE s

LEMMA EndedCovers ==
  ASSUME NEW depth \in Nat \ {0}, NEW n, NEW P, NEW M, IsTree(M, P, n, depth), NEW c,
         NEW last, Covered(M, P, n, depth, c, last), last[depth + 1] = 0
  PROVE  Covered(M, P, n, depth, c, <<>>)
<1> SUFFICES ASSUME NEW a \in 1..n, NEW d \in Codepoints,
                    Len(P[a]) = depth, d # 0, Lookup(M[a], d) # 0
             PROVE  \E b \in 1..n : P[b] = Tail(Append(P[a], d)) /\ (c < CountMax => M[b].total # 0)
  BY DEF Covered
<1>1. PICK p \in Seq(Codepoints) : p = P[a]
  BY DEF IsTree
<1>2. Append(p, d)[depth + 1] = d
  BY <1>1, Longer
<1>3. Append(P[a], d) # last
  BY <1>1, <1>2
<1> QED
  BY <1>3 DEF Covered

\* passgen_markov_add: all windows over a word.
LEMMA AllGoes ==
  ASSUME NEW depth \in Nat \ {0}, level = depth, NEW c \in Nat, NEW v \in Nat,
         NEW n, NEW P, NEW M, Standing(M, P, n, depth, c),
         NEW w \in Seq(Codepoints), NEW m, m = Len(w) + 1,
         NEW f, Inserting(f, m, M, w, v)
  PROVE  \E k : \E Q : Standing(f[m], Q, k, depth, c + v * m)
<1>1. m \in Nat \ {0}
  OBVIOUS
<1>2. f[0] = M /\ \A i \in 1..m : f[i] = WordInserted(f[i-1], Windows(w)[i], v)
  BY <1>1 DEF Inserting
<1>3. \A i \in 1..m : IsWindow(Windows(w)[i], w, depth, i)
  BY WindowsAre
<1> DEFINE S == {i \in Nat : i < m => Going(f[i+1], depth, c + (i+1) * v, ToFollow(v, Windows(w)[i+1]))}
<1>4. 0 \in S
  <2>1. PICK s : s = Windows(w)[1]
    OBVIOUS
  <2>2. IsWindow(s, w, depth, 1)
    BY <1>1, <1>3, <2>1
  <2>3. s \in Seq(Codepoints) /\ Len(s) = depth + 1
    BY <2>2 DEF IsWindow
  <2>4. SubSeq(s, 1, depth) = Zeros(depth)
    BY <2>2, WindowFirst
  <2>5. /\ IsTree(M, P, n, depth) /\ Counted(M, P, n, depth, c) /\ Covered(M, P, n, depth, c, <<>>)
        /\ c > 0 => Started(M, P, n, depth, c)
    BY DEF Standing
  <2>6. PICK next : next = ToFollow(v, s)
    OBVIOUS
  <2>7. (v = 0 => next = <<>>) /\ (v # 0 => next = s)
    BY <2>6 DEF ToFollow
  <2>8. PICK last : last = <<>>
    OBVIOUS
  <2>9. Covered(M, P, n, depth, c, last) /\ (v = 0 => next = last)
    BY <2>5, <2>7, <2>8
  <2>10. Going(WordInserted(M, s, v), depth, c + v, next)
    BY <2>3, <2>4, <2>5, <2>7, <2>8, <2>9, WindowGoes
  <2>11. f[1] = WordInserted(M, s, v)
    <3>1. 1 \in 1..m /\ 1 - 1 = 0
      BY <1>1
    <3> QED
      BY <1>2, <2>1, <3>1
  <2>12. (0 + 1) * v = v /\ 0 + 1 = 1
    OBVIOUS
  <2> QED
    BY <2>1, <2>6, <2>10, <2>11, <2>12
<1>5. ASSUME NEW i \in Nat, i \in S PROVE i + 1 \in S
  <2> SUFFICES ASSUME i + 1 < m
               PROVE  Going(f[i+1+1], depth, c + (i+1+1) * v, ToFollow(v, Windows(w)[i+1+1]))
    OBVIOUS
  <2>1. PICK j \in 1..m : j = i + 1
    <3>1. i + 1 \in 1..m
      BY <1>1
    <3> QED
      BY <3>1
  <2>2. PICK k \in 1..m : k = j + 1
    <3>1. j + 1 \in 1..m
      BY <1>1, <2>1
    <3> QED
      BY <3>1
  <2>3. PICK e \in Nat : e = c + j * v
    BY <2>1, Times
  <2>4. e + v = c + k * v /\ (e = 0 => v = 0)
    <3>1. i * v \in Nat /\ j * v = i * v + v
      BY <2>1, Times
    <3>2. k * v = j * v + v
      BY <2>1, <2>2, Times
    <3> QED
      BY <2>3, <3>1, <3>2
  <2>5. PICK s, t : s = Windows(w)[j] /\ t = Windows(w)[k]
    OBVIOUS
  <2>6. IsWindow(s, w, depth, j) /\ IsWindow(t, w, depth, j + 1)
    BY <1>3, <2>2, <2>5
  <2>7. t \in Seq(Codepoints) /\ Len(t) = depth + 1
    BY <2>6 DEF IsWindow
  <2>8. Tail(s) = SubSeq(t, 1, depth)
    BY <2>1, <2>6, WindowNext
  <2>9. PICK N, last : N = f[j] /\ last = ToFollow(v, s)
    OBVIOUS
  <2>10. Going(N, depth, e, last)
    <3>1. i < m
      BY <1>1
    <3>2. Going(f[i+1], depth, c + (i+1) * v, ToFollow(v, Windows(w)[i+1]))
      BY <1>5, <3>1
    <3> QED
      BY <2>1, <2>3, <2>5, <2>9, <3>2
  <2>11. PICK l, R : /\ IsTree(N, R, l, depth) /\ Counted(N, R, l, depth, e)
                     /\ Covered(N, R, l, depth, e, last) /\ Started(N, R, l, depth, e)
    BY <2>10 DEF Going
  <2>12. PICK next : next = ToFollow(v, t)
    OBVIOUS
  <2>13. /\ v = 0 => next = last
         /\ v # 0 => next = t /\ Tail(last) = SubSeq(t, 1, depth)
    BY <2>8, <2>9, <2>12 DEF ToFollow
  <2>14. Going(WordInserted(N, t, v), depth, e + v, next)
    BY <2>4, <2>7, <2>11, <2>13, WindowGoes
  <2>15. f[k] = WordInserted(N, t, v)
    <3>1. k - 1 = j
      BY <2>2
    <3> QED
      BY <1>2, <2>5, <2>9, <3>1
  <2>16. i + 1 + 1 = k
    BY <2>1, <2>2
  <2> QED
    BY <2>4, <2>5, <2>12, <2>14, <2>15, <2>16
<1> HIDE DEF S
<1>6. \A i \in Nat : i \in S
  BY <1>4, <1>5, SetInduction
<1>7. PICK i \in Nat : i + 1 = m
  <2>1. m - 1 \in Nat /\ (m - 1) + 1 = m
    BY <1>1
  <2> QED
    BY <2>1
<1>8. PICK s, N : s = Windows(w)[m] /\ N = f[m]
  OBVIOUS
<1>9. Going(N, depth, c + m * v, ToFollow(v, s))
  <2>1. i < m
    BY <1>7
  <2>2. Going(f[i+1], depth, c + (i+1) * v, ToFollow(v, Windows(w)[i+1]))
    BY <1>6, <2>1 DEF S
  <2> QED
    BY <1>7, <1>8, <2>2
<1>10. PICK k, Q : /\ IsTree(N, Q, k, depth) /\ Counted(N, Q, k, depth, c + m * v)
                   /\ Covered(N, Q, k, depth, c + m * v, ToFollow(v, s))
                   /\ Started(N, Q, k, depth, c + m * v)
  BY <1>9 DEF Going
<1>11. Covered(N, Q, k, depth, c + m * v, <<>>)
  <2>1. CASE v = 0
    BY <1>10, <2>1 DEF ToFollow
  <2>2. CASE v # 0
    <3>1. s[depth + 1] = 0
      <4>1. IsWindow(s, w, depth, m)
        BY <1>1, <1>3, <1>8
      <4> QED
        BY <4>1, WindowLast
    <3>2. ToFollow(v, s) = s
      BY <2>2 DEF ToFollow
    <3> QED
      BY <1>10, <3>1, <3>2, EndedCovers
  <2> QED
    BY <2>1, <2>2
<1>12. Standing(N, Q, k, depth, c + m * v)
  BY <1>10, <1>11 DEF Standing
<1>13. m * v = v * m
  BY <1>1
<1> QED
  BY <1>8, <1>12, <1>13

-----------------------------------------------------------------------------
(* Markov: down to a leaf, and through all nodes.                          *)

\* f goes down by the slots of the last codepoints of a word.
Reaching(f, m, M, s, depth) ==
  f = [k \in 0..m |-> IF k = 0 THEN Root ELSE IF f[k-1] = 0 THEN 0 ELSE Value(M[f[k-1]], s[Len(s) - depth + k])]

LEMMA ReachingFound ==
  ASSUME NEW M, NEW s, NEW depth
  PROVE  \A m \in Nat : \E f : Reaching(f, m, M, s, depth)
<1> DEFINE S == {m \in Nat : \E f : Reaching(f, m, M, s, depth)}
<1>1. 0 \in S
  <2>1. PICK f : f = [k \in 0..0 |-> Root]
    OBVIOUS
  <2>2. \A k \in 0..0 : f[k] = IF k = 0 THEN Root ELSE IF f[k-1] = 0 THEN 0 ELSE Value(M[f[k-1]], s[Len(s) - depth + k])
    BY <2>1
  <2>3. Reaching(f, 0, M, s, depth)
    BY <2>1, <2>2 DEF Reaching
  <2> QED
    BY <2>3
<1>2. ASSUME NEW n \in Nat, n \in S PROVE n + 1 \in S
  <2>1. PICK m \in Nat : m = n + 1
    OBVIOUS
  <2>2. PICK f : Reaching(f, n, M, s, depth)
    BY <1>2
  <2>3. PICK z : z = IF f[n] = 0 THEN 0 ELSE Value(M[f[n]], s[Len(s) - depth + m])
    OBVIOUS
  <2>4. PICK g : g = [k \in 0..m |-> IF k = m THEN z ELSE f[k]]
    OBVIOUS
  <2>5. ASSUME NEW k \in 0..m
        PROVE  g[k] = IF k = 0 THEN Root ELSE IF g[k-1] = 0 THEN 0 ELSE Value(M[g[k-1]], s[Len(s) - depth + k])
    <3>1. CASE k = 0
      <4>1. k # m /\ k \in 0..n
        BY <2>1, <3>1
      <4> QED
        BY <2>2, <2>4, <3>1, <4>1 DEF Reaching
    <3>2. CASE k # 0
      <4>1. k - 1 \in 0..n /\ k - 1 \in 0..m /\ k - 1 # m
        BY <2>1, <3>2
      <4>2. g[k - 1] = f[k - 1]
        BY <2>4, <4>1
      <4>3. CASE k = m
        <5>1. k - 1 = n
          BY <2>1, <4>3
        <5> QED
          BY <2>3, <2>4, <3>2, <4>2, <4>3, <5>1
      <4>4. CASE k # m
        <5>1. k \in 0..n
          BY <2>1, <4>4
        <5>2. f[k] = IF f[k-1] = 0 THEN 0 ELSE Value(M[f[k-1]], s[Len(s) - depth + k])
          BY <2>2, <3>2, <5>1 DEF Reaching
        <5> QED
          BY <2>4, <3>2, <4>2, <4>4, <5>2
      <4> QED
        BY <4>3, <4>4
    <3> QED
      BY <3>1, <3>2
  <2>6. g = [k \in 0..m |-> g[k]]
    BY <2>4
  <2>7. Reaching(g, m, M, s, depth)
    BY <2>5, <2>6 DEF Reaching
  <2> QED
    BY <2>1, <2>7
<1> HIDE DEF S
<1>3. \A n \in Nat : n \in S
  BY <1>1, <1>2, SetInduction
<1> QED
  BY <1>3 DEF S

\* f goes through all children, level by level.
Freeing(f, m, M) ==
  f = [k \in 0..m |-> IF k = 0 THEN {Root} ELSE UNION {{M[a].slots[s].value : s \in InUse(M[a])} : a \in f[k-1]}]

LEMMA FreeingFound ==
  ASSUME NEW M
  PROVE  \A m \in Nat : \E f : Freeing(f, m, M)
<1> DEFINE S == {m \in Nat : \E f : Freeing(f, m, M)}
<1>1. 0 \in S
  <2>1. PICK f : f = [k \in 0..0 |-> {Root}]
    OBVIOUS
  <2>2. \A k \in 0..0 : f[k] = IF k = 0 THEN {Root} ELSE UNION {{M[a].slots[s].value : s \in InUse(M[a])} : a \in f[k-1]}
    BY <2>1
  <2>3. Freeing(f, 0, M)
    BY <2>1, <2>2 DEF Freeing
  <2> QED
    BY <2>3
<1>2. ASSUME NEW n \in Nat, n \in S PROVE n + 1 \in S
  <2>1. PICK m \in Nat : m = n + 1
    OBVIOUS
  <2>2. PICK f : Freeing(f, n, M)
    BY <1>2
  <2>3. PICK z : z = UNION {{M[a].slots[s].value : s \in InUse(M[a])} : a \in f[n]}
    OBVIOUS
  <2>4. PICK g : g = [k \in 0..m |-> IF k = m THEN z ELSE f[k]]
    OBVIOUS
  <2>5. ASSUME NEW k \in 0..m
        PROVE  g[k] = IF k = 0 THEN {Root} ELSE UNION {{M[a].slots[s].value : s \in InUse(M[a])} : a \in g[k-1]}
    <3>1. CASE k = 0
      <4>1. k # m /\ k \in 0..n
        BY <2>1, <3>1
      <4> QED
        BY <2>2, <2>4, <3>1, <4>1 DEF Freeing
    <3>2. CASE k # 0
      <4>1. k - 1 \in 0..n /\ k - 1 \in 0..m /\ k - 1 # m
        BY <2>1, <3>2
      <4>2. g[k - 1] = f[k - 1]
        BY <2>4, <4>1
      <4>3. CASE k = m
        <5>1. k - 1 = n
          BY <2>1, <4>3
        <5> QED
          BY <2>3, <2>4, <3>2, <4>2, <4>3, <5>1
      <4>4. CASE k # m
        <5>1. k \in 0..n
          BY <2>1, <4>4
        <5>2. f[k] = UNION {{M[a].slots[s].value : s \in InUse(M[a])} : a \in f[k-1]}
          BY <2>2, <3>2, <5>1 DEF Freeing
        <5> QED
          BY <2>4, <3>2, <4>2, <4>4, <5>2
      <4> QED
        BY <4>3, <4>4
    <3> QED
      BY <3>1, <3>2
  <2>6. g = [k \in 0..m |-> g[k]]
    BY <2>4
  <2>7. Freeing(g, m, M)
    BY <2>5, <2>6 DEF Freeing
  <2> QED
    BY <2>1, <2>7
<1> HIDE DEF S
<1>3. \A n \in Nat : n \in S
  BY <1>1, <1>2, SetInduction
<1> QED
  BY <1>3 DEF S

LEMMA ReachedIs ==
  ASSUME level \in Nat
  PROVE  \E f : Reaching(f, level, tables, word, level) /\ Reached = f[level]
<1>1. PICK f : f = CHOOSE g : Reaching(g, level, tables, word, level)
  OBVIOUS
<1>2. Reaching(f, level, tables, word, level)
  <2>1. \E g : Reaching(g, level, tables, word, level)
    BY ReachingFound
  <2> QED
    BY <1>1, <2>1
<1>3. Reached = f[level]
  BY <1>1 DEF Reached, Reaching
<1> QED
  BY <1>2, <1>3

\* All that f goes through.
Through(f, m) == UNION {f[k] : k \in 0..m}

LEMMA FreedIs ==
  ASSUME level \in Nat
  PROVE  \E f : Freeing(f, level, tables) /\ Freed = Through(f, level)
<1>1. PICK f : f = CHOOSE g : Freeing(g, level, tables)
  OBVIOUS
<1>2. Freeing(f, level, tables)
  <2>1. \E g : Freeing(g, level, tables)
    BY FreeingFound
  <2> QED
    BY <1>1, <2>1
<1>3. Freed = Through(f, level)
  BY <1>1 DEF Freed, Freeing, Through
<1> QED
  BY <1>2, <1>3

\* The parent of a table.
IsParent(M, P, a, c, b) ==
  /\ P[b] = Append(P[a], c) /\ Len(P[b]) = Len(P[a]) + 1
  /\ Lookup(M[a], c) = b /\ Lookup(M[a], c) # 0

LEMMA ParentIs ==
  ASSUME NEW n, NEW P, NEW M, NEW depth \in Nat, IsTree(M, P, n, depth),
         NEW b \in 1..n, Len(P[b]) # 0
  PROVE  \E a \in 1..n : \E c \in Codepoints : IsParent(M, P, a, c, b)
<1>1. n \in Nat \ {0} /\ P[1] = <<>>
  BY DEF IsTree
<1>2. b \in 2..n /\ b # 0
  <2>1. b # 1
    BY <1>1, EmptySeq
  <2> QED
    BY <1>1, <2>1
<1>3. PICK a \in 1..n, c \in Codepoints : Len(P[a]) # depth /\ Lookup(M[a], c) = b
  BY <1>2 DEF IsTree
<1>4. P[b] = Append(P[a], c)
  <2>1. \E e \in 2..n : e = b /\ P[e] = Append(P[a], c)
    BY <1>2, <1>3, ChildFound
  <2> QED
    BY <2>1
<1>5. PICK p \in Seq(Codepoints) : p = P[a]
  BY DEF IsTree
<1>6. Len(P[b]) = Len(P[a]) + 1
  BY <1>4, <1>5, Longer
<1>7. Lookup(M[a], c) # 0
  BY <1>2, <1>3
<1> QED
  BY <1>3, <1>4, <1>6, <1>7 DEF IsParent

\* f goes to all tables at a depth that the last codepoints of s lead to.
Led(P, n, f, s, depth, k) ==
  \A a \in 1..n : Len(P[a]) = k /\ (\A j \in 1..k : P[a][j] = s[Len(s) - depth + j]) => f[k] = a

\* Lookups lead to the leaf of a context that there is.
LEMMA ReachesLeaf ==
  ASSUME NEW n, NEW P, NEW M, NEW depth \in Nat, IsTree(M, P, n, depth),
         NEW s, NEW f, Reaching(f, depth, M, s, depth),
         NEW b \in 1..n, Len(P[b]) = depth,
         \A j \in 1..depth : P[b][j] = s[Len(s) - depth + j]
  PROVE  f[depth] = b
<1>1. f[0] = 1 /\ \A k \in 1..depth : f[k] = IF f[k-1] = 0 THEN 0 ELSE Value(M[f[k-1]], s[Len(s) - depth + k])
  <2>1. f = [k \in 0..depth |-> IF k = 0 THEN 1 ELSE IF f[k-1] = 0 THEN 0
                                ELSE Value(M[f[k-1]], s[Len(s) - depth + k])]
    BY DEF Reaching, Root
  <2> QED
    BY <2>1
<1> DEFINE S == {k \in Nat : k <= depth => Led(P, n, f, s, depth, k)}
<1>2. 0 \in S
  <2> SUFFICES ASSUME NEW a \in 1..n, Len(P[a]) = 0 PROVE f[0] = a
    BY DEF Led
  <2>1. P[a] = <<>>
    <3>1. P[a] \in Seq(Codepoints)
      BY DEF IsTree
    <3> QED
      BY <3>1, EmptySeq
  <2>2. P[1] = <<>> /\ 1 \in 1..n
    <3>1. n \in Nat \ {0}
      BY DEF IsTree
    <3>2. P[1] = <<>>
      BY DEF IsTree
    <3> QED
      BY <3>1, <3>2
  <2>3. a = 1
    BY <2>1, <2>2 DEF IsTree
  <2> QED
    BY <1>1, <2>3
<1>3. ASSUME NEW k \in Nat, k \in S PROVE k + 1 \in S
  <2> SUFFICES ASSUME k + 1 <= depth PROVE Led(P, n, f, s, depth, k + 1)
    OBVIOUS
  <2> SUFFICES ASSUME NEW e \in 1..n, Len(P[e]) = k + 1,
                      \A j \in 1..k+1 : P[e][j] = s[Len(s) - depth + j]
               PROVE  f[k+1] = e
    BY DEF Led
  <2>11. PICK a \in 1..n, c \in Codepoints : IsParent(M, P, a, c, e)
    BY ParentIs
  <2>2. PICK p \in Seq(Codepoints) : p = P[a]
    BY DEF IsTree
  <2>1. P[e] = Append(P[a], c) /\ Len(P[a]) = k /\ Lookup(M[a], c) = e /\ Lookup(M[a], c) # 0
    BY <2>2, <2>11 DEF IsParent
  <2>3. (\A j \in 1..k : P[e][j] = p[j]) /\ P[e][k + 1] = c
    BY <2>1, <2>2, Longer
  <2>4. \A j \in 1..k : P[a][j] = s[Len(s) - depth + j]
    <3> SUFFICES ASSUME NEW j \in 1..k PROVE P[a][j] = s[Len(s) - depth + j]
      OBVIOUS
    <3>1. j \in 1..k+1
      OBVIOUS
    <3> QED
      BY <2>2, <2>3, <3>1
  <2>5. f[k] = a
    BY <1>3, <2>1, <2>4 DEF Led
  <2>6. PICK i \in 1..depth : i = k + 1
    <3>1. k + 1 \in 1..depth
      OBVIOUS
    <3> QED
      BY <3>1
  <2>7. i - 1 = k /\ a # 0
    <3>1. n \in Nat
      BY DEF IsTree
    <3> QED
      BY <2>6, <3>1
  <2>8. c = s[Len(s) - depth + i]
    <3>1. i \in 1..k+1
      BY <2>6
    <3> QED
      BY <2>3, <2>6, <3>1
  <2>9. f[i] = Value(M[a], c)
    BY <1>1, <2>5, <2>7, <2>8
  <2>10. Value(M[a], c) = e
    <3>1. IsTable(M[a])
      BY DEF IsTree
    <3>2. Lookup(M[a], c) # 0
      BY <2>1
    <3> QED
      BY <2>1, <3>1, <3>2, LookupHas
  <2> QED
    BY <2>6, <2>9, <2>10
<1> HIDE DEF S
<1>4. depth \in S
  BY <1>2, <1>3, SetInduction
<1>5. Led(P, n, f, s, depth, depth)
  BY <1>4 DEF S
<1> QED
  BY <1>5 DEF Led

\* ... and to none where there is no leaf yet.
LEMMA ReachesNone ==
  ASSUME NEW M, NEW depth \in Nat \ {0}, NEW s, NEW f, Reaching(f, depth, M, s, depth), InUse(M[1]) = {}
  PROVE  f[depth] = 0
<1>1. f[0] = 1 /\ \A k \in 1..depth : f[k] = IF f[k-1] = 0 THEN 0 ELSE Value(M[f[k-1]], s[Len(s) - depth + k])
  <2>1. f = [k \in 0..depth |-> IF k = 0 THEN 1 ELSE IF f[k-1] = 0 THEN 0
                                ELSE Value(M[f[k-1]], s[Len(s) - depth + k])]
    BY DEF Reaching, Root
  <2> QED
    BY <2>1
<1>2. f[1] = 0
  <2>1. 1 \in 1..depth /\ 1 - 1 = 0
    OBVIOUS
  <2>2. f[1] = Value(M[1], s[Len(s) - depth + 1])
    BY <1>1, <2>1
  <2> QED
    BY <2>2 DEF Value
<1> DEFINE S == {k \in Nat : k < depth => f[k + 1] = 0}
<1>3. 0 \in S
  BY <1>2
<1>4. ASSUME NEW k \in Nat, k \in S PROVE k + 1 \in S
  <2> SUFFICES ASSUME k + 1 < depth PROVE f[k + 1 + 1] = 0
    OBVIOUS
  <2>1. PICK i : i = k + 1 + 1
    OBVIOUS
  <2>2. i \in 1..depth /\ i - 1 = k + 1 /\ f[k + 1] = 0
    BY <1>4, <2>1
  <2> QED
    BY <1>1, <2>1, <2>2
<1> HIDE DEF S
<1>5. PICK k \in Nat : k + 1 = depth
  <2>1. depth - 1 \in Nat /\ (depth - 1) + 1 = depth
    OBVIOUS
  <2> QED
    BY <2>1
<1>6. k \in S
  BY <1>3, <1>4, SetInduction
<1> QED
  BY <1>5, <1>6 DEF S

\* All tables are gone through, none is left behind.
LEMMA FreesAll ==
  ASSUME NEW n, NEW P, NEW M, NEW depth \in Nat, IsTree(M, P, n, depth),
         NEW f, Freeing(f, depth, M)
  PROVE  Through(f, depth) = DOMAIN M
<1>1. f[0] = {1} /\ \A k \in 1..depth : f[k] = UNION {{M[a].slots[s].value : s \in InUse(M[a])} : a \in f[k-1]}
  <2>1. f = [k \in 0..depth |-> IF k = 0 THEN {1}
                                ELSE UNION {{M[a].slots[s].value : s \in InUse(M[a])} : a \in f[k-1]}]
    BY DEF Freeing, Root
  <2>2. PICK g : g = [k \in 0..depth |-> IF k = 0 THEN {1}
                        ELSE UNION {{M[a].slots[s].value : s \in InUse(M[a])} : a \in f[k-1]}]
    OBVIOUS
  <2>3. f = g
    BY <2>1, <2>2, Zenon
  <2>4. g[0] = {1} /\ \A k \in 1..depth : g[k] = UNION {{M[a].slots[s].value : s \in InUse(M[a])} : a \in f[k-1]}
    BY <2>2
  <2> QED
    BY <2>3, <2>4
<1>2. n \in Nat \ {0} /\ DOMAIN M = 1..n /\ P[1] = <<>>
  BY DEF IsTree
<1>3. \A a \in 1..n : P[a] \in Seq(Codepoints) /\ Len(P[a]) \in 0..depth /\ IsTable(M[a])
  BY DEF IsTree
<1> DEFINE S == {k \in Nat : k <= depth => f[k] = {a \in 1..n : Len(P[a]) = k}}
<1>4. 0 \in S
  <2>1. \A a \in 1..n : Len(P[a]) = 0 => a = 1
    <3> SUFFICES ASSUME NEW a \in 1..n, Len(P[a]) = 0 PROVE a = 1
      OBVIOUS
    <3>1. P[a] = <<>>
      BY <1>3, EmptySeq
    <3> QED
      BY <1>2, <3>1 DEF IsTree
  <2>2. 1 \in 1..n /\ Len(P[1]) = 0
    BY <1>2
  <2> QED
    BY <1>1, <2>1, <2>2
<1>5. ASSUME NEW k \in Nat, k \in S PROVE k + 1 \in S
  <2> SUFFICES ASSUME k + 1 <= depth PROVE f[k + 1] = {a \in 1..n : Len(P[a]) = k + 1}
    OBVIOUS
  <2>1. PICK i \in 1..depth : i = k + 1
    <3>1. k + 1 \in 1..depth
      OBVIOUS
    <3> QED
      BY <3>1
  <2>2. PICK g : g = f[k]
    OBVIOUS
  <2>3. g = {a \in 1..n : Len(P[a]) = k}
    BY <1>5, <2>1, <2>2
  <2>4. f[i] = UNION {{M[a].slots[s].value : s \in InUse(M[a])} : a \in g}
    <3>1. i - 1 = k
      BY <2>1
    <3> QED
      BY <1>1, <2>2, <3>1
  <2>5. ASSUME NEW b \in f[i] PROVE b \in 1..n /\ Len(P[b]) = i
    <3>7. PICK a \in g : \E t \in InUse(M[a]) : b = M[a].slots[t].value
      BY <2>4
    <3>1. PICK t \in InUse(M[a]) : b = M[a].slots[t].value
      BY <3>7
    <3>2. a \in 1..n /\ Len(P[a]) = k /\ k # depth
      BY <2>1, <2>3, <3>1
    <3>3. PICK c \in Codepoints : c = M[a].slots[t].codepoint
      BY <1>3, <3>1, <3>2, SlotLookup
    <3>4. Lookup(M[a], c) = b /\ b # 0
      BY <1>3, <3>1, <3>2, <3>3, SlotLookup
    <3>5. \E e \in 2..n : e = b /\ P[e] = Append(P[a], c)
      BY <3>2, <3>4, ChildFound
    <3>6. Len(P[b]) = Len(P[a]) + 1
      BY <1>3, <3>2, <3>5, Longer
    <3> QED
      BY <2>1, <3>2, <3>5, <3>6
  <2>6. ASSUME NEW b \in 1..n, Len(P[b]) = i PROVE b \in f[i]
    <3>1. PICK a \in 1..n, c \in Codepoints : IsParent(M, P, a, c, b)
      BY <2>1, <2>6, ParentIs
    <3>2. a \in g
      <4>1. Len(P[b]) = Len(P[a]) + 1 /\ Len(P[a]) \in Nat
        BY <1>3, <3>1 DEF IsParent
      <4> QED
        BY <2>1, <2>3, <2>6, <4>1
    <3>3. Slot(M[a], c) \in InUse(M[a]) /\ M[a].slots[Slot(M[a], c)].value = b
      BY <3>1 DEF IsParent, Lookup
    <3> QED
      BY <2>4, <3>2, <3>3
  <2>7. f[i] = {a \in 1..n : Len(P[a]) = i}
    BY <2>5, <2>6
  <2> QED
    BY <2>1, <2>7
<1> HIDE DEF S
<1>6. \A k \in Nat : k \in S
  BY <1>4, <1>5, SetInduction
<1>7. \A k \in 0..depth : f[k] = {a \in 1..n : Len(P[a]) = k}
  BY <1>6 DEF S
<1>8. ASSUME NEW b \in UNION {f[k] : k \in 0..depth} PROVE b \in 1..n
  <2>1. PICK k \in 0..depth : b \in f[k]
    BY <1>8
  <2> QED
    BY <1>7, <2>1
<1>9. ASSUME NEW b \in 1..n PROVE b \in UNION {f[k] : k \in 0..depth}
  <2>1. PICK k \in 0..depth : k = Len(P[b])
    BY <1>3
  <2>2. b \in f[k]
    BY <1>7, <2>1
  <2> QED
    BY <2>2
<1>10. UNION {f[k] : k \in 0..depth} = 1..n
  BY <1>8, <1>9
<1> QED
  BY <1>2, <1>10 DEF Through

-----------------------------------------------------------------------------
(* Markov: the invariant.                                                  *)

\* The label of a leaf is what stands in a word from some place on.
Labelled(P, b, w, i, depth) ==
  Len(P[b]) = depth /\ \A j \in 1..depth : P[b][j] = w[i + j - 1]

\* A word went from leaf to leaf.
Walked(P, n, w, depth) ==
  /\ w \in Seq(Codepoints) /\ Len(w) >= depth
  /\ \A i \in 1..Len(w)-depth : \E b \in 1..n : Labelled(P, b, w, i, depth)

\* It has a leaf to go on from, or is at its start.
Ahead(M, P, n, w, depth, c) ==
  \/ w = Zeros(depth)
  \/ \E b \in 1..n : Labelled(P, b, w, Len(w) - depth + 1, depth) /\ (c < CountMax => M[b].total # 0)

\* The tree, and the word in it.
Intact(M, P, n, depth, c) ==
  /\ Standing(M, P, n, depth, c)
  /\ status # "adding" => Walked(P, n, word, depth)
  /\ status = "making" => Ahead(M, P, n, word, depth, c)

ChainInv ==
  /\ level \in 1..255 /\ level \in Levels /\ count \in Nat
  /\ status \in {"adding", "making", "made", "lost", "overrun", "freed"}
  /\ status = "freed" => tables = <<>>
  /\ status # "freed" => \E n : \E P : Intact(tables, P, n, level, count)
  /\ status = "overrun" => Len(word) >= MaxWord
  /\ NeverLost

LEMMA AllInsertedIs ==
  ASSUME NEW w, NEW v, NEW m \in Nat, m = Len(Windows(w))
  PROVE  \E f : Inserting(f, m, tables, w, v) /\ AllInserted(w, v) = f[m]
<1>1. PICK f : f = CHOOSE g : Inserting(g, m, tables, w, v)
  OBVIOUS
<1>2. Inserting(f, m, tables, w, v)
  <2>1. \E g : Inserting(g, m, tables, w, v)
    BY InsertingFound
  <2> QED
    BY <1>1, <2>1
<1>3. AllInserted(w, v) = f[m]
  BY <1>1 DEF AllInserted, Inserting
<1> QED
  BY <1>2, <1>3

\* The first tree: a root with nothing in it.
LEMMA RootStands ==
  ASSUME NEW depth \in Nat \ {0}, NEW M, M = [a \in {1} |-> NewTable("node", 1)]
  PROVE  Standing(M, [a \in {1} |-> <<>>], 1, depth, 0)
<1>1. PICK T : T = NewTable("node", 1)
  OBVIOUS
<1>2. IsTable(T) /\ T.kind = "node" /\ InUse(T) = {} /\ \A c \in Codepoints : Lookup(T, c) = 0
  <2>1. IsNew(NewTable("node", 1), "node", 1)
    BY NewTableIs
  <2> QED
    BY <1>1, <2>1 DEF IsNew
<1>3. PICK P : P = [a \in {1} |-> <<>>]
  OBVIOUS
<1>4. DOMAIN M = 1..1 /\ M[1] = T /\ P[1] = <<>> /\ 1..1 = {1} /\ 2..1 = {}
  BY <1>1, <1>3
<1>5. P \in [1..1 -> Seq(Codepoints)] /\ Len(P[1]) = 0 /\ depth # 0
  BY <1>3, <1>4, EmptySeq
<1>6. IsTree(M, P, 1, depth)
  BY <1>2, <1>4, <1>5 DEF IsTree
<1>7. Counted(M, P, 1, depth, 0) /\ Covered(M, P, 1, depth, 0, <<>>)
  BY <1>4, <1>5 DEF Counted, Covered
<1> QED
  BY <1>2, <1>3, <1>4, <1>6, <1>7 DEF Standing

LEMMA InitChain == Init => ChainInv
<1> SUFFICES ASSUME Init PROVE ChainInv
  OBVIOUS
<1>1. level \in Levels /\ level \in 1..255 /\ count = 0 /\ status = "adding"
  BY LevelsAssumption DEF Init
<1>2. tables = [a \in {1} |-> NewTable("node", 1)]
  BY DEF Init, Root
<1>3. Standing(tables, [a \in {1} |-> <<>>], 1, level, 0)
  BY <1>1, <1>2, RootStands
<1>4. \E n : \E P : Intact(tables, P, n, level, count)
  BY <1>1, <1>3 DEF Intact
<1> QED
  BY <1>1, <1>4 DEF ChainInv, NeverLost

\* A word that is made goes on from a leaf, which lookups lead to.
LEMMA ReachedLeaf ==
  ASSUME NEW depth \in Nat \ {0}, level = depth, NEW c \in Nat,
         NEW n, NEW P, Standing(tables, P, n, depth, c),
         Walked(P, n, word, depth), Ahead(tables, P, n, word, depth, c),
         Reached # 0 \/ c # 0
  PROVE  /\ Reached \in 1..n /\ Labelled(P, Reached, word, Len(word) - depth + 1, depth)
         /\ 0 < c /\ c < CountMax => tables[Reached].total # 0
<1>1. PICK f : Reaching(f, depth, tables, word, depth) /\ Reached = f[depth]
  BY ReachedIs
<1>2. PICK len \in Nat : len = Len(word) /\ len >= depth
  BY DEF Walked
<1>3. \E b \in 1..n : /\ Labelled(P, b, word, len - depth + 1, depth)
                      /\ 0 < c /\ c < CountMax => tables[b].total # 0
  <2>1. CASE word = Zeros(depth)
    <3>1. len = depth /\ \A j \in 1..depth : word[j] = 0
      BY <1>2, <2>1, ZerosAre
    <3>2. Started(tables, P, n, depth, c)
      <4>1. ASSUME c = 0, InUse(tables[1]) = {} PROVE FALSE
        <5>1. f[depth] = 0
          BY <1>1, <4>1, ReachesNone
        <5> QED
          BY <1>1, <4>1, <5>1
      <4> QED
        BY <4>1 DEF Standing
    <3>3. PICK b \in 1..n : P[b] = Zeros(depth) /\ (0 < c /\ c < CountMax => tables[b].total # 0)
      BY <3>2 DEF Started
    <3>4. Len(P[b]) = depth /\ \A j \in 1..depth : P[b][j] = 0
      BY <3>3, ZerosAre
    <3>5. \A j \in 1..depth : len - depth + 1 + j - 1 = j
      BY <3>1
    <3>6. Labelled(P, b, word, len - depth + 1, depth)
      BY <3>1, <3>4, <3>5 DEF Labelled
    <3> QED
      BY <3>3, <3>6
  <2>2. CASE word # Zeros(depth)
    BY <1>2, <2>2 DEF Ahead
  <2> QED
    BY <2>1, <2>2
<1>4. PICK b \in 1..n : /\ Labelled(P, b, word, len - depth + 1, depth)
                        /\ 0 < c /\ c < CountMax => tables[b].total # 0
  BY <1>3
<1>5. Len(P[b]) = depth /\ \A j \in 1..depth : P[b][j] = word[Len(word) - depth + j]
  <2>1. \A j \in 1..depth : len - depth + 1 + j - 1 = len - depth + j
    BY <1>2
  <2> QED
    BY <1>2, <1>4, <2>1 DEF Labelled
<1>6. f[depth] = b
  BY <1>1, <1>5, ReachesLeaf DEF Standing
<1> QED
  BY <1>1, <1>2, <1>4, <1>6

\* A word that is one codepoint longer, at the leaf that this leads to.
LEMMA WalkedOn ==
  ASSUME NEW depth \in Nat \ {0}, NEW c \in Nat,
         NEW n, NEW P, NEW M, Standing(M, P, n, depth, c),
         NEW w, Walked(P, n, w, depth), NEW b \in 1..n,
         Labelled(P, b, w, Len(w) - depth + 1, depth),
         NEW d \in Codepoints, Lookup(M[b], d) # 0, NEW u, u = Append(w, d)
  PROVE  Walked(P, n, u, depth) /\ (d # 0 => Ahead(M, P, n, u, depth, c))
<1>1. PICK len \in Nat : len = Len(w) /\ len >= depth /\ w \in Seq(Codepoints)
  BY DEF Walked
<1>2. /\ u \in Seq(Codepoints) /\ Len(u) = len + 1
      /\ \A i \in 1..len : u[i] = w[i]
      /\ u[len + 1] = d
  BY <1>1, Longer
<1>3. ASSUME NEW a \in 1..n, NEW i \in 1..len-depth+1, Labelled(P, a, w, i, depth)
      PROVE  Labelled(P, a, u, i, depth)
  <2>1. \A j \in 1..depth : i + j - 1 \in 1..len
    BY <1>1
  <2> QED
    BY <1>2, <1>3, <2>1 DEF Labelled
<1>4. Walked(P, n, u, depth)
  <2> SUFFICES ASSUME NEW i \in 1..Len(u)-depth PROVE \E a \in 1..n : Labelled(P, a, u, i, depth)
    BY <1>1, <1>2 DEF Walked
  <2>1. i \in 1..len-depth+1
    BY <1>1, <1>2
  <2>2. CASE i = len - depth + 1
    BY <1>1, <1>3, <2>1, <2>2
  <2>3. CASE i # len - depth + 1
    <3>1. i \in 1..Len(w)-depth
      BY <1>1, <2>1, <2>3
    <3>2. PICK a \in 1..n : Labelled(P, a, w, i, depth)
      BY <3>1 DEF Walked
    <3> QED
      BY <1>3, <2>1, <3>2
  <2> QED
    BY <2>2, <2>3
<1>5. ASSUME d # 0 PROVE Ahead(M, P, n, u, depth, c)
  <2>1. Len(P[b]) = depth /\ Append(P[b], d) # <<>>
    <3>1. P[b] \in Seq(Codepoints)
      BY DEF Standing, IsTree
    <3> QED
      BY <3>1, Longer DEF Labelled
  <2>2. PICK a \in 1..n : P[a] = Tail(Append(P[b], d)) /\ (c < CountMax => M[a].total # 0)
    <3>1. Covered(M, P, n, depth, c, <<>>)
      BY DEF Standing
    <3> QED
      BY <1>5, <2>1, <3>1 DEF Covered
  <2>3. PICK p \in Seq(Codepoints) : p = P[b]
    BY DEF Standing, IsTree
  <2>4. PICK q \in Seq(Codepoints) : q = Append(p, d)
    BY Longer
  <2>5. q # <<>> /\ Len(q) = depth + 1 /\ (\A j \in 1..depth : q[j] = p[j]) /\ q[depth + 1] = d
    BY <2>1, <2>3, <2>4, Longer
  <2>6. Len(Tail(q)) = depth /\ \A j \in 1..depth : Tail(q)[j] = q[j + 1]
    BY <2>5, HeadTailProperties
  <2>7. ASSUME NEW j \in 1..depth PROVE q[j + 1] = u[len + 1 - depth + 1 + j - 1]
    <3>1. PICK k \in Nat : k = len - depth + j + 1
      <4>1. len - depth + j + 1 \in Nat
        BY <1>1
      <4> QED
        BY <4>1
    <3>2. len + 1 - depth + 1 + j - 1 = k
      BY <1>1, <3>1
    <3>3. CASE j = depth
      <4>1. k = len + 1
        BY <1>1, <3>1, <3>3
      <4> QED
        BY <1>2, <2>5, <3>2, <3>3, <4>1
    <3>4. CASE j # depth
      <4>1. j + 1 \in 1..depth /\ k \in 1..len /\ len - depth + 1 + (j + 1) - 1 = k
        BY <1>1, <3>1, <3>4
      <4>2. p[j + 1] = w[k]
        BY <1>1, <2>3, <4>1 DEF Labelled
      <4> QED
        BY <1>2, <2>5, <3>2, <4>1, <4>2
    <3> QED
      BY <3>3, <3>4
  <2>8. Labelled(P, a, u, Len(u) - depth + 1, depth)
    <3>1. PICK k : k = Len(u) - depth + 1
      OBVIOUS
    <3>2. k = len + 1 - depth + 1
      BY <1>2, <3>1
    <3>3. \A j \in 1..depth : P[a][j] = u[k + j - 1]
      <4> SUFFICES ASSUME NEW j \in 1..depth PROVE P[a][j] = u[k + j - 1]
        OBVIOUS
      <4>1. P[a] = Tail(q)
        BY <2>2, <2>3, <2>4
      <4>2. Tail(q)[j] = q[j + 1]
        BY <2>6
      <4>3. k + j - 1 = len + 1 - depth + 1 + j - 1
        BY <3>2
      <4> QED
        BY <2>7, <4>1, <4>2, <4>3
    <3>4. Len(P[a]) = depth
      BY <2>2, <2>3, <2>4, <2>6
    <3> QED
      BY <3>1, <3>3, <3>4 DEF Labelled
  <2> QED
    BY <2>2, <2>8 DEF Ahead
<1> QED
  BY <1>4, <1>5

\* An entry that a choice falls on is of a codepoint with a count.
LEMMA ChosenIs ==
  ASSUME NEW T, IsTable(T), NEW choice \in Draw(T), NEW i \in 1..Len(Entries(T)),
         Sums(Entries(T))[i-1] <= choice, choice < Sums(Entries(T))[i]
  PROVE  /\ Entries(T)[i].codepoint \in Codepoints
         /\ Lookup(T, Entries(T)[i].codepoint) # 0
         /\ Lookup(T, Entries(T)[i].codepoint) = Entries(T)[i].value
<1>1. PICK entries \in Seq(AnyEntry) : entries = Entries(T)
  BY EntriesAre
<1>2. choice \in Nat
  <2>1. PICK t : t = T.total
    OBVIOUS
  <2>2. t \in 1..MaxBound /\ choice \in Drawn[t]
    BY <2>1 DEF Draw
  <2>3. Drawn[t] = 0..t-1
    BY <2>2, DrawIsFair DEF Fair
  <2>4. t \in Nat
    BY <2>2, BoundAssumption
  <2> QED
    BY <2>2, <2>3, <2>4
<1>3. PICK f : f = Sums(entries)
  OBVIOUS
<1>4. PICK v \in Nat : v = entries[i].value
  <2>1. entries[i] \in AnyEntry
    BY <1>1, ElementOfSeq
  <2> QED
    BY <2>1, EntryHas
<1>5. PICK m \in Nat : m = Len(entries)
  OBVIOUS
<1>6. i - 1 \in 0..m
  BY <1>1, <1>5
<1>7. f[i-1] \in Nat /\ f[i] = f[i-1] + v
  BY <1>1, <1>3, <1>4, <1>5, <1>6, SumsAre
<1>8. f[i-1] <= choice /\ choice < f[i]
  BY <1>1, <1>3
<1>9. PICK s \in Nat : s = f[i-1]
  BY <1>7
<1>10. v # 0
  BY <1>2, <1>7, <1>8, <1>9
<1>11. i \in 1..Capacity(T)
  BY EntriesAre
<1> QED
  BY <1>1, <1>4, <1>10, <1>11, EntriesTell

\* No choice is beyond the counts, as long as they are what the total says.
LEMMA NoneBeyond ==
  ASSUME NEW T, IsTable(T), Sound(T), NEW choice \in Draw(T)
  PROVE  ~(choice >= Sums(Entries(T))[Len(Entries(T))])
<1>1. PICK t : t = T.total
  OBVIOUS
<1>2. t \in 1..MaxBound /\ choice \in Drawn[t]
  BY <1>1 DEF Draw
<1>3. Drawn[t] = 0..t-1
  BY <1>2, DrawIsFair DEF Fair
<1>4. t \in Nat
  BY <1>2, BoundAssumption
<1>5. Sums(Entries(T))[Len(Entries(T))] = t
  BY <1>1, EntriesAre DEF Sound
<1>6. choice < t
  BY <1>2, <1>3, <1>4
<1> QED
  BY <1>2, <1>3, <1>4, <1>5, <1>6

-----------------------------------------------------------------------------
(* Markov: the invariant holds, and what follows from it.                  *)

LEMMA AddChain ==
  ASSUME ChainInv, NEW w \in Words, NEW v \in Weights, Add(w, v)
  PROVE  ChainInv'
<1>1. PICK depth \in Nat \ {0} : depth = level
  BY DEF ChainInv
<1>2. PICK c \in Nat : c = count
  BY DEF ChainInv
<1>3. w \in Seq(Codepoints) /\ v \in Nat
  BY WordsAssumption
<1>4. PICK m \in Nat : m = Len(w) + 1 /\ m = Len(Windows(w))
  BY <1>1, <1>3, WindowsAre
<1>5. PICK f : Inserting(f, m, tables, w, v) /\ AllInserted(w, v) = f[m]
  BY <1>4, AllInsertedIs
<1>6. status = "adding" /\ status' = "adding" /\ level' = level /\ word' = word
  BY DEF Add
<1>7. PICK n, P : Standing(tables, P, n, depth, c)
  BY <1>1, <1>2, <1>6 DEF ChainInv, Intact
<1>8. \E k : \E Q : Standing(f[m], Q, k, depth, c + v * m)
  BY <1>1, <1>3, <1>4, <1>5, <1>7, AllGoes
<1>9. tables' = f[m] /\ count' = c + v * m /\ count' \in Nat
  <2>1. c + v * m \in Nat
    BY <1>3
  <2> QED
    BY <1>2, <1>4, <1>5, <2>1 DEF Add
<1>10. (\E n_1 : \E P_1 : Intact(tables, P_1, n_1, level, count))'
  <2>1. PICK k, Q : Standing(f[m], Q, k, depth, c + v * m)
    BY <1>8
  <2>2. Standing(tables', Q, k, level', count')
    BY <1>1, <1>6, <1>9, <2>1
  <2> QED
    BY <1>6, <2>2 DEF Intact
<1> QED
  BY <1>6, <1>9, <1>10 DEF ChainInv, NeverLost

LEMMA StartChain ==
  ASSUME ChainInv, StartWord
  PROVE  ChainInv'
<1>1. /\ status = "adding" /\ status' = "making" /\ level' = level /\ count' = count
      /\ tables' = tables /\ word' = Zeros(level)
  BY DEF StartWord
<1>2. PICK n, P : Standing(tables, P, n, level, count)
  BY <1>1 DEF ChainInv, Intact
<1>3. PICK w : w = Zeros(level)
  OBVIOUS
<1>4. PICK depth \in Nat : depth = level
  BY DEF ChainInv
<1>5. w \in Seq(Codepoints) /\ Len(w) = depth
  BY <1>3, <1>4, ZerosAre
<1>6. Walked(P, n, w, level) /\ Ahead(tables, P, n, w, level, count)
  <2>1. 1..Len(w)-depth = {}
    BY <1>5
  <2>2. Len(w) >= depth
    BY <1>5
  <2> QED
    BY <1>3, <1>4, <1>5, <2>1, <2>2 DEF Walked, Ahead
<1>7. Intact(tables, P, n, level, count)'
  BY <1>1, <1>2, <1>3, <1>6 DEF Intact
<1> QED
  BY <1>1, <1>7 DEF ChainInv, NeverLost

LEMMA GenerateChain ==
  ASSUME ChainInv, Generate
  PROVE  ChainInv'
<1>1. PICK depth \in Nat \ {0} : depth = level
  BY DEF ChainInv
<1>2. PICK c \in Nat : c = count
  BY DEF ChainInv
<1>3. PICK b : b = Reached
  OBVIOUS
<1>4. PICK T : T = tables[b]
  OBVIOUS
<1>5. status = "making" /\ level' = level /\ count' = count /\ tables' = tables /\ b # 0
  BY <1>3 DEF Generate
<1>6. PICK choice \in Draw(T), i \in 1..Len(Entries(T)) :
        /\ Sums(Entries(T))[i-1] <= choice /\ choice < Sums(Entries(T))[i]
        /\ word' = Append(word, Entries(T)[i].codepoint)
        /\ status' = IF Entries(T)[i].codepoint = 0 THEN "made" ELSE "making"
  BY <1>3, <1>4 DEF Generate
<1>7. PICK n, P : Intact(tables, P, n, depth, c)
  BY <1>1, <1>2, <1>5 DEF ChainInv
<1>8. Standing(tables, P, n, depth, c) /\ Walked(P, n, word, depth) /\ Ahead(tables, P, n, word, depth, c)
  BY <1>5, <1>7 DEF Intact
<1>9. b \in 1..n /\ Labelled(P, b, word, Len(word) - depth + 1, depth)
  BY <1>1, <1>3, <1>5, <1>8, ReachedLeaf
<1>10. IsTable(T)
  BY <1>4, <1>8, <1>9 DEF Standing, IsTree
<1>11. PICK d \in Codepoints : d = Entries(T)[i].codepoint /\ Lookup(T, d) # 0
  BY <1>6, <1>10, ChosenIs
<1>12. PICK u : u = Append(word, d)
  OBVIOUS
<1>13. Walked(P, n, u, depth) /\ (d # 0 => Ahead(tables, P, n, u, depth, c))
  BY <1>4, <1>8, <1>9, <1>11, <1>12, WalkedOn
<1>14. word' = u /\ status' = IF d = 0 THEN "made" ELSE "making"
  BY <1>6, <1>11, <1>12
<1>15. Intact(tables, P, n, level, count)'
  BY <1>1, <1>2, <1>5, <1>8, <1>13, <1>14 DEF Intact
<1> QED
  BY <1>5, <1>14, <1>15 DEF ChainInv, NeverLost

LEMMA LoseChain ==
  ASSUME ChainInv, Lose
  PROVE  ChainInv'
<1>1. PICK depth \in Nat \ {0} : depth = level
  BY DEF ChainInv
<1>2. PICK c \in Nat : c = count
  BY DEF ChainInv
<1>3. /\ status = "making" /\ status' = "lost" /\ level' = level /\ count' = count
      /\ tables' = tables /\ word' = word
  BY DEF Lose
<1>4. PICK n, P : Intact(tables, P, n, depth, c)
  BY <1>1, <1>2, <1>3 DEF ChainInv
<1>5. Standing(tables, P, n, depth, c) /\ Walked(P, n, word, depth) /\ Ahead(tables, P, n, word, depth, c)
  BY <1>3, <1>4 DEF Intact
<1>6. ASSUME ~(c = 0 \/ c >= CountMax) PROVE FALSE
  <2>1. 0 < c /\ c < CountMax /\ c # 0
    BY <1>6, CountMaxFacts
  <2>2. PICK b : b = Reached
    OBVIOUS
  <2>3. /\ b \in 1..n /\ Labelled(P, b, word, Len(word) - depth + 1, depth)
        /\ tables[b].total # 0
    BY <1>1, <1>5, <2>1, <2>2, ReachedLeaf
  <2>4. PICK T : T = tables[b]
    OBVIOUS
  <2>5. IsTable(T)
    BY <1>5, <2>3, <2>4 DEF Standing, IsTree
  <2>6. Sound(T)
    BY <1>5, <2>1, <2>3, <2>4 DEF Standing, Counted, Labelled
  <2>7. b # 0
    <3>1. n \in Nat
      BY <1>5 DEF Standing, IsTree
    <3> QED
      BY <2>3, <3>1
  <2>8. \E choice \in Draw(T) : choice >= Sums(Entries(T))[Len(Entries(T))]
    BY <2>2, <2>3, <2>4, <2>7 DEF Lose
  <2> QED
    BY <2>5, <2>6, <2>8, NoneBeyond
<1>7. Intact(tables, P, n, level, count)'
  BY <1>1, <1>2, <1>3, <1>5 DEF Intact
<1> QED
  BY <1>2, <1>3, <1>6, <1>7 DEF ChainInv, NeverLost

LEMMA FreeChain ==
  ASSUME ChainInv, Free
  PROVE  ChainInv'
<1>1. PICK depth \in Nat \ {0} : depth = level
  BY DEF ChainInv
<1>2. /\ status \in {"adding", "made"} /\ status' = "freed" /\ level' = level /\ count' = count
      /\ tables' = [a \in DOMAIN tables \ Freed |-> tables[a]]
  BY DEF Free
<1>3. PICK n, P : Standing(tables, P, n, depth, count)
  BY <1>1, <1>2 DEF ChainInv, Intact
<1>4. Freed = DOMAIN tables
  <2>1. PICK f : Freeing(f, depth, tables) /\ Freed = Through(f, depth)
    BY <1>1, FreedIs
  <2>2. IsTree(tables, P, n, depth)
    BY <1>3 DEF Standing
  <2>3. Through(f, depth) = DOMAIN tables
    BY <2>1, <2>2, FreesAll
  <2> QED
    BY <2>1, <2>3
<1>5. tables' = <<>>
  <2>1. DOMAIN tables \ Freed = {}
    BY <1>4
  <2>2. tables' = [a \in {} |-> tables[a]]
    BY <1>2, <2>1
  <2> QED
    BY <2>2
<1> QED
  BY <1>2, <1>5 DEF ChainInv, NeverLost

LEMMA NextChain == ChainInv /\ [Next]_vars => ChainInv'
<1> SUFFICES ASSUME ChainInv, [Next]_vars PROVE ChainInv'
  OBVIOUS
<1>1. CASE \E w \in Words, v \in Weights : Add(w, v)
  BY <1>1, AddChain
<1>2. CASE StartWord
  BY <1>2, StartChain
<1>3. CASE Generate
  BY <1>3, GenerateChain
<1>4. CASE Lose
  BY <1>4, LoseChain
<1>5. CASE Overrun
  <2>1. /\ status = "making" /\ status' = "overrun" /\ level' = level /\ count' = count
        /\ tables' = tables /\ word' = word /\ ~(Len(word) < MaxWord)
    BY <1>5 DEF Overrun, Room
  <2>2. PICK n, P : Intact(tables, P, n, level, count)
    BY <2>1 DEF ChainInv
  <2>3. Len(word) \in Nat /\ MaxWord \in Nat
    BY <2>1, <2>2, LevelsAssumption DEF Intact, Walked
  <2>4. Intact(tables, P, n, level, count)'
    BY <2>1, <2>2 DEF Intact
  <2>5. Len(word') >= MaxWord
    BY <2>1, <2>3
  <2> QED
    BY <2>1, <2>4, <2>5 DEF ChainInv, NeverLost
<1>6. CASE Free
  BY <1>6, FreeChain
<1>7. CASE UNCHANGED vars
  BY <1>7 DEF vars, ChainInv, Intact, NeverLost
<1> QED
  BY <1>1, <1>2, <1>3, <1>4, <1>5, <1>6, <1>7 DEF Next

LEMMA ChainAlways == Spec => []ChainInv
<1>1. QED
  BY InitChain, NextChain, PTL DEF Spec

LEMMA ChainSound == ChainInv => TablesSound
<1> SUFFICES ASSUME ChainInv PROVE TablesSound
  OBVIOUS
<1>1. PICK depth \in Nat \ {0} : depth = level
  BY DEF ChainInv
<1>2. CASE status = "freed"
  <2>1. tables = <<>>
    BY <1>2 DEF ChainInv
  <2>2. DOMAIN tables = {}
    BY <2>1
  <2> QED
    BY <1>2, <2>1, <2>2 DEF TablesSound
<1>3. CASE status # "freed"
  <2>1. PICK n, P : Standing(tables, P, n, depth, count)
    BY <1>1, <1>3 DEF ChainInv, Intact
  <2>2. IsTree(tables, P, n, depth) /\ Counted(tables, P, n, depth, count)
    BY <2>1 DEF Standing
  <2>3. ASSUME NEW a \in DOMAIN tables
        PROVE  /\ \A s \in InUse(tables[a]) : tables[a].slots[s].codepoint % Capacity(tables[a]) = s
               /\ tables[a].kind = "leaf" /\ count < CountMax =>
                    tables[a].total = Sums(Entries(tables[a]))[Capacity(tables[a])]
    <3>1. a \in 1..n /\ IsTable(tables[a])
          /\ tables[a].kind = IF Len(P[a]) = depth THEN "leaf" ELSE "node"
      BY <2>2, <2>3 DEF IsTree
    <3>2. \A s \in InUse(tables[a]) : tables[a].slots[s].codepoint % Capacity(tables[a]) = s
      BY <3>1 DEF IsTable, Slot
    <3>3. ASSUME tables[a].kind = "leaf", count < CountMax PROVE Sound(tables[a])
      <4>1. Len(P[a]) = depth
        BY <3>1, <3>3
      <4> QED
        BY <2>2, <3>1, <3>3, <4>1 DEF Counted
    <3> QED
      BY <3>2, <3>3 DEF Sound
  <2>4. Freed = DOMAIN tables
    <3>1. PICK f : Freeing(f, depth, tables) /\ Freed = Through(f, depth)
      BY <1>1, FreedIs
    <3>2. Through(f, depth) = DOMAIN tables
      BY <2>2, <3>1, FreesAll
    <3> QED
      BY <3>1, <3>2
  <2> QED
    BY <1>3, <2>3, <2>4 DEF TablesSound
<1> QED
  BY <1>2, <1>3

\* A leaf for each context is as many leaves as there are contexts, if none comes twice.
LEMMA EnoughLeaves ==
  ASSUME NEW n \in Nat, NEW P, NEW leaves \in SUBSET (1..n), NEW contexts,
         \A s \in contexts : \E b \in leaves : P[b] = s
  PROVE  /\ Cardinality(contexts) \in Nat /\ Cardinality(leaves) \in Nat
         /\ Cardinality(contexts) <= Cardinality(leaves)
<1>1. IsFiniteSet(1..n)
  BY FS_Interval
<1>2. IsFiniteSet(leaves)
  BY <1>1, FS_Subset
<1>3. PICK g : g = [s \in contexts |-> CHOOSE b \in leaves : P[b] = s]
  OBVIOUS
<1>4. ASSUME NEW s \in contexts PROVE g[s] \in leaves /\ P[g[s]] = s
  <2>1. PICK e : e = CHOOSE b \in leaves : P[b] = s
    OBVIOUS
  <2>2. \E b \in leaves : P[b] = s
    OBVIOUS
  <2>3. e \in leaves /\ P[e] = s
    BY <2>1, <2>2, Zenon
  <2> QED
    BY <1>3, <2>1, <2>3
<1>5. g \in Injection(contexts, leaves)
  <2>1. g \in [contexts -> leaves]
    BY <1>3, <1>4
  <2>2. \A s, t \in contexts : g[s] = g[t] => s = t
    BY <1>4
  <2> QED
    BY <2>1, <2>2 DEF Injection, IsInjective
<1>6. IsFiniteSet(contexts) /\ Cardinality(contexts) <= Cardinality(leaves)
  BY <1>2, <1>5, FS_Injection
<1> QED
  BY <1>2, <1>6, FS_CardinalityType

LEMMA ChainCycles == ChainInv => OverrunNeedsCycle
<1> SUFFICES ASSUME ChainInv, status = "overrun"
             PROVE  \/ Cardinality({Visited[i] : i \in DOMAIN Visited}) < Len(Visited)
                    \/ Cardinality({a \in DOMAIN tables : tables[a].kind = "leaf"}) >= MaxWord - level
  BY DEF OverrunNeedsCycle
<1>1. PICK depth \in Nat \ {0} : depth = level
  BY DEF ChainInv
<1>2. PICK n, P : Standing(tables, P, n, depth, count) /\ Walked(P, n, word, depth)
  BY <1>1 DEF ChainInv, Intact
<1>3. PICK len \in Nat : len = Len(word) /\ len >= depth
  BY <1>2 DEF Walked
<1>4. len >= MaxWord /\ MaxWord \in Nat
  BY <1>3, LevelsAssumption DEF ChainInv
<1>5. PICK k \in Nat : k = len - depth
  <2>1. len - depth \in Nat
    BY <1>3
  <2> QED
    BY <2>1
<1>6. PICK V : V = Visited
  OBVIOUS
<1>7. V = [i \in 1..k |-> SubSeq(word, i, i + depth - 1)]
  BY <1>1, <1>3, <1>5, <1>6 DEF Visited
<1>8. DOMAIN V = 1..k /\ Len(V) = k
  BY <1>7
<1>9. PICK leaves : leaves = {a \in DOMAIN tables : tables[a].kind = "leaf"}
  OBVIOUS
<1>10. PICK contexts : contexts = {V[i] : i \in DOMAIN V}
  OBVIOUS
<1>11. n \in Nat /\ leaves \in SUBSET (1..n)
  BY <1>2, <1>9 DEF Standing, IsTree
<1>12. ASSUME NEW i \in 1..k PROVE \E b \in leaves : P[b] = V[i]
  <2>1. PICK b \in 1..n : Labelled(P, b, word, i, depth)
    BY <1>2, <1>3, <1>5 DEF Walked
  <2>2. b \in leaves
    BY <1>2, <1>9, <2>1 DEF Standing, IsTree, Labelled
  <2>3. PICK e \in Int : e = i + depth - 1
    OBVIOUS
  <2>4. \A j \in i..e : word[j] \in Codepoints
    <3>1. \A j \in i..e : j \in 1..Len(word)
      BY <1>3, <1>5, <2>3
    <3> QED
      BY <1>2, <3>1, ElementOfSeq DEF Walked
  <2>5. PICK s : s = SubSeq(word, i, e)
    OBVIOUS
  <2>6. s \in Seq(Codepoints) /\ Len(s) = depth /\ \A j \in 1..depth : s[j] = word[i + j - 1]
    <3>1. i <= e /\ e - i + 1 = depth
      BY <2>3
    <3> QED
      BY <2>4, <2>5, <3>1, SubSeqProperties
  <2>7. PICK p \in Seq(Codepoints) : p = P[b]
    BY <1>2 DEF Standing, IsTree
  <2>8. Len(p) = depth /\ \A j \in 1..depth : p[j] = word[i + j - 1]
    BY <2>1, <2>7 DEF Labelled
  <2>9. p = s
    BY <2>6, <2>8, SeqEqual
  <2>10. V[i] = s
    BY <1>7, <2>3, <2>5
  <2> QED
    BY <2>2, <2>7, <2>9, <2>10
<1>13. \A s \in contexts : \E b \in leaves : P[b] = s
  BY <1>8, <1>10, <1>12
<1>14. /\ Cardinality(contexts) \in Nat /\ Cardinality(leaves) \in Nat
       /\ Cardinality(contexts) <= Cardinality(leaves)
  BY <1>11, <1>13, EnoughLeaves
<1>15. PICK x, y \in Nat : x = Cardinality(contexts) /\ y = Cardinality(leaves)
  BY <1>14
<1>16. x < k \/ y >= MaxWord - depth
  BY <1>3, <1>4, <1>5, <1>14, <1>15
<1> QED
  BY <1>1, <1>6, <1>8, <1>9, <1>10, <1>15, <1>16

LEMMA ChainTyped == ChainInv => \A a \in DOMAIN tables : tables[a].kind \in {"node", "leaf"}
<1> SUFFICES ASSUME ChainInv, NEW a \in DOMAIN tables PROVE tables[a].kind \in {"node", "leaf"}
  OBVIOUS
<1>1. CASE status = "freed"
  <2>1. tables = <<>>
    BY <1>1 DEF ChainInv
  <2>2. DOMAIN tables = {}
    BY <2>1
  <2> QED
    BY <2>2
<1>2. CASE status # "freed"
  <2>1. PICK n, P : Standing(tables, P, n, level, count)
    BY <1>2 DEF ChainInv, Intact
  <2> QED
    BY <2>1, TableHas DEF Standing, IsTree
<1> QED
  BY <1>1, <1>2

\* In whatever chain: variables have their types, and words are added no more often than
\* the bound says.
THEOREM ChainTypes == Spec => []TypeOK
<1>1. Init => adds \in 0..MaxAdds
  BY AddsAssumption DEF Init
<1>2. adds \in 0..MaxAdds /\ [Next]_vars => (adds \in 0..MaxAdds)'
  BY AddsAssumption DEF Next, vars, Add, StartWord, Generate, Lose, Overrun, Free
<1>3. adds \in 0..MaxAdds /\ ChainInv => TypeOK
  BY ChainTyped DEF ChainInv, TypeOK
<1> QED
  BY <1>1, <1>2, <1>3, ChainAlways, PTL DEF Spec

\* In whatever chain, through all moves of its tables: every entry is where a lookup
\* goes, totals are what the counts add up to, and all tables are freed.
THEOREM TablesStaySound == Spec => []TablesSound
<1>1. QED
  BY ChainAlways, ChainSound, PTL

\* Making a word, lookups that do not compare codepoints lead to a leaf with something
\* to choose, unless the chain is empty or counts overflowed.
THEOREM NeverLosesItsWay == Spec => []NeverLost
<1>1. ChainInv => NeverLost
  BY DEF ChainInv
<1> QED
  BY <1>1, ChainAlways, PTL

\* A word runs past its buffer only through a context that came twice, or more contexts
\* than fit.
THEOREM OverrunsOnlyByCycles == Spec => []OverrunNeedsCycle
<1>1. QED
  BY ChainAlways, ChainCycles, PTL

\* In whatever chain, as long as its counts fit: the choice among what follows a context
\* is drawn without bias.
THEOREM DrawsAreUnbiased == Spec => []Unbiased
<1>1. Unbiased
  BY DrawIsFair DEF Unbiased, FairBounds
<1> QED
  BY <1>1, PTL

-----------------------------------------------------------------------------
(* Markov: the cardinality of a bag.                                       *)

Some(S) == CHOOSE e \in S : TRUE

\* g adds up the values of f over all sets of at most k members.
AddsUp(g, f, D, k) ==
  \A S \in SUBSET D : Cardinality(S) <= k =>
    g[S] = IF S = {} THEN 0 ELSE f[Some(S)] + g[S \ {Some(S)}]

\* h adds up the values of f.
Summation(h, f, D) ==
  h = [S \in SUBSET D |-> IF S = {} THEN 0 ELSE f[Some(S)] + h[S \ {Some(S)}]]

LEMMA SomeOf ==
  ASSUME NEW S, S # {}
  PROVE  Some(S) \in S
BY Zenon DEF Some

LEMMA SomeIs ==
  ASSUME NEW D, IsFiniteSet(D), NEW S \in SUBSET D
  PROVE  /\ IsFiniteSet(S) /\ Cardinality(S) \in Nat
         /\ Cardinality(S) <= Cardinality(D) /\ Cardinality(D) \in Nat
         /\ Cardinality(S) = 0 => S = {}
         /\ S # {} => /\ Some(S) \in S /\ S \ {Some(S)} \in SUBSET D
                      /\ Cardinality(S \ {Some(S)}) = Cardinality(S) - 1
<1>1. IsFiniteSet(S) /\ Cardinality(S) <= Cardinality(D)
  BY FS_Subset
<1>2. Cardinality(S) \in Nat /\ Cardinality(D) \in Nat /\ (Cardinality(S) = 0 => S = {})
  BY <1>1, FS_CardinalityType, FS_EmptySet
<1>3. ASSUME S # {}
      PROVE  /\ Some(S) \in S /\ S \ {Some(S)} \in SUBSET D
             /\ Cardinality(S \ {Some(S)}) = Cardinality(S) - 1
  <2>1. Some(S) \in S
    BY <1>3, Zenon DEF Some
  <2>2. Cardinality(S \ {Some(S)}) = Cardinality(S) - 1
    BY <1>1, <2>1, FS_RemoveElement
  <2> QED
    BY <2>1, <2>2
<1> QED
  BY <1>1, <1>2, <1>3

LEMMA AddsUpFound ==
  ASSUME NEW f, NEW D, IsFiniteSet(D)
  PROVE  \A k \in Nat : \E g : g = [S \in SUBSET D |-> g[S]] /\ AddsUp(g, f, D, k)
<1> DEFINE K == {k \in Nat : \E g : g = [S \in SUBSET D |-> g[S]] /\ AddsUp(g, f, D, k)}
<1>1. 0 \in K
  <2>1. PICK g : g = [S \in SUBSET D |-> 0]
    OBVIOUS
  <2>2. ASSUME NEW S \in SUBSET D, Cardinality(S) <= 0 PROVE S = {}
    <3>1. Cardinality(S) \in Nat /\ (Cardinality(S) = 0 => S = {})
      BY SomeIs
    <3> QED
      BY <2>2, <3>1
  <2>3. AddsUp(g, f, D, 0)
    BY <2>1, <2>2 DEF AddsUp
  <2>4. g = [S \in SUBSET D |-> g[S]]
    BY <2>1
  <2> QED
    BY <2>3, <2>4
<1>2. ASSUME NEW k \in Nat, k \in K PROVE k + 1 \in K
  <2>1. PICK g : g = [S \in SUBSET D |-> g[S]] /\ AddsUp(g, f, D, k)
    BY <1>2
  <2>2. PICK h : h = [S \in SUBSET D |-> IF Cardinality(S) <= k THEN g[S]
                                         ELSE f[Some(S)] + g[S \ {Some(S)}]]
    OBVIOUS
  <2>3. \A S \in SUBSET D : Cardinality(S) <= k => h[S] = g[S]
    BY <2>2
  <2>4. ASSUME NEW S \in SUBSET D, Cardinality(S) <= k + 1
        PROVE  h[S] = IF S = {} THEN 0 ELSE f[Some(S)] + h[S \ {Some(S)}]
    <3>1. CASE S = {}
      <4>1. Cardinality(S) <= k
        BY <3>1, FS_EmptySet
      <4> QED
        BY <2>1, <2>3, <3>1, <4>1 DEF AddsUp
    <3>2. CASE S # {}
      <4>1. PICK R \in SUBSET D : R = S \ {Some(S)}
        OBVIOUS
      <4>2. Cardinality(R) <= k
        BY <2>4, <3>2, <4>1, SomeIs
      <4>3. h[R] = g[R]
        BY <2>3, <4>2
      <4>4. h[S] = f[Some(S)] + g[R]
        <5>1. CASE Cardinality(S) <= k
          BY <2>1, <2>3, <3>2, <4>1, <5>1 DEF AddsUp
        <5>2. CASE ~(Cardinality(S) <= k)
          BY <2>2, <4>1, <5>2
        <5> QED
          BY <5>1, <5>2
      <4> QED
        BY <3>2, <4>1, <4>3, <4>4
    <3> QED
      BY <3>1, <3>2
  <2>5. AddsUp(h, f, D, k + 1)
    BY <2>4 DEF AddsUp
  <2>6. h = [S \in SUBSET D |-> h[S]]
    BY <2>2
  <2> QED
    BY <2>5, <2>6
<1> HIDE DEF K
<1>3. \A k \in Nat : k \in K
  BY <1>1, <1>2, SetInduction
<1> QED
  BY <1>3 DEF K

LEMMA SummationFound ==
  ASSUME NEW f, NEW D, IsFiniteSet(D)
  PROVE  \E h : Summation(h, f, D)
<1>1. PICK k \in Nat : k = Cardinality(D)
  BY FS_CardinalityType
<1>2. PICK h : h = [S \in SUBSET D |-> h[S]] /\ AddsUp(h, f, D, k)
  BY AddsUpFound
<1>3. \A S \in SUBSET D : h[S] = IF S = {} THEN 0 ELSE f[Some(S)] + h[S \ {Some(S)}]
  BY <1>1, <1>2, SomeIs DEF AddsUp
<1>4. PICK g : g = [S \in SUBSET D |-> IF S = {} THEN 0 ELSE f[Some(S)] + h[S \ {Some(S)}]]
  OBVIOUS
<1>5. g = [S \in SUBSET D |-> g[S]] /\ \A S \in SUBSET D : g[S] = h[S]
  BY <1>3, <1>4
<1>6. h = g
  BY <1>2, <1>5
<1>7. h = [S \in SUBSET D |-> IF S = {} THEN 0 ELSE f[Some(S)] + h[S \ {Some(S)}]]
  BY <1>4, <1>6
<1> QED
  BY <1>7 DEF Summation

LEMMA CardinalityIs ==
  ASSUME NEW f, NEW D, D = DOMAIN f, IsFiniteSet(D)
  PROVE  \E h : Summation(h, f, D) /\ AsChain!BagCardinality(f) = h[D]
<1>1. PICK h : h = CHOOSE g : Summation(g, f, DOMAIN f)
  OBVIOUS
<1>2. Summation(h, f, D)
  <2>1. \E g : Summation(g, f, DOMAIN f)
    BY SummationFound
  <2> QED
    BY <1>1, <2>1
<1>3. AsChain!BagCardinality(f) = h[DOMAIN f]
  BY <1>1 DEF AsChain!BagCardinality, Summation, Some
<1> QED
  BY <1>2, <1>3

InNat(f, D) == \A e \in D : f[e] \in Nat

\* It does not matter in which order they are added up.
OneByOne(h, f, D) ==
  \A S \in SUBSET D : h[S] \in Nat /\ \A x \in D \ S : h[S \union {x}] = h[S] + f[x]

LEMMA OneMore ==
  ASSUME NEW D, IsFiniteSet(D), NEW f, InNat(f, D), NEW h, Summation(h, f, D)
  PROVE  OneByOne(h, f, D)
<1>0. \A e \in D : f[e] \in Nat
  BY DEF InNat
<1>1. \A S \in SUBSET D : h[S] = IF S = {} THEN 0 ELSE f[Some(S)] + h[S \ {Some(S)}]
  <2>1. PICK g : g = [S \in SUBSET D |-> IF S = {} THEN 0 ELSE f[Some(S)] + h[S \ {Some(S)}]]
    OBVIOUS
  <2>2. h = g
    BY <2>1, Zenon DEF Summation
  <2> QED
    BY <2>1, <2>2
<1> DEFINE Adds(S) == h[S] \in Nat /\ \A x \in D \ S : h[S \union {x}] = h[S] + f[x]
           K == {k \in Nat : \A S \in SUBSET D : Cardinality(S) <= k => Adds(S)}
<1>2. 0 \in K
  <2> SUFFICES ASSUME NEW S \in SUBSET D, Cardinality(S) <= 0 PROVE Adds(S)
    OBVIOUS
  <2>1. S = {}
    <3>1. Cardinality(S) \in Nat /\ (Cardinality(S) = 0 => S = {})
      BY SomeIs
    <3> QED
      BY <3>1
  <2>2. h[S] = 0
    BY <1>1, <2>1
  <2>3. ASSUME NEW x \in D PROVE h[{x}] = f[x]
    <3>1. Some({x}) = x
      BY DEF Some
    <3>2. {x} \in SUBSET D /\ {x} # {} /\ {x} \ {x} = {}
      OBVIOUS
    <3>3. h[{x}] = f[x] + h[{}]
      BY <1>1, <3>1, <3>2
    <3>4. f[x] \in Nat
      BY <1>0
    <3> QED
      BY <2>1, <2>2, <3>3, <3>4
  <2>4. ASSUME NEW x \in D \ S PROVE h[S \union {x}] = h[S] + f[x]
    <3>1. S \union {x} = {x}
      BY <2>1
    <3>2. h[S \union {x}] = f[x]
      BY <2>3, <3>1
    <3>3. PICK fx \in Nat : fx = f[x]
      BY <1>0
    <3> QED
      BY <2>2, <3>2, <3>3
  <2> QED
    BY <2>2, <2>4
<1>3. ASSUME NEW k \in Nat, k \in K PROVE k + 1 \in K
  <2> SUFFICES ASSUME NEW S \in SUBSET D, Cardinality(S) <= k + 1 PROVE Adds(S)
    OBVIOUS
  <2>1. \A R \in SUBSET D : Cardinality(R) <= k => Adds(R)
    BY <1>3
  <2>2. h[S] \in Nat
    <3>1. CASE S = {}
      BY <1>1, <3>1
    <3>2. CASE S # {}
      <4>1. PICK R \in SUBSET D : R = S \ {Some(S)}
        OBVIOUS
      <4>2. Cardinality(R) <= k
        BY <3>2, <4>1, SomeIs
      <4>3. PICK a, b \in Nat : a = f[Some(S)] /\ b = h[R]
        BY <1>0, <2>1, <3>2, <4>2, SomeIs
      <4>4. h[S] = f[Some(S)] + h[R]
        BY <1>1, <3>2, <4>1
      <4> QED
        BY <4>3, <4>4
    <3> QED
      BY <3>1, <3>2
  <2>3. ASSUME NEW x \in D \ S PROVE h[S \union {x}] = h[S] + f[x]
    <3>1. PICK U \in SUBSET D : U = S \union {x}
      <4>1. S \union {x} \in SUBSET D
        OBVIOUS
      <4> QED
        BY <4>1
    <3>2. PICK e : e = Some(U)
      OBVIOUS
    <3>3. U # {} /\ e \in U
      <4>1. U # {}
        BY <3>1
      <4>2. Some(U) \in U
        BY <4>1, SomeOf
      <4> QED
        BY <3>2, <4>1, <4>2
    <3>4. PICK V : V = U \ {e}
      OBVIOUS
    <3>5. PICK fx, fe \in Nat : fx = f[x] /\ fe = f[e]
      BY <1>0, <3>1, <3>3
    <3>6. h[U] = fe + h[V]
      BY <1>1, <3>2, <3>3, <3>4, <3>5
    <3>7. CASE e = x
      <4>1. V = S
        BY <3>1, <3>4, <3>7
      <4>2. PICK hs \in Nat : hs = h[S]
        BY <2>2
      <4> QED
        BY <3>1, <3>5, <3>6, <3>7, <4>1, <4>2
    <3>8. CASE e # x
      <4>1. e \in S
        BY <3>1, <3>3, <3>8
      <4>2. PICK R \in SUBSET D : R = S \ {e}
        OBVIOUS
      <4>3. V = R \union {x} /\ S = R \union {e} /\ x \in D \ R /\ e \in D \ R
        BY <3>1, <3>4, <3>8, <4>1, <4>2
      <4>4. Cardinality(R) <= k
        <5>1. IsFiniteSet(S) /\ Cardinality(S) \in Nat
          BY SomeIs
        <5>2. Cardinality(R) = Cardinality(S) - 1
          BY <4>1, <4>2, <5>1, FS_RemoveElement
        <5> QED
          BY <5>1, <5>2
      <4>5. Adds(R)
        BY <2>1, <4>4
      <4>6. h[V] = h[R] + fx /\ h[S] = h[R] + fe
        BY <3>5, <4>3, <4>5
      <4>7. PICK hr \in Nat : hr = h[R]
        BY <4>5
      <4> QED
        BY <3>1, <3>5, <3>6, <4>6, <4>7
    <3> QED
      BY <3>7, <3>8
  <2> QED
    BY <2>2, <2>3
<1> HIDE DEF K
<1>4. PICK k \in Nat : k = Cardinality(D)
  BY FS_CardinalityType
<1>5. k \in K
  BY <1>2, <1>3, SetInduction
<1>6. \A S \in SUBSET D : Cardinality(S) <= k
  BY <1>4, SomeIs
<1> QED
  BY <1>5, <1>6 DEF K, OneByOne

-----------------------------------------------------------------------------
(* Markov: the bag that a tree holds.                                      *)

Way(by, to) == [by |-> by, to |-> to]

Last(by, weight) == [by |-> by, weight |-> weight]

\* f goes all ways down, level by level.
Ways(f, m, M) ==
  f = [k \in 0..m |-> IF k = 0 THEN {Way(<<>>, Root)}
                      ELSE UNION {{Way(Append(way.by, e.codepoint), e.value) :
                                     e \in Stored(M[way.to])} : way \in f[k-1]}]

LEMMA WaysFound ==
  ASSUME NEW M
  PROVE  \A m \in Nat : \E f : Ways(f, m, M)
<1> DEFINE S == {m \in Nat : \E f : Ways(f, m, M)}
           On(W) == UNION {{Way(Append(way.by, e.codepoint), e.value) : e \in Stored(M[way.to])} : way \in W}
<1>1. 0 \in S
  <2>1. PICK f : f = [k \in 0..0 |-> {Way(<<>>, Root)}]
    OBVIOUS
  <2>2. \A k \in 0..0 : f[k] = IF k = 0 THEN {Way(<<>>, Root)} ELSE On(f[k-1])
    BY <2>1
  <2>3. f = [k \in 0..0 |-> IF k = 0 THEN {Way(<<>>, Root)} ELSE On(f[k-1])]
    BY <2>1, <2>2
  <2>4. Ways(f, 0, M)
    BY <2>3 DEF Ways
  <2> QED
    BY <2>4
<1>2. ASSUME NEW m \in Nat, m \in S PROVE m + 1 \in S
  <2>1. PICK n : n = m + 1
    OBVIOUS
  <2>2. PICK f : Ways(f, m, M)
    BY <1>2
  <2>3. f = [k \in 0..m |-> IF k = 0 THEN {Way(<<>>, Root)} ELSE On(f[k-1])]
    BY <2>2 DEF Ways
  <2>4. PICK z : z = On(f[m])
    OBVIOUS
  <2>5. PICK g : g = [k \in 0..n |-> IF k \in 0..m THEN f[k] ELSE z]
    OBVIOUS
  <2>6. \A k \in 0..m : g[k] = f[k]
    BY <2>1, <2>5
  <2>7. g[n] = z
    BY <2>1, <2>5
  <2> HIDE DEF On
  <2>8. ASSUME NEW k \in 0..n PROVE g[k] = IF k = 0 THEN {Way(<<>>, Root)} ELSE On(g[k-1])
    <3>1. CASE k = n
      <4>1. k # 0 /\ k - 1 = m
        BY <2>1, <3>1
      <4> QED
        BY <2>4, <2>6, <2>7, <3>1, <4>1
    <3>2. CASE k # n
      <4>1. k \in 0..m
        BY <2>1, <3>2
      <4>2. k # 0 => k - 1 \in 0..m
        BY <4>1
      <4> QED
        BY <2>3, <2>6, <4>1, <4>2
    <3> QED
      BY <3>1, <3>2
  <2>9. g = [k \in 0..n |-> IF k = 0 THEN {Way(<<>>, Root)} ELSE On(g[k-1])]
    BY <2>5, <2>8
  <2>10. Ways(g, n, M)
    BY <2>9 DEF Ways, On
  <2> QED
    BY <2>1, <2>10
<1> HIDE DEF S
<1>3. \A m \in Nat : m \in S
  BY <1>1, <1>2, SetInduction
<1> QED
  BY <1>3 DEF S

\* The last step, into the counts of the leaves.
Lasts(W, M) ==
  UNION {{Last(Append(way.by, e.codepoint), e.value) : e \in Stored(M[way.to])} : way \in W}

BagOf(lasts) == [by \in {way.by : way \in lasts} |-> (CHOOSE way \in lasts : way.by = by).weight]

\* What a memory holds.
HeldOf(M, depth) == BagOf(Lasts((CHOOSE f : Ways(f, depth, M))[depth], M))

LEMMA HeldIs == Held = HeldOf(tables, level) /\ Held' = HeldOf(tables', level')
<1>1. Held = HeldOf(tables, level)
  BY DEF Held, HeldOf, BagOf, Lasts, Last, Ways, Way
<1>2. Held' = HeldOf(tables', level')
  BY DEF Held, HeldOf, BagOf, Lasts, Last, Ways, Way
<1> QED
  BY <1>1, <1>2

LEMMA HeldOfIs ==
  ASSUME NEW M, NEW depth \in Nat
  PROVE  \E f : Ways(f, depth, M) /\ HeldOf(M, depth) = BagOf(Lasts(f[depth], M))
<1>1. PICK f : f = CHOOSE g : Ways(g, depth, M)
  OBVIOUS
<1>2. Ways(f, depth, M)
  <2>1. \E g : Ways(g, depth, M)
    BY WaysFound
  <2> QED
    BY <1>1, <2>1
<1> QED
  BY <1>1, <1>2 DEF HeldOf

LEMMA StoredIs ==
  ASSUME NEW T, IsTable(T), NEW e
  PROVE  e \in Stored(T) <=> \E c \in Codepoints : Lookup(T, c) # 0 /\ e = Entry(c, Lookup(T, c))
<1>1. ASSUME e \in Stored(T)
      PROVE  \E c \in Codepoints : Lookup(T, c) # 0 /\ e = Entry(c, Lookup(T, c))
  <2>1. PICK s \in InUse(T) : e = T.slots[s]
    BY <1>1 DEF Stored
  <2>2. PICK c \in Codepoints : c = T.slots[s].codepoint
    BY SlotLookup
  <2>3. Lookup(T, c) = T.slots[s].value /\ Lookup(T, c) # 0 /\ Slot(T, c) = s
    BY <2>2, SlotLookup
  <2>4. T.slots[Slot(T, c)] = Entry(c, Lookup(T, c))
    BY <2>3, LookupHas
  <2> QED
    BY <2>1, <2>3, <2>4
<1>2. ASSUME NEW c \in Codepoints, Lookup(T, c) # 0, e = Entry(c, Lookup(T, c)) PROVE e \in Stored(T)
  <2>1. Slot(T, c) \in InUse(T) /\ T.slots[Slot(T, c)] = Entry(c, Lookup(T, c))
    BY <1>2, LookupHas
  <2> QED
    BY <1>2, <2>1 DEF Stored
<1> QED
  BY <1>1, <1>2

\* r is the way to a table, at a depth.
IsWay(r, P, n, k) == \E a \in 1..n : Len(P[a]) = k /\ r = Way(P[a], a)

LEMMA WayHas ==
  ASSUME NEW by, NEW to
  PROVE  Way(by, to).by = by /\ Way(by, to).to = to /\ Last(by, to).by = by /\ Last(by, to).weight = to
BY DEF Way, Last

LEMMA WaysAre ==
  ASSUME NEW n, NEW P, NEW M, NEW depth \in Nat, IsTree(M, P, n, depth),
         NEW f, Ways(f, depth, M)
  PROVE  \A r : r \in f[depth] <=> IsWay(r, P, n, depth)
<1> DEFINE On(W) == UNION {{Way(Append(way.by, e.codepoint), e.value) : e \in Stored(M[way.to])} : way \in W}
<1>1. f[0] = {Way(<<>>, 1)} /\ \A k \in 1..depth : f[k] = On(f[k-1])
  <2>1. PICK g : g = [k \in 0..depth |-> IF k = 0 THEN {Way(<<>>, 1)} ELSE On(f[k-1])]
    OBVIOUS
  <2>2. f = g
    BY <2>1, Zenon DEF Ways, Root
  <2>3. g[0] = {Way(<<>>, 1)} /\ \A k \in 1..depth : g[k] = On(f[k-1])
    BY <2>1
  <2> QED
    BY <2>2, <2>3
<1>2. n \in Nat \ {0} /\ P[1] = <<>> /\ \A a \in 1..n : P[a] \in Seq(Codepoints) /\ IsTable(M[a])
  BY DEF IsTree
<1> DEFINE K == {k \in Nat : k <= depth => \A r : r \in f[k] <=> IsWay(r, P, n, k)}
<1>3. 0 \in K
  <2> SUFFICES ASSUME NEW r PROVE r \in f[0] <=> IsWay(r, P, n, 0)
    OBVIOUS
  <2>1. ASSUME r \in f[0] PROVE IsWay(r, P, n, 0)
    <3>1. r = Way(P[1], 1) /\ Len(P[1]) = 0 /\ 1 \in 1..n
      BY <1>1, <1>2, <2>1, EmptySeq
    <3> QED
      BY <3>1 DEF IsWay
  <2>2. ASSUME IsWay(r, P, n, 0) PROVE r \in f[0]
    <3>1. PICK a \in 1..n : Len(P[a]) = 0 /\ r = Way(P[a], a)
      BY <2>2 DEF IsWay
    <3>2. P[a] = <<>>
      BY <1>2, <3>1, EmptySeq
    <3>3. a = 1
      BY <1>2, <3>2 DEF IsTree
    <3> QED
      BY <1>1, <3>1, <3>2, <3>3
  <2> QED
    BY <2>1, <2>2
<1>4. ASSUME NEW k \in Nat, k \in K PROVE k + 1 \in K
  <2>1. PICK m \in Nat : m = k + 1
    OBVIOUS
  <2> SUFFICES ASSUME m <= depth, NEW r PROVE r \in f[m] <=> IsWay(r, P, n, m)
    BY <2>1
  <2>2. m \in 1..depth /\ m - 1 = k /\ k # depth
    BY <2>1
  <2>3. f[m] = On(f[k])
    BY <1>1, <2>2
  <2>4. \A q : q \in f[k] <=> IsWay(q, P, n, k)
    BY <1>4, <2>1, <2>2
  <2>5. ASSUME r \in f[m] PROVE IsWay(r, P, n, m)
    <3>1. PICK q \in f[k] : \E e \in Stored(M[q.to]) : r = Way(Append(q.by, e.codepoint), e.value)
      BY <2>3, <2>5
    <3>2. PICK a \in 1..n : Len(P[a]) = k /\ q = Way(P[a], a)
      BY <2>4, <3>1 DEF IsWay
    <3>3. q.by = P[a] /\ q.to = a
      BY <3>2, WayHas
    <3>4. PICK e \in Stored(M[a]) : r = Way(Append(P[a], e.codepoint), e.value)
      BY <3>1, <3>3
    <3>5. PICK c \in Codepoints : Lookup(M[a], c) # 0 /\ e = Entry(c, Lookup(M[a], c))
      BY <1>2, <3>4, StoredIs
    <3>6. PICK b : b = Lookup(M[a], c)
      OBVIOUS
    <3>7. \E d \in 2..n : d = b /\ P[d] = Append(P[a], c)
      BY <2>2, <3>2, <3>5, <3>6, ChildFound
    <3>8. b \in 1..n /\ P[b] = Append(P[a], c)
      BY <3>7
    <3>9. r = Way(P[b], b)
      BY <3>4, <3>5, <3>6, <3>8, EntryIs
    <3>10. Len(P[b]) = m
      BY <1>2, <2>1, <3>2, <3>8, Longer
    <3> QED
      BY <3>8, <3>9, <3>10 DEF IsWay
  <2>6. ASSUME IsWay(r, P, n, m) PROVE r \in f[m]
    <3>1. PICK b \in 1..n : Len(P[b]) = m /\ r = Way(P[b], b)
      BY <2>6 DEF IsWay
    <3>2. PICK a \in 1..n, c \in Codepoints : IsParent(M, P, a, c, b)
      BY <2>2, <3>1, ParentIs
    <3>3. /\ P[b] = Append(P[a], c) /\ Len(P[b]) = Len(P[a]) + 1
          /\ Lookup(M[a], c) = b /\ Lookup(M[a], c) # 0
      BY <3>2 DEF IsParent
    <3>4. Len(P[a]) = k
      <4>1. Len(P[a]) \in Nat
        BY <1>2, LenProperties
      <4> QED
        BY <2>1, <3>1, <3>3, <4>1
    <3>5. PICK q : q = Way(P[a], a)
      OBVIOUS
    <3>6. q \in f[k] /\ q.by = P[a] /\ q.to = a
      BY <2>4, <3>4, <3>5, WayHas DEF IsWay
    <3>7. PICK e : e = Entry(c, b)
      OBVIOUS
    <3>8. e \in Stored(M[q.to])
      BY <1>2, <3>3, <3>6, <3>7, StoredIs
    <3>9. r = Way(Append(q.by, e.codepoint), e.value)
      BY <3>1, <3>3, <3>6, <3>7, EntryIs
    <3> QED
      BY <2>3, <3>6, <3>8, <3>9
  <2> QED
    BY <2>5, <2>6
<1> HIDE DEF K
<1>5. depth \in K
  BY <1>3, <1>4, SetInduction
<1> QED
  BY <1>5 DEF K

\* r is the end of a way, with its count.
IsLast(r, M, P, n, depth) ==
  \E a \in 1..n : \E c \in Codepoints :
    Len(P[a]) = depth /\ Lookup(M[a], c) # 0 /\ r = Last(Append(P[a], c), Lookup(M[a], c))

LEMMA LastsAre ==
  ASSUME NEW n, NEW P, NEW M, NEW depth \in Nat, IsTree(M, P, n, depth),
         NEW f, Ways(f, depth, M), NEW r
  PROVE  r \in Lasts(f[depth], M) <=> IsLast(r, M, P, n, depth)
<1>1. \A q : q \in f[depth] <=> IsWay(q, P, n, depth)
  BY WaysAre
<1>2. \A a \in 1..n : IsTable(M[a])
  BY DEF IsTree
<1>3. ASSUME r \in Lasts(f[depth], M) PROVE IsLast(r, M, P, n, depth)
  <2>1. PICK q \in f[depth] : \E e \in Stored(M[q.to]) : r = Last(Append(q.by, e.codepoint), e.value)
    BY <1>3 DEF Lasts
  <2>2. PICK a \in 1..n : Len(P[a]) = depth /\ q = Way(P[a], a)
    BY <1>1, <2>1 DEF IsWay
  <2>3. q.by = P[a] /\ q.to = a
    BY <2>2, WayHas
  <2>4. PICK e \in Stored(M[a]) : r = Last(Append(P[a], e.codepoint), e.value)
    BY <2>1, <2>3
  <2>5. PICK c \in Codepoints : Lookup(M[a], c) # 0 /\ e = Entry(c, Lookup(M[a], c))
    BY <1>2, <2>4, StoredIs
  <2>6. Lookup(M[a], c) \in Nat
    BY <1>2, LookupHas
  <2>7. r = Last(Append(P[a], c), Lookup(M[a], c))
    BY <2>4, <2>5, <2>6, EntryIs
  <2> QED
    BY <2>2, <2>5, <2>7 DEF IsLast
<1>4. ASSUME IsLast(r, M, P, n, depth) PROVE r \in Lasts(f[depth], M)
  <2>1. PICK a \in 1..n, c \in Codepoints :
          Len(P[a]) = depth /\ Lookup(M[a], c) # 0 /\ r = Last(Append(P[a], c), Lookup(M[a], c))
    BY <1>4 DEF IsLast
  <2>2. PICK q : q = Way(P[a], a)
    OBVIOUS
  <2>3. q \in f[depth] /\ q.by = P[a] /\ q.to = a
    BY <1>1, <2>1, <2>2, WayHas DEF IsWay
  <2>4. PICK x \in Nat : x = Lookup(M[a], c)
    BY <1>2, LookupHas
  <2>5. PICK e : e = Entry(c, x)
    OBVIOUS
  <2>6. e \in Stored(M[q.to])
    BY <1>2, <2>1, <2>3, <2>4, <2>5, StoredIs
  <2>7. r = Last(Append(q.by, e.codepoint), e.value)
    BY <2>1, <2>3, <2>4, <2>5, EntryIs
  <2> QED
    BY <2>3, <2>6, <2>7 DEF Lasts
<1> QED
  BY <1>3, <1>4

\* How often a codepoint came after a context, says the tree ...
Weighs(M, P, n, p, c) ==
  IF \E a \in 1..n : P[a] = p THEN Lookup(M[CHOOSE a \in 1..n : P[a] = p], c) ELSE 0

\* ... and how often a bag has a transition.
Copies(H, t) == IF t \in DOMAIN H THEN H[t] ELSE 0

IsBagOf(H, M, P, n, depth) ==
  /\ H = [t \in DOMAIN H |-> H[t]]
  /\ \A t \in DOMAIN H : t \in Seq(Codepoints) /\ Len(t) = depth + 1 /\ H[t] \in Nat \ {0}
  /\ \A p \in Seq(Codepoints) : \A c \in Codepoints :
       Len(p) = depth => Copies(H, Append(p, c)) = Weighs(M, P, n, p, c)

LEMMA WeighsAt ==
  ASSUME NEW n, NEW P, NEW M, NEW depth \in Nat, IsTree(M, P, n, depth),
         NEW a \in 1..n, NEW p, P[a] = p, NEW c
  PROVE  Weighs(M, P, n, p, c) = Lookup(M[a], c)
<1>1. PICK b : b = CHOOSE e \in 1..n : P[e] = p
  OBVIOUS
<1>2. \E e \in 1..n : P[e] = p
  OBVIOUS
<1>3. b \in 1..n /\ P[b] = p
  BY <1>1, <1>2, Zenon
<1>4. b = a
  BY <1>3 DEF IsTree
<1> QED
  BY <1>1, <1>2, <1>4 DEF Weighs

LEMMA WeighsNone ==
  ASSUME NEW n, NEW P, NEW M, NEW p, \A a \in 1..n : P[a] # p, NEW c
  PROVE  Weighs(M, P, n, p, c) = 0
BY DEF Weighs

LEMMA HeldTells ==
  ASSUME NEW depth \in Nat \ {0}, NEW n, NEW P, NEW M, IsTree(M, P, n, depth)
  PROVE  IsBagOf(HeldOf(M, depth), M, P, n, depth)
<1>1. PICK f : Ways(f, depth, M) /\ HeldOf(M, depth) = BagOf(Lasts(f[depth], M))
  BY HeldOfIs
<1>2. PICK L : L = Lasts(f[depth], M)
  OBVIOUS
<1>3. PICK H : H = HeldOf(M, depth)
  OBVIOUS
<1>4. \A r : r \in L <=> IsLast(r, M, P, n, depth)
  BY <1>1, <1>2, LastsAre
<1>5. H = [by \in {way.by : way \in L} |-> (CHOOSE way \in L : way.by = by).weight]
  BY <1>1, <1>2, <1>3 DEF BagOf
<1>6. \A a \in 1..n : P[a] \in Seq(Codepoints) /\ IsTable(M[a])
  BY DEF IsTree
<1>7. ASSUME NEW a \in 1..n, NEW c \in Codepoints, Len(P[a]) = depth, Lookup(M[a], c) # 0,
             NEW t, t = Append(P[a], c)
      PROVE  t \in DOMAIN H /\ H[t] = Lookup(M[a], c)
  <2>1. PICK x : x = Lookup(M[a], c)
    OBVIOUS
  <2>2. PICK r : r = Last(t, x)
    OBVIOUS
  <2>3. r \in L /\ r.by = t
    BY <1>4, <1>7, <2>1, <2>2, WayHas DEF IsLast
  <2>4. PICK q : q = CHOOSE way \in L : way.by = t
    OBVIOUS
  <2>5. q \in L /\ q.by = t
    BY <2>3, <2>4, Zenon
  <2>6. PICK b \in 1..n, d \in Codepoints :
          Len(P[b]) = depth /\ Lookup(M[b], d) # 0 /\ q = Last(Append(P[b], d), Lookup(M[b], d))
    BY <1>4, <2>5 DEF IsLast
  <2>7. Append(P[b], d) = Append(P[a], c)
    BY <1>7, <2>5, <2>6, WayHas
  <2>8. PICK s, u \in Seq(Codepoints) : s = P[a] /\ u = P[b]
    BY <1>6
  <2>9. s = u /\ d = c
    BY <2>7, <2>8, AppendInjective
  <2>10. a = b
    BY <2>8, <2>9 DEF IsTree
  <2>11. q.weight = x
    BY <2>1, <2>6, <2>9, <2>10, WayHas
  <2>12. t \in DOMAIN H
    BY <1>5, <2>3
  <2> QED
    BY <1>5, <2>1, <2>4, <2>11, <2>12
<1>8. ASSUME NEW t \in DOMAIN H
      PROVE  \E a \in 1..n : \E c \in Codepoints :
               Len(P[a]) = depth /\ Lookup(M[a], c) # 0 /\ t = Append(P[a], c)
  <2>1. PICK r \in L : t = r.by
    BY <1>5
  <2>2. PICK a \in 1..n, c \in Codepoints :
          Len(P[a]) = depth /\ Lookup(M[a], c) # 0 /\ r = Last(Append(P[a], c), Lookup(M[a], c))
    BY <1>4 DEF IsLast
  <2>3. t = Append(P[a], c)
    BY <2>1, <2>2, WayHas
  <2> QED
    BY <2>2, <2>3
<1>9. ASSUME NEW t \in DOMAIN H
      PROVE  t \in Seq(Codepoints) /\ Len(t) = depth + 1 /\ H[t] \in Nat \ {0}
  <2>1. PICK a \in 1..n, c \in Codepoints :
          Len(P[a]) = depth /\ Lookup(M[a], c) # 0 /\ t = Append(P[a], c)
    BY <1>8
  <2>2. H[t] = Lookup(M[a], c)
    BY <1>7, <2>1
  <2>3. Lookup(M[a], c) \in Nat
    BY <1>6, LookupHas
  <2>4. t \in Seq(Codepoints) /\ Len(t) = depth + 1
    BY <1>6, <2>1, Longer
  <2> QED
    BY <2>1, <2>2, <2>3, <2>4
<1>10. ASSUME NEW p \in Seq(Codepoints), NEW c \in Codepoints, Len(p) = depth
       PROVE  Copies(H, Append(p, c)) = Weighs(M, P, n, p, c)
  <2>1. PICK t : t = Append(p, c)
    OBVIOUS
  <2>2. CASE \E a \in 1..n : P[a] = p
    <3>1. PICK a \in 1..n : P[a] = p
      BY <2>2
    <3>2. Weighs(M, P, n, p, c) = Lookup(M[a], c)
      BY <3>1, WeighsAt
    <3>3. CASE Lookup(M[a], c) # 0
      <4>1. t \in DOMAIN H /\ H[t] = Lookup(M[a], c)
        BY <1>7, <1>10, <2>1, <3>1, <3>3
      <4> QED
        BY <2>1, <3>2, <4>1 DEF Copies
    <3>4. CASE Lookup(M[a], c) = 0
      <4>1. ASSUME t \in DOMAIN H PROVE FALSE
        <5>1. PICK b \in 1..n, d \in Codepoints :
                Len(P[b]) = depth /\ Lookup(M[b], d) # 0 /\ t = Append(P[b], d)
          BY <1>8, <4>1
        <5>2. PICK u \in Seq(Codepoints) : u = P[b]
          BY <1>6
        <5>3. Append(p, c) = Append(u, d)
          BY <2>1, <5>1, <5>2
        <5>4. p = u /\ c = d
          BY <5>3, AppendInjective
        <5>5. a = b
          BY <3>1, <5>2, <5>4 DEF IsTree
        <5> QED
          BY <3>4, <5>1, <5>4, <5>5
      <4> QED
        BY <2>1, <3>2, <3>4, <4>1 DEF Copies
    <3> QED
      BY <3>3, <3>4
  <2>3. CASE ~(\E a \in 1..n : P[a] = p)
    <3>1. Weighs(M, P, n, p, c) = 0
      BY <2>3, WeighsNone
    <3>2. ASSUME t \in DOMAIN H PROVE FALSE
      <4>1. PICK b \in 1..n, d \in Codepoints : t = Append(P[b], d)
        BY <1>8, <3>2
      <4>2. PICK u \in Seq(Codepoints) : u = P[b]
        BY <1>6
      <4>3. Append(p, c) = Append(u, d)
        BY <2>1, <4>1, <4>2
      <4>4. p = u
        BY <4>3, AppendInjective
      <4> QED
        BY <2>3, <4>2, <4>4
    <3> QED
      BY <2>1, <3>1, <3>2 DEF Copies
  <2> QED
    BY <2>2, <2>3
<1>11. H = [t \in DOMAIN H |-> H[t]]
  <2>1. PICK D : D = {way.by : way \in L}
    OBVIOUS
  <2>2. H = [by \in D |-> (CHOOSE way \in L : way.by = by).weight]
    BY <1>5, <2>1
  <2> QED
    BY <2>2
<1> QED
  BY <1>3, <1>9, <1>10, <1>11 DEF IsBagOf

\* What the insertion of a window makes of it.
LEMMA WeighsMore ==
  ASSUME NEW depth \in Nat \ {0}, NEW n, NEW P, NEW M, IsTree(M, P, n, depth),
         NEW m, NEW Q, NEW N, IsTree(N, Q, m, depth),
         NEW p \in Seq(Codepoints), Len(p) = depth, NEW c \in Codepoints, NEW v \in Nat,
         Gains(M, P, n, depth, N, Q, m, p, Entry(c, v)),
         NEW w \in Nat, Counted(M, P, n, depth, w), w + v < CountMax,
         NEW q \in Seq(Codepoints), Len(q) = depth, NEW d \in Codepoints
  PROVE  /\ Weighs(M, P, n, q, d) \in Nat
         /\ q = p /\ d = c => Weighs(N, Q, m, q, d) = Weighs(M, P, n, q, d) + v
         /\ ~(q = p /\ d = c) => Weighs(N, Q, m, q, d) = Weighs(M, P, n, q, d)
<1>1. /\ n \in Nat \ {0} /\ m \in Nat \ {0} /\ n <= m /\ CountMax \in Nat
      /\ \A a \in 1..n : Q[a] = P[a] /\ a \in 1..m /\ IsTable(M[a])
  <2>1. n \in Nat \ {0} /\ \A a \in 1..n : IsTable(M[a])
    BY DEF IsTree
  <2>2. m \in Nat \ {0}
    BY DEF IsTree
  <2>3. n <= m /\ \A a \in 1..n : Q[a] = P[a]
    BY DEF Gains
  <2>4. \A a \in 1..n : a \in 1..m
    BY <2>1, <2>2, <2>3
  <2> QED
    BY <2>1, <2>2, <2>3, <2>4, CountMaxFacts
<1>2. /\ Entry(c, v) \in AnyEntry /\ Entry(c, v).codepoint = c /\ Entry(c, v).value = v
  BY EntryIs
<1>3. ASSUME NEW b \in 1..m, Q[b] = q
      PROVE  /\ Weighs(M, P, n, q, d) = Lookup(Before(M, n, b), d)
             /\ IsTable(Before(M, n, b)) /\ Before(M, n, b).kind = "leaf"
             /\ Sound(Before(M, n, b)) /\ Before(M, n, b).total <= w
  <2>1. PICK T : T = Before(M, n, b)
    OBVIOUS
  <2>2. CASE b \in 1..n
    <3>1. T = M[b] /\ P[b] = q
      BY <1>1, <1>3, <2>1, <2>2 DEF Before
    <3>2. Weighs(M, P, n, q, d) = Lookup(T, d)
      BY <2>2, <3>1, WeighsAt
    <3>3. IsTable(T) /\ T.kind = "leaf"
      BY <2>2, <3>1 DEF IsTree
    <3>4. Sound(T) /\ T.total <= w
      <4>1. w < CountMax
        BY <1>1
      <4> QED
        BY <2>2, <3>1, <4>1 DEF Counted
    <3> QED
      BY <2>1, <3>2, <3>3, <3>4
  <2>3. CASE b \notin 1..n
    <3>1. T = NewTable("leaf", 1)
      BY <2>1, <2>3 DEF Before
    <3>2. IsNew(T, "leaf", 1) /\ Sound(T)
      <4>1. IsNew(NewTable("leaf", 1), "leaf", 1)
        BY NewTableIs
      <4>2. Sound(NewTable("leaf", 1))
        BY NewTableSound
      <4> QED
        BY <3>1, <4>1, <4>2
    <3>3. ASSUME NEW a \in 1..n, P[a] = q PROVE FALSE
      <4>1. a \in 1..m /\ Q[a] = Q[b]
        BY <1>1, <1>3, <3>3
      <4>2. a = b
        BY <4>1 DEF IsTree
      <4> QED
        BY <2>3, <4>2
    <3>4. Weighs(M, P, n, q, d) = 0
      BY <3>3, WeighsNone
    <3>5. IsTable(T) /\ T.kind = "leaf" /\ T.total = 0 /\ Lookup(T, d) = 0
      BY <3>2 DEF IsNew
    <3>6. 0 <= w
      OBVIOUS
    <3> QED
      BY <2>1, <3>2, <3>4, <3>5, <3>6
  <2> QED
    BY <2>2, <2>3
<1>4. CASE q = p
  <2>1. PICK b \in 1..m : Q[b] = p /\ InsertsWell(Before(M, n, b), Entry(c, v), N[b])
    BY DEF Gains
  <2>2. PICK T : T = Before(M, n, b)
    OBVIOUS
  <2>3. /\ Weighs(M, P, n, q, d) = Lookup(T, d) /\ IsTable(T) /\ T.kind = "leaf"
        /\ Sound(T) /\ T.total <= w
    BY <1>3, <1>4, <2>1, <2>2
  <2>4. Weighs(N, Q, m, q, d) = Lookup(N[b], d)
    BY <1>4, <2>1, WeighsAt
  <2>5. PICK x \in Nat : x = Lookup(T, d)
    BY <2>3, LookupHas
  <2>6. InsertsWell(T, Entry(c, v), N[b])
    BY <2>1, <2>2
  <2>7. CASE v = 0
    <3>1. N[b] = T
      BY <1>2, <2>6, <2>7 DEF InsertsWell
    <3> QED
      BY <2>3, <2>4, <2>5, <2>7, <3>1
  <2>8. CASE v # 0
    <3>1. d # c => Lookup(N[b], d) = x
      BY <1>2, <2>5, <2>6, <2>8 DEF InsertsWell
    <3>2. d = c => Lookup(N[b], d) = (x + v) % CountMax
      BY <1>2, <2>3, <2>5, <2>6, <2>8 DEF InsertsWell
    <3>3. x <= w
      <4>1. PICK t \in Nat : t = T.total
        BY <2>3, TableHas
      <4>2. x # 0 => /\ Slot(T, d) + 1 \in 1..Capacity(T)
                     /\ Entries(T)[Slot(T, d) + 1] = Entry(d, x)
        BY <2>3, <2>5, EntriesTell
      <4>3. ASSUME x # 0 PROVE x <= t
        <5>1. PICK i : i = Slot(T, d) + 1
          OBVIOUS
        <5>2. i \in 1..Len(Entries(T)) /\ Entries(T) \in Seq(AnyEntry) /\ Entries(T)[i] = Entry(d, x)
          BY <2>3, <4>2, <4>3, <5>1, EntriesAre
        <5>3. Entries(T)[i].value <= Sums(Entries(T))[Len(Entries(T))]
          BY <5>2, SumsBound
        <5>4. Sums(Entries(T))[Len(Entries(T))] = t
          BY <2>3, <4>1, EntriesAre DEF Sound
        <5>5. Entries(T)[i].value = x
          BY <5>2, EntryIs
        <5> QED
          BY <5>3, <5>4, <5>5
      <4>4. t <= w
        BY <2>3, <4>1
      <4> QED
        BY <4>1, <4>3, <4>4
    <3>4. (x + v) % CountMax = x + v
      <4>1. PICK y \in Nat : y = x + v /\ y < CountMax
        BY <1>1, <3>3
      <4>2. y % CountMax = y
        BY <4>1, CountMaxFacts, Remainder
      <4> QED
        BY <4>1, <4>2
    <3> QED
      BY <1>4, <2>3, <2>4, <2>5, <3>1, <3>2, <3>4
  <2> QED
    BY <2>7, <2>8
<1>5. CASE q # p
  <2>1. CASE \E b \in 1..m : Q[b] = q
    <3>1. PICK b \in 1..m : Q[b] = q
      BY <2>1
    <3>2. PICK T : T = Before(M, n, b)
      OBVIOUS
    <3>3. Weighs(M, P, n, q, d) = Lookup(T, d) /\ IsTable(T)
      BY <1>3, <3>1, <3>2
    <3>4. N[b] = T
      BY <1>5, <3>1, <3>2 DEF Gains
    <3>5. Weighs(N, Q, m, q, d) = Lookup(T, d)
      BY <3>1, <3>4, WeighsAt
    <3>6. Lookup(T, d) \in Nat
      BY <3>3, LookupHas
    <3> QED
      BY <1>5, <3>3, <3>5, <3>6
  <2>2. CASE ~(\E b \in 1..m : Q[b] = q)
    <3>1. \A a \in 1..n : P[a] # q
      BY <1>1, <2>2
    <3>2. Weighs(N, Q, m, q, d) = 0 /\ Weighs(M, P, n, q, d) = 0
      BY <2>2, <3>1, WeighsNone
    <3> QED
      BY <1>5, <3>2
  <2> QED
    BY <2>1, <2>2
<1> QED
  BY <1>4, <1>5

\* How often a transition is among the first windows over a word.
Seen(w, i, t) == {j \in 1..i : Windows(w)[j] = t}

LEMMA SeenIs ==
  ASSUME NEW w, NEW i \in Nat, NEW t
  PROVE  /\ Cardinality(Seen(w, i, t)) \in Nat /\ Cardinality(Seen(w, 0, t)) = 0
         /\ Windows(w)[i + 1] = t => Cardinality(Seen(w, i + 1, t)) = Cardinality(Seen(w, i, t)) + 1
         /\ Windows(w)[i + 1] # t => Cardinality(Seen(w, i + 1, t)) = Cardinality(Seen(w, i, t))
         /\ Cardinality(Seen(w, i, t)) # 0 => \E j \in 1..i : Windows(w)[j] = t
         /\ Cardinality(Seen(w, i, t)) = 0 => \A j \in 1..i : Windows(w)[j] # t
<1>1. PICK S, R : S = Seen(w, i, t) /\ R = Seen(w, i + 1, t)
  OBVIOUS
<1>2. IsFiniteSet(1..i) /\ S \in SUBSET (1..i)
  BY <1>1, FS_Interval DEF Seen
<1>3. IsFiniteSet(S)
  BY <1>2, FS_Subset
<1>4. Cardinality(S) \in Nat /\ (Cardinality(S) = 0 <=> S = {})
  BY <1>3, FS_CardinalityType, FS_EmptySet
<1>5. Seen(w, 0, t) = {}
  BY DEF Seen
<1>6. ASSUME Windows(w)[i + 1] = t PROVE Cardinality(R) = Cardinality(S) + 1
  <2>1. R = S \union {i + 1} /\ i + 1 \notin S
    BY <1>1, <1>6 DEF Seen
  <2> QED
    BY <1>3, <2>1, FS_AddElement
<1>7. ASSUME Windows(w)[i + 1] # t PROVE R = S
  BY <1>1, <1>7 DEF Seen
<1>8. S # {} => \E j \in 1..i : Windows(w)[j] = t
  BY <1>1 DEF Seen
<1>9. S = {} => \A j \in 1..i : Windows(w)[j] # t
  BY <1>1 DEF Seen
<1> QED
  BY <1>1, <1>4, <1>5, <1>6, <1>7, <1>8, <1>9, FS_EmptySet

LEMMA SeenOther ==
  ASSUME NEW w, NEW i \in Nat, NEW t, Windows(w)[i + 1] # t
  PROVE  Cardinality(Seen(w, i + 1, t)) = Cardinality(Seen(w, i, t))
BY SeenIs

\* What all windows make of it.
WeighsBy(N, Q, m, M, P, n, depth, w, v, i) ==
  \A p \in Seq(Codepoints) : \A d \in Codepoints : Len(p) = depth =>
    Weighs(N, Q, m, p, d) = Weighs(M, P, n, p, d) + v * Cardinality(Seen(w, i, Append(p, d)))

LEMMA TimesOneMore ==
  ASSUME NEW v \in Nat, NEW x \in Nat
  PROVE  v * x \in Nat /\ v * (x + 1) = v * x + v /\ v * 0 = 0
OBVIOUS

LEMMA TimesNotZero ==
  ASSUME NEW v \in Nat, NEW x \in Nat, v # 0, x # 0
  PROVE  v * x # 0
OBVIOUS

\* The tree after the first windows over a word.
Added(N, depth, c, M, P, n, w, v, i) ==
  \E m : \E Q : /\ IsTree(N, Q, m, depth) /\ Counted(N, Q, m, depth, c)
                /\ WeighsBy(N, Q, m, M, P, n, depth, w, v, i)

LEMMA WeighsNat ==
  ASSUME NEW n, NEW P, NEW M, NEW depth \in Nat, IsTree(M, P, n, depth), NEW p, NEW d \in Codepoints
  PROVE  Weighs(M, P, n, p, d) \in Nat
<1>1. CASE \E a \in 1..n : P[a] = p
  <2>1. PICK a \in 1..n : P[a] = p
    BY <1>1
  <2>2. Weighs(M, P, n, p, d) = Lookup(M[a], d)
    BY <2>1, WeighsAt
  <2>3. IsTable(M[a])
    BY DEF IsTree
  <2> QED
    BY <2>2, <2>3, LookupHas
<1>2. CASE ~(\E a \in 1..n : P[a] = p)
  BY <1>2, WeighsNone
<1> QED
  BY <1>1, <1>2

LEMMA WindowAdds ==
  ASSUME NEW depth \in Nat \ {0}, level = depth, NEW c \in Nat, NEW v \in Nat, c + v < CountMax,
         NEW n, NEW P, NEW M, IsTree(M, P, n, depth),
         NEW w, NEW i \in Nat, NEW N, Added(N, depth, c, M, P, n, w, v, i),
         NEW s \in Seq(Codepoints), Len(s) = depth + 1, s = Windows(w)[i + 1]
  PROVE  Added(WordInserted(N, s, v), depth, c + v, M, P, n, w, v, i + 1)
<1>1. PICK m, Q : /\ IsTree(N, Q, m, depth) /\ Counted(N, Q, m, depth, c)
                  /\ WeighsBy(N, Q, m, M, P, n, depth, w, v, i)
  BY DEF Added
<1>2. PICK p \in Seq(Codepoints), e \in Codepoints : p = SubSeq(s, 1, depth) /\ e = s[depth + 1]
  BY WindowIs
<1>3. Len(p) = depth /\ s = Append(p, e)
  BY <1>2, WindowIs
<1>4. PICK O : O = WordInserted(N, s, v)
  OBVIOUS
<1>5. PICK k, R : /\ k \in Nat /\ IsTree(WordInserted(N, s, v), R, k, depth)
                  /\ Gains(N, Q, m, depth, WordInserted(N, s, v), R, k,
                           SubSeq(s, 1, depth), Entry(s[depth + 1], v))
  BY <1>1, WordIs
<1>6. IsTree(O, R, k, depth) /\ Gains(N, Q, m, depth, O, R, k, p, Entry(e, v))
  BY <1>2, <1>4, <1>5
<1>7. Counted(O, R, k, depth, c + v)
  <2>1. \A a \in 1..k : Len(R[a]) = depth => LeafGains(N, Q, m, O, R, a, p, e, v, c)
    BY <1>1, <1>6, LeafGainsIs
  <2> QED
    BY <2>1 DEF Counted, LeafGains
<1>8. ASSUME NEW q \in Seq(Codepoints), NEW d \in Codepoints, Len(q) = depth
      PROVE  Weighs(O, R, k, q, d) = Weighs(M, P, n, q, d) + v * Cardinality(Seen(w, i + 1, Append(q, d)))
  <2>1. PICK t : t = Append(q, d)
    OBVIOUS
  <2>2. PICK x \in Nat : x = Cardinality(Seen(w, i, t))
    BY SeenIs
  <2>3. PICK y \in Nat : y = Weighs(M, P, n, q, d)
    BY WeighsNat
  <2>4. Weighs(N, Q, m, q, d) = y + v * x
    BY <1>1, <1>8, <2>1, <2>2, <2>3 DEF WeighsBy
  <2>5. PICK z \in Nat : z = v * x
    BY <2>2, TimesOneMore
  <2>6. CASE q = p /\ d = e
    <3>1. Cardinality(Seen(w, i + 1, t)) = x + 1
      <4>1. Windows(w)[i + 1] = t
        BY <1>3, <2>1, <2>6
      <4> QED
        BY <2>2, <4>1, SeenIs
    <3>2. Weighs(O, R, k, q, d) = y + z + v
      <4>1. Weighs(O, R, k, q, d) = Weighs(N, Q, m, q, d) + v
        BY <1>1, <1>3, <1>6, <1>8, <2>6, WeighsMore
      <4> QED
        BY <2>4, <2>5, <4>1
    <3>3. v * (x + 1) = z + v
      BY <2>2, <2>5, TimesOneMore
    <3> QED
      BY <2>1, <2>3, <2>5, <3>1, <3>2, <3>3
  <2>7. CASE ~(q = p /\ d = e)
    <3>1. s # t
      <4>1. ASSUME s = t PROVE FALSE
        <5>1. Append(p, e) = Append(q, d)
          BY <1>3, <2>1, <4>1
        <5>2. p = q /\ e = d
          BY <5>1, AppendInjective
        <5> QED
          BY <2>7, <5>2
      <4> QED
        BY <4>1
    <3>2. Cardinality(Seen(w, i + 1, t)) = x
      <4>1. Windows(w)[i + 1] # t
        BY <3>1
      <4> QED
        BY <2>2, <4>1, SeenOther
    <3>3. Weighs(O, R, k, q, d) = Weighs(N, Q, m, q, d)
      BY <1>1, <1>3, <1>6, <1>8, <2>7, WeighsMore
    <3> QED
      BY <2>1, <2>3, <2>4, <3>2, <3>3
  <2> QED
    BY <2>6, <2>7
<1>9. WeighsBy(O, R, k, M, P, n, depth, w, v, i + 1)
  BY <1>8 DEF WeighsBy
<1>10. Added(O, depth, c + v, M, P, n, w, v, i + 1)
  BY <1>6, <1>7, <1>9 DEF Added
<1> QED
  BY <1>4, <1>10

LEMMA AllAdded ==
  ASSUME NEW depth \in Nat \ {0}, level = depth, NEW c \in Nat, NEW v \in Nat,
         NEW n, NEW P, NEW M, IsTree(M, P, n, depth), Counted(M, P, n, depth, c),
         NEW w \in Seq(Codepoints), NEW m \in Nat, m = Len(w) + 1, c + v * m < CountMax,
         NEW f, Inserting(f, m, M, w, v)
  PROVE  Added(f[m], depth, c + v * m, M, P, n, w, v, m)
<1>1. f[0] = M /\ \A i \in 1..m : f[i] = WordInserted(f[i-1], Windows(w)[i], v)
  BY DEF Inserting
<1>2. \A i \in 1..m : IsWindow(Windows(w)[i], w, depth, i)
  BY WindowsAre
<1> DEFINE K == {i \in Nat : i <= m => Added(f[i], depth, c + v * i, M, P, n, w, v, i)}
<1>3. 0 \in K
  <2>1. ASSUME NEW p \in Seq(Codepoints), NEW d \in Codepoints, Len(p) = depth
        PROVE  Weighs(M, P, n, p, d) = Weighs(M, P, n, p, d) + v * Cardinality(Seen(w, 0, Append(p, d)))
    <3>1. Cardinality(Seen(w, 0, Append(p, d))) = 0
      BY SeenIs
    <3>2. PICK x \in Nat : x = Weighs(M, P, n, p, d)
      BY WeighsNat
    <3>3. v * 0 = 0 /\ x + 0 = x
      OBVIOUS
    <3> QED
      BY <3>1, <3>2, <3>3
  <2>2. WeighsBy(M, P, n, M, P, n, depth, w, v, 0)
    BY <2>1 DEF WeighsBy
  <2>3. Added(M, depth, c, M, P, n, w, v, 0)
    BY <2>2 DEF Added
  <2>4. c + v * 0 = c
    OBVIOUS
  <2> QED
    BY <1>1, <2>3, <2>4
<1>4. ASSUME NEW i \in Nat, i \in K PROVE i + 1 \in K
  <2>1. PICK j \in Nat : j = i + 1
    OBVIOUS
  <2> SUFFICES ASSUME j <= m PROVE Added(f[j], depth, c + v * j, M, P, n, w, v, j)
    BY <2>1
  <2>2. j \in 1..m /\ j - 1 = i /\ i <= m
    BY <2>1
  <2>3. PICK z \in Nat : z = v * i /\ v * j = z + v
    BY <2>1, TimesOneMore
  <2>4. PICK N : N = f[i]
    OBVIOUS
  <2>5. Added(N, depth, c + z, M, P, n, w, v, i)
    BY <1>4, <2>2, <2>3, <2>4
  <2>6. PICK s : s = Windows(w)[j]
    OBVIOUS
  <2>7. s \in Seq(Codepoints) /\ Len(s) = depth + 1
    BY <1>2, <2>2, <2>6 DEF IsWindow
  <2>8. PICK e \in Nat : e = c + z
    OBVIOUS
  <2>9. e + v < CountMax
    <3>1. PICK k \in Nat : m = j + k
      <4>1. m - j \in Nat /\ m = j + (m - j)
        BY <2>2
      <4> QED
        BY <4>1
    <3>2. v * m = v * j + v * k /\ v * j \in Nat /\ v * k \in Nat
      BY <3>1
    <3>3. PICK x, y \in Nat : x = v * j /\ y = v * k
      BY <3>2
    <3>4. c + (x + y) < CountMax
      BY <3>2, <3>3
    <3>5. x = z + v
      BY <2>3, <3>3
    <3> QED
      BY <2>8, <3>3, <3>4, <3>5, CountMaxFacts
  <2>10. Added(WordInserted(N, s, v), depth, e + v, M, P, n, w, v, i + 1)
    BY <2>1, <2>5, <2>6, <2>7, <2>8, <2>9, WindowAdds
  <2>11. f[j] = WordInserted(N, s, v)
    BY <1>1, <2>2, <2>4, <2>6
  <2>12. e + v = c + v * j
    BY <2>3, <2>8
  <2> QED
    BY <2>1, <2>10, <2>11, <2>12
<1> HIDE DEF K
<1>5. m \in K
  BY <1>3, <1>4, SetInduction
<1> QED
  BY <1>5 DEF K

-----------------------------------------------------------------------------
(* Markov: the transitions that a word adds to the bag.                    *)

LEMMA SameWindow ==
  ASSUME NEW depth \in Nat, NEW w, NEW i \in Nat, NEW s, NEW t,
         IsWindow(s, w, depth, i), IsWindow(t, w, depth, i)
  PROVE  s = t
<1>1. s \in Seq(Codepoints) /\ t \in Seq(Codepoints) /\ Len(s) = depth + 1 /\ Len(t) = depth + 1
  BY DEF IsWindow
<1>2. \A j \in 1..depth+1 : s[j] = t[j]
  BY DEF IsWindow
<1> QED
  BY <1>1, <1>2, SeqEqual

\* The windows are the transitions of the word with zeros around it.
LEMMA TransitionIs ==
  ASSUME NEW depth \in Nat \ {0}, level = depth, NEW w \in Seq(Codepoints), NEW i \in 1..Len(w)+1
  PROVE  AsChain!Transition(w, i) = Windows(w)[i]
<1>1. PICK len \in Nat : len = Len(w)
  OBVIOUS
<1>2. PICK a : a = Zeros(depth)
  OBVIOUS
<1>3. a \in Seq(Codepoints) /\ Len(a) = depth /\ \A k \in 1..depth : a[k] = 0
  BY <1>2, ZerosAre
<1>4. PICK b : b = a \o w
  OBVIOUS
<1>5. IsJoined(b, a, w, depth, len)
  BY <1>1, <1>3, <1>4, JoinedIs
<1>6. /\ b \in Seq(Codepoints) /\ Len(b) = depth + len
      /\ \A k \in 1..depth+len : b[k] = IF k <= depth THEN a[k] ELSE w[k - depth]
  BY <1>5 DEF IsJoined
<1>7. PICK e : e = <<0>>
  OBVIOUS
<1>8. e \in Seq(Codepoints) /\ Len(e) = 1 /\ e[1] = 0
  BY <1>7, CodepointIsNat
<1>9. PICK z : z = b \o e
  OBVIOUS
<1>10. PICK all \in Nat : all = depth + len
  OBVIOUS
<1>11. IsJoined(z, b, e, all, 1)
  BY <1>6, <1>8, <1>9, <1>10, JoinedIs
<1>12. /\ z \in Seq(Codepoints) /\ Len(z) = all + 1
       /\ \A k \in 1..all+1 : z[k] = IF k <= all THEN b[k] ELSE e[k - all]
  BY <1>11 DEF IsJoined
<1>13. ASSUME NEW k \in 1..all+1 PROVE z[k] = Padded(w, depth, k)
  <2>1. CASE k <= depth
    <3>1. k \in 1..depth /\ k \in 1..depth+len /\ k <= all /\ ~(depth < k)
      BY <1>10, <2>1
    <3> QED
      BY <1>3, <1>6, <1>12, <3>1 DEF Padded
  <2>2. CASE depth < k /\ k <= all
    <3>1. k \in 1..depth+len /\ ~(k <= depth) /\ k <= depth + Len(w)
      BY <1>1, <1>10, <2>2
    <3> QED
      BY <1>6, <1>12, <2>2, <3>1 DEF Padded
  <2>3. CASE k = all + 1
    <3>1. ~(k <= all) /\ k - all = 1 /\ ~(k <= depth + Len(w))
      BY <1>1, <1>10, <2>3
    <3> QED
      BY <1>8, <1>12, <3>1 DEF Padded
  <2> QED
    BY <1>10, <2>1, <2>2, <2>3
<1>14. IsWindow(SubSeq(z, i, i + depth), w, depth, i)
  <2>1. PICK k \in Nat \ {0} : k = i /\ k + depth <= all + 1
    <3>1. i \in Nat \ {0} /\ i + depth <= all + 1
      BY <1>1, <1>10
    <3> QED
      BY <3>1
  <2>2. ASSUME NEW j \in k..k+depth PROVE z[j] = Padded(w, depth, k + j - k)
    <3>1. j \in 1..all+1 /\ k + j - k = j
      BY <2>1
    <3> QED
      BY <1>13, <3>1
  <2>3. k + depth <= Len(z)
    BY <1>12, <2>1
  <2>4. IsWindow(SubSeq(z, k, k + depth), w, depth, k)
    BY <1>12, <2>2, <2>3, PartIsWindow
  <2> QED
    BY <2>1, <2>4
<1>15. IsWindow(Windows(w)[i], w, depth, i)
  BY WindowsAre
<1>16. AsChain!Transition(w, i) = SubSeq(z, i, i + depth)
  BY <1>2, <1>4, <1>7, <1>9 DEF AsChain!Transition, AsChain!Padded, AsChain!Zeros, Zeros
<1>17. PICK s, t : s = SubSeq(z, i, i + depth) /\ t = Windows(w)[i]
  OBVIOUS
<1>18. s = t
  <2>1. IsWindow(s, w, depth, i) /\ IsWindow(t, w, depth, i) /\ i \in Nat /\ depth \in Nat
    BY <1>14, <1>15, <1>17
  <2> QED
    BY <2>1, SameWindow
<1> QED
  BY <1>16, <1>17, <1>18

\* The transitions of a word, each as often as it was added.
IsTransitions(T, w, depth, v, k) ==
  /\ \A t \in DOMAIN T : t \in Seq(Codepoints) /\ Len(t) = depth + 1
  /\ \A t : Copies(T, t) = v * Cardinality(Seen(w, k, t))
  /\ \A t \in DOMAIN T : T[t] # 0

LEMMA SameCardinality ==
  ASSUME NEW S
  PROVE  AsChain!Cardinality(S) = Cardinality(S)
BY DEF AsChain!Cardinality, Cardinality

LEMMA TransitionsAre ==
  ASSUME NEW depth \in Nat \ {0}, level = depth, NEW w \in Seq(Codepoints), NEW v \in Nat,
         NEW k \in Nat, k = Len(w) + 1
  PROVE  IsTransitions(AsChain!Transitions(w, v), w, depth, v, k)
<1>1. PICK T : T = AsChain!Transitions(w, v)
  OBVIOUS
<1>2. \A i \in 1..k : AsChain!Transition(w, i) = Windows(w)[i]
  BY TransitionIs
<1>3. \A t : {i \in 1..k : AsChain!Transition(w, i) = t} = Seen(w, k, t)
  BY <1>2 DEF Seen
<1>4. PICK l \in Nat : l = IF v = 0 THEN 0 ELSE k
  OBVIOUS
<1>5. PICK D : D = {AsChain!Transition(w, i) : i \in 1..l}
  OBVIOUS
<1>6. T = [t \in D |-> v * AsChain!Cardinality({i \in 1..k : AsChain!Transition(w, i) = t})]
  BY <1>1, <1>4, <1>5 DEF AsChain!Transitions
<1>7. ASSUME NEW t \in D PROVE T[t] = v * Cardinality(Seen(w, k, t))
  <2>1. PICK S : S = {i \in 1..k : AsChain!Transition(w, i) = t}
    OBVIOUS
  <2>2. T[t] = v * AsChain!Cardinality(S)
    BY <1>6, <2>1
  <2>3. S = Seen(w, k, t)
    BY <1>3, <2>1
  <2>4. AsChain!Cardinality(S) = Cardinality(S)
    BY SameCardinality
  <2> QED
    BY <2>2, <2>3, <2>4
<1>8. ASSUME NEW t PROVE t \in D <=> v # 0 /\ \E i \in 1..k : Windows(w)[i] = t
  <2>1. CASE v = 0
    <3>1. 1..l = {}
      BY <1>4, <2>1
    <3> QED
      BY <1>5, <2>1, <3>1
  <2>2. CASE v # 0
    <3>1. 1..l = 1..k
      BY <1>4, <2>2
    <3> QED
      BY <1>2, <1>5, <2>2, <3>1
  <2> QED
    BY <2>1, <2>2
<1>9. DOMAIN T = D
  BY <1>6
<1>10. ASSUME NEW t \in DOMAIN T
       PROVE  t \in Seq(Codepoints) /\ Len(t) = depth + 1 /\ T[t] # 0
  <2>1. v # 0
    BY <1>8, <1>9
  <2>2. PICK i \in 1..k : Windows(w)[i] = t
    BY <1>8, <1>9
  <2>3. IsWindow(Windows(w)[i], w, depth, i)
    BY WindowsAre
  <2>4. t \in Seq(Codepoints) /\ Len(t) = depth + 1
    BY <2>2, <2>3 DEF IsWindow
  <2>5. PICK x \in Nat : x = Cardinality(Seen(w, k, t))
    BY SeenIs
  <2>6. x # 0
    <3>1. ASSUME x = 0 PROVE FALSE
      <4>1. \A j \in 1..k : Windows(w)[j] # t
        BY <2>5, <3>1, SeenIs
      <4> QED
        BY <2>2, <4>1
    <3> QED
      BY <3>1
  <2>7. v * x # 0
    BY <2>1, <2>6, TimesNotZero
  <2> QED
    BY <1>7, <1>9, <2>4, <2>5, <2>7
<1>11. ASSUME NEW t PROVE Copies(T, t) = v * Cardinality(Seen(w, k, t))
  <2>1. CASE t \in D
    BY <1>7, <1>9, <2>1 DEF Copies
  <2>2. CASE t \notin D
    <3>1. Copies(T, t) = 0
      BY <1>9, <2>2 DEF Copies
    <3>2. PICK x \in Nat : x = Cardinality(Seen(w, k, t))
      BY SeenIs
    <3>3. v = 0 \/ x = 0
      <4>1. ASSUME v # 0, x # 0 PROVE FALSE
        <5>1. \E j \in 1..k : Windows(w)[j] = t
          BY <3>2, <4>1, SeenIs
        <5> QED
          BY <1>8, <2>2, <4>1, <5>1
      <4> QED
        BY <4>1
    <3>4. v * x = 0
      BY <3>3
    <3> QED
      BY <3>1, <3>2, <3>4
  <2> QED
    BY <2>1, <2>2
<1> QED
  BY <1>1, <1>10, <1>11 DEF IsTransitions

\* What a bag holds after another is added to it.
Plus(H, T) == [t \in DOMAIN H \union DOMAIN T |-> Copies(H, t) + Copies(T, t)]

LEMMA PlusIs ==
  ASSUME NEW H, NEW T
  PROVE  AsChain!(+)(H, T) = Plus(H, T)
BY DEF AsChain!(+), Plus, Copies

LEMMA BagAdded ==
  ASSUME NEW depth \in Nat \ {0}, NEW v \in Nat, NEW w, NEW k \in Nat,
         NEW n, NEW P, NEW M, IsTree(M, P, n, depth), NEW H, IsBagOf(H, M, P, n, depth),
         NEW m, NEW Q, NEW N, IsTree(N, Q, m, depth), NEW G, IsBagOf(G, N, Q, m, depth),
         WeighsBy(N, Q, m, M, P, n, depth, w, v, k),
         NEW T, IsTransitions(T, w, depth, v, k)
  PROVE  G = Plus(H, T)
<1>1. ASSUME NEW t, t \in Seq(Codepoints), Len(t) = depth + 1
      PROVE  /\ Copies(H, t) \in Nat /\ Copies(T, t) \in Nat
             /\ Copies(G, t) = Copies(H, t) + Copies(T, t)
  <2>1. PICK p \in Seq(Codepoints), c \in Codepoints : p = SubSeq(t, 1, depth) /\ c = t[depth + 1]
    BY <1>1, WindowIs
  <2>2. Len(p) = depth /\ t = Append(p, c)
    BY <1>1, <2>1, WindowIs
  <2>3. Copies(G, t) = Weighs(N, Q, m, p, c) /\ Copies(H, t) = Weighs(M, P, n, p, c)
    BY <2>2 DEF IsBagOf
  <2>4. Weighs(N, Q, m, p, c) = Weighs(M, P, n, p, c) + v * Cardinality(Seen(w, k, t))
    BY <2>2 DEF WeighsBy
  <2>5. Copies(T, t) = v * Cardinality(Seen(w, k, t))
    BY DEF IsTransitions
  <2>6. Weighs(M, P, n, p, c) \in Nat
    BY WeighsNat
  <2>7. PICK x \in Nat : x = Cardinality(Seen(w, k, t))
    BY SeenIs
  <2>8. v * x \in Nat
    OBVIOUS
  <2> QED
    BY <2>3, <2>4, <2>5, <2>6, <2>7, <2>8
<1>2. \A t \in DOMAIN H : t \in Seq(Codepoints) /\ Len(t) = depth + 1 /\ Copies(H, t) # 0
  BY DEF IsBagOf, Copies
<1>3. \A t \in DOMAIN G : t \in Seq(Codepoints) /\ Len(t) = depth + 1 /\ Copies(G, t) # 0
  BY DEF IsBagOf, Copies
<1>4. \A t \in DOMAIN T : t \in Seq(Codepoints) /\ Len(t) = depth + 1 /\ Copies(T, t) # 0
  BY DEF IsTransitions, Copies
<1>5. ASSUME NEW t \in DOMAIN G PROVE t \in DOMAIN H \union DOMAIN T
  <2>1. PICK x, y \in Nat : x = Copies(H, t) /\ y = Copies(T, t) /\ Copies(G, t) = x + y
    BY <1>1, <1>3
  <2>2. x # 0 \/ y # 0
    BY <1>3, <2>1
  <2> QED
    BY <2>1, <2>2 DEF Copies
<1>6. ASSUME NEW t \in DOMAIN H \union DOMAIN T PROVE t \in DOMAIN G
  <2>1. t \in Seq(Codepoints) /\ Len(t) = depth + 1
    BY <1>2, <1>4
  <2>2. PICK x, y \in Nat : x = Copies(H, t) /\ y = Copies(T, t) /\ Copies(G, t) = x + y
    BY <1>1, <2>1
  <2>3. x # 0 \/ y # 0
    BY <1>2, <1>4, <2>2
  <2>4. Copies(G, t) # 0
    BY <2>2, <2>3
  <2> QED
    BY <2>4 DEF Copies
<1>7. DOMAIN G = DOMAIN H \union DOMAIN T
  BY <1>5, <1>6
<1>8. \A t \in DOMAIN G : G[t] = Copies(H, t) + Copies(T, t)
  BY <1>1, <1>3 DEF Copies
<1>9. G = [t \in DOMAIN G |-> G[t]]
  BY DEF IsBagOf
<1>10. PICK F : F = [t \in DOMAIN H \union DOMAIN T |-> Copies(H, t) + Copies(T, t)]
  OBVIOUS
<1>11. DOMAIN F = DOMAIN G /\ \A t \in DOMAIN G : F[t] = G[t]
  BY <1>7, <1>8, <1>10
<1>12. F = [t \in DOMAIN F |-> F[t]]
  BY <1>10
<1>13. F = G
  BY <1>9, <1>11, <1>12
<1> QED
  BY <1>10, <1>13 DEF Plus

\* What the chain holds for the tables.
Weight(M, depth) == IF M = <<>> THEN <<>> ELSE HeldOf(M, depth)

LEMMA TreeWeighs ==
  ASSUME NEW depth \in Nat \ {0}, NEW n, NEW P, NEW M, IsTree(M, P, n, depth)
  PROVE  Weight(M, depth) = HeldOf(M, depth) /\ IsBagOf(Weight(M, depth), M, P, n, depth)
<1>1. M # <<>>
  <2>1. DOMAIN M = 1..n /\ n \in Nat \ {0}
    BY DEF IsTree
  <2>2. 1 \in DOMAIN M
    BY <2>1
  <2> QED
    BY <2>2
<1>2. Weight(M, depth) = HeldOf(M, depth)
  BY <1>1 DEF Weight
<1> QED
  BY <1>2, HeldTells

-----------------------------------------------------------------------------
(* Markov: what may follow a context.                                      *)

LEMMA FirstOf ==
  ASSUME NEW p \in Seq(Codepoints), NEW c \in Codepoints, NEW t, t = Append(p, c),
         NEW depth \in Nat \ {0}, depth = Len(p)
  PROVE  SubSeq(t, 1, depth) = p
<1>1. /\ t \in Seq(Codepoints) /\ Len(t) = depth + 1
      /\ t[depth + 1] = c
  BY Longer
<1>2. PICK q \in Seq(Codepoints) : q = SubSeq(t, 1, depth)
  BY <1>1, WindowIs
<1>3. t = Append(q, c)
  BY <1>1, <1>2, WindowIs
<1>4. Append(p, c) = Append(q, c)
  BY <1>3
<1>5. p = q
  BY <1>4, AppendInjective
<1> QED
  BY <1>2, <1>5

\* The transitions from a context by the first entries of its leaf.
Part(E, p, i) == {Append(p, E[j].codepoint) : j \in {k \in 1..i : E[k].value # 0}}

LEMMA PartMore ==
  ASSUME NEW T, IsTable(T), NEW p \in Seq(Codepoints), NEW E, E = Entries(T),
         NEW i \in Nat, i + 1 <= Capacity(T)
  PROVE  /\ E[i + 1].value = 0 => Part(E, p, i + 1) = Part(E, p, i)
         /\ E[i + 1].value # 0 =>
              /\ Part(E, p, i + 1) = Part(E, p, i) \union {Append(p, E[i + 1].codepoint)}
              /\ Append(p, E[i + 1].codepoint) \notin Part(E, p, i)
<1>1. PICK k \in Nat : k = i + 1
  OBVIOUS
<1>2. 1..k = (1..i) \union {k} /\ k \notin 1..i
  BY <1>1
<1>3. ASSUME E[k].value = 0 PROVE Part(E, p, k) = Part(E, p, i)
  BY <1>2, <1>3 DEF Part
<1>4. ASSUME E[k].value # 0 PROVE Part(E, p, k) = Part(E, p, i) \union {Append(p, E[k].codepoint)}
  BY <1>2, <1>4 DEF Part
<1>5. ASSUME E[k].value # 0, Append(p, E[k].codepoint) \in Part(E, p, i) PROVE FALSE
  <2>1. PICK j \in 1..i : E[j].value # 0 /\ Append(p, E[k].codepoint) = Append(p, E[j].codepoint)
    BY <1>5 DEF Part
  <2>2. k \in 1..Capacity(T) /\ j \in 1..Capacity(T) /\ j # k
    BY <1>1, TableHas
  <2>3. PICK c, d \in Codepoints : /\ c = E[k].codepoint /\ Slot(T, c) = k - 1
                                   /\ d = E[j].codepoint /\ Slot(T, d) = j - 1
    BY <1>5, <2>1, <2>2, EntriesTell
  <2>4. Append(p, c) = Append(p, d)
    BY <2>1, <2>3
  <2>5. c = d
    BY <2>4, AppendInjective
  <2> QED
    BY <1>1, <2>2, <2>3, <2>5
<1> QED
  BY <1>1, <1>3, <1>4, <1>5

\* All of them are all that the table has a count for.
LEMMA PartIs ==
  ASSUME NEW T, IsTable(T), NEW p \in Seq(Codepoints), NEW E, E = Entries(T),
         NEW m, m = Capacity(T), NEW t
  PROVE  t \in Part(E, p, m) <=> \E c \in Codepoints : Lookup(T, c) # 0 /\ t = Append(p, c)
<1>1. ASSUME t \in Part(E, p, m)
      PROVE  \E c \in Codepoints : Lookup(T, c) # 0 /\ t = Append(p, c)
  <2>1. PICK j \in 1..m : E[j].value # 0 /\ t = Append(p, E[j].codepoint)
    BY <1>1 DEF Part
  <2>2. E[j].codepoint \in Codepoints /\ Lookup(T, E[j].codepoint) # 0
    BY <2>1, EntriesTell
  <2> QED
    BY <2>1, <2>2
<1>2. ASSUME NEW c \in Codepoints, Lookup(T, c) # 0, t = Append(p, c) PROVE t \in Part(E, p, m)
  <2>1. PICK j : j = Slot(T, c) + 1
    OBVIOUS
  <2>2. j \in 1..m /\ E[j] = Entry(c, Lookup(T, c))
    BY <1>2, <2>1, EntriesTell
  <2>3. Lookup(T, c) \in Nat
    BY LookupHas
  <2>4. E[j].codepoint = c /\ E[j].value # 0
    BY <1>2, <2>2, <2>3, EntryIs
  <2> QED
    BY <1>2, <2>2, <2>4 DEF Part
<1> QED
  BY <1>1, <1>2

LEMMA PartFinite ==
  ASSUME NEW T, IsTable(T), NEW p \in Seq(Codepoints), NEW E, E = Entries(T),
         NEW m \in Nat, m = Capacity(T)
  PROVE  IsFiniteSet(Part(E, p, m))
<1> DEFINE K == {i \in Nat : i <= m => IsFiniteSet(Part(E, p, i))}
<1>1. 0 \in K
  <2>1. Part(E, p, 0) = {}
    BY DEF Part
  <2> QED
    BY <2>1, FS_EmptySet
<1>2. ASSUME NEW i \in Nat, i \in K PROVE i + 1 \in K
  <2> SUFFICES ASSUME i + 1 <= m PROVE IsFiniteSet(Part(E, p, i + 1))
    OBVIOUS
  <2>1. PICK S, R : S = Part(E, p, i) /\ R = Part(E, p, i + 1)
    OBVIOUS
  <2>2. IsFiniteSet(S)
    BY <1>2, <2>1
  <2>3. R = S \/ \E t : R = S \union {t}
    <3>1. CASE E[i + 1].value = 0
      BY <2>1, <3>1, PartMore
    <3>2. CASE E[i + 1].value # 0
      <4>1. R = S \union {Append(p, E[i + 1].codepoint)}
        BY <2>1, <3>2, PartMore
      <4> QED
        BY <4>1
    <3> QED
      BY <3>1, <3>2
  <2>4. IsFiniteSet(R)
    BY <2>2, <2>3, FS_AddElement
  <2> QED
    BY <2>1, <2>4
<1> HIDE DEF K
<1>3. m \in K
  BY <1>1, <1>2, SetInduction
<1> QED
  BY <1>3 DEF K

CountsOf(f, T, p) ==
  \A c \in Codepoints : Lookup(T, c) # 0 => f[Append(p, c)] = Lookup(T, c)

\* The counts of a leaf add up to its sums.
LEMMA PartAddsUp ==
  ASSUME NEW T, IsTable(T), NEW p \in Seq(Codepoints), NEW E, E = Entries(T),
         NEW m \in Nat, m = Capacity(T), NEW D, D = Part(E, p, m),
         NEW f, CountsOf(f, T, p),
         NEW h, Summation(h, f, D)
  PROVE  h[D] = Sums(E)[m]
<1>1. PICK s : s = Sums(E)
  OBVIOUS
<1>2. E \in Seq(AnyEntry) /\ Len(E) = m
  BY EntriesAre
<1>3. s[0] = 0 /\ \A i \in 1..m : s[i] = s[i-1] + E[i].value
  BY <1>1, <1>2, SumsAre
<1>4. IsFiniteSet(D)
  BY PartFinite
<1>5. InNat(f, D)
  <2> SUFFICES ASSUME NEW t \in D PROVE f[t] \in Nat
    BY DEF InNat
  <2>1. PICK c \in Codepoints : Lookup(T, c) # 0 /\ t = Append(p, c)
    BY PartIs
  <2> QED
    BY <2>1, LookupHas DEF CountsOf
<1>6. \A S \in SUBSET D : h[S] \in Nat /\ \A x \in D \ S : h[S \union {x}] = h[S] + f[x]
  <2>1. OneByOne(h, f, D)
    BY <1>4, <1>5, OneMore
  <2> QED
    BY <2>1 DEF OneByOne
<1>7. ASSUME NEW i \in Nat, i <= m PROVE Part(E, p, i) \in SUBSET D
  BY <1>7 DEF Part
<1> DEFINE K == {i \in Nat : i <= m => h[Part(E, p, i)] = s[i]}
<1>8. 0 \in K
  <2>1. PICK g : g = [S \in SUBSET D |-> IF S = {} THEN 0 ELSE f[Some(S)] + h[S \ {Some(S)}]]
    OBVIOUS
  <2>2. h = g
    BY <2>1, Zenon DEF Summation
  <2>3. h[{}] = 0
    BY <2>1, <2>2
  <2>4. Part(E, p, 0) = {}
    BY DEF Part
  <2> QED
    BY <1>3, <2>3, <2>4
<1>9. ASSUME NEW i \in Nat, i \in K PROVE i + 1 \in K
  <2>1. PICK k \in Nat : k = i + 1
    OBVIOUS
  <2> SUFFICES ASSUME k <= m PROVE h[Part(E, p, k)] = s[k]
    BY <2>1
  <2>2. k \in 1..m /\ k - 1 = i /\ i <= m
    BY <2>1
  <2>3. PICK S, R : S = Part(E, p, i) /\ R = Part(E, p, k)
    OBVIOUS
  <2>4. h[S] = s[i] /\ s[k] = s[i] + E[k].value
    BY <1>3, <1>9, <2>2, <2>3
  <2>5. S \in SUBSET D /\ R \in SUBSET D
    BY <1>7, <2>2, <2>3
  <2>6. PICK x \in Nat : x = h[S]
    BY <1>6, <2>5
  <2>7. CASE E[k].value = 0
    <3>1. R = S
      BY <2>1, <2>2, <2>3, <2>7, PartMore
    <3> QED
      BY <2>3, <2>4, <2>6, <2>7, <3>1
  <2>8. CASE E[k].value # 0
    <3>1. PICK t : t = Append(p, E[k].codepoint)
      OBVIOUS
    <3>2. R = S \union {t} /\ t \notin S
      BY <2>1, <2>2, <2>3, <2>8, <3>1, PartMore
    <3>3. t \in D \ S
      BY <2>5, <3>2
    <3>4. h[R] = h[S] + f[t]
      BY <1>6, <2>5, <3>2, <3>3
    <3>5. f[t] = E[k].value
      BY <2>2, <2>8, <3>1, EntriesTell DEF CountsOf
    <3> QED
      BY <2>3, <2>4, <3>4, <3>5
  <2> QED
    BY <2>7, <2>8
<1> HIDE DEF K
<1>10. m \in K
  BY <1>8, <1>9, SetInduction
<1> QED
  BY <1>1, <1>10 DEF K

\* f has what H has of the transitions from a context.
After(f, H, p, depth) ==
  \E D : D = {t \in DOMAIN H : SubSeq(t, 1, depth) = p} /\ f = [t \in D |-> H[t]]

\* What may follow a context weighs as much as the total of its leaf.
LEMMA ChoicesAre ==
  ASSUME NEW depth \in Nat \ {0}, NEW n, NEW P, NEW M, IsTree(M, P, n, depth),
         NEW H, IsBagOf(H, M, P, n, depth),
         NEW b \in 1..n, Len(P[b]) = depth, Sound(M[b]),
         NEW f, After(f, H, P[b], depth)
  PROVE  AsChain!BagCardinality(f) = M[b].total
<1>1. PICK T : T = M[b]
  OBVIOUS
<1> DEFINE D == DOMAIN f
<1>0. /\ \A t : t \in D <=> t \in DOMAIN H /\ SubSeq(t, 1, depth) = P[b]
      /\ \A t \in D : f[t] = H[t]
  BY DEF After
<1> HIDE DEF D
<1>2. IsTable(T)
  BY <1>1 DEF IsTree
<1>3. PICK p \in Seq(Codepoints) : p = P[b] /\ Len(p) = depth
  BY DEF IsTree
<1>4. \A c \in Codepoints : Copies(H, Append(p, c)) = Lookup(T, c)
  <2> SUFFICES ASSUME NEW c \in Codepoints PROVE Copies(H, Append(p, c)) = Lookup(T, c)
    OBVIOUS
  <2>1. Copies(H, Append(p, c)) = Weighs(M, P, n, p, c)
    BY <1>3 DEF IsBagOf
  <2>2. Weighs(M, P, n, p, c) = Lookup(T, c)
    BY <1>1, <1>3, WeighsAt
  <2> QED
    BY <2>1, <2>2
<1>5. ASSUME NEW c \in Codepoints, Lookup(T, c) # 0
      PROVE  Append(p, c) \in D /\ f[Append(p, c)] = Lookup(T, c)
  <2>1. PICK t \in Seq(Codepoints) : t = Append(p, c)
    BY Longer
  <2>2. Copies(H, t) = Lookup(T, c)
    BY <1>4, <2>1
  <2>3. t \in DOMAIN H /\ H[t] = Lookup(T, c)
    BY <1>5, <2>2 DEF Copies
  <2>4. SubSeq(t, 1, depth) = p
    BY <1>3, <2>1, FirstOf
  <2>5. t \in D /\ f[t] = H[t]
    BY <1>0, <1>3, <2>3, <2>4
  <2> QED
    BY <2>1, <2>3, <2>5
<1>6. ASSUME NEW t \in D PROVE \E c \in Codepoints : Lookup(T, c) # 0 /\ t = Append(p, c)
  <2>1. t \in DOMAIN H /\ SubSeq(t, 1, depth) = p
    BY <1>0, <1>3
  <2>2. t \in Seq(Codepoints) /\ Len(t) = depth + 1 /\ H[t] # 0
    BY <2>1 DEF IsBagOf
  <2>3. PICK c \in Codepoints : c = t[depth + 1]
    BY <2>2, WindowIs
  <2>4. t = Append(p, c)
    BY <2>1, <2>2, <2>3, WindowIs
  <2>5. Copies(H, t) # 0
    BY <2>1, <2>2 DEF Copies
  <2>6. Lookup(T, c) # 0
    BY <1>4, <2>4, <2>5
  <2> QED
    BY <2>4, <2>6
<1>7. PICK m \in Nat : m = Capacity(T)
  BY <1>2, TableHas
<1>8. PICK E : E = Entries(T)
  OBVIOUS
<1>9. D = Part(E, p, m)
  <2>1. \A t : t \in Part(E, p, m) <=> \E c \in Codepoints : Lookup(T, c) # 0 /\ t = Append(p, c)
    BY <1>2, <1>7, <1>8, PartIs
  <2>2. ASSUME NEW t \in D PROVE t \in Part(E, p, m)
    BY <1>6, <2>1
  <2>3. ASSUME NEW t \in Part(E, p, m) PROVE t \in D
    <3>1. PICK c \in Codepoints : Lookup(T, c) # 0 /\ t = Append(p, c)
      BY <2>1
    <3> QED
      BY <1>5, <3>1
  <2> QED
    BY <2>2, <2>3
<1>10. IsFiniteSet(D) /\ D = DOMAIN f
  BY <1>2, <1>7, <1>8, <1>9, PartFinite DEF D
<1>11. PICK h : Summation(h, f, D) /\ AsChain!BagCardinality(f) = h[D]
  BY <1>10, CardinalityIs
<1>12. h[D] = Sums(E)[m]
  <2>1. CountsOf(f, T, p)
    BY <1>5 DEF CountsOf
  <2> QED
    BY <1>2, <1>7, <1>8, <1>9, <1>11, <2>1, PartAddsUp
<1> QED
  BY <1>1, <1>7, <1>8, <1>11, <1>12 DEF Sound

LEMMA BeforeLonger ==
  ASSUME NEW w \in Seq(Codepoints), NEW d \in Codepoints
  PROVE  SubSeq(Append(w, d), 1, Len(w)) = w
<1>1. PICK u, v, len : len = Len(w) /\ u = Append(w, d) /\ v = SubSeq(u, 1, len)
  OBVIOUS
<1>2. /\ len \in Nat /\ u \in Seq(Codepoints) /\ Len(u) = len + 1
      /\ \A i \in 1..len : u[i] = w[i]
  BY <1>1, Longer
<1>3. v \in Seq(Codepoints) /\ Len(v) = len /\ \A i \in 1..len : v[i] = u[i]
  <2>1. 1 \in 1..Len(u)+1 /\ len \in 0..Len(u)
    BY <1>2
  <2> QED
    BY <1>1, <1>2, <2>1, SubSeqProperties
<1>4. v = w
  BY <1>1, <1>2, <1>3, SeqEqual
<1> QED
  BY <1>1, <1>4

\* The codepoints at the end of a word that label a leaf.
LEMMA LastOnes ==
  ASSUME NEW depth \in Nat \ {0}, NEW w \in Seq(Codepoints), NEW len \in Nat, len = Len(w), len >= depth,
         NEW P, NEW b, Labelled(P, b, w, Len(w) - depth + 1, depth),
         NEW p \in Seq(Codepoints), p = P[b]
  PROVE  SubSeq(w, len - depth + 1, len) = p
<1>1. PICK k \in Nat \ {0} : k = len - depth + 1
  <2>1. len - depth + 1 \in Nat \ {0}
    OBVIOUS
  <2> QED
    BY <2>1
<1>2. PICK v : v = SubSeq(w, k, len)
  OBVIOUS
<1>3. v \in Seq(Codepoints) /\ Len(v) = depth /\ \A j \in 1..depth : v[j] = w[k + j - 1]
  <2>1. \A j \in k..len : w[j] \in Codepoints
    <3>1. \A j \in k..len : j \in 1..Len(w)
      BY <1>1
    <3> QED
      BY <3>1, ElementOfSeq
  <2>2. /\ SubSeq(w, k, len) \in Seq(Codepoints)
        /\ Len(SubSeq(w, k, len)) = IF k <= len THEN len-k+1 ELSE 0
        /\ \A j \in 1..len-k+1 : SubSeq(w, k, len)[j] = w[k+j-1]
    BY <2>1, SubSeqProperties
  <2>3. len - k + 1 = depth /\ k <= len
    BY <1>1
  <2> QED
    BY <1>2, <2>2, <2>3
<1>4. Len(p) = depth /\ \A j \in 1..depth : p[j] = w[k + j - 1]
  BY <1>1 DEF Labelled
<1>5. v = p
  BY <1>3, <1>4, SeqEqual
<1> QED
  BY <1>1, <1>2, <1>5

-----------------------------------------------------------------------------
(* Markov: every step of the tree is a step of the bag.                    *)

LEMMA AddStep ==
  ASSUME ChainInv, NEW w \in Words, NEW v \in Weights, Add(w, v)
  PROVE  AsChain!Add(w, v)
<1>1. PICK depth \in Nat \ {0} : depth = level
  BY DEF ChainInv
<1>2. PICK c \in Nat : c = count
  BY DEF ChainInv
<1>3. w \in Seq(Codepoints) /\ v \in Nat
  BY WordsAssumption
<1>4. PICK m \in Nat : m = Len(w) + 1 /\ m = Len(Windows(w))
  BY <1>1, <1>3, WindowsAre
<1>5. PICK f : Inserting(f, m, tables, w, v) /\ AllInserted(w, v) = f[m]
  BY <1>4, AllInsertedIs
<1>6. status = "adding" /\ level' = level /\ word' = word /\ entropy' = entropy
  BY DEF Add
<1>7. tables' = f[m] /\ count' = c + v * m
  BY <1>2, <1>4, <1>5 DEF Add
<1>8. PICK n, P : IsTree(tables, P, n, depth) /\ Counted(tables, P, n, depth, c)
  BY <1>1, <1>2, <1>6 DEF ChainInv, Intact, Standing
<1>9. PICK T : T = AsChain!Transitions(w, v)
  OBVIOUS
<1>10. ASSUME c + v * m < CountMax
       PROVE  Weight(tables', level') = AsChain!(+)(Weight(tables, level), T)
  <2>1. Added(f[m], depth, c + v * m, tables, P, n, w, v, m)
    BY <1>1, <1>3, <1>4, <1>5, <1>8, <1>10, AllAdded
  <2>2. PICK k, Q : /\ IsTree(f[m], Q, k, depth)
                    /\ WeighsBy(f[m], Q, k, tables, P, n, depth, w, v, m)
    BY <2>1 DEF Added
  <2>3. PICK H, G, N : H = Weight(tables, depth) /\ N = f[m] /\ G = Weight(N, depth)
    OBVIOUS
  <2>4. IsBagOf(H, tables, P, n, depth) /\ IsBagOf(G, N, Q, k, depth)
    BY <1>8, <2>2, <2>3, TreeWeighs
  <2>5. IsTransitions(T, w, depth, v, m)
    BY <1>1, <1>3, <1>4, <1>9, TransitionsAre
  <2>6. G = Plus(H, T)
    BY <1>3, <1>8, <2>2, <2>3, <2>4, <2>5, BagAdded
  <2>7. AsChain!(+)(H, T) = Plus(H, T)
    BY PlusIs
  <2> QED
    BY <1>1, <1>6, <1>7, <2>3, <2>6, <2>7
<1>11. count' = count + v * (Len(w) + 1)
  BY <1>2, <1>4, <1>7
<1>12. count' < CountMax =>
         (IF tables = <<>> THEN <<>> ELSE Held)' = AsChain!(+)(IF tables = <<>> THEN <<>> ELSE Held, T)
  BY <1>7, <1>10, HeldIs DEF Weight
<1> QED
  BY <1>6, <1>9, <1>11, <1>12 DEF AsChain!Add

LEMMA GenerateStep ==
  ASSUME ChainInv, Generate
  PROVE  AsChain!Extend
<1>1. PICK depth \in Nat \ {0} : depth = level
  BY DEF ChainInv
<1>2. PICK c \in Nat : c = count
  BY DEF ChainInv
<1>3. PICK b : b = Reached
  OBVIOUS
<1>4. PICK T : T = tables[b]
  OBVIOUS
<1>5. status = "making" /\ level' = level /\ count' = count /\ tables' = tables /\ b # 0
  BY <1>3 DEF Generate
<1>6. PICK choice \in Draw(T), i \in 1..Len(Entries(T)) :
        /\ Sums(Entries(T))[i-1] <= choice /\ choice < Sums(Entries(T))[i]
        /\ word' = Append(word, Entries(T)[i].codepoint)
        /\ entropy' = <<entropy[1] * T.total, entropy[2] * Entries(T)[i].value>>
  BY <1>3, <1>4 DEF Generate
<1>7. PICK n, P : Intact(tables, P, n, depth, c)
  BY <1>1, <1>2, <1>5 DEF ChainInv
<1>8. Standing(tables, P, n, depth, c) /\ Walked(P, n, word, depth) /\ Ahead(tables, P, n, word, depth, c)
  BY <1>5, <1>7 DEF Intact
<1>9. b \in 1..n /\ Labelled(P, b, word, Len(word) - depth + 1, depth)
  BY <1>1, <1>3, <1>5, <1>8, ReachedLeaf
<1>10. IsTree(tables, P, n, depth) /\ Counted(tables, P, n, depth, c)
  BY <1>8 DEF Standing
<1>11. IsTable(T)
  BY <1>4, <1>9, <1>10 DEF IsTree
<1>12. PICK d \in Codepoints : d = Entries(T)[i].codepoint /\ Lookup(T, d) # 0
  BY <1>6, <1>11, ChosenIs
<1>13. Entries(T)[i].value = Lookup(T, d)
  BY <1>6, <1>11, <1>12, ChosenIs
<1>14. PICK len \in Nat : len = Len(word) /\ len >= depth /\ word \in Seq(Codepoints)
  BY <1>8 DEF Walked
<1>15. PICK u : u = Append(word, d)
  OBVIOUS
<1>16. word' = u
  BY <1>6, <1>12, <1>15
<1>17. Len(u) = len + 1 /\ u[Len(u)] = d
  BY <1>14, <1>15, Longer
<1>18. SubSeq(u, 1, Len(word)) = word
  BY <1>14, <1>15, BeforeLonger
<1>19. PICK p \in Seq(Codepoints) : p = P[b] /\ Len(p) = depth
  BY <1>9, <1>10 DEF IsTree, Labelled
<1>20. AsChain!Context = p
  <2>1. SubSeq(word, len - depth + 1, len) = p
    BY <1>9, <1>14, <1>19, LastOnes
  <2> QED
    BY <1>1, <1>14, <2>1 DEF AsChain!Context
<1>21. PICK H : H = Weight(tables, level)
  OBVIOUS
<1>22. IsBagOf(H, tables, P, n, depth)
  BY <1>1, <1>10, <1>21, TreeWeighs
<1>23. Append(p, d) \in DOMAIN H /\ H[Append(p, d)] = Lookup(T, d)
  <2>1. Copies(H, Append(p, d)) = Weighs(tables, P, n, p, d)
    BY <1>19, <1>22 DEF IsBagOf
  <2>2. Weighs(tables, P, n, p, d) = Lookup(T, d)
    BY <1>4, <1>9, <1>10, <1>19, WeighsAt
  <2> QED
    BY <1>12, <2>1, <2>2 DEF Copies
<1>24. H = IF tables = <<>> THEN <<>> ELSE Held
  BY <1>21, HeldIs DEF Weight
<1>25. ASSUME c < CountMax PROVE AsChain!Choices(p) = T.total
  <2>1. Sound(T)
    BY <1>4, <1>9, <1>10, <1>19, <1>25 DEF Counted
  <2>2. PICK D : D = {t \in DOMAIN H : SubSeq(t, 1, depth) = p}
    OBVIOUS
  <2>3. PICK f : f = [t \in D |-> H[t]]
    OBVIOUS
  <2>4. After(f, H, p, depth)
    BY <2>2, <2>3 DEF After
  <2>5. AsChain!BagCardinality(f) = T.total
    BY <1>4, <1>9, <1>10, <1>19, <1>22, <2>1, <2>4, ChoicesAre
  <2>6. AsChain!Choices(p) = AsChain!BagCardinality(f)
    BY <1>1, <1>24, <2>2, <2>3 DEF AsChain!Choices
  <2> QED
    BY <2>5, <2>6
<1>26. (IF tables = <<>> THEN <<>> ELSE Held)' = IF tables = <<>> THEN <<>> ELSE Held
  BY <1>5, HeldIs
<1>27. /\ Len(word') = Len(word) + 1 /\ SubSeq(word', 1, Len(word)) = word
       /\ Append(AsChain!Context, word'[Len(word')]) = Append(p, d)
  BY <1>14, <1>16, <1>17, <1>18, <1>20
<1>28. ASSUME count < CountMax
       PROVE  entropy' = <<entropy[1] * AsChain!Choices(AsChain!Context), entropy[2] * H[Append(p, d)]>>
  BY <1>2, <1>6, <1>13, <1>20, <1>23, <1>25, <1>28
<1> QED
  BY <1>5, <1>23, <1>24, <1>26, <1>27, <1>28 DEF AsChain!Extend

LEMMA InitStep ==
  ASSUME Init
  PROVE  AsChain!Init
<1>1. PICK depth \in Nat \ {0} : depth = level /\ level \in 1..255
  BY LevelsAssumption DEF Init
<1>2. tables = [a \in {1} |-> NewTable("node", 1)] /\ count = 0 /\ word = <<>> /\ entropy = <<1, 1>>
  BY DEF Init, Root
<1>3. PICK P : P = [a \in {1} |-> <<>>]
  OBVIOUS
<1>4. Standing(tables, P, 1, depth, 0)
  BY <1>2, <1>3, RootStands
<1>5. IsTree(tables, P, 1, depth)
  BY <1>4 DEF Standing
<1>6. PICK H : H = Weight(tables, depth)
  OBVIOUS
<1>7. IsBagOf(H, tables, P, 1, depth)
  BY <1>5, <1>6, TreeWeighs
<1>8. ASSUME NEW t \in DOMAIN H PROVE FALSE
  <2>1. t \in Seq(Codepoints) /\ Len(t) = depth + 1 /\ H[t] # 0
    BY <1>7 DEF IsBagOf
  <2>2. PICK p \in Seq(Codepoints), c \in Codepoints : p = SubSeq(t, 1, depth) /\ c = t[depth + 1]
    BY <2>1, WindowIs
  <2>3. Len(p) = depth /\ t = Append(p, c)
    BY <2>1, <2>2, WindowIs
  <2>4. Copies(H, t) = Weighs(tables, P, 1, p, c)
    BY <1>7, <2>3 DEF IsBagOf
  <2>5. \A a \in 1..1 : P[a] # p
    <3>1. Len(<<>>) = 0
      BY EmptySeq
    <3> QED
      BY <1>3, <2>3, <3>1
  <2>6. Weighs(tables, P, 1, p, c) = 0
    BY <2>5, WeighsNone
  <2> QED
    BY <2>1, <2>4, <2>6 DEF Copies
<1>9. H = <<>>
  <2>1. DOMAIN H = {}
    BY <1>8
  <2>2. H = [t \in DOMAIN H |-> H[t]]
    BY <1>7 DEF IsBagOf
  <2> QED
    BY <2>1, <2>2
<1>10. AsChain!EmptyBag = <<>>
  BY DEF AsChain!EmptyBag, AsChain!SetToBag
<1>11. H = IF tables = <<>> THEN <<>> ELSE Held
  BY <1>1, <1>6, HeldIs DEF Weight
<1> QED
  BY <1>1, <1>2, <1>9, <1>10, <1>11 DEF AsChain!Init

LEMMA NextStep ==
  ASSUME ChainInv, [Next]_vars
  PROVE  [AsChain!Next]_(AsChain!vars)
<1>1. CASE \E w \in Words, v \in Weights : Add(w, v)
  BY <1>1, AddStep DEF AsChain!Next
<1>2. ASSUME tables' = tables, level' = level
      PROVE  (IF tables = <<>> THEN <<>> ELSE Held)' = IF tables = <<>> THEN <<>> ELSE Held
  BY <1>2, HeldIs
<1>3. CASE StartWord
  <2>1. /\ word' = Zeros(level) /\ entropy' = <<1, 1>> /\ level' = level /\ count' = count
        /\ tables' = tables
    BY <1>3 DEF StartWord
  <2>2. AsChain!Start
    BY <1>2, <2>1 DEF AsChain!Start, AsChain!Zeros, Zeros
  <2> QED
    BY <2>2 DEF AsChain!Next
<1>4. CASE Generate
  BY <1>4, GenerateStep DEF AsChain!Next
<1>5. CASE Lose \/ Overrun \/ UNCHANGED vars
  <2>1. UNCHANGED <<level, count, tables, word, entropy>>
    BY <1>5 DEF Lose, Overrun, vars
  <2> QED
    BY <1>2, <2>1 DEF AsChain!vars
<1>6. CASE Free
  <2>1. level' = level /\ count' = count /\ word' = word /\ entropy' = entropy
    BY <1>6 DEF Free
  <2>2. tables' = <<>>
    <3>1. ChainInv' /\ status' = "freed"
      BY <1>6, FreeChain DEF Free
    <3> QED
      BY <3>1 DEF ChainInv
  <2>3. AsChain!EmptyBag = <<>>
    BY DEF AsChain!EmptyBag, AsChain!SetToBag
  <2>4. AsChain!Clear
    BY <2>1, <2>2, <2>3 DEF AsChain!Clear
  <2> QED
    BY <2>4 DEF AsChain!Next
<1> QED
  BY <1>1, <1>3, <1>4, <1>5, <1>6 DEF Next

\* In whatever chain, of all words: the tree of tables is the bag of the transitions
\* that were added, as long as no count overflows, and words are made of these
\* transitions, with the odds to match.
THEOREM TreeImplementsChain == Spec => ImplementsChain
<1>1. Init => AsChain!Init
  BY InitStep
<1>2. ChainInv /\ [Next]_vars => [AsChain!Next]_(AsChain!vars)
  BY NextStep
<1> QED
  BY <1>1, <1>2, ChainAlways, PTL DEF Spec, ImplementsChain, AsChain!Spec
=============================================================================
