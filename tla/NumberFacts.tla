---------------------------- MODULE NumberFacts -----------------------------
(***************************************************************************)
(* Facts the proofs share.  Arithmetic: `offset & MAGIC_BUFFER_MASK' and   *)
(* ALIGNED_DOWN of the circular buffers, multiples of a unit.  Induction:  *)
(* stated over a set of numbers rather than an operator, from the library  *)
(* theorem that every set of naturals has a minimal element, with the      *)
(* existence of functions defined by recursion on a loop index, and the    *)
(* number of elements of a set that changes by one element.                *)
(***************************************************************************)
EXTENDS Integers, FiniteSets, FiniteSetTheorems, WellFoundedInduction, TLAPS

(* Quotient and remainder of a division, as the provers need them. *)
LEMMA DivFacts ==
    ASSUME NEW n \in Nat, NEW u \in Nat \ {0}
    PROVE  /\ n \div u \in Nat
           /\ n = u * (n \div u) + (n % u)
           /\ n % u \in 0..(u - 1)
  OBVIOUS

(* ALIGNED_DOWN stays within one unit below its argument. *)
LEMMA AlignDownFacts ==
    ASSUME NEW n \in Nat, NEW u \in Nat \ {0}
    PROVE  /\ (n \div u) * u \in Nat
           /\ (n \div u) * u <= n
           /\ n < (n \div u) * u + u
  OBVIOUS

(* Two offsets less than a ring apart share a location only if they are    *)
(* equal.                                                                  *)
LEMMA ModUnique ==
    ASSUME NEW a \in Nat, NEW b \in Nat, NEW R \in Nat \ {0},
           a % R = b % R, a < b + R, b < a + R
    PROVE  a = b
<1> DEFINE qa == a \div R
           qb == b \div R
<1>1. /\ qa \in Nat /\ qb \in Nat /\ a % R \in 0..(R - 1)
      /\ a = R * qa + (a % R) /\ b = R * qb + (b % R)
  BY DivFacts
<1> HIDE DEF qa, qb
<1>2. a - b = R * (qa - qb)
  BY <1>1
<1>3. CASE qa = qb
  BY <1>1, <1>3
<1>4. CASE qa > qb
  <2>1. R * (qa - qb) >= R
    BY <1>1, <1>4
  <2> QED BY <2>1, <1>2
<1>5. CASE qb > qa
  <2>1. R * (qb - qa) >= R
    BY <1>1, <1>5
  <2>2. b - a = R * (qb - qa)
    BY <1>1
  <2> QED BY <2>1, <2>2
<1> QED BY <1>1, <1>3, <1>4, <1>5

(* d bytes behind s, as long as the ring end is not reached. *)
LEMMA ModStep ==
    ASSUME NEW s \in Nat, NEW d \in Nat, NEW R \in Nat \ {0}, (s % R) + d < R
    PROVE  (s + d) % R = (s % R) + d
<1> DEFINE t == s + d
           q == s \div R
           m == s % R
           q2 == t \div R
           m2 == t % R
<1>1. q \in Nat /\ s = R * q + m /\ m \in 0..(R - 1)
  BY DivFacts
<1>2. t \in Nat
  OBVIOUS
<1> HIDE DEF t
<1>3. q2 \in Nat /\ t = R * q2 + m2 /\ m2 \in 0..(R - 1)
  BY <1>2, DivFacts
<1>4. m + d < R /\ t = s + d
  BY DEF t
<1> HIDE DEF q, m, q2, m2
<1>5. CASE q2 = q
  <2>1. m2 = m + d
    BY <1>1, <1>3, <1>4, <1>5
  <2> QED BY <2>1 DEF m, m2, t
<1>6. CASE q2 > q
  <2>1. R * (q2 - q) >= R
    BY <1>1, <1>3, <1>6
  <2>2. R * (q2 - q) = m + d - m2
    BY <1>1, <1>3, <1>4
  <2> QED BY <2>1, <2>2, <1>1, <1>3, <1>4
<1>7. CASE q2 < q
  <2>1. R * (q - q2) >= R
    BY <1>1, <1>3, <1>7
  <2>2. R * (q - q2) = m2 - m - d
    BY <1>1, <1>3, <1>4
  <2> QED BY <2>1, <2>2, <1>1, <1>3
<1> QED BY <1>1, <1>3, <1>5, <1>6, <1>7

(* d bytes behind s, beyond the ring end by less than a ring. *)
LEMMA ModWrap ==
    ASSUME NEW s \in Nat, NEW d \in Nat, NEW R \in Nat \ {0},
           (s % R) + d >= R, (s % R) + d < R + R
    PROVE  (s + d) % R = (s % R) + d - R
<1> DEFINE t == s + d
           q == s \div R
           m == s % R
           q2 == t \div R
           m2 == t % R
<1>1. q \in Nat /\ s = R * q + m /\ m \in 0..(R - 1)
  BY DivFacts
<1>2. t \in Nat
  OBVIOUS
<1> HIDE DEF t
<1>3. q2 \in Nat /\ t = R * q2 + m2 /\ m2 \in 0..(R - 1)
  BY <1>2, DivFacts
<1>4. m + d >= R /\ m + d < R + R /\ t = s + d
  BY DEF t
<1> HIDE DEF q, m, q2, m2
<1>5. R * (q2 - (q + 1)) = m + d - R - m2
  BY <1>1, <1>3, <1>4
<1>6. CASE q2 = q + 1
  <2>1. m2 = m + d - R
    BY <1>1, <1>3, <1>5, <1>6
  <2> QED BY <2>1 DEF m, m2, t
<1>7. CASE q2 > q + 1
  <2>1. R * (q2 - (q + 1)) >= R
    BY <1>1, <1>3, <1>7
  <2> QED BY <2>1, <1>1, <1>3, <1>4, <1>5
<1>8. CASE q2 < q + 1
  <2>1. R * ((q + 1) - q2) >= R
    BY <1>1, <1>3, <1>8
  <2>2. R * ((q + 1) - q2) = m2 - (m + d - R)
    BY <1>1, <1>3, <1>4
  <2> QED BY <2>1, <2>2, <1>1, <1>3, <1>4
<1> QED BY <1>1, <1>3, <1>6, <1>7, <1>8
-----------------------------------------------------------------------------
(* A set of naturals that is not empty has a least element. *)
LEMMA LeastElement ==
  ASSUME NEW T \in SUBSET Nat, T # {}
  PROVE  \E x \in T : \A y \in T : x <= y
<1> DEFINE R == {ss \in Nat \X Nat : ss[1] < ss[2]}
<1>1. IsWellFoundedOn(R, Nat)
  BY NatLessThanWellFounded DEF OpToRel
<1>2. PICK x \in T : \A y \in T : ~ (<<y, x>> \in R)
  BY <1>1, WFMin
<1>3. ASSUME NEW y \in T PROVE x <= y
  <2>1. x \in Nat /\ y \in Nat
    BY <1>2
  <2>2. ~ (<<y, x>> \in R)
    BY <1>2
  <2>3. y < x => <<y, x>> \in R
    BY <2>1
  <2> QED BY <2>1, <2>2, <2>3
<1> QED BY <1>3

(* Induction over a set of naturals. *)
LEMMA SetInduction ==
  ASSUME NEW T \in SUBSET Nat, 0 \in T, \A n \in T : n + 1 \in T
  PROVE  \A n \in Nat : n \in T
<1> SUFFICES ASSUME Nat \ T # {} PROVE FALSE
  OBVIOUS
<1>1. PICK x \in Nat \ T : \A y \in Nat \ T : x <= y
  <2> DEFINE U == Nat \ T
  <2>1. \E x \in U : \A y \in U : x <= y
    BY LeastElement
  <2> QED BY <2>1
<1>2. x # 0 /\ x - 1 \in Nat
  BY <1>1
<1>3. x - 1 \in T
  BY <1>1, <1>2
<1> QED BY <1>1, <1>2, <1>3
(* A loop over 1..M from c: the function that a recursive definition       *)
(* names exists, and so has the values the definition gives it.            *)
LEMMA RecExists ==
  ASSUME NEW S, NEW c \in S, NEW M \in Nat, NEW st \in [1..M -> [S -> S]]
  PROVE  \E f \in [0..M -> S] : f[0] = c /\ \A n \in 1..M : f[n] = st[n][f[n - 1]]
<1> DEFINE Good(f, m) == f[0] = c /\ \A n \in 1..m : f[n] = st[n][f[n - 1]]
           T == {m \in Nat : m <= M => \E f \in [0..m -> S] : Good(f, m)}
<1>1. 0 \in T
  <2> DEFINE g == [n \in 0..0 |-> c]
  <2>1. g \in [0..0 -> S] /\ Good(g, 0)
    OBVIOUS
  <2> QED BY <2>1
<1>2. ASSUME NEW m \in T PROVE m + 1 \in T
  <2> SUFFICES ASSUME m + 1 <= M PROVE \E f \in [0..(m + 1) -> S] : Good(f, m + 1)
    BY <1>2
  <2>1. PICK f \in [0..m -> S] : Good(f, m)
    BY <1>2
  <2> DEFINE g == [n \in 0..(m + 1) |-> IF n = m + 1 THEN st[m + 1][f[m]] ELSE f[n]]
  <2>2. m \in Nat /\ f[m] \in S /\ m + 1 \in 1..M
    BY <1>2, <2>1
  <2>3. st[m + 1][f[m]] \in S
    BY <2>2
  <2>4. g \in [0..(m + 1) -> S]
    BY <2>2, <2>3, <2>1
  <2>5. Good(g, m + 1)
    <3>1. g[0] = c
      BY <2>1, <2>2
    <3>2. ASSUME NEW n \in 1..(m + 1) PROVE g[n] = st[n][g[n - 1]]
      <4>1. CASE n = m + 1
        <5>1. g[n] = st[n][f[m]]
          BY <4>1, <2>2
        <5>2. g[n - 1] = f[m]
          BY <4>1, <2>2
        <5> HIDE DEF g
        <5> QED BY <5>1, <5>2
      <4>2. CASE n # m + 1
        <5>1. g[n] = f[n] /\ g[n - 1] = f[n - 1] /\ n \in 1..m
          BY <4>2, <2>2
        <5>2. f[n] = st[n][f[n - 1]]
          BY <5>1, <2>1
        <5> HIDE DEF g
        <5> QED BY <5>1, <5>2
      <4> QED BY <4>1, <4>2
    <3> HIDE DEF g
    <3> QED BY <3>1, <3>2
  <2> HIDE DEF g
  <2> QED BY <2>4, <2>5
<1>3. M \in T
  <2> HIDE DEF T
  <2>1. T \in SUBSET Nat BY DEF T
  <2> QED BY <1>1, <1>2, <2>1, SetInduction
<1>4. PICK f \in [0..M -> S] : Good(f, M)
  BY <1>3
<1> QED BY <1>4

(* The same for a recursion from a tree node n to its parent n \div 2. *)
TreeRec(f, c, M, st) == f[1] = c /\ \A n \in 2..M : f[n] = st[n][f[n \div 2]]

LEMMA TreeRecExists ==
  ASSUME NEW S, NEW c \in S, NEW M \in Nat \ {0}, NEW st \in [1..M -> [S -> S]]
  PROVE  \E f \in [1..M -> S] : TreeRec(f, c, M, st)
<1> DEFINE Good(f, m) == f[1] = c /\ \A n \in 2..m : f[n] = st[n][f[n \div 2]]
           T == {m \in Nat : m + 1 <= M => \E f \in [1..(m + 1) -> S] : Good(f, m + 1)}
<1>h. \A n \in Nat : n >= 2 => n \div 2 \in 1..(n - 1)
  OBVIOUS
<1>1. 0 \in T
  <2> DEFINE g == [n \in 1..1 |-> c]
  <2>1. g \in [1..1 -> S] /\ Good(g, 1)
    OBVIOUS
  <2>2. 0 + 1 = 1
    OBVIOUS
  <2> HIDE DEF g
  <2> QED BY <2>1, <2>2
<1>2. ASSUME NEW k \in T PROVE k + 1 \in T
  <2> DEFINE m == k + 1
  <2>0. k \in Nat /\ m \in Nat \ {0} /\ k + 1 = m
    BY <1>2
  <2> SUFFICES ASSUME m + 1 <= M PROVE \E f \in [1..(m + 1) -> S] : Good(f, m + 1)
    BY <2>0
  <2>1. PICK f \in [1..m -> S] : Good(f, m)
    <3>1. m <= M
      BY <2>0
    <3> QED BY <1>2, <3>1
  <2> HIDE DEF m
  <2> DEFINE h == (m + 1) \div 2
             g == [n \in 1..(m + 1) |-> IF n = m + 1 THEN st[m + 1][f[h]] ELSE f[n]]
  <2>2. h \in 1..m /\ f[h] \in S /\ m + 1 \in 1..M
    <3>1. h \in 1..m
      BY <2>0, <1>h
    <3> HIDE DEF h
    <3> QED BY <2>0, <2>1, <3>1
  <2> HIDE DEF h
  <2>3. st[m + 1][f[h]] \in S
    BY <2>2
  <2>4. g \in [1..(m + 1) -> S]
    BY <2>0, <2>1, <2>3
  <2>5. Good(g, m + 1)
    <3>1. g[1] = c
      BY <2>0, <2>1
    <3>2. ASSUME NEW n \in 2..(m + 1) PROVE g[n] = st[n][g[n \div 2]]
      <4>0. n \div 2 \in 1..m /\ n \in 1..(m + 1)
        BY <1>h, <2>0
      <4>1. CASE n = m + 1
        <5>1. g[n] = st[n][f[h]]
          BY <4>0, <4>1
        <5>2. g[n \div 2] = f[h]
          BY <2>0, <2>2, <4>0, <4>1 DEF h
        <5> HIDE DEF g
        <5> QED BY <5>1, <5>2
      <4>2. CASE n # m + 1
        <5>1. g[n] = f[n] /\ g[n \div 2] = f[n \div 2] /\ n \in 2..m
          BY <2>0, <4>0, <4>2
        <5>2. f[n] = st[n][f[n \div 2]]
          BY <2>1, <5>1
        <5> HIDE DEF g
        <5> QED BY <5>1, <5>2
      <4> QED BY <4>1, <4>2
    <3> HIDE DEF g
    <3> QED BY <3>1, <3>2
  <2> HIDE DEF g
  <2> QED BY <2>4, <2>5
<1>3. M - 1 \in T
  <2> HIDE DEF T
  <2>1. T \in SUBSET Nat BY DEF T
  <2>2. M - 1 \in Nat
    OBVIOUS
  <2> QED BY <1>1, <1>2, <2>1, <2>2, SetInduction
<1>4. PICK f \in [1..M -> S] : Good(f, M)
  <2>1. M - 1 + 1 = M
    OBVIOUS
  <2> QED BY <1>3, <2>1
<1> QED BY <1>4 DEF TreeRec

-----------------------------------------------------------------------------
(* The remainder of a number that is written as quotient and rest. *)
LEMMA ModOf ==
    ASSUME NEW u \in Nat \ {0}, NEW q \in Nat, NEW r \in 0..(u - 1)
    PROVE  (q * u + r) % u = r /\ (q * u + r) \div u = q
<1> DEFINE n  == q * u + r
           q2 == n \div u
           m  == n % u
<1>1. n \in Nat
  <2>1. q * u \in Nat
    OBVIOUS
  <2> QED BY <2>1
<1>2. q2 \in Nat /\ m \in 0..(u - 1) /\ n = u * q2 + m
  <2> HIDE DEF n
  <2> QED BY <1>1, DivFacts
<1>3. n = q * u + r
  OBVIOUS
<1> HIDE DEF n, q2, m
<1>4. CASE q2 = q
  <2>1. m = r
    BY <1>2, <1>3, <1>4
  <2> QED BY <2>1, <1>4 DEF m, n, q2
<1>5. CASE q2 > q
  <2>1. u * (q2 - q) >= u
    BY <1>2, <1>5
  <2>2. u * (q2 - q) = r - m
    BY <1>2, <1>3
  <2> QED BY <2>1, <2>2, <1>2
<1>6. CASE q2 < q
  <2>1. u * (q - q2) >= u
    BY <1>2, <1>6
  <2>2. u * (q - q2) = m - r
    BY <1>2, <1>3
  <2> QED BY <2>1, <2>2, <1>2
<1> QED BY <1>2, <1>4, <1>5, <1>6

(* Multiples of a unit. *)
LEMMA MultipleOf ==
    ASSUME NEW u \in Nat \ {0}, NEW n \in Nat
    PROVE  n % u = 0 <=> \E q \in Nat : n = q * u
<1>1. ASSUME n % u = 0 PROVE \E q \in Nat : n = q * u
  <2>1. n \div u \in Nat /\ n = (n \div u) * u
    BY <1>1, DivFacts
  <2> QED BY <2>1
<1>2. ASSUME NEW q \in Nat, n = q * u PROVE n % u = 0
  <2>1. (q * u + 0) % u = 0
    BY ModOf
  <2>2. q * u + 0 = n
    BY <1>2
  <2> QED BY <2>1, <2>2
<1> QED BY <1>1, <1>2

LEMMA MultipleSum ==
    ASSUME NEW u \in Nat \ {0}, NEW a \in Nat, NEW b \in Nat, a % u = 0, b % u = 0
    PROVE  (a + b) % u = 0
<1>1. PICK p \in Nat : a = p * u
  BY MultipleOf
<1>2. PICK q \in Nat : b = q * u
  BY MultipleOf
<1>3. p + q \in Nat /\ a + b = (p + q) * u /\ a + b \in Nat
  BY <1>1, <1>2
<1> QED BY <1>3, MultipleOf

(* A multiple less than one unit above another one is not above it. *)
LEMMA MultipleBelow ==
    ASSUME NEW u \in Nat \ {0}, NEW a \in Nat, NEW b \in Nat, a * u < b * u + u
    PROVE  a * u <= b * u
<1>1. CASE a <= b
  <2>1. (b - a) * u >= 0
    BY <1>1
  <2> QED BY <2>1
<1>2. CASE a > b
  <2>1. (a - b) * u >= u
    BY <1>2
  <2>2. (a - b) * u = a * u - b * u
    OBVIOUS
  <2> QED BY <2>1, <2>2
<1> QED BY <1>1, <1>2

LEMMA MultipleDiff ==
    ASSUME NEW u \in Nat \ {0}, NEW a \in Nat, NEW b \in Nat, a % u = 0, b % u = 0, b <= a
    PROVE  (a - b) % u = 0
<1>1. PICK p \in Nat : a = p * u
  BY MultipleOf
<1>2. PICK q \in Nat : b = q * u
  BY MultipleOf
<1>3. p >= q
  <2> SUFFICES ASSUME q >= p + 1 PROVE FALSE
    BY <1>1, <1>2
  <2>1. (q - p) * u >= u
    BY <1>1, <1>2
  <2>2. (q - p) * u = q * u - p * u
    BY <1>1, <1>2
  <2> QED BY <1>1, <1>2, <2>1, <2>2
<1>4. p - q \in Nat /\ a - b = (p - q) * u /\ a - b \in Nat
  BY <1>1, <1>2, <1>3
<1> QED BY <1>4, MultipleOf

LEMMA MultipleTrans ==
    ASSUME NEW u \in Nat \ {0}, NEW v \in Nat \ {0}, NEW a \in Nat, a % u = 0, u % v = 0
    PROVE  a % v = 0
<1>1. PICK p \in Nat : a = p * u
  BY MultipleOf
<1>2. PICK q \in Nat : u = q * v
  BY MultipleOf
<1>3. p * q \in Nat /\ a = (p * q) * v
  BY <1>1, <1>2
<1> QED BY <1>3, MultipleOf

(* Rounding up to units. *)
LEMMA RoundUp ==
    ASSUME NEW u \in Nat \ {0}, NEW n \in Nat, NEW m, m = ((n + u - 1) \div u) * u
    PROVE  /\ m \in Nat /\ n <= m /\ m < n + u
           /\ n % u = 0 => m = n
<1> DEFINE k == n + u - 1
           q == k \div u
<1>1. k \in Nat /\ k = (n + u) - 1
  OBVIOUS
<1> HIDE DEF k
<1>2. q \in Nat
  BY <1>1, DivFacts
<1>3. q * u \in Nat /\ q * u <= k /\ k < q * u + u
  BY <1>1, AlignDownFacts
<1>4. m = q * u
  BY DEF k
<1> HIDE DEF q
<1>5. m \in Nat /\ n <= m /\ m < n + u
  BY <1>1, <1>3, <1>4
<1>6. ASSUME n % u = 0 PROVE m = n
  <2>1. PICK p \in Nat : n = p * u
    BY <1>6, MultipleOf
  <2>2. q * u < p * u + u
    BY <1>4, <1>5, <2>1
  <2>3. q * u <= p * u
    BY <1>2, <2>1, <2>2, MultipleBelow
  <2> QED BY <1>4, <1>5, <2>1, <2>3
<1> QED BY <1>5, <1>6

(* From a number to the next multiple of a unit. *)
LEMMA NextMultiple ==
    ASSUME NEW u \in Nat \ {0}, NEW n \in Nat
    PROVE  /\ n % u \in 0..(u - 1) /\ n + (u - (n % u)) \in Nat
           /\ (n + (u - (n % u))) % u = 0
<1> DEFINE m == n + (u - (n % u))
           q == n \div u
           r == n % u
<1>1. q \in Nat /\ r \in 0..(u - 1) /\ n = u * q + r
  BY DivFacts
<1>0. m = n + (u - r)
  OBVIOUS
<1> HIDE DEF m, q, r
<1>2. m = (q + 1) * u /\ q + 1 \in Nat /\ u * q \in Nat
  BY <1>0, <1>1
<1>3. m \in Nat
  BY <1>0, <1>1, <1>2
<1>4. m % u = 0
  BY <1>2, <1>3, MultipleOf
<1> QED BY <1>1, <1>3, <1>4 DEF m, r

(* A set that differs from another one by z at most. *)
LEMMA CountStep ==
    ASSUME NEW A, NEW B, NEW z, IsFiniteSet(A), A \ {z} = B \ {z}
    PROVE  /\ IsFiniteSet(B) /\ Cardinality(A) \in Nat /\ Cardinality(B) \in Nat
           /\ Cardinality(B) = Cardinality(A) + (IF z \in B THEN 1 ELSE 0) - (IF z \in A THEN 1 ELSE 0)
<1> DEFINE C == A \ {z}
<1>1. IsFiniteSet(C) /\ Cardinality(C) = IF z \in A THEN Cardinality(A) - 1 ELSE Cardinality(A)
  BY FS_RemoveElement
<1>2. Cardinality(A) \in Nat
  BY FS_CardinalityType
<1>3. CASE z \in B
  <2>1. B = C \cup {z} /\ z \notin C
    BY <1>3
  <2> HIDE DEF C
  <2>2. IsFiniteSet(B) /\ Cardinality(B) = Cardinality(C) + 1
    BY <1>1, <2>1, FS_AddElement
  <2>3. Cardinality(B) \in Nat
    BY <2>2, FS_CardinalityType
  <2> QED BY <1>1, <1>2, <1>3, <2>2, <2>3
<1>4. CASE z \notin B
  <2>1. B = C
    BY <1>4
  <2> HIDE DEF C
  <2>2. Cardinality(B) \in Nat
    BY <1>1, <2>1, FS_CardinalityType
  <2> QED BY <1>1, <1>2, <1>4, <2>1, <2>2
<1> QED BY <1>3, <1>4

(* The last numbers of each run of u numbers, counted from b, in k runs    *)
(* from a on.                                                              *)
LastOnes(a, b, k, u) == {p \in a..(a + k * u - 1) : (p - b) % u = u - 1}

(* Among k runs of u numbers, k are the last of their run. *)
LEMMA LastOfRun ==
    ASSUME NEW u \in Nat \ {0}, NEW b \in Nat, NEW j \in Nat, NEW a, a = b + j * u, NEW k \in Nat
    PROVE  Cardinality(LastOnes(a, b, k, u)) = k
<1> DEFINE L(n) == {p \in a..(a + n * u - 1) : (p - b) % u = u - 1}
           T == {n \in Nat : IsFiniteSet(L(n)) /\ Cardinality(L(n)) = n}
<1>0. a \in Nat
  BY SMT
<1>1. 0 \in T
  <2>1. L(0) = {}
    BY <1>0
  <2> QED BY <2>1, FS_EmptySet
<1>2. ASSUME NEW n \in T PROVE n + 1 \in T
  <2> DEFINE x == a + n * u + (u - 1)
  <2>0. n \in Nat /\ IsFiniteSet(L(n)) /\ Cardinality(L(n)) = n
    BY <1>2
  <2>1. x \in Nat /\ (n + 1) * u = n * u + u /\ n * u \in Nat /\ (j + n) * u = j * u + n * u
    BY <2>0, <1>0
  <2>2. ASSUME NEW p \in (a + n * u)..(a + n * u + (u - 1))
        PROVE  (p - b) % u = p - (a + n * u)
    <3>1. p - (a + n * u) \in 0..(u - 1)
      BY <1>0, <2>1
    <3>2. p - b = (j + n) * u + (p - (a + n * u))
      BY <1>0, <2>1
    <3> DEFINE r == p - (a + n * u)
               m == j + n
    <3>3. r \in 0..(u - 1) /\ m \in Nat /\ p - b = m * u + r
      BY <3>1, <3>2, <2>0
    <3> HIDE DEF r, m
    <3>4. (m * u + r) % u = r
      BY <3>3, ModOf
    <3> QED BY <3>3, <3>4 DEF r
  <2>3. L(n + 1) = L(n) \cup {x}
    <3>1. ASSUME NEW p \in L(n + 1) PROVE p \in L(n) \cup {x}
      <4>1. CASE p < a + n * u
        BY <3>1, <4>1, <1>0, <2>1
      <4>2. CASE p >= a + n * u
        <5>1. p \in (a + n * u)..(a + n * u + (u - 1))
          BY <3>1, <4>2, <1>0, <2>1
        <5>2. p - (a + n * u) = u - 1
          BY <3>1, <5>1, <2>2
        <5> QED BY <5>1, <5>2, <1>0, <2>1
      <4> QED BY <3>1, <4>1, <4>2, <1>0, <2>1
    <3>2. L(n) \subseteq L(n + 1)
      BY <1>0, <2>1
    <3>3. x \in L(n + 1)
      <4>1. x \in (a + n * u)..(a + n * u + (u - 1)) /\ x - (a + n * u) = u - 1
        BY <1>0, <2>1
      <4>2. (x - b) % u = u - 1
        BY <4>1, <2>2
      <4>3. x \in a..(a + (n + 1) * u - 1)
        BY <1>0, <2>1
      <4> QED BY <4>2, <4>3
    <3> QED BY <3>1, <3>2, <3>3
  <2>4. x \notin L(n)
    BY <1>0, <2>1
  <2>5. IsFiniteSet(L(n + 1)) /\ Cardinality(L(n + 1)) = n + 1
    <3> HIDE DEF L, x
    <3> QED BY <2>0, <2>3, <2>4, FS_AddElement
  <2> QED BY <2>0, <2>5
<1>3. k \in T
  <2> HIDE DEF T
  <2>1. T \in SUBSET Nat
    BY DEF T
  <2> QED BY <1>1, <1>2, <2>1, SetInduction
<1> QED BY <1>3 DEF LastOnes

=============================================================================
