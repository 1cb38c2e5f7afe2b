----------------------------- MODULE HartProofs -----------------------------
(***************************************************************************)
(* Theorems about Atomics, Console and Csrs as Hart runs them, for every   *)
(* width of the registers, buffer size, alphabet, set of markers and set   *)
(* of register contents.                                                   *)
(*                                                                         *)
(* The integer instructions need a small theory of words first: powers of  *)
(* two, division, sums, and numbers as digits, from which a word is its    *)
(* bits and its bytes, and two parts joined.                               *)
(***************************************************************************)
EXTENDS Hart, TLAPS, FiniteSetTheorems, WellFoundedInduction

-----------------------------------------------------------------------------
(* Numbers: induction, powers of two, division.                            *)

\* Induction, from the least number outside T.
LEMMA Inductive ==
    ASSUME NEW T, 0 \in T, \A n \in Nat : n \in T => n + 1 \in T
    PROVE  \A n \in Nat : n \in T
<1>. DEFINE less == {ss \in Nat \X Nat : ss[1] < ss[2]}
            Out == Nat \ T
<1>1. IsWellFoundedOn(less, Nat)
  <2>1. less = OpToRel(<, Nat)
    BY Zenon DEF OpToRel
  <2>. QED BY <2>1, NatLessThanWellFounded, Zenon
<1>2. SUFFICES ASSUME Out # {} PROVE FALSE
  OBVIOUS
<1>3. PICK m \in Out : \A k \in Out : <<k, m>> \notin less
  <2>1. Out \subseteq Nat
    OBVIOUS
  <2>. HIDE DEF less, Out
  <2>. QED BY <1>1, <1>2, <2>1, WFMin, Zenon
<1>4. m \in Nat /\ m # 0 /\ m - 1 \in Nat /\ m - 1 + 1 = m
  <2>1. m \in Nat /\ m \notin T
    OBVIOUS
  <2>. QED BY <2>1
<1>5. m - 1 \notin T
  BY <1>4
<1>6. <<m - 1, m>> \in less
  BY <1>4
<1>. QED BY <1>3, <1>4, <1>5, <1>6

\* A power of two counts sets, which is how the library lets it be reasoned about.
LEMMA PowerOfSets ==
    ASSUME NEW n \in Nat
    PROVE  /\ IsFiniteSet(SUBSET (1 .. n))
           /\ 2 ^ n = Cardinality(SUBSET (1 .. n)) /\ Cardinality(SUBSET (1 .. n)) \in Nat
<1>1. IsFiniteSet(1 .. n) /\ Cardinality(1 .. n) = n
  BY FS_Interval
<1>2. IsFiniteSet(SUBSET (1 .. n)) /\ Cardinality(SUBSET (1 .. n)) = 2 ^ Cardinality(1 .. n)
  BY <1>1, FS_SUBSET, Zenon
<1>. QED BY <1>1, <1>2, FS_CardinalityType

\* The sets with n + 1 are as many as those without it.
LEMMA PowerStep ==
    ASSUME NEW n \in Nat
    PROVE  2 ^ (n + 1) = 2 * 2 ^ n
<1>. DEFINE A == SUBSET (1 .. n)
            B == {X \cup {n + 1} : X \in A}
            f == [X \in A |-> X \cup {n + 1}]
<1>1. /\ IsFiniteSet(A) /\ 2 ^ n = Cardinality(A) /\ Cardinality(A) \in Nat
      /\ 2 ^ (n + 1) = Cardinality(SUBSET (1 .. n + 1))
  BY PowerOfSets
<1>2. SUBSET (1 .. n + 1) = A \cup B
  <2>1. ASSUME NEW X \in SUBSET (1 .. n + 1) PROVE X \in A \cup B
    <3>1. CASE n + 1 \in X
      <4>1. X \ {n + 1} \in A
        OBVIOUS
      <4>2. X = (X \ {n + 1}) \cup {n + 1}
        BY <3>1
      <4>. QED BY <4>1, <4>2
    <3>2. CASE n + 1 \notin X
      <4>1. X \in A
        BY <3>2
      <4>. QED BY <4>1
    <3>. QED BY <3>1, <3>2
  <2>2. ASSUME NEW X \in A \cup B PROVE X \in SUBSET (1 .. n + 1)
    <3>1. CASE X \in A
      BY <3>1
    <3>2. CASE X \in B
      <4>1. PICK Y \in A : X = Y \cup {n + 1}
        BY <3>2
      <4>2. Y \subseteq 1 .. n
        OBVIOUS
      <4>3. 1 .. n \subseteq 1 .. n + 1 /\ n + 1 \in 1 .. n + 1
        OBVIOUS
      <4>. QED BY <4>1, <4>2, <4>3, Zenon
    <3>. QED BY <3>1, <3>2
  <2>. QED BY <2>1, <2>2, Zenon
<1>3. A \cap B = {}
  OBVIOUS
<1>4. IsFiniteSet(B) /\ Cardinality(B) = Cardinality(A)
  <2>1. \A X \in A : n + 1 \notin X
    OBVIOUS
  <2>. HIDE DEF A
  <2>2. f \in Bijection(A, B)
    <3>1. f \in [A -> B]
      OBVIOUS
    <3>2. \A X, Y \in A : f[X] = f[Y] => X = Y
      <4>1. ASSUME NEW X \in A, NEW Y \in A, X \cup {n + 1} = Y \cup {n + 1}
            PROVE  X = Y
        <5>1. X = (X \cup {n + 1}) \ {n + 1} /\ Y = (Y \cup {n + 1}) \ {n + 1}
          BY <2>1
        <5>. QED BY <4>1, <5>1, Zenon
      <4>. QED BY <4>1
    <3>3. \A Y \in B : \E X \in A : f[X] = Y
      OBVIOUS
    <3>. HIDE DEF f, B
    <3>. QED BY <3>1, <3>2, <3>3, Zenon DEF Bijection, Injection, Surjection, IsInjective
  <2>3. ExistsBijection(A, B)
    BY <2>2 DEF ExistsBijection
  <2>. QED BY <1>1, <2>3, FS_Bijection
<1>5. Cardinality(A \cup B) = Cardinality(A) + Cardinality(B) - Cardinality(A \cap B)
  BY <1>1, <1>4, FS_Union
<1>. HIDE DEF A, B
<1>6. Cardinality(A \cap B) = 0
  BY <1>3, FS_EmptySet
<1>7. 2 ^ (n + 1) = Cardinality(A \cup B)
  BY <1>1, <1>2, Zenon
<1>. QED BY <1>1, <1>4, <1>5, <1>6, <1>7

\* A power of two is larger than its exponent.
LEMMA PowerType ==
    ASSUME NEW n \in Nat
    PROVE  2 ^ n \in Nat \ {0} /\ 2 ^ n >= n + 1
<1>. DEFINE T == {k \in Nat : 2 ^ k \in Nat \ {0} /\ 2 ^ k >= k + 1}
<1>1. 0 \in T
  OBVIOUS
<1>2. ASSUME NEW k \in Nat, k \in T PROVE k + 1 \in T
  <2>1. 2 ^ (k + 1) = 2 * 2 ^ k
    BY PowerStep
  <2>2. 2 ^ k \in Nat \ {0} /\ 2 ^ k >= k + 1
    BY <1>2
  <2>3. 2 ^ (k + 1) \in Nat \ {0} /\ 2 ^ (k + 1) >= k + 1 + 1
    BY <2>1, <2>2
  <2>. QED BY <2>3
<1>. HIDE DEF T
<1>3. n \in T
  BY <1>1, <1>2, Inductive
<1>. QED BY <1>3 DEF T

\* The power of a sum is the product of the powers, by induction over m.
LEMMA PowerSum ==
    ASSUME NEW m \in Nat, NEW n \in Nat
    PROVE  2 ^ (m + n) = 2 ^ m * 2 ^ n
<1>. DEFINE T == {k \in Nat : 2 ^ (m + k) = 2 ^ m * 2 ^ k}
<1>1. 0 \in T
  <2>1. 2 ^ m \in Nat /\ m + 0 = m /\ 2 ^ 0 = 1
    BY PowerType
  <2>. QED BY <2>1
<1>2. ASSUME NEW k \in Nat, k \in T PROVE k + 1 \in T
  <2>1. 2 ^ (k + 1) = 2 * 2 ^ k /\ 2 ^ (m + k + 1) = 2 * 2 ^ (m + k) /\ m + (k + 1) = m + k + 1
    BY PowerStep
  <2>2. 2 ^ (m + k) = 2 ^ m * 2 ^ k
    BY <1>2
  <2>. DEFINE a == 2 ^ m
              b == 2 ^ k
  <2>3. a \in Nat /\ b \in Nat
    BY PowerType
  <2>4. 2 * (a * b) = a * (2 * b)
    <3>. HIDE DEF a, b
    <3>. QED BY <2>3, SMTT(30)
  <2>5. 2 ^ (m + (k + 1)) = 2 ^ m * 2 ^ (k + 1)
    BY <2>1, <2>2, <2>4
  <2>. QED BY <2>5
<1>. HIDE DEF T
<1>3. n \in T
  BY <1>1, <1>2, Inductive
<1>. QED BY <1>3 DEF T

\* A power of two is the product of two of its parts.
LEMMA PowerSplit ==
    ASSUME NEW n \in Nat, NEW m \in 0 .. n
    PROVE  2 ^ n = 2 ^ m * 2 ^ (n - m) /\ 2 ^ m <= 2 ^ n
<1>1. m \in Nat /\ n - m \in Nat /\ m + (n - m) = n
  OBVIOUS
<1>2. 2 ^ n = 2 ^ m * 2 ^ (n - m)
  BY <1>1, PowerSum
<1>. DEFINE a == 2 ^ m
            b == 2 ^ (n - m)
<1>3. a \in Nat \ {0} /\ b \in Nat \ {0}
  BY <1>1, PowerType
<1>4. a <= a * b
  <2>. HIDE DEF a, b
  <2>1. PICK c \in Nat : b = c + 1
    <3>1. b - 1 \in Nat /\ b = (b - 1) + 1
      BY <1>3
    <3>. QED BY <3>1
  <2>2. a * b = a * c + a /\ a * c \in Nat
    BY <1>3, <2>1, SMTT(30)
  <2>. QED BY <2>2, <1>3
<1>. QED BY <1>2, <1>4

\* Quotient and remainder are the only numbers that fit.
LEMMA DivisionUnique ==
    ASSUME NEW d \in Nat \ {0}, NEW q \in Int, NEW r \in 0 .. d - 1
    PROVE  (d * q + r) % d = r /\ (d * q + r) \div d = q
<1>. DEFINE n == d * q + r
            k == n \div d
            m == n % d
<1>1. n \in Int /\ k \in Int /\ m \in 0 .. d - 1 /\ n = d * k + m
  BY SMTT(30)
<1>. HIDE DEF k, m
<1>2. d * (q - k) = m - r /\ -d < m - r /\ m - r < d
  BY <1>1
<1>3. q - k \in Int
  BY <1>1
<1>4. ~(q - k >= 1)
  <2>. SUFFICES ASSUME q - k >= 1 PROVE FALSE
    OBVIOUS
  <2>1. d * (q - k) >= d
    BY <1>3, SMTT(30)
  <2>. QED BY <2>1, <1>1, <1>2
<1>5. ~(q - k <= -1)
  <2>. SUFFICES ASSUME q - k <= -1 PROVE FALSE
    OBVIOUS
  <2>1. d * (q - k) <= -d
    BY <1>3, SMTT(30)
  <2>. QED BY <2>1, <1>1, <1>2
<1>6. q = k
  BY <1>1, <1>3, <1>4, <1>5
<1>. QED BY <1>1, <1>2, <1>6 DEF k, m

\* The quotient and the remainder of any number, ...
LEMMA DivisionType ==
    ASSUME NEW d \in Nat \ {0}, NEW n \in Int
    PROVE  /\ n \div d \in Int /\ n % d \in 0 .. d - 1 /\ n = d * (n \div d) + (n % d)
           /\ n \in Nat => n \div d \in 0 .. n
           /\ n \in 0 .. d - 1 => n \div d = 0 /\ n % d = n
<1>1. n \div d \in Int /\ n % d \in 0 .. d - 1 /\ n = d * (n \div d) + (n % d)
  BY SMTT(30)
<1>2. n \in Nat => n \div d \in 0 .. n
  BY SMTT(30)
<1>3. n \in 0 .. d - 1 => n \div d = 0 /\ n % d = n
  BY SMTT(30)
<1>. QED BY <1>1, <1>2, <1>3

\* Adding a multiple changes no remainder.
LEMMA Congruent ==
    ASSUME NEW d \in Nat \ {0}, NEW n \in Int, NEW k \in Int
    PROVE  (n + d * k) % d = n % d
<1>. DEFINE q == n \div d
            r == n % d
<1>1. q \in Int /\ r \in 0 .. d - 1 /\ n = d * q + r
  BY DivisionType
<1>. HIDE DEF q, r
<1>2. n + d * k = d * (q + k) + r /\ q + k \in Int
  BY <1>1, SMTT(30)
<1>3. (d * (q + k) + r) % d = r
  BY <1>1, <1>2, DivisionUnique
<1>. QED BY <1>2, <1>3 DEF r

\* A remainder by a multiple can be taken first.
LEMMA RemainderOfRemainder ==
    ASSUME NEW d \in Nat \ {0}, NEW e \in Nat \ {0}, NEW n \in Int
    PROVE  (n % (d * e)) % d = n % d
<1>. DEFINE f == d * e
            q == n \div f
            r == n % f
<1>1. f \in Nat \ {0}
  BY SMTT(30)
<1>2. q \in Int /\ r \in Int /\ n = f * q + r
  <2>. HIDE DEF f
  <2>1. q \in Int /\ r \in 0 .. f - 1 /\ n = f * q + r
    BY <1>1, DivisionType
  <2>. QED BY <2>1, <1>1
<1>. HIDE DEF q, r
<1>3. n = r + d * (e * q) /\ e * q \in Int
  BY <1>2, SMTT(30)
<1>4. (r + d * (e * q)) % d = r % d
  BY <1>2, <1>3, Congruent
<1>. QED BY <1>3, <1>4 DEF r

\* ... of a natural number ...
LEMMA DivisionNat ==
    ASSUME NEW d \in Nat \ {0}, NEW n \in Nat
    PROVE  n \div d \in Nat /\ n % d \in 0 .. d - 1 /\ n = d * (n \div d) + (n % d)
<1>1. n \div d \in 0 .. n /\ n % d \in 0 .. d - 1 /\ n = d * (n \div d) + (n % d)
  <2>1. n \in Int
    OBVIOUS
  <2>. QED BY <2>1, DivisionType, Zenon
<1>2. n \div d \in Nat
  <2>. DEFINE q == n \div d
  <2>1. q \in 0 .. n
    BY <1>1
  <2>. HIDE DEF q
  <2>2. q \in Nat
    BY <2>1
  <2>. QED BY <2>2 DEF q
<1>. QED BY <1>1, <1>2, Zenon

\* ... and of one below the divisor.
LEMMA SmallRemainder ==
    ASSUME NEW d \in Nat \ {0}, NEW n \in 0 .. d - 1
    PROVE  n % d = n /\ n \div d = 0
<1>1. n \in Int
  OBVIOUS
<1>. QED BY <1>1, DivisionType
\* n % (d * e), from the quotient by d.
LEMMA SplitRemainder ==
    ASSUME NEW d \in Nat \ {0}, NEW e \in Nat \ {0}, NEW n \in Nat
    PROVE  /\ n % (d * e) = (n % d) + d * ((n \div d) % e)
           /\ n \div (d * e) = (n \div d) \div e
<1>. DEFINE q == n \div d
            r == n % d
            q2 == q \div e
            r2 == q % e
<1>1. q \in Nat /\ r \in 0 .. d - 1 /\ n = d * q + r
  BY DivisionNat, Zenon
<1>. HIDE DEF q, r
<1>2. q2 \in Nat /\ r2 \in 0 .. e - 1 /\ q = e * q2 + r2
  BY <1>1, DivisionNat, Zenon
<1>. HIDE DEF q2, r2
<1>3. d * e \in Nat \ {0}
  BY SMTT(30)
<1>4. d * r2 + r \in 0 .. d * e - 1
  <2>1. d * r2 <= d * (e - 1) /\ d * (e - 1) = d * e - d /\ d * r2 \in Nat
    <3>1. PICK c \in Nat : e - 1 = r2 + c
      <4>1. e - 1 - r2 \in Nat /\ e - 1 = r2 + (e - 1 - r2)
        BY <1>2
      <4>. QED BY <4>1
    <3>2. d * (r2 + c) = d * r2 + d * c /\ d * c \in Nat /\ d * r2 \in Nat
      BY <1>2, <3>1, SMTT(30)
    <3>3. d * (e - 1) = d * e - d
      BY SMTT(30)
    <3>. QED BY <3>1, <3>2, <3>3, <1>2, <1>3
  <2>. QED BY <2>1, <1>1, <1>2, <1>3
<1>5. n = (d * e) * q2 + (d * r2 + r)
  BY <1>1, <1>2, SMTT(30)
<1>6. n % (d * e) = d * r2 + r /\ n \div (d * e) = q2
  <2>. DEFINE f == d * e
              s == d * r2 + r
  <2>. HIDE DEF f, s
  <2>1. (f * q2 + s) % f = s /\ (f * q2 + s) \div f = q2
    <3>1. f \in Nat \ {0} /\ s \in 0 .. f - 1 /\ q2 \in Int
      BY <1>2, <1>3, <1>4 DEF f, s
    <3>. QED BY <3>1, DivisionUnique
  <2>. QED BY <1>5, <2>1 DEF f, s
<1>7. d * r2 \in Int
  BY <1>2, SMTT(30)
<1>. QED BY <1>1, <1>6, <1>7 DEF q, r, q2, r2

-----------------------------------------------------------------------------
(* Sums.                                                                   *)

Terms(f, n) == \A k \in 0 .. n - 1 : f[k] \in Int

\* The partial sums of f.
IsTotal(sum, f, n) ==
    /\ sum \in [0 .. n -> Int] /\ sum[0] = 0
    /\ \A k \in 0 .. n - 1 : sum[k + 1] = sum[k] + f[k]

\* There is a function of partial sums, by induction over n, ...
LEMMA TotalExists ==
    ASSUME NEW n \in Nat, NEW f, Terms(f, n)
    PROVE  \E sum : IsTotal(sum, f, n)
<1>. DEFINE T == {m \in Nat : m <= n => \E sum : IsTotal(sum, f, m)}
<1>1. 0 \in T
  <2>1. IsTotal([k \in 0 .. 0 |-> 0], f, 0)
    BY DEF IsTotal
  <2>. QED BY <2>1
<1>2. ASSUME NEW m \in Nat, m \in T PROVE m + 1 \in T
  <2>. SUFFICES ASSUME m + 1 <= n PROVE \E sum : IsTotal(sum, f, m + 1)
    OBVIOUS
  <2>1. PICK sum : IsTotal(sum, f, m)
    BY <1>2
  <2>. DEFINE new == [k \in 0 .. m + 1 |-> IF k <= m THEN sum[k] ELSE sum[m] + f[m]]
  <2>2. f[m] \in Int /\ sum \in [0 .. m -> Int] /\ sum[0] = 0 /\ \A k \in 0 .. m - 1 : sum[k + 1] = sum[k] + f[k]
    BY <2>1 DEF Terms, IsTotal
  <2>3. new \in [0 .. m + 1 -> Int]
    BY <2>2
  <2>4. new[0] = 0
    BY <2>2
  <2>5. \A k \in 0 .. m : new[k + 1] = new[k] + f[k]
    BY <2>2
  <2>. HIDE DEF new
  <2>6. IsTotal(new, f, m + 1)
    BY <2>3, <2>4, <2>5 DEF IsTotal
  <2>. QED BY <2>6
<1>. HIDE DEF T
<1>3. n \in T
  BY <1>1, <1>2, Inductive
<1>. QED BY <1>3 DEF T

\* The recursion of Total computes them.
LEMMA TotalIs ==
    ASSUME NEW n \in Nat, NEW f, NEW sum, IsTotal(sum, f, n)
    PROVE  Total(f, n) = sum[n]
<1>. DEFINE Step(g) == [k \in 0 .. n |-> IF k = 0 THEN 0 ELSE g[k - 1] + f[k - 1]]
            upTo == CHOOSE g : g = Step(g)
<1>2. sum = Step(sum)
  <2>1. \A k \in 0 .. n : sum[k] = IF k = 0 THEN 0 ELSE sum[k - 1] + f[k - 1]
    <3>1. ASSUME NEW k \in 0 .. n, k # 0 PROVE sum[k] = sum[k - 1] + f[k - 1]
      <4>1. k - 1 \in 0 .. n - 1 /\ (k - 1) + 1 = k
        BY <3>1
      <4>. QED BY <4>1 DEF IsTotal
    <3>. QED BY <3>1 DEF IsTotal
  <2>2. sum = [k \in 0 .. n |-> sum[k]]
    BY DEF IsTotal
  <2>. QED BY <2>1, <2>2
<1>3. upTo = Step(upTo)
  <2>. HIDE DEF Step
  <2>. QED BY <1>2
<1>4. Total(f, n) = upTo[n]
  BY DEF Total
<1>. HIDE DEF upTo
<1>5. \A k \in 0 .. n : upTo[k] = IF k = 0 THEN 0 ELSE upTo[k - 1] + f[k - 1]
  BY <1>3
<1>. HIDE DEF Step
<1>. DEFINE T == {k \in Nat : k <= n => upTo[k] = sum[k]}
<1>6. 0 \in T
  BY <1>5 DEF IsTotal
<1>7. ASSUME NEW k \in Nat, k \in T PROVE k + 1 \in T
  <2>. SUFFICES ASSUME k + 1 <= n PROVE upTo[k + 1] = sum[k + 1]
    OBVIOUS
  <2>1. k \in 0 .. n - 1 /\ k + 1 \in 0 .. n /\ k + 1 # 0 /\ (k + 1) - 1 = k /\ upTo[k] = sum[k]
    BY <1>7
  <2>2. upTo[k + 1] = upTo[k] + f[k]
    BY <1>5, <2>1
  <2>. QED BY <2>1, <2>2 DEF IsTotal
<1>. HIDE DEF T
<1>8. n \in T
  BY <1>6, <1>7, Inductive
<1>. QED BY <1>4, <1>8 DEF T

\* ... so that each sum is the one before it and a term ...
LEMMA TotalStep ==
    ASSUME NEW n \in Nat, NEW f, Terms(f, n + 1)
    PROVE  Total(f, n + 1) = Total(f, n) + f[n] /\ Total(f, n) \in Int
<1>1. PICK sum : IsTotal(sum, f, n + 1)
  <2>1. n + 1 \in Nat
    OBVIOUS
  <2>. QED BY <2>1, TotalExists
<1>2. Total(f, n + 1) = sum[n + 1]
  <2>1. n + 1 \in Nat
    OBVIOUS
  <2>. QED BY <1>1, <2>1, TotalIs
<1>. DEFINE old == [k \in 0 .. n |-> sum[k]]
<1>3. /\ old \in [0 .. n -> Int] /\ old[0] = sum[0] /\ old[n] = sum[n]
      /\ \A k \in 0 .. n - 1 : old[k + 1] = sum[k + 1] /\ old[k] = sum[k]
  BY <1>1 DEF IsTotal
<1>. HIDE DEF old
<1>4. IsTotal(old, f, n)
  BY <1>1, <1>3 DEF IsTotal
<1>5. Total(f, n) = old[n]
  BY <1>4, TotalIs
<1>6. sum[n + 1] = sum[n] + f[n] /\ sum[n] \in Int
  BY <1>1 DEF IsTotal
<1>. QED BY <1>2, <1>3, <1>5, <1>6

\* ... from 0 ...
LEMMA TotalZero ==
    ASSUME NEW f
    PROVE  Total(f, 0) = 0
<1>1. IsTotal([k \in 0 .. 0 |-> 0], f, 0)
  BY DEF IsTotal
<1>2. Total(f, 0) = [k \in 0 .. 0 |-> 0][0]
  BY <1>1, TotalIs, Zenon
<1>. QED BY <1>2

\* ... and depends on its terms alone.
LEMMA TotalSame ==
    ASSUME NEW n \in Nat, NEW f, NEW g, Terms(f, n), \A k \in 0 .. n - 1 : g[k] = f[k]
    PROVE  Total(g, n) = Total(f, n)
<1>1. PICK sum : IsTotal(sum, f, n)
  BY TotalExists
<1>2. IsTotal(sum, g, n)
  BY <1>1 DEF IsTotal
<1>. QED BY <1>1, <1>2, TotalIs

\* The sum of integers is an integer.
LEMMA TotalType ==
    ASSUME NEW n \in Nat, NEW f, Terms(f, n)
    PROVE  Total(f, n) \in Int
<1>1. PICK sum : IsTotal(sum, f, n)
  BY TotalExists
<1>2. Total(f, n) = sum[n]
  BY <1>1, TotalIs
<1>3. sum[n] \in Int
  BY <1>1 DEF IsTotal
<1>. QED BY <1>2, <1>3

\* The sums of f and g together are the sum of f and g.
LEMMA TotalAdds ==
    ASSUME NEW n \in Nat, NEW f, NEW g, NEW h, Terms(f, n), Terms(g, n),
           \A k \in 0 .. n - 1 : h[k] = f[k] + g[k]
    PROVE  Total(h, n) = Total(f, n) + Total(g, n)
<1>1. PICK a : IsTotal(a, f, n)
  BY TotalExists
<1>2. PICK b : IsTotal(b, g, n)
  BY TotalExists
<1>. DEFINE c == [k \in 0 .. n |-> a[k] + b[k]]
<1>3. IsTotal(c, h, n)
  <2>1. \A k \in 0 .. n : a[k] \in Int /\ b[k] \in Int /\ c[k] = a[k] + b[k]
    BY <1>1, <1>2 DEF IsTotal
  <2>2. c \in [0 .. n -> Int]
    BY <2>1
  <2>. HIDE DEF c
  <2>3. c[0] = 0
    <3>1. a[0] = 0 /\ b[0] = 0 /\ 0 \in 0 .. n
      BY <1>1, <1>2 DEF IsTotal
    <3>. QED BY <2>1, <3>1
  <2>4. ASSUME NEW k \in 0 .. n - 1 PROVE c[k + 1] = c[k] + h[k]
    <3>1. k \in 0 .. n /\ k + 1 \in 0 .. n
      OBVIOUS
    <3>2. a[k + 1] = a[k] + f[k] /\ b[k + 1] = b[k] + g[k] /\ h[k] = f[k] + g[k] /\ f[k] \in Int /\ g[k] \in Int
      BY <1>1, <1>2 DEF IsTotal, Terms
    <3>3. c[k] = a[k] + b[k] /\ c[k + 1] = a[k + 1] + b[k + 1] /\ a[k] \in Int /\ b[k] \in Int
      BY <2>1, <3>1
    <3>. QED BY <3>2, <3>3
  <2>. QED BY <2>2, <2>3, <2>4 DEF IsTotal
<1>4. c[n] = a[n] + b[n]
  OBVIOUS
<1>. HIDE DEF c
<1>. QED BY <1>1, <1>2, <1>3, <1>4, TotalIs
-----------------------------------------------------------------------------
(* Numbers as digits of w bits.                                            *)

Digits(w) == [Nat -> 0 .. 2 ^ w - 1]
Places(f, w, n) == [k \in 0 .. n - 1 |-> f[k] * 2 ^ (k * w)]
Number(f, w, n) == Total(Places(f, w, n), n)
Digit(x, w, k) == (x \div 2 ^ (k * w)) % 2 ^ w

\* Products of natural numbers, one factor growing by 1.
LEMMA TimesType ==
    ASSUME NEW m \in Nat, NEW n \in Nat
    PROVE  m * n \in Nat /\ (m + 1) * n = m * n + n /\ m * n + n \in Nat
BY SMTT(30)

\* The terms of a number are integers.
LEMMA PlacesType ==
    ASSUME NEW w \in Nat, NEW f \in [Nat -> Int], NEW n \in Nat
    PROVE  Terms(Places(f, w, n), n)
<1>. SUFFICES ASSUME NEW k \in 0 .. n - 1 PROVE Places(f, w, n)[k] \in Int
  BY DEF Terms
<1>. DEFINE p == 2 ^ (k * w)
<1>1. k * w \in Nat
  BY TimesType
<1>2. p \in Nat \ {0}
  BY <1>1, PowerType, Zenon
<1>3. Places(f, w, n)[k] = f[k] * p
  BY DEF Places
<1>. HIDE DEF p
<1>4. f[k] \in Int
  OBVIOUS
<1>5. f[k] * p \in Int
  BY <1>2, <1>4, SMTT(30)
<1>. QED BY <1>3, <1>5

\* A number is the one before its last digit and that digit.
LEMMA NumberStep ==
    ASSUME NEW w \in Nat, NEW f \in [Nat -> Int], NEW n \in Nat
    PROVE  /\ Number(f, w, 0) = 0 /\ Number(f, w, n) \in Int
           /\ Number(f, w, n + 1) = Number(f, w, n) + f[n] * 2 ^ (n * w)
<1>0. n + 1 \in Nat
  OBVIOUS
<1>1. Terms(Places(f, w, n), n) /\ Terms(Places(f, w, n + 1), n + 1)
  BY <1>0, PlacesType
<1>2. Total(Places(f, w, n + 1), n + 1) = Total(Places(f, w, n + 1), n) + Places(f, w, n + 1)[n]
  BY <1>1, TotalStep
<1>3. Total(Places(f, w, n + 1), n) = Total(Places(f, w, n), n)
  <2>1. \A k \in 0 .. n - 1 : Places(f, w, n + 1)[k] = Places(f, w, n)[k]
    BY DEF Places
  <2>. QED BY <1>1, <2>1, TotalSame
<1>4. Places(f, w, n + 1)[n] = f[n] * 2 ^ (n * w)
  BY DEF Places
<1>5. Total(Places(f, w, n), n) \in Int
  BY <1>1, TotalType
<1>. QED BY <1>2, <1>3, <1>4, <1>5, TotalZero DEF Number

\* A number depends on its digits alone.
LEMMA NumberSame ==
    ASSUME NEW w \in Nat, NEW f \in [Nat -> Int], NEW n \in Nat, NEW g,
           \A k \in 0 .. n - 1 : g[k] = f[k]
    PROVE  Number(g, w, n) = Number(f, w, n)
<1>1. Places(g, w, n) = Places(f, w, n)
  BY DEF Places
<1>. QED BY <1>1 DEF Number

\* A number of n digits is below 2^(n * w), and they are its digits.
LEMMA DigitOfNumber ==
    ASSUME NEW w \in Nat, NEW f \in Digits(w), NEW n \in Nat
    PROVE  /\ Number(f, w, n) \in 0 .. 2 ^ (n * w) - 1
           /\ \A k \in 0 .. n - 1 : Digit(Number(f, w, n), w, k) = f[k]
<1>. DEFINE Good(m) == /\ Number(f, w, m) \in 0 .. 2 ^ (m * w) - 1
                       /\ \A k \in 0 .. m - 1 : Digit(Number(f, w, m), w, k) = f[k]
            T == {m \in Nat : Good(m)}
            B == 2 ^ w
<1>0. B \in Nat \ {0} /\ f \in [Nat -> Int] /\ \A k \in Nat : f[k] \in 0 .. B - 1
  <2>1. B \in Nat \ {0}
    BY PowerType
  <2>2. f \in [Nat -> 0 .. B - 1]
    BY DEF Digits
  <2>. HIDE DEF B
  <2>. QED BY <2>1, <2>2
<1>1. Good(0)
  <2>1. 0 * w = 0 /\ 2 ^ 0 = 1
    OBVIOUS
  <2>2. Number(f, w, 0) = 0
    BY <1>0, NumberStep
  <2>3. 2 ^ (0 * w) = 1
    BY <2>1
  <2>4. Number(f, w, 0) \in 0 .. 2 ^ (0 * w) - 1
    BY <2>2, <2>3
  <2>5. \A k \in 0 .. 0 - 1 : FALSE
    OBVIOUS
  <2>. QED BY <2>4, <2>5
<1>2. ASSUME NEW m \in Nat, m \in T PROVE m + 1 \in T
  <2>. DEFINE P == 2 ^ (m * w)
              x == Number(f, w, m)
              y == Number(f, w, m + 1)
  <2>1. /\ m * w \in Nat /\ (m + 1) * w = m * w + w /\ P \in Nat \ {0} /\ f[m] \in 0 .. B - 1
        /\ 2 ^ ((m + 1) * w) = P * B
    <3>1. m * w \in Nat /\ (m + 1) * w = m * w + w
      BY TimesType
    <3>. QED BY <1>0, <3>1, PowerSum, PowerType, Zenon
  <2>2. y = x + f[m] * P
    BY <1>0, NumberStep
  <2>3. x \in 0 .. P - 1 /\ \A k \in 0 .. m - 1 : Digit(x, w, k) = f[k]
    BY <1>2
  <2>4. \A d \in 0 .. B - 1 : \A z \in 0 .. P - 1 :
            z + d * P \in 0 .. P * B - 1 /\ d * P \in Nat /\ P * d = d * P
    <3>. HIDE DEF P, B
    <3>. TAKE d \in 0 .. B - 1
    <3>. TAKE z \in 0 .. P - 1
    <3>1. PICK c \in Nat : B = d + 1 + c
      <4>1. B - 1 - d \in Nat /\ B = d + 1 + (B - 1 - d)
        BY <1>0
      <4>. QED BY <4>1
    <3>2. P * B = d * P + P + P * c /\ P * c \in Nat /\ d * P \in Nat /\ P * d = d * P
      <4>1. P * c \in Nat /\ d * P \in Nat /\ P * d = d * P
        BY <2>1, <3>1, SMTT(30)
      <4>2. P * (d + 1 + c) = P * d + P + P * c
        BY <2>1, <3>1, SMTT(30)
      <4>. QED BY <3>1, <4>1, <4>2
    <3>. QED BY <2>1, <3>2
  <2>5. y \in 0 .. P * B - 1
    BY <2>1, <2>2, <2>3, <2>4
  <2>6. ASSUME NEW k \in 0 .. m PROVE Digit(y, w, k) = f[k]
    <3>. DEFINE L == 2 ^ (k * w)
    <3>1. k * w \in Nat /\ L \in Nat \ {0} /\ k \in Nat
      BY TimesType, PowerType
    <3>2. CASE k = m
      <4>1. y \div P = f[m]
        <5>. DEFINE d == f[m]
        <5>. HIDE DEF x, P, d
        <5>0. d \in Int /\ P * d = d * P
          BY <2>1, <2>3, <2>4 DEF d
        <5>1. y = P * d + x
          <6>1. y = x + d * P
            BY <2>2 DEF d
          <6>. HIDE DEF y
          <6>2. P * d \in Int
            BY <2>1, <5>0, SMTT(30)
          <6>. QED BY <6>1, <6>2, <5>0, <2>3
        <5>2. (P * d + x) \div P = d
          BY <2>1, <2>3, <5>0, DivisionUnique
        <5>. QED BY <5>1, <5>2 DEF d
      <4>2. f[m] % B = f[m]
        BY <1>0, <2>1, DivisionType
      <4>. QED BY <3>2, <4>1, <4>2 DEF Digit
    <3>3. CASE k # m
      <4>. DEFINE Q == 2 ^ ((m - k - 1) * w)
                  d == f[m]
      <4>0. k \in 0 .. m - 1 /\ m - k - 1 \in Nat
        BY <3>3
      <4>1. Q \in Nat \ {0} /\ P = L * (B * Q) /\ (m - k - 1) * w \in Nat
        <5>1. (m - k - 1) * w \in Nat
          BY <4>0, TimesType
        <5>2. m * w = k * w + (w + (m - k - 1) * w)
          <6>. DEFINE j == m - k - 1
          <6>1. m = k + (1 + j) /\ j \in Nat /\ k \in Nat
            BY <4>0
          <6>2. (k + (1 + j)) * w = k * w + (w + j * w)
            <7>. HIDE DEF j
            <7>. QED BY <6>1, SMTT(30)
          <6>. QED BY <6>1, <6>2
        <5>3. 2 ^ (w + (m - k - 1) * w) = B * Q
          BY <5>1, PowerSum
        <5>4. 2 ^ (k * w + (w + (m - k - 1) * w)) = L * 2 ^ (w + (m - k - 1) * w)
          <6>1. w + (m - k - 1) * w \in Nat
            BY <5>1
          <6>. QED BY <3>1, <6>1, PowerSum
        <5>. QED BY <5>1, <5>2, <5>3, <5>4, PowerType
      <4>. HIDE DEF L, Q, P, B, d, x, y
      <4>2. d \in Nat /\ y = x + L * (B * (Q * d)) /\ B * (Q * d) \in Int
        <5>1. d \in Nat
          BY <2>1 DEF d
        <5>2. y = x + d * (L * (B * Q))
          BY <2>2, <4>1 DEF d
        <5>3. d * (L * (B * Q)) = L * (B * (Q * d)) /\ B * (Q * d) \in Int
          BY <1>0, <3>1, <4>1, <5>1, SMTT(30)
        <5>. QED BY <5>1, <5>2, <5>3
      <4>3. y \div L = (x \div L) + B * (Q * d)
        <5>. DEFINE q == x \div L
                    r == x % L
                    e == B * (Q * d)
        <5>1. q \in Int /\ r \in 0 .. L - 1 /\ x = L * q + r
          BY <2>3, <3>1, DivisionType
        <5>. HIDE DEF q, r, e
        <5>2. q + e \in Int /\ y = L * (q + e) + r
          <6>1. L * (q + e) = L * q + L * e /\ L * q \in Int /\ L * e \in Int
            BY <3>1, <4>2, <5>1, SMTT(30) DEF e
          <6>2. y = x + L * e /\ q + e \in Int
            BY <4>2, <5>1 DEF e
          <6>. QED BY <5>1, <6>1, <6>2
        <5>3. (L * (q + e) + r) \div L = q + e
          BY <3>1, <5>1, <5>2, DivisionUnique
        <5>. QED BY <5>2, <5>3 DEF q, e
      <4>4. ((x \div L) + B * (Q * d)) % B = (x \div L) % B
        <5>1. x \div L \in Int /\ Q * d \in Int
          <6>1. x \div L \in Int
            BY <2>3, <3>1, DivisionType
          <6>2. Q * d \in Int
            BY <4>1, <4>2, SMTT(30)
          <6>. QED BY <6>1, <6>2
        <5>. QED BY <1>0, <5>1, Congruent
      <4>5. (x \div L) % B = f[k]
        BY <2>3, <4>0 DEF Digit, L, B
      <4>6. (y \div L) % B = f[k]
        BY <4>3, <4>4, <4>5
      <4>. QED BY <4>6 DEF Digit, L, B
    <3>. QED BY <3>2, <3>3
  <2>7. Good(m + 1)
    <3>1. \A k \in 0 .. (m + 1) - 1 : Digit(y, w, k) = f[k]
      BY <2>6
    <3>2. y \in 0 .. 2 ^ ((m + 1) * w) - 1
      BY <2>1, <2>5
    <3>. QED BY <3>1, <3>2
  <2>. HIDE DEF Good
  <2>. QED BY <2>7
<1>. HIDE DEF Good
<1>3. 0 \in T
  BY <1>1
<1>4. n \in T
  <2>. HIDE DEF T
  <2>. QED BY <1>2, <1>3, Inductive
<1>5. Good(n)
  BY <1>4
<1>. QED BY <1>5 DEF Good

\* The digits of x make x, as far as they reach.
LEMMA NumberOfDigits ==
    ASSUME NEW w \in Nat, NEW x \in Nat, NEW n \in Nat
    PROVE  Number([k \in Nat |-> Digit(x, w, k)], w, n) = x % 2 ^ (n * w)
<1>. DEFINE f == [k \in Nat |-> Digit(x, w, k)]
            T == {m \in Nat : Number(f, w, m) = x % 2 ^ (m * w)}
            B == 2 ^ w
<1>1. B \in Nat \ {0} /\ f \in [Nat -> Int] /\ \A k \in Nat : f[k] = Digit(x, w, k)
  <2>1. B \in Nat \ {0}
    BY PowerType
  <2>2. ASSUME NEW k \in Nat PROVE Digit(x, w, k) \in Int
    <3>. DEFINE p == 2 ^ (k * w)
    <3>1. p \in Nat \ {0}
      BY TimesType, PowerType
    <3>. HIDE DEF p, B
    <3>2. x \div p \in Nat
      BY <3>1, DivisionNat
    <3>3. (x \div p) % B \in Int
      <4>. DEFINE y == x \div p
      <4>. HIDE DEF y
      <4>1. y % B \in 0 .. B - 1
        BY <2>1, <3>2, DivisionNat DEF y
      <4>2. y % B \in Int
        BY <4>1
      <4>. QED BY <4>2 DEF y
    <3>. QED BY <3>3 DEF Digit, p, B
  <2>. QED BY <2>1, <2>2
<1>. HIDE DEF f
<1>2. 0 \in T
  <2>1. 0 * w = 0 /\ 2 ^ 0 = 1 /\ x % 1 = 0
    OBVIOUS
  <2>2. Number(f, w, 0) = 0
    BY <1>1, NumberStep
  <2>. QED BY <2>1, <2>2
<1>3. ASSUME NEW m \in Nat, m \in T PROVE m + 1 \in T
  <2>. DEFINE P == 2 ^ (m * w)
  <2>1. m * w \in Nat /\ (m + 1) * w = m * w + w /\ P \in Nat \ {0}
    BY TimesType, PowerType
  <2>2. 2 ^ ((m + 1) * w) = P * B
    BY <2>1, PowerSum, Zenon
  <2>3. Number(f, w, m + 1) = Number(f, w, m) + f[m] * P /\ Number(f, w, m) = x % P
    BY <1>1, <1>3, NumberStep
  <2>4. f[m] = (x \div P) % B
    BY <1>1 DEF Digit
  <2>5. x % (P * B) = (x % P) + P * ((x \div P) % B)
    BY <1>1, <2>1, SplitRemainder
  <2>6. f[m] * P = P * f[m]
    <3>1. f[m] \in Int
      BY <1>1
    <3>. HIDE DEF P
    <3>. QED BY <2>1, <3>1, SMTT(30)
  <2>7. Number(f, w, m + 1) = x % 2 ^ ((m + 1) * w)
    <3>. HIDE DEF P, B
    <3>. QED BY <2>2, <2>3, <2>4, <2>5, <2>6
  <2>. QED BY <2>7
<1>4. n \in T
  <2>. HIDE DEF T
  <2>. QED BY <1>2, <1>3, Inductive
<1>. QED BY <1>4 DEF f
-----------------------------------------------------------------------------
(* Words, their bits and their bytes.                                      *)

\* The widths of a register and of its parts.
LEMMA Widths ==
    /\ Xlen \in Nat \ {0} /\ WordBits \in Nat \ {0} /\ HalfBits \in Nat \ {0} /\ ByteBits \in Nat \ {0}
    /\ ByteBits < HalfBits /\ HalfBits < WordBits /\ WordBits < Xlen /\ Xlen = WordBits + WordBits
    /\ Xlen \div ByteBits \in Nat /\ (Xlen \div ByteBits) * ByteBits = Xlen
<1>1. /\ Xlen \in Nat \ {0} /\ WordBits \in Nat \ {0} /\ HalfBits \in Nat \ {0} /\ ByteBits \in Nat \ {0}
      /\ ByteBits < HalfBits /\ HalfBits < WordBits /\ WordBits < Xlen /\ Xlen = WordBits + WordBits
  BY WidthsAssumption
<1>2. Xlen \div ByteBits \in Nat /\ Xlen = ByteBits * (Xlen \div ByteBits) + (Xlen % ByteBits)
  BY <1>1, DivisionNat
<1>3. Xlen % ByteBits = 0
  BY WidthsAssumption
<1>4. ByteBits * (Xlen \div ByteBits) = (Xlen \div ByteBits) * ByteBits
  BY <1>1, <1>2, SMTT(30)
<1>5. ByteBits * (Xlen \div ByteBits) \in Nat
  BY <1>1, <1>2, SMTT(30)
<1>. QED BY <1>1, <1>2, <1>3, <1>4, <1>5

\* How many registers and words there are.
LEMMA Sizes ==
    /\ Size \in Nat \ {0} /\ Size > Xlen /\ Size = 2 ^ WordBits * 2 ^ WordBits
    /\ 2 ^ WordBits \in Nat \ {0} /\ 2 ^ WordBits <= Size
    /\ Words = 0 .. Size - 1
<1>1. Size \in Nat \ {0} /\ Size > Xlen
  BY Widths, PowerType DEF Size
<1>2. Size = 2 ^ WordBits * 2 ^ WordBits
  BY Widths, PowerSum DEF Size
<1>3. 2 ^ WordBits \in Nat \ {0}
  BY Widths, PowerType
<1>4. 2 ^ WordBits <= Size
  <2>1. Xlen \in Nat /\ WordBits \in 0 .. Xlen
    BY Widths
  <2>. QED BY <2>1, PowerSplit DEF Size
<1>. QED BY <1>1, <1>2, <1>3, <1>4 DEF Words

\* Wrap makes a word of any number and leaves words alone.
LEMMA WrapType ==
    ASSUME NEW n \in Int
    PROVE  Wrap(n) \in Words /\ (n \in Words => Wrap(n) = n)
BY Sizes, DivisionType DEF Wrap

\* The two's complement number of n bits: its range, and what determines it.
LEMMA SignedInIs ==
    ASSUME NEW n \in Nat \ {0}, NEW x \in Int
    PROVE  /\ 2 ^ n = 2 * 2 ^ (n - 1) /\ 2 ^ (n - 1) \in Nat \ {0} /\ 2 ^ n \in Nat \ {0}
           /\ SignedIn(x, n) \in -(2 ^ (n - 1)) .. 2 ^ (n - 1) - 1
           /\ SignedIn(x, n) % 2 ^ n = x % 2 ^ n
           /\ \A v \in -(2 ^ (n - 1)) .. 2 ^ (n - 1) - 1 : v % 2 ^ n = x % 2 ^ n => SignedIn(x, n) = v
<1>. DEFINE M == 2 ^ n
            H == 2 ^ (n - 1)
            low == x % M
<1>1. M = 2 * H /\ H \in Nat \ {0} /\ M \in Nat \ {0}
  <2>1. n - 1 \in Nat /\ (n - 1) + 1 = n
    OBVIOUS
  <2>2. 2 ^ ((n - 1) + 1) = 2 * 2 ^ (n - 1)
    BY <2>1, PowerStep
  <2>. QED BY <2>1, <2>2, PowerType
<1>2. SignedIn(x, n) = IF low < H THEN low ELSE low - M
  BY DEF SignedIn
<1>. HIDE DEF M, H
<1>3. low \in 0 .. M - 1
  BY <1>1, DivisionType
<1>4. low % M = low /\ (low - M) % M = low
  <2>. HIDE DEF low
  <2>1. low \in Int /\ -1 \in Int /\ low + M * (-1) = low - M
    BY <1>1, <1>3
  <2>2. low % M = low
    BY <1>1, <1>3, SmallRemainder
  <2>3. (low + M * (-1)) % M = low % M
    BY <1>1, <2>1, Congruent, Zenon
  <2>. QED BY <2>1, <2>2, <2>3
<1>5. ASSUME NEW v \in -H .. H - 1, v % M = x % M
      PROVE  v = IF low < H THEN low ELSE low - M
  <2>1. CASE v >= 0
    <3>1. v % M = v
      <4>1. v \in 0 .. M - 1
        BY <1>1, <1>5, <2>1
      <4>. QED BY <1>1, <4>1, SmallRemainder
    <3>. QED BY <1>5, <2>1, <3>1, <1>3, <1>1
  <2>2. CASE v < 0
    <3>0. v \in Int /\ 1 \in Int
      BY <1>1, <1>5
    <3>1. (v + M * 1) % M = v % M
      BY <1>1, <3>0, Congruent, Zenon
    <3>2. v + M * 1 = v + M /\ v + M \in 0 .. M - 1 /\ v + M >= H
      BY <1>1, <1>5, <2>2
    <3>3. (v + M) % M = v + M
      BY <1>1, <3>2, SmallRemainder
    <3>4. low = v + M
      BY <1>5, <3>1, <3>2, <3>3
    <3>. HIDE DEF low
    <3>. QED BY <1>1, <1>3, <3>0, <3>2, <3>4
  <2>. QED BY <2>1, <2>2
<1>6. SignedIn(x, n) \in -H .. H - 1 /\ SignedIn(x, n) % M = low
  <2>. HIDE DEF low
  <2>. QED BY <1>1, <1>2, <1>3, <1>4
<1>7. \A v \in -H .. H - 1 : v % M = x % M => SignedIn(x, n) = v
  BY <1>2, <1>5
<1>. QED BY <1>1, <1>6, <1>7 DEF M, H

\* The numbers that registers and their parts stand for.
LEMMA SignedType ==
    ASSUME NEW x \in Int
    PROVE  /\ Signed(x) \in Int /\ SignedW(x) \in Int
           /\ SignedIn(x, ByteBits) \in Int /\ SignedIn(x, HalfBits) \in Int
           /\ Low(x) \in 0 .. 2 ^ WordBits - 1 /\ Low(x) \in Words /\ Sext(x) \in Words
<1>1. \A n \in Nat \ {0} : SignedIn(x, n) \in Int
  <2>. TAKE n \in Nat \ {0}
  <2>. DEFINE H == 2 ^ (n - 1)
  <2>1. H \in Nat /\ SignedIn(x, n) \in -H .. H - 1
    BY SignedInIs
  <2>. HIDE DEF H
  <2>. QED BY <2>1
<1>2. Low(x) \in 0 .. 2 ^ WordBits - 1 /\ Low(x) \in Words
  <2>. DEFINE W == 2 ^ WordBits
  <2>1. W \in Nat \ {0} /\ W <= Size /\ Words = 0 .. Size - 1 /\ Size \in Nat
    BY Sizes
  <2>2. Low(x) = x % W
    BY DEF Low
  <2>. HIDE DEF W
  <2>3. x % W \in 0 .. W - 1
    BY <2>1, DivisionType
  <2>4. Low(x) \in 0 .. W - 1 /\ Low(x) \in Words
    BY <2>1, <2>2, <2>3
  <2>. QED BY <2>4 DEF W
<1>3. Signed(x) \in Int /\ SignedW(x) \in Int /\ SignedIn(x, ByteBits) \in Int /\ SignedIn(x, HalfBits) \in Int
  BY <1>1, Widths DEF Signed, SignedW
<1>4. Sext(x) \in Words
  BY <1>3, WrapType DEF Sext
<1>. QED BY <1>2, <1>3, <1>4

\* 1 for the members of bits
Ones(bits) == [k \in Nat |-> IF k \in bits THEN 1 ELSE 0]

\* A bit is a digit of width 1 ...
LEMMA BitIsDigit ==
    ASSUME NEW x \in Words, NEW i \in 0 .. Xlen - 1
    PROVE  /\ Bits[x] \subseteq 0 .. Xlen - 1
           /\ i \in Bits[x] <=> Digit(x, 1, i) = 1
           /\ Digit(x, 1, i) \in {0, 1}
<1>1. Bits[x] = {j \in 0 .. Xlen - 1 : (x \div 2 ^ j) % 2 = 1}
  BY DEF Bits
<1>2. 2 ^ 1 = 2 /\ i * 1 = i /\ i \in Nat
  BY Widths
<1>3. Digit(x, 1, i) = (x \div 2 ^ i) % 2
  BY <1>2 DEF Digit
<1>4. (x \div 2 ^ i) % 2 \in {0, 1}
  <2>. DEFINE p == 2 ^ i
              y == x \div p
  <2>1. p \in Nat \ {0} /\ x \in Int
    BY <1>2, PowerType, Sizes
  <2>2. y \in Int
    <3>. HIDE DEF p
    <3>. QED BY <2>1, DivisionType
  <2>. HIDE DEF y
  <2>3. y % 2 \in {0, 1}
    BY <2>2
  <2>. QED BY <2>3 DEF y
<1>. QED BY <1>1, <1>3, <1>4

\* ... and Value the number of the bits as digits.
LEMMA ValueIsNumber ==
    ASSUME NEW bits \in SUBSET (0 .. Xlen - 1)
    PROVE  Ones(bits) \in Digits(1) /\ Value(bits) = Number(Ones(bits), 1, Xlen)
<1>1. Ones(bits) \in [Nat -> 0 .. 1]
  BY DEF Ones
<1>2. 2 ^ 1 = 2
  OBVIOUS
<1>3. Digits(1) = [Nat -> 0 .. 1]
  BY <1>2 DEF Digits
<1>. DEFINE f == [i \in 0 .. Xlen - 1 |-> IF i \in bits THEN 2 ^ i ELSE 0]
<1>4. ASSUME NEW k \in 0 .. Xlen - 1 PROVE Places(Ones(bits), 1, Xlen)[k] = f[k] /\ f[k] \in Int
  <2>1. k \in Nat /\ k * 1 = k /\ 2 ^ k \in Nat
    BY Widths, PowerType
  <2>2. Places(Ones(bits), 1, Xlen)[k] = Ones(bits)[k] * 2 ^ (k * 1)
    BY DEF Places
  <2>3. Ones(bits)[k] = IF k \in bits THEN 1 ELSE 0
    BY <2>1 DEF Ones
  <2>. QED BY <2>1, <2>2, <2>3
<1>5. Total(Places(Ones(bits), 1, Xlen), Xlen) = Total(f, Xlen)
  <2>. HIDE DEF f
  <2>1. Terms(f, Xlen)
    BY <1>4 DEF Terms
  <2>2. Xlen \in Nat
    BY Widths
  <2>. QED BY <1>4, <2>1, <2>2, TotalSame
<1>. QED BY <1>1, <1>3, <1>5 DEF Number, Value

\* Value and Bits undo each other.
LEMMA ValueOfBits ==
    ASSUME NEW bits \in SUBSET (0 .. Xlen - 1)
    PROVE  Value(bits) \in Words /\ Bits[Value(bits)] = bits
<1>. DEFINE x == Value(bits)
<1>1. Xlen \in Nat /\ Xlen * 1 = Xlen /\ 1 \in Nat
  BY Widths
<1>2. x = Number(Ones(bits), 1, Xlen) /\ Ones(bits) \in Digits(1)
  BY ValueIsNumber
<1>3. /\ Number(Ones(bits), 1, Xlen) \in 0 .. 2 ^ (Xlen * 1) - 1
      /\ \A k \in 0 .. Xlen - 1 : Digit(Number(Ones(bits), 1, Xlen), 1, k) = Ones(bits)[k]
  BY <1>1, <1>2, DigitOfNumber
<1>4. x \in Words
  BY <1>1, <1>2, <1>3 DEF Words, Size
<1>5. \A k \in 0 .. Xlen - 1 : Digit(x, 1, k) = Ones(bits)[k]
  BY <1>2, <1>3
<1>. HIDE DEF x
<1>6. ASSUME NEW k \in 0 .. Xlen - 1 PROVE k \in Bits[x] <=> k \in bits
  <2>1. k \in Nat
    BY <1>1
  <2>2. Ones(bits)[k] = IF k \in bits THEN 1 ELSE 0
    BY <2>1 DEF Ones
  <2>. QED BY <1>4, <1>5, <2>2, BitIsDigit
<1>7. Bits[x] \subseteq 0 .. Xlen - 1
  BY <1>4 DEF Bits
<1>8. Bits[x] = bits
  BY <1>6, <1>7
<1>. QED BY <1>4, <1>8 DEF x

\* A word is the value of its bits.
LEMMA BitsOfValue ==
    ASSUME NEW x \in Words
    PROVE  Bits[x] \in SUBSET (0 .. Xlen - 1) /\ Value(Bits[x]) = x
<1>1. Xlen \in Nat /\ Xlen * 1 = Xlen /\ x \in Nat /\ 1 \in Nat
  BY Widths, Sizes
<1>2. Bits[x] \in SUBSET (0 .. Xlen - 1)
  BY DEF Bits
<1>3. Value(Bits[x]) = Number(Ones(Bits[x]), 1, Xlen) /\ Ones(Bits[x]) \in Digits(1)
  BY <1>2, ValueIsNumber
<1>. DEFINE f == [k \in Nat |-> Digit(x, 1, k)]
<1>4. Number(f, 1, Xlen) = x % 2 ^ (Xlen * 1)
  BY <1>1, NumberOfDigits
<1>5. x % 2 ^ (Xlen * 1) = x
  BY <1>1, Sizes, SmallRemainder DEF Size
<1>6. \A k \in 0 .. Xlen - 1 : f[k] = Ones(Bits[x])[k]
  <2>. TAKE k \in 0 .. Xlen - 1
  <2>1. k \in Nat
    BY <1>1
  <2>2. Ones(Bits[x])[k] = IF k \in Bits[x] THEN 1 ELSE 0
    BY <2>1 DEF Ones
  <2>3. f[k] = Digit(x, 1, k)
    BY <2>1
  <2>. QED BY <2>2, <2>3, BitIsDigit
<1>. HIDE DEF f
<1>7. Number(f, 1, Xlen) = Number(Ones(Bits[x]), 1, Xlen)
  <2>1. Ones(Bits[x]) \in [Nat -> Int]
    BY DEF Ones
  <2>. QED BY <1>1, <1>6, <2>1, NumberSame
<1>. QED BY <1>2, <1>3, <1>4, <1>5, <1>7

\* FromBytes and Byte undo each other.
LEMMA BytesOfWord ==
    ASSUME NEW bytes \in [Bytes -> 0 .. 2 ^ ByteBits - 1]
    PROVE  /\ FromBytes(bytes) \in Words
           /\ \A k \in Bytes : Byte(FromBytes(bytes), k) = bytes[k]
<1>. DEFINE n == Xlen \div ByteBits
            w == ByteBits
            f == [k \in Nat |-> IF k \in Bytes THEN bytes[k] ELSE 0]
            x == FromBytes(bytes)
            B == 2 ^ ByteBits
<1>1. n \in Nat /\ w \in Nat /\ n * w = Xlen /\ Bytes = 0 .. n - 1 /\ B \in Nat \ {0}
  BY Widths, PowerType DEF Bytes
<1>2. f \in Digits(w)
  <2>. HIDE DEF B
  <2>1. f \in [Nat -> 0 .. B - 1]
    BY <1>1 DEF B
  <2>. QED BY <2>1 DEF Digits, B
<1>3. \A k \in Bytes : f[k] = bytes[k] /\ k \in Nat
  BY <1>1
<1>. HIDE DEF f
<1>4. x = Number(f, w, n)
  <2>1. [k \in Bytes |-> bytes[k] * 2 ^ (k * ByteBits)] = Places(f, w, n)
    <3>1. \A k \in Bytes : bytes[k] * 2 ^ (k * ByteBits) = f[k] * 2 ^ (k * w)
      BY <1>3
    <3>. HIDE DEF n
    <3>. QED BY <1>1, <3>1 DEF Places
  <2>. QED BY <2>1 DEF FromBytes, Number
<1>. HIDE DEF x, n
<1>5. Number(f, w, n) \in 0 .. 2 ^ (n * w) - 1 /\ \A k \in 0 .. n - 1 : Digit(Number(f, w, n), w, k) = f[k]
  BY <1>1, <1>2, DigitOfNumber
<1>6. x \in Words
  BY <1>1, <1>4, <1>5 DEF Words, Size
<1>7. \A k \in Bytes : Byte(x, k) = bytes[k]
  BY <1>1, <1>3, <1>4, <1>5 DEF Digit, Byte
<1>. QED BY <1>6, <1>7 DEF x

\* A word is the number of its bytes.
LEMMA WordOfBytes ==
    ASSUME NEW x \in Words
    PROVE  /\ \A k \in Bytes : Byte(x, k) \in 0 .. 2 ^ ByteBits - 1
           /\ FromBytes([k \in Bytes |-> Byte(x, k)]) = x
<1>. DEFINE n == Xlen \div ByteBits
            w == ByteBits
            f == [k \in Nat |-> Digit(x, w, k)]
            b == [k \in Bytes |-> Byte(x, k)]
            B == 2 ^ ByteBits
<1>1. n \in Nat /\ w \in Nat /\ n * w = Xlen /\ Bytes = 0 .. n - 1 /\ B \in Nat \ {0} /\ x \in Nat
  BY Widths, PowerType, Sizes DEF Bytes
<1>2. \A k \in Bytes : b[k] = f[k] /\ k \in Nat
  <2>. HIDE DEF n
  <2>. QED BY <1>1 DEF Byte, Digit
<1>3. ASSUME NEW k \in Bytes PROVE Byte(x, k) \in 0 .. B - 1
  <2>. DEFINE p == 2 ^ (k * ByteBits)
              y == x \div p
  <2>1. k * ByteBits \in Nat
    BY <1>1, <1>2, TimesType
  <2>2. p \in Nat \ {0}
    BY <2>1, PowerType, Zenon
  <2>3. Byte(x, k) = y % B
    BY DEF Byte
  <2>. HIDE DEF p, B
  <2>4. y \in Nat
    BY <1>1, <2>2, DivisionNat
  <2>. HIDE DEF y
  <2>. QED BY <1>1, <2>3, <2>4, DivisionNat
<1>4. FromBytes(b) = Number(f, w, n)
  <2>1. [k \in Bytes |-> b[k] * 2 ^ (k * ByteBits)] = Places(f, w, n)
    <3>1. \A k \in Bytes : b[k] * 2 ^ (k * ByteBits) = f[k] * 2 ^ (k * w)
      BY <1>2
    <3>. HIDE DEF n, b, f
    <3>. QED BY <1>1, <3>1 DEF Places
  <2>. QED BY <2>1 DEF FromBytes, Number
<1>5. Number(f, w, n) = x % 2 ^ (n * w)
  <2>. HIDE DEF n
  <2>. QED BY <1>1, NumberOfDigits
<1>6. x % 2 ^ (n * w) = x
  <2>. HIDE DEF n
  <2>. QED BY <1>1, Sizes, SmallRemainder DEF Size
<1>. QED BY <1>3, <1>4, <1>5, <1>6
-----------------------------------------------------------------------------
(* Words in two parts.                                                     *)

\* h above the p low bits l
Join(h, l, p) == h * 2 ^ p + l

\* Joining two parts makes a number of the width, with these parts ...
LEMMA JoinIs ==
    ASSUME NEW width \in Nat, NEW p \in 0 .. width,
           NEW h \in 0 .. 2 ^ (width - p) - 1, NEW l \in 0 .. 2 ^ p - 1
    PROVE  /\ Join(h, l, p) \in 0 .. 2 ^ width - 1
           /\ Join(h, l, p) \div 2 ^ p = h /\ Join(h, l, p) % 2 ^ p = l
<1>. DEFINE P == 2 ^ p
            Q == 2 ^ (width - p)
<1>1. P \in Nat \ {0} /\ Q \in Nat \ {0} /\ 2 ^ width = P * Q
  <2>1. p \in Nat /\ width - p \in Nat
    OBVIOUS
  <2>. QED BY <2>1, PowerType, PowerSplit
<1>2. Join(h, l, p) = h * P + l
  BY DEF Join
<1>3. h \in 0 .. Q - 1 /\ l \in 0 .. P - 1
  OBVIOUS
<1>. HIDE DEF P, Q
<1>4. h * P = P * h /\ P * h \in Nat /\ P * (Q - 1) = P * Q - P /\ P * h <= P * (Q - 1) /\ P * Q \in Nat
  <2>1. PICK c \in Nat : Q - 1 = h + c
    <3>1. Q - 1 - h \in Nat /\ Q - 1 = h + (Q - 1 - h)
      BY <1>1, <1>3
    <3>. QED BY <3>1
  <2>2. P * (h + c) = P * h + P * c /\ P * c \in Nat /\ P * h \in Nat /\ h * P = P * h
    BY <1>1, <1>3, <2>1, SMTT(30)
  <2>3. P * (Q - 1) = P * Q - P /\ P * Q \in Nat
    BY <1>1, SMTT(30)
  <2>. QED BY <2>1, <2>2, <2>3
<1>5. h * P + l \in 0 .. P * Q - 1
  BY <1>1, <1>3, <1>4
<1>6. (P * h + l) % P = l /\ (P * h + l) \div P = h
  <2>1. h \in Int
    BY <1>1, <1>3
  <2>. QED BY <1>1, <1>3, <2>1, DivisionUnique
<1>. QED BY <1>1, <1>2, <1>4, <1>5, <1>6 DEF P

\* ... and every number of the width is joined of its parts.
LEMMA SplitIs ==
    ASSUME NEW width \in Nat, NEW p \in 0 .. width, NEW x \in 0 .. 2 ^ width - 1
    PROVE  /\ x \div 2 ^ p \in 0 .. 2 ^ (width - p) - 1 /\ x % 2 ^ p \in 0 .. 2 ^ p - 1
           /\ x = Join(x \div 2 ^ p, x % 2 ^ p, p)
<1>. DEFINE P == 2 ^ p
            Q == 2 ^ (width - p)
            h == x \div P
            l == x % P
<1>1. P \in Nat \ {0} /\ Q \in Nat \ {0} /\ 2 ^ width = P * Q
  <2>1. p \in Nat /\ width - p \in Nat
    OBVIOUS
  <2>. QED BY <2>1, PowerType, PowerSplit
<1>2. x \in Nat /\ x < P * Q
  <2>1. P * Q \in Nat
    BY <1>1, PowerType
  <2>. HIDE DEF P, Q
  <2>. QED BY <1>1, <2>1
<1>. HIDE DEF P, Q
<1>3. h \in Nat /\ l \in 0 .. P - 1 /\ x = P * h + l
  BY <1>1, <1>2, DivisionNat
<1>. HIDE DEF h, l
<1>4. h < Q
  <2>. SUFFICES ASSUME h >= Q PROVE FALSE
    BY <1>1, <1>3
  <2>1. PICK c \in Nat : h = Q + c
    <3>1. h - Q \in Nat /\ h = Q + (h - Q)
      BY <1>1, <1>3
    <3>. QED BY <3>1
  <2>2. P * (Q + c) = P * Q + P * c /\ P * c \in Nat /\ P * Q \in Nat
    BY <1>1, <2>1, SMTT(30)
  <2>. QED BY <1>1, <1>2, <1>3, <2>1, <2>2
<1>5. P * h = h * P /\ h * P \in Nat
  BY <1>1, <1>3, SMTT(30)
<1>. QED BY <1>1, <1>3, <1>4, <1>5 DEF Join, h, l, P, Q

\* A rotation exchanges the parts.
LEMMA RotationIs ==
    ASSUME NEW width \in Nat, NEW n \in 0 .. width, NEW x \in 0 .. 2 ^ width - 1
    PROVE  /\ Ror(x, n, width) = Join(x % 2 ^ n, x \div 2 ^ n, width - n)
           /\ Ror(x, n, width) \in 0 .. 2 ^ width - 1
           /\ Rol(x, n, width) = Join(x % 2 ^ (width - n), x \div 2 ^ (width - n), n)
           /\ Rol(x, n, width) \in 0 .. 2 ^ width - 1
<1>. DEFINE N == 2 ^ n
            M == 2 ^ (width - n)
            k == width - n
<1>1. k \in 0 .. width /\ width - k = n /\ k \in Nat
  OBVIOUS
<1>2. N \in Nat \ {0} /\ M \in Nat \ {0} /\ 2 ^ width = N * M /\ N * M = M * N
  <2>1. N \in Nat \ {0} /\ M \in Nat \ {0} /\ 2 ^ width = N * M
    BY <1>1, PowerType, PowerSplit
  <2>. HIDE DEF N, M
  <2>. QED BY <2>1, SMTT(30)
<1>3. x \div N \in 0 .. M - 1 /\ x % N \in 0 .. N - 1
  BY SplitIs
<1>4. x \div M \in 0 .. N - 1 /\ x % M \in 0 .. M - 1 /\ x = Join(x \div M, x % M, k)
  BY <1>1, SplitIs
<1>5. Ror(x, n, width) = Join(x % N, x \div N, k)
  <2>. DEFINE a == x \div N
              b == (x % N) * M
  <2>1. Ror(x, n, width) = a + b /\ Join(x % N, x \div N, k) = b + a
    BY DEF Ror, Join
  <2>2. a \in Int /\ b \in Int
    <3>. HIDE DEF N, M
    <3>1. a \in Int
      BY <1>2, <1>3
    <3>2. x % N \in Nat
      BY <1>2, <1>3
    <3>3. b \in Int
      <4>. DEFINE c == x % N
      <4>. HIDE DEF c
      <4>1. c \in Nat
        BY <3>2 DEF c
      <4>2. c * M \in Int
        BY <1>2, <4>1, SMTT(30)
      <4>. QED BY <4>2 DEF c
    <3>. QED BY <3>1, <3>3
  <2>. HIDE DEF a, b
  <2>. QED BY <2>1, <2>2
<1>6. Join(x % N, x \div N, k) \in 0 .. 2 ^ width - 1
  BY <1>1, <1>3, JoinIs
<1>7. Rol(x, n, width) = Join(x % M, x \div M, n)
  <2>. DEFINE h == x \div M
              l == x % M
  <2>1. Rol(x, n, width) = ((x * N) % 2 ^ width) + h /\ Join(x % M, x \div M, n) = l * N + h
    BY DEF Rol, Join
  <2>2. h \in 0 .. N - 1 /\ l \in 0 .. M - 1 /\ x = h * M + l
    BY <1>4 DEF Join
  <2>. HIDE DEF h, l, N, M
  <2>3. x * N = (N * M) * h + l * N /\ l * N = N * l
    <3>1. h \in Nat /\ l \in Nat
      BY <1>2, <2>2
    <3>. QED BY <1>2, <2>2, <3>1, SMTT(30)
  <2>4. l * N \in 0 .. N * M - 1
    <3>1. PICK c \in Nat : M = l + 1 + c
      <4>1. M - 1 - l \in Nat /\ M = l + 1 + (M - 1 - l)
        BY <1>2, <2>2
      <4>. QED BY <4>1
    <3>2. N * (l + 1 + c) = N * l + N + N * c /\ N * c \in Nat /\ N * l \in Nat
      <4>1. l \in Nat
        BY <1>2, <2>2
      <4>. QED BY <1>2, <3>1, <4>1, SMTT(30)
    <3>. QED BY <1>2, <2>3, <3>1, <3>2
  <2>5. N * M \in Nat \ {0}
    BY <1>2, SMTT(30)
  <2>6. ((N * M) * h + l * N) % (N * M) = l * N
    <3>1. h \in Int
      BY <1>2, <2>2
    <3>. DEFINE f == N * M
                r == l * N
    <3>2. f \in Nat \ {0} /\ r \in 0 .. f - 1
      BY <2>4, <2>5
    <3>. HIDE DEF f, r
    <3>3. (f * h + r) % f = r
      BY <3>1, <3>2, DivisionUnique
    <3>. QED BY <3>3 DEF f, r
  <2>. QED BY <1>2, <2>1, <2>3, <2>6
<1>8. Join(x % M, x \div M, n) \in 0 .. 2 ^ width - 1
  BY <1>4, JoinIs
<1>. QED BY <1>5, <1>6, <1>7, <1>8

-----------------------------------------------------------------------------
(* Types of the results.                                                   *)

\* A set of small numbers that is not empty has a least and a greatest.
LEMMA LeastAndGreatest ==
    ASSUME NEW n \in Nat, NEW S \in SUBSET (0 .. n - 1), S # {}
    PROVE  /\ Max(S) \in S /\ \A x \in S : x <= Max(S)
           /\ Min(S) \in S /\ \A x \in S : Min(S) <= x
<1>. DEFINE Good(A) == (\E m \in A : \A x \in A : m >= x) /\ (\E m \in A : \A x \in A : m <= x)
            T == {k \in Nat : \A A \in SUBSET (0 .. k - 1) : A # {} => Good(A)}
<1>1. 0 \in T
  <2>1. 0 .. 0 - 1 = {}
    OBVIOUS
  <2>2. \A A \in SUBSET (0 .. 0 - 1) : A = {}
    BY <2>1
  <2>. HIDE DEF Good
  <2>. QED BY <2>2
<1>2. ASSUME NEW k \in Nat, k \in T PROVE k + 1 \in T
  <2>. SUFFICES ASSUME NEW A \in SUBSET (0 .. k), A # {} PROVE Good(A)
    <3>1. 0 .. (k + 1) - 1 = 0 .. k
      OBVIOUS
    <3>. QED BY <3>1
  <2>. DEFINE A0 == A \ {k}
  <2>1. A0 \in SUBSET (0 .. k - 1)
    OBVIOUS
  <2>2. CASE A0 = {}
    <3>1. A = {k}
      BY <2>2
    <3>. QED BY <3>1
  <2>3. CASE A0 # {}
    <3>1. Good(A0)
      BY <1>2, <2>1, <2>3
    <3>2. PICK m \in A0 : \A x \in A0 : m >= x
      BY <3>1
    <3>3. PICK j \in A0 : \A x \in A0 : j <= x
      BY <3>1
    <3>4. \A x \in A : x \in A0 \/ x = k
      OBVIOUS
    <3>5. \A x \in A : j <= x
      BY <2>1, <3>3, <3>4
    <3>6. IF k \in A THEN \A x \in A : k >= x ELSE \A x \in A : m >= x
      BY <2>1, <3>2, <3>4
    <3>. QED BY <3>2, <3>3, <3>5, <3>6
  <2>. QED BY <2>2, <2>3
<1>3. n \in T
  <2>. HIDE DEF T
  <2>. QED BY <1>1, <1>2, Inductive
<1>4. Good(S)
  BY <1>3
<1>5. Max(S) \in S /\ \A y \in S : Max(S) >= y
  BY <1>4, Zenon DEF Max
<1>6. Min(S) \in S /\ \A y \in S : Min(S) <= y
  BY <1>4, Zenon DEF Min
<1>7. \A y \in S : y \in Int
  OBVIOUS
<1>. QED BY <1>5, <1>6, <1>7

\* A number below 2^p has its bits below p, and one if it is not 0.
LEMMA BitsBelow ==
    ASSUME NEW p \in 0 .. Xlen, NEW x \in 0 .. 2 ^ p - 1
    PROVE  /\ x \in Words /\ Bits[x] \in SUBSET (0 .. p - 1)
           /\ x # 0 => Bits[x] # {}
<1>1. x \in Words /\ p \in Nat /\ Xlen \in Nat
  <2>1. 2 ^ p <= Size /\ 2 ^ p \in Nat /\ Xlen \in Nat /\ p \in Nat
    BY Widths, PowerSplit, PowerType DEF Size
  <2>. QED BY <2>1, Sizes
<1>2. ASSUME NEW i \in Bits[x] PROVE i \in 0 .. p - 1
  <2>1. i \in 0 .. Xlen - 1 /\ (x \div 2 ^ i) % 2 = 1
    BY <1>1 DEF Bits
  <2>2. SUFFICES ASSUME i >= p PROVE FALSE
    BY <1>1, <2>1
  <2>3. 2 ^ p <= 2 ^ i /\ i \in Nat /\ 2 ^ i \in Nat \ {0} /\ 2 ^ p \in Nat
    <3>1. i \in Nat /\ p \in 0 .. i
      BY <1>1, <2>1, <2>2
    <3>. QED BY <1>1, <3>1, PowerSplit, PowerType
  <2>4. x \in 0 .. 2 ^ i - 1
    BY <2>3
  <2>5. x \div 2 ^ i = 0
    BY <2>3, <2>4, SmallRemainder
  <2>. QED BY <2>1, <2>5
<1>3. ASSUME x # 0 PROVE Bits[x] # {}
  <2>1. 0 \in Words
    BY Sizes
  <2>2. Bits[0] = {}
    <3>1. ASSUME NEW i \in Bits[0] PROVE FALSE
      <4>1. i \in 0 .. Xlen - 1 /\ (0 \div 2 ^ i) % 2 = 1
        BY <2>1 DEF Bits
      <4>2. i \in Nat
        BY <1>1, <4>1
      <4>3. 2 ^ i \in Nat \ {0}
        BY <4>2, PowerType
      <4>4. 0 \in 0 .. 2 ^ i - 1
        BY <4>3
      <4>5. 0 \div 2 ^ i = 0
        BY <4>3, <4>4, SmallRemainder
      <4>. QED BY <4>1, <4>5
    <3>. QED BY <3>1
  <2>3. Value(Bits[x]) = x /\ Value(Bits[0]) = 0
    BY <1>1, <2>1, BitsOfValue
  <2>. QED BY <1>3, <2>2, <2>3
<1>. QED BY <1>1, <1>2, <1>3

\* Small sets of numbers are finite.
LEMMA CountType ==
    ASSUME NEW n \in 0 .. Xlen, NEW S \in SUBSET (0 .. n - 1)
    PROVE  IsFiniteSet(S) /\ Cardinality(S) \in 0 .. n
<1>1. n \in Nat
  BY Widths
<1>2. IsFiniteSet(0 .. n - 1) /\ Cardinality(0 .. n - 1) = n
  <2>1. 0 \in Int /\ n - 1 \in Int
    BY <1>1
  <2>2. /\ IsFiniteSet(0 .. n - 1)
        /\ Cardinality(0 .. n - 1) = IF 0 > n - 1 THEN 0 ELSE (n - 1) - 0 + 1
    BY <2>1, FS_Interval, Zenon
  <2>. QED BY <1>1, <2>2
<1>3. IsFiniteSet(S) /\ Cardinality(S) <= n
  BY <1>2, FS_Subset
<1>. QED BY <1>3, FS_CardinalityType

\* What an instruction writes, if it ends.
Results == Words \cup {Dead}

\* A shift to the right makes a word.
LEMMA ShiftType ==
    ASSUME NEW x \in Words, NEW n \in Nat
    PROVE  x \div 2 ^ n \in Words /\ x % 2 ^ n \in Words /\ 2 ^ n \in Nat \ {0}
<1>. DEFINE p == 2 ^ n
<1>1. p \in Nat \ {0} /\ x \in Nat /\ Words = 0 .. Size - 1 /\ Size \in Nat
  BY PowerType, Sizes
<1>. HIDE DEF p
<1>2. x \div p \in 0 .. x
  <2>1. x \in Int
    BY <1>1
  <2>. QED BY <1>1, <2>1, DivisionType, Zenon
<1>3. x % p \in 0 .. x
  <2>1. x % p \in 0 .. p - 1 /\ (x \in 0 .. p - 1 => x % p = x)
    BY <1>1, DivisionNat, SmallRemainder
  <2>. DEFINE r == x % p
  <2>. HIDE DEF r
  <2>2. r \in 0 .. p - 1 /\ (x \in 0 .. p - 1 => r = x)
    BY <2>1 DEF r
  <2>3. r \in 0 .. x
    BY <1>1, <2>2
  <2>. QED BY <2>3 DEF r
<1>4. x \div p \in Words /\ x % p \in Words
  <2>. DEFINE q == x \div p
              r == x % p
  <2>1. q \in 0 .. x /\ r \in 0 .. x
    BY <1>2, <1>3
  <2>. HIDE DEF q, r
  <2>2. q \in Words /\ r \in Words
    BY <1>1, <2>1
  <2>. QED BY <2>2 DEF q, r
<1>. QED BY <1>1, <1>4 DEF p

\* The Boolean operations on words work bit by bit.
LEMMA BooleansType ==
    ASSUME NEW x \in Words, NEW y \in Words
    PROVE  /\ And(x, y) \in Words /\ Bits[And(x, y)] = Bits[x] \cap Bits[y]
           /\ Or(x, y) \in Words /\ Bits[Or(x, y)] = Bits[x] \cup Bits[y]
           /\ Xor(x, y) \in Words /\ Bits[Xor(x, y)] = (Bits[x] \ Bits[y]) \cup (Bits[y] \ Bits[x])
           /\ Not(x) \in Words
<1>1. Bits[x] \in SUBSET (0 .. Xlen - 1) /\ Bits[y] \in SUBSET (0 .. Xlen - 1)
  BY BitsOfValue
<1>. DEFINE A == Bits[x]
            B == Bits[y]
<1>. HIDE DEF A, B
<1>2. /\ A \cap B \in SUBSET (0 .. Xlen - 1) /\ A \cup B \in SUBSET (0 .. Xlen - 1)
      /\ (A \ B) \cup (B \ A) \in SUBSET (0 .. Xlen - 1)
  BY <1>1 DEF A, B
<1>3. Not(x) \in Words
  BY Sizes DEF Not
<1>. QED BY <1>2, <1>3, ValueOfBits, Zenon DEF And, Or, Xor, A, B

\* The division of C on integers.
LEMMA QuotientType ==
    ASSUME NEW a \in Int, NEW b \in Int \ {0}
    PROVE  /\ Abs(a) \in Nat /\ Abs(b) \in Nat \ {0}
           /\ Quotient(a, b) \in Int /\ Remainder(a, b) \in Int
<1>1. Abs(a) \in Nat /\ Abs(b) \in Nat \ {0}
  BY DEF Abs
<1>. DEFINE q == Abs(a) \div Abs(b)
<1>2. q \in Nat
  <2>. DEFINE m == Abs(a)
              n == Abs(b)
  <2>. HIDE DEF m, n
  <2>1. m \div n \in Nat
    BY <1>1, DivisionNat DEF m, n
  <2>. QED BY <2>1 DEF m, n
<1>3. Quotient(a, b) = IF (a < 0) = (b < 0) THEN 1 * q ELSE (-1) * q
  <2>1. Quotient(a, b) = (IF (a < 0) = (b < 0) THEN 1 ELSE -1) * q
    BY DEF Quotient
  <2>. HIDE DEF q
  <2>. QED BY <2>1
<1>. HIDE DEF q
<1>4. 1 * q \in Int /\ (-1) * q \in Int
  BY <1>2
<1>5. Quotient(a, b) \in Int
  BY <1>3, <1>4
<1>6. Remainder(a, b) \in Int
  <2>. DEFINE c == Quotient(a, b)
  <2>1. Remainder(a, b) = a - b * c
    BY DEF Remainder
  <2>. HIDE DEF c
  <2>2. b * c \in Int
    BY <1>5, SMTT(30) DEF c
  <2>. QED BY <2>1, <2>2
<1>. QED BY <1>1, <1>5, <1>6
\* A rotation makes a word.
LEMMA RotationType ==
    ASSUME NEW x \in Words, NEW n \in 0 .. Xlen
    PROVE  Ror(x, n, Xlen) \in Words /\ Rol(x, n, Xlen) \in Words
<1>1. Xlen \in Nat /\ x \in 0 .. 2 ^ Xlen - 1
  BY Widths DEF Words, Size
<1>. QED BY <1>1, RotationIs DEF Words, Size

\* Words, and what an instruction writes.
LEMMA ResultSets ==
    /\ Words \subseteq Results /\ Dead \in Results /\ Words \subseteq Nat
    /\ 0 \in Words /\ 1 \in Words /\ Size - 1 \in Words /\ Dead \notin Words
    /\ \A n \in 0 .. Xlen : n \in Words
<1>2. Xlen \in Nat \ {0} /\ Size \in Nat /\ Size > Xlen /\ Words = 0 .. Size - 1
  BY Widths, Sizes
<1>. QED BY <1>2 DEF Results, Dead

\* A flag is a word.
LEMMA FlagType ==
    ASSUME NEW p
    PROVE  Flag(p) \in Words
BY ResultSets DEF Flag

\* What the instructions of an opcode compute are words, or Dead: OpSums, ...
LEMMA SumsType ==
    ASSUME NEW a \in Words, NEW b \in Words, NEW op \in DOMAIN OpSums(a, b)
    PROVE  OpSums(a, b)[op] \in Words
<1>1. a \in Int /\ b \in Int /\ Signed(a) \in Int /\ Signed(b) \in Int /\ Size \in Nat \ {0}
  BY SignedType, ResultSets, Sizes
<1>2. b % Xlen \in 0 .. Xlen /\ b % Xlen \in Nat
  BY <1>1, Widths, DivisionType
<1>3. 2 ^ (b % Xlen) \in Int
  BY <1>2, PowerType
<1>. DEFINE p == 2 ^ (b % Xlen)
            s == Signed(a) * Signed(b)
<1>4. a + b \in Int /\ a - b \in Int /\ a * b \in Int /\ 2 * a + b \in Int
  BY <1>1, SMTT(30)
<1>5. a * p \in Int
  <2>. HIDE DEF p
  <2>1. p \in Int
    BY <1>3 DEF p
  <2>. QED BY <1>1, <2>1, SMTT(30)
<1>6. s \div Size \in Int
  <2>1. s \in Int
    <3>. DEFINE x == Signed(a)
                y == Signed(b)
    <3>. HIDE DEF x, y
    <3>1. x * y \in Int
      BY <1>1, SMTT(30) DEF x, y
    <3>. QED BY <3>1 DEF x, y
  <2>. HIDE DEF s
  <2>. QED BY <1>1, <2>1, DivisionType
<1>7. (a * b) \div Size \in Words
  <2>. DEFINE q == (a * b) \div Size
  <2>1. q \in Nat /\ a * b = Size * q + ((a * b) % Size) /\ (a * b) % Size \in 0 .. Size - 1
    <3>. DEFINE m == a * b
    <3>1. m \in Nat
      <4>1. a \in Nat /\ b \in Nat
        BY Sizes
      <4>. QED BY <4>1, SMTT(30)
    <3>. HIDE DEF m
    <3>. QED BY <1>1, <3>1, DivisionNat DEF m
  <2>. DEFINE m == a * b
              r == m % Size
  <2>2. m <= (Size - 1) * (Size - 1)
    <3>1. PICK c \in Nat : Size - 1 = a + c
      <4>1. a \in 0 .. Size - 1 /\ Size - 1 - a \in Nat /\ Size - 1 = a + (Size - 1 - a)
        BY Sizes
      <4>. QED BY <4>1
    <3>2. PICK d \in Nat : Size - 1 = b + d
      <4>1. b \in 0 .. Size - 1 /\ Size - 1 - b \in Nat /\ Size - 1 = b + (Size - 1 - b)
        BY Sizes
      <4>. QED BY <4>1
    <3>3. a \in Nat /\ b \in Nat
      BY Sizes
    <3>4. (a + c) * (b + d) = a * b + a * d + c * b + c * d
          /\ a * d \in Nat /\ c * b \in Nat /\ c * d \in Nat /\ a * b \in Nat
      BY <3>1, <3>2, <3>3, SMTT(30)
    <3>5. (Size - 1) * (Size - 1) = (a + c) * (b + d)
      BY <3>1, <3>2, Zenon
    <3>. HIDE DEF m
    <3>6. m <= (a + c) * (b + d)
      BY <3>4 DEF m
    <3>. QED BY <3>5, <3>6
  <2>. HIDE DEF q, r, m
  <2>3. m = Size * q + r /\ r \in 0 .. Size - 1
    BY <2>1 DEF q, r, m
  <2>4. q <= Size - 1
    <3>. SUFFICES ASSUME q >= Size PROVE FALSE
      BY <1>1, <2>1
    <3>1. PICK c \in Nat : q = Size + c
      <4>1. q - Size \in Nat /\ q = Size + (q - Size)
        BY <1>1, <2>1
      <4>. QED BY <4>1
    <3>2. Size * q = Size * Size + Size * c /\ Size * c \in Nat /\ Size * Size \in Nat
      BY <1>1, <3>1, SMTT(30)
    <3>3. (Size - 1) * (Size - 1) = Size * Size - 2 * Size + 1
      BY <1>1, SMTT(30)
    <3>. QED BY <1>1, <2>2, <2>3, <3>2, <3>3
  <2>5. q \in Words
    BY <1>1, <2>1, <2>4, Sizes
  <2>. QED BY <2>5 DEF q
<1>. HIDE DEF p, s
<1>8. /\ Wrap(a + b) \in Words /\ Wrap(a - b) \in Words /\ Wrap(a * b) \in Words
      /\ Wrap(a * p) \in Words /\ Wrap(s \div Size) \in Words /\ Wrap(2 * a + b) \in Words
  BY <1>4, <1>5, <1>6, WrapType
<1>9. Rol(a, b % Xlen, Xlen) \in Words
  BY <1>2, RotationType
<1>10. Flag(Signed(a) < Signed(b)) \in Words /\ Flag(a < b) \in Words
  BY FlagType
<1>. QED BY <1>7, <1>8, <1>9, <1>10 DEF OpSums, p, s

\* A division that overflows kills the process or yields the word it is given.
LEMMA OverflowType ==
    ASSUME NEW a, NEW b, NEW width, NEW v \in Words
    PROVE  Overflow(a, b, width, v) \in Results
BY ResultSets DEF Overflow

\* ... OpQuotients, ...
LEMMA QuotientsType ==
    ASSUME NEW a \in Words, NEW b \in Words, NEW op \in DOMAIN OpQuotients(a, b)
    PROVE  OpQuotients(a, b)[op] \in Results
<1>. DEFINE n == b % Xlen
            p == 2 ^ n
            x == Signed(a)
            y == Signed(b)
<1>1. a \in Nat /\ b \in Nat /\ x \in Int /\ y \in Int /\ Size \in Nat \ {0}
  BY SignedType, ResultSets, Sizes
<1>2. n \in 0 .. Xlen /\ n \in Nat
  BY <1>1, Widths, DivisionType
<1>3. p \in Nat \ {0} /\ a \div p \in Words
  BY <1>2, ShiftType
<1>4. ASSUME b # 0 PROVE Overflow(x, y, Xlen, Wrap(Quotient(x, y))) \in Results
  <2>1. y # 0
    <3>1. Signed(b) % 2 ^ Xlen = b % 2 ^ Xlen
      BY <1>1, Widths, SignedInIs DEF Signed
    <3>2. b % Size = b
      BY Sizes, SmallRemainder
    <3>3. 0 % Size = 0
      <4>1. 0 \in 0 .. Size - 1
        BY Sizes
      <4>. QED BY <4>1, Sizes, SmallRemainder
    <3>. QED BY <1>4, <3>1, <3>2, <3>3 DEF Size
  <2>2. Quotient(x, y) \in Int
    <3>. HIDE DEF x, y
    <3>. QED BY <1>1, <2>1, QuotientType
  <2>. QED BY <2>2, WrapType, OverflowType
<1>5. a \div b \in Words \/ b = 0
  <2>1. CASE b # 0
    <3>1. a \div b \in 0 .. a
      <4>1. a \in Int /\ b \in Nat \ {0}
        BY <1>1, <2>1
      <4>. QED BY <1>1, <4>1, DivisionType, Zenon
    <3>. DEFINE q == a \div b
    <3>. HIDE DEF q
    <3>2. q \in 0 .. a
      BY <3>1 DEF q
    <3>3. q \in Words
      BY <1>1, <3>2, Sizes
    <3>. QED BY <3>3 DEF q
  <2>. QED BY <2>1
<1>6. Wrap(x \div p) \in Words
  <2>. HIDE DEF x, p
  <2>1. x \div p \in Int
    BY <1>1, <1>3, DivisionType
  <2>. QED BY <2>1, WrapType
<1>7. Ror(a, n, Xlen) \in Words
  BY <1>2, RotationType
<1>8. Xor(a, b) \in Words /\ Not(Xor(a, b)) \in Words
  BY BooleansType
<1>9. Wrap(4 * a + b) \in Words
  <2>1. 4 * a + b \in Int
    BY <1>1
  <2>. QED BY <2>1, WrapType
<1>10. Size - 1 \in Words /\ Words \subseteq Results /\ 0 \in Words
  BY ResultSets
<1>. DEFINE d == IF b = 0 THEN Size - 1 ELSE Overflow(x, y, Xlen, Wrap(Quotient(x, y)))
            du == IF b = 0 THEN Size - 1 ELSE a \div b
            s == a \div p
            t == Wrap(x \div p)
            r == Ror(a, n, Xlen)
            mn == IF y < x THEN b ELSE a
            mu == IF b < a THEN b ELSE a
            z == IF b = 0 THEN 0 ELSE a
            sh == Wrap(4 * a + b)
            xr == Xor(a, b)
            xn == Not(Xor(a, b))
<1>11. OpQuotients(a, b) = [xor |-> xr, div |-> d, min |-> mn, sh2add |-> sh, xnor |-> xn, srl |-> s,
            divu |-> du, minu |-> mu, czeqz |-> z, sra |-> t, ror |-> r]
  BY DEF OpQuotients
<1>12. /\ d \in Results /\ du \in Results /\ s \in Results /\ t \in Results /\ r \in Results
       /\ mn \in Results /\ mu \in Results /\ z \in Results
       /\ sh \in Results /\ xr \in Results /\ xn \in Results
  <2>1. d \in Results
    BY <1>4, <1>10
  <2>2. du \in Results
    BY <1>5, <1>10
  <2>. QED BY <1>3, <1>6, <1>7, <1>8, <1>9, <1>10, <2>1, <2>2
<1>. HIDE DEF d, du, s, t, r, mn, mu, z, sh, xr, xn
<1>. QED BY <1>11, <1>12

\* ... OpRemainders, ...
LEMMA RemaindersType ==
    ASSUME NEW a \in Words, NEW b \in Words, NEW op \in DOMAIN OpRemainders(a, b)
    PROVE  OpRemainders(a, b)[op] \in Results
<1>. DEFINE x == Signed(a)
            y == Signed(b)
<1>1. a \in Nat /\ b \in Nat /\ x \in Int /\ y \in Int /\ Size \in Nat \ {0}
  BY SignedType, ResultSets, Sizes
<1>4. ASSUME b # 0 PROVE Overflow(x, y, Xlen, Wrap(Remainder(x, y))) \in Results
  <2>1. y # 0
    <3>1. Signed(b) % 2 ^ Xlen = b % 2 ^ Xlen
      BY <1>1, Widths, SignedInIs DEF Signed
    <3>2. b % Size = b
      BY Sizes, SmallRemainder
    <3>3. 0 % Size = 0
      <4>1. 0 \in 0 .. Size - 1
        BY Sizes
      <4>. QED BY <4>1, Sizes, SmallRemainder
    <3>. QED BY <1>4, <3>1, <3>2, <3>3 DEF Size
  <2>2. Remainder(x, y) \in Int
    <3>. HIDE DEF x, y
    <3>. QED BY <1>1, <2>1, QuotientType
  <2>. QED BY <2>2, WrapType, OverflowType
<1>5. a % b \in Words \/ b = 0
  <2>1. CASE b # 0
    <3>. DEFINE q == a % b
    <3>1. q \in 0 .. b - 1
      BY <1>1, <2>1, DivisionNat
    <3>. HIDE DEF q
    <3>3. q \in Words
      BY <1>1, <3>1, Sizes
    <3>. QED BY <3>3 DEF q
  <2>. QED BY <2>1
<1>8. /\ Or(a, b) \in Words /\ And(a, b) \in Words
      /\ Or(a, Not(b)) \in Words /\ And(a, Not(b)) \in Words
  BY BooleansType
<1>9. Wrap(8 * a + b) \in Words
  <2>1. 8 * a + b \in Int
    BY <1>1
  <2>. QED BY <2>1, WrapType
<1>10. Size - 1 \in Words /\ Words \subseteq Results /\ 0 \in Words /\ Dead \in Results
  BY ResultSets
<1>. DEFINE d == IF b = 0 THEN Size - 1 ELSE Overflow(x, y, Xlen, Wrap(Remainder(x, y)))
            du == IF b # 0 THEN a % b ELSE IF host = "x86" THEN Dead ELSE a
            mn == IF x < y THEN b ELSE a
            mu == IF a < b THEN b ELSE a
            z == IF b # 0 THEN 0 ELSE a
            sh == Wrap(8 * a + b)
            o == Or(a, b)
            on == Or(a, Not(b))
            n == And(a, b)
            an == And(a, Not(b))
<1>11. OpRemainders(a, b) = [or |-> o, rem |-> d, max |-> mn, sh3add |-> sh, orn |-> on, and |-> n,
            remu |-> du, maxu |-> mu, cznez |-> z, andn |-> an]
  BY DEF OpRemainders
<1>12. /\ d \in Results /\ du \in Results /\ o \in Results /\ on \in Results /\ n \in Results
       /\ mn \in Results /\ mu \in Results /\ z \in Results /\ sh \in Results /\ an \in Results
  <2>1. d \in Results
    BY <1>4, <1>10
  <2>2. du \in Results
    BY <1>5, <1>10
  <2>. QED BY <1>8, <1>9, <1>10, <2>1, <2>2
<1>. HIDE DEF d, du, o, on, n, mn, mu, z, sh, an
<1>. QED BY <1>11, <1>12
\* A rotation of a 32-bit word.
LEMMA WordRotationType ==
    ASSUME NEW x \in 0 .. 2 ^ WordBits - 1, NEW n \in 0 .. WordBits
    PROVE  Ror(x, n, WordBits) \in Int /\ Rol(x, n, WordBits) \in Int
<1>1. WordBits \in Nat
  BY Widths
<1>. DEFINE W == 2 ^ WordBits
<1>2. Ror(x, n, WordBits) \in 0 .. W - 1 /\ Rol(x, n, WordBits) \in 0 .. W - 1 /\ W \in Nat
  BY <1>1, RotationIs, PowerType
<1>. HIDE DEF W
<1>. QED BY <1>2

\* Sign extension makes a word.
LEMMA SextType ==
    ASSUME NEW x \in Int
    PROVE  Sext(x) \in Words
BY SignedType

\* ... OpWord, ...
LEMMA OpWordType ==
    ASSUME NEW a \in Words, NEW b \in Words, NEW op \in DOMAIN OpWord(a, b)
    PROVE  OpWord(a, b)[op] \in Results
<1>. DEFINE n == b % WordBits
            p == 2 ^ n
            W == 2 ^ WordBits
            la == Low(a)
            lb == Low(b)
            x == SignedW(a)
            y == SignedW(b)
<1>1. a \in Nat /\ b \in Nat /\ x \in Int /\ y \in Int /\ Size \in Nat \ {0} /\ W \in Nat \ {0}
  BY SignedType, ResultSets, Sizes
<1>2. la \in 0 .. W - 1 /\ lb \in 0 .. W - 1
  BY <1>1, SignedType
<1>3. n \in 0 .. WordBits /\ n \in Nat /\ p \in Nat \ {0}
  <2>1. n \in 0 .. WordBits /\ n \in Nat
    <3>1. n \in 0 .. WordBits - 1 /\ WordBits \in Nat
      BY <1>1, Widths, DivisionNat
    <3>. HIDE DEF n
    <3>. QED BY <3>1
  <2>. QED BY <2>1, PowerType
<1>4. la \in Int /\ lb \in Int /\ la \in Nat /\ lb \in Nat
  BY <1>1, <1>2
<1>5. /\ a + b \in Int /\ la + b \in Int /\ la - lb \in Int
      /\ 2 * la + b \in Int /\ 4 * la + b \in Int /\ 8 * la + b \in Int
  BY <1>1, <1>4
<1>6. la * lb \in Int /\ la * p \in Int
  <2>. HIDE DEF la, lb, p
  <2>. QED BY <1>3, <1>4, SMTT(30)
<1>7. la \div p \in Int /\ x \div p \in Int
  <2>. HIDE DEF la, p, x
  <2>. QED BY <1>1, <1>3, <1>4, DivisionType
<1>8. Rol(la, n, WordBits) \in Int /\ Ror(la, n, WordBits) \in Int
  BY <1>2, <1>3, WordRotationType
<1>9. lb # 0 => y # 0
  <2>1. SignedW(b) % W = b % W
    BY <1>1, Widths, SignedInIs DEF SignedW
  <2>2. 0 % W = 0
    <3>1. 0 \in 0 .. W - 1
      BY <1>1
    <3>. QED BY <1>1, <3>1, SmallRemainder
  <2>. QED BY <2>1, <2>2 DEF Low
<1>10. lb # 0 => Overflow(x, y, WordBits, Sext(Quotient(x, y))) \in Results
  <2>. SUFFICES ASSUME lb # 0 PROVE Overflow(x, y, WordBits, Sext(Quotient(x, y))) \in Results
    OBVIOUS
  <2>1. Quotient(x, y) \in Int
    <3>. HIDE DEF x, y
    <3>. QED BY <1>1, <1>9, QuotientType
  <2>. QED BY <2>1, SextType, OverflowType
<1>11. lb # 0 => Overflow(x, y, WordBits, Sext(Remainder(x, y))) \in Results
  <2>. SUFFICES ASSUME lb # 0 PROVE Overflow(x, y, WordBits, Sext(Remainder(x, y))) \in Results
    OBVIOUS
  <2>1. Remainder(x, y) \in Int
    <3>. HIDE DEF x, y
    <3>. QED BY <1>1, <1>9, QuotientType
  <2>. QED BY <2>1, SextType, OverflowType
<1>12. lb # 0 => la \div lb \in Int /\ la % lb \in Int
  <2>. HIDE DEF la, lb
  <2>. QED BY <1>4, DivisionType
<1>13. a % 2 ^ HalfBits \in Words
  BY Widths, ShiftType
<1>14. Size - 1 \in Words /\ Words \subseteq Results
  BY ResultSets
<1>. DEFINE addw == Sext(a + b)
            mulw == Sext(la * lb)
            adduw == Wrap(la + b)
            subw == Sext(la - lb)
            sllw == Sext(la * p)
            rolw == Sext(Rol(la, n, WordBits))
            divw == IF lb = 0 THEN Size - 1 ELSE Overflow(x, y, WordBits, Sext(Quotient(x, y)))
            srlw == Sext(la \div p)
            divuw == IF lb = 0 THEN Size - 1 ELSE Sext(la \div lb)
            sh1adduw == Wrap(2 * la + b)
            zexth == a % 2 ^ HalfBits
            sh2adduw == Wrap(4 * la + b)
            rorw == Sext(Ror(la, n, WordBits))
            sh3adduw == Wrap(8 * la + b)
            sraw == Wrap(x \div p)
            remw == IF lb = 0 THEN Size - 1 ELSE Overflow(x, y, WordBits, Sext(Remainder(x, y)))
            remuw == IF lb = 0 THEN Size - 1 ELSE Sext(la % lb)
<1>15. OpWord(a, b) =
        [addw |-> addw, mulw |-> mulw, adduw |-> adduw, subw |-> subw, sllw |-> sllw, rolw |-> rolw,
         divw |-> divw, srlw |-> srlw, divuw |-> divuw, sh1adduw |-> sh1adduw, zexth |-> zexth,
         sh2adduw |-> sh2adduw, rorw |-> rorw, sh3adduw |-> sh3adduw, sraw |-> sraw, remw |-> remw,
         remuw |-> remuw]
  BY Zenon DEF OpWord
<1>16. /\ addw \in Results /\ mulw \in Results /\ adduw \in Results /\ subw \in Results /\ sllw \in Results
       /\ rolw \in Results /\ sh1adduw \in Results /\ zexth \in Results /\ sh2adduw \in Results
       /\ srlw \in Results /\ rorw \in Results /\ sh3adduw \in Results /\ sraw \in Results
  <2>. HIDE DEF la, lb, n, p, x, y
  <2>1. addw \in Words /\ mulw \in Words /\ subw \in Words /\ sllw \in Words /\ rolw \in Words
        /\ srlw \in Words /\ rorw \in Words
    BY <1>5, <1>6, <1>7, <1>8, SextType
  <2>2. adduw \in Words /\ sh1adduw \in Words /\ sh2adduw \in Words /\ sh3adduw \in Words /\ sraw \in Words
    BY <1>5, <1>7, WrapType
  <2>3. zexth \in Words
    BY <1>13
  <2>. HIDE DEF addw, mulw, subw, sllw, rolw, srlw, rorw, adduw, sh1adduw, sh2adduw, sh3adduw, sraw, zexth
  <2>. QED BY <1>14, <2>1, <2>2, <2>3
<1>17. divw \in Results /\ remw \in Results
  <2>. HIDE DEF la, lb, x, y
  <2>. QED BY <1>10, <1>11, <1>14
<1>18. divuw \in Results /\ remuw \in Results
  <2>. HIDE DEF la, lb
  <2>1. lb # 0 => Sext(la \div lb) \in Words /\ Sext(la % lb) \in Words
    BY <1>12, SextType
  <2>. QED BY <1>14, <2>1
<1>. HIDE DEF addw, mulw, adduw, subw, sllw, rolw, divw, srlw, divuw, sh1adduw, zexth, sh2adduw, rorw,
              sh3adduw, sraw, remw, remuw
<1>. QED BY <1>15, <1>16, <1>17, <1>18

\* ... OpImm, ...
LEMMA OpImmType ==
    ASSUME NEW a \in Words, NEW i \in Words, NEW op \in DOMAIN OpImm(a, i)
    PROVE  OpImm(a, i)[op] \in Results
<1>. DEFINE n == i % Xlen
            p == 2 ^ n
            x == Signed(a)
<1>1. a \in Nat /\ i \in Nat /\ x \in Int
  BY SignedType, ResultSets
<1>2. n \in 0 .. Xlen /\ n \in Nat
  BY <1>1, Widths, DivisionType
<1>3. p \in Nat \ {0} /\ a \div p \in Words
  BY <1>2, ShiftType
<1>4. Wrap(a + i) \in Words
  <2>1. a + i \in Int
    BY <1>1
  <2>. QED BY <2>1, WrapType
<1>5. Wrap(a * p) \in Words /\ Wrap(x \div p) \in Words
  <2>. HIDE DEF x, p
  <2>1. x \div p \in Int
    BY <1>1, <1>3, DivisionType
  <2>2. a * p \in Int
    BY <1>1, <1>3, SMTT(30)
  <2>. QED BY <2>1, <2>2, WrapType
<1>6. Ror(a, n, Xlen) \in Words
  BY <1>2, RotationType
<1>7. Xor(a, i) \in Words /\ Or(a, i) \in Words /\ And(a, i) \in Words
  BY BooleansType
<1>8. Flag(x < Signed(i)) \in Words /\ Flag(a < i) \in Words /\ Words \subseteq Results
  BY ResultSets, FlagType
<1>. DEFINE addi == Wrap(a + i)
            slli == Wrap(a * p)
            slti == Flag(x < Signed(i))
            sltiu == Flag(a < i)
            xori == Xor(a, i)
            srli == a \div p
            srai == Wrap(x \div p)
            rori == Ror(a, n, Xlen)
            ori == Or(a, i)
            andi == And(a, i)
<1>9. OpImm(a, i) = [addi |-> addi, slli |-> slli, slti |-> slti, sltiu |-> sltiu, xori |-> xori,
            srli |-> srli, srai |-> srai, rori |-> rori, ori |-> ori, andi |-> andi]
  BY DEF OpImm
<1>10. /\ addi \in Results /\ slli \in Results /\ slti \in Results /\ sltiu \in Results /\ xori \in Results
       /\ srli \in Results /\ srai \in Results /\ rori \in Results /\ ori \in Results /\ andi \in Results
  BY <1>3, <1>4, <1>5, <1>6, <1>7, <1>8
<1>. HIDE DEF addi, slli, slti, sltiu, xori, srli, srai, rori, ori, andi
<1>. QED BY <1>9, <1>10

\* The places of the highest and lowest bits and their number, in a part of
\* a word.
LEMMA PlacesOfBits ==
    ASSUME NEW p \in 0 .. Xlen, NEW x \in 0 .. 2 ^ p - 1
    PROVE  /\ Cardinality(Bits[x]) \in Words
           /\ x # 0 => p - 1 - Max(Bits[x]) \in Words /\ Min(Bits[x]) \in Words
<1>1. p \in Nat /\ Bits[x] \in SUBSET (0 .. p - 1) /\ (x # 0 => Bits[x] # {})
  BY Widths, BitsBelow
<1>2. Cardinality(Bits[x]) \in 0 .. p
  BY <1>1, CountType
<1>3. x # 0 => Max(Bits[x]) \in 0 .. p - 1 /\ Min(Bits[x]) \in 0 .. p - 1
  BY <1>1, LeastAndGreatest
<1>. DEFINE c == Cardinality(Bits[x])
            h == Max(Bits[x])
            l == Min(Bits[x])
<1>. HIDE DEF c, h, l
<1>4. c \in 0 .. p /\ (x # 0 => h \in 0 .. p - 1 /\ l \in 0 .. p - 1)
  BY <1>2, <1>3 DEF c, h, l
<1>5. c \in 0 .. Xlen /\ (x # 0 => p - 1 - h \in 0 .. Xlen /\ l \in 0 .. Xlen)
  BY <1>1, <1>4, Widths
<1>6. c \in Words /\ (x # 0 => p - 1 - h \in Words /\ l \in Words)
  BY <1>5, ResultSets
<1>. QED BY <1>6 DEF c, h, l

\* ... OpUnary ...
LEMMA OpUnaryType ==
    ASSUME NEW a \in Words, NEW op \in DOMAIN OpUnary(a)
    PROVE  OpUnary(a)[op] \in Words
<1>0. Xlen \in Nat /\ Xlen \in 0 .. Xlen /\ a \in 0 .. 2 ^ Xlen - 1 /\ a \in Int
  BY Widths, Sizes DEF Size
<1>. DEFINE clz == IF a = 0 THEN Size - 1 ELSE Xlen - 1 - Max(Bits[a])
            ctz == IF a = 0 THEN Size - 1 ELSE Min(Bits[a])
            cpop == Cardinality(Bits[a])
            sextb == Wrap(SignedIn(a, ByteBits))
            sexth == Wrap(SignedIn(a, HalfBits))
            ob == [k \in Bytes |-> IF Byte(a, k) = 0 THEN 0 ELSE 2 ^ ByteBits - 1]
            rb == [k \in Bytes |-> Byte(a, Xlen \div ByteBits - 1 - k)]
            orcb == FromBytes(ob)
            rev8 == FromBytes(rb)
<1>1. clz \in Words /\ ctz \in Words /\ cpop \in Words
  BY <1>0, PlacesOfBits, ResultSets
<1>2. sextb \in Words /\ sexth \in Words
  BY <1>0, SignedType, WrapType
<1>3. orcb \in Words
  <2>. DEFINE B == 2 ^ ByteBits
  <2>1. B \in Nat \ {0}
    BY Widths, PowerType
  <2>. HIDE DEF B
  <2>2. 0 \in 0 .. B - 1 /\ B - 1 \in 0 .. B - 1
    BY <2>1
  <2>3. ob \in [Bytes -> 0 .. B - 1]
    BY <2>2 DEF B
  <2>. HIDE DEF ob
  <2>. QED BY <2>3, BytesOfWord DEF B
<1>4. rev8 \in Words
  <2>1. \A k \in Bytes : Xlen \div ByteBits - 1 - k \in Bytes
    <3>. DEFINE n == Xlen \div ByteBits
    <3>1. n \in Nat /\ Bytes = 0 .. n - 1
      BY Widths DEF Bytes
    <3>. HIDE DEF n
    <3>2. \A k \in Bytes : n - 1 - k \in Bytes
      BY <3>1
    <3>. QED BY <3>2 DEF n
  <2>2. rb \in [Bytes -> 0 .. 2 ^ ByteBits - 1]
    BY <2>1, WordOfBytes
  <2>. HIDE DEF rb
  <2>. QED BY <2>2, BytesOfWord
<1>5. OpUnary(a) = [clz |-> clz, ctz |-> ctz, cpop |-> cpop, sextb |-> sextb, sexth |-> sexth,
            orcb |-> orcb, rev8 |-> rev8]
  BY Zenon DEF OpUnary
<1>. HIDE DEF clz, ctz, cpop, sextb, sexth, orcb, rev8
<1>. QED BY <1>1, <1>2, <1>3, <1>4, <1>5

\* ... and OpWordImm.
LEMMA OpWordImmType ==
    ASSUME NEW a \in Words, NEW i \in Words, NEW op \in DOMAIN OpWordImm(a, i)
    PROVE  OpWordImm(a, i)[op] \in Results
<1>. DEFINE n == i % WordBits
            p == 2 ^ n
            W == 2 ^ WordBits
            la == Low(a)
            x == SignedW(a)
<1>1. a \in Nat /\ i \in Nat /\ x \in Int /\ W \in Nat \ {0} /\ la \in 0 .. W - 1
  BY SignedType, ResultSets, Sizes
<1>2. n \in 0 .. WordBits /\ n \in Nat /\ p \in Nat \ {0}
  <2>1. n \in 0 .. WordBits /\ n \in Nat
    <3>1. n \in 0 .. WordBits - 1 /\ WordBits \in Nat
      BY <1>1, Widths, DivisionNat
    <3>. HIDE DEF n
    <3>. QED BY <3>1
  <2>. QED BY <2>1, PowerType
<1>3. la \in Int /\ la + i \in Int
  BY <1>1
<1>4. la * p \in Int /\ la \div p \in Int /\ x \div p \in Int
  <2>. HIDE DEF la, p, x
  <2>. QED BY <1>1, <1>2, <1>3, DivisionType, SMTT(30)
<1>5. Ror(la, n, WordBits) \in Int
  BY <1>1, <1>2, WordRotationType
<1>. DEFINE addiw == Sext(la + i)
            slliw == Sext(la * p)
            slliuw == Wrap(la * p)
            srliw == Sext(la \div p)
            sraiw == Wrap(x \div p)
            roriw == Sext(Ror(la, n, WordBits))
            clzw == IF la = 0 THEN Size - 1 ELSE WordBits - 1 - Max(Bits[la])
            ctzw == IF la = 0 THEN Size - 1 ELSE Min(Bits[la])
            cpopw == IF la = 0 THEN Size - 1 ELSE Cardinality(Bits[la])
<1>6. addiw \in Words /\ slliw \in Words /\ srliw \in Words /\ roriw \in Words
  <2>. HIDE DEF la, n, p
  <2>. QED BY <1>3, <1>4, <1>5, SextType
<1>7. slliuw \in Words /\ sraiw \in Words
  <2>. HIDE DEF la, x, p
  <2>. QED BY <1>4, WrapType
<1>8. clzw \in Words /\ ctzw \in Words /\ cpopw \in Words
  <2>1. WordBits \in 0 .. Xlen
    BY Widths
  <2>. HIDE DEF la
  <2>. QED BY <1>1, <2>1, PlacesOfBits, ResultSets
<1>9. OpWordImm(a, i) = [addiw |-> addiw, slliw |-> slliw, slliuw |-> slliuw, srliw |-> srliw,
            sraiw |-> sraiw, roriw |-> roriw, clzw |-> clzw, ctzw |-> ctzw, cpopw |-> cpopw]
  BY Zenon DEF OpWordImm
<1>. HIDE DEF addiw, slliw, slliuw, srliw, sraiw, roriw, clzw, ctzw, cpopw
<1>10. Words \subseteq Results
  BY ResultSets
<1>. QED BY <1>6, <1>7, <1>8, <1>9, <1>10
-----------------------------------------------------------------------------
(* Type correctness of the registers and memory.                           *)

Halves == 0 .. 2 ^ WordBits - 1

\* The halves of a doubleword are its two parts.
LEMMA WordIs ==
    ASSUME NEW x \in Words
    PROVE  /\ Word(x, 0) = x % 2 ^ WordBits /\ Word(x, 1) = x \div 2 ^ WordBits
           /\ Word(x, 0) \in Halves /\ Word(x, 1) \in Halves
           /\ x = Join(Word(x, 1), Word(x, 0), WordBits)
<1>. DEFINE W == 2 ^ WordBits
<1>1. /\ WordBits \in 0 .. Xlen /\ Xlen - WordBits = WordBits /\ Xlen \in Nat /\ W \in Nat \ {0}
      /\ x \in 0 .. 2 ^ Xlen - 1
  BY Widths, Sizes DEF Size
<1>2. x \div W \in 0 .. W - 1 /\ x % W \in 0 .. W - 1 /\ x = Join(x \div W, x % W, WordBits)
  BY <1>1, SplitIs
<1>3. 0 * WordBits = 0 /\ 1 * WordBits = WordBits /\ 2 ^ 0 = 1
  BY Widths
<1>4. Word(x, 0) = x % W
  <2>1. x \div 1 = x
    BY Sizes
  <2>. QED BY <1>3, <2>1 DEF Word, Low
<1>5. Word(x, 1) = x \div W
  <2>1. Word(x, 1) = (x \div W) % W
    BY <1>3 DEF Word, Low
  <2>. DEFINE q == x \div W
  <2>. HIDE DEF q, W
  <2>2. q % W = q
    BY <1>1, <1>2, SmallRemainder DEF q
  <2>. QED BY <2>1, <2>2 DEF q
<1>. QED BY <1>2, <1>4, <1>5 DEF Halves

\* A store to a half replaces that part.
LEMMA WithWordIs ==
    ASSUME NEW x \in Words, NEW w \in Halves
    PROVE  /\ WithWord(x, 0, w) = Join(Word(x, 1), w, WordBits)
           /\ WithWord(x, 1, w) = Join(w, Word(x, 0), WordBits)
           /\ WithWord(x, 0, w) \in Words /\ WithWord(x, 1, w) \in Words
<1>. DEFINE W == 2 ^ WordBits
            h == Word(x, 1)
            l == Word(x, 0)
<1>1. /\ WordBits \in 0 .. Xlen /\ Xlen - WordBits = WordBits /\ Xlen \in Nat /\ W \in Nat \ {0}
      /\ 0 * WordBits = 0 /\ 1 * WordBits = WordBits /\ 2 ^ 0 = 1
  BY Widths, Sizes
<1>2. h \in 0 .. W - 1 /\ l \in 0 .. W - 1 /\ w \in 0 .. W - 1 /\ x = h * W + l
  BY WordIs DEF Halves, Join
<1>3. WithWord(x, 0, w) = x - l * 1 + w * 1 /\ WithWord(x, 1, w) = x - h * W + w * W
  BY <1>1, Zenon DEF WithWord
<1>4. Join(h, w, WordBits) = h * W + w /\ Join(w, l, WordBits) = w * W + l
  BY DEF Join
<1>5. Join(h, w, WordBits) \in Words /\ Join(w, l, WordBits) \in Words
  BY <1>1, <1>2, JoinIs DEF Words, Size
<1>6. h * W \in Int /\ w * W \in Int /\ h \in Int /\ l \in Int /\ w \in Int
  <2>. HIDE DEF h, l, W
  <2>. QED BY <1>1, <1>2, SMTT(30)
<1>7. WithWord(x, 0, w) = h * W + w /\ WithWord(x, 1, w) = w * W + l
  <2>. DEFINE hw == h * W
              ww == w * W
  <2>. HIDE DEF hw, ww, h, l
  <2>1. x = hw + l /\ hw \in Int /\ ww \in Int /\ l \in Int /\ w \in Int
    BY <1>2, <1>6 DEF hw, ww
  <2>2. x - l * 1 + w * 1 = hw + w /\ x - hw + ww = ww + l
    BY <2>1
  <2>. QED BY <1>3, <2>2 DEF hw, ww
<1>. QED BY <1>4, <1>5, <1>7

\* An AMO leaves a word in memory and returns one: on halves ...
LEMMA AmoWordType ==
    ASSUME NEW w \in Halves, NEW b \in Words, NEW op \in DOMAIN AmoWord(0, 0)
    PROVE  AmoWord(w, b)[op] \in Halves /\ AmoWordResult(op, w) \in Words
<1>. DEFINE W == 2 ^ WordBits
<1>1. /\ Words = 0 .. Size - 1 /\ Size \in Nat /\ W \in Nat /\ W <= Size
      /\ w \in 0 .. W - 1
  BY Sizes DEF Halves
<1>2. w \in Words /\ w \in Int /\ b \in Int /\ w + b \in Int
  <2>. HIDE DEF W
  <2>. QED BY <1>1
<1>3. \A x \in Int : Low(x) \in Halves
  BY SignedType DEF Halves
<1>4. Or(w, b) \in Int /\ And(w, b) \in Int
  <2>1. Or(w, b) \in Words /\ And(w, b) \in Words
    BY <1>2, BooleansType, Zenon
  <2>2. \A x \in Words : x \in Int
    BY ResultSets
  <2>. QED BY <2>1, <2>2, Zenon
<1>. DEFINE add == Low(w + b)
            swap == Low(b)
            or == Low(Or(w, b))
            and == Low(And(w, b))
            maxu == IF w < Low(b) THEN Low(b) ELSE w
<1>5. add \in Halves /\ swap \in Halves /\ or \in Halves /\ and \in Halves /\ maxu \in Halves
  BY <1>2, <1>3, <1>4
<1>6. AmoWord(w, b) = [add |-> add, swap |-> swap, or |-> or, and |-> and, maxu |-> maxu]
  BY DEF AmoWord
<1>7. DOMAIN AmoWord(0, 0) = {"add", "swap", "or", "and", "maxu"}
  BY DEF AmoWord
<1>8. AmoWordResult(op, w) \in Words
  BY <1>2, SextType DEF AmoWordResult
<1>. HIDE DEF add, swap, or, and, maxu
<1>. QED BY <1>5, <1>6, <1>7, <1>8

\* ... and on doublewords.
LEMMA AmoDoubleType ==
    ASSUME NEW x \in Words, NEW b \in Words, NEW op \in DOMAIN AmoDouble(0, 0)
    PROVE  AmoDouble(x, b)[op] \in Words
<1>1. x + b \in Int
  BY ResultSets
<1>. DEFINE add == Wrap(x + b)
            xor == Xor(x, b)
            or == Or(x, b)
            and == And(x, b)
            maxu == IF b < x THEN x ELSE b
<1>2. add \in Words /\ xor \in Words /\ or \in Words /\ and \in Words /\ maxu \in Words
  BY <1>1, WrapType, BooleansType
<1>3. AmoDouble(x, b) = [add |-> add, swap |-> b, xor |-> xor, or |-> or, and |-> and, maxu |-> maxu]
  BY DEF AmoDouble
<1>4. DOMAIN AmoDouble(0, 0) = {"add", "swap", "xor", "or", "and", "maxu"}
  BY DEF AmoDouble
<1>. HIDE DEF add, xor, or, and, maxu
<1>. QED BY <1>2, <1>3, <1>4

RegsType(g) == g \in [Regs -> Words] /\ g[0] = 0

\* Writing a word to a register keeps the type.
LEMMA RegisterWriteType ==
    ASSUME RegsType(gpr), NEW rd \in Regs, NEW v \in Words, Write(rd, v)
    PROVE  RegsType(gpr')
<1>1. CASE rd = 0
  BY <1>1 DEF Write, RegsType
<1>2. CASE rd # 0
  <2>1. gpr' = [gpr EXCEPT ![rd] = v]
    BY <1>2, Zenon DEF Write
  <2>. QED BY <1>2, <2>1 DEF RegsType
<1>. QED BY <1>1, <1>2

\* An instruction writes a word, or ends the process.
LEMMA ExecuteType ==
    ASSUME TypeOK, NEW rd \in Regs, NEW results, \A op \in DOMAIN results : results[op] \in Results,
           Execute(rd, results)
    PROVE  RegsType(gpr') /\ pc' \in Words /\ alive' \in BOOLEAN
<1>1. PICK op \in DOMAIN results :
        /\ alive' = (rd = 0 \/ results[op] # Dead)
        /\ IF alive' THEN Write(rd, results[op]) /\ pc' = Wrap(pc + 4) ELSE UNCHANGED <<gpr, pc>>
  BY Zenon DEF Execute
<1>2. RegsType(gpr) /\ pc \in Words
  BY DEF TypeOK, RegsType
<1>3. alive' \in BOOLEAN
  BY <1>1, Zenon
<1>4. CASE ~alive'
  BY <1>1, <1>2, <1>3, <1>4
<1>5. CASE alive'
  <2>1. Write(rd, results[op]) /\ pc' = Wrap(pc + 4) /\ (rd = 0 \/ results[op] # Dead)
    BY <1>1, <1>5, Zenon
  <2>2. pc' \in Words
    <3>1. pc + 4 \in Int
      BY <1>2, ResultSets
    <3>. QED BY <2>1, <3>1, WrapType
  <2>3. RegsType(gpr')
    <3>1. CASE rd = 0
      BY <1>2, <2>1, <3>1 DEF Write
    <3>2. CASE rd # 0
      <4>1. results[op] \in Words
        BY <2>1, <3>2 DEF Results
      <4>. QED BY <1>2, <2>1, <4>1, RegisterWriteType
    <3>. QED BY <3>1, <3>2
  <2>. QED BY <1>3, <2>2, <2>3
<1>. QED BY <1>3, <1>4, <1>5

\* A branch leaves the registers.
LEMMA BranchType ==
    ASSUME TypeOK, NEW a, NEW b, Branch(a, b)
    PROVE  RegsType(gpr') /\ pc' \in Words /\ alive' \in BOOLEAN
<1>1. PICK op \in DOMAIN Taken(a, b), off \in Offsets :
        pc' = Wrap(pc + (IF Taken(a, b)[op] THEN off ELSE 4))
  BY Zenon DEF Branch
<1>2. gpr' = gpr /\ alive' = alive
  BY DEF Branch
<1>3. (IF Taken(a, b)[op] THEN off ELSE 4) \in Int
  BY ValuesAssumption, ResultSets
<1>. DEFINE d == IF Taken(a, b)[op] THEN off ELSE 4
<1>. HIDE DEF d
<1>4. pc + d \in Int
  BY <1>3, ResultSets DEF TypeOK, d
<1>5. pc' = Wrap(pc + d)
  BY <1>1, Zenon DEF d
<1>. QED BY <1>2, <1>4, <1>5, WrapType DEF TypeOK, RegsType

\* Integer instructions keep the type, ...
LEMMA IntegerType ==
    ASSUME TypeOK, Next
    PROVE  TypeOK'
<1>1. steps' \in 0 .. MaxSteps /\ host' \in Hosts
  BY ValuesAssumption DEF TypeOK, Next
<1>2. \A r \in Regs : gpr[r] \in Words
  BY DEF TypeOK
<1>3. PICK rd \in Regs, rs1 \in Regs, rs2 \in Regs :
        \/ Execute(rd, OpSums(gpr[rs1], gpr[rs2]))
        \/ Execute(rd, OpQuotients(gpr[rs1], gpr[rs2]))
        \/ Execute(rd, OpRemainders(gpr[rs1], gpr[rs2]))
        \/ Execute(rd, OpWord(gpr[rs1], gpr[rs2]))
        \/ Execute(rd, OpUnary(gpr[rs1]))
        \/ \E i \in Imms : Execute(rd, OpImm(gpr[rs1], i)) \/ Execute(rd, OpWordImm(gpr[rs1], i))
        \/ Branch(gpr[rs1], gpr[rs2])
  BY Zenon DEF Next
<1>. DEFINE a == gpr[rs1]
            b == gpr[rs2]
            Good == RegsType(gpr') /\ pc' \in Words /\ alive' \in BOOLEAN
<1>4. a \in Words /\ b \in Words
  BY <1>2
<1>. HIDE DEF a, b, Good
<1>. SUFFICES Good
  BY <1>1 DEF TypeOK, RegsType, Good
<1>5. ASSUME NEW results, \A op \in DOMAIN results : results[op] \in Results, Execute(rd, results)
      PROVE  Good
  <2>1. RegsType(gpr') /\ pc' \in Words /\ alive' \in BOOLEAN
    BY <1>5, ExecuteType, Zenon
  <2>. QED BY <2>1, Zenon DEF Good
<1>6. CASE Execute(rd, OpSums(a, b))
  <2>1. \A op \in DOMAIN OpSums(a, b) : OpSums(a, b)[op] \in Results
    BY <1>4, SumsType, ResultSets
  <2>. QED BY <1>5, <1>6, <2>1
<1>7. CASE Execute(rd, OpQuotients(a, b))
  <2>1. \A op \in DOMAIN OpQuotients(a, b) : OpQuotients(a, b)[op] \in Results
    BY <1>4, QuotientsType
  <2>. QED BY <1>5, <1>7, <2>1
<1>8. CASE Execute(rd, OpRemainders(a, b))
  <2>1. \A op \in DOMAIN OpRemainders(a, b) : OpRemainders(a, b)[op] \in Results
    BY <1>4, RemaindersType
  <2>. QED BY <1>5, <1>8, <2>1
<1>9. CASE Execute(rd, OpWord(a, b))
  <2>1. \A op \in DOMAIN OpWord(a, b) : OpWord(a, b)[op] \in Results
    BY <1>4, OpWordType
  <2>. QED BY <1>5, <1>9, <2>1
<1>10. CASE Execute(rd, OpUnary(a))
  <2>1. \A op \in DOMAIN OpUnary(a) : OpUnary(a)[op] \in Results
    BY <1>4, OpUnaryType, ResultSets
  <2>. QED BY <1>5, <1>10, <2>1
<1>11. ASSUME NEW i \in Imms, Execute(rd, OpImm(a, i)) \/ Execute(rd, OpWordImm(a, i))
       PROVE  Good
  <2>1. i \in Words
    BY ValuesAssumption
  <2>2. \A op \in DOMAIN OpImm(a, i) : OpImm(a, i)[op] \in Results
    BY <1>4, <2>1, OpImmType
  <2>3. \A op \in DOMAIN OpWordImm(a, i) : OpWordImm(a, i)[op] \in Results
    BY <1>4, <2>1, OpWordImmType
  <2>. QED BY <1>5, <1>11, <2>2, <2>3
<1>12. CASE Branch(a, b)
  BY <1>12, BranchType DEF Good
<1>. QED BY <1>3, <1>6, <1>7, <1>8, <1>9, <1>10, <1>11, <1>12, Zenon DEF a, b

\* What an instruction that ends does beside its result.
LEMMA RetireType ==
    ASSUME TypeOK, Retire
    PROVE  pc' \in Words /\ host' \in Hosts /\ alive' \in BOOLEAN /\ steps' \in 0 .. MaxSteps
<1>1. pc + 4 \in Int
  BY ResultSets DEF TypeOK
<1>. QED BY <1>1, WrapType, ValuesAssumption DEF TypeOK, Retire

\* ... and so do the AMOs, ...
LEMMA AmoType ==
    ASSUME AtomicTypeOK, NEW rd \in Regs, NEW b \in Words, NEW l \in Lines, Amo(rd, b, l)
    PROVE  AtomicTypeOK'
<1>1. TypeOK /\ mem \in [Lines -> Words] /\ llsc_addr \in Lines /\ mem[l] \in Words /\ RegsType(gpr)
  BY DEF AtomicTypeOK, TypeOK, RegsType
<1>2. Retire /\ llsc_addr' = llsc_addr
  BY DEF Amo
<1>3. PICK v \in Words, r \in Words : mem' = [mem EXCEPT ![l] = v] /\ Write(rd, r)
  <2>1. ASSUME NEW h \in {0, 1}, NEW op \in DOMAIN AmoWord(0, 0),
               mem' = [mem EXCEPT ![l] = WithWord(@, h, AmoWord(Word(mem[l], h), b)[op])],
               Write(rd, AmoWordResult(op, Word(mem[l], h)))
        PROVE  \E v \in Words, r \in Words : mem' = [mem EXCEPT ![l] = v] /\ Write(rd, r)
    <3>. DEFINE w == Word(mem[l], h)
    <3>1. w \in Halves
      BY <1>1, WordIs
    <3>. HIDE DEF w
    <3>2. AmoWord(w, b)[op] \in Halves /\ AmoWordResult(op, w) \in Words
      BY <3>1, AmoWordType
    <3>3. WithWord(mem[l], h, AmoWord(w, b)[op]) \in Words
      BY <1>1, <3>2, WithWordIs
    <3>4. mem' = [mem EXCEPT ![l] = WithWord(mem[l], h, AmoWord(w, b)[op])]
      BY <1>1, <2>1, Zenon DEF w
    <3>5. Write(rd, AmoWordResult(op, w))
      BY <2>1 DEF w
    <3>. QED BY <3>2, <3>3, <3>4, <3>5, Zenon
  <2>2. ASSUME NEW op \in DOMAIN AmoDouble(0, 0),
               mem' = [mem EXCEPT ![l] = AmoDouble(@, b)[op]], Write(rd, mem[l])
        PROVE  \E v \in Words, r \in Words : mem' = [mem EXCEPT ![l] = v] /\ Write(rd, r)
    <3>1. AmoDouble(mem[l], b)[op] \in Words
      BY <1>1, AmoDoubleType
    <3>2. mem' = [mem EXCEPT ![l] = AmoDouble(mem[l], b)[op]]
      BY <1>1, <2>2, Zenon
    <3>. QED BY <1>1, <2>2, <3>1, <3>2, Zenon
  <2>. QED BY <2>1, <2>2, Zenon DEF Amo
<1>4. RegsType(gpr')
  BY <1>1, <1>3, RegisterWriteType
<1>5. mem' \in [Lines -> Words]
  BY <1>1, <1>3
<1>. QED BY <1>1, <1>2, <1>4, <1>5, RetireType DEF AtomicTypeOK, TypeOK, RegsType

\* ... lr and sc ...
LEMMA LrScType ==
    ASSUME AtomicTypeOK, NEW rd \in Regs, NEW b \in Words, NEW l \in Lines, Lr(rd, l) \/ Sc(rd, b, l)
    PROVE  AtomicTypeOK'
<1>1. TypeOK /\ mem \in [Lines -> Words] /\ llsc_addr \in Lines /\ mem[l] \in Words /\ RegsType(gpr)
  BY DEF AtomicTypeOK, TypeOK, RegsType
<1>2. Retire
  BY DEF Lr, Sc
<1>3. CASE Lr(rd, l)
  <2>1. mem' = mem /\ llsc_addr' = l
    BY <1>3 DEF Lr
  <2>2. PICK r \in Words : Write(rd, r)
    <3>1. \A h \in {0, 1} : Word(mem[l], h) \in Int
      <4>1. \A h \in {0, 1} : Word(mem[l], h) \in 0 .. 2 ^ WordBits - 1
        BY <1>1, WordIs DEF Halves
      <4>. DEFINE W == 2 ^ WordBits
      <4>2. W \in Nat /\ \A h \in {0, 1} : Word(mem[l], h) \in 0 .. W - 1
        BY <4>1, Sizes
      <4>. HIDE DEF W
      <4>. QED BY <4>2
    <3>2. \A h \in {0, 1} : Sext(Word(mem[l], h)) \in Words
      BY <3>1, SextType
    <3>. QED BY <1>1, <1>3, <3>2, Zenon DEF Lr
  <2>3. RegsType(gpr')
    BY <1>1, <2>2, RegisterWriteType
  <2>. QED BY <1>1, <1>2, <2>1, <2>3, RetireType DEF AtomicTypeOK, TypeOK, RegsType
<1>4. CASE Sc(rd, b, l)
  <2>1. llsc_addr' = llsc_addr
    BY <1>4 DEF Sc
  <2>2. mem' \in [Lines -> Words] /\ RegsType(gpr')
    <3>1. CASE llsc_addr = l
      <4>1. /\ Write(rd, 0)
            /\ \/ \E h \in {0, 1} : mem' = [mem EXCEPT ![l] = WithWord(@, h, Low(b))]
               \/ mem' = [mem EXCEPT ![l] = b]
        BY <1>4, <3>1, Zenon DEF Sc
      <4>2. Low(b) \in Halves
        BY SignedType, ResultSets DEF Halves
      <4>3. \A h \in {0, 1} : WithWord(mem[l], h, Low(b)) \in Words
        BY <1>1, <4>2, WithWordIs
      <4>4. mem' \in [Lines -> Words]
        <5>1. CASE mem' = [mem EXCEPT ![l] = b]
          BY <1>1, <5>1
        <5>2. ASSUME NEW h \in {0, 1}, mem' = [mem EXCEPT ![l] = WithWord(@, h, Low(b))]
              PROVE  mem' \in [Lines -> Words]
          <6>. DEFINE v == WithWord(mem[l], h, Low(b))
          <6>1. mem' = [mem EXCEPT ![l] = v]
            BY <1>1, <5>2, Zenon
          <6>2. v \in Words
            BY <4>3
          <6>. HIDE DEF v
          <6>. QED BY <1>1, <6>1, <6>2
        <5>. QED BY <4>1, <5>1, <5>2
      <4>5. RegsType(gpr')
        <5>1. 0 \in Words
          BY ResultSets
        <5>. QED BY <1>1, <4>1, <5>1, RegisterWriteType, Zenon
      <4>. QED BY <4>4, <4>5
    <3>2. CASE llsc_addr # l
      <4>1. mem' = mem /\ Write(rd, 1)
        BY <1>4, <3>2, Zenon DEF Sc
      <4>. QED BY <1>1, <4>1, RegisterWriteType, ResultSets
    <3>. QED BY <3>1, <3>2
  <2>. QED BY <1>1, <1>2, <2>1, <2>2, RetireType DEF AtomicTypeOK, TypeOK, RegsType
<1>. QED BY <1>3, <1>4

\* ... and every step of Atomics.
LEMMA AtomicNextType ==
    ASSUME AtomicTypeOK, AtomicNext
    PROVE  AtomicTypeOK'
<1>1. CASE Next /\ UNCHANGED <<mem, llsc_addr>>
  BY <1>1, IntegerType DEF AtomicTypeOK
<1>2. CASE LrFault
  BY <1>2 DEF LrFault, AtomicTypeOK, TypeOK, vars, Lines
<1>3. \A r \in Regs : gpr[r] \in Words
  BY DEF AtomicTypeOK, TypeOK
<1>4. ASSUME NEW rd \in Regs, NEW rs2 \in Regs, NEW l \in Lines,
             Amo(rd, gpr[rs2], l) \/ Sc(rd, gpr[rs2], l) \/ Lr(rd, l)
      PROVE  AtomicTypeOK'
  BY <1>3, <1>4, AmoType, LrScType
<1>5. 0 \in Regs
  BY DEF Regs
<1>. QED BY <1>1, <1>2, <1>4, <1>5 DEF AtomicNext

\* The registers and memory hold words whatever the instructions do, unless
\* the host's division kills the program.
THEOREM RegistersTypeCorrect == HartSpec => []AtomicTypeOK
<1>1. HartInit => AtomicTypeOK
  <2>. SUFFICES ASSUME Init, AtomicInit PROVE AtomicTypeOK
    BY DEF HartInit, AtomicInit
  <2>1. TypeOK
    <3>1. 0 \in Words /\ 0 \in 0 .. MaxSteps /\ Corners \subseteq Words
      BY ResultSets, ValuesAssumption
    <3>. QED BY <3>1 DEF Init, TypeOK, Regs
  <2>2. mem \in [Lines -> Words] /\ llsc_addr \in Lines
    BY <2>1 DEF AtomicInit, TypeOK, Regs, Lines
  <2>. QED BY <2>1, <2>2 DEF AtomicTypeOK
<1>2. AtomicTypeOK /\ [HartNext]_hartVars => AtomicTypeOK'
  <2>. SUFFICES ASSUME AtomicTypeOK, [HartNext]_hartVars PROVE AtomicTypeOK'
    OBVIOUS
  <2>1. CASE AtomicNext
    BY <2>1, AtomicNextType
  <2>2. CASE UNCHANGED atomicVars
    BY <2>2 DEF AtomicTypeOK, TypeOK, atomicVars, vars
  <2>3. AtomicNext \/ UNCHANGED atomicVars
    BY DEF HartNext, Integer, Csr, PutChars, hartVars
  <2>. QED BY <2>1, <2>2, <2>3
<1>. QED BY <1>1, <1>2, PTL DEF HartSpec
-----------------------------------------------------------------------------
(* Division.                                                               *)

\* C's division: toward zero, with a remainder of the sign of the dividend.
LEMMA QuotientDivides ==
    ASSUME NEW a \in Int, NEW b \in Int \ {0}
    PROVE  /\ Divides(a, b, Quotient(a, b), Remainder(a, b))
           /\ Quotient(a, b) \in Int /\ Remainder(a, b) \in Int
           /\ Abs(Quotient(a, b)) <= Abs(a) /\ Abs(Quotient(a, b)) \in Nat /\ Abs(Remainder(a, b)) \in Nat
           /\ b # 1 /\ b # -1 /\ a # 0 => Abs(Quotient(a, b)) < Abs(a)
<1>. DEFINE A == Abs(a)
            B == Abs(b)
            k == A \div B
            m == A % B
            q == Quotient(a, b)
            r == Remainder(a, b)
<1>1. /\ A \in Nat /\ B \in Nat \ {0} /\ q \in Int /\ r \in Int
      /\ A = IF a < 0 THEN -a ELSE a
      /\ B = IF b < 0 THEN -b ELSE b
  BY QuotientType DEF Abs
<1>2. k \in 0 .. A /\ m \in 0 .. B - 1 /\ A = B * k + m
  <2>. HIDE DEF A, B
  <2>1. A \in Int
    BY <1>1
  <2>. QED BY <1>1, <2>1, DivisionType, Zenon
<1>3. q = (IF (a < 0) = (b < 0) THEN 1 ELSE -1) * k /\ r = a - b * q
  BY DEF Quotient, Remainder
<1>. HIDE DEF A, B, k, m, q, r
<1>4. q = IF (a < 0 /\ b < 0) \/ (a >= 0 /\ b > 0) THEN k ELSE -k
  <2>1. (a < 0) = (b < 0) <=> (a < 0 /\ b < 0) \/ (a >= 0 /\ b > 0)
    OBVIOUS
  <2>2. k \in Int
    BY <1>1, <1>2
  <2>. QED BY <1>3, <2>1, <2>2
<1>5. b * q = IF a < 0 THEN -(B * k) ELSE B * k
  <2>1. k \in Int
    BY <1>1, <1>2
  <2>2. b * (-k) = -(b * k) /\ (-b) * k = -(b * k) /\ b * k \in Int
    BY <2>1, SMTT(30)
  <2>. QED BY <1>1, <1>4, <2>1, <2>2
<1>6. B * k \in Int
  <2>1. k \in Int
    BY <1>1, <1>2
  <2>. QED BY <1>1, <2>1, SMTT(30)
<1>7. r = IF a < 0 THEN -m ELSE m
  BY <1>1, <1>2, <1>3, <1>5, <1>6
<1>8. a = q * b + r
  <2>1. q * b = b * q /\ b * q \in Int
    BY <1>1, SMTT(30)
  <2>. HIDE DEF r
  <2>. QED BY <1>3, <2>1, <1>1
<1>9. Abs(r) = m /\ Abs(q) = k
  BY <1>1, <1>2, <1>4, <1>7 DEF Abs
<1>10. Divides(a, b, q, r)
  <2>1. Abs(r) < Abs(b)
    BY <1>1, <1>2, <1>9 DEF B
  <2>2. r = 0 \/ (r < 0) = (a < 0)
    BY <1>1, <1>2, <1>7
  <2>. QED BY <1>8, <2>1, <2>2 DEF Divides
<1>11. ASSUME b # 1, b # -1, a # 0 PROVE k < A
  <2>1. B >= 2 /\ A >= 1
    BY <1>1, <1>11
  <2>2. B * k >= 2 * k
    <3>1. PICK c \in Nat : B = 2 + c
      <4>1. B - 2 \in Nat /\ B = 2 + (B - 2)
        BY <1>1, <2>1
      <4>. QED BY <4>1
    <3>2. k \in Nat
      BY <1>1, <1>2
    <3>3. (2 + c) * k = 2 * k + c * k /\ c * k \in Nat
      BY <3>2, SMTT(30)
    <3>. QED BY <3>1, <3>2, <3>3
  <2>. QED BY <1>1, <1>2, <1>6, <2>1, <2>2
<1>12. k \in Nat /\ m \in Nat /\ k <= A
  BY <1>1, <1>2
<1>. QED BY <1>1, <1>9, <1>10, <1>11, <1>12 DEF A, q, r

\* The range of a signed division of n bits.
LEMMA QuotientFits ==
    ASSUME NEW H \in Nat \ {0}, NEW a \in -H .. H - 1, NEW b \in -H .. H - 1, b # 0
    PROVE  /\ Remainder(a, b) \in -H .. H - 1
           /\ ~(a = -H /\ b = -1) => Quotient(a, b) \in -H .. H - 1
           /\ a = -H /\ b = -1 => Quotient(a, b) = H /\ Remainder(a, b) = 0
<1>. DEFINE q == Quotient(a, b)
            r == Remainder(a, b)
<1>1. a \in Int /\ b \in Int \ {0}
  OBVIOUS
<1>2. /\ a = q * b + r /\ Abs(r) < Abs(b) /\ q \in Int /\ r \in Int
      /\ Abs(q) <= Abs(a) /\ (b # 1 /\ b # -1 /\ a # 0 => Abs(q) < Abs(a))
  BY <1>1, QuotientDivides DEF Divides
<1>. HIDE DEF q, r
<1>3. \A x \in Int : Abs(x) = IF x < 0 THEN -x ELSE x
  BY DEF Abs
<1>4. r \in -H .. H - 1
  BY <1>1, <1>2, <1>3
<1>5. CASE b = 1
  <2>1. q * 1 = q
    BY <1>2
  <2>2. r = 0
    BY <1>2, <1>3, <1>5
  <2>3. q = a
    BY <1>2, <1>5, <2>1, <2>2
  <2>. QED BY <1>4, <1>5, <2>3 DEF q, r
<1>6. CASE b = -1
  <2>1. q * (-1) = -q
    BY <1>2
  <2>2. r = 0
    BY <1>2, <1>3, <1>6
  <2>3. q = -a
    BY <1>2, <1>6, <2>1, <2>2
  <2>4. (a = -H => q = H) /\ (a # -H => q \in -H .. H - 1)
    BY <2>3
  <2>. QED BY <1>4, <1>6, <2>2, <2>4 DEF q, r
<1>7. CASE b # 1 /\ b # -1
  <2>1. a # 0 => q \in -H .. H - 1
    BY <1>2, <1>3, <1>7
  <2>2. a = 0 => q = 0
    BY <1>2, <1>3
  <2>3. q \in -H .. H - 1
    BY <2>1, <2>2
  <2>. QED BY <1>4, <1>7, <2>3 DEF q, r
<1>. QED BY <1>5, <1>6, <1>7

\* Signed is the number that Wrap hides.
LEMMA SignedOfWrap ==
    ASSUME NEW v \in Int
    PROVE  /\ v \in -(2 ^ (Xlen - 1)) .. 2 ^ (Xlen - 1) - 1 => Signed(Wrap(v)) = v
           /\ Signed(Sext(v)) = SignedW(v)
           /\ Low(Sext(v)) = Low(v)
           /\ v \in -(2 ^ (WordBits - 1)) .. 2 ^ (WordBits - 1) - 1 => SignedW(v) = v /\ Signed(Sext(v)) = v
           /\ Sext(v) = Wrap(SignedW(v)) /\ SignedW(v) \in Int
<1>. DEFINE H == 2 ^ (Xlen - 1)
            G == 2 ^ (WordBits - 1)
            W == 2 ^ WordBits
<1>0. ASSUME NEW u \in Int PROVE Wrap(u) % Size = u % Size /\ Wrap(u) \in Int
  <2>1. u % Size \in 0 .. Size - 1 /\ Size \in Nat \ {0}
    BY Sizes, DivisionType
  <2>. DEFINE s == u % Size
  <2>. HIDE DEF s
  <2>2. s % Size = s /\ s \in Int
    BY <2>1, SmallRemainder DEF s
  <2>. QED BY <2>2 DEF Wrap, s
<1>1. ASSUME NEW u \in -H .. H - 1, u \in Int PROVE Signed(Wrap(u)) = u
  <2>. DEFINE t == Wrap(u)
  <2>1. t \in Int /\ u % 2 ^ Xlen = t % 2 ^ Xlen /\ Xlen \in Nat \ {0}
    BY <1>0, <1>1, Widths DEF Size
  <2>. HIDE DEF t
  <2>2. \A z \in -H .. H - 1 : z % 2 ^ Xlen = t % 2 ^ Xlen => SignedIn(t, Xlen) = z
    BY <2>1, SignedInIs
  <2>. QED BY <1>1, <2>1, <2>2 DEF Signed, t
<1>2. SignedW(v) \in -G .. G - 1 /\ SignedW(v) % W = v % W
  BY Widths, SignedInIs DEF SignedW
<1>3. G \in Nat /\ H \in Nat /\ G <= H /\ W \in Nat \ {0} /\ Size = W * W
  <2>1. WordBits - 1 \in 0 .. Xlen - 1 /\ Xlen - 1 \in Nat /\ WordBits - 1 \in Nat
    BY Widths
  <2>2. G \in Nat /\ H \in Nat
    BY <2>1, PowerType
  <2>3. G <= H
    BY <2>1, PowerSplit
  <2>. QED BY <2>2, <2>3, Sizes
<1>. DEFINE s == SignedW(v)
<1>4. s \in -H .. H - 1 /\ s \in Int
  <2>. HIDE DEF s, H, G
  <2>. QED BY <1>2, <1>3 DEF s
<1>5. Signed(Sext(v)) = SignedW(v)
  <2>1. Signed(Wrap(s)) = s
    <3>. HIDE DEF s
    <3>. QED BY <1>1, <1>4
  <2>. QED BY <2>1 DEF Sext
<1>6. Low(Sext(v)) = Low(v)
  <2>1. (s % (W * W)) % W = s % W
    <3>. HIDE DEF s, W
    <3>. QED BY <1>3, <1>4, RemainderOfRemainder
  <2>. QED BY <1>2, <1>3, <2>1 DEF Low, Sext, Wrap
<1>7. v \in -G .. G - 1 => SignedW(v) = v
  <2>1. \A z \in -G .. G - 1 : z % W = v % W => SignedIn(v, WordBits) = z
    BY Widths, SignedInIs
  <2>. QED BY <2>1 DEF SignedW
<1>. QED BY <1>1, <1>4, <1>5, <1>6, <1>7 DEF Sext

\* The ranges of both widths.
LEMMA SignedRanges ==
    ASSUME NEW x \in Int
    PROVE  /\ Signed(x) \in -(2 ^ (Xlen - 1)) .. 2 ^ (Xlen - 1) - 1
           /\ SignedW(x) \in -(2 ^ (WordBits - 1)) .. 2 ^ (WordBits - 1) - 1
           /\ 2 ^ (Xlen - 1) \in Nat \ {0} /\ 2 ^ (WordBits - 1) \in Nat \ {0}
           /\ Size = 2 * 2 ^ (Xlen - 1) /\ 2 ^ WordBits = 2 * 2 ^ (WordBits - 1)
           /\ Signed(x) % Size = x % Size /\ SignedW(x) % 2 ^ WordBits = x % 2 ^ WordBits
           /\ Low(x) = 0 <=> SignedW(x) = 0
           /\ x \in Words => (x = 0 <=> Signed(x) = 0)
<1>. DEFINE W == 2 ^ WordBits
<1>1. /\ Signed(x) \in -(2 ^ (Xlen - 1)) .. 2 ^ (Xlen - 1) - 1
      /\ SignedW(x) \in -(2 ^ (WordBits - 1)) .. 2 ^ (WordBits - 1) - 1
      /\ 2 ^ (Xlen - 1) \in Nat \ {0} /\ 2 ^ (WordBits - 1) \in Nat \ {0}
      /\ Size = 2 * 2 ^ (Xlen - 1) /\ 2 ^ WordBits = 2 * 2 ^ (WordBits - 1)
      /\ Signed(x) % Size = x % Size /\ SignedW(x) % 2 ^ WordBits = x % 2 ^ WordBits
  BY Widths, SignedInIs DEF Signed, SignedW, Size
<1>2. \A n \in Nat \ {0} : 0 % n = 0
  <2>. TAKE n \in Nat \ {0}
  <2>1. 0 \in 0 .. n - 1
    OBVIOUS
  <2>. QED BY <2>1, SmallRemainder
<1>3. \A n \in Nat \ {0} : SignedIn(x, n) = 0 <=> x % 2 ^ n = 0
  <2>. TAKE n \in Nat \ {0}
  <2>. DEFINE G == 2 ^ (n - 1)
              N == 2 ^ n
  <2>1. G \in Nat \ {0} /\ N \in Nat \ {0} /\ SignedIn(x, n) % N = x % N
        /\ \A v \in -G .. G - 1 : v % N = x % N => SignedIn(x, n) = v
    BY SignedInIs
  <2>. HIDE DEF G, N
  <2>2. 0 \in -G .. G - 1 /\ 0 % N = 0
    BY <1>2, <2>1
  <2>3. SignedIn(x, n) = 0 <=> x % N = 0
    BY <2>1, <2>2
  <2>. QED BY <2>3 DEF N
<1>4. Low(x) = 0 <=> SignedW(x) = 0
  BY <1>3, Widths DEF Low, SignedW
<1>5. x \in Words => (x = 0 <=> Signed(x) = 0)
  <2>. SUFFICES ASSUME x \in Words PROVE x = 0 <=> Signed(x) = 0
    OBVIOUS
  <2>1. x % Size = x
    BY Sizes, SmallRemainder
  <2>2. SignedIn(x, Xlen) = 0 <=> x % 2 ^ Xlen = 0
    BY <1>3, Widths
  <2>. QED BY <2>1, <2>2 DEF Signed, Size
<1>. QED BY <1>1, <1>4, <1>5

\* Zero in every width.
LEMMA WrapOfZero ==
    Wrap(0) = 0 /\ SignedW(0) = 0 /\ Sext(0) = 0
<1>1. Wrap(0) = 0
  BY WrapType, ResultSets
<1>2. SignedW(0) = 0
  <2>1. Low(0) = 0
    <3>1. 0 \in 0 .. 2 ^ WordBits - 1
      BY Sizes
    <3>. QED BY <3>1, Sizes, SmallRemainder DEF Low
  <2>. QED BY <2>1, SignedRanges
<1>. QED BY <1>1, <1>2 DEF Sext

Divisions(a, b) ==
    /\ (OpQuotients(a, b).div = Dead) = (OpRemainders(a, b).rem = Dead)
    /\ OpQuotients(a, b).div # Dead =>
        \/ Divides(Signed(a), Signed(b), Signed(OpQuotients(a, b).div), Signed(OpRemainders(a, b).rem))
        \/ OpQuotients(a, b).div = a /\ a = Size \div 2 /\ OpRemainders(a, b).rem = 0

\* The division of signed registers: fits, overflows to the dividend, or kills.
LEMMA SignedDivision ==
    ASSUME NEW a \in Words, NEW b \in Words, b # 0
    PROVE  Divisions(a, b)
<1>. DEFINE H == 2 ^ (Xlen - 1)
            x == Signed(a)
            y == Signed(b)
            q == Quotient(x, y)
            r == Remainder(x, y)
<1>1. a \in Int /\ b \in Int
  BY ResultSets
<1>2. x \in -H .. H - 1 /\ y \in -H .. H - 1 /\ H \in Nat \ {0} /\ y # 0 /\ Size = 2 * H /\ x % Size = a % Size
  BY <1>1, SignedRanges
<1>3. /\ OpQuotients(a, b).div = Overflow(x, y, Xlen, Wrap(q))
      /\ OpRemainders(a, b).rem = Overflow(x, y, Xlen, Wrap(r))
  BY DEF OpQuotients, OpRemainders
<1>4. Overflow(x, y, Xlen, Wrap(q)) = IF host = "x86" /\ x = -H /\ y = -1 THEN Dead ELSE Wrap(q)
  BY DEF Overflow
<1>5. Overflow(x, y, Xlen, Wrap(r)) = IF host = "x86" /\ x = -H /\ y = -1 THEN Dead ELSE Wrap(r)
  BY DEF Overflow
<1>. HIDE DEF x, y, H
<1>6. /\ r \in -H .. H - 1 /\ (~(x = -H /\ y = -1) => q \in -H .. H - 1)
      /\ (x = -H /\ y = -1 => q = H /\ r = 0) /\ q \in Int /\ r \in Int
  <2>1. x \in Int /\ y \in Int \ {0}
    BY <1>2
  <2>. QED BY <1>2, <2>1, QuotientFits, QuotientType
<1>7. Divides(x, y, q, r)
  <2>1. x \in Int /\ y \in Int \ {0}
    BY <1>2
  <2>. QED BY <2>1, QuotientDivides
<1>. HIDE DEF q, r
<1>8. Wrap(q) \in Words /\ Wrap(r) \in Words /\ Dead \notin Words
  BY <1>6, WrapType, ResultSets
<1>9. CASE ~(x = -H /\ y = -1)
  <2>1. Signed(Wrap(q)) = q /\ Signed(Wrap(r)) = r
    BY <1>6, <1>9, SignedOfWrap DEF H
  <2>. QED BY <1>3, <1>4, <1>5, <1>7, <1>8, <1>9, <2>1 DEF Divisions, x, y
<1>10. CASE x = -H /\ y = -1
  <2>1. a = H
    <3>1. H \in 0 .. Size - 1 /\ Size \in Nat \ {0} /\ -H \in Int /\ 1 \in Int
      BY <1>2
    <3>2. (-H + Size * 1) % Size = (-H) % Size
      BY <3>1, Congruent, Zenon
    <3>3. -H + Size * 1 = H
      BY <1>2
    <3>4. H % Size = H /\ a % Size = a
      BY <3>1, Sizes, SmallRemainder
    <3>. QED BY <1>2, <1>10, <3>2, <3>3, <3>4
  <2>2. Wrap(q) = a /\ Wrap(r) = 0
    <3>1. q = a /\ r = 0
      BY <1>6, <1>10, <2>1
    <3>. QED BY <1>1, <3>1, WrapType, WrapOfZero
  <2>3. a = Size \div 2
    BY <1>2, <2>1
  <2>. QED BY <1>3, <1>4, <1>5, <1>8, <1>10, <2>2, <2>3 DEF Divisions
<1>. QED BY <1>9, <1>10

WordDivisions(a, b) ==
    /\ (OpWord(a, b).divw = Dead) = (OpWord(a, b).remw = Dead)
    /\ OpWord(a, b).divw # Dead =>
        \/ Divides(SignedW(a), SignedW(b), Signed(OpWord(a, b).divw), Signed(OpWord(a, b).remw))
        \/ OpWord(a, b).divw = Sext(a) /\ OpWord(a, b).remw = 0

\* The same for signed words.
LEMMA SignedWordDivision ==
    ASSUME NEW a \in Words, NEW b \in Words, Low(b) # 0
    PROVE  WordDivisions(a, b)
<1>. DEFINE H == 2 ^ (WordBits - 1)
            W == 2 ^ WordBits
            x == SignedW(a)
            y == SignedW(b)
            q == Quotient(x, y)
            r == Remainder(x, y)
<1>1. a \in Int /\ b \in Int
  BY ResultSets
<1>2. x \in -H .. H - 1 /\ y \in -H .. H - 1 /\ H \in Nat \ {0} /\ y # 0 /\ W = 2 * H /\ x % W = a % W
  BY <1>1, SignedRanges
<1>3. /\ OpWord(a, b).divw = Overflow(x, y, WordBits, Sext(q))
      /\ OpWord(a, b).remw = Overflow(x, y, WordBits, Sext(r))
  BY DEF OpWord
<1>4. Overflow(x, y, WordBits, Sext(q)) = IF host = "x86" /\ x = -H /\ y = -1 THEN Dead ELSE Sext(q)
  BY DEF Overflow
<1>5. Overflow(x, y, WordBits, Sext(r)) = IF host = "x86" /\ x = -H /\ y = -1 THEN Dead ELSE Sext(r)
  BY DEF Overflow
<1>6. x = -H => Sext(H) = Sext(a)
  <2>. SUFFICES ASSUME x = -H PROVE Sext(H) = Sext(a)
    OBVIOUS
  <2>1. H \in Int /\ -H \in -H .. H - 1 /\ W \in Nat \ {0} /\ -H \in Int /\ 1 \in Int
    BY <1>2
  <2>2. (-H + W * 1) % W = (-H) % W
    BY <2>1, Congruent, Zenon
  <2>3. -H + W * 1 = H
    BY <1>2
  <2>4. \A z \in -H .. H - 1 : z % W = H % W => SignedIn(H, WordBits) = z
    BY <2>1, Widths, SignedInIs
  <2>5. SignedW(H) = -H
    <3>. HIDE DEF H, W
    <3>. QED BY <2>1, <2>2, <2>3, <2>4 DEF SignedW
  <2>. QED BY <2>5 DEF Sext
<1>. HIDE DEF x, y, H, W
<1>7. /\ r \in -H .. H - 1 /\ (~(x = -H /\ y = -1) => q \in -H .. H - 1)
      /\ (x = -H /\ y = -1 => q = H /\ r = 0) /\ q \in Int /\ r \in Int
  <2>1. x \in Int /\ y \in Int \ {0}
    BY <1>2
  <2>. QED BY <1>2, <2>1, QuotientFits, QuotientType
<1>8. Divides(x, y, q, r)
  <2>1. x \in Int /\ y \in Int \ {0}
    BY <1>2
  <2>. QED BY <2>1, QuotientDivides
<1>. HIDE DEF q, r
<1>9. Sext(q) \in Words /\ Sext(r) \in Words /\ Dead \notin Words
  BY <1>7, SextType, ResultSets
<1>10. CASE ~(x = -H /\ y = -1)
  <2>1. Signed(Sext(q)) = q /\ Signed(Sext(r)) = r
    BY <1>7, <1>10, SignedOfWrap DEF H
  <2>. QED BY <1>3, <1>4, <1>5, <1>8, <1>9, <1>10, <2>1 DEF WordDivisions, x, y
<1>11. CASE x = -H /\ y = -1
  <2>1. Sext(q) = Sext(a) /\ Sext(r) = 0
    BY <1>6, <1>7, <1>11, WrapOfZero
  <2>. QED BY <1>3, <1>4, <1>5, <1>9, <1>11, <2>1 DEF WordDivisions
<1>. QED BY <1>10, <1>11

\* The division of natural numbers rounds toward zero.
LEMMA UnsignedDivision ==
    ASSUME NEW a \in Nat, NEW b \in Nat \ {0}
    PROVE  Divides(a, b, a \div b, a % b) /\ a \div b \in 0 .. a /\ a % b \in 0 .. a
<1>. DEFINE q == a \div b
            r == a % b
<1>1. q \in 0 .. a /\ r \in 0 .. b - 1 /\ a = b * q + r
  <2>1. a \in Int
    OBVIOUS
  <2>. QED BY <2>1, DivisionType, Zenon
<1>. HIDE DEF q, r
<1>2. q * b = b * q /\ b * q \in Nat
  <2>1. q \in Nat
    BY <1>1
  <2>. QED BY <2>1, SMTT(30)
<1>3. Divides(a, b, q, r)
  BY <1>1, <1>2 DEF Divides, Abs
<1>4. r \in 0 .. a
  BY <1>1, <1>2
<1>. QED BY <1>1, <1>3, <1>4 DEF q, r

\* Quotients and remainders fit together, in every width and on both hosts.
THEOREM DivisionsAreEuclidean == HartSpec => []DivisionIdentity
<1>1. AtomicTypeOK => DivisionIdentity
  <2>. SUFFICES ASSUME AtomicTypeOK PROVE DivisionIdentity
    OBVIOUS
  <2>. DEFINE a == gpr[1]
              b == gpr[2]
  <2>1. a \in Words /\ b \in Words /\ a \in Nat /\ b \in Nat
    <3>1. 1 \in Regs /\ 2 \in Regs
      BY DEF Regs
    <3>2. a \in Words /\ b \in Words
      BY <3>1 DEF AtomicTypeOK, TypeOK
    <3>. HIDE DEF a, b
    <3>. QED BY <3>2, ResultSets
  <2>. HIDE DEF a, b
  <2>2. b # 0 => Divisions(a, b)
    BY <2>1, SignedDivision
  <2>3. b # 0 => Divides(a, b, OpQuotients(a, b).divu, OpRemainders(a, b).remu)
    <3>. SUFFICES ASSUME b # 0 PROVE Divides(a, b, OpQuotients(a, b).divu, OpRemainders(a, b).remu)
      OBVIOUS
    <3>1. OpQuotients(a, b).divu = a \div b /\ OpRemainders(a, b).remu = a % b
      BY DEF OpQuotients, OpRemainders
    <3>. QED BY <2>1, <3>1, UnsignedDivision
  <2>4. Low(b) # 0 => WordDivisions(a, b)
    BY <2>1, SignedWordDivision
  <2>5. Low(b) # 0 => Divides(Low(a), Low(b), Low(OpWord(a, b).divuw), Low(OpWord(a, b).remuw))
    <3>. SUFFICES ASSUME Low(b) # 0
         PROVE  Divides(Low(a), Low(b), Low(OpWord(a, b).divuw), Low(OpWord(a, b).remuw))
      OBVIOUS
    <3>. DEFINE W == 2 ^ WordBits
                x == Low(a)
                y == Low(b)
                q == x \div y
                r == x % y
    <3>1. W \in Nat \ {0} /\ x \in 0 .. W - 1 /\ y \in 0 .. W - 1
      BY <2>1, Sizes, SignedType
    <3>2. OpWord(a, b).divuw = Sext(q) /\ OpWord(a, b).remuw = Sext(r)
      BY DEF OpWord
    <3>3. \A z \in 0 .. W - 1 : Low(z) = z
      <4>. HIDE DEF W
      <4>. QED BY <3>1, SmallRemainder DEF Low, W
    <3>. HIDE DEF W, x, y
    <3>4. Divides(x, y, q, r) /\ q \in 0 .. x /\ r \in 0 .. x
      <4>1. x \in Nat /\ y \in Nat \ {0}
        BY <3>1 DEF y
      <4>. QED BY <4>1, UnsignedDivision
    <3>. HIDE DEF q, r
    <3>5. q \in 0 .. W - 1 /\ r \in 0 .. W - 1 /\ q \in Int /\ r \in Int
      BY <3>1, <3>4
    <3>6. Low(Sext(q)) = q /\ Low(Sext(r)) = r
      BY <3>3, <3>5, SignedOfWrap
    <3>. QED BY <3>2, <3>4, <3>6 DEF x, y
  <2>. QED BY <2>2, <2>3, <2>4, <2>5, Zenon DEF DivisionIdentity, Divisions, WordDivisions, a, b
<1>. QED BY <1>1, RegistersTypeCorrect, PTL
-----------------------------------------------------------------------------
(* Forms of the same instruction.                                          *)

\* What keeps the low halves the same.
LEMMA LowRing ==
    ASSUME NEW x \in Int, NEW y \in Int, NEW u \in Int, NEW v \in Int, Low(x) = Low(u), Low(y) = Low(v)
    PROVE  /\ Low(x + y) = Low(u + v) /\ Low(x - y) = Low(u - v) /\ Low(x * y) = Low(u * v)
           /\ x * y \in Int /\ u * v \in Int
<1>. DEFINE W == 2 ^ WordBits
<1>1. W \in Nat \ {0} /\ x % W = u % W /\ y % W = v % W
  BY Sizes DEF Low
<1>. HIDE DEF W
<1>2. \A s, t \in Int : s % W = t % W => \E k \in Int : s = t + W * k
  <2>. SUFFICES ASSUME NEW s \in Int, NEW t \in Int, s % W = t % W PROVE \E k \in Int : s = t + W * k
    OBVIOUS
  <2>. DEFINE m == s \div W
              n == t \div W
              r == s % W
  <2>1. m \in Int /\ n \in Int /\ r \in 0 .. W - 1 /\ s = W * m + r /\ t = W * n + r
    BY <1>1, DivisionType
  <2>. HIDE DEF m, n, r
  <2>2. W * m = W * n + W * (m - n) /\ W * n \in Int /\ W * (m - n) \in Int /\ m - n \in Int
    BY <1>1, <2>1, SMTT(30)
  <2>3. r \in Int
    BY <1>1, <2>1
  <2>4. s = t + W * (m - n)
    BY <2>1, <2>2, <2>3
  <2>. QED BY <2>2, <2>4
<1>3. PICK k \in Int : x = u + W * k
  BY <1>1, <1>2
<1>4. PICK j \in Int : y = v + W * j
  BY <1>1, <1>2
<1>5. W * k \in Int /\ W * j \in Int
  BY <1>1, SMTT(30)
<1>6. \A c, d \in Int : (c + W * d) % W = c % W
  BY <1>1, Congruent
<1>7. (x + y) % W = (u + v) % W
  <2>1. x + y = (u + v) + W * (k + j) /\ u + v \in Int /\ k + j \in Int
    <3>1. W * (k + j) = W * k + W * j
      BY <1>1, SMTT(30)
    <3>. QED BY <1>3, <1>4, <1>5, <3>1
  <2>. QED BY <1>6, <2>1
<1>8. (x - y) % W = (u - v) % W
  <2>1. x - y = (u - v) + W * (k - j) /\ u - v \in Int /\ k - j \in Int
    <3>1. W * (k - j) = W * k - W * j
      BY <1>1, SMTT(30)
    <3>. QED BY <1>3, <1>4, <1>5, <3>1
  <2>. QED BY <1>6, <2>1
<1>9. (x * y) % W = (u * v) % W /\ x * y \in Int /\ u * v \in Int
  <2>1. x * y = u * v + W * (u * j + k * y) /\ u * v \in Int /\ u * j + k * y \in Int /\ x * y \in Int
    <3>1. u * v \in Int /\ u * j \in Int /\ k * y \in Int /\ x * y \in Int
      BY SMTT(30)
    <3>2. x * y = u * y + (W * k) * y
      BY <1>1, <1>3, <1>5, SMTT(30)
    <3>3. u * y = u * v + u * (W * j)
      BY <1>1, <1>4, <1>5, SMTT(30)
    <3>4. (W * k) * y = W * (k * y) /\ u * (W * j) = W * (u * j)
      BY <1>1, SMTT(30)
    <3>5. W * (u * j + k * y) = W * (u * j) + W * (k * y) /\ W * (u * j) \in Int /\ W * (k * y) \in Int
      BY <1>1, <3>1, SMTT(30)
    <3>. QED BY <3>1, <3>2, <3>3, <3>4, <3>5
  <2>. QED BY <1>6, <2>1
<1>. QED BY <1>7, <1>8, <1>9 DEF Low, W

\* Sext and SignedW look at the low half.
LEMMA SextLow ==
    ASSUME NEW x \in Int, NEW y \in Int, Low(x) = Low(y)
    PROVE  SignedW(x) = SignedW(y) /\ Sext(x) = Sext(y)
<1>1. SignedW(x) = SignedW(y)
  BY Zenon DEF SignedW, SignedIn, Low
<1>. QED BY <1>1 DEF Sext

\* Truncation and sign extension, one after the other.
LEMMA LowAgain ==
    ASSUME NEW x \in Int
    PROVE  /\ Low(Low(x)) = Low(x) /\ Low(Wrap(x)) = Low(x) /\ Low(Sext(x)) = Low(x)
           /\ Low(x) \in Int /\ Wrap(x) \in Int /\ Sext(x) \in Int /\ Low(x) \in Words /\ Sext(x) \in Words
           /\ Sext(Sext(x)) = Sext(x) /\ Sext(Wrap(x)) = Sext(x) /\ Sext(Low(x)) = Sext(x)
           /\ SignedW(Sext(x)) = SignedW(x) /\ SignedW(Low(x)) = SignedW(x)
           /\ Signed(Sext(x)) = SignedW(x)
<1>. DEFINE W == 2 ^ WordBits
<1>1. W \in Nat \ {0} /\ Size = W * W
  BY Sizes
<1>2. Low(x) \in Words /\ Sext(x) \in Words /\ Wrap(x) \in Words
  BY SignedType, WrapType
<1>3. Low(x) \in Int /\ Sext(x) \in Int /\ Wrap(x) \in Int
  <2>1. \A y \in Words : y \in Int
    BY ResultSets
  <2>. QED BY <1>2, <2>1, Zenon
<1>4. Low(Wrap(x)) = Low(x)
  <2>. HIDE DEF W
  <2>1. (x % (W * W)) % W = x % W
    BY <1>1, RemainderOfRemainder
  <2>. QED BY <1>1, <2>1 DEF Low, Wrap, W
<1>5. Low(Low(x)) = Low(x)
  <2>1. Low(x) \in 0 .. W - 1
    BY SignedType
  <2>. HIDE DEF W
  <2>2. Low(x) % W = Low(x)
    BY <1>1, <2>1, SmallRemainder
  <2>. QED BY <2>2 DEF Low, W
<1>6. Low(Sext(x)) = Low(x) /\ Signed(Sext(x)) = SignedW(x)
  BY SignedOfWrap
<1>. QED BY <1>2, <1>3, <1>4, <1>5, <1>6, SextLow

\* A number that is one of WordBits bits is left alone by Sext.
LEMMA SextOfWord ==
    ASSUME NEW s \in Int, s \in -(2 ^ (WordBits - 1)) .. 2 ^ (WordBits - 1) - 1
    PROVE  Sext(s) = Wrap(s) /\ Sext(Wrap(s)) = Wrap(s)
<1>1. Sext(s) = Wrap(SignedW(s)) /\ SignedW(s) = s
  BY SignedOfWrap
<1>. QED BY <1>1, LowAgain

\* The word of all ones is sign-extended.
LEMMA SextOfOnes ==
    Sext(Size - 1) = Size - 1
<1>. DEFINE H == 2 ^ (WordBits - 1)
<1>1. H \in Nat \ {0} /\ Size \in Nat \ {0} /\ -1 \in Int /\ 1 \in Int
  BY SignedRanges, Sizes
<1>2. -1 \in -H .. H - 1
  <2>. HIDE DEF H
  <2>. QED BY <1>1
<1>3. (-1 + Size * 1) % Size = (-1) % Size
  BY <1>1, Congruent, Zenon
<1>4. -1 + Size * 1 = Size - 1 /\ Size - 1 \in 0 .. Size - 1
  BY <1>1
<1>5. (Size - 1) % Size = Size - 1
  BY <1>1, <1>4, SmallRemainder
<1>6. Wrap(-1) = Size - 1
  BY <1>3, <1>4, <1>5 DEF Wrap
<1>7. Sext(Wrap(-1)) = Wrap(-1)
  BY <1>1, <1>2, SextOfWord
<1>. QED BY <1>6, <1>7

\* The amount of a shift is in the low half.
LEMMA ShiftAmounts ==
    ASSUME NEW b \in Words
    PROVE  /\ b % WordBits \in 0 .. WordBits - 1 /\ b % WordBits \in Nat
           /\ (b % WordBits) % Xlen = b % WordBits /\ Low(b) % WordBits = b % WordBits
           /\ b % WordBits \in Words
           /\ 2 ^ (b % WordBits) \in Nat \ {0}
<1>. DEFINE n == b % WordBits
            W == 2 ^ WordBits
            l == Low(b)
            q == b \div W
            c == W \div WordBits
<1>1. WordBits \in Nat \ {0} /\ Xlen \in Nat \ {0} /\ WordBits < Xlen /\ b \in Nat /\ W \in Nat \ {0}
  BY Widths, ResultSets, Sizes
<1>2. n \in 0 .. WordBits - 1
  BY <1>1, DivisionNat
<1>3. n \in Nat /\ n \in 0 .. Xlen - 1 /\ n \in 0 .. Xlen
  <2>. HIDE DEF n
  <2>. QED BY <1>1, <1>2
<1>4. n % Xlen = n
  <2>. HIDE DEF n
  <2>. QED BY <1>1, <1>3, SmallRemainder
<1>5. W = WordBits * c /\ c \in Int
  <2>1. W % WordBits = 0
    BY WidthsAssumption
  <2>. HIDE DEF W
  <2>2. W = WordBits * c + (W % WordBits) /\ c \in Int
    BY <1>1, DivisionType
  <2>. HIDE DEF c
  <2>3. WordBits * c \in Int
    BY <1>1, <2>2, SMTT(30)
  <2>. QED BY <2>1, <2>2, <2>3
<1>6. b = W * q + l /\ q \in Int /\ l \in Int
  <2>1. l = b % W
    BY DEF Low
  <2>. HIDE DEF W
  <2>2. b \in Int
    BY <1>1
  <2>3. b % W \in 0 .. W - 1 /\ b = W * q + (b % W) /\ q \in Int
    BY <1>1, <2>2, DivisionType
  <2>. HIDE DEF l, q
  <2>. QED BY <1>1, <2>1, <2>3
<1>7. l % WordBits = n
  <2>. HIDE DEF l, q, W, c
  <2>1. W * q = WordBits * (c * q) /\ c * q \in Int
    <3>1. W * q = (WordBits * c) * q
      BY <1>5, Zenon
    <3>2. (WordBits * c) * q = WordBits * (c * q) /\ c * q \in Int
      BY <1>1, <1>5, <1>6, SMTT(30)
    <3>. QED BY <3>1, <3>2
  <2>2. (l + WordBits * (c * q)) % WordBits = l % WordBits
    BY <1>1, <1>6, <2>1, Congruent
  <2>3. b = l + WordBits * (c * q)
    <3>1. WordBits * (c * q) \in Int
      BY <1>1, <2>1, SMTT(30)
    <3>. QED BY <1>6, <2>1, <3>1
  <2>. QED BY <2>2, <2>3
<1>8. n \in Words
  BY <1>3, ResultSets
<1>. QED BY <1>2, <1>3, <1>4, <1>7, <1>8, PowerType

\* The fields of OpWord whose results are sign-extended.
LEMMA WordFields ==
    ASSUME NEW a, NEW b
    PROVE  /\ OpWord(a, b).addw = Sext(a + b)
           /\ OpWord(a, b).subw = Sext(Low(a) - Low(b))
           /\ OpWord(a, b).mulw = Sext(Low(a) * Low(b))
           /\ OpWord(a, b).sllw = Sext(Low(a) * 2 ^ (b % WordBits))
           /\ OpWord(a, b).srlw = Sext(Low(a) \div 2 ^ (b % WordBits))
           /\ OpWord(a, b).sraw = Wrap(SignedW(a) \div 2 ^ (b % WordBits))
           /\ OpWord(a, b).rolw = Sext(Rol(Low(a), b % WordBits, WordBits))
           /\ OpWord(a, b).rorw = Sext(Ror(Low(a), b % WordBits, WordBits))
           /\ OpWord(a, b).divw = IF Low(b) = 0 THEN Size - 1
                                  ELSE Overflow(SignedW(a), SignedW(b), WordBits,
                                                Sext(Quotient(SignedW(a), SignedW(b))))
           /\ OpWord(a, b).divuw = IF Low(b) = 0 THEN Size - 1 ELSE Sext(Low(a) \div Low(b))
           /\ OpWord(a, b).remw = IF Low(b) = 0 THEN Size - 1
                                  ELSE Overflow(SignedW(a), SignedW(b), WordBits,
                                                Sext(Remainder(SignedW(a), SignedW(b))))
           /\ OpWord(a, b).remuw = IF Low(b) = 0 THEN Size - 1 ELSE Sext(Low(a) % Low(b))
BY DEF OpWord

\* An instruction of words ignores the upper halves and sign-extends.
IsWordForm(a, b, op) ==
    /\ OpWord(a, b)[op] = OpWord(Sext(a), Low(b))[op]
    /\ OpWord(a, b)[op] # Dead => OpWord(a, b)[op] = Sext(OpWord(a, b)[op])

\* Each sign-extending instruction reads the low halves and leaves a sign-extended word.
LEMMA WordInstructions ==
    ASSUME NEW a \in Words, NEW b \in Words, NEW op \in SignExtending
    PROVE  IsWordForm(a, b, op)
<1>. DEFINE x == Sext(a)
            y == Low(b)
            n == b % WordBits
            p == 2 ^ n
            la == Low(a)
            s == SignedW(a)
            t == SignedW(b)
<1>1. a \in Int /\ b \in Int
  BY ResultSets
<1>2. x \in Int /\ y \in Int /\ Low(x) = la /\ Low(y) = y /\ SignedW(x) = s /\ SignedW(y) = t
      /\ la \in Int /\ Low(la) = la
  BY <1>1, LowAgain
<1>3. y % WordBits = n /\ n \in 0 .. WordBits - 1 /\ n \in Nat /\ p \in Nat \ {0}
  BY ShiftAmounts
<1>4. \A v \in Int : Sext(Sext(v)) = Sext(v)
  BY LowAgain
<1>5. s \in Int /\ t \in Int
  BY <1>1, SignedType
<1>6. IsWordForm(a, b, "addw")
  <2>1. OpWord(a, b).addw = Sext(a + b) /\ OpWord(x, y).addw = Sext(x + y)
    BY WordFields
  <2>2. Sext(a + b) = Sext(x + y) /\ a + b \in Int
    <3>1. Low(a + b) = Low(x + y) /\ a + b \in Int /\ x + y \in Int
      <4>. HIDE DEF x, y
      <4>1. Low(a) = Low(x) /\ Low(b) = Low(y)
        BY <1>2 DEF y
      <4>. QED BY <1>1, <1>2, <4>1, LowRing
    <3>. QED BY <3>1, SextLow
  <2>. QED BY <1>4, <2>1, <2>2 DEF IsWordForm
<1>7. IsWordForm(a, b, "subw")
  <2>1. OpWord(a, b).subw = Sext(la - y) /\ OpWord(x, y).subw = Sext(Low(x) - Low(y))
    BY WordFields
  <2>2. la - y \in Int
    BY <1>2
  <2>. QED BY <1>2, <1>4, <2>1, <2>2 DEF IsWordForm
<1>8. IsWordForm(a, b, "mulw")
  <2>1. OpWord(a, b).mulw = Sext(la * y) /\ OpWord(x, y).mulw = Sext(Low(x) * Low(y))
    BY WordFields
  <2>2. la * y \in Int
    <3>. HIDE DEF la, y
    <3>. QED BY <1>2, SMTT(30)
  <2>. QED BY <1>2, <1>4, <2>1, <2>2 DEF IsWordForm
<1>9. IsWordForm(a, b, "sllw") /\ IsWordForm(a, b, "srlw")
  <2>1. /\ OpWord(a, b).sllw = Sext(la * p) /\ OpWord(x, y).sllw = Sext(Low(x) * 2 ^ (y % WordBits))
        /\ OpWord(a, b).srlw = Sext(la \div p) /\ OpWord(x, y).srlw = Sext(Low(x) \div 2 ^ (y % WordBits))
    BY WordFields
  <2>2. la * p \in Int /\ la \div p \in Int
    <3>. HIDE DEF la, p
    <3>. QED BY <1>2, <1>3, DivisionType, SMTT(30)
  <2>3. /\ Sext(Low(x) * 2 ^ (y % WordBits)) = Sext(la * p)
        /\ Sext(Low(x) \div 2 ^ (y % WordBits)) = Sext(la \div p)
    BY <1>2, <1>3
  <2>. QED BY <1>4, <2>1, <2>2, <2>3 DEF IsWordForm
<1>10. IsWordForm(a, b, "sraw")
  <2>1. OpWord(a, b).sraw = Wrap(s \div p) /\ OpWord(x, y).sraw = Wrap(SignedW(x) \div 2 ^ (y % WordBits))
    BY WordFields
  <2>2. Wrap(SignedW(x) \div 2 ^ (y % WordBits)) = Wrap(s \div p)
    BY <1>2, <1>3
  <2>. DEFINE H == 2 ^ (WordBits - 1)
              d == s \div p
  <2>3. s \in -H .. H - 1 /\ H \in Nat \ {0}
    BY <1>1, SignedRanges
  <2>4. d \in Int /\ d \in -H .. H - 1
    <3>. HIDE DEF H, s, p
    <3>1. d \in Int /\ s % p \in 0 .. p - 1 /\ s = p * d + (s % p)
      BY <1>3, <1>5, DivisionType
    <3>. DEFINE r == s % p
    <3>. HIDE DEF d, r
    <3>2. d \in Int /\ r \in 0 .. p - 1 /\ s = p * d + r
      BY <3>1 DEF r
    <3>3. d < H
      <4>. SUFFICES ASSUME d >= H PROVE FALSE
        BY <2>3, <3>2
      <4>1. d \in Nat /\ p * d >= d
        <5>1. d \in Nat
          BY <2>3, <3>2
        <5>2. PICK c \in Nat : p = c + 1
          <6>1. p - 1 \in Nat /\ p = (p - 1) + 1
            BY <1>3
          <6>. QED BY <6>1
        <5>3. (c + 1) * d = c * d + d /\ c * d \in Nat
          BY <5>1, SMTT(30)
        <5>. QED BY <5>1, <5>2, <5>3
      <4>2. p * d \in Int
        BY <1>3, <3>2, SMTT(30)
      <4>. QED BY <1>3, <2>3, <3>2, <4>1, <4>2
    <3>4. d >= -H
      <4>. SUFFICES ASSUME d + 1 <= -H PROVE FALSE
        BY <2>3, <3>2
      <4>1. p * (d + 1) <= d + 1
        <5>1. PICK c \in Nat : p = c + 1
          <6>1. p - 1 \in Nat /\ p = (p - 1) + 1
            BY <1>3
          <6>. QED BY <6>1
        <5>2. PICK e \in Nat : d + 1 = -e
          <6>1. -(d + 1) \in Nat /\ d + 1 = -(-(d + 1))
            BY <2>3, <3>2
          <6>. QED BY <6>1
        <5>3. (c + 1) * (-e) = -(c * e) - e /\ c * e \in Nat
          BY <5>1, <5>2, SMTT(30)
        <5>. QED BY <5>1, <5>2, <5>3
      <4>2. p * (d + 1) = p * d + p /\ p * d \in Int
        BY <1>3, <3>2, SMTT(30)
      <4>. QED BY <1>3, <2>3, <3>2, <4>1, <4>2
    <3>. QED BY <2>3, <3>2, <3>3, <3>4
  <2>5. Sext(Wrap(d)) = Wrap(d)
    <3>. HIDE DEF d
    <3>. QED BY <2>4, SextOfWord
  <2>. QED BY <2>1, <2>2, <2>5 DEF IsWordForm
<1>11. IsWordForm(a, b, "rolw") /\ IsWordForm(a, b, "rorw")
  <2>1. /\ OpWord(a, b).rolw = Sext(Rol(la, n, WordBits))
        /\ OpWord(x, y).rolw = Sext(Rol(Low(x), y % WordBits, WordBits))
        /\ OpWord(a, b).rorw = Sext(Ror(la, n, WordBits))
        /\ OpWord(x, y).rorw = Sext(Ror(Low(x), y % WordBits, WordBits))
    BY WordFields
  <2>2. Rol(la, n, WordBits) \in Int /\ Ror(la, n, WordBits) \in Int
    <3>1. la \in 0 .. 2 ^ WordBits - 1 /\ n \in 0 .. WordBits
      <4>1. la \in 0 .. 2 ^ WordBits - 1
        BY <1>1, SignedType
      <4>. HIDE DEF n
      <4>2. n \in 0 .. WordBits
        BY <1>3, Widths
      <4>. QED BY <4>1, <4>2
    <3>. HIDE DEF la, n
    <3>. QED BY <3>1, WordRotationType
  <2>. QED BY <1>2, <1>3, <1>4, <2>1, <2>2 DEF IsWordForm
<1>12. IsWordForm(a, b, "divw") /\ IsWordForm(a, b, "remw")
  <2>1. /\ OpWord(a, b).divw = IF y = 0 THEN Size - 1
                               ELSE Overflow(s, t, WordBits, Sext(Quotient(s, t)))
        /\ OpWord(x, y).divw = IF Low(y) = 0 THEN Size - 1
             ELSE Overflow(SignedW(x), SignedW(y), WordBits, Sext(Quotient(SignedW(x), SignedW(y))))
        /\ OpWord(a, b).remw = IF y = 0 THEN Size - 1
                               ELSE Overflow(s, t, WordBits, Sext(Remainder(s, t)))
        /\ OpWord(x, y).remw = IF Low(y) = 0 THEN Size - 1
             ELSE Overflow(SignedW(x), SignedW(y), WordBits, Sext(Remainder(SignedW(x), SignedW(y))))
    BY WordFields
  <2>2. y # 0 => Quotient(s, t) \in Int /\ Remainder(s, t) \in Int
    <3>1. y # 0 => t # 0
      BY <1>1, SignedRanges
    <3>. HIDE DEF s, t
    <3>. QED BY <1>5, <3>1, QuotientType
  <2>3. \A c : Overflow(s, t, WordBits, c) = Dead \/ Overflow(s, t, WordBits, c) = c
    BY DEF Overflow
  <2>4. OpWord(a, b).divw = OpWord(x, y).divw /\ OpWord(a, b).remw = OpWord(x, y).remw
    BY <1>2, <2>1
  <2>. DEFINE q == Quotient(s, t)
              r == Remainder(s, t)
  <2>. HIDE DEF q, r, s, t
  <2>5. OpWord(a, b).divw = IF y = 0 THEN Size - 1 ELSE Overflow(s, t, WordBits, Sext(q))
    BY <2>1 DEF q, r, s, t
  <2>6. OpWord(a, b).remw = IF y = 0 THEN Size - 1 ELSE Overflow(s, t, WordBits, Sext(r))
    BY <2>1 DEF q, r, s, t
  <2>7. y # 0 => Sext(Sext(q)) = Sext(q) /\ Sext(Sext(r)) = Sext(r)
    BY <1>4, <2>2 DEF q, r
  <2>8. OpWord(a, b).divw # Dead => OpWord(a, b).divw = Sext(OpWord(a, b).divw)
    BY <2>3, <2>5, <2>7, SextOfOnes
  <2>9. OpWord(a, b).remw # Dead => OpWord(a, b).remw = Sext(OpWord(a, b).remw)
    BY <2>3, <2>6, <2>7, SextOfOnes
  <2>. QED BY <2>4, <2>8, <2>9 DEF IsWordForm
<1>13. IsWordForm(a, b, "divuw") /\ IsWordForm(a, b, "remuw")
  <2>1. /\ OpWord(a, b).divuw = IF y = 0 THEN Size - 1 ELSE Sext(la \div y)
        /\ OpWord(x, y).divuw = IF Low(y) = 0 THEN Size - 1 ELSE Sext(Low(x) \div Low(y))
        /\ OpWord(a, b).remuw = IF y = 0 THEN Size - 1 ELSE Sext(la % y)
        /\ OpWord(x, y).remuw = IF Low(y) = 0 THEN Size - 1 ELSE Sext(Low(x) % Low(y))
    BY WordFields
  <2>2. y # 0 => la \div y \in Int /\ la % y \in Int
    <3>1. y \in Nat
      BY <1>1, SignedType, ResultSets
    <3>. HIDE DEF la, y
    <3>. QED BY <1>2, <3>1, DivisionType
  <2>3. y # 0 => Sext(Sext(la \div y)) = Sext(la \div y) /\ Sext(Sext(la % y)) = Sext(la % y)
    BY <1>4, <2>2
  <2>. HIDE DEF la, y, x
  <2>4. OpWord(a, b).divuw = OpWord(x, y).divuw /\ OpWord(a, b).remuw = OpWord(x, y).remuw
    BY <1>2, <2>1
  <2>5. OpWord(a, b).divuw = Sext(OpWord(a, b).divuw) /\ OpWord(a, b).remuw = Sext(OpWord(a, b).remuw)
    BY <2>1, <2>3, SextOfOnes
  <2>. QED BY <2>4, <2>5 DEF IsWordForm, x, y
<1>. QED BY <1>6, <1>7, <1>8, <1>9, <1>10, <1>11, <1>12, <1>13, Zenon DEF SignExtending

\* The words of a sum, a difference and a product.
LEMMA WordArithmetic ==
    ASSUME NEW a \in Words, NEW b \in Words
    PROVE  /\ OpWord(a, b).addw = Sext(OpSums(a, b).add)
           /\ OpWord(a, b).subw = Sext(OpSums(a, b).sub)
           /\ OpWord(a, b).mulw = Sext(OpSums(a, b).mul)
           /\ OpWordImm(a, b).addiw = OpWord(a, b).addw
<1>1. a \in Int /\ b \in Int /\ Low(a) \in Int /\ Low(b) \in Int /\ Low(Low(a)) = Low(a) /\ Low(Low(b)) = Low(b)
  <2>1. a \in Int /\ b \in Int
    BY ResultSets
  <2>. QED BY <2>1, LowAgain
<1>2. /\ Low(Low(a) - Low(b)) = Low(a - b) /\ Low(Low(a) * Low(b)) = Low(a * b) /\ Low(Low(a) + b) = Low(a + b)
      /\ Low(a) * Low(b) \in Int /\ a * b \in Int
  <2>. DEFINE la == Low(a)
              lb == Low(b)
  <2>1. la \in Int /\ lb \in Int /\ Low(la) = Low(a) /\ Low(lb) = Low(b)
    BY <1>1
  <2>. HIDE DEF la, lb
  <2>2. Low(la - lb) = Low(a - b) /\ Low(la * lb) = Low(a * b) /\ la * lb \in Int /\ a * b \in Int
    BY <1>1, <2>1, LowRing
  <2>3. Low(la + b) = Low(a + b)
    BY <1>1, <2>1, LowRing
  <2>. QED BY <2>2, <2>3 DEF la, lb
<1>3. Sext(Low(a) - Low(b)) = Sext(a - b) /\ Sext(Low(a) * Low(b)) = Sext(a * b) /\ Sext(Low(a) + b) = Sext(a + b)
  <2>. DEFINE c == Low(a) - Low(b)
              d == Low(a) * Low(b)
              e == Low(a) + b
              f == a - b
              g == a * b
              h == a + b
  <2>1. c \in Int /\ d \in Int /\ e \in Int /\ f \in Int /\ g \in Int /\ h \in Int
    BY <1>1, <1>2
  <2>2. Low(c) = Low(f) /\ Low(d) = Low(g) /\ Low(e) = Low(h)
    BY <1>2
  <2>. HIDE DEF c, d, e, f, g, h
  <2>3. Sext(c) = Sext(f) /\ Sext(d) = Sext(g) /\ Sext(e) = Sext(h)
    BY <2>1, <2>2, SextLow
  <2>. QED BY <2>3 DEF c, d, e, f, g, h
<1>4. Sext(Wrap(a + b)) = Sext(a + b) /\ Sext(Wrap(a - b)) = Sext(a - b) /\ Sext(Wrap(a * b)) = Sext(a * b)
  <2>1. a + b \in Int /\ a - b \in Int /\ a * b \in Int
    BY <1>1, <1>2
  <2>. QED BY <2>1, LowAgain
<1>5. /\ OpSums(a, b).add = Wrap(a + b) /\ OpSums(a, b).sub = Wrap(a - b) /\ OpSums(a, b).mul = Wrap(a * b)
      /\ OpWordImm(a, b).addiw = Sext(Low(a) + b)
  BY DEF OpSums, OpWordImm
<1>6. /\ OpWord(a, b).addw = Sext(a + b) /\ OpWord(a, b).subw = Sext(Low(a) - Low(b))
      /\ OpWord(a, b).mulw = Sext(Low(a) * Low(b))
  BY WordFields
<1>. QED BY <1>3, <1>4, <1>5, <1>6

\* The low half of a product depends on the low half of a factor.
LEMMA LowTimes ==
    ASSUME NEW x \in Int, NEW u \in Int, NEW p \in Int, Low(x) = Low(u)
    PROVE  Low(x * p) = Low(u * p) /\ x * p \in Int /\ u * p \in Int
<1>1. ASSUME NEW y \in Int, NEW v \in Int, Low(y) = Low(v)
      PROVE  Low(x * y) = Low(u * v) /\ x * y \in Int /\ u * v \in Int
  <2>1. /\ Low(x + y) = Low(u + v) /\ Low(x - y) = Low(u - v) /\ Low(x * y) = Low(u * v)
        /\ x * y \in Int /\ u * v \in Int
    BY <1>1, LowRing, SMTT(30)
  <2>. QED BY <2>1, Zenon
<1>2. Low(p) = Low(p)
  OBVIOUS
<1>. QED BY <1>1, <1>2, Zenon

\* The shifts, with their amount in a register or an immediate.
LEMMA WordShifts ==
    ASSUME NEW a \in Words, NEW b \in Words, NEW n, n = b % WordBits
    PROVE  /\ OpWord(a, b).sllw = Sext(OpSums(a, n).sll)
           /\ OpWord(a, b).sraw = OpQuotients(Sext(a), n).sra
           /\ OpWord(a, b).srlw = Sext(OpQuotients(Low(a), n).srl)
           /\ <<OpWordImm(a, b).slliw, OpWordImm(a, b).srliw, OpWordImm(a, b).sraiw, OpWordImm(a, b).roriw>>
                = <<OpWord(a, b).sllw, OpWord(a, b).srlw, OpWord(a, b).sraw, OpWord(a, b).rorw>>
           /\ OpWordImm(a, b).slliuw = OpSums(Low(a), n).sll
<1>. DEFINE p == 2 ^ n
<1>1. n % Xlen = n /\ p \in Nat \ {0}
  BY ShiftAmounts
<1>2. a \in Int /\ Low(a) \in Int /\ Low(Low(a)) = Low(a) /\ Signed(Sext(a)) = SignedW(a)
  <2>1. a \in Int
    BY ResultSets
  <2>. QED BY <2>1, LowAgain
<1>3. /\ OpSums(a, n).sll = Wrap(a * p) /\ OpSums(Low(a), n).sll = Wrap(Low(a) * p)
      /\ OpQuotients(Sext(a), n).sra = Wrap(SignedW(a) \div p)
      /\ OpQuotients(Low(a), n).srl = Low(a) \div p
  <2>1. /\ OpSums(a, n).sll = Wrap(a * 2 ^ (n % Xlen)) /\ OpSums(Low(a), n).sll = Wrap(Low(a) * 2 ^ (n % Xlen))
        /\ OpQuotients(Sext(a), n).sra = Wrap(Signed(Sext(a)) \div 2 ^ (n % Xlen))
        /\ OpQuotients(Low(a), n).srl = Low(a) \div 2 ^ (n % Xlen)
    BY DEF OpSums, OpQuotients
  <2>. QED BY <1>1, <1>2, <2>1, Zenon
<1>4. /\ OpWordImm(a, b).slliw = Sext(Low(a) * p) /\ OpWordImm(a, b).srliw = Sext(Low(a) \div p)
      /\ OpWordImm(a, b).sraiw = Wrap(SignedW(a) \div p) /\ OpWordImm(a, b).slliuw = Wrap(Low(a) * p)
      /\ OpWordImm(a, b).roriw = Sext(Ror(Low(a), n, WordBits))
  BY DEF OpWordImm
<1>5. /\ OpWord(a, b).sllw = Sext(Low(a) * p) /\ OpWord(a, b).srlw = Sext(Low(a) \div p)
      /\ OpWord(a, b).sraw = Wrap(SignedW(a) \div p)
      /\ OpWord(a, b).rorw = Sext(Ror(Low(a), n, WordBits))
  BY WordFields
<1>6. Sext(Wrap(a * p)) = Sext(Low(a) * p)
  <2>. DEFINE la == Low(a)
  <2>1. la \in Int /\ Low(la) = Low(a) /\ p \in Int
    BY <1>1, <1>2
  <2>. HIDE DEF la, p
  <2>2. Low(la * p) = Low(a * p) /\ la * p \in Int /\ a * p \in Int
    <3>1. a \in Int
      BY <1>2
    <3>. QED BY <2>1, <3>1, LowTimes
  <2>3. Sext(la * p) = Sext(a * p) /\ Sext(Wrap(a * p)) = Sext(a * p)
    BY <2>2, SextLow, LowAgain
  <2>. QED BY <2>3 DEF la
<1>. QED BY <1>3, <1>4, <1>5, <1>6

\* Division of words by the instructions on doublewords.
LEMMA WordQuotients ==
    ASSUME NEW a \in Words, NEW b \in Words, Low(b) # 0
    PROVE  /\ OpWord(a, b).divuw = Sext(OpQuotients(Low(a), Low(b)).divu)
           /\ OpWord(a, b).remuw = Sext(OpRemainders(Low(a), Low(b)).remu)
           /\ OpWord(a, b).remw # Dead => OpWord(a, b).remw = OpRemainders(Sext(a), Sext(b)).rem
<1>1. /\ OpWord(a, b).divuw = Sext(Low(a) \div Low(b)) /\ OpWord(a, b).remuw = Sext(Low(a) % Low(b))
      /\ OpWord(a, b).remw = Overflow(SignedW(a), SignedW(b), WordBits, Sext(Remainder(SignedW(a), SignedW(b))))
  BY WordFields
<1>2. OpQuotients(Low(a), Low(b)).divu = Low(a) \div Low(b) /\ OpRemainders(Low(a), Low(b)).remu = Low(a) % Low(b)
  BY DEF OpQuotients, OpRemainders
<1>3. /\ OpRemainders(Sext(a), Sext(b)).rem =
            IF Sext(b) = 0 THEN Size - 1
            ELSE Overflow(Signed(Sext(a)), Signed(Sext(b)), Xlen,
                          Wrap(Remainder(Signed(Sext(a)), Signed(Sext(b)))))
  BY DEF OpRemainders
<1>. DEFINE s == SignedW(a)
            t == SignedW(b)
            r == Remainder(s, t)
            H == 2 ^ (WordBits - 1)
            G == 2 ^ (Xlen - 1)
<1>4. a \in Int /\ b \in Int
  BY ResultSets
<1>5. Signed(Sext(a)) = s /\ Signed(Sext(b)) = t
  BY <1>4, LowAgain
<1>6. s \in -H .. H - 1 /\ t \in -H .. H - 1 /\ H \in Nat \ {0} /\ G \in Nat \ {0} /\ t # 0
  BY <1>4, SignedRanges
<1>7. H < G
  <2>1. WordBits - 1 \in Nat /\ (Xlen - 1) - (WordBits - 1) \in Nat \ {0} /\ Xlen - 1 \in Nat
        /\ WordBits - 1 \in 0 .. Xlen - 1
    BY Widths
  <2>. DEFINE k == (Xlen - 1) - (WordBits - 1)
  <2>2. G = H * 2 ^ k
    BY <2>1, PowerSplit
  <2>3. 2 ^ k \in Nat /\ 2 ^ k >= k + 1
    BY <2>1, PowerType
  <2>. DEFINE K == 2 ^ k
  <2>. HIDE DEF H, G, K
  <2>4. K \in Nat /\ K >= 2 /\ G = H * K
    <3>1. k \in Nat /\ k >= 1
      BY <2>1
    <3>. HIDE DEF k
    <3>. QED BY <2>2, <2>3, <3>1 DEF K
  <2>5. PICK c \in Nat : K = 2 + c
    <3>1. K - 2 \in Nat /\ K = 2 + (K - 2)
      BY <2>4
    <3>. QED BY <3>1
  <2>6. H * (2 + c) = 2 * H + H * c /\ H * c \in Nat
    BY <1>6, SMTT(30)
  <2>. QED BY <1>6, <2>4, <2>5, <2>6
<1>8. r \in -H .. H - 1 /\ r \in Int
  <2>. HIDE DEF H, s, t
  <2>1. r \in -H .. H - 1
    BY <1>6, QuotientFits
  <2>. HIDE DEF r
  <2>. QED BY <1>6, <2>1
<1>9. Sext(r) = Wrap(r)
  <2>. HIDE DEF r
  <2>. QED BY <1>8, SextOfWord
<1>10. Sext(b) # 0
  <2>1. Sext(b) = 0 => SignedW(Sext(b)) = SignedW(0)
    OBVIOUS
  <2>2. SignedW(Sext(b)) = t
    BY <1>4, LowAgain
  <2>. QED BY <1>6, <2>1, <2>2, WrapOfZero
<1>11. Overflow(s, t, Xlen, Wrap(r)) = Wrap(r)
  <2>1. s # -G
    <3>. HIDE DEF s, H, G
    <3>. QED BY <1>6, <1>7
  <2>. QED BY <2>1 DEF Overflow
<1>12. Overflow(s, t, WordBits, Sext(r)) = Dead \/ Overflow(s, t, WordBits, Sext(r)) = Sext(r)
  BY DEF Overflow
<1>. HIDE DEF r, s, t
<1>13. OpRemainders(Sext(a), Sext(b)).rem = Overflow(s, t, Xlen, Wrap(r))
  BY <1>3, <1>5, <1>10 DEF r
<1>14. OpWord(a, b).remw = Overflow(s, t, WordBits, Sext(r))
  BY <1>1 DEF r, s, t
<1>. QED BY <1>1, <1>2, <1>9, <1>11, <1>12, <1>13, <1>14

\* The W instructions and the full-width ones agree.
LEMMA WordFormsHold ==
    ASSUME gpr[1] \in Words, gpr[2] \in Words
    PROVE  WordForms
<1>. DEFINE a == gpr[1]
            b == gpr[2]
            n == b % WordBits
<1>. HIDE DEF a, b
<1>0. a \in Words /\ b \in Words
  BY DEF a, b
<1>1. \A op \in SignExtending :
        /\ OpWord(a, b)[op] = OpWord(Sext(a), Low(b))[op]
        /\ OpWord(a, b)[op] # Dead => OpWord(a, b)[op] = Sext(OpWord(a, b)[op])
  BY <1>0, WordInstructions DEF IsWordForm
<1>2. /\ OpWord(a, b).addw = Sext(OpSums(a, b).add)
      /\ OpWord(a, b).subw = Sext(OpSums(a, b).sub)
      /\ OpWord(a, b).mulw = Sext(OpSums(a, b).mul)
      /\ OpWordImm(a, b).addiw = OpWord(a, b).addw
  BY <1>0, WordArithmetic
<1>3. /\ OpWord(a, b).sllw = Sext(OpSums(a, n).sll)
      /\ OpWord(a, b).sraw = OpQuotients(Sext(a), n).sra
      /\ OpWord(a, b).srlw = Sext(OpQuotients(Low(a), n).srl)
      /\ OpWordImm(a, b).slliw = OpWord(a, b).sllw /\ OpWordImm(a, b).srliw = OpWord(a, b).srlw
      /\ OpWordImm(a, b).sraiw = OpWord(a, b).sraw /\ OpWordImm(a, b).roriw = OpWord(a, b).rorw
      /\ OpWordImm(a, b).slliuw = OpSums(Low(a), n).sll
  BY <1>0, WordShifts
<1>4. Low(b) # 0 =>
        /\ OpWord(a, b).divuw = Sext(OpQuotients(Low(a), Low(b)).divu)
        /\ OpWord(a, b).remuw = Sext(OpRemainders(Low(a), Low(b)).remu)
        /\ OpWord(a, b).remw # Dead => OpWord(a, b).remw = OpRemainders(Sext(a), Sext(b)).rem
  BY <1>0, WordQuotients
<1>5. <<OpWordImm(a, b).addiw, OpWordImm(a, b).slliw, OpWordImm(a, b).srliw, OpWordImm(a, b).sraiw,
        OpWordImm(a, b).roriw>>
      = <<OpWord(a, b).addw, OpWord(a, b).sllw, OpWord(a, b).srlw, OpWord(a, b).sraw, OpWord(a, b).rorw>>
  BY <1>2, <1>3, Zenon
<1>. QED BY <1>1, <1>2, <1>3, <1>4, <1>5, Zenon DEF WordForms, a, b

\* Comparisons, branches, minima and maxima agree.
LEMMA OrdersAgree ==
    ASSUME gpr[1] \in Words, gpr[2] \in Words
    PROVE  OrderAgrees
<1>. DEFINE a == gpr[1]
            b == gpr[2]
            x == Signed(a)
            y == Signed(b)
<1>. HIDE DEF a, b
<1>1. a \in Int /\ b \in Int /\ x \in Int /\ y \in Int
  <2>1. a \in Words /\ b \in Words
    BY DEF a, b
  <2>2. a \in Int /\ b \in Int
    BY <2>1, ResultSets
  <2>. QED BY <2>2, SignedType
<1>2. /\ Taken(a, b).beq = (a = b) /\ Taken(a, b).bne = (a # b)
      /\ Taken(a, b).blt = (x < y) /\ Taken(a, b).bge = (x >= y)
      /\ Taken(a, b).bltu = (a < b) /\ Taken(a, b).bgeu = (a >= b)
  BY Zenon DEF Taken
<1>3. OpSums(a, b).slt = Flag(x < y) /\ OpSums(a, b).sltu = Flag(a < b)
      /\ OpImm(a, b).slti = Flag(x < y) /\ OpImm(a, b).sltiu = Flag(a < b)
  BY Zenon DEF OpSums, OpImm
<1>4. /\ OpQuotients(a, b).min = (IF y < x THEN b ELSE a) /\ OpQuotients(a, b).minu = (IF b < a THEN b ELSE a)
      /\ OpRemainders(a, b).max = (IF x < y THEN b ELSE a) /\ OpRemainders(a, b).maxu = (IF a < b THEN b ELSE a)
  BY Zenon DEF OpQuotients, OpRemainders
<1>5. a = b \/ x # y
  <2>. SUFFICES ASSUME x = y PROVE a = b
    OBVIOUS
  <2>1. x % Size = a % Size /\ y % Size = b % Size
    BY <1>1, SignedRanges
  <2>2. a % Size = a /\ b % Size = b
    <3>1. a \in 0 .. Size - 1 /\ b \in 0 .. Size - 1
      BY Sizes DEF a, b
    <3>. QED BY <3>1, Sizes, SmallRemainder
  <2>. QED BY <2>1, <2>2
<1>. HIDE DEF x, y
<1>6. (x < y) # (x >= y) /\ (a < b) # (a >= b) /\ (a = b) # (a # b)
  BY <1>1
<1>7. (x < y) = (Flag(x < y) = 1) /\ (a < b) = (Flag(a < b) = 1)
  BY DEF Flag
<1>8. /\ (IF y < x THEN b ELSE a) = (IF x < y THEN a ELSE b)
      /\ (IF b < a THEN b ELSE a) = (IF a < b THEN a ELSE b)
  BY <1>1, <1>5
<1>9. /\ Taken(a, b).beq # Taken(a, b).bne /\ Taken(a, b).blt # Taken(a, b).bge
      /\ Taken(a, b).bltu # Taken(a, b).bgeu
  BY <1>2, <1>6, Zenon
<1>10. /\ Taken(a, b).blt = (OpSums(a, b).slt = 1) /\ Taken(a, b).bltu = (OpSums(a, b).sltu = 1)
       /\ <<OpImm(a, b).slti, OpImm(a, b).sltiu>> = <<OpSums(a, b).slt, OpSums(a, b).sltu>>
  BY <1>2, <1>3, <1>7, Zenon
<1>11. /\ OpQuotients(a, b).min = IF Taken(a, b).blt THEN a ELSE b
       /\ OpRemainders(a, b).max = IF Taken(a, b).blt THEN b ELSE a
       /\ OpQuotients(a, b).minu = IF Taken(a, b).bltu THEN a ELSE b
       /\ OpRemainders(a, b).maxu = IF Taken(a, b).bltu THEN b ELSE a
  BY <1>2, <1>4, <1>8, Zenon
<1>. QED BY <1>9, <1>10, <1>11, Zenon DEF OrderAgrees, a, b
-----------------------------------------------------------------------------
(* The bits of parts of a word.                                            *)

\* A bit of a word.
LEMMA BitIs ==
    ASSUME NEW x \in Words, NEW i
    PROVE  i \in Bits[x] <=> i \in 0 .. Xlen - 1 /\ (x \div 2 ^ i) % 2 = 1
BY DEF Bits

\* The bits of a word shifted right ...
LEMMA HighBits ==
    ASSUME NEW x \in Words, NEW p \in 0 .. Xlen
    PROVE  /\ x \div 2 ^ p \in Words
           /\ \A i \in Nat : i \in Bits[x \div 2 ^ p] <=> i + p \in Bits[x]
<1>0. p \in Nat /\ Xlen \in Nat /\ x \in Nat
  BY Widths, ResultSets
<1>. DEFINE P == 2 ^ p
            y == x \div P
<1>1. y \in Words /\ P \in Nat \ {0}
  BY <1>0, ShiftType
<1>2. ASSUME NEW i \in Nat PROVE x \div 2 ^ (i + p) = y \div 2 ^ i
  <2>. DEFINE Q == 2 ^ i
  <2>1. Q \in Nat \ {0} /\ 2 ^ (p + i) = P * Q /\ p + i = i + p
    BY <1>0, PowerType, PowerSum
  <2>2. x \div (P * Q) = (x \div P) \div Q
    <3>. HIDE DEF P, Q
    <3>. QED BY <1>0, <1>1, <2>1, SplitRemainder
  <2>. QED BY <2>1, <2>2
<1>. HIDE DEF y, P
<1>3. ASSUME NEW i \in Nat PROVE i \in Bits[y] <=> i + p \in Bits[x]
  <2>1. i \in Bits[y] <=> i \in 0 .. Xlen - 1 /\ (y \div 2 ^ i) % 2 = 1
    BY <1>1, BitIs
  <2>2. i + p \in Bits[x] <=> i + p \in 0 .. Xlen - 1 /\ (x \div 2 ^ (i + p)) % 2 = 1
    BY BitIs
  <2>3. (i + p \in 0 .. Xlen - 1) => i \in 0 .. Xlen - 1
    BY <1>0
  <2>4. ASSUME i \in Bits[y] PROVE i + p \in 0 .. Xlen - 1
    <3>1. y \in 0 .. 2 ^ (Xlen - p) - 1
      <4>1. x \in 0 .. 2 ^ Xlen - 1
        BY DEF Words, Size
      <4>. QED BY <1>0, <4>1, SplitIs DEF y, P
    <3>2. Bits[y] \in SUBSET (0 .. (Xlen - p) - 1)
      <4>1. Xlen - p \in 0 .. Xlen
        BY <1>0
      <4>. QED BY <3>1, <4>1, BitsBelow
    <3>. QED BY <1>0, <2>4, <3>2
  <2>5. x \div 2 ^ (i + p) = y \div 2 ^ i
    BY <1>2
  <2>. HIDE DEF y
  <2>. QED BY <2>1, <2>2, <2>3, <2>4, <2>5, Zenon
<1>. QED BY <1>1, <1>3 DEF y, P

\* ... and of its low part.
LEMMA LowBits ==
    ASSUME NEW x \in Words, NEW p \in 0 .. Xlen
    PROVE  /\ x % 2 ^ p \in Words
           /\ \A i : i \in Bits[x % 2 ^ p] <=> i \in 0 .. p - 1 /\ i \in Bits[x]
<1>0. p \in Nat /\ Xlen \in Nat /\ x \in Nat
  BY Widths, ResultSets
<1>. DEFINE P == 2 ^ p
            l == x % P
<1>1. l \in Words /\ P \in Nat \ {0}
  BY <1>0, ShiftType
<1>2. Bits[l] \in SUBSET (0 .. p - 1)
  <2>1. x \in 0 .. 2 ^ Xlen - 1
    BY DEF Words, Size
  <2>2. l \in 0 .. P - 1
    BY <1>0, <2>1, SplitIs
  <2>. QED BY <2>2, BitsBelow
<1>3. ASSUME NEW i \in 0 .. p - 1 PROVE i \in Bits[l] <=> i \in Bits[x]
  <2>. DEFINE L == 2 ^ i
              R == 2 ^ (p - i - 1)
              q == x \div L
              E == 2 * R
  <2>1. L \in Nat \ {0} /\ R \in Nat \ {0} /\ P = L * E /\ E \in Nat \ {0}
    <3>1. i \in Nat /\ p - i - 1 \in Nat /\ p - i \in Nat /\ (p - i - 1) + 1 = p - i /\ i \in 0 .. p
      BY <1>0
    <3>2. P = L * 2 ^ (p - i)
      BY <1>0, <3>1, PowerSplit
    <3>3. 2 ^ ((p - i - 1) + 1) = 2 * 2 ^ (p - i - 1)
      BY <3>1, PowerStep
    <3>4. L \in Nat \ {0} /\ R \in Nat \ {0}
      BY <3>1, PowerType
    <3>5. 2 ^ (p - i) = E
      BY <3>1, <3>3
    <3>. HIDE DEF R
    <3>. QED BY <3>2, <3>4, <3>5
  <2>. HIDE DEF L, P, E, R
  <2>2. q \in Nat /\ x % (L * E) = (x % L) + L * (q % E)
    BY <1>0, <2>1, DivisionNat, SplitRemainder
  <2>. HIDE DEF q
  <2>3. q % E \in 0 .. E - 1 /\ x % L \in 0 .. L - 1
    BY <1>0, <2>1, <2>2, DivisionNat
  <2>4. l \div L = q % E
    <3>. DEFINE r == x % L
                s == q % E
    <3>1. r \in 0 .. L - 1 /\ s \in Int
      <4>. HIDE DEF s
      <4>1. s \in 0 .. E - 1
        BY <2>3 DEF s
      <4>. QED BY <2>1, <2>3, <4>1
    <3>. HIDE DEF r, s
    <3>2. (L * s + r) \div L = s
      BY <2>1, <3>1, DivisionUnique
    <3>3. l = L * s + r
      <4>1. L * s \in Int
        BY <2>1, <3>1, SMTT(30)
      <4>2. l = r + L * s
        BY <2>1, <2>2 DEF l, r, s
      <4>. QED BY <2>1, <3>1, <4>1, <4>2
    <3>. QED BY <3>2, <3>3 DEF s
  <2>5. (q % (2 * R)) % 2 = q % 2
    <3>1. 2 \in Nat \ {0} /\ q \in Int
      BY <2>2
    <3>. QED BY <2>1, <3>1, RemainderOfRemainder
  <2>6. (l \div L) % 2 = q % 2
    BY <2>4, <2>5 DEF E
  <2>7. i \in 0 .. Xlen - 1
    BY <1>0
  <2>8. i \in Bits[l] <=> i \in 0 .. Xlen - 1 /\ (l \div L) % 2 = 1
    BY <1>1, BitIs DEF L
  <2>9. i \in Bits[x] <=> i \in 0 .. Xlen - 1 /\ q % 2 = 1
    BY BitIs DEF L, q
  <2>. QED BY <2>6, <2>8, <2>9, Zenon
<1>. HIDE DEF l
<1>4. \A i : i \in Bits[l] <=> i \in 0 .. p - 1 /\ i \in Bits[x]
  BY <1>2, <1>3
<1>. QED BY <1>1, <1>4 DEF l, P

\* Words with the same bits are the same.
LEMMA SameBits ==
    ASSUME NEW x \in Words, NEW y \in Words, Bits[x] = Bits[y]
    PROVE  x = y
BY BitsOfValue, Zenon

\* The bits of 2^m - 1.
LEMMA AllOnes ==
    ASSUME NEW m \in 0 .. Xlen
    PROVE  2 ^ m - 1 \in Words /\ Bits[2 ^ m - 1] = 0 .. m - 1
<1>. DEFINE M == 2 ^ m
            x == M - 1
<1>0. m \in Nat /\ Xlen \in Nat /\ M \in Nat \ {0}
  BY Widths, PowerType
<1>1. x \in 0 .. M - 1
  <2>. HIDE DEF M
  <2>. QED BY <1>0
<1>2. x \in Words /\ Bits[x] \in SUBSET (0 .. m - 1)
  BY <1>1, BitsBelow
<1>3. ASSUME NEW i \in 0 .. m - 1 PROVE i \in Bits[x]
  <2>. DEFINE L == 2 ^ i
              R == 2 ^ (m - i - 1)
              E == 2 * R
  <2>1. L \in Nat \ {0} /\ R \in Nat \ {0} /\ M = L * E /\ E \in Nat \ {0}
    <3>1. i \in Nat /\ m - i - 1 \in Nat /\ m - i \in Nat /\ (m - i - 1) + 1 = m - i /\ i \in 0 .. m
      BY <1>0
    <3>2. M = L * 2 ^ (m - i)
      BY <1>0, <3>1, PowerSplit
    <3>3. 2 ^ ((m - i - 1) + 1) = 2 * 2 ^ (m - i - 1)
      BY <3>1, PowerStep
    <3>4. L \in Nat \ {0} /\ R \in Nat \ {0}
      BY <3>1, PowerType
    <3>5. 2 ^ (m - i) = E
      BY <3>1, <3>3
    <3>. HIDE DEF R
    <3>. QED BY <3>2, <3>4, <3>5
  <2>. HIDE DEF L, M, R
  <2>2. x = L * (E - 1) + (L - 1) /\ E - 1 \in Int /\ L - 1 \in 0 .. L - 1
    <3>1. L * (E - 1) = L * E - L /\ L * E \in Int
      <4>. HIDE DEF E
      <4>. QED BY <2>1, SMTT(30)
    <3>. HIDE DEF E
    <3>. QED BY <2>1, <3>1
  <2>3. (L * (E - 1) + (L - 1)) \div L = E - 1
    <3>. HIDE DEF E
    <3>. QED BY <2>1, <2>2, DivisionUnique
  <2>4. (E - 1) % 2 = 1
    BY <2>1
  <2>5. (x \div L) % 2 = 1
    BY <2>2, <2>3, <2>4
  <2>6. i \in 0 .. Xlen - 1
    BY <1>0
  <2>. HIDE DEF x
  <2>. QED BY <1>2, <2>5, <2>6, BitIs DEF L
<1>. HIDE DEF x
<1>4. Bits[x] = 0 .. m - 1
  BY <1>2, <1>3
<1>. QED BY <1>2, <1>4 DEF x

\* The bits of 0 and of 1.
LEMMA BitsOfZero ==
    /\ Bits[0] = {} /\ Value({}) = 0
    /\ \A x \in Words : x = 0 <=> Bits[x] = {}
    /\ Bits[1] = {0}
<1>1. 2 ^ 0 = 1 /\ 2 ^ 1 = 2 /\ 0 \in 0 .. Xlen /\ 1 \in 0 .. Xlen
  BY Widths
<1>2. Bits[0] = {}
  <2>1. Bits[2 ^ 0 - 1] = 0 .. 0 - 1
    BY <1>1, AllOnes
  <2>2. 2 ^ 0 - 1 = 0 /\ 0 .. 0 - 1 = {}
    BY <1>1
  <2>. QED BY <2>1, <2>2
<1>3. Bits[1] = {0}
  <2>1. Bits[2 ^ 1 - 1] = 0 .. 1 - 1
    BY <1>1, AllOnes
  <2>2. 2 ^ 1 - 1 = 1 /\ 0 .. 1 - 1 = {0}
    BY <1>1
  <2>. QED BY <2>1, <2>2
<1>4. 0 \in Words
  BY ResultSets
<1>5. Value({}) = 0
  BY <1>2, <1>4, BitsOfValue
<1>. QED BY <1>2, <1>3, <1>4, <1>5, SameBits

\* The bits of a complement.
LEMMA NotBits ==
    ASSUME NEW x \in Words
    PROVE  Not(x) \in Words /\ Bits[Not(x)] = (0 .. Xlen - 1) \ Bits[x]
<1>. DEFINE y == Not(x)
<1>0. Xlen \in Nat /\ x \in 0 .. Size - 1 /\ Size \in Nat \ {0} /\ y \in Words /\ y = Size - 1 - x
  BY Widths, Sizes, BooleansType DEF Not
<1>. HIDE DEF y
<1>1. ASSUME NEW i \in 0 .. Xlen - 1 PROVE i \in Bits[y] <=> i \notin Bits[x]
  <2>. DEFINE L == 2 ^ i
              R == 2 ^ (Xlen - i - 1)
              E == 2 * R
              q == x \div L
              r == x % L
  <2>1. L \in Nat \ {0} /\ R \in Nat \ {0} /\ Size = L * E /\ E \in Nat \ {0}
    <3>1. i \in Nat /\ Xlen - i - 1 \in Nat /\ Xlen - i \in Nat /\ (Xlen - i - 1) + 1 = Xlen - i /\ i \in 0 .. Xlen
      BY <1>0
    <3>2. Size = L * 2 ^ (Xlen - i)
      BY <1>0, <3>1, PowerSplit DEF Size
    <3>3. 2 ^ ((Xlen - i - 1) + 1) = 2 * 2 ^ (Xlen - i - 1)
      BY <3>1, PowerStep
    <3>4. L \in Nat \ {0} /\ R \in Nat \ {0}
      BY <3>1, PowerType
    <3>5. 2 ^ (Xlen - i) = E
      BY <3>1, <3>3
    <3>. HIDE DEF R
    <3>. QED BY <3>2, <3>4, <3>5
  <2>. HIDE DEF L, R
  <2>2. q \in Nat /\ r \in 0 .. L - 1 /\ x = L * q + r
    <3>1. x \in Nat
      BY <1>0
    <3>. QED BY <2>1, <3>1, DivisionNat
  <2>. HIDE DEF q, r
  <2>3. y = L * (E - 1 - q) + (L - 1 - r) /\ E - 1 - q \in Int /\ L - 1 - r \in 0 .. L - 1
    <3>1. L * (E - 1 - q) = L * E - L - L * q /\ L * E \in Int /\ L * q \in Int
      <4>. HIDE DEF E
      <4>. QED BY <2>1, <2>2, SMTT(30)
    <3>. HIDE DEF E
    <3>. QED BY <1>0, <2>1, <2>2, <3>1
  <2>4. (L * (E - 1 - q) + (L - 1 - r)) \div L = E - 1 - q
    <3>. HIDE DEF E
    <3>. QED BY <2>1, <2>3, DivisionUnique
  <2>5. (E - 1 - q) % 2 = 1 <=> q % 2 # 1
    BY <2>1, <2>2
  <2>6. i \in Bits[y] <=> (y \div L) % 2 = 1
    BY <1>0, BitIs DEF L
  <2>7. i \in Bits[x] <=> q % 2 = 1
    BY BitIs DEF L, q
  <2>. QED BY <2>3, <2>4, <2>5, <2>6, <2>7
<1>2. Bits[y] \in SUBSET (0 .. Xlen - 1)
  BY <1>0, BitsOfValue
<1>. QED BY <1>0, <1>1, <1>2 DEF y

\* The bits of two parts.
LEMMA BitsOfJoin ==
    ASSUME NEW p \in 0 .. Xlen, NEW h \in 0 .. 2 ^ (Xlen - p) - 1, NEW l \in 0 .. 2 ^ p - 1
    PROVE  /\ Join(h, l, p) \in Words /\ h \in Words /\ l \in Words
           /\ Bits[l] \in SUBSET (0 .. p - 1) /\ Bits[h] \in SUBSET (0 .. Xlen - p - 1)
           /\ \A i \in 0 .. p - 1 : i \in Bits[Join(h, l, p)] <=> i \in Bits[l]
           /\ \A i \in Nat : i + p \in Bits[Join(h, l, p)] <=> i \in Bits[h]
           /\ Bits[Join(h, l, p)] = Bits[l] \cup {i + p : i \in Bits[h]}
<1>0. Xlen \in Nat /\ p \in Nat /\ Xlen - p \in 0 .. Xlen
  BY Widths
<1>. DEFINE x == Join(h, l, p)
<1>1. x \in Words /\ x \div 2 ^ p = h /\ x % 2 ^ p = l
  BY <1>0, JoinIs DEF Words, Size
<1>2. h \in Words /\ l \in Words /\ Bits[l] \in SUBSET (0 .. p - 1) /\ Bits[h] \in SUBSET (0 .. (Xlen - p) - 1)
  BY <1>0, BitsBelow
<1>. HIDE DEF x
<1>3. \A i \in 0 .. p - 1 : i \in Bits[x] <=> i \in Bits[l]
  BY <1>1, LowBits, Zenon
<1>4. \A i \in Nat : i + p \in Bits[x] <=> i \in Bits[h]
  BY <1>1, HighBits, Zenon
<1>5. Bits[x] = Bits[l] \cup {i + p : i \in Bits[h]}
  <2>1. Bits[x] \in SUBSET (0 .. Xlen - 1)
    BY <1>1, BitsOfValue
  <2>2. ASSUME NEW i \in Bits[x] PROVE i \in Bits[l] \cup {j + p : j \in Bits[h]}
    <3>1. CASE i < p
      <4>1. i \in 0 .. p - 1
        BY <2>1, <3>1
      <4>. QED BY <1>3, <4>1
    <3>2. CASE i >= p
      <4>1. i - p \in Nat /\ (i - p) + p = i
        BY <1>0, <2>1, <3>2
      <4>2. i - p \in Bits[h]
        BY <1>4, <4>1
      <4>. QED BY <4>1, <4>2
    <3>. QED BY <1>0, <2>1, <3>1, <3>2
  <2>3. ASSUME NEW i \in Bits[l] PROVE i \in Bits[x]
    BY <1>2, <1>3
  <2>4. ASSUME NEW i \in Bits[h] PROVE i + p \in Bits[x]
    <3>1. i \in Nat
      BY <1>2
    <3>. QED BY <1>4, <3>1
  <2>. QED BY <2>2, <2>3, <2>4
<1>6. (Xlen - p) - 1 = Xlen - p - 1
  BY <1>0
<1>. QED BY <1>1, <1>2, <1>3, <1>4, <1>5, <1>6 DEF x

\* ... and their number.
LEMMA CountOfJoin ==
    ASSUME NEW p \in 0 .. Xlen, NEW h \in 0 .. 2 ^ (Xlen - p) - 1, NEW l \in 0 .. 2 ^ p - 1
    PROVE  /\ Cardinality(Bits[Join(h, l, p)]) = Cardinality(Bits[h]) + Cardinality(Bits[l])
           /\ Cardinality(Bits[h]) \in Nat /\ Cardinality(Bits[l]) \in Nat
<1>0. Xlen \in Nat /\ p \in Nat /\ Xlen - p \in 0 .. Xlen /\ (Xlen - p) - 1 = Xlen - p - 1
  BY Widths
<1>. DEFINE A == Bits[l]
            H == Bits[h]
            B == {i + p : i \in H}
<1>1. Bits[Join(h, l, p)] = A \cup B /\ A \in SUBSET (0 .. p - 1) /\ H \in SUBSET (0 .. Xlen - p - 1)
  BY BitsOfJoin
<1>. HIDE DEF A, H
<1>2. IsFiniteSet(A) /\ IsFiniteSet(H) /\ Cardinality(A) \in Nat /\ Cardinality(H) \in Nat
  <2>1. IsFiniteSet(A) /\ IsFiniteSet(H)
    BY <1>0, <1>1, CountType
  <2>. QED BY <2>1, FS_CardinalityType
<1>3. A \cap B = {}
  <2>1. \A i \in H : i + p \notin 0 .. p - 1
    BY <1>0, <1>1
  <2>. QED BY <1>1, <2>1
<1>4. IsFiniteSet(B) /\ Cardinality(B) = Cardinality(H)
  <2>. DEFINE f == [i \in H |-> i + p]
  <2>1. f \in Bijection(H, B)
    <3>1. f \in [H -> B]
      OBVIOUS
    <3>2. \A i, j \in H : f[i] = f[j] => i = j
      <4>1. \A i \in H : i \in Nat
        BY <1>1
      <4>. QED BY <1>0, <4>1
    <3>3. \A j \in B : \E i \in H : f[i] = j
      OBVIOUS
    <3>4. DOMAIN f = H
      OBVIOUS
    <3>. HIDE DEF f, B
    <3>. QED BY <3>1, <3>2, <3>3, <3>4, Zenon DEF Bijection, Injection, Surjection, IsInjective
  <2>2. ExistsBijection(H, B)
    BY <2>1 DEF ExistsBijection
  <2>. HIDE DEF B
  <2>. QED BY <1>2, <2>2, FS_Bijection
<1>. HIDE DEF B
<1>5. Cardinality(A \cup B) = Cardinality(A) + Cardinality(B) - Cardinality(A \cap B)
  BY <1>2, <1>4, FS_Union
<1>6. Cardinality(A \cap B) = 0
  BY <1>3, FS_EmptySet
<1>7. Cardinality(A \cup B) = Cardinality(H) + Cardinality(A)
  BY <1>2, <1>4, <1>5, <1>6
<1>. QED BY <1>1, <1>2, <1>7 DEF A, H
-----------------------------------------------------------------------------
(* Rotations, counts and idioms.                                           *)

\* Rotations by n undo each other and keep the number of ones.
LEMMA RotationsUndo ==
    ASSUME NEW n \in 0 .. Xlen, NEW x \in Words
    PROVE  /\ Rol(x, n, Xlen) \in Words /\ Ror(x, n, Xlen) \in Words
           /\ Ror(Rol(x, n, Xlen), n, Xlen) = x
           /\ Rol(Ror(x, n, Xlen), n, Xlen) = x
           /\ Cardinality(Bits[Rol(x, n, Xlen)]) = Cardinality(Bits[x])
<1>. DEFINE k == Xlen - n
            N == 2 ^ n
            M == 2 ^ k
            h == x \div M
            l == x % M
            u == x \div N
            v == x % N
            left == Rol(x, n, Xlen)
            right == Ror(x, n, Xlen)
<1>1. Xlen \in Nat /\ k \in 0 .. Xlen /\ Xlen - k = n /\ x \in 0 .. 2 ^ Xlen - 1
  BY Widths DEF Words, Size
<1>2. left = Join(l, h, n) /\ right = Join(v, u, k) /\ left \in Words /\ right \in Words
  <2>1. /\ right = Join(v, u, k) /\ right \in 0 .. 2 ^ Xlen - 1
        /\ left = Join(l, h, n) /\ left \in 0 .. 2 ^ Xlen - 1
    BY <1>1, RotationIs
  <2>. QED BY <2>1 DEF Words, Size
<1>3. h \in 0 .. N - 1 /\ l \in 0 .. M - 1 /\ x = Join(h, l, k)
  BY <1>1, SplitIs
<1>4. u \in 0 .. M - 1 /\ v \in 0 .. N - 1 /\ x = Join(u, v, n)
  BY <1>1, SplitIs
<1>5. Join(l, h, n) \div N = l /\ Join(l, h, n) % N = h
  <2>. HIDE DEF h, l
  <2>. QED BY <1>1, <1>3, JoinIs
<1>6. Join(v, u, k) \div M = v /\ Join(v, u, k) % M = u
  <2>. HIDE DEF u, v
  <2>. QED BY <1>1, <1>4, JoinIs
<1>7. Ror(left, n, Xlen) = x
  <2>1. Ror(left, n, Xlen) = Join(left % N, left \div N, k)
    <3>1. left \in 0 .. 2 ^ Xlen - 1
      BY <1>2 DEF Words, Size
    <3>. HIDE DEF left
    <3>. QED BY <1>1, <3>1, RotationIs
  <2>. QED BY <1>2, <1>3, <1>5, <2>1
<1>8. Rol(right, n, Xlen) = x
  <2>1. Rol(right, n, Xlen) = Join(right % M, right \div M, n)
    <3>1. right \in 0 .. 2 ^ Xlen - 1
      BY <1>2 DEF Words, Size
    <3>. HIDE DEF right
    <3>. QED BY <1>1, <3>1, RotationIs
  <2>. QED BY <1>2, <1>4, <1>6, <2>1
<1>9. Cardinality(Bits[left]) = Cardinality(Bits[x])
  <2>. HIDE DEF h, l, left
  <2>1. /\ Cardinality(Bits[Join(l, h, n)]) = Cardinality(Bits[l]) + Cardinality(Bits[h])
        /\ Cardinality(Bits[l]) \in Nat /\ Cardinality(Bits[h]) \in Nat
    BY <1>1, <1>3, CountOfJoin
  <2>2. Cardinality(Bits[Join(h, l, k)]) = Cardinality(Bits[h]) + Cardinality(Bits[l])
    BY <1>1, <1>3, CountOfJoin
  <2>. QED BY <1>2, <1>3, <2>1, <2>2
<1>. QED BY <1>2, <1>7, <1>8, <1>9

\* A rotation right is one left by the rest of the width.
LEMMA RotationsMeet ==
    ASSUME NEW b \in Words, NEW x \in Words
    PROVE  /\ b % Xlen \in 0 .. Xlen
           /\ Ror(x, b % Xlen, Xlen) = Rol(x, ((Xlen - b) % Xlen) % Xlen, Xlen)
<1>. DEFINE n == b % Xlen
            q == b \div Xlen
            m == (Xlen - b) % Xlen
<1>1. Xlen \in Nat \ {0} /\ b \in Nat /\ x \in 0 .. 2 ^ Xlen - 1 /\ Xlen \in 0 .. Xlen /\ 0 \in 0 .. Xlen
  BY Widths, Sizes DEF Size
<1>2. n \in 0 .. Xlen - 1 /\ q \in Nat /\ b = Xlen * q + n
  BY <1>1, DivisionNat
<1>. HIDE DEF n, q
<1>3. Xlen * q \in Int /\ Xlen * (1 - q) = Xlen - Xlen * q /\ Xlen * (-q) = -(Xlen * q)
  BY <1>1, <1>2, SMTT(30)
<1>4. m = IF n = 0 THEN 0 ELSE Xlen - n
  <2>1. CASE n = 0
    <3>1. Xlen - b = Xlen * (1 - q) + 0 /\ 1 - q \in Int /\ 0 \in 0 .. Xlen - 1
      BY <1>1, <1>2, <1>3, <2>1
    <3>2. (Xlen * (1 - q) + 0) % Xlen = 0
      BY <1>1, <3>1, DivisionUnique
    <3>. QED BY <2>1, <3>1, <3>2
  <2>2. CASE n # 0
    <3>1. Xlen - b = Xlen * (-q) + (Xlen - n) /\ -q \in Int /\ Xlen - n \in 0 .. Xlen - 1
      BY <1>1, <1>2, <1>3, <2>2
    <3>2. (Xlen * (-q) + (Xlen - n)) % Xlen = Xlen - n
      BY <1>1, <3>1, DivisionUnique
    <3>. QED BY <2>2, <3>1, <3>2
  <2>. QED BY <2>1, <2>2
<1>. HIDE DEF m
<1>5. m \in 0 .. Xlen - 1 /\ m % Xlen = m
  <2>1. m \in 0 .. Xlen - 1
    BY <1>1, <1>2, <1>4
  <2>. QED BY <1>1, <2>1, SmallRemainder
<1>6. Ror(x, n, Xlen) = Rol(x, m, Xlen)
  <2>0. n \in 0 .. Xlen /\ m \in 0 .. Xlen
    BY <1>1, <1>2, <1>5
  <2>1. /\ Ror(x, n, Xlen) = Join(x % 2 ^ n, x \div 2 ^ n, Xlen - n)
        /\ Rol(x, m, Xlen) = Join(x % 2 ^ (Xlen - m), x \div 2 ^ (Xlen - m), m)
    BY <1>1, <2>0, RotationIs
  <2>2. CASE n = 0
    <3>1. m = 0 /\ Xlen - m = Xlen /\ Xlen - n = Xlen /\ 2 ^ 0 = 1 /\ 2 ^ Xlen \in Nat \ {0}
      BY <1>1, <1>4, <2>2, PowerType
    <3>2. x % 1 = 0 /\ x \div 1 = x
      BY <1>1
    <3>3. x % 2 ^ Xlen = x /\ x \div 2 ^ Xlen = 0
      BY <1>1, <3>1, SmallRemainder
    <3>4. Join(0, x, Xlen) = 0 * 2 ^ Xlen + x /\ Join(x, 0, 0) = x * 1 + 0
      BY <3>1 DEF Join
    <3>5. 0 * 2 ^ Xlen + x = x * 1 + 0
      <4>. DEFINE S == 2 ^ Xlen
      <4>1. S \in Nat /\ x \in Nat
        BY <1>1, <3>1
      <4>. HIDE DEF S
      <4>2. \A y \in Nat : 0 * y = 0
        OBVIOUS
      <4>3. 0 * S = 0
        BY <4>1, <4>2, Zenon
      <4>4. 0 + x = x * 1 + 0
        BY <4>1
      <4>. QED BY <4>3, <4>4 DEF S
    <3>6. Ror(x, n, Xlen) = Join(0, x, Xlen) /\ Rol(x, m, Xlen) = Join(x, 0, 0)
      BY <2>1, <2>2, <3>1, <3>2, <3>3
    <3>. QED BY <3>4, <3>5, <3>6
  <2>3. CASE n # 0
    <3>1. m = Xlen - n /\ Xlen - m = n
      BY <1>1, <1>2, <1>4, <2>3
    <3>. QED BY <2>1, <3>1
  <2>. QED BY <2>2, <2>3
<1>7. n \in 0 .. Xlen
  BY <1>1, <1>2
<1>. QED BY <1>5, <1>6, <1>7 DEF n, m

\* rev8
Reversed(x) == FromBytes([k \in Bytes |-> Byte(x, Xlen \div ByteBits - 1 - k)])

\* Reversing the bytes makes a word, and twice its own inverse.
LEMMA ReversedTwice ==
    ASSUME NEW x \in Words
    PROVE  Reversed(x) \in Words /\ Reversed(Reversed(x)) = x
<1>. DEFINE n == Xlen \div ByteBits
            y == Reversed(x)
            B == 2 ^ ByteBits
            f == [k \in Bytes |-> Byte(x, n - 1 - k)]
<1>1. n \in Nat /\ Bytes = 0 .. n - 1
  BY Widths DEF Bytes
<1>. HIDE DEF n
<1>2. \A k \in Bytes : n - 1 - k \in Bytes /\ n - 1 - (n - 1 - k) = k
  BY <1>1
<1>3. \A k \in Bytes : Byte(x, k) \in 0 .. B - 1
  BY WordOfBytes
<1>4. f \in [Bytes -> 0 .. B - 1]
  <2>. HIDE DEF B
  <2>. QED BY <1>2, <1>3
<1>5. y = FromBytes(f)
  BY DEF Reversed, n
<1>6. y \in Words /\ \A k \in Bytes : Byte(y, k) = f[k]
  <2>. HIDE DEF f
  <2>. QED BY <1>4, <1>5, BytesOfWord
<1>. HIDE DEF y
<1>7. \A k \in Bytes : Byte(y, n - 1 - k) = Byte(x, k)
  BY <1>2, <1>6
<1>8. [k \in Bytes |-> Byte(y, n - 1 - k)] = [k \in Bytes |-> Byte(x, k)]
  BY <1>7
<1>9. Reversed(y) = FromBytes([k \in Bytes |-> Byte(x, k)])
  BY <1>8 DEF Reversed, n
<1>. QED BY <1>6, <1>9, WordOfBytes DEF y

\* The bits of a byte.
LEMMA BitsOfByte ==
    ASSUME NEW x \in Words, NEW k \in Bytes, NEW j \in 0 .. ByteBits - 1
    PROVE  Byte(x, k) \in Words /\ (j \in Bits[Byte(x, k)] <=> j + k * ByteBits \in Bits[x])
<1>. DEFINE n == Xlen \div ByteBits
            p == k * ByteBits
            y == x \div 2 ^ p
<1>1. /\ n \in Nat /\ Bytes = 0 .. n - 1 /\ n * ByteBits = Xlen /\ Xlen \in Nat /\ ByteBits \in Nat
      /\ ByteBits \in 0 .. Xlen
  BY Widths DEF Bytes
<1>. HIDE DEF n
<1>2. p \in 0 .. Xlen
  <2>1. PICK c \in Nat : n = k + c
    <3>1. n - k \in Nat /\ n = k + (n - k)
      BY <1>1
    <3>. QED BY <3>1
  <2>2. (k + c) * ByteBits = k * ByteBits + c * ByteBits /\ c * ByteBits \in Nat /\ k * ByteBits \in Nat
    <3>1. k \in Nat
      BY <1>1
    <3>. QED BY <1>1, <2>1, <3>1, SMTT(30)
  <2>. QED BY <1>1, <2>1, <2>2
<1>. HIDE DEF p
<1>3. y \in Words /\ \A i \in Nat : i \in Bits[y] <=> i + p \in Bits[x]
  BY <1>2, HighBits
<1>. HIDE DEF y
<1>4. y % 2 ^ ByteBits \in Words /\ \A i : i \in Bits[y % 2 ^ ByteBits] <=> i \in 0 .. ByteBits - 1 /\ i \in Bits[y]
  BY <1>1, <1>3, LowBits
<1>5. Byte(x, k) = y % 2 ^ ByteBits
  BY DEF Byte, y, p
<1>6. j \in Nat
  BY <1>1
<1>. QED BY <1>3, <1>4, <1>5, <1>6, Zenon DEF p

\* orc.b
Filled(x) == FromBytes([k \in Bytes |-> IF Byte(x, k) = 0 THEN 0 ELSE 2 ^ ByteBits - 1])

\* Filling the bytes that are not zero keeps every one, and twice is once.
LEMMA FilledTwice ==
    ASSUME NEW x \in Words
    PROVE  /\ Filled(x) \in Words /\ Filled(Filled(x)) = Filled(x)
           /\ Bits[x] \subseteq Bits[Filled(x)]
<1>. DEFINE B == 2 ^ ByteBits
            y == Filled(x)
            f == [k \in Bytes |-> IF Byte(x, k) = 0 THEN 0 ELSE B - 1]
<1>1. B \in Nat /\ B > 1 /\ ByteBits \in Nat \ {0}
  BY Widths, PowerType
<1>2. f \in [Bytes -> 0 .. B - 1] /\ y = FromBytes(f)
  <2>1. y = FromBytes(f)
    BY DEF Filled
  <2>. HIDE DEF B, y
  <2>. QED BY <1>1, <2>1
<1>3. y \in Words /\ \A k \in Bytes : Byte(y, k) = f[k]
  <2>. HIDE DEF f
  <2>. QED BY <1>2, BytesOfWord
<1>. HIDE DEF y
<1>4. [k \in Bytes |-> IF Byte(y, k) = 0 THEN 0 ELSE B - 1] = f
  <2>1. \A k \in Bytes : (IF Byte(y, k) = 0 THEN 0 ELSE B - 1) = f[k]
    <3>. HIDE DEF B
    <3>. QED BY <1>1, <1>3
  <2>. HIDE DEF B
  <2>. QED BY <2>1
<1>5. Filled(y) = y
  BY <1>2, <1>4 DEF Filled
<1>6. ASSUME NEW i \in Bits[x] PROVE i \in Bits[y]
  <2>. DEFINE n == Xlen \div ByteBits
              k == i \div ByteBits
              j == i % ByteBits
  <2>1. n \in Nat /\ Bytes = 0 .. n - 1 /\ n * ByteBits = Xlen /\ Xlen \in Nat
    BY Widths DEF Bytes
  <2>2. i \in 0 .. Xlen - 1 /\ i \in Nat
    BY <2>1, BitsOfValue
  <2>3. k \in Nat /\ j \in 0 .. ByteBits - 1 /\ i = ByteBits * k + j
    BY <1>1, <2>2, DivisionNat
  <2>. HIDE DEF k, j, n
  <2>4. k < n
    <3>. SUFFICES ASSUME k >= n PROVE FALSE
      BY <2>1, <2>3
    <3>1. PICK c \in Nat : k = n + c
      <4>1. k - n \in Nat /\ k = n + (k - n)
        BY <2>1, <2>3
      <4>. QED BY <4>1
    <3>2. ByteBits * (n + c) = n * ByteBits + ByteBits * c /\ ByteBits * c \in Nat /\ n * ByteBits \in Nat
      BY <1>1, <2>1, <3>1, SMTT(30)
    <3>. QED BY <1>1, <2>1, <2>2, <2>3, <3>1, <3>2
  <2>5. k \in Bytes /\ i = j + k * ByteBits
    <3>1. ByteBits * k = k * ByteBits /\ k * ByteBits \in Int
      BY <1>1, <2>3, SMTT(30)
    <3>. QED BY <1>1, <2>1, <2>3, <2>4, <3>1
  <2>6. j \in Bits[Byte(x, k)]
    BY <2>3, <2>5, BitsOfByte
  <2>7. Byte(x, k) # 0
    BY <2>6, BitsOfZero
  <2>8. Byte(y, k) = 2 ^ ByteBits - 1
    BY <1>3, <2>5, <2>7
  <2>9. Bits[Byte(y, k)] = 0 .. ByteBits - 1
    <3>1. ByteBits \in 0 .. Xlen
      BY Widths
    <3>. QED BY <2>8, <3>1, AllOnes
  <2>10. j \in Bits[Byte(y, k)] <=> j + k * ByteBits \in Bits[y]
    <3>1. y \in Words /\ k \in Bytes /\ j \in 0 .. ByteBits - 1
      BY <1>3, <2>3, <2>5
    <3>. QED BY <3>1, BitsOfByte, Zenon
  <2>. QED BY <2>3, <2>5, <2>9, <2>10, Zenon
<1>. QED BY <1>3, <1>5, <1>6 DEF y

\* The ones of two words, counted in the numbers they stand for.
LEMMA AndPlusOr ==
    ASSUME NEW x \in Words, NEW y \in Words
    PROVE  And(x, y) + Or(x, y) = x + y
<1>. DEFINE A == Bits[x]
            B == Bits[y]
            f(S) == [i \in 0 .. Xlen - 1 |-> IF i \in S THEN 2 ^ i ELSE 0]
            h == [i \in 0 .. Xlen - 1 |-> f(A)[i] + f(B)[i]]
<1>1. Xlen \in Nat /\ Value(A) = x /\ Value(B) = y
  BY Widths, BitsOfValue
<1>. HIDE DEF A, B
<1>2. \A S : Value(S) = Total(f(S), Xlen)
  BY DEF Value
<1>3. ASSUME NEW i \in 0 .. Xlen - 1 PROVE 2 ^ i \in Int
  <2>1. i \in Nat
    BY <1>1
  <2>. QED BY <2>1, PowerType
<1>4. \A S : Terms(f(S), Xlen) /\ \A i \in 0 .. Xlen - 1 : f(S)[i] = IF i \in S THEN 2 ^ i ELSE 0
  BY <1>3 DEF Terms
<1>. HIDE DEF f
<1>5. \A i \in 0 .. Xlen - 1 : h[i] = f(A)[i] + f(B)[i]
  OBVIOUS
<1>6. \A i \in 0 .. Xlen - 1 : h[i] = f(A \cap B)[i] + f(A \cup B)[i]
  <2>. TAKE i \in 0 .. Xlen - 1
  <2>. DEFINE p == 2 ^ i
  <2>1. /\ f(A)[i] = (IF i \in A THEN p ELSE 0) /\ f(B)[i] = (IF i \in B THEN p ELSE 0)
        /\ f(A \cap B)[i] = (IF i \in A \cap B THEN p ELSE 0)
        /\ f(A \cup B)[i] = (IF i \in A \cup B THEN p ELSE 0)
    BY <1>4, Zenon
  <2>2. p \in Int
    BY <1>3
  <2>. HIDE DEF p, h
  <2>3. h[i] = f(A)[i] + f(B)[i]
    BY <1>5
  <2>. QED BY <2>1, <2>2, <2>3
<1>. HIDE DEF h
<1>7. Total(h, Xlen) = Total(f(A), Xlen) + Total(f(B), Xlen)
  BY <1>1, <1>4, <1>5, TotalAdds
<1>8. Total(h, Xlen) = Total(f(A \cap B), Xlen) + Total(f(A \cup B), Xlen)
  BY <1>1, <1>4, <1>6, TotalAdds
<1>. QED BY <1>1, <1>2, <1>7, <1>8 DEF And, Or, A, B

\* The bits below the lowest one are those that a - 1 has and a has not.
LEMMA BitsBelowLowest ==
    ASSUME NEW a \in Words, a # 0
    PROVE  /\ Min(Bits[a]) \in 0 .. Xlen - 1
           /\ a - 1 \in Words /\ Bits[a - 1] \ Bits[a] = 0 .. Min(Bits[a]) - 1
<1>. DEFINE m == Min(Bits[a])
            M == 2 ^ m
            h == a \div M
            l == a % M
            k == Xlen - m
            K == 2 ^ k
<1>1. Xlen \in Nat /\ Bits[a] \in SUBSET (0 .. Xlen - 1) /\ Bits[a] # {} /\ a \in 0 .. 2 ^ Xlen - 1
  BY Widths, BitsOfValue, BitsOfZero DEF Words, Size
<1>2. m \in Bits[a] /\ \A i \in Bits[a] : m <= i
  BY <1>1, LeastAndGreatest
<1>. HIDE DEF m
<1>3. m \in 0 .. Xlen /\ m \in 0 .. Xlen - 1 /\ m \in Nat /\ Xlen - m = k /\ k \in 0 .. Xlen /\ k \in Nat
  BY <1>1, <1>2
<1>4. M \in Nat \ {0} /\ K \in Nat \ {0}
  BY <1>3, PowerType
<1>5. h \in Words /\ l \in Words /\ h \in 0 .. K - 1 /\ l \in 0 .. M - 1 /\ a = Join(h, l, m)
  BY <1>1, <1>3, SplitIs, ShiftType
<1>6. l = 0
  <2>1. \A i : i \in Bits[l] <=> i \in 0 .. m - 1 /\ i \in Bits[a]
    BY <1>3, LowBits
  <2>2. Bits[l] = {}
    BY <1>2, <1>3, <2>1
  <2>. QED BY <1>5, <2>2, BitsOfZero
<1>7. h # 0 /\ 0 \in Bits[h]
  <2>1. 0 \in Nat /\ 0 + m = m
    BY <1>3
  <2>2. 0 \in Bits[h] <=> 0 + m \in Bits[a]
    BY <1>3, <2>1, HighBits
  <2>. QED BY <1>2, <2>1, <2>2, BitsOfZero
<1>. HIDE DEF h, l, M, K
<1>8. a - 1 = Join(h - 1, M - 1, m) /\ a = Join(h, 0, m) /\ h - 1 \in 0 .. K - 1 /\ M - 1 \in 0 .. M - 1
  <2>1. h \in Nat /\ h - 1 \in 0 .. K - 1 /\ M - 1 \in 0 .. M - 1
    BY <1>4, <1>5, <1>7
  <2>2. (h - 1) * M = h * M - M /\ h * M \in Int
    BY <1>4, <2>1, SMTT(30)
  <2>3. a = h * M + 0 /\ Join(h - 1, M - 1, m) = (h - 1) * M + (M - 1)
    BY <1>5, <1>6 DEF Join, M
  <2>4. (h - 1) * M + (M - 1) = a - 1
    BY <1>4, <2>2, <2>3
  <2>. QED BY <1>5, <1>6, <2>1, <2>3, <2>4
<1>9. /\ Join(h - 1, M - 1, m) \in Words /\ h - 1 \in Words
      /\ Bits[Join(h - 1, M - 1, m)] = Bits[M - 1] \cup {i + m : i \in Bits[h - 1]}
  <2>. DEFINE hh == h - 1
              ll == M - 1
  <2>1. hh \in 0 .. 2 ^ (Xlen - m) - 1 /\ ll \in 0 .. 2 ^ m - 1
    BY <1>8 DEF K, M
  <2>. HIDE DEF hh, ll
  <2>2. /\ Join(hh, ll, m) \in Words /\ hh \in Words
        /\ Bits[Join(hh, ll, m)] = Bits[ll] \cup {i + m : i \in Bits[hh]}
    BY <1>3, <2>1, BitsOfJoin
  <2>. QED BY <2>2 DEF hh, ll
<1>10. Bits[a] = {i + m : i \in Bits[h]}
  <2>1. 0 \in 0 .. 2 ^ m - 1 /\ h \in 0 .. 2 ^ (Xlen - m) - 1
    BY <1>4, <1>5 DEF K, M
  <2>2. Bits[Join(h, 0, m)] = Bits[0] \cup {i + m : i \in Bits[h]}
    BY <1>3, <2>1, BitsOfJoin
  <2>. QED BY <1>8, <2>2, BitsOfZero
<1>11. Bits[M - 1] = 0 .. m - 1
  BY <1>3, AllOnes DEF M
<1>12. Bits[h - 1] \subseteq Bits[h]
  <2>. SUFFICES ASSUME NEW i \in Bits[h - 1] PROVE i \in Bits[h]
    OBVIOUS
  <2>1. i \in 0 .. Xlen - 1 /\ ((h - 1) \div 2 ^ i) % 2 = 1
    BY <1>9, BitIs
  <2>2. (h \div 2 ^ 0) % 2 = 1
    BY <1>5, <1>7, BitIs, Zenon
  <2>3. h % 2 = 1
    <3>1. 2 ^ 0 = 1 /\ h \in Nat
      BY <1>5, ResultSets
    <3>2. h \div 1 = h
      BY <3>1
    <3>. QED BY <2>2, <3>1, <3>2
  <2>4. CASE i = 0
    BY <1>7, <2>4
  <2>5. CASE i # 0
    <3>. DEFINE L == 2 ^ (i - 1)
                q == h \div 2
    <3>1. i - 1 \in Nat /\ (i - 1) + 1 = i /\ 2 ^ ((i - 1) + 1) = 2 * L /\ L \in Nat \ {0}
      <4>1. i - 1 \in Nat /\ (i - 1) + 1 = i
        BY <1>1, <2>1, <2>5
      <4>. QED BY <4>1, PowerStep, PowerType
    <3>2. 2 ^ i = 2 * L
      BY <3>1
    <3>. HIDE DEF L
    <3>3. h - 1 \in Nat /\ h \in Nat /\ (h - 1) \div 2 = q
      BY <1>4, <1>5, <1>8, <2>3
    <3>4. (h - 1) \div (2 * L) = ((h - 1) \div 2) \div L /\ h \div (2 * L) = (h \div 2) \div L
      <4>1. 2 \in Nat \ {0}
        OBVIOUS
      <4>. QED BY <3>1, <3>3, <4>1, SplitRemainder, Zenon
    <3>5. (h \div 2 ^ i) % 2 = 1
      BY <2>1, <3>2, <3>3, <3>4
    <3>. QED BY <1>5, <2>1, <3>5, BitIs
  <2>. QED BY <2>4, <2>5
<1>13. Bits[a - 1] \ Bits[a] = 0 .. m - 1
  <2>1. Bits[a - 1] = (0 .. m - 1) \cup {i + m : i \in Bits[h - 1]}
    BY <1>8, <1>9, <1>11
  <2>2. \A i \in 0 .. m - 1 : i \notin Bits[a]
    BY <1>2, <1>3
  <2>3. \A i \in Bits[h - 1] : i + m \in Bits[a]
    BY <1>10, <1>12
  <2>. QED BY <2>1, <2>2, <2>3
<1>. QED BY <1>3, <1>8, <1>9, <1>13 DEF m

\* Shifting down to the highest one leaves 1.
LEMMA HighestOne ==
    ASSUME NEW a \in Words, a # 0
    PROVE  Max(Bits[a]) \in 0 .. Xlen - 1 /\ a \div 2 ^ Max(Bits[a]) = 1
<1>. DEFINE m == Max(Bits[a])
            y == a \div 2 ^ m
<1>1. Xlen \in Nat /\ Bits[a] \in SUBSET (0 .. Xlen - 1) /\ Bits[a] # {}
  BY Widths, BitsOfValue, BitsOfZero
<1>2. m \in Bits[a] /\ \A i \in Bits[a] : i <= m
  BY <1>1, LeastAndGreatest
<1>. HIDE DEF m
<1>3. m \in 0 .. Xlen - 1 /\ m \in 0 .. Xlen
  BY <1>1, <1>2
<1>4. y \in Words /\ \A i \in Nat : i \in Bits[y] <=> i + m \in Bits[a]
  BY <1>3, HighBits
<1>. HIDE DEF y
<1>5. Bits[y] \in SUBSET (0 .. Xlen - 1)
  BY <1>4, BitsOfValue
<1>6. \A i \in Nat : i \in Bits[y] <=> i = 0
  <2>. TAKE i \in Nat
  <2>1. ASSUME i \in Bits[y] PROVE i = 0
    <3>1. i + m <= m
      BY <1>2, <1>4, <2>1
    <3>. QED BY <1>3, <3>1
  <2>2. ASSUME i = 0 PROVE i \in Bits[y]
    <3>1. 0 + m = m
      BY <1>3
    <3>. QED BY <1>2, <1>4, <2>2, <3>1
  <2>. QED BY <2>1, <2>2
<1>7. Bits[y] = {0}
  BY <1>5, <1>6
<1>8. 1 \in Words
  BY ResultSets
<1>9. y = 1
  BY <1>4, <1>7, <1>8, BitsOfZero, SameBits
<1>. QED BY <1>3, <1>9 DEF m, y

\* The instructions that the rest is about.
LEMMA BitFields ==
    ASSUME NEW a, NEW b
    PROVE  /\ OpSums(a, b).rol = Rol(a, b % Xlen, Xlen) /\ OpSums(a, b).add = Wrap(a + b)
           /\ OpQuotients(a, b).ror = Ror(a, b % Xlen, Xlen)
           /\ OpQuotients(a, b).srl = a \div 2 ^ (b % Xlen)
           /\ OpImm(a, b).rori = Ror(a, b % Xlen, Xlen)
           /\ OpRemainders(a, b).and = And(a, b) /\ OpRemainders(a, b).or = Or(a, b)
           /\ OpRemainders(a, b).andn = And(a, Not(b))
           /\ OpUnary(a).cpop = Cardinality(Bits[a])
           /\ OpUnary(a).rev8 = Reversed(a) /\ OpUnary(a).orcb = Filled(a)
           /\ OpUnary(a).ctz = (IF a = 0 THEN Size - 1 ELSE Min(Bits[a]))
           /\ OpUnary(a).clz = (IF a = 0 THEN Size - 1 ELSE Xlen - 1 - Max(Bits[a]))
<1>1. OpSums(a, b).rol = Rol(a, b % Xlen, Xlen) /\ OpSums(a, b).add = Wrap(a + b)
  BY DEF OpSums
<1>2. OpQuotients(a, b).ror = Ror(a, b % Xlen, Xlen) /\ OpQuotients(a, b).srl = a \div 2 ^ (b % Xlen)
  BY DEF OpQuotients
<1>3. OpImm(a, b).rori = Ror(a, b % Xlen, Xlen)
  BY DEF OpImm
<1>4. /\ OpRemainders(a, b).and = And(a, b) /\ OpRemainders(a, b).or = Or(a, b)
      /\ OpRemainders(a, b).andn = And(a, Not(b))
  BY DEF OpRemainders
<1>5. /\ OpUnary(a).cpop = Cardinality(Bits[a])
      /\ OpUnary(a).rev8 = Reversed(a) /\ OpUnary(a).orcb = Filled(a)
      /\ OpUnary(a).ctz = (IF a = 0 THEN Size - 1 ELSE Min(Bits[a]))
      /\ OpUnary(a).clz = (IF a = 0 THEN Size - 1 ELSE Xlen - 1 - Max(Bits[a]))
  BY DEF OpUnary, Reversed, Filled
<1>. QED BY <1>1, <1>2, <1>3, <1>4, <1>5

\* Rotations undo each other, and counts agree with the idioms for them.
LEMMA BitsAgreeInWords ==
    ASSUME gpr[1] \in Words, gpr[2] \in Words
    PROVE  BitsAgree
<1>. DEFINE a == gpr[1]
            b == gpr[2]
            n == b % Xlen
            left == OpSums(a, b).rol
            right == OpQuotients(a, b).ror
<1>1. a \in Words /\ b \in Words /\ n \in 0 .. Xlen /\ Xlen \in Nat \ {0}
  BY RotationsMeet, Widths
<1>. HIDE DEF a, b
<1>2. left = Rol(a, n, Xlen) /\ right = Ror(a, n, Xlen)
  BY BitFields
<1>3. OpQuotients(left, b).ror = a /\ OpSums(right, b).rol = a
  <2>1. Ror(Rol(a, n, Xlen), n, Xlen) = a /\ Rol(Ror(a, n, Xlen), n, Xlen) = a
    <3>. HIDE DEF n
    <3>. QED BY <1>1, RotationsUndo
  <2>2. OpQuotients(left, b).ror = Ror(left, n, Xlen) /\ OpSums(right, b).rol = Rol(right, n, Xlen)
    <3>. HIDE DEF left, right
    <3>. QED BY BitFields
  <2>. QED BY <1>2, <2>1, <2>2
<1>4. OpUnary(left).cpop = OpUnary(a).cpop
  <2>1. Cardinality(Bits[Rol(a, n, Xlen)]) = Cardinality(Bits[a])
    <3>. HIDE DEF n
    <3>. QED BY <1>1, RotationsUndo
  <2>2. OpUnary(left).cpop = Cardinality(Bits[left]) /\ OpUnary(a).cpop = Cardinality(Bits[a])
    <3>. HIDE DEF left
    <3>. QED BY BitFields
  <2>. QED BY <1>2, <2>1, <2>2
<1>5. right = OpImm(a, b).rori
  BY <1>2, BitFields
<1>6. right = OpSums(a, (Xlen - b) % Xlen).rol
  <2>1. OpSums(a, (Xlen - b) % Xlen).rol = Rol(a, ((Xlen - b) % Xlen) % Xlen, Xlen)
    BY BitFields
  <2>2. Ror(a, b % Xlen, Xlen) = Rol(a, ((Xlen - b) % Xlen) % Xlen, Xlen)
    BY <1>1, RotationsMeet
  <2>. QED BY <1>2, <2>1, <2>2
<1>7. OpUnary(OpUnary(a).rev8).rev8 = a
  BY <1>1, BitFields, ReversedTwice
<1>8. OpUnary(OpUnary(a).orcb).orcb = OpUnary(a).orcb /\ OpRemainders(a, OpUnary(a).orcb).andn = 0
  <2>. DEFINE c == Filled(a)
  <2>1. c \in Words /\ Filled(c) = c /\ Bits[a] \subseteq Bits[c]
    BY <1>1, FilledTwice
  <2>2. OpUnary(a).orcb = c
    BY BitFields
  <2>. HIDE DEF c
  <2>3. OpUnary(c).orcb = c /\ OpRemainders(a, c).andn = And(a, Not(c))
    BY <2>1, BitFields
  <2>4. Bits[a] \cap Bits[Not(c)] = {}
    BY <2>1, NotBits
  <2>5. And(a, Not(c)) = 0
    BY <2>4, BitsOfZero DEF And
  <2>. QED BY <2>2, <2>3, <2>5
<1>9. ASSUME a # 0
      PROVE  OpUnary(a).ctz = OpUnary(OpRemainders(Wrap(a - 1), a).andn).cpop
  <2>. DEFINE m == Min(Bits[a])
              c == And(a - 1, Not(a))
  <2>1. m \in 0 .. Xlen - 1 /\ a - 1 \in Words /\ Bits[a - 1] \ Bits[a] = 0 .. m - 1
    BY <1>1, <1>9, BitsBelowLowest
  <2>2. OpUnary(a).ctz = m
    BY <1>9, BitFields
  <2>3. Wrap(a - 1) = a - 1
    <3>1. a - 1 \in Int
      BY <1>1, ResultSets
    <3>. QED BY <2>1, <3>1, WrapType
  <2>4. OpRemainders(a - 1, a).andn = c
    BY BitFields
  <2>. HIDE DEF m
  <2>5. Bits[c] = 0 .. m - 1
    <3>1. Not(a) \in Words /\ Bits[Not(a)] = (0 .. Xlen - 1) \ Bits[a]
      BY <1>1, NotBits
    <3>2. Bits[a - 1] \in SUBSET (0 .. Xlen - 1)
      BY <2>1, BitsOfValue
    <3>3. Bits[c] = Bits[a - 1] \cap Bits[Not(a)]
      BY <2>1, <3>1, BooleansType
    <3>. QED BY <2>1, <3>1, <3>2, <3>3
  <2>6. OpUnary(c).cpop = Cardinality(Bits[c])
    BY BitFields
  <2>7. Cardinality(0 .. m - 1) = m
    <3>1. 0 \in Int /\ m - 1 \in Int /\ m \in Nat
      BY <1>1, <2>1
    <3>2. Cardinality(0 .. m - 1) = IF 0 > m - 1 THEN 0 ELSE (m - 1) - 0 + 1
      BY <3>1, FS_Interval, Zenon
    <3>. QED BY <3>1, <3>2
  <2>. HIDE DEF c
  <2>. QED BY <2>2, <2>3, <2>4, <2>5, <2>6, <2>7
<1>10. ASSUME a # 0
       PROVE  OpQuotients(a, Xlen - 1 - OpUnary(a).clz).srl = 1
  <2>. DEFINE m == Max(Bits[a])
  <2>1. m \in 0 .. Xlen - 1 /\ a \div 2 ^ m = 1
    BY <1>1, <1>10, HighestOne
  <2>2. OpUnary(a).clz = Xlen - 1 - m
    BY <1>10, BitFields
  <2>. HIDE DEF m
  <2>3. Xlen - 1 - (Xlen - 1 - m) = m /\ m % Xlen = m
    <3>1. m % Xlen = m
      BY <1>1, <2>1, SmallRemainder
    <3>. QED BY <1>1, <2>1, <3>1
  <2>4. OpQuotients(a, m).srl = a \div 2 ^ (m % Xlen)
    BY BitFields
  <2>. QED BY <2>1, <2>2, <2>3, <2>4
<1>11. OpSums(OpRemainders(a, b).and, OpRemainders(a, b).or).add = OpSums(a, b).add
  <2>1. And(a, b) + Or(a, b) = a + b
    BY <1>1, AndPlusOr
  <2>2. OpRemainders(a, b).and = And(a, b) /\ OpRemainders(a, b).or = Or(a, b)
    BY BitFields
  <2>3. OpSums(And(a, b), Or(a, b)).add = Wrap(And(a, b) + Or(a, b)) /\ OpSums(a, b).add = Wrap(a + b)
    BY BitFields
  <2>. QED BY <2>1, <2>2, <2>3
<1>. HIDE DEF left, right, n
<1>. QED BY <1>3, <1>4, <1>5, <1>6, <1>7, <1>8, <1>9, <1>10, <1>11, Zenon DEF BitsAgree, a, b, left, right

\* The instructions that compute the same thing on different paths of
\* execRiscv_ compute the same, for every content of the registers: the W forms
\* and the full-width ones, comparisons and branches, rotations and counts.
THEOREM InstructionFormsAgree == HartSpec => []FormsAgree
<1>1. AtomicTypeOK => FormsAgree
  <2>. SUFFICES ASSUME AtomicTypeOK PROVE FormsAgree
    OBVIOUS
  <2>1. gpr[1] \in Words /\ gpr[2] \in Words
    BY DEF AtomicTypeOK, TypeOK, Regs
  <2>. QED BY <2>1, WordFormsHold, OrdersAgree, BitsAgreeInWords DEF FormsAgree
<1>. QED BY <1>1, RegistersTypeCorrect, PTL
-----------------------------------------------------------------------------
(* The AMOs on a doubleword and on its halves.                             *)

\* A half is a word with its bits below WordBits.
LEMMA InHalf ==
    ASSUME NEW x \in Words
    PROVE  /\ x \in Halves <=> Bits[x] \subseteq 0 .. WordBits - 1
           /\ x \in Halves => Low(x) = x
<1>1. /\ WordBits \in 0 .. Xlen /\ Halves = 0 .. 2 ^ WordBits - 1 /\ 2 ^ WordBits \in Nat \ {0} /\ x \in Nat
  BY Widths, Sizes, ResultSets DEF Halves
<1>2. x \in Halves => Bits[x] \subseteq 0 .. WordBits - 1
  BY <1>1, BitsBelow
<1>3. ASSUME Bits[x] \subseteq 0 .. WordBits - 1 PROVE x \in Halves
  <2>. DEFINE y == x % 2 ^ WordBits
  <2>1. y \in Words /\ \A i : i \in Bits[y] <=> i \in 0 .. WordBits - 1 /\ i \in Bits[x]
    BY <1>1, LowBits
  <2>2. y \in Halves
    <3>. DEFINE W == 2 ^ WordBits
    <3>. HIDE DEF W
    <3>1. x % W \in 0 .. W - 1
      BY <1>1, DivisionNat DEF W
    <3>. QED BY <1>1, <3>1 DEF W
  <2>. HIDE DEF y
  <2>3. Bits[y] = Bits[x]
    BY <1>3, <2>1
  <2>. QED BY <2>1, <2>2, <2>3, SameBits
<1>4. ASSUME x \in Halves PROVE Low(x) = x
  <2>. DEFINE W == 2 ^ WordBits
  <2>1. W \in Nat \ {0} /\ x \in 0 .. W - 1 /\ Low(x) = x % W
    BY <1>1, <1>4 DEF Low
  <2>. HIDE DEF W
  <2>. QED BY <2>1, SmallRemainder
<1>. QED BY <1>2, <1>3, <1>4

\* The words of a doubleword, stored one after the other.
LEMMA HalvesAre ==
    ASSUME NEW x \in Words, NEW l \in Halves, NEW h \in Halves
    PROVE  WithWord(WithWord(x, 0, l), 1, h) = Join(h, l, WordBits)
<1>. DEFINE y == WithWord(x, 0, l)
<1>1. y = Join(Word(x, 1), l, WordBits) /\ y \in Words
  BY WithWordIs
<1>2. Word(y, 0) = l
  <2>1. /\ WordBits \in 0 .. Xlen /\ Xlen \in Nat /\ Word(x, 1) \in 0 .. 2 ^ (Xlen - WordBits) - 1
        /\ l \in 0 .. 2 ^ WordBits - 1
    <3>1. Xlen - WordBits = WordBits
      BY Widths
    <3>. QED BY <3>1, Widths, WordIs DEF Halves
  <2>2. Join(Word(x, 1), l, WordBits) % 2 ^ WordBits = l
    BY <2>1, JoinIs
  <2>3. Word(y, 0) = y % 2 ^ WordBits
    <3>. HIDE DEF y
    <3>. QED BY <1>1, WordIs
  <2>. QED BY <1>1, <2>2, <2>3
<1>. HIDE DEF y
<1>3. WithWord(y, 1, h) = Join(h, Word(y, 0), WordBits)
  BY <1>1, WithWordIs
<1>. QED BY <1>2, <1>3 DEF y

\* Boolean operations on doublewords are those on their words.
LEMMA BooleansOfHalves ==
    ASSUME NEW x \in Words, NEW y \in Words
    PROVE  /\ Or(Word(x, 0), Word(y, 0)) \in Halves /\ Or(Word(x, 1), Word(y, 1)) \in Halves
           /\ Or(x, y) = Join(Or(Word(x, 1), Word(y, 1)), Or(Word(x, 0), Word(y, 0)), WordBits)
           /\ And(Word(x, 0), Word(y, 0)) \in Halves /\ And(Word(x, 1), Word(y, 1)) \in Halves
           /\ And(x, y) = Join(And(Word(x, 1), Word(y, 1)), And(Word(x, 0), Word(y, 0)), WordBits)
<1>. DEFINE w == WordBits
            xl == Word(x, 0)
            xh == Word(x, 1)
            yl == Word(y, 0)
            yh == Word(y, 1)
<1>1. w \in Nat \ {0} /\ w \in 0 .. Xlen /\ Xlen - w = w /\ Halves = 0 .. 2 ^ w - 1 /\ Xlen \in Nat
  BY Widths DEF Halves
<1>2. xl \in Halves /\ xh \in Halves /\ x = Join(xh, xl, w)
  BY WordIs
<1>3. yl \in Halves /\ yh \in Halves /\ y = Join(yh, yl, w)
  BY WordIs
<1>. HIDE DEF xl, xh, yl, yh
<1>4. ASSUME NEW h \in Halves, NEW l \in Halves
      PROVE  /\ h \in Words /\ l \in Words /\ Join(h, l, w) \in Words
             /\ Bits[Join(h, l, w)] = Bits[l] \cup {i + w : i \in Bits[h]}
             /\ Bits[h] \subseteq 0 .. w - 1 /\ Bits[l] \subseteq 0 .. w - 1
  BY <1>1, BitsOfJoin
<1>5. /\ xl \in Words /\ xh \in Words /\ Bits[xl] \subseteq 0 .. w - 1 /\ Bits[xh] \subseteq 0 .. w - 1
      /\ Bits[x] = Bits[xl] \cup {i + w : i \in Bits[xh]}
  BY <1>2, <1>4
<1>6. /\ yl \in Words /\ yh \in Words /\ Bits[yl] \subseteq 0 .. w - 1 /\ Bits[yh] \subseteq 0 .. w - 1
      /\ Bits[y] = Bits[yl] \cup {i + w : i \in Bits[yh]}
  BY <1>3, <1>4
<1>7. /\ Or(xl, yl) \in Words /\ Bits[Or(xl, yl)] = Bits[xl] \cup Bits[yl]
      /\ Or(xh, yh) \in Words /\ Bits[Or(xh, yh)] = Bits[xh] \cup Bits[yh]
      /\ Or(x, y) \in Words /\ Bits[Or(x, y)] = Bits[x] \cup Bits[y]
  BY <1>5, <1>6, BooleansType
<1>8. /\ And(xl, yl) \in Words /\ Bits[And(xl, yl)] = Bits[xl] \cap Bits[yl]
      /\ And(xh, yh) \in Words /\ Bits[And(xh, yh)] = Bits[xh] \cap Bits[yh]
      /\ And(x, y) \in Words /\ Bits[And(x, y)] = Bits[x] \cap Bits[y]
  BY <1>5, <1>6, BooleansType
<1>9. Or(xl, yl) \in Halves /\ Or(xh, yh) \in Halves /\ And(xl, yl) \in Halves /\ And(xh, yh) \in Halves
  <2>1. \A v \in Words : Bits[v] \subseteq 0 .. w - 1 => v \in Halves
    BY InHalf
  <2>. QED BY <1>5, <1>6, <1>7, <1>8, <2>1
<1>10. Or(x, y) = Join(Or(xh, yh), Or(xl, yl), w)
  <2>1. /\ Join(Or(xh, yh), Or(xl, yl), w) \in Words
        /\ Bits[Join(Or(xh, yh), Or(xl, yl), w)] = Bits[Or(xl, yl)] \cup {i + w : i \in Bits[Or(xh, yh)]}
    BY <1>4, <1>9
  <2>2. Bits[Or(x, y)] = Bits[Join(Or(xh, yh), Or(xl, yl), w)]
    BY <1>5, <1>6, <1>7, <2>1
  <2>. QED BY <1>7, <2>1, <2>2, SameBits
<1>11. And(x, y) = Join(And(xh, yh), And(xl, yl), w)
  <2>1. /\ Join(And(xh, yh), And(xl, yl), w) \in Words
        /\ Bits[Join(And(xh, yh), And(xl, yl), w)] = Bits[And(xl, yl)] \cup {i + w : i \in Bits[And(xh, yh)]}
    BY <1>4, <1>9
  <2>2. Bits[And(x, y)] = Bits[And(xl, yl)] \cup {i + w : i \in Bits[And(xh, yh)]}
    <3>1. \A i \in Bits[xl] \cup Bits[yl] : i \in 0 .. w - 1
      BY <1>5, <1>6
    <3>2. \A i \in Bits[xh] \cup Bits[yh] : i \in Nat /\ i + w \notin 0 .. w - 1
      BY <1>1, <1>5, <1>6
    <3>3. \A i, j \in Bits[xh] \cup Bits[yh] : i + w = j + w => i = j
      BY <1>1, <3>2
    <3>. QED BY <1>5, <1>6, <1>8, <3>1, <3>2, <3>3
  <2>. QED BY <1>8, <2>1, <2>2, SameBits
<1>. QED BY <1>9, <1>10, <1>11 DEF xl, xh, yl, yh

\* The sum of doublewords is that of their words, as far as no carry crosses.
LEMMA SumOfHalves ==
    ASSUME NEW x \in Words, NEW y \in Words, Word(x, 0) + Word(y, 0) < 2 ^ WordBits
    PROVE  Wrap(x + y) = Join(Low(Word(x, 1) + Word(y, 1)), Low(Word(x, 0) + Word(y, 0)), WordBits)
<1>. DEFINE W == 2 ^ WordBits
            xl == Word(x, 0)
            xh == Word(x, 1)
            yl == Word(y, 0)
            yh == Word(y, 1)
            l == xl + yl
            h == xh + yh
<1>1. W \in Nat \ {0} /\ Size = W * W /\ Halves = 0 .. W - 1
  BY Sizes DEF Halves
<1>2. xl \in Nat /\ xh \in Nat /\ yl \in Nat /\ yh \in Nat /\ x = xh * W + xl /\ y = yh * W + yl
  <2>1. xl \in Halves /\ xh \in Halves /\ yl \in Halves /\ yh \in Halves
    BY WordIs
  <2>2. x = xh * W + xl /\ y = yh * W + yl
    BY WordIs DEF Join
  <2>. HIDE DEF xl, xh, yl, yh, W
  <2>. QED BY <1>1, <2>1, <2>2
<1>3. l < W
  OBVIOUS
<1>. HIDE DEF W, xl, xh, yl, yh
<1>4. x + y = W * h + l
  <2>1. xh * W \in Int /\ yh * W \in Int /\ W * h = xh * W + yh * W
    BY <1>1, <1>2, SMTT(30)
  <2>. HIDE DEF h
  <2>. QED BY <1>2, <2>1
<1>5. l \in 0 .. W - 1 /\ h \in Nat
  BY <1>1, <1>2, <1>3
<1>. HIDE DEF h, l
<1>6. (x + y) % W = l /\ (x + y) \div W = h
  <2>1. h \in Int
    BY <1>5
  <2>. QED BY <1>1, <1>4, <1>5, <2>1, DivisionUnique
<1>7. x + y \in Nat
  BY ResultSets
<1>8. (x + y) % (W * W) = ((x + y) % W) + W * (((x + y) \div W) % W)
  BY <1>1, <1>7, SplitRemainder
<1>9. Low(h) = h % W /\ Low(l) = l
  <2>1. l % W = l
    BY <1>1, <1>5, SmallRemainder
  <2>. QED BY <2>1 DEF Low, W
<1>10. Wrap(x + y) = l + W * Low(h)
  BY <1>1, <1>6, <1>8, <1>9 DEF Wrap
<1>11. l + W * Low(h) = Low(h) * W + l
  <2>. DEFINE k == Low(h)
  <2>1. k \in Nat
    BY <1>1, <1>5, <1>9, DivisionNat
  <2>. HIDE DEF k
  <2>2. W * k = k * W /\ k * W \in Int
    BY <1>1, <2>1, SMTT(30)
  <2>3. l + W * k = k * W + l
    BY <1>5, <2>2
  <2>. QED BY <2>3 DEF k
<1>. QED BY <1>9, <1>10, <1>11 DEF Join, h, l, xl, xh, yl, yh, W

\* AMOs on halves, on doublewords and the instructions of the same name agree.
LEMMA AmosAgreeInWords ==
    ASSUME mem[0] \in Words, gpr[2] \in Words
    PROVE  AmosAgree
<1>. DEFINE a == mem[0]
            b == gpr[2]
            al == Word(a, 0)
            ah == Word(a, 1)
            bl == Word(b, 0)
            bh == Word(b, 1)
            d == AmoDouble(a, b)
            half(h) == AmoWord(Word(a, h), Word(b, h))
            halves(op) == WithWord(WithWord(a, 0, half(0)[op]), 1, half(1)[op])
<1>0. \A x \in Words : x \in Int
  BY ResultSets
<1>1. a \in Words /\ b \in Words /\ a \in Int /\ b \in Int
  BY <1>0, Zenon
<1>. HIDE DEF a, b
<1>2. /\ al \in Halves /\ ah \in Halves /\ bl \in Halves /\ bh \in Halves
      /\ al = Low(a) /\ bl = Low(b) /\ b = Join(bh, bl, WordBits)
  BY <1>1, WordIs DEF Low
<1>3. \A x \in Halves : x \in Words /\ x \in Int /\ Low(x) = x
  <2>1. \A x \in Halves : x \in Words
    <3>1. Halves \subseteq 0 .. Size - 1 /\ Words = 0 .. Size - 1
      <4>. DEFINE W == 2 ^ WordBits
      <4>1. W \in Nat /\ Size \in Nat /\ W <= Size /\ Halves = 0 .. W - 1
        BY Sizes DEF Halves
      <4>. HIDE DEF W
      <4>. QED BY <4>1, Sizes
    <3>. QED BY <3>1
  <2>. QED BY <1>0, <2>1, InHalf, Zenon
<1>4. /\ half(0) = AmoWord(al, bl) /\ half(1) = AmoWord(ah, bh)
      /\ d.add = Wrap(a + b) /\ d.swap = b /\ d.xor = Xor(a, b) /\ d.or = Or(a, b) /\ d.and = And(a, b)
      /\ d.maxu = (IF b < a THEN a ELSE b)
  BY Zenon DEF AmoDouble
<1>5. ASSUME NEW w, NEW v
      PROVE  /\ AmoWord(w, v).add = Low(w + v) /\ AmoWord(w, v).swap = Low(v)
             /\ AmoWord(w, v).or = Low(Or(w, v)) /\ AmoWord(w, v).and = Low(And(w, v))
             /\ AmoWord(w, v).maxu = (IF w < Low(v) THEN Low(v) ELSE w)
  BY DEF AmoWord
<1>. HIDE DEF al, ah, bl, bh, d
<1>6. \A l, h \in Halves : WithWord(WithWord(a, 0, l), 1, h) = Join(h, l, WordBits)
  BY <1>1, HalvesAre
<1>7. halves("swap") = d.swap
  <2>1. half(0).swap = bl /\ half(1).swap = bh
    BY <1>2, <1>3, <1>4, <1>5
  <2>. QED BY <1>2, <1>4, <1>6, <2>1
<1>8. halves("or") = d.or
  <2>1. Or(al, bl) \in Halves /\ Or(ah, bh) \in Halves /\ Or(a, b) = Join(Or(ah, bh), Or(al, bl), WordBits)
    BY <1>1, BooleansOfHalves DEF al, ah, bl, bh
  <2>2. half(0).or = Or(al, bl) /\ half(1).or = Or(ah, bh)
    BY <1>3, <1>4, <1>5, <2>1
  <2>. QED BY <1>4, <1>6, <2>1, <2>2
<1>9. halves("and") = d.and
  <2>1. And(al, bl) \in Halves /\ And(ah, bh) \in Halves /\ And(a, b) = Join(And(ah, bh), And(al, bl), WordBits)
    BY <1>1, BooleansOfHalves DEF al, ah, bl, bh
  <2>2. half(0).and = And(al, bl) /\ half(1).and = And(ah, bh)
    BY <1>3, <1>4, <1>5, <2>1
  <2>. QED BY <1>4, <1>6, <2>1, <2>2
<1>10. ASSUME al + bl < 2 ^ WordBits PROVE halves("add") = d.add
  <2>1. Wrap(a + b) = Join(Low(ah + bh), Low(al + bl), WordBits)
    BY <1>1, <1>10, SumOfHalves DEF al, ah, bl, bh
  <2>2. half(0).add = Low(al + bl) /\ half(1).add = Low(ah + bh)
    BY <1>4, <1>5
  <2>3. Low(al + bl) \in Halves /\ Low(ah + bh) \in Halves
    <3>1. al + bl \in Int /\ ah + bh \in Int
      BY <1>2, <1>3
    <3>. QED BY <3>1, SignedType DEF Halves
  <2>. QED BY <1>4, <1>6, <2>1, <2>2, <2>3
<1>11. /\ d.add = OpSums(a, b).add /\ d.xor = OpQuotients(a, b).xor
       /\ d.or = OpRemainders(a, b).or /\ d.and = OpRemainders(a, b).and
  <2>1. OpSums(a, b).add = Wrap(a + b) /\ OpRemainders(a, b).or = Or(a, b) /\ OpRemainders(a, b).and = And(a, b)
    BY BitFields
  <2>2. OpQuotients(a, b).xor = Xor(a, b)
    BY DEF OpQuotients
  <2>. QED BY <1>4, <2>1, <2>2
<1>12. \A x, y : OpRemainders(x, y).maxu = IF x < y THEN y ELSE x
  BY DEF OpRemainders
<1>13. d.maxu = OpRemainders(a, b).maxu
  BY <1>1, <1>4, <1>12
<1>14. Sext(half(0).add) = OpWord(a, b).addw
  <2>1. half(0).add = Low(al + bl) /\ al + bl \in Int /\ a + b \in Int
    BY <1>1, <1>2, <1>3, <1>4, <1>5
  <2>2. Low(al + bl) = Low(a + b)
    <3>1. Low(al) = Low(a) /\ Low(bl) = Low(b) /\ al \in Int /\ bl \in Int
      BY <1>2, <1>3
    <3>. QED BY <1>1, <3>1, LowRing
  <2>3. Sext(Low(al + bl)) = Sext(a + b)
    BY <2>1, <2>2, LowAgain
  <2>4. OpWord(a, b).addw = Sext(a + b)
    BY WordFields
  <2>. QED BY <2>1, <2>3, <2>4
<1>15. half(0).maxu = OpRemainders(Low(a), Low(b)).maxu
  <2>1. half(0).maxu = IF al < Low(bl) THEN Low(bl) ELSE al
    BY <1>4, <1>5
  <2>2. Low(bl) = bl
    BY <1>2, <1>3
  <2>. QED BY <1>2, <1>12, <2>1, <2>2
<1>16. \A op \in {"swap", "or", "and"} : halves(op) = d[op]
  BY <1>7, <1>8, <1>9
<1>17. al + bl < 2 ^ WordBits => halves("add") = d.add
  BY <1>10
<1>18. AmosAgree <=>
         /\ \A op \in {"swap", "or", "and"} : halves(op) = d[op]
         /\ al + bl < 2 ^ WordBits => halves("add") = d.add
         /\ d.add = OpSums(a, b).add /\ d.xor = OpQuotients(a, b).xor
         /\ d.or = OpRemainders(a, b).or /\ d.and = OpRemainders(a, b).and
         /\ d.maxu = OpRemainders(a, b).maxu
         /\ Sext(half(0).add) = OpWord(a, b).addw
         /\ half(0).maxu = OpRemainders(Low(a), Low(b)).maxu
  BY Zenon DEF AmosAgree, d, al, bl, a, b
<1>. HIDE DEF half, halves
<1>. QED BY <1>11, <1>13, <1>14, <1>15, <1>16, <1>17, <1>18, Zenon

\* An AMO on each half of a doubleword does what one on the doubleword does, as
\* far as no carry crosses, and an AMO computes what the instruction of its name
\* computes in registers, for every content of memory and of the registers.
THEOREM AtomicsAgree == HartSpec => []AmosAgree
<1>1. AtomicTypeOK => AmosAgree
  <2>. SUFFICES ASSUME AtomicTypeOK PROVE AmosAgree
    OBVIOUS
  <2>1. gpr[2] \in Words /\ mem[0] \in Words
    BY DEF AtomicTypeOK, TypeOK, Regs, Lines
  <2>. QED BY <2>1, AmosAgreeInWords
<1>. QED BY <1>1, RegistersTypeCorrect, PTL

-----------------------------------------------------------------------------
(* The console.                                                            *)

Characters == Chars \cup O!Ends

\* While the line fits, the buffer holds it, and Nul after it.
BufferHoldsLine ==
    Len(line) < ConsSize =>
        /\ curr_pos = Len(line)
        /\ \A i \in 1 .. Len(line) : cons_buf[i - 1] = line[i]

ConsoleInv ==
    /\ cons_buf \in [0 .. ConsSize - 1 -> Characters]
    /\ curr_pos \in 0 .. ConsSize - 1
    /\ line \in Seq(Characters)
    /\ brk \in BOOLEAN
    /\ BufferHoldsLine
    /\ brk = expected

\* strncmp on the buffer of a line that fits, with the character that ends it,
\* is the test whether the line starts with the marker.
LEMMA MatchIsPrefix ==
    ASSUME ConsoleInv, Len(line) < ConsSize, NEW c \in O!Ends, NEW m \in Markers
    PROVE  O!Matches([cons_buf EXCEPT ![curr_pos] = c], m) <=> O!IsPrefix(m, line)
<1>. DEFINE buf == [cons_buf EXCEPT ![curr_pos] = c]
<1>1. m \in Seq(Chars) /\ Len(m) < ConsSize /\ Len(m) \in Nat /\ DOMAIN m = 1 .. Len(m)
  BY ConsoleValues
<1>2. line \in Seq(Characters) /\ Len(line) \in Nat /\ curr_pos = Len(line) /\ ConsSize \in Nat
  BY ConsoleValues DEF ConsoleInv, BufferHoldsLine
<1>3. c \notin Chars
  BY ConsoleValues DEF O!Ends
<1>4. \A i \in 1 .. Len(line) : buf[i - 1] = line[i]
  BY <1>2 DEF ConsoleInv, BufferHoldsLine
<1>5. buf[Len(line)] = c
  BY <1>2 DEF ConsoleInv
<1>6. CASE Len(m) <= Len(line)
  <2>1. O!Matches(buf, m) <=> \A i \in 1 .. Len(m) : line[i] = m[i]
    <3>1. \A i \in 1 .. Len(m) : buf[i - 1] = line[i]
      BY <1>1, <1>2, <1>4, <1>6
    <3>. HIDE DEF buf
    <3>. QED BY <1>1, <3>1 DEF O!Matches
  <2>2. O!IsPrefix(m, line) <=> \A i \in 1 .. Len(m) : line[i] = m[i]
    <3>1. SubSeq(m, 1, Len(m)) = [i \in 1 .. Len(m) |-> m[i]]
      BY <1>1
    <3>2. SubSeq(line, 1, Len(m)) = [i \in 1 .. Len(m) |-> line[i]]
      BY <1>1, <1>2, <1>6
    <3>. QED BY <1>6, <3>1, <3>2 DEF O!IsPrefix
  <2>. QED BY <2>1, <2>2
<1>7. CASE Len(m) > Len(line)
  <2>1. Len(line) + 1 \in DOMAIN m /\ m[Len(line) + 1] \in Chars
    BY <1>1, <1>2, <1>7
  <2>2. buf[(Len(line) + 1) - 1] = c
    BY <1>2, <1>5
  <2>3. ~O!Matches(buf, m)
    <3>. HIDE DEF buf
    <3>. QED BY <1>3, <2>1, <2>2 DEF O!Matches
  <2>4. ~O!IsPrefix(m, line)
    BY <1>1, <1>2, <1>7 DEF O!IsPrefix
  <2>. QED BY <2>3, <2>4
<1>. QED BY <1>1, <1>2, <1>6, <1>7

\* A character keeps the invariant.
LEMMA WriteKeeps ==
    ASSUME ConsoleInv, NEW c \in Chars \cup O!Ends, O!Write(c)
    PROVE  ConsoleInv'
<1>. DEFINE buf == [cons_buf EXCEPT ![curr_pos] = c]
<1>1. buf \in [0 .. ConsSize - 1 -> Characters]
  BY DEF ConsoleInv, Characters
<1>2. CASE c \in O!Ends
  <2>1. O!EndLine(buf) /\ line' = << >>
    BY <1>2 DEF O!Write
  <2>2. brk' = (brk \/ \E m \in Markers : O!Matches(buf, m))
    BY <2>1 DEF O!EndLine
  <2>3. brk' = expected'
    <3>1. CASE Len(line) < ConsSize
      <4>1. expected' = (expected \/ \E m \in Markers : O!IsPrefix(m, line))
        BY <1>2, <3>1 DEF O!Write
      <4>2. \A m \in Markers : O!Matches(buf, m) <=> O!IsPrefix(m, line)
        BY <1>2, <3>1, MatchIsPrefix
      <4>. QED BY <2>2, <4>1, <4>2 DEF ConsoleInv
    <3>2. CASE ~(Len(line) < ConsSize)
      BY <1>2, <3>2 DEF O!Write
    <3>. QED BY <3>1, <3>2
  <2>4. curr_pos' = 0 /\ cons_buf' = [i \in 0 .. ConsSize - 1 |-> Nul]
    BY <2>1 DEF O!EndLine, O!Blank
  <2>5. cons_buf' \in [0 .. ConsSize - 1 -> Characters]
    BY <2>4 DEF Characters, O!Ends
  <2>6. BufferHoldsLine'
    BY <2>1, <2>4 DEF BufferHoldsLine
  <2>7. curr_pos' \in 0 .. ConsSize - 1
    BY <2>4, ConsoleValues
  <2>8. line' \in Seq(Characters) /\ brk' \in BOOLEAN
    BY <2>1, <2>2
  <2>. QED BY <2>3, <2>5, <2>6, <2>7, <2>8 DEF ConsoleInv
<1>3. CASE c \notin O!Ends
  <2>1. /\ cons_buf' = buf /\ curr_pos' = (curr_pos + 1) % ConsSize /\ brk' = brk
        /\ line' = Append(line, c) /\ expected' = expected
    BY <1>3 DEF O!Write
  <2>2. /\ line \in Seq(Characters) /\ Len(line) \in Nat /\ c \in Characters
        /\ ConsSize \in Nat \ {0} /\ curr_pos \in 0 .. ConsSize - 1
    BY ConsoleValues DEF ConsoleInv, Characters
  <2>3. Len(line') = Len(line) + 1 /\ line' \in Seq(Characters)
    BY <2>1, <2>2
  <2>4. curr_pos' \in 0 .. ConsSize - 1
    BY <2>1, <2>2
  <2>5. BufferHoldsLine'
    <3>. SUFFICES ASSUME Len(line') < ConsSize
         PROVE  /\ curr_pos' = Len(line')
                /\ \A i \in 1 .. Len(line') : cons_buf'[i - 1] = line'[i]
      BY DEF BufferHoldsLine
    <3>1. curr_pos = Len(line) /\ \A i \in 1 .. Len(line) : cons_buf[i - 1] = line[i]
      BY <2>2, <2>3 DEF ConsoleInv, BufferHoldsLine
    <3>2. curr_pos' = Len(line')
      <4>1. (curr_pos + 1) % ConsSize = curr_pos + 1
        <5>1. curr_pos + 1 < ConsSize /\ curr_pos + 1 \in Nat
          BY <2>2, <2>3, <3>1
        <5>. QED BY <2>2, <5>1
      <4>. QED BY <2>1, <2>3, <3>1, <4>1
    <3>3. ASSUME NEW i \in 1 .. Len(line') PROVE cons_buf'[i - 1] = line'[i]
      <4>1. CASE i = Len(line) + 1
        <5>1. line'[i] = c
          BY <2>1, <2>2, <4>1
        <5>2. cons_buf'[i - 1] = c
          BY <2>1, <2>2, <3>1, <4>1 DEF ConsoleInv
        <5>. QED BY <5>1, <5>2
      <4>2. CASE i \in 1 .. Len(line)
        <5>1. line'[i] = line[i]
          BY <2>1, <2>2, <4>2
        <5>2. cons_buf'[i - 1] = cons_buf[i - 1]
          BY <2>1, <2>2, <3>1, <4>2 DEF ConsoleInv
        <5>. QED BY <3>1, <4>2, <5>1, <5>2
      <4>. QED BY <2>2, <2>3, <3>3, <4>1, <4>2
    <3>. QED BY <3>2, <3>3
  <2>. QED BY <1>1, <2>1, <2>3, <2>4, <2>5 DEF ConsoleInv
<1>. QED BY <1>2, <1>3

\* A line that starts with a marker, and fits the buffer, stops the run when it
\* ends, and no other that fits does, whatever was printed before it.
THEOREM LinesStop == HartSpec => []ConsoleStops
<1>1. HartInit => ConsoleInv
  <2>. SUFFICES ASSUME HartInit PROVE ConsoleInv
    OBVIOUS
  <2>1. /\ cons_buf = [i \in 0 .. ConsSize - 1 |-> Nul] /\ curr_pos = 0 /\ brk = FALSE
        /\ line = << >> /\ expected = FALSE
    BY DEF HartInit, O!Init, O!Blank
  <2>2. cons_buf \in [0 .. ConsSize - 1 -> Characters]
    BY <2>1 DEF Characters, O!Ends
  <2>3. BufferHoldsLine
    BY <2>1 DEF BufferHoldsLine
  <2>. QED BY <2>1, <2>2, <2>3, ConsoleValues DEF ConsoleInv
<1>2. ConsoleInv /\ [HartNext]_hartVars => ConsoleInv'
  <2>. SUFFICES ASSUME ConsoleInv, [HartNext]_hartVars PROVE ConsoleInv'
    OBVIOUS
  <2>1. CASE UNCHANGED consoleState
    BY <2>1 DEF consoleState, ConsoleInv, BufferHoldsLine
  <2>2. CASE O!Next
    <3>1. CASE \E c \in Chars \cup O!Ends : O!Write(c)
      BY <3>1, WriteKeeps
    <3>2. ASSUME NEW v \in BOOLEAN, O!Stop(v) PROVE ConsoleInv'
      BY <3>2 DEF O!Stop, ConsoleInv, BufferHoldsLine
    <3>. QED BY <2>2, <3>1, <3>2 DEF O!Next
  <2>3. CASE UNCHANGED hartVars
    BY <2>1, <2>3 DEF hartVars
  <2>. QED BY <2>1, <2>2, <2>3 DEF HartNext, Integer, Csr, PutChars
<1>3. ConsoleInv => ConsoleStops
  BY DEF ConsoleInv, ConsoleStops, O!ConsoleStops
<1>. QED BY <1>1, <1>2, <1>3, PTL DEF HartSpec

-----------------------------------------------------------------------------
(* The CSR instructions.                                                   *)

Contents == SUBSET C!Bits
Registers == [C!Fields -> Contents]

CsrInv == csr \in Registers /\ C!UXL \in csr.mstatus

\* The registers that every instance has.
LEMMA FieldsThere ==
    /\ {"mstatus", "satp", "mcause", "mhartid", "scounteren"} \subseteq C!Fields
    /\ {"mie", "mip", "mideleg", "mtvec", "stvec"} \subseteq C!Fields
    /\ Plain \subseteq C!Fields
  BY CsrValues DEF C!Fields

\* Reading gives a set of bits.
LEMMA ReadType ==
    ASSUME NEW f \in Registers, NEW c \in C!Readable
    PROVE  C!read_csr(c, f) \in Contents
  BY FieldsThere DEF Registers, Contents, C!Readable, C!Views, C!Zero, C!read_csr,
     C!SSTATUS_READ, C!Fields

\* Writing gives registers.
LEMMA WriteType ==
    ASSUME NEW f \in Registers, NEW c \in C!Writable, NEW v \in Contents
    PROVE  C!write_csr(c, v, f) \in Registers
  BY FieldsThere DEF Registers, Contents, C!Writable, C!Zero, C!write_csr, C!Merge,
     C!SSTATUS_WRITE, C!MSTATUS_MASK, C!Fields

\* The width of U mode survives every write.
LEMMA WriteKeepsUxl ==
    ASSUME NEW f \in Registers, NEW c \in C!Writable, NEW v \in Contents, C!UXL \in f.mstatus
    PROVE  C!UXL \in C!write_csr(c, v, f).mstatus
  BY FieldsThere, CsrValues DEF Registers, Contents, C!Writable, C!Zero, C!write_csr, C!Merge,
     C!SSTATUS_WRITE, C!MSTATUS_MASK, C!UXL, C!SIE, C!MIE, C!XS, C!Fields, C!AllPlain

\* What the numbers that are not fields of their own read.
LEMMA ReadCases ==
    ASSUME NEW f
    PROVE  /\ C!read_csr("sstatus", f) = f.mstatus \cap C!SSTATUS_READ
           /\ C!read_csr("sie", f) = f.mie \cap f.mideleg
           /\ C!read_csr("sip", f) = f.mip \cap f.mideleg
           /\ C!read_csr("mtval", f) = f.mtvec
           /\ \A c \in C!Zero : C!read_csr(c, f) = {}
           /\ \A c : c \notin C!Views \cup C!Zero => C!read_csr(c, f) = f[c]
  BY DEF C!read_csr, C!Zero, C!Views

\* What the numbers that are not fields of their own write.
LEMMA WriteCases ==
    ASSUME NEW f, NEW v
    PROVE  /\ C!write_csr("sstatus", v, f) = [f EXCEPT !.mstatus = C!Merge(@, C!SSTATUS_WRITE, v)]
           /\ C!write_csr("mstatus", v, f) = [f EXCEPT !.mstatus = C!Merge(@, C!MSTATUS_MASK, v)]
           /\ C!write_csr("sie", v, f) = [f EXCEPT !.mie = C!Merge(@, f.mideleg, v)]
           /\ C!write_csr("sip", v, f) = [f EXCEPT !.mip = C!Merge(@, f.mideleg, v)]
           /\ C!write_csr("satp", v, f) =
                IF C!MODE \in v /\ C!ASID \notin v THEN [f EXCEPT !.satp = v] ELSE f
  BY DEF C!write_csr, C!Zero

\* The numbers that only print or show a count.
LEMMA WriteZero ==
    ASSUME NEW f, NEW v, NEW c \in C!Zero
    PROVE  C!write_csr(c, v, f) = f
  BY DEF C!write_csr, C!Zero

\* All other numbers are those of their fields.
LEMMA WritePlain ==
    ASSUME NEW f, NEW v, NEW c,
           c \notin {"sstatus", "mstatus", "sie", "sip", "satp"}, c \notin C!Zero
    PROVE  C!write_csr(c, v, f) = [f EXCEPT ![c] = v]
  BY DEF C!write_csr, C!Zero

\* The field that a write to number c changes.
Target(c) == CASE c = "sstatus" -> "mstatus"
               [] c = "sie" -> "mie"
               [] c = "sip" -> "mip"
               [] OTHER -> c

\* A write changes no other field.
LEMMA WritesTarget ==
    ASSUME NEW f \in Registers, NEW c \in C!Writable, NEW v, NEW d \in C!Fields, d # Target(c)
    PROVE  C!write_csr(c, v, f)[d] = f[d]
<1>. DEFINE g == C!write_csr(c, v, f)
<1>1. DOMAIN f = C!Fields
  BY DEF Registers
<1>2. CASE c \in {"sstatus", "mstatus"}
  <2>1. PICK u : g = [f EXCEPT !["mstatus"] = u]
    BY <1>2, WriteCases
  <2>2. d # "mstatus"
    BY <1>2 DEF Target
  <2>. HIDE DEF g
  <2>. QED BY <1>1, <2>1, <2>2 DEF g, Registers
<1>3. CASE c = "sie"
  <2>1. PICK u : g = [f EXCEPT !["mie"] = u]
    BY <1>3, WriteCases
  <2>2. d # "mie"
    BY <1>3 DEF Target
  <2>. HIDE DEF g
  <2>. QED BY <1>1, <2>1, <2>2 DEF g, Registers
<1>4. CASE c = "sip"
  <2>1. PICK u : g = [f EXCEPT !["mip"] = u]
    BY <1>4, WriteCases
  <2>2. d # "mip"
    BY <1>4 DEF Target
  <2>. HIDE DEF g
  <2>. QED BY <1>1, <2>1, <2>2 DEF g, Registers
<1>5. CASE c \notin {"sstatus", "mstatus", "sie", "sip"}
  <2>1. d # c
    BY <1>5 DEF Target
  <2>2. g = f \/ g = [f EXCEPT ![c] = v]
    <3>1. CASE c = "satp"
      <4>1. C!write_csr("satp", v, f) = f \/ C!write_csr("satp", v, f) = [f EXCEPT !["satp"] = v]
        BY WriteCases
      <4>. QED BY <3>1, <4>1
    <3>2. CASE c \in C!Zero
      <4>1. C!write_csr(c, v, f) = f
        BY <3>2, WriteZero
      <4>. QED BY <4>1
    <3>3. CASE c # "satp" /\ c \notin C!Zero
      <4>1. c \notin {"sstatus", "mstatus", "sie", "sip", "satp"} /\ c \notin C!Zero
        BY <1>5, <3>3
      <4>2. C!write_csr(c, v, f) = [f EXCEPT ![c] = v]
        BY <4>1, WritePlain
      <4>. QED BY <4>2
    <3>. QED BY <3>1, <3>2, <3>3
  <2>. HIDE DEF g
  <2>. QED BY <1>1, <2>1, <2>2 DEF g, Registers
<1>. QED BY <1>2, <1>3, <1>4, <1>5

\* A number reads differently only if it shows the register written.
LEMMA OnlyShownChange ==
    ASSUME NEW f \in Registers, NEW c \in C!Writable, NEW v, NEW d \in C!Readable,
           C!read_csr(d, C!write_csr(c, v, f)) # C!read_csr(d, f)
    PROVE  d \in C!Shows(c)
<1>. DEFINE g == C!write_csr(c, v, f)
<1>1. \A e \in C!Fields : e # Target(c) => g[e] = f[e]
  BY WritesTarget
<1>. HIDE DEF g
<1>2. CASE d = "sstatus"
  <2>1. Target(c) = "mstatus"
    BY <1>1, <1>2, ReadCases, FieldsThere DEF g
  <2>. QED BY <1>2, <2>1 DEF Target, C!Shows
<1>3. CASE d = "sie"
  <2>1. Target(c) \in {"mie", "mideleg"}
    BY <1>1, <1>3, ReadCases, FieldsThere DEF g
  <2>. QED BY <1>3, <2>1 DEF Target, C!Shows
<1>4. CASE d = "sip"
  <2>1. Target(c) \in {"mip", "mideleg"}
    BY <1>1, <1>4, ReadCases, FieldsThere DEF g
  <2>. QED BY <1>4, <2>1 DEF Target, C!Shows
<1>5. CASE d = "mtval"
  <2>1. Target(c) = "mtvec"
    BY <1>1, <1>5, ReadCases, FieldsThere DEF g
  <2>. QED BY <1>5, <2>1 DEF Target, C!Shows
<1>6. CASE d \notin C!Views
  <2>1. d \notin C!Zero
    BY ReadCases
  <2>2. d \in C!Fields
    BY <1>6, <2>1, FieldsThere DEF C!Readable
  <2>3. C!read_csr(d, g) = g[d] /\ C!read_csr(d, f) = f[d]
    BY <1>6, <2>1, ReadCases
  <2>4. Target(c) = d
    BY <1>1, <2>2, <2>3 DEF g
  <2>. QED BY <2>4 DEF Target, C!Shows
<1>. QED BY <1>2, <1>3, <1>4, <1>5, <1>6 DEF C!Views

\* The bits that a number owns.
LEMMA OwnedCases ==
    ASSUME NEW v
    PROVE  /\ C!Owned("sstatus", v) = C!SSTATUS_WRITE
           /\ C!Owned("mstatus", v) = C!MSTATUS_MASK
           /\ C!Owned("sie", v) = csr.mideleg
           /\ C!Owned("sip", v) = csr.mideleg
           /\ C!Owned("satp", v) =
                IF C!MODE \in v /\ C!ASID \notin v THEN C!Bits ELSE {}
           /\ \A c : c \in C!Zero => C!Owned(c, v) = {}
           /\ \A c : c \notin {"sstatus", "mstatus", "sie", "sip", "satp"} \cup C!Zero
                    => C!Owned(c, v) = C!Bits
  BY DEF C!Owned, C!Zero

\* A number that owns no bit stays.
LEMMA OwnsNone ==
    ASSUME NEW x, NEW v
    PROVE  C!Merge(x, {}, v) = x
<1>1. C!Merge(x, {}, v) = (x \ {}) \cup (v \cap {})
  BY DEF C!Merge
<1>2. v \cap {} = {} /\ x \ {} = x
  OBVIOUS
<1>3. x \cup {} = x
  OBVIOUS
<1>. QED BY <1>1, <1>2, <1>3

\* What was written is what is read, in the bits that the number owns.
LEMMA OwnedAreWritten ==
    ASSUME CsrInv, NEW c \in C!Writable \cap C!Readable, NEW v \in Contents
    PROVE  C!read_csr(c, C!write_csr(c, v, csr)) = C!Merge(C!read_csr(c, csr), C!Owned(c, v), v)
<1>. DEFINE g == C!write_csr(c, v, csr)
<1>0. \A e \in C!Fields : csr[e] \subseteq C!Bits
  BY DEF CsrInv, Registers, Contents
<1>1. CASE c = "sstatus"
  <2>1. g.mstatus = C!Merge(csr.mstatus, C!SSTATUS_WRITE, v)
    BY <1>1, WriteCases, FieldsThere DEF CsrInv, Registers
  <2>2. C!SSTATUS_WRITE \subseteq C!SSTATUS_READ
    BY DEF C!SSTATUS_READ, C!SSTATUS_WRITE
  <2>3. C!read_csr(c, g) = g.mstatus \cap C!SSTATUS_READ
        /\ C!read_csr(c, csr) = csr.mstatus \cap C!SSTATUS_READ /\ C!Owned(c, v) = C!SSTATUS_WRITE
    BY <1>1, ReadCases, OwnedCases
  <2>. HIDE DEF g
  <2>. QED BY <2>1, <2>2, <2>3 DEF C!Merge, g
<1>2. CASE c = "mstatus"
  <2>1. g.mstatus = C!Merge(csr.mstatus, C!MSTATUS_MASK, v)
    BY <1>2, WriteCases, FieldsThere DEF CsrInv, Registers
  <2>2. C!read_csr(c, g) = g.mstatus /\ C!read_csr(c, csr) = csr.mstatus
    BY <1>2, ReadCases DEF C!Views, C!Zero
  <2>3. C!Owned(c, v) = C!MSTATUS_MASK
    BY <1>2, OwnedCases
  <2>. QED BY <2>1, <2>2, <2>3
<1>3. CASE c = "sie"
  <2>1. g.mie = C!Merge(csr.mie, csr.mideleg, v) /\ g.mideleg = csr.mideleg
    BY <1>3, WriteCases, FieldsThere DEF CsrInv, Registers
  <2>2. C!read_csr(c, g) = g.mie \cap g.mideleg
        /\ C!read_csr(c, csr) = csr.mie \cap csr.mideleg /\ C!Owned(c, v) = csr.mideleg
    BY <1>3, ReadCases, OwnedCases
  <2>. HIDE DEF g
  <2>. QED BY <2>1, <2>2 DEF C!Merge, g
<1>4. CASE c = "sip"
  <2>1. g.mip = C!Merge(csr.mip, csr.mideleg, v) /\ g.mideleg = csr.mideleg
    BY <1>4, WriteCases, FieldsThere DEF CsrInv, Registers
  <2>2. C!read_csr(c, g) = g.mip \cap g.mideleg
        /\ C!read_csr(c, csr) = csr.mip \cap csr.mideleg /\ C!Owned(c, v) = csr.mideleg
    BY <1>4, ReadCases, OwnedCases
  <2>. HIDE DEF g
  <2>. QED BY <2>1, <2>2 DEF C!Merge, g
<1>5. ASSUME c \notin {"sstatus", "mstatus", "sie", "sip"}, c \notin C!Zero,
             c = "satp" => C!MODE \in v /\ C!ASID \notin v
      PROVE  C!read_csr(c, g) = C!Merge(C!read_csr(c, csr), C!Owned(c, v), v)
  <2>1. c \notin C!Zero /\ c # "mtval"
    BY <1>5, CsrValues DEF C!Writable, C!Zero, C!AllPlain
  <2>2. g = [csr EXCEPT ![c] = v]
    <3>1. CASE c = "satp"
      <4>1. C!write_csr("satp", v, csr) = [csr EXCEPT !["satp"] = v]
        BY <1>5, <3>1, WriteCases
      <4>. QED BY <3>1, <4>1
    <3>2. CASE c # "satp"
      <4>1. c \notin {"sstatus", "mstatus", "sie", "sip", "satp"} /\ c \notin C!Zero
        BY <1>5, <2>1, <3>2
      <4>2. C!write_csr(c, v, csr) = [csr EXCEPT ![c] = v]
        BY <4>1, WritePlain
      <4>. QED BY <4>2
    <3>. QED BY <3>1, <3>2
  <2>3. c \in C!Fields
    BY <1>5, <2>1, FieldsThere DEF C!Writable, C!Zero
  <2>4. C!read_csr(c, g) = g[c] /\ C!read_csr(c, csr) = csr[c]
    BY <1>5, <2>1, ReadCases DEF C!Views
  <2>5. C!Owned(c, v) = C!Bits
    BY <1>5, <2>1, OwnedCases
  <2>6. g[c] = v /\ csr[c] \subseteq C!Bits /\ v \subseteq C!Bits
    BY <1>0, <2>2, <2>3 DEF CsrInv, Registers, Contents
  <2>. HIDE DEF g
  <2>. QED BY <2>4, <2>5, <2>6 DEF C!Merge, g
<1>6. CASE c = "satp" /\ ~(C!MODE \in v /\ C!ASID \notin v)
  <2>1. g = csr
    BY <1>6, WriteCases
  <2>2. C!Owned(c, v) = {}
    BY <1>6, OwnedCases
  <2>. QED BY <2>1, <2>2, OwnsNone, Zenon
<1>7. CASE c \in C!Zero
  <2>1. g = csr /\ C!Owned(c, v) = {}
    BY <1>7, WriteZero, OwnedCases
  <2>. QED BY <2>1, OwnsNone, Zenon
<1>. QED BY <1>1, <1>2, <1>3, <1>4, <1>5, <1>6, <1>7

\* What a CSR instruction leaves behind.
LEMMA ExecuteStep ==
    ASSUME CsrInv, ~aborted, NEW op \in {"rw", "rs", "rc"}, NEW c \in C!Numbers, NEW rd \in {0, 1},
           NEW source \in {0, 1}, NEW v \in Contents, C!Execute(op, c, rd, source, v)
    PROVE  CsrInv' /\ C!CsrStep
<1>. DEFINE t == IF C!Reads(op, rd) THEN C!read_csr(c, csr) ELSE {}
            w == C!Written(op, v, t)
<1>1. t \in Contents
  BY ReadType DEF C!Execute, C!Undefined, CsrInv, Contents
<1>2. w \in Contents
  BY <1>1 DEF C!Written, Contents
<1>3. CASE wrote' = C!Nothing /\ csr' = csr
  <2>1. trapped' = FALSE /\ (aborted' => x1' = x1)
    BY DEF C!Execute
  <2>2. wrote'.number = "none" /\ "none" \notin C!Readable
    BY <1>3, CsrValues DEF C!Nothing, C!Readable, C!AllPlain, C!Views, C!Zero
  <2>. QED BY <1>3, <2>1, <2>2 DEF CsrInv, C!CsrStep
<1>4. CASE ~(wrote' = C!Nothing /\ csr' = csr)
  <2>1. /\ C!Writes(op, source) /\ ~C!Asserts(c, w, csr) /\ csr' = C!write_csr(c, w, csr)
        /\ wrote' = [number |-> c, value |-> w]
    BY <1>4 DEF C!Execute
  <2>2. c \in C!Writable
    BY <2>1 DEF C!Execute, C!Undefined
  <2>3. ~trapped' /\ ~aborted'
    <3>1. trapped' = FALSE
      BY DEF C!Execute
    <3>2. aborted' = aborted
      BY <2>1 DEF C!Execute
    <3>. QED BY <3>1, <3>2
  <2>. HIDE DEF t, w
  <2>4. wrote'.number = c /\ wrote'.value = w
    BY <2>1
  <2>5. CsrInv'
    BY <1>2, <2>1, <2>2, WriteType, WriteKeepsUxl DEF CsrInv
  <2>6. ASSUME NEW d \in C!Readable, C!read_csr(d, csr') # C!read_csr(d, csr)
        PROVE  d \in C!Shows(c)
    BY <2>1, <2>2, <2>6, OnlyShownChange DEF CsrInv
  <2>7. c \in C!Readable =>
          C!read_csr(c, csr') = C!Merge(C!read_csr(c, csr), C!Owned(c, w), w)
    BY <1>2, <2>1, <2>2, OwnedAreWritten
  <2>8. ASSUME c \in {"sie", "sip"}, NEW d \in {"mie", "mip"}
        PROVE  csr'[d] \ csr.mideleg = csr[d] \ csr.mideleg
    <3>1. CASE d # Target(c)
      <4>1. csr'[d] = csr[d]
        BY <2>1, <2>2, <3>1, WritesTarget, FieldsThere DEF CsrInv
      <4>. QED BY <4>1
    <3>2. CASE d = Target(c)
      <4>1. csr' = [csr EXCEPT ![d] = C!Merge(@, csr.mideleg, w)]
        <5>1. CASE c = "sie"
          BY <2>1, <3>2, <5>1, WriteCases DEF Target
        <5>2. CASE c = "sip"
          BY <2>1, <3>2, <5>2, WriteCases DEF Target
        <5>. QED BY <2>8, <5>1, <5>2
      <4>2. csr'[d] = C!Merge(csr[d], csr.mideleg, w)
        BY <4>1, FieldsThere DEF CsrInv, Registers
      <4>. QED BY <4>2 DEF C!Merge
    <3>. QED BY <3>1, <3>2
  <2>9. ASSUME csr'.satp # csr.satp
        PROVE  C!MODE \in csr'.satp /\ C!ASID \notin csr'.satp
    <3>1. Target(c) = "satp"
      BY <2>1, <2>2, <2>9, WritesTarget, FieldsThere DEF CsrInv
    <3>2. c = "satp"
      BY <3>1 DEF Target
    <3>3. C!MODE \in w /\ C!ASID \notin w /\ csr' = [csr EXCEPT !["satp"] = w]
      BY <2>1, <2>9, <3>2, WriteCases
    <3>. QED BY <3>3, FieldsThere DEF CsrInv, Registers
  <2>10. wrote' # C!Nothing
    <3>1. c # "none"
      BY <2>2, CsrValues DEF C!Writable, C!AllPlain, C!Zero
    <3>. QED BY <2>4, <3>1 DEF C!Nothing
  <2>. QED BY <2>3, <2>4, <2>5, <2>6, <2>7, <2>8, <2>9, <2>10 DEF C!CsrStep, CsrInv
<1>. QED BY <1>3, <1>4

\* A CSR instruction changes only what its number owns and shows, whatever was
\* written before and whichever registers there are.
THEOREM ViewsAgree == HartSpec => CsrViews
<1>1. HartInit => CsrInv
  BY FieldsThere DEF HartInit, C!Init, CsrInv, Registers, Contents, C!Fields, C!Bits, C!UXL
<1>2. CsrInv /\ [HartNext]_hartVars => CsrInv' /\ [C!CsrStep]_(C!csrVars)
  <2>. SUFFICES ASSUME CsrInv, [HartNext]_hartVars PROVE CsrInv' /\ [C!CsrStep]_(C!csrVars)
    OBVIOUS
  <2>1. CASE UNCHANGED csrState
    BY <2>1 DEF csrState, C!csrVars, CsrInv
  <2>2. ASSUME NEW op \in {"rw", "rs", "rc"}, NEW c \in C!Numbers, NEW rd \in {0, 1},
               C!Csr(op, c, rd)
        PROVE  CsrInv' /\ C!CsrStep
    <3>1. ~aborted
      BY <2>2 DEF C!Csr
    <3>2. ASSUME NEW source, C!Illegal(op, c, rd, source) PROVE CsrInv' /\ C!CsrStep
      <4>1. /\ trapped' = TRUE /\ wrote' = C!Nothing
            /\ csr' = csr /\ x1' = x1 /\ aborted' = aborted
        BY <3>2 DEF C!Illegal
      <4>2. wrote'.number = "none" /\ "none" \notin C!Readable
        BY <4>1, CsrValues DEF C!Nothing, C!Readable, C!AllPlain, C!Views, C!Zero
      <4>. QED BY <4>1, <4>2 DEF CsrInv, C!CsrStep
    <3>3. CASE C!Execute(op, c, rd, 0, {})
      BY <3>1, <3>3, ExecuteStep DEF Contents
    <3>4. ASSUME NEW v \in Values, C!Execute(op, c, rd, 1, v) PROVE CsrInv' /\ C!CsrStep
      <4>1. v \in Contents
        BY CsrValues DEF Contents
      <4>. QED BY <3>1, <3>4, <4>1, ExecuteStep
    <3>5. ASSUME NEW z \in Zimms, C!Execute(op, c, rd, IF z = {} THEN 0 ELSE 1, z)
          PROVE  CsrInv' /\ C!CsrStep
      <4>1. z \in Contents
        BY CsrValues DEF Contents, C!Bits
      <4>2. (IF z = {} THEN 0 ELSE 1) \in {0, 1}
        OBVIOUS
      <4>. QED BY <3>1, <3>5, <4>1, <4>2, ExecuteStep
    <3>. QED BY <2>2, <3>2, <3>3, <3>4, <3>5 DEF C!Csr
  <2>3. CASE C!Next
    BY <2>2, <2>3 DEF C!Next
  <2>4. CASE UNCHANGED hartVars
    BY <2>1, <2>4 DEF hartVars
  <2>. QED BY <2>1, <2>3, <2>4 DEF HartNext, Integer, Csr, PutChars
<1>. QED BY <1>1, <1>2, PTL DEF HartSpec, CsrViews, C!CsrViews
=============================================================================
