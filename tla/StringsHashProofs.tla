------------------------- MODULE StringsHashProofs --------------------------
(***************************************************************************)
(* The directory of the strings hash agrees with its buckets and no key is *)
(* lost, for any strings, hashes, imports, depths and sizes of a bucket.   *)
(***************************************************************************)
EXTENDS StringsHash, FiniteSetTheorems, WellFoundedInduction, TLAPS

-----------------------------------------------------------------------------
(* Powers of two.  The provers know nothing of 2 ^ n for a variable n: it   *)
(* is the number of subsets of 1 .. n.                                      *)

\* A nonempty set of naturals has a least element: induction without a formula
\* as a parameter.
LEMMA Least ==
  ASSUME NEW T \in SUBSET Nat, T # {}
  PROVE  \E x \in T : \A y \in T : x <= y
<1> DEFINE R == StrictSubsetOrdering(Nat)
           F == FiniteSubsetsOf(Nat)
           U == {0 .. n - 1 : n \in T}
<1>1. IsWellFoundedOn(R, F)
  BY FS_StrictSubsetOrderingWellFounded
<1>2. U \subseteq F
  <2>1. ASSUME NEW n \in T PROVE 0 .. n - 1 \in F
    <3>1. IsFiniteSet(0 .. n - 1) BY FS_Interval
    <3>2. 0 .. n - 1 \in SUBSET Nat OBVIOUS
    <3> QED BY <3>1, <3>2 DEF FiniteSubsetsOf
  <2> QED BY <2>1
<1>3. U # {} OBVIOUS
<1> HIDE DEF R, F
<1>4. \E x \in U : \A y \in U : ~(<<y, x>> \in R) BY <1>1, <1>2, <1>3, WFMin
<1>5. PICK n \in T : \A m \in T : ~(<<0 .. m - 1, 0 .. n - 1>> \in R) BY <1>4
<1>6. ASSUME NEW m \in T, m < n PROVE FALSE
  <2>1. 0 .. m - 1 \in SUBSET Nat /\ 0 .. n - 1 \in SUBSET Nat OBVIOUS
  <2>2. 0 .. m - 1 \subseteq 0 .. n - 1 /\ m \in 0 .. n - 1 /\ m \notin 0 .. m - 1 BY <1>6
  <2>3. IsFiniteSet(0 .. m - 1) /\ IsFiniteSet(0 .. n - 1) BY FS_Interval
  <2>4. <<0 .. m - 1, 0 .. n - 1>> \in R BY <2>1, <2>2, <2>3 DEF R, StrictSubsetOrdering
  <2> QED BY <1>5, <2>4
<1> QED BY <1>5, <1>6

\* The definition of the powers, by the subsets that they count.
LEMMA PowSubset ==
  ASSUME NEW n \in Nat
  PROVE  2 ^ n = Cardinality(SUBSET (1 .. n)) /\ 2 ^ n \in Nat /\ IsFiniteSet(SUBSET (1 .. n))
<1>1. IsFiniteSet(1 .. n) /\ Cardinality(1 .. n) = n BY FS_Interval
<1>2. IsFiniteSet(SUBSET (1 .. n)) /\ Cardinality(SUBSET (1 .. n)) = 2 ^ Cardinality(1 .. n) BY <1>1, FS_SUBSET
<1>3. Cardinality(SUBSET (1 .. n)) \in Nat BY <1>2, FS_CardinalityType
<1> QED BY <1>1, <1>2, <1>3

\* The subsets of 1 .. n + 1 are those of 1 .. n, without and with n + 1.
LEMMA PowNext ==
  ASSUME NEW n \in Nat
  PROVE  2 ^ (n + 1) = 2 * 2 ^ n
<1> DEFINE A == SUBSET (1 .. n)
           B == {X \cup {n + 1} : X \in A}
           C == SUBSET (1 .. n + 1)
<1>1. C = A \cup B
  <2>1. 1 .. n + 1 = (1 .. n) \cup {n + 1} OBVIOUS
  <2>2. ASSUME NEW X \in C, X \notin A PROVE X \in B
    <3>0. X \subseteq (1 .. n) \cup {n + 1} BY <2>1
    <3>1. n + 1 \in X BY <2>2, <3>0
    <3>2. X \ {n + 1} \in A BY <3>0
    <3>3. X = (X \ {n + 1}) \cup {n + 1} BY <3>1
    <3> QED BY <3>2, <3>3
  <2>3. A \subseteq C BY <2>1
  <2>4. B \subseteq C
    <3>1. ASSUME NEW X \in A PROVE X \cup {n + 1} \subseteq 1 .. n + 1 BY <2>1
    <3> QED BY <3>1
  <2> QED BY <2>2, <2>3, <2>4
<1>2. A \cap B = {}
  <2>1. n + 1 \notin 1 .. n OBVIOUS
  <2> QED BY <2>1
<1>3. ExistsBijection(A, B)
  <2> DEFINE f == [X \in A |-> X \cup {n + 1}]
  <2>1. \A X \in A : n + 1 \notin X OBVIOUS
  <2>2. f \in [A -> B] OBVIOUS
  <2>3. \A X, Y \in A : f[X] = f[Y] => X = Y BY <2>1
  <2>4. \A Z \in B : \E X \in A : f[X] = Z OBVIOUS
  <2>5. f \in Bijection(A, B) BY <2>2, <2>3, <2>4 DEF Bijection, Injection, Surjection, IsInjective
  <2> QED BY <2>5 DEF ExistsBijection
<1>4. IsFiniteSet(A) /\ Cardinality(A) = 2 ^ n /\ 2 ^ n \in Nat BY PowSubset
<1>5. Cardinality(C) = 2 ^ (n + 1) BY PowSubset
<1> HIDE DEF A, B, C
<1>6. IsFiniteSet(B) /\ Cardinality(B) = Cardinality(A) BY <1>3, <1>4, FS_Bijection
<1>7. Cardinality(A \cup B) = Cardinality(A) + Cardinality(B) - Cardinality(A \cap B) BY <1>4, <1>6, FS_Union
<1>8. Cardinality(A \cap B) = 0 BY <1>2, FS_EmptySet
<1> QED BY <1>1, <1>4, <1>5, <1>6, <1>7, <1>8

\* Exponents add up: the least n for which they do not is the next of one for which they do.
LEMMA PowAdd ==
  ASSUME NEW m \in Nat, NEW n \in Nat
  PROVE  2 ^ (m + n) = 2 ^ m * 2 ^ n
<1> DEFINE T == {k \in Nat : 2 ^ (m + k) # 2 ^ m * 2 ^ k}
<1>1. SUFFICES ASSUME T # {} PROVE FALSE OBVIOUS
<1>2. PICK k \in T : \A j \in T : k <= j BY <1>1, Least
<1>4. 2 ^ m \in Nat BY PowSubset
<1>5. k # 0
  <2>1. 2 ^ 0 = 1 OBVIOUS
  <2>2. 2 ^ (m + 0) = 2 ^ m * 1 BY <1>4, m + 0 = m
  <2> QED BY <2>1, <2>2
<1>6. k - 1 \in Nat /\ k - 1 \notin T BY <1>2, <1>5
<1>7. 2 ^ (m + (k - 1)) = 2 ^ m * 2 ^ (k - 1) BY <1>6, Zenon
<1>8. 2 ^ (m + (k - 1) + 1) = 2 * 2 ^ (m + (k - 1)) BY <1>6, PowNext
<1>9. 2 ^ (k - 1 + 1) = 2 * 2 ^ (k - 1) BY <1>6, PowNext
<1>10. 2 ^ (m + k) = 2 * 2 ^ (m + (k - 1)) /\ 2 ^ k = 2 * 2 ^ (k - 1)
  <2>1. m + (k - 1) + 1 = m + k /\ k - 1 + 1 = k BY <1>2
  <2> QED BY <2>1, <1>8, <1>9
<1>11. 2 ^ (k - 1) \in Nat BY <1>6, PowSubset
<1>12. 2 * (2 ^ m * 2 ^ (k - 1)) = 2 ^ m * (2 * 2 ^ (k - 1)) BY <1>4, <1>11
<1>13. 2 ^ (m + k) = 2 ^ m * 2 ^ k BY <1>7, <1>10, <1>12
<1> QED BY <1>13

\* A power of two is a positive natural.
LEMMA PowPositive ==
  ASSUME NEW n \in Nat
  PROVE  2 ^ n \in Nat /\ 2 ^ n >= 1
<1> DEFINE A == SUBSET (1 .. n)
<1>1. 2 ^ n = Cardinality(A) /\ 2 ^ n \in Nat /\ IsFiniteSet(A)
  BY PowSubset
<1>2. A # {}
  OBVIOUS
<1> HIDE DEF A
<1>3. Cardinality(A) # 0
  BY <1>1, <1>2, FS_EmptySet
<1> QED
  BY <1>1, <1>3

\* Division with remainder.
LEMMA Divided ==
  ASSUME NEW n \in Nat, NEW m \in Nat, m > 0
  PROVE  /\ n \div m \in Nat /\ n % m \in Nat /\ n % m < m
         /\ n = m * (n \div m) + (n % m)
OBVIOUS

\* A product grows with its factor.
LEMMA TimesGrows ==
  ASSUME NEW m \in Nat, NEW a \in Nat, NEW b \in Nat, a <= b
  PROVE  m * a <= m * b
<1>1. b - a \in Nat
  OBVIOUS
<1>2. \A x, y \in Nat : x * y \in Nat
  OBVIOUS
<1>3. m * b = m * a + m * (b - a)
  OBVIOUS
<1> QED
  BY <1>1, <1>2, <1>3

\* A smaller exponent gives a smaller power.
LEMMA PowGrows ==
  ASSUME NEW m \in Nat, NEW n \in Nat, m <= n
  PROVE  2 ^ m <= 2 ^ n
<1>1. n - m \in Nat /\ m + (n - m) = n
  OBVIOUS
<1>2. 2 ^ n = 2 ^ m * 2 ^ (n - m)
  BY <1>1, PowAdd
<1>3. 2 ^ m \in Nat /\ 2 ^ (n - m) \in Nat /\ 1 <= 2 ^ (n - m)
  BY <1>1, PowPositive
<1>4. 2 ^ m * 1 <= 2 ^ m * 2 ^ (n - m)
  BY <1>3, TimesGrows
<1> QED
  BY <1>2, <1>3, <1>4

\* Two multiples of m whose remainders agree differ by no remainder.
LEMMA FactorBelow ==
  ASSUME NEW m \in Nat, m > 0, NEW a \in Nat, NEW b \in Nat, NEW r \in Nat, NEW s \in Nat,
         r < m, s < m, m * a + r = m * b + s
  PROVE  a >= b
<1> SUFFICES ASSUME a + 1 <= b PROVE FALSE
  OBVIOUS
<1>1. m * (a + 1) <= m * b
  BY TimesGrows
<1>2. m * (a + 1) = m * a + m
  OBVIOUS
<1>3. m * a \in Nat /\ m * b \in Nat
  OBVIOUS
<1> QED
  BY <1>1, <1>2, <1>3

\* The remainder is the only one with a quotient.
LEMMA RemainderUnique ==
  ASSUME NEW n \in Nat, NEW m \in Nat, m > 0, NEW q \in Nat, NEW r \in Nat,
         r < m, n = m * q + r
  PROVE  n \div m = q /\ n % m = r
<1> DEFINE d == n \div m
           e == n % m
<1>1. d \in Nat /\ e \in Nat /\ e < m /\ n = m * d + e
  BY Divided
<1> HIDE DEF d, e
<1>2. d >= q /\ q >= d
  <2>1. m * d + e = m * q + r
    BY <1>1
  <2> QED
    BY <1>1, <2>1, FactorBelow
<1>3. d = q
  BY <1>1, <1>2
<1>4. m * d \in Nat
  BY <1>1
<1>5. e = r
  BY <1>1, <1>3, <1>4
<1> QED
  BY <1>3, <1>5 DEF d, e

-----------------------------------------------------------------------------
(* Suffixes of a hash.                                                      *)

LEMMA SuffixRange ==
  ASSUME NEW h \in Nat, NEW d \in Nat
  PROVE  Suffix(h, d) \in Nat /\ Suffix(h, d) < 2 ^ d /\ Suffix(h, d) \in 0 .. 2 ^ d - 1
<1>1. 2 ^ d \in Nat /\ 2 ^ d >= 1
  BY PowPositive
<1>2. h % 2 ^ d \in Nat /\ h % 2 ^ d < 2 ^ d
  BY <1>1, Divided
<1> QED
  BY <1>1, <1>2 DEF Suffix

\* A number below 2 ^ d is its own suffix; from there to 2 ^ (d + 1) one bit goes.
LEMMA SuffixSmall ==
  ASSUME NEW h \in Nat, NEW d \in Nat
  PROVE  /\ h < 2 ^ d => Suffix(h, d) = h
         /\ Suffix(h + 2 ^ d, d) = Suffix(h, d)
<1> DEFINE p == 2 ^ d
<1>1. p \in Nat /\ p >= 1
  BY PowPositive
<1>2. Suffix(h, d) = h % p /\ Suffix(h + p, d) = (h + p) % p
  BY DEF Suffix
<1> HIDE DEF p
<1>3. ASSUME h < p PROVE h % p = h
  BY <1>1, <1>3, p * 0 = 0, RemainderUnique
<1>4. (h + p) % p = h % p
  <2> DEFINE q == h \div p
             r == h % p
  <2>1. q \in Nat /\ r \in Nat /\ r < p /\ h = p * q + r
    BY <1>1, Divided
  <2> HIDE DEF q, r
  <2>2. p * (q + 1) = p * q + p /\ p * q \in Nat
    BY <1>1, <2>1
  <2>3. h + p = p * (q + 1) + r
    BY <1>1, <2>1, <2>2
  <2>4. h + p \in Nat /\ q + 1 \in Nat
    BY <1>1, <2>1
  <2>5. (h + p) % p = r
    BY <1>1, <2>1, <2>3, <2>4, RemainderUnique
  <2> QED
    BY <2>5 DEF r
<1> QED
  BY <1>2, <1>3, <1>4 DEF p

\* The suffix of a longer suffix.
LEMMA SuffixOfSuffix ==
  ASSUME NEW h \in Nat, NEW d \in Nat, NEW g \in Nat, d <= g
  PROVE  Suffix(Suffix(h, g), d) = Suffix(h, d)
<1> DEFINE p == 2 ^ d
           t == 2 ^ (g - d)
           m == 2 ^ g
           r == h % m
           Q == h \div m
           A == r \div p
           e == r % p
<1>1. p \in Nat /\ p > 0 /\ t \in Nat /\ m \in Nat /\ m > 0
  BY PowPositive
<1>2. m = p * t
  <2>1. g - d \in Nat /\ d + (g - d) = g
    OBVIOUS
  <2> QED
    BY <2>1, PowAdd
<1>3. Suffix(Suffix(h, g), d) = e /\ Suffix(h, d) = h % p
  BY DEF Suffix
<1> HIDE DEF p, t, m
<1>4. r \in Nat /\ Q \in Nat /\ h = m * Q + r
  BY <1>1, Divided
<1> HIDE DEF r, Q
<1>5. A \in Nat /\ e \in Nat /\ e < p /\ r = p * A + e
  BY <1>1, <1>4, Divided
<1> HIDE DEF A, e
<1>6. m * Q = p * (t * Q) /\ t * Q \in Nat
  BY <1>1, <1>2, <1>4
<1>7. h = p * (t * Q + A) + e
  <2>1. p * (t * Q + A) = p * (t * Q) + p * A
    BY <1>1, <1>5, <1>6
  <2>2. p * (t * Q) \in Nat /\ p * A \in Nat
    BY <1>1, <1>5, <1>6
  <2> QED
    BY <1>4, <1>5, <1>6, <2>1, <2>2
<1>8. t * Q + A \in Nat
  BY <1>5, <1>6
<1>9. h % p = e
  BY <1>1, <1>5, <1>7, <1>8, RemainderUnique
<1> QED
  BY <1>3, <1>9

\* Numbers that agree in g bits agree in fewer.
LEMMA SuffixAgree ==
  ASSUME NEW i \in Nat, NEW j \in Nat, NEW d \in Nat, NEW g \in Nat, d <= g,
         Suffix(i, g) = Suffix(j, g)
  PROVE  Suffix(i, d) = Suffix(j, d)
<1>1. Suffix(Suffix(i, g), d) = Suffix(i, d) /\ Suffix(Suffix(j, g), d) = Suffix(j, d)
  BY SuffixOfSuffix
<1> QED
  BY <1>1

\* One more bit is 0 or 1.
LEMMA SuffixNext ==
  ASSUME NEW h \in Nat, NEW d \in Nat
  PROVE  Suffix(h, d + 1) \in {Suffix(h, d), 2 ^ d + Suffix(h, d)}
<1> DEFINE x == Suffix(h, d + 1)
           p == 2 ^ d
<1>1. p \in Nat /\ 2 ^ (d + 1) = 2 * p
  BY PowPositive, PowNext
<1>2. x \in Nat /\ x < 2 ^ (d + 1)
  BY d + 1 \in Nat, SuffixRange
<1>3. Suffix(x, d) = Suffix(h, d)
  BY d + 1 \in Nat, d <= d + 1, SuffixOfSuffix
<1>4. CASE x < p
  BY <1>2, <1>3, <1>4, SuffixSmall
<1>5. CASE x >= p
  <2>1. x - p \in Nat /\ x - p < p /\ (x - p) + p = x
    BY <1>1, <1>2, <1>5
  <2>2. Suffix(x - p, d) = x - p /\ Suffix((x - p) + p, d) = Suffix(x - p, d)
    BY <2>1, SuffixSmall
  <2>3. x - p = Suffix(h, d)
    BY <1>3, <2>1, <2>2
  <2>4. x = p + Suffix(h, d)
    BY <1>1, <1>2, <2>3
  <2> QED
    BY <2>4
<1> QED
  BY <1>1, <1>2, <1>4, <1>5

-----------------------------------------------------------------------------
(* A directory D of depth g over the pages B, where K are the keys stored.  *)

Indices(g) == 0 .. 2 ^ g - 1

ExactAt(D, g, B, K, i, d) ==
  /\ d \in 0 .. g
  /\ \A j \in Indices(g) : D[j] = D[i] <=> Suffix(j, d) = Suffix(i, d)
  /\ \A k : k \in B[D[i]].keys <=> k \in K /\ Suffix(k.hash, d) = Suffix(i, d)

\* The buckets that the directory points to.
Pointees(D, g) == {D[i] : i \in Indices(g)}

Gains(D, g, E, n) == \A c : c \in Pointees(E, g) <=> c \in Pointees(D, g) \/ c = n

Exact(D, g, B, K) == \A i \in Indices(g) : ExactAt(D, g, B, K, i, B[D[i]].local_depth)

\* The entry for a hash and the entries that share its bucket.
LEMMA EntryOf ==
  ASSUME NEW g \in Nat, NEW D, NEW B, NEW K, Exact(D, g, B, K), NEW h \in Nat,
         NEW b, b = D[Suffix(h, g)], NEW d, d = B[b].local_depth
  PROVE  /\ Suffix(h, g) \in Indices(g) /\ d \in Nat /\ d <= g
         /\ \A j \in Indices(g) : D[j] = b <=> Suffix(j, d) = Suffix(h, d)
<1>1. Suffix(h, g) \in Indices(g)
  BY SuffixRange DEF Indices
<1>2. ExactAt(D, g, B, K, Suffix(h, g), d)
  BY <1>1 DEF Exact
<1>3. d \in Nat /\ d <= g
  BY <1>2 DEF ExactAt
<1>4. Suffix(Suffix(h, g), d) = Suffix(h, d)
  BY <1>3, SuffixOfSuffix
<1> QED
  BY <1>1, <1>2, <1>3, <1>4 DEF ExactAt

\* duplicate_dirs: the directory with each entry twice agrees with the same buckets.
LEMMA DoubledExact ==
  ASSUME NEW g \in Nat, NEW D, NEW B, NEW K, Exact(D, g, B, K),
         NEW E, \A j \in Indices(g + 1) : E[j] = D[Suffix(j, g)]
  PROVE  Exact(E, g + 1, B, K)
<1> SUFFICES ASSUME NEW i \in Indices(g + 1)
             PROVE  ExactAt(E, g + 1, B, K, i, B[E[i]].local_depth)
  BY DEF Exact
<1> DEFINE m == Suffix(i, g)
           d == B[E[i]].local_depth
<1>1. \A j \in Indices(g + 1) : j \in Nat /\ Suffix(j, g) \in Indices(g)
  BY SuffixRange DEF Indices
<1>2. E[i] = D[m] /\ m \in Indices(g)
  BY <1>1
<1>3. ExactAt(D, g, B, K, m, d)
  BY <1>2 DEF Exact
<1>4. d \in 0 .. g
  BY <1>3 DEF ExactAt
<1> HIDE DEF d
<1>5. \A j \in Indices(g + 1) : Suffix(Suffix(j, g), d) = Suffix(j, d)
  BY <1>1, <1>4, SuffixOfSuffix
<1>6. ASSUME NEW j \in Indices(g + 1) PROVE E[j] = E[i] <=> Suffix(j, d) = Suffix(i, d)
  <2>1. E[j] = D[Suffix(j, g)] /\ Suffix(j, g) \in Indices(g)
    BY <1>1
  <2>2. D[Suffix(j, g)] = D[m] <=> Suffix(Suffix(j, g), d) = Suffix(m, d)
    BY <1>3, <2>1 DEF ExactAt
  <2> QED
    BY <1>2, <1>5, <2>1, <2>2
<1>7. \A k : k \in B[E[i]].keys <=> k \in K /\ Suffix(k.hash, d) = Suffix(i, d)
  <2>1. \A k : k \in B[D[m]].keys <=> k \in K /\ Suffix(k.hash, d) = Suffix(m, d)
    BY <1>3 DEF ExactAt
  <2>2. Suffix(m, d) = Suffix(i, d)
    BY <1>5
  <2> QED
    BY <1>2, <2>1, <2>2
<1>8. d \in 0 .. g + 1
  BY <1>4
<1> QED
  BY <1>6, <1>7, <1>8 DEF ExactAt, d

\* What a split of bucket b, of depth d, does for the hash h: the entries and the
\* keys that end in 1 and the suffix of h go to n.
Splits(D, B, g, h, b, d, n, E, C) ==
  /\ \A i \in Indices(g) : E[i] = IF Suffix(i, d + 1) = 2 ^ d + Suffix(h, d) THEN n ELSE D[i]
  /\ C[b].local_depth = d + 1 /\ C[n].local_depth = d + 1
  /\ \A k : k \in C[b].keys <=> k \in B[b].keys /\ Suffix(k.hash, d + 1) # 2 ^ d + Suffix(h, d)
  /\ \A k : k \in C[n].keys <=> k \in B[b].keys /\ Suffix(k.hash, d + 1) = 2 ^ d + Suffix(h, d)
  /\ \A i \in Indices(g) : D[i] # b => C[D[i]] = B[D[i]]

\* One bit more tells the entries (and the keys) of b apart.
LEMMA SuffixSplit ==
  ASSUME NEW x \in Nat, NEW h \in Nat, NEW d \in Nat
  PROVE  /\ Suffix(x, d) = Suffix(h, d) <=>
              Suffix(x, d + 1) \in {Suffix(h, d), 2 ^ d + Suffix(h, d)}
         /\ Suffix(h, d) # 2 ^ d + Suffix(h, d)
<1>1. Suffix(x, d + 1) \in {Suffix(x, d), 2 ^ d + Suffix(x, d)}
  BY SuffixNext
<1>2. /\ Suffix(x, d) \in Nat /\ Suffix(x, d) < 2 ^ d
      /\ Suffix(h, d) \in Nat /\ Suffix(h, d) < 2 ^ d
  BY SuffixRange
<1>3. 2 ^ d \in Nat /\ 2 ^ d >= 1
  BY PowPositive
<1> QED
  BY <1>1, <1>2, <1>3

\* A split of a bucket whose depth is below that of the directory, to a new number.
LEMMA SplitExact ==
  ASSUME NEW g \in Nat, NEW D, NEW B, NEW K, Exact(D, g, B, K), \A k \in K : k.hash \in Nat,
         NEW h \in Nat, NEW b, b = D[Suffix(h, g)], NEW d, d = B[b].local_depth, d < g,
         NEW n, \A i \in Indices(g) : D[i] # n,
         NEW E, NEW C, Splits(D, B, g, h, b, d, n, E, C)
  PROVE  Exact(E, g, C, K)
<1> SUFFICES ASSUME NEW i \in Indices(g)
             PROVE  ExactAt(E, g, C, K, i, C[E[i]].local_depth)
  BY DEF Exact
<1> DEFINE s == Suffix(h, d)
           t == 2 ^ d + Suffix(h, d)
<1>1. /\ Suffix(h, g) \in Indices(g) /\ d \in Nat /\ d <= g
      /\ \A j \in Indices(g) : D[j] = b <=> Suffix(j, d) = s
  BY EntryOf
<1>2. /\ \A j \in Indices(g) : Suffix(j, d) = s <=> Suffix(j, d + 1) \in {s, t}
      /\ s # t
      /\ \A k \in K : Suffix(k.hash, d) = s <=> Suffix(k.hash, d + 1) \in {s, t}
  BY <1>1, SuffixSplit DEF Indices
<1>3. \A k : k \in B[b].keys <=> k \in K /\ Suffix(k.hash, d) = s
  <2>1. ExactAt(D, g, B, K, Suffix(h, g), d)
    BY <1>1 DEF Exact
  <2>2. Suffix(Suffix(h, g), d) = s
    BY <1>1, SuffixOfSuffix
  <2> QED
    BY <2>1, <2>2 DEF ExactAt
<1> HIDE DEF s, t
<1>4. /\ \A j \in Indices(g) : E[j] = IF Suffix(j, d + 1) = t THEN n ELSE D[j]
      /\ C[b].local_depth = d + 1 /\ C[n].local_depth = d + 1
      /\ \A k : k \in C[b].keys <=> k \in B[b].keys /\ Suffix(k.hash, d + 1) # t
      /\ \A k : k \in C[n].keys <=> k \in B[b].keys /\ Suffix(k.hash, d + 1) = t
      /\ \A j \in Indices(g) : D[j] # b => C[D[j]] = B[D[j]]
  BY DEF Splits, t
<1>5. b # n
  BY <1>1
<1>6. d + 1 \in 0 .. g
  BY <1>1
<1>7. CASE Suffix(i, d + 1) = t
  <2>1. E[i] = n /\ C[E[i]].local_depth = d + 1
    BY <1>4, <1>7
  <2>2. \A j \in Indices(g) : E[j] = n <=> Suffix(j, d + 1) = t
    BY <1>4
  <2>3. \A k : k \in C[n].keys <=> k \in K /\ Suffix(k.hash, d + 1) = t
    BY <1>2, <1>3, <1>4
  <2> QED
    BY <1>6, <1>7, <2>1, <2>2, <2>3 DEF ExactAt
<1>8. CASE Suffix(i, d + 1) # t /\ D[i] = b
  <2>1. E[i] = b /\ C[E[i]].local_depth = d + 1
    BY <1>4, <1>8
  <2>2. Suffix(i, d + 1) = s
    BY <1>1, <1>2, <1>8
  <2>3. \A j \in Indices(g) : E[j] = b <=> Suffix(j, d + 1) = s
    BY <1>1, <1>2, <1>4, <1>5
  <2>4. \A k : k \in C[b].keys <=> k \in K /\ Suffix(k.hash, d + 1) = s
    BY <1>2, <1>3, <1>4
  <2> QED
    BY <1>6, <2>1, <2>2, <2>3, <2>4 DEF ExactAt
<1>9. CASE Suffix(i, d + 1) # t /\ D[i] # b
  <2> DEFINE e == B[D[i]].local_depth
  <2>1. E[i] = D[i] /\ C[D[i]] = B[D[i]]
    BY <1>4, <1>9
  <2>2. ExactAt(D, g, B, K, i, e)
    BY DEF Exact
  <2> HIDE DEF e
  <2>3. ASSUME NEW j \in Indices(g) PROVE E[j] = E[i] <=> D[j] = D[i]
    <3>1. CASE Suffix(j, d + 1) = t
      <4>1. D[j] = b /\ E[j] = n
        BY <1>1, <1>2, <1>4, <3>1
      <4> QED
        BY <1>9, <2>1, <4>1
    <3>2. CASE Suffix(j, d + 1) # t
      BY <1>4, <2>1, <3>2
    <3> QED
      BY <3>1, <3>2
  <2>4. C[E[i]].local_depth = e
    BY <2>1 DEF e
  <2>5. ExactAt(E, g, C, K, i, e)
    BY <2>1, <2>2, <2>3 DEF ExactAt
  <2> QED
    BY <2>4, <2>5
<1> QED
  BY <1>7, <1>8, <1>9

\* Whatever bucket an entry had is still pointed to, and n is too.
LEMMA SplitRange ==
  ASSUME NEW g \in Nat, NEW D, NEW B, NEW K, Exact(D, g, B, K),
         NEW h \in Nat, NEW b, b = D[Suffix(h, g)], NEW d, d = B[b].local_depth, d < g,
         NEW n, NEW E, NEW C, Splits(D, B, g, h, b, d, n, E, C)
  PROVE  Gains(D, g, E, n)
<1> DEFINE s == Suffix(h, d)
           t == 2 ^ d + Suffix(h, d)
<1>1. /\ d \in Nat /\ d <= g
      /\ \A j \in Indices(g) : D[j] = b <=> Suffix(j, d) = s
  BY EntryOf
<1>2. /\ \A j \in Indices(g) : Suffix(j, d) = s <=> Suffix(j, d + 1) \in {s, t}
      /\ s # t
  BY <1>1, SuffixSplit DEF Indices
<1>3. s \in Nat /\ s < 2 ^ d /\ 2 ^ d \in Nat /\ 2 ^ (d + 1) = 2 * 2 ^ d
  BY <1>1, SuffixRange, PowPositive, PowNext
<1>4. 2 ^ (d + 1) <= 2 ^ g
  BY <1>1, d + 1 \in Nat, d + 1 <= g, PowGrows
<1>5. s \in Indices(g) /\ t \in Indices(g)
  <2>1. 2 ^ g \in Nat
    BY PowPositive
  <2> QED
    BY <1>3, <1>4, <2>1 DEF Indices
<1>6. Suffix(s, d + 1) = s /\ Suffix(t, d + 1) = t
  <2>1. s \in Nat /\ t \in Nat /\ d + 1 \in Nat /\ s < 2 ^ (d + 1) /\ t < 2 ^ (d + 1)
    BY <1>1, <1>3
  <2> QED
    BY <2>1, SuffixSmall
<1>7. \A i \in Indices(g) : E[i] = IF Suffix(i, d + 1) = t THEN n ELSE D[i]
  BY DEF Splits
<1> HIDE DEF s, t
<1>8. E[t] = n /\ E[s] = b
  BY <1>1, <1>2, <1>5, <1>6, <1>7
<1>9. ASSUME NEW i \in Indices(g) PROVE \E j \in Indices(g) : E[j] = D[i]
  <2>1. CASE Suffix(i, d + 1) = t
    <3>1. D[i] = b
      BY <1>1, <1>2, <2>1
    <3> QED
      BY <1>5, <1>8, <3>1
  <2>2. CASE Suffix(i, d + 1) # t
    BY <1>7, <2>2
  <2> QED
    BY <2>1, <2>2
<1> QED
  BY <1>5, <1>7, <1>8, <1>9 DEF Pointees, Gains

-----------------------------------------------------------------------------
(* The numbers of the buckets.                                              *)

NumberedBy(D, g, B) == \A i \in Indices(g) : D[i] = Suffix(i, B[D[i]].local_depth)

\* Online the number of the new bucket is its suffix, which is no bucket's number yet.
LEMMA NumberedFresh ==
  ASSUME NEW g \in Nat, NEW D, NEW B, NEW K, Exact(D, g, B, K), NumberedBy(D, g, B),
         NEW h \in Nat, NEW b, b = D[Suffix(h, g)], NEW d, d = B[b].local_depth
  PROVE  /\ b = Suffix(h, d) /\ OrBit(b, d) = 2 ^ d + Suffix(h, d)
         /\ \A i \in Indices(g) : D[i] # 2 ^ d + Suffix(h, d)
<1> DEFINE n == 2 ^ d + Suffix(h, d)
<1>1. /\ Suffix(h, g) \in Indices(g) /\ d \in Nat /\ d <= g
      /\ \A j \in Indices(g) : D[j] = b <=> Suffix(j, d) = Suffix(h, d)
  BY EntryOf
<1>2. b = Suffix(h, d)
  <2>1. b = Suffix(Suffix(h, g), d)
    BY <1>1 DEF NumberedBy
  <2> QED
    BY <1>1, <2>1, SuffixOfSuffix
<1>3. b \in Nat /\ b < 2 ^ d /\ 2 ^ d \in Nat /\ 2 ^ d >= 1
  BY <1>1, <1>2, SuffixRange, PowPositive
<1>4. OrBit(b, d) = b + 2 ^ d
  <2> DEFINE q == 2 ^ d
  <2>1. q \in Nat /\ q > 0 /\ b < q
    BY <1>3
  <2>2. OrBit(b, d) = IF (b \div q) % 2 = 1 THEN b ELSE b + q
    BY DEF OrBit
  <2> HIDE DEF q
  <2>3. b = q * 0 + b
    BY <1>3, <2>1
  <2>4. b \div q = 0
    BY <1>3, <2>1, <2>3, RemainderUnique
  <2> QED
    BY <2>2, <2>4 DEF q
<1>5. n = b + 2 ^ d
  <2>1. n = 2 ^ d + b
    BY <1>2
  <2>2. \A x, y \in Nat : x + y = y + x
    OBVIOUS
  <2> HIDE DEF n
  <2> QED
    BY <1>3, <2>1, <2>2, Zenon
<1>6. ASSUME NEW i \in Indices(g), D[i] = n PROVE FALSE
  <2> DEFINE e == B[D[i]].local_depth
  <2>1. ExactAt(D, g, B, K, i, e)
    BY DEF Exact
  <2>2. e \in Nat /\ e <= g /\ i \in Nat
    BY <2>1 DEF ExactAt, Indices
  <2>3. n = Suffix(i, e)
    BY <1>6 DEF NumberedBy
  <2> HIDE DEF e
  <2>4. n \in Nat /\ n < 2 ^ e /\ 2 ^ e <= 2 ^ g /\ 2 ^ e \in Nat /\ 2 ^ g \in Nat
    BY <2>2, <2>3, SuffixRange, PowGrows, PowPositive
  <2>5. n \in Indices(g)
    BY <2>4 DEF Indices
  <2>6. Suffix(n, e) = n
    BY <2>2, <2>4, SuffixSmall
  <2>7. D[n] = n
    BY <1>6, <2>1, <2>3, <2>5, <2>6 DEF ExactAt
  <2>8. Suffix(n, d) = Suffix(h, d)
    <3>1. Suffix(b + 2 ^ d, d) = Suffix(b, d) /\ Suffix(b, d) = b
      BY <1>1, <1>3, SuffixSmall
    <3> QED
      BY <1>2, <1>5, <3>1, Zenon
  <2>9. D[n] = b
    BY <1>1, <2>5, <2>8
  <2>10. n = b
    BY <2>7, <2>9
  <2>11. b # b + 2 ^ d
    BY <1>3
  <2> QED
    BY <1>5, <2>10, <2>11, Zenon
<1> QED
  BY <1>2, <1>4, <1>6, <1>5

\* A split keeps the numbers suffixes.
LEMMA SplitNumbered ==
  ASSUME NEW g \in Nat, NEW D, NEW B, NEW K, Exact(D, g, B, K), NumberedBy(D, g, B),
         NEW h \in Nat, NEW b, b = D[Suffix(h, g)], NEW d, d = B[b].local_depth,
         NEW E, NEW C, Splits(D, B, g, h, b, d, 2 ^ d + Suffix(h, d), E, C)
  PROVE  NumberedBy(E, g, C)
<1> SUFFICES ASSUME NEW i \in Indices(g)
             PROVE  E[i] = Suffix(i, C[E[i]].local_depth)
  BY DEF NumberedBy
<1> DEFINE s == Suffix(h, d)
           t == 2 ^ d + Suffix(h, d)
<1>1. /\ d \in Nat /\ \A j \in Indices(g) : D[j] = b <=> Suffix(j, d) = s
  BY EntryOf
<1>2. Suffix(i, d) = s <=> Suffix(i, d + 1) \in {s, t}
  BY <1>1, SuffixSplit DEF Indices
<1>3. b = s
  BY NumberedFresh
<1>4. /\ E[i] = IF Suffix(i, d + 1) = t THEN t ELSE D[i]
      /\ C[b].local_depth = d + 1 /\ C[t].local_depth = d + 1
      /\ D[i] # b => C[D[i]] = B[D[i]]
  BY DEF Splits
<1>5. D[i] = Suffix(i, B[D[i]].local_depth)
  BY DEF NumberedBy
<1> HIDE DEF s, t
<1>6. CASE Suffix(i, d + 1) = t
  BY <1>4, <1>6
<1>7. CASE Suffix(i, d + 1) # t /\ D[i] = b
  BY <1>1, <1>2, <1>3, <1>4, <1>7
<1>8. CASE Suffix(i, d + 1) # t /\ D[i] # b
  BY <1>4, <1>5, <1>8
<1> QED
  BY <1>6, <1>7, <1>8

\* So does duplicate_dirs.
LEMMA DoubledNumbered ==
  ASSUME NEW g \in Nat, NEW D, NEW B, NEW K, Exact(D, g, B, K), NumberedBy(D, g, B),
         NEW E, \A j \in Indices(g + 1) : E[j] = D[Suffix(j, g)]
  PROVE  NumberedBy(E, g + 1, B)
<1> SUFFICES ASSUME NEW i \in Indices(g + 1)
             PROVE  E[i] = Suffix(i, B[E[i]].local_depth)
  BY DEF NumberedBy
<1> DEFINE m == Suffix(i, g)
<1>1. i \in Nat /\ m \in Indices(g) /\ E[i] = D[m]
  BY SuffixRange DEF Indices
<1>2. ExactAt(D, g, B, K, m, B[D[m]].local_depth)
  BY <1>1 DEF Exact
<1>3. B[D[m]].local_depth \in Nat /\ B[D[m]].local_depth <= g
  BY <1>2 DEF ExactAt
<1>4. D[m] = Suffix(m, B[D[m]].local_depth)
  BY <1>1 DEF NumberedBy
<1>5. Suffix(m, B[D[m]].local_depth) = Suffix(i, B[D[m]].local_depth)
  BY <1>1, <1>3, SuffixOfSuffix
<1> QED
  BY <1>1, <1>4, <1>5

\* The import numbers the buckets from 0 on: their number is the next one, and while
\* two entries share a bucket it is below the size of the directory.
LEMMA CountedFresh ==
  ASSUME NEW g \in Nat, NEW D \in [Indices(g) -> Nat], NEW c \in Nat, Range(D) = 0 .. c - 1
  PROVE  /\ Cardinality(Range(D)) = c /\ c <= 2 ^ g
         /\ \A i \in Indices(g) : D[i] # c
         /\ \A i, j \in Indices(g) : D[i] = D[j] /\ i # j => c < 2 ^ g
<1>1. Cardinality(0 .. c - 1) = c
  BY FS_Interval
<1>2. 2 ^ g \in Nat /\ 2 ^ g >= 1
  BY PowPositive
<1>3. IsFiniteSet(Indices(g)) /\ Cardinality(Indices(g)) = 2 ^ g
  BY <1>2, FS_Interval DEF Indices
<1>4. Range(D) = {D[i] : i \in Indices(g)}
  BY DEF Range
<1>5. D \in Surjection(Indices(g), Range(D))
  BY <1>4 DEF Surjection
<1>6. /\ Cardinality(Range(D)) <= 2 ^ g
      /\ Cardinality(Range(D)) = 2 ^ g <=> D \in Injection(Indices(g), Range(D))
  BY <1>3, <1>5, FS_Surjection
<1>7. \A i \in Indices(g) : D[i] # c
  BY <1>4
<1>8. ASSUME NEW i \in Indices(g), NEW j \in Indices(g), D[i] = D[j], i # j PROVE c < 2 ^ g
  <2>1. D \notin Injection(Indices(g), Range(D))
    BY <1>8 DEF Injection, IsInjective
  <2> QED
    BY <1>1, <1>2, <1>6, <2>1
<1> QED
  BY <1>1, <1>6, <1>7, <1>8

\* What it does to the pages to add the key to bucket b.
Adds(D, B, g, b, key, C) ==
  /\ C[b].keys = B[b].keys \cup {key}
  /\ \A i \in Indices(g) : /\ C[D[i]].local_depth = B[D[i]].local_depth
                           /\ D[i] # b => C[D[i]].keys = B[D[i]].keys

\* A key that goes to the bucket of its hash.
LEMMA AddExact ==
  ASSUME NEW g \in Nat, NEW D, NEW B, NEW K, Exact(D, g, B, K),
         NEW h \in Nat, NEW b, b = D[Suffix(h, g)], NEW key, key.hash = h,
         NEW C, Adds(D, B, g, b, key, C), NEW L, L = K \cup {key}
  PROVE  Exact(D, g, C, L)
<1> SUFFICES ASSUME NEW i \in Indices(g)
             PROVE  ExactAt(D, g, C, L, i, C[D[i]].local_depth)
  BY DEF Exact
<1> DEFINE d == B[D[i]].local_depth
<1>1. ExactAt(D, g, B, K, i, d) /\ C[D[i]].local_depth = d
  BY DEF Exact, Adds
<1> HIDE DEF d
<1>2. d \in Nat /\ d <= g /\ Suffix(h, g) \in Indices(g)
  BY <1>1, SuffixRange DEF ExactAt, Indices
<1>3. D[i] = b <=> Suffix(h, d) = Suffix(i, d)
  <2>1. D[Suffix(h, g)] = D[i] <=> Suffix(Suffix(h, g), d) = Suffix(i, d)
    BY <1>1, <1>2 DEF ExactAt
  <2> QED
    BY <1>2, <2>1, SuffixOfSuffix
<1>4. \A k : k \in C[D[i]].keys <=> k \in L /\ Suffix(k.hash, d) = Suffix(i, d)
  <2>1. \A k : k \in B[D[i]].keys <=> k \in K /\ Suffix(k.hash, d) = Suffix(i, d)
    BY <1>1 DEF ExactAt
  <2>2. CASE D[i] = b
    <3>1. C[D[i]].keys = B[D[i]].keys \cup {key}
      BY <2>2 DEF Adds
    <3> QED
      BY <1>3, <2>1, <2>2, <3>1
  <2>3. CASE D[i] # b
    <3>1. C[D[i]].keys = B[D[i]].keys
      BY <2>3 DEF Adds
    <3> QED
      BY <1>3, <2>1, <2>3, <3>1
  <2> QED
    BY <2>2, <2>3
<1> QED
  BY <1>1, <1>4 DEF ExactAt

\* The entries that an online or an import split updates are those that end in t.
LEMMA EntriesExact ==
  ASSUME global_depth \in Nat, NEW e \in Nat, e <= global_depth, NEW t \in Nat, t < 2 ^ e
  PROVE  \A j : j \in Entries(e, t) <=> j \in Indices(global_depth) /\ Suffix(j, e) = t
<1> DEFINE p == 2 ^ e
           r == 2 ^ (global_depth - e)
           m == 2 ^ global_depth
<1>1. p \in Nat /\ p >= 1 /\ r \in Nat /\ r >= 1 /\ m \in Nat
  BY global_depth - e \in Nat, PowPositive
<1>2. m = p * r
  BY global_depth - e \in Nat, e + (global_depth - e) = global_depth, PowAdd
<1>3. Entries(e, t) = {OrSuffix(i, e, t) : i \in 0 .. r - 1} /\ Indices(global_depth) = 0 .. m - 1
  BY DEF Entries, Indices
<1>4. \A i \in 0 .. r - 1 : OrSuffix(i, e, t) = i * p + t
  BY DEF OrSuffix
<1>5. \A j : Suffix(j, e) = j % p
  BY DEF Suffix
<1>6. t < p
  OBVIOUS
<1> HIDE DEF p, r, m
<1>7. ASSUME NEW i \in 0 .. r - 1 PROVE i * p + t \in 0 .. m - 1 /\ (i * p + t) % p = t
  <2>1. i \in Nat /\ i * p = p * i /\ p * i \in Nat
    BY <1>1
  <2>2. (i * p + t) % p = t
    <3>1. i * p + t \in Nat /\ i * p + t = p * i + t
      BY <1>1, <2>1
    <3> QED
      BY <1>1, <1>6, <2>1, <3>1, RemainderUnique
  <2>3. p * (i + 1) <= p * r /\ p * (i + 1) = p * i + p
    <3>1. i + 1 \in Nat /\ i + 1 <= r
      BY <1>1
    <3> QED
      BY <1>1, <2>1, <3>1, TimesGrows
  <2> QED
    BY <1>1, <1>2, <1>6, <2>1, <2>2, <2>3
<1>8. ASSUME NEW j \in 0 .. m - 1, j % p = t PROVE \E i \in 0 .. r - 1 : j = i * p + t
  <2> DEFINE q == j \div p
  <2>1. j \in Nat /\ q \in Nat /\ j = p * q + t
    BY <1>1, <1>8, Divided
  <2> HIDE DEF q
  <2>2. q < r
    <3> SUFFICES ASSUME r <= q PROVE FALSE
      BY <1>1, <2>1
    <3>1. p * r <= p * q
      BY <1>1, <2>1, TimesGrows
    <3>2. p * q \in Nat
      BY <1>1, <2>1
    <3> QED
      BY <1>1, <1>2, <2>1, <3>1, <3>2
  <2>3. q * p = p * q /\ q \in 0 .. r - 1
    BY <1>1, <2>1, <2>2
  <2> QED
    BY <2>1, <2>3
<1> QED
  BY <1>3, <1>4, <1>5, <1>7, <1>8

-----------------------------------------------------------------------------
(* The invariant.  It holds while the import runs, and from then on when a  *)
(* split page is never dropped and imported numbers are not split by bits.  *)

Kind(f, S) == f = [x \in S |-> f[x]]

\* What the types leave open: pages are records, stored is a sequence.
Shapes ==
  /\ Kind(buckets, Numbers) /\ Kind(disk, Numbers)
  /\ \A b \in Numbers : {"keys", "local_depth"} \subseteq DOMAIN buckets[b]
  /\ \E S : stored \in Seq(S)

\* The import numbers its buckets in the order of their creation.
Counted == phase = "import" => \E c \in Nat : Range(dir) = 0 .. c - 1

\* The file of the directory is the directory.
Saved ==
  phase = "closed" =>
    /\ dir_file.global_depth = global_depth /\ dir_file.dir = dir
    /\ inserting = NoStr /\ restarts < MaxRestarts

HashInv ==
  TypeOK /\ Shapes /\ Exact(dir, global_depth, buckets, StoredKeys) /\ Counted /\ Saved

\* It holds as long as no page of a split is lost and no number given twice, and the
\* import does neither.
IntactInv ==
  /\ damage \subseteq Causes
  /\ phase = "import" => damage = {}
  /\ HashIntact => HashInv

\* Every bucket has the suffix of its hashes as its number.
Numbered == NumberedBy(dir, global_depth, buckets)

\* Facts about the types that every step uses.
LEMMA HashTypes ==
  ASSUME TypeOK
  PROVE  /\ global_depth \in Nat /\ MaxDepth \in Nat /\ global_depth <= MaxDepth
         /\ DOMAIN dir = Indices(global_depth) /\ dir \in [Indices(global_depth) -> Nat]
         /\ \A i \in Indices(global_depth) : dir[i] \in Numbers
         /\ \A s \in Str : Hash[s] \in Nat
         /\ \A n \in Nat : n < 2 ^ global_depth => n \in Numbers
         /\ \A k \in StoredKeys : k.hash \in Nat
<1>1. global_depth \in Nat /\ MaxDepth \in Nat /\ global_depth <= MaxDepth
  BY HashAssumption DEF TypeOK
<1>2. /\ 2 ^ global_depth \in Nat /\ 2 ^ MaxDepth \in Nat /\ 2 ^ global_depth <= 2 ^ MaxDepth
  BY <1>1, PowPositive, PowGrows
<1>3. \A n \in Nat : n < 2 ^ global_depth => n \in Numbers
  BY <1>2 DEF Numbers
<1>4. Numbers \subseteq Nat
  BY <1>2 DEF Numbers
<1>5. dir \in [Indices(global_depth) -> Numbers]
  BY DEF TypeOK, Indices
<1>6. \A s \in Str : Hash[s] \in Nat
  BY HashAssumption
<1>7. \A k \in StoredKeys : k.hash \in Nat
  BY <1>6 DEF StoredKeys, TypeOK
<1> QED
  BY <1>1, <1>3, <1>4, <1>5, <1>6, <1>7

\* The invariant says what the property says.
LEMMA HashInvExact ==
  ASSUME HashInv
  PROVE  DirectoryExact
<1>1. TypeOK /\ Exact(dir, global_depth, buckets, StoredKeys) /\ DOMAIN dir = Indices(global_depth)
  BY HashTypes DEF HashInv
<1>2. ASSUME NEW i \in DOMAIN dir, NEW d, d = buckets[dir[i]].local_depth
      PROVE  /\ d <= global_depth
             /\ {j \in DOMAIN dir : dir[j] = dir[i]} =
                {j \in DOMAIN dir : Suffix(j, d) = Suffix(i, d)}
             /\ buckets[dir[i]].keys = {k \in StoredKeys : Suffix(k.hash, d) = Suffix(i, d)}
  <2>1. ExactAt(dir, global_depth, buckets, StoredKeys, i, d)
    BY <1>1, <1>2 DEF Exact
  <2>2. d \in 0 .. global_depth
    BY <2>1 DEF ExactAt
  <2>3. global_depth \in Nat
    BY <1>1, HashTypes
  <2>4. \A j \in DOMAIN dir : dir[j] = dir[i] <=> Suffix(j, d) = Suffix(i, d)
    BY <1>1, <2>1 DEF ExactAt
  <2>5. \A k : k \in buckets[dir[i]].keys <=>
               k \in StoredKeys /\ Suffix(k.hash, d) = Suffix(i, d)
    BY <2>1 DEF ExactAt
  <2> QED
    BY <2>2, <2>3, <2>4, <2>5
<1> QED
  BY <1>1, <1>2 DEF DirectoryExact

\* StringsHashBulkImport starts with one empty bucket per entry.
LEMMA HashInit ==
  ASSUME Init
  PROVE  HashInv
<1>1. DefaultDepth \in Nat /\ MaxDepth \in Nat /\ DefaultDepth <= MaxDepth /\ MaxKeys \in Nat
  BY HashAssumption
<1>2. /\ 2 ^ DefaultDepth \in Nat /\ 2 ^ MaxDepth \in Nat /\ 2 ^ DefaultDepth <= 2 ^ MaxDepth
  BY <1>1, PowPositive, PowGrows
<1>3. Indices(DefaultDepth) \subseteq Numbers
  BY <1>2 DEF Indices, Numbers
<1>4. /\ global_depth = DefaultDepth /\ dir = [i \in Indices(DefaultDepth) |-> i]
      /\ phase = "import" /\ inserting = NoStr /\ stored = << >> /\ dirty = {} /\ restarts = 0
      /\ damage = {}
      /\ disk = [b \in Numbers |-> ZeroPage]
      /\ buckets = [b \in Numbers |->
                      IF b < 2 ^ DefaultDepth
                      THEN [keys |-> {}, local_depth |-> DefaultDepth] ELSE ZeroPage]
  BY DEF Init, Indices
<1>5. \A b \in Numbers : IsPage(buckets[b]) /\ IsPage(disk[b])
  <2>1. IsFiniteSet({}) /\ Cardinality({}) = 0
    BY FS_EmptySet
  <2>2. IsPage(ZeroPage) /\ IsPage([keys |-> {}, local_depth |-> DefaultDepth])
    BY <1>1, <2>1 DEF IsPage, ZeroPage
  <2> QED
    BY <1>4, <2>2
<1>6. TypeOK
  <2>1. dir \in [0 .. 2 ^ global_depth - 1 -> Numbers]
    BY <1>3, <1>4 DEF Indices
  <2>2. import \in Imports
    BY DEF Init
  <2>3. restarts \in 0 .. MaxRestarts /\ global_depth \in DefaultDepth .. MaxDepth
    BY <1>1, <1>4, HashAssumption
  <2>4. \A k \in DOMAIN stored : stored[k].str \in Str
    BY <1>4
  <2>5. /\ phase \in {"import", "online", "closed"} /\ inserting \in Str \cup {NoStr}
        /\ dirty \subseteq Numbers /\ damage \subseteq Causes
    BY <1>4
  <2> QED
    BY <1>5, <2>1, <2>2, <2>3, <2>4, <2>5 DEF TypeOK
<1>7. Shapes
  <2>1. Kind(buckets, Numbers) /\ Kind(disk, Numbers)
    BY <1>4 DEF Kind
  <2>2. \A b \in Numbers : {"keys", "local_depth"} \subseteq DOMAIN buckets[b]
    BY <1>4 DEF ZeroPage
  <2>3. stored \in Seq({})
    BY <1>4
  <2> QED
    BY <2>1, <2>2, <2>3 DEF Shapes
<1>8. Exact(dir, global_depth, buckets, StoredKeys)
  <2> SUFFICES ASSUME NEW i \in Indices(DefaultDepth)
               PROVE  ExactAt(dir, DefaultDepth, buckets, StoredKeys, i, DefaultDepth)
    <3>1. \A i \in Indices(DefaultDepth) : buckets[dir[i]].local_depth = DefaultDepth
      BY <1>2, <1>3, <1>4 DEF Indices
    <3> QED
      BY <1>4, <3>1 DEF Exact
  <2>1. dir[i] = i /\ i \in Numbers /\ i < 2 ^ DefaultDepth
    BY <1>2, <1>3, <1>4 DEF Indices
  <2>2. buckets[i].keys = {} /\ StoredKeys = {}
    BY <1>4, <2>1 DEF StoredKeys
  <2>3. \A j \in Indices(DefaultDepth) : dir[j] = j /\ Suffix(j, DefaultDepth) = j
    BY <1>1, <1>2, <1>4, SuffixSmall DEF Indices
  <2> QED
    BY <1>1, <2>1, <2>2, <2>3 DEF ExactAt
<1>9. Counted
  <2>1. Range(dir) = 0 .. 2 ^ DefaultDepth - 1
    BY <1>4 DEF Range, Indices
  <2> QED
    BY <1>2, <2>1 DEF Counted
<1> QED
  BY <1>4, <1>6, <1>7, <1>8, <1>9 DEF HashInv, Saved

-----------------------------------------------------------------------------
(* The steps.                                                               *)

\* What a lookup and the exactness of the directory depend on.
LEMMA SameHash ==
  ASSUME UNCHANGED <<global_depth, dir, buckets, stored, bytes>>
  PROVE  /\ Shapes /\ Kind(disk, Numbers)' => Shapes'
         /\ Exact(dir, global_depth, buckets, StoredKeys)' <=>
              Exact(dir, global_depth, buckets, StoredKeys)
         /\ NumberedBy(dir, global_depth, buckets)' <=> NumberedBy(dir, global_depth, buckets)
         /\ \A s : BucketOf(s)' = BucketOf(s)
         /\ \A b : Full(b)' <=> Full(b)
         /\ \A s : (Lookup(s) # NoId)' <=> Lookup(s) # NoId
<1>1. Shapes /\ Kind(disk, Numbers)' => Shapes'
  BY DEF Shapes, Kind
<1>2. StoredKeys' = StoredKeys
  BY DEF StoredKeys
<1>3. Exact(dir, global_depth, buckets, StoredKeys)' <=>
        Exact(dir, global_depth, buckets, StoredKeys)
  BY <1>2 DEF Exact, ExactAt
<1>4. NumberedBy(dir, global_depth, buckets)' <=> NumberedBy(dir, global_depth, buckets)
  BY DEF NumberedBy
<1>5. \A s : BucketOf(s)' = BucketOf(s)
  BY DEF BucketOf
<1>6. \A b : Full(b)' <=> Full(b)
  BY DEF Full
<1>7. \A s : Matches(BucketOf(s), s)' = Matches(BucketOf(s), s)
  BY DEF Matches, BucketOf
<1>8. \A s : Lookup(s)' = Lookup(s)
  BY <1>7 DEF Lookup, FindIn
<1> QED
  BY <1>1, <1>3, <1>4, <1>5, <1>6, <1>8, Zenon

LEMMA BeginStep ==
  ASSUME HashInv, damage' \subseteq Causes, NEW s \in Str, Begin(s)
  PROVE  HashInv' /\ (Numbered => Numbered')
<1>1. /\ inserting' = s /\ phase \in {"import", "online"}
      /\ UNCHANGED <<phase, import, global_depth, dir, buckets, disk, dirty, dir_file, stored,
                     restarts, bytes>>
  BY DEF Begin, stringVars
<1>2. TypeOK'
  BY <1>1 DEF HashInv, TypeOK, IsPage
<1>3. Shapes' /\ Exact(dir, global_depth, buckets, StoredKeys)'
  BY <1>1, SameHash DEF HashInv, Shapes, Kind
<1>4. Counted' /\ Saved'
  BY <1>1 DEF HashInv, Counted, Saved
<1>5. Numbered => Numbered'
  BY <1>1, SameHash DEF Numbered
<1> QED
  BY <1>2, <1>3, <1>4, <1>5 DEF HashInv

LEMMA FoundStep ==
  ASSUME HashInv, damage' \subseteq Causes, Found
  PROVE  HashInv' /\ (Numbered => Numbered')
<1>1. /\ inserting' = NoStr /\ phase = "online"
      /\ UNCHANGED <<phase, import, global_depth, dir, buckets, disk, dirty, dir_file, stored,
                     restarts, bytes>>
  BY DEF Found, stringVars
<1>2. TypeOK'
  BY <1>1 DEF HashInv, TypeOK, IsPage
<1>3. Shapes' /\ Exact(dir, global_depth, buckets, StoredKeys)'
  BY <1>1, SameHash DEF HashInv, Shapes, Kind
<1>4. Counted' /\ Saved'
  BY <1>1 DEF HashInv, Counted, Saved
<1>5. Numbered => Numbered'
  BY <1>1, SameHash DEF Numbered
<1> QED
  BY <1>2, <1>3, <1>4, <1>5 DEF HashInv

\* The new key is the key of the new string.
LEMMA AppendedKeys ==
  ASSUME NEW S, stored \in Seq(S), NEW x, stored' = Append(stored, x)
  PROVE  /\ stored' \in Seq(S \cup {x})
         /\ StoredKeys' = StoredKeys \cup {[hash |-> Hash[x.str], id |-> x.id]}
         /\ (\A k \in DOMAIN stored : stored[k].str \in Str) /\ x.str \in Str =>
              \A k \in DOMAIN stored' : stored'[k].str \in Str
<1>1. stored \in Seq(S \cup {x}) /\ x \in S \cup {x}
  OBVIOUS
<1>2. /\ stored' \in Seq(S \cup {x})
      /\ DOMAIN stored' = DOMAIN stored \cup {Len(stored) + 1}
      /\ stored'[Len(stored) + 1] = x
      /\ \A k \in DOMAIN stored : stored'[k] = stored[k]
  BY <1>1
<1>3. StoredKeys' = StoredKeys \cup {[hash |-> Hash[x.str], id |-> x.id]}
  BY <1>2 DEF StoredKeys
<1> QED
  BY <1>2, <1>3

LEMMA AppendKeyStep ==
  ASSUME HashInv, damage' \subseteq Causes, AppendKey
  PROVE  HashInv' /\ (Numbered => Numbered')
<1> DEFINE b == BucketOf(inserting)
           key == [hash |-> Hash[inserting], id |-> NextId]
           x == [str |-> inserting, id |-> NextId]
           h == Hash[inserting]
<1>1. /\ inserting # NoStr /\ ~ Full(b) /\ inserting' = NoStr
      /\ stored' = Append(stored, x)
      /\ buckets' = [buckets EXCEPT ![b].keys = @ \cup {key}]
      /\ dirty' = IF phase = "online" THEN dirty \cup {b} ELSE dirty
      /\ UNCHANGED <<phase, import, global_depth, dir, disk, dir_file, restarts>>
  BY DEF AppendKey
<1>2. TypeOK /\ Shapes
  BY DEF HashInv
<1>3. inserting \in Str /\ h \in Nat
  BY <1>1, <1>2, HashTypes DEF TypeOK
<1>4. b = dir[Suffix(h, global_depth)] /\ b \in Numbers
  <2>1. Suffix(h, global_depth) \in Indices(global_depth)
    BY <1>2, <1>3, HashTypes, SuffixRange DEF Indices
  <2> QED
    BY <1>2, <2>1, HashTypes DEF BucketOf
<1> HIDE DEF b, key, h
<1>5. PICK S : stored \in Seq(S)
  BY <1>2 DEF Shapes
<1>6. stored' \in Seq(S \cup {x}) /\ StoredKeys' = StoredKeys \cup {key}
      /\ \A k \in DOMAIN stored' : stored'[k].str \in Str
  <2>1. x.str = inserting /\ x.id = NextId
    OBVIOUS
  <2> HIDE DEF x
  <2>2. \A k \in DOMAIN stored : stored[k].str \in Str
    BY <1>2 DEF TypeOK
  <2>3. /\ stored' \in Seq(S \cup {x})
        /\ StoredKeys' = StoredKeys \cup {[hash |-> Hash[x.str], id |-> x.id]}
        /\ \A k \in DOMAIN stored' : stored'[k].str \in Str
    BY <1>1, <1>3, <1>5, <2>1, <2>2, AppendedKeys
  <2> QED
    BY <2>1, <2>3 DEF key
<1> HIDE DEF x
<1>7. /\ buckets'[b].keys = buckets[b].keys \cup {key}
      /\ \A c \in Numbers : /\ buckets'[c].local_depth = buckets[c].local_depth
                            /\ c # b => buckets'[c].keys = buckets[c].keys
                            /\ {"keys", "local_depth"} \subseteq DOMAIN buckets'[c]
      /\ Kind(buckets', Numbers)
  BY <1>1, <1>2, <1>4 DEF Shapes, Kind
<1>8. TypeOK'
  <2>1. IsFiniteSet(buckets'[b].keys) /\ Cardinality(buckets'[b].keys) <= MaxKeys
    <3> DEFINE Q == buckets[b].keys
    <3>1. IsFiniteSet(Q) /\ Cardinality(Q) <= MaxKeys /\ Cardinality(Q) # MaxKeys
      BY <1>1, <1>2, <1>4 DEF TypeOK, IsPage, Full
    <3>2. Cardinality(Q) \in Nat /\ MaxKeys \in Nat
      BY <3>1, FS_CardinalityType, HashAssumption
    <3> HIDE DEF Q
    <3>3. IsFiniteSet(Q \cup {key}) /\ Cardinality(Q \cup {key}) <= Cardinality(Q) + 1
      <4>1. /\ IsFiniteSet(Q \cup {key})
            /\ Cardinality(Q \cup {key}) = IF key \in Q THEN Cardinality(Q) ELSE Cardinality(Q) + 1
        BY <3>1, FS_AddElement, Zenon
      <4> QED
        BY <3>2, <4>1
    <3>4. Cardinality(Q \cup {key}) \in Nat
      BY <3>3, FS_CardinalityType
    <3>5. Cardinality(Q \cup {key}) <= MaxKeys
      BY <3>1, <3>2, <3>3, <3>4
    <3> QED
      BY <1>7, <3>3, <3>5 DEF Q
  <2>2. \A c \in Numbers : IsPage(buckets'[c])
    <3> SUFFICES ASSUME NEW c \in Numbers PROVE IsPage(buckets'[c])
      OBVIOUS
    <3>1. IsPage(buckets[c])
      BY <1>2 DEF TypeOK
    <3>2. CASE c = b
      BY <1>7, <2>1, <3>1, <3>2 DEF IsPage
    <3>3. CASE c # b
      BY <1>7, <3>1, <3>3 DEF IsPage
    <3> QED
      BY <3>2, <3>3
  <2>3. dirty' \subseteq Numbers
    BY <1>1, <1>2, <1>4 DEF TypeOK
  <2>4. \A c \in Numbers : IsPage(disk'[c])
    BY <1>1, <1>2 DEF TypeOK
  <2> QED
    BY <1>1, <1>2, <1>6, <2>2, <2>3, <2>4 DEF TypeOK
<1>9. Shapes'
  BY <1>1, <1>2, <1>6, <1>7 DEF Shapes, Kind
<1>10. Exact(dir, global_depth, buckets, StoredKeys)'
  <2>1. Exact(dir, global_depth, buckets, StoredKeys) /\ global_depth \in Nat
    BY <1>2, HashTypes DEF HashInv
  <2>2. key.hash = h
    BY DEF key, h
  <2>3. \A i \in Indices(global_depth) :
          /\ buckets'[dir[i]].local_depth = buckets[dir[i]].local_depth
          /\ dir[i] # b => buckets'[dir[i]].keys = buckets[dir[i]].keys
    BY <1>2, <1>7, HashTypes
  <2>4. Adds(dir, buckets, global_depth, b, key, buckets')
    BY <1>7, <2>3 DEF Adds
  <2>5. Exact(dir, global_depth, buckets', StoredKeys')
    BY <1>3, <1>4, <1>6, <2>1, <2>2, <2>4, AddExact
  <2> QED
    BY <1>1, <2>5
<1>11. Counted' /\ Saved'
  <2>1. phase # "closed"
    BY <1>1 DEF HashInv, Saved
  <2> QED
    BY <1>1, <2>1 DEF HashInv, Counted, Saved
<1>12. Numbered => Numbered'
  <2>1. \A i \in Indices(global_depth) : dir[i] \in Numbers
    BY <1>2, HashTypes
  <2> QED
    BY <1>1, <1>7, <2>1 DEF Numbered, NumberedBy
<1> QED
  BY <1>8, <1>9, <1>10, <1>11, <1>12 DEF HashInv

\* What makes the number n and the suffix of the new bucket right.
IsNew(b, d, h, n) ==
  /\ h \in Nat /\ b = dir[Suffix(h, global_depth)] /\ b \in Numbers
  /\ d \in Nat /\ d <= global_depth
  /\ n \in Nat /\ n < 2 ^ (global_depth + 1) /\ (d < global_depth => n < 2 ^ global_depth)
  /\ \A i \in Indices(global_depth) : dir[i] # n
  /\ NewSuffix(b, d) = 2 ^ d + Suffix(h, d)
  /\ phase = "import" => Range(dir) = 0 .. n - 1
  /\ phase # "import" => phase = "online" /\ n = 2 ^ d + Suffix(h, d)

\* The bucket that has to split, its hash and its depth.
LEMMA SplitDepth ==
  ASSUME HashInv, NEW b, b = BucketOf(inserting), MustSplit(b), NEW d, d = buckets[b].local_depth
  PROVE  /\ d \in Nat /\ d <= global_depth /\ global_depth \in Nat
         /\ Hash[inserting] \in Nat /\ b = dir[Suffix(Hash[inserting], global_depth)]
<1>1. TypeOK /\ Exact(dir, global_depth, buckets, StoredKeys) /\ inserting \in Str
  BY DEF HashInv, MustSplit, TypeOK
<1>2. /\ Hash[inserting] \in Nat /\ global_depth \in Nat
      /\ b = dir[Suffix(Hash[inserting], global_depth)]
  BY <1>1, HashTypes DEF BucketOf
<1> QED
  BY <1>1, <1>2, EntryOf

\* In an index that is numbered by suffix, a query gives a new number, the suffix.
LEMMA NumberedRight ==
  ASSUME HashInv, phase = "online", Numbered,
         NEW b, b = BucketOf(inserting), MustSplit(b), NEW d, d = buckets[b].local_depth
  PROVE  ~ WrongNumber(b, d)
<1> DEFINE h == Hash[inserting]
<1>1. /\ h \in Nat /\ global_depth \in Nat /\ b = dir[Suffix(h, global_depth)]
  BY SplitDepth
<1>2. Exact(dir, global_depth, buckets, StoredKeys) /\ DOMAIN dir = Indices(global_depth)
  BY HashTypes DEF HashInv
<1> HIDE DEF h
<1>3. /\ OrBit(b, d) = 2 ^ d + Suffix(h, d)
      /\ \A i \in Indices(global_depth) : dir[i] # 2 ^ d + Suffix(h, d)
  BY <1>1, <1>2, NumberedFresh DEF Numbered
<1>4. NewBucket(b, d) = OrBit(b, d)
  BY DEF NewBucket
<1> QED
  BY <1>2, <1>3, <1>4 DEF WrongNumber, Range, h

\* The import counts its buckets; a query sets the bit that tells the two apart.
LEMMA NewNumber ==
  ASSUME HashInv, NEW b, b = BucketOf(inserting), MustSplit(b), NEW d, d = buckets[b].local_depth,
         ~ WrongNumber(b, d)
  PROVE  IsNew(b, d, Hash[inserting], NewBucket(b, d))
<1> DEFINE h == Hash[inserting]
           g == global_depth
           n == NewBucket(b, d)
           s == Suffix(h, d)
           p == 2 ^ d
<1>1. TypeOK /\ Exact(dir, g, buckets, StoredKeys) /\ Counted
  BY DEF HashInv
<1>2. inserting # NoStr /\ inserting \in Str /\ phase \in {"import", "online"}
  BY <1>1 DEF MustSplit, TypeOK, HashInv, Saved
<1>3. h \in Nat /\ g \in Nat /\ b = dir[Suffix(h, g)]
  BY <1>1, <1>2, HashTypes DEF BucketOf
<1> HIDE DEF h
<1>4. /\ Suffix(h, g) \in Indices(g) /\ d \in Nat /\ d <= g
      /\ \A j \in Indices(g) : dir[j] = b <=> Suffix(j, d) = s
  BY <1>1, <1>3, EntryOf
<1>5. b \in Numbers
  BY <1>1, <1>3, <1>4, HashTypes
<1>6. /\ p \in Nat /\ p >= 1 /\ s \in Nat /\ s < p /\ 2 ^ g \in Nat /\ 2 ^ (g + 1) = 2 * 2 ^ g
      /\ p <= 2 ^ g /\ 2 ^ g >= 1
  BY <1>3, <1>4, PowPositive, PowGrows, PowNext, SuffixRange
<1>7. d < g => 2 * p <= 2 ^ g
  <2>1. 2 ^ (d + 1) = 2 * p
    BY <1>4, PowNext
  <2>2. d < g => 2 ^ (d + 1) <= 2 ^ g
    BY <1>3, <1>4, d + 1 \in Nat, PowGrows
  <2> QED
    BY <2>1, <2>2
<1>8. CASE phase = "import"
  <2>1. PICK c \in Nat : Range(dir) = 0 .. c - 1
    BY <1>1, <1>8 DEF Counted
  <2>2. /\ Cardinality(Range(dir)) = c /\ c <= 2 ^ g
        /\ \A i \in Indices(g) : dir[i] # c
        /\ \A i, j \in Indices(g) : dir[i] = dir[j] /\ i # j => c < 2 ^ g
    BY <1>1, <1>3, <2>1, HashTypes, CountedFresh
  <2>3. n = c /\ NewSuffix(b, d) = p + s
    BY <1>8, <2>2 DEF NewBucket, NewSuffix, h
  <2>4. ASSUME d < g PROVE c < 2 ^ g
    <3>1. s \in Indices(g) /\ s + p \in Indices(g) /\ s # s + p
      BY <1>6, <1>7, <2>4 DEF Indices
    <3>2. Suffix(s, d) = s /\ Suffix(s + p, d) = s
      BY <1>4, <1>6, SuffixSmall
    <3>3. dir[s] = dir[s + p]
      BY <1>4, <3>1, <3>2
    <3> QED
      BY <2>2, <3>1, <3>3
  <2>5. c < 2 ^ (g + 1)
    BY <1>6, <2>2
  <2> HIDE DEF n, p, s
  <2> QED
    BY <1>3, <1>4, <1>5, <1>8, <2>1, <2>2, <2>3, <2>4, <2>5 DEF IsNew, h, n, p, s
<1>9. CASE phase = "online"
  <2>1. n = p + s /\ n \notin Range(dir)
    BY <1>9 DEF WrongNumber, h
  <2>2. \A i \in Indices(g) : dir[i] # p + s
    BY <1>1, <2>1, HashTypes DEF Range
  <2>3. NewSuffix(b, d) = p + s
    BY <1>9, <2>1 DEF NewSuffix
  <2>4. p + s \in Nat /\ p + s < 2 ^ (g + 1) /\ (d < g => p + s < 2 ^ g)
    BY <1>6, <1>7
  <2> HIDE DEF n, p, s
  <2> QED
    BY <1>3, <1>4, <1>5, <1>9, <2>1, <2>2, <2>3, <2>4 DEF IsNew, h, n, p, s
<1> QED
  BY <1>2, <1>8, <1>9

\* The pages after a split.
Redistributed(b, n, d, t) ==
  /\ buckets'[b].local_depth = d + 1 /\ buckets'[n].local_depth = d + 1
  /\ \A k : k \in buckets'[b].keys <=> k \in buckets[b].keys /\ Suffix(k.hash, d + 1) # t
  /\ \A k : k \in buckets'[n].keys <=> k \in buckets[b].keys /\ Suffix(k.hash, d + 1) = t
  /\ \A c \in Numbers : c \notin {b, n} => buckets'[c] = buckets[c]
  /\ \A c \in Numbers : IsPage(buckets'[c])
  /\ Kind(buckets', Numbers)
  /\ \A c \in Numbers : {"keys", "local_depth"} \subseteq DOMAIN buckets'[c]

\* What redistribute leaves.
LEMMA SplitPages ==
  ASSUME TypeOK, Shapes, NEW b \in Numbers, NEW n \in Numbers, n # b, NEW t,
         NEW d, d = buckets[b].local_depth, d \in Nat, d < MaxDepth,
         buckets' = Redistribute(b, n, t)
  PROVE  Redistributed(b, n, d, t)
<1> DEFINE keys == buckets[b].keys
           moved == {k \in keys : Suffix(k.hash, d + 1) = t}
           old == [keys |-> keys \ moved, local_depth |-> d + 1]
           new == [keys |-> moved, local_depth |-> d + 1]
<1>1. buckets' = [buckets EXCEPT ![b] = old, ![n] = new]
  BY DEF Redistribute, SuffixBits
<1>2. /\ old.keys = keys \ moved /\ old.local_depth = d + 1
      /\ new.keys = moved /\ new.local_depth = d + 1
      /\ DOMAIN old = {"keys", "local_depth"} /\ DOMAIN new = {"keys", "local_depth"}
  OBVIOUS
<1> HIDE DEF old, new
<1>3. /\ buckets'[b] = old /\ buckets'[n] = new
      /\ \A c \in Numbers : c \notin {b, n} => buckets'[c] = buckets[c]
      /\ Kind(buckets', Numbers)
  BY <1>1 DEF Shapes, Kind
<1>4. \A c \in Numbers : {"keys", "local_depth"} \subseteq DOMAIN buckets'[c]
  BY <1>2, <1>3 DEF Shapes
<1>5. IsPage(old) /\ IsPage(new)
  <2>1. IsFiniteSet(keys) /\ Cardinality(keys) <= MaxKeys /\ MaxKeys \in Nat /\ MaxDepth \in Nat
    BY HashAssumption DEF TypeOK, IsPage
  <2>2. keys \ moved \in SUBSET keys /\ moved \in SUBSET keys
    OBVIOUS
  <2> HIDE DEF keys, moved
  <2>3. ASSUME NEW T \in SUBSET keys PROVE IsFiniteSet(T) /\ Cardinality(T) <= MaxKeys
    <3>1. IsFiniteSet(T) /\ Cardinality(T) <= Cardinality(keys)
      BY <2>1, FS_Subset
    <3>2. Cardinality(T) \in Nat /\ Cardinality(keys) \in Nat
      BY <2>1, <3>1, FS_CardinalityType
    <3> QED
      BY <2>1, <3>1, <3>2
  <2>4. d + 1 \in 0 .. MaxDepth
    BY <2>1
  <2> QED
    BY <1>2, <2>2, <2>3, <2>4 DEF IsPage
<1>6. \A c \in Numbers : IsPage(buckets'[c])
  BY <1>3, <1>5 DEF TypeOK
<1>7. /\ \A k : k \in keys \ moved <=> k \in keys /\ Suffix(k.hash, d + 1) # t
      /\ \A k : k \in moved <=> k \in keys /\ Suffix(k.hash, d + 1) = t
  OBVIOUS
<1> QED
  BY <1>2, <1>3, <1>4, <1>6, <1>7 DEF Redistributed

\* A bucket splits and the directory keeps its size.
LEMMA SplitBucketStep ==
  ASSUME HashInv, damage' \subseteq Causes, SplitBucket, "number" \notin damage'
  PROVE  HashInv' /\ (phase = "online" /\ Numbered => Numbered')
<1> DEFINE b == BucketOf(inserting)
           d == buckets[b].local_depth
           n == NewBucket(b, d)
           h == Hash[inserting]
           g == global_depth
           t == 2 ^ d + Suffix(h, d)
<1>1. /\ MustSplit(b) /\ d < g
      /\ buckets' = Redistribute(b, n, NewSuffix(b, d))
      /\ dir' = Pointed(Entries(d + 1, NewSuffix(b, d)), n)
      /\ UNCHANGED <<phase, import, global_depth, disk, dirty, dir_file, stored, inserting,
                     restarts, bytes>>
  BY DEF SplitBucket, stringVars
<1>a. ~ WrongNumber(b, d)
  BY DEF SplitBucket, If
<1>2. IsNew(b, d, h, n)
  BY <1>1, <1>a, NewNumber
<1>3. TypeOK /\ Shapes /\ Exact(dir, g, buckets, StoredKeys)
  BY DEF HashInv
<1> HIDE DEF b, d, n, h
<1>4. /\ h \in Nat /\ b = dir[Suffix(h, g)] /\ b \in Numbers /\ d \in Nat /\ g \in Nat
      /\ g <= MaxDepth /\ MaxDepth \in Nat /\ DOMAIN dir = Indices(g)
      /\ \A i \in Indices(g) : dir[i] \in Numbers
      /\ \A k \in StoredKeys : k.hash \in Nat
  BY <1>2, <1>3, HashTypes DEF IsNew
<1>5. /\ n \in Numbers /\ \A i \in Indices(g) : dir[i] # n
  BY <1>1, <1>2, <1>3, HashTypes DEF IsNew
<1>6. n # b
  <2>1. Suffix(h, g) \in Indices(g)
    BY <1>4, SuffixRange DEF Indices
  <2> QED
    BY <1>4, <1>5, <2>1
<1>7. NewSuffix(b, d) = t /\ t \in Nat /\ t < 2 ^ (d + 1)
  <2>1. Suffix(h, d) \in Nat /\ Suffix(h, d) < 2 ^ d /\ 2 ^ d \in Nat /\ 2 ^ (d + 1) = 2 * 2 ^ d
    BY <1>4, SuffixRange, PowPositive, PowNext
  <2> QED
    BY <1>2, <2>1 DEF IsNew
<1>8. /\ DOMAIN dir' = Indices(g) /\ Kind(dir', Indices(g))
      /\ \A i \in Indices(g) : dir'[i] = IF Suffix(i, d + 1) = t THEN n ELSE dir[i]
  <2>1. \A j : j \in Entries(d + 1, t) <=> j \in Indices(g) /\ Suffix(j, d + 1) = t
    BY <1>1, <1>4, <1>7, d + 1 \in Nat, d + 1 <= g, EntriesExact
  <2>2. dir' = [i \in Indices(g) |-> IF i \in Entries(d + 1, t) THEN n ELSE dir[i]]
    BY <1>1, <1>4, <1>7 DEF Pointed
  <2> QED
    BY <2>1, <2>2 DEF Kind
<1>9. d = buckets[b].local_depth /\ d < MaxDepth
  BY <1>1, <1>4 DEF d
<1>10. /\ buckets'[b].local_depth = d + 1 /\ buckets'[n].local_depth = d + 1
       /\ \A k : k \in buckets'[b].keys <=> k \in buckets[b].keys /\ Suffix(k.hash, d + 1) # t
       /\ \A k : k \in buckets'[n].keys <=> k \in buckets[b].keys /\ Suffix(k.hash, d + 1) = t
       /\ \A c \in Numbers : c \notin {b, n} => buckets'[c] = buckets[c]
       /\ \A c \in Numbers : IsPage(buckets'[c])
       /\ Kind(buckets', Numbers)
       /\ \A c \in Numbers : {"keys", "local_depth"} \subseteq DOMAIN buckets'[c]
  <2>1. buckets' = Redistribute(b, n, t)
    BY <1>1, <1>7, Zenon
  <2> HIDE DEF t
  <2>2. Redistributed(b, n, d, t)
    BY <1>3, <1>4, <1>5, <1>6, <1>9, <2>1, SplitPages
  <2> QED
    BY <2>2 DEF Redistributed
<1>11. Splits(dir, buckets, g, h, b, d, n, dir', buckets')
  BY <1>4, <1>5, <1>8, <1>10 DEF Splits
<1>12. StoredKeys' = StoredKeys
  BY <1>1 DEF StoredKeys
<1>13. Exact(dir, global_depth, buckets, StoredKeys)'
  <2>1. Exact(dir', g, buckets', StoredKeys)
    BY <1>1, <1>3, <1>4, <1>5, <1>9, <1>11, SplitExact
  <2> QED
    BY <1>1, <1>12, <2>1
<1>14. TypeOK'
  <2>1. dir' \in [Indices(g) -> Numbers]
    BY <1>4, <1>5, <1>8 DEF Kind
  <2>2. dir' \in [0 .. 2 ^ global_depth' - 1 -> Numbers]
    BY <1>1, <2>1 DEF Indices
  <2>3. \A c \in Numbers : IsPage(disk'[c])
    BY <1>1, <1>3 DEF TypeOK
  <2> QED
    BY <1>1, <1>3, <1>10, <2>2, <2>3 DEF TypeOK
<1>15. Shapes'
  BY <1>1, <1>3, <1>10 DEF Shapes, Kind
<1>16. Counted'
  <2> SUFFICES ASSUME phase = "import" PROVE \E c \in Nat : Range(dir') = 0 .. c - 1
    BY <1>1 DEF Counted
  <2>1. Range(dir) = 0 .. n - 1 /\ n \in Nat
    BY <1>2 DEF IsNew
  <2>2. Gains(dir, g, dir', n)
    BY <1>1, <1>3, <1>4, <1>9, <1>11, SplitRange
  <2>3. Range(dir') = Range(dir) \cup {n}
    BY <1>4, <1>8, <2>2 DEF Range, Pointees, Gains
  <2>4. Range(dir') = 0 .. (n + 1) - 1
    BY <2>1, <2>3
  <2> QED
    BY <2>1, <2>4
<1>17. Saved'
  BY <1>1 DEF HashInv, Saved, MustSplit
<1>18. ASSUME phase = "online", Numbered PROVE Numbered'
  <2>1. n = t /\ NumberedBy(dir, g, buckets)
    BY <1>2, <1>18 DEF IsNew, Numbered
  <2>2. NumberedBy(dir', g, buckets')
    BY <1>3, <1>4, <1>9, <1>11, <2>1, SplitNumbered
  <2> QED
    BY <1>1, <2>2 DEF Numbered
<1> QED
  BY <1>13, <1>14, <1>15, <1>16, <1>17, <1>18 DEF HashInv

\* The directory doubles, and one of its new entries moves.
LEMMA SplitDirectoryStep ==
  ASSUME HashInv, damage' \subseteq Causes, SplitDirectory, "number" \notin damage'
  PROVE  HashInv' /\ (phase = "online" /\ Numbered => Numbered')
<1> DEFINE b == BucketOf(inserting)
           d == buckets[b].local_depth
           n == NewBucket(b, global_depth)
           h == Hash[inserting]
           g == global_depth
           t == 2 ^ g + Suffix(h, g)
<1>1. /\ MustSplit(b) /\ d >= g /\ g < MaxDepth
      /\ buckets' = Redistribute(b, n, NewSuffix(b, g))
      /\ dir' = [Duplicated EXCEPT ![NewSuffix(b, g)] = n]
      /\ global_depth' = g + 1
      /\ UNCHANGED <<phase, import, disk, dirty, dir_file, stored, inserting, restarts, bytes>>
  BY DEF SplitDirectory, stringVars
<1>2. TypeOK /\ Shapes /\ Exact(dir, g, buckets, StoredKeys)
  BY DEF HashInv
<1>3. d = g
  <2>1. d \in Nat /\ d <= g /\ g \in Nat
    BY <1>1, SplitDepth
  <2> QED
    BY <1>1, <2>1
<1>a. ~ WrongNumber(b, g)
  BY DEF SplitDirectory, If
<1>4. IsNew(b, g, h, n)
  BY <1>1, <1>3, <1>a, NewNumber
<1> HIDE DEF b, d, n, h
<1>5. /\ h \in Nat /\ b = dir[Suffix(h, g)] /\ b \in Numbers /\ g \in Nat
      /\ g + 1 <= MaxDepth /\ MaxDepth \in Nat /\ DOMAIN dir = Indices(g)
      /\ \A i \in Indices(g) : dir[i] \in Numbers
      /\ \A k \in StoredKeys : k.hash \in Nat
  BY <1>1, <1>2, <1>4, HashTypes DEF IsNew
<1>6. /\ 2 ^ g \in Nat /\ 2 ^ g >= 1 /\ 2 ^ (g + 1) = 2 * 2 ^ g
      /\ 2 ^ (g + 1) <= 2 ^ MaxDepth /\ 2 ^ MaxDepth \in Nat
  BY <1>5, g + 1 \in Nat, PowPositive, PowNext, PowGrows
<1>7. n \in Numbers /\ \A i \in Indices(g) : dir[i] # n
  BY <1>4, <1>6 DEF IsNew, Numbers
<1>8. n # b
  <2>1. Suffix(h, g) \in Indices(g)
    BY <1>5, SuffixRange DEF Indices
  <2> QED
    BY <1>5, <1>7, <2>1
<1>9. NewSuffix(b, g) = t /\ t \in Nat /\ t < 2 ^ (g + 1) /\ t \in Indices(g + 1)
  <2>1. Suffix(h, g) \in Nat /\ Suffix(h, g) < 2 ^ g
    BY <1>5, SuffixRange
  <2> QED
    BY <1>4, <1>6, <2>1 DEF IsNew, Indices
<1> DEFINE D == Duplicated
<1>10. /\ DOMAIN D = Indices(g + 1) /\ Kind(D, Indices(g + 1))
       /\ \A j \in Indices(g + 1) : D[j] = dir[Suffix(j, g)] /\ Suffix(j, g) \in Indices(g)
  <2>1. D = [i \in Indices(g + 1) |-> dir[Suffix(i, g)]]
    BY DEF Duplicated, Indices, Suffix
  <2>2. \A j \in Indices(g + 1) : Suffix(j, g) \in Indices(g)
    <3> SUFFICES ASSUME NEW j \in Indices(g + 1) PROVE Suffix(j, g) \in Indices(g)
      OBVIOUS
    <3>1. j \in Nat
      BY <1>6 DEF Indices
    <3> QED
      BY <1>5, <3>1, SuffixRange DEF Indices
  <2> HIDE DEF D
  <2> QED
    BY <2>1, <2>2 DEF Kind
<1> HIDE DEF D
<1>11. Exact(D, g + 1, buckets, StoredKeys)
  BY <1>2, <1>5, <1>10, DoubledExact
<1>12. b = D[Suffix(h, g + 1)]
  <2>1. Suffix(h, g + 1) \in Indices(g + 1) /\ Suffix(Suffix(h, g + 1), g) = Suffix(h, g)
    BY <1>5, g + 1 \in Nat, g <= g + 1, SuffixRange, SuffixOfSuffix DEF Indices
  <2> QED
    BY <1>5, <1>10, <2>1
<1>13. \A i \in Indices(g + 1) : D[i] # n /\ D[i] \in Numbers
  BY <1>5, <1>7, <1>10
<1>14. g = buckets[b].local_depth
  BY <1>3 DEF d
<1>15. /\ DOMAIN dir' = Indices(g + 1) /\ Kind(dir', Indices(g + 1))
       /\ \A i \in Indices(g + 1) : dir'[i] = IF Suffix(i, g + 1) = t THEN n ELSE D[i]
  <2>1. dir' = [D EXCEPT ![t] = n]
    BY <1>1, <1>9 DEF D
  <2>2. \A i \in Indices(g + 1) : Suffix(i, g + 1) = i
    BY <1>5, <1>6, g + 1 \in Nat, SuffixSmall DEF Indices
  <2>3. /\ DOMAIN dir' = Indices(g + 1) /\ Kind(dir', Indices(g + 1))
        /\ \A i \in Indices(g + 1) : dir'[i] = IF i = t THEN n ELSE D[i]
    BY <1>9, <1>10, <2>1 DEF Kind
  <2> QED
    BY <2>2, <2>3
<1>16. /\ buckets'[b].local_depth = g + 1 /\ buckets'[n].local_depth = g + 1
       /\ \A k : k \in buckets'[b].keys <=> k \in buckets[b].keys /\ Suffix(k.hash, g + 1) # t
       /\ \A k : k \in buckets'[n].keys <=> k \in buckets[b].keys /\ Suffix(k.hash, g + 1) = t
       /\ \A c \in Numbers : c \notin {b, n} => buckets'[c] = buckets[c]
       /\ \A c \in Numbers : IsPage(buckets'[c])
       /\ Kind(buckets', Numbers)
       /\ \A c \in Numbers : {"keys", "local_depth"} \subseteq DOMAIN buckets'[c]
  <2>1. buckets' = Redistribute(b, n, t)
    BY <1>1, <1>9, Zenon
  <2>2. g < MaxDepth
    BY <1>1
  <2> HIDE DEF t
  <2>3. Redistributed(b, n, g, t)
    BY <1>2, <1>5, <1>7, <1>8, <1>14, <2>1, <2>2, SplitPages
  <2> QED
    BY <2>3 DEF Redistributed
<1>17. Splits(D, buckets, g + 1, h, b, g, n, dir', buckets')
  BY <1>13, <1>15, <1>16 DEF Splits
<1>18. StoredKeys' = StoredKeys
  BY <1>1 DEF StoredKeys
<1>19. g + 1 \in Nat /\ g < g + 1 /\ \A i \in Indices(g + 1) : D[i] # n
  BY <1>5, <1>13
<1>20. Exact(dir, global_depth, buckets, StoredKeys)'
  <2>1. Exact(dir', g + 1, buckets', StoredKeys)
    BY <1>5, <1>11, <1>12, <1>14, <1>17, <1>19, SplitExact
  <2> QED
    BY <1>1, <1>18, <2>1
<1>21. TypeOK'
  <2>1. dir' \in [Indices(g + 1) -> Numbers]
    BY <1>7, <1>13, <1>15 DEF Kind
  <2>2. dir' \in [0 .. 2 ^ global_depth' - 1 -> Numbers]
    BY <1>1, <2>1 DEF Indices
  <2>3. \A c \in Numbers : IsPage(disk'[c])
    BY <1>1, <1>2 DEF TypeOK
  <2>4. global_depth' \in DefaultDepth .. MaxDepth
    BY <1>1, <1>2, <1>5, HashAssumption DEF TypeOK
  <2> QED
    BY <1>1, <1>2, <1>16, <2>2, <2>3, <2>4 DEF TypeOK
<1>22. Shapes'
  BY <1>1, <1>2, <1>16 DEF Shapes, Kind
<1>23. Counted'
  <2> SUFFICES ASSUME phase = "import" PROVE \E c \in Nat : Range(dir') = 0 .. c - 1
    BY <1>1 DEF Counted
  <2>1. Range(dir) = 0 .. n - 1 /\ n \in Nat
    BY <1>4 DEF IsNew
  <2>2. Gains(D, g + 1, dir', n)
    BY <1>5, <1>11, <1>12, <1>14, <1>17, <1>19, SplitRange
  <2>3. Pointees(D, g + 1) = Pointees(dir, g)
    <3>1. ASSUME NEW i \in Indices(g) PROVE i \in Indices(g + 1) /\ D[i] = dir[i]
      <4>1. i \in Nat /\ i < 2 ^ g /\ i \in Indices(g + 1)
        BY <1>6 DEF Indices
      <4>2. Suffix(i, g) = i
        BY <1>5, <4>1, SuffixSmall
      <4> QED
        BY <1>10, <4>1, <4>2
    <3> QED
      BY <1>10, <3>1 DEF Pointees
  <2>4. Range(dir') = Range(dir) \cup {n}
    BY <1>5, <1>15, <2>2, <2>3 DEF Range, Pointees, Gains
  <2>5. Range(dir') = 0 .. (n + 1) - 1
    BY <2>1, <2>4
  <2> QED
    BY <2>1, <2>5
<1>24. Saved'
  BY <1>1 DEF HashInv, Saved, MustSplit
<1>25. ASSUME phase = "online", Numbered PROVE Numbered'
  <2>1. n = t /\ NumberedBy(dir, g, buckets)
    BY <1>4, <1>25 DEF IsNew, Numbered
  <2>2. NumberedBy(D, g + 1, buckets)
    BY <1>2, <1>5, <1>10, <2>1, DoubledNumbered
  <2>3. NumberedBy(dir', g + 1, buckets')
    BY <1>5, <1>11, <1>12, <1>14, <1>17, <1>19, <2>1, <2>2, SplitNumbered
  <2> QED
    BY <1>1, <2>3 DEF Numbered
<1> QED
  BY <1>20, <1>21, <1>22, <1>23, <1>24, <1>25 DEF HashInv

\* A page that is dirty comes back as it was.
LEMMA EvictStep ==
  ASSUME HashInv, damage' \subseteq Causes, NEW b \in Numbers, Evict(b), "split" \notin damage'
  PROVE  HashInv' /\ (Numbered => Numbered')
<1>1. /\ phase = "online" /\ dirty' = dirty \ {b}
      /\ UNCHANGED <<phase, import, global_depth, dir, dir_file, stored, inserting, restarts, bytes>>
  BY DEF Evict, stringVars
<1>2. b \in dirty
  BY <1>1 DEF Evict, Unmarked, If
<1>3. /\ buckets' = [buckets EXCEPT ![b] = buckets[b]]
      /\ disk' = [disk EXCEPT ![b] = buckets[b]]
  BY <1>2 DEF Evict
<1>4. TypeOK /\ Shapes
  BY DEF HashInv
<1>5. buckets' = buckets /\ Kind(disk', Numbers)
  BY <1>3, <1>4 DEF Shapes, Kind
<1>6. \A c \in Numbers : disk'[c] \in {buckets[c], disk[c]}
  BY <1>3, <1>4 DEF Shapes, Kind
<1>7. TypeOK'
  <2>1. \A c \in Numbers : IsPage(buckets'[c]) /\ IsPage(disk'[c])
    BY <1>4, <1>5, <1>6 DEF TypeOK
  <2>2. dirty' \subseteq Numbers
    BY <1>1, <1>4 DEF TypeOK
  <2> QED
    BY <1>1, <1>4, <2>1, <2>2 DEF TypeOK
<1>8. Shapes' /\ Exact(dir, global_depth, buckets, StoredKeys)'
  BY <1>1, <1>4, <1>5, SameHash DEF HashInv, Kind
<1>9. Counted' /\ Saved'
  BY <1>1 DEF Counted, Saved
<1>10. Numbered => Numbered'
  BY <1>1, <1>5, SameHash DEF Numbered
<1> QED
  BY <1>7, <1>8, <1>9, <1>10 DEF HashInv

\* The pages and the directory are saved as they are.
LEMMA CloseStep ==
  ASSUME HashInv, damage' \subseteq Causes, Close, "split" \notin damage'
  PROVE  HashInv' /\ (Numbered => Numbered')
<1>1. /\ phase \in {"import", "online"} /\ inserting = NoStr /\ restarts < MaxRestarts
      /\ dir_file' = [global_depth |-> global_depth, dir |-> dir]
      /\ disk' = SavedPages /\ buckets' = SavedPages /\ dirty' = {} /\ phase' = "closed"
      /\ UNCHANGED <<import, global_depth, dir, stored, inserting, restarts>>
  BY DEF Close, HashInv, TypeOK, SavedDir
<1>2. TypeOK /\ Shapes
  BY DEF HashInv
<1>3. SavedPages = buckets
  <2>1. ASSUME NEW b \in Numbers, phase # "import", b \notin dirty PROVE buckets[b] = disk[b]
    BY <1>1, <2>1 DEF Close, Unmarked, If
  <2>2. SavedPages = [b \in Numbers |-> buckets[b]]
    BY <2>1 DEF SavedPages
  <2> QED
    BY <1>2, <2>2 DEF Shapes, Kind
<1>4. TypeOK'
  BY <1>1, <1>2, <1>3 DEF TypeOK, IsPage
<1>5. Shapes'
  BY <1>1, <1>2, <1>3 DEF Shapes, Kind
<1>6. Exact(dir, global_depth, buckets, StoredKeys)'
  <2>1. StoredKeys' = StoredKeys
    BY <1>1 DEF StoredKeys
  <2> QED
    BY <1>1, <1>3, <2>1 DEF HashInv
<1>7. Counted' /\ Saved'
  BY <1>1 DEF Counted, Saved
<1>8. Numbered => Numbered'
  BY <1>1, <1>3 DEF Numbered, NumberedBy
<1> QED
  BY <1>4, <1>5, <1>6, <1>7, <1>8 DEF HashInv

\* The directory that is read is the one that was written.
LEMMA OpenStep ==
  ASSUME HashInv, damage' \subseteq Causes, Open
  PROVE  HashInv' /\ (Numbered => Numbered')
<1>1. /\ phase = "closed" /\ phase' = "online" /\ restarts' = restarts + 1
      /\ global_depth' = global_depth /\ dir' = dir /\ inserting = NoStr /\ restarts < MaxRestarts
      /\ UNCHANGED <<import, buckets, disk, dirty, dir_file, stored, inserting>>
  BY DEF Open, HashInv, Saved
<1>2. TypeOK /\ Shapes
  BY DEF HashInv
<1>3. TypeOK'
  BY <1>1, <1>2, HashAssumption DEF TypeOK, IsPage
<1>4. Shapes'
  BY <1>1, <1>2 DEF Shapes, Kind
<1>5. Exact(dir, global_depth, buckets, StoredKeys)'
  <2>1. StoredKeys' = StoredKeys
    BY <1>1 DEF StoredKeys
  <2> QED
    BY <1>1, <2>1 DEF HashInv
<1>6. Counted' /\ Saved'
  BY <1>1 DEF Counted, Saved
<1>7. Numbered => Numbered'
  BY <1>1 DEF Numbered, NumberedBy
<1> QED
  BY <1>3, <1>4, <1>5, <1>6, <1>7 DEF HashInv

\* A step that changes nothing.
LEMMA HashStutter ==
  ASSUME HashInv, UNCHANGED vars
  PROVE  HashInv' /\ (Numbered => Numbered')
<1>1. UNCHANGED <<phase, import, global_depth, dir, buckets, disk, dirty, dir_file, stored,
                  inserting, restarts, damage, bytes>>
  BY DEF vars, stringVars
<1>2. TypeOK' /\ Counted' /\ Saved'
  BY <1>1 DEF HashInv, TypeOK, IsPage, Counted, Saved
<1>3. Shapes' /\ Exact(dir, global_depth, buckets, StoredKeys)'
  BY <1>1, SameHash DEF HashInv, Shapes, Kind
<1>4. Numbered => Numbered'
  BY <1>1, SameHash DEF Numbered
<1> QED
  BY <1>2, <1>3, <1>4 DEF HashInv

\* What has happened stays so; the import damages nothing and does not come back.
LEMMA DamageNext ==
  ASSUME damage \subseteq Causes, phase = "import" => damage = {}, [Next]_vars
  PROVE  /\ damage \subseteq damage' /\ damage' \subseteq Causes
         /\ phase' = "import" => damage' = {} /\ phase = "import"
<1>1. CASE \E s \in Str : Begin(s)
  BY <1>1 DEF Begin, If, Causes
<1>2. CASE Found
  BY <1>2 DEF Found
<1>3. CASE AppendKey
  BY <1>3 DEF AppendKey, If, Causes
<1>4. CASE SplitBucket
  BY <1>4 DEF SplitBucket, WrongNumber, If, Causes
<1>5. CASE SplitDirectory
  BY <1>5 DEF SplitDirectory, WrongNumber, If, Causes
<1>6. CASE \E b \in Numbers : Evict(b)
  BY <1>6 DEF Evict, If, Causes
<1>7. CASE Close
  BY <1>7 DEF Close, If, Causes
<1>8. CASE Open
  BY <1>8 DEF Open
<1>9. CASE UNCHANGED vars
  BY <1>9 DEF vars
<1> QED
  BY <1>1, <1>2, <1>3, <1>4, <1>5, <1>6, <1>7, <1>8, <1>9 DEF Next, Insert

\* Every step without damage keeps the invariant and, online, the numbers suffixes.
LEMMA HashNext ==
  ASSUME IntactInv, [Next]_vars
  PROVE  /\ IntactInv'
         /\ HashIntact' => HashIntact /\ HashInv /\ (phase # "import" /\ Numbered => Numbered')
<1>1. /\ damage \subseteq damage' /\ damage' \subseteq Causes
      /\ phase' = "import" => damage' = {}
  BY DamageNext DEF IntactInv
<1> SUFFICES ASSUME HashIntact'
             PROVE  /\ HashIntact /\ HashInv /\ HashInv'
                    /\ phase # "import" /\ Numbered => Numbered'
  BY <1>1 DEF IntactInv
<1>2. HashIntact /\ HashInv /\ "number" \notin damage' /\ "split" \notin damage'
  BY <1>1 DEF HashIntact, IntactInv
<1>3. CASE \E s \in Str : Begin(s)
  BY <1>1, <1>2, <1>3, BeginStep
<1>4. CASE Found
  BY <1>1, <1>2, <1>4, FoundStep
<1>5. CASE AppendKey
  BY <1>1, <1>2, <1>5, AppendKeyStep
<1>6. CASE SplitBucket
  <2>1. phase = "import" \/ phase = "online"
    BY <1>2, <1>6 DEF HashInv, TypeOK, Saved, SplitBucket, MustSplit
  <2> QED
    BY <1>1, <1>2, <1>6, <2>1, SplitBucketStep
<1>7. CASE SplitDirectory
  <2>1. phase = "import" \/ phase = "online"
    BY <1>2, <1>7 DEF HashInv, TypeOK, Saved, SplitDirectory, MustSplit
  <2> QED
    BY <1>1, <1>2, <1>7, <2>1, SplitDirectoryStep
<1>8. CASE \E b \in Numbers : Evict(b)
  BY <1>1, <1>2, <1>8, EvictStep
<1>9. CASE Close
  BY <1>1, <1>2, <1>9, CloseStep
<1>10. CASE Open
  BY <1>1, <1>2, <1>10, OpenStep
<1>11. CASE UNCHANGED vars
  BY <1>2, <1>11, HashStutter
<1> QED
  BY <1>3, <1>4, <1>5, <1>6, <1>7, <1>8, <1>9, <1>10, <1>11 DEF Next, Insert

\* A query takes a wrong number only where the buckets are not numbered by suffix.
LEMMA NumberNext ==
  ASSUME IntactInv, HashIntact, [Next]_vars, phase # "import", Numbered
  PROVE  "number" \notin damage'
<1>1. HashInv /\ "number" \notin damage
  BY DEF IntactInv, HashIntact
<1>2. CASE SplitBucket
  <2> DEFINE b == BucketOf(inserting)
             d == buckets[b].local_depth
  <2>1. MustSplit(b) /\ damage' = damage \cup If(WrongNumber(b, d), "number")
    BY <1>2 DEF SplitBucket
  <2>2. phase = "online"
    BY <1>1, <2>1 DEF HashInv, TypeOK, Saved, MustSplit
  <2>3. ~ WrongNumber(b, d)
    BY <1>1, <2>1, <2>2, NumberedRight
  <2> QED
    BY <1>1, <2>1, <2>3 DEF If
<1>3. CASE SplitDirectory
  <2> DEFINE b == BucketOf(inserting)
             d == buckets[b].local_depth
  <2>1. /\ MustSplit(b) /\ damage' = damage \cup If(WrongNumber(b, global_depth), "number")
        /\ d >= global_depth
    BY <1>3 DEF SplitDirectory
  <2>2. phase = "online"
    BY <1>1, <2>1 DEF HashInv, TypeOK, Saved, MustSplit
  <2>3. ~ WrongNumber(b, d)
    BY <1>1, <2>1, <2>2, NumberedRight
  <2>4. d \in Nat /\ d <= global_depth /\ global_depth \in Nat
    BY <1>1, <2>1, SplitDepth
  <2>5. d = global_depth
    BY <2>1, <2>4
  <2> HIDE DEF b, d
  <2> QED
    BY <1>1, <2>1, <2>3, <2>5 DEF If
<1>4. CASE UNCHANGED vars
  BY <1>1, <1>4 DEF vars
<1>5. CASE \E s \in Str : Begin(s)
  BY <1>1, <1>5 DEF Begin, If
<1>6. CASE Found \/ AppendKey
  BY <1>1, <1>6 DEF Found, AppendKey, If
<1>7. CASE (\E b \in Numbers : Evict(b)) \/ Close \/ Open
  BY <1>1, <1>7 DEF Evict, Close, Open, If
<1> QED
  BY <1>2, <1>3, <1>4, <1>5, <1>6, <1>7 DEF Next, Insert

-----------------------------------------------------------------------------
(* The theorems.                                                            *)

\* The invariant of the import and the running database, with every eviction and every
\* restart: it holds until a page that a split changed is lost or a split takes a wrong
\* number, and the import does neither.
THEOREM StringsHashInvariant == Spec => []IntactInv
<1>1. Init => IntactInv
  BY HashInit DEF IntactInv, Init
<1>2. IntactInv /\ [Next]_vars => IntactInv'
  BY HashNext
<1> QED
  BY <1>1, <1>2, PTL DEF Spec

\* StringsHashBulkImport: whatever strings are imported, in whatever order, the
\* directory agrees with the depths of its buckets and every key is in the bucket
\* of its hash.  This needs no condition.
THEOREM StringsImportExact == Spec => [](phase = "import" => HashIntact /\ DirectoryExact)
<1>1. IntactInv => (phase = "import" => HashIntact /\ DirectoryExact)
  BY HashInvExact DEF IntactInv, HashIntact
<1> QED
  BY <1>1, StringsHashInvariant, PTL

\* StringsHash: the same of the running database, through splits, evictions and
\* restarts, until the pool loses a page of a split that redistribute did not mark
\* dirty, or a query numbers a bucket of an import that numbered otherwise.
THEOREM StringsDirectoryExact == Spec => []DirectoryExact
<1>1. IntactInv => DirectoryExact
  BY HashInvExact DEF IntactInv, DirectoryExact
<1> QED
  BY <1>1, StringsHashInvariant, PTL

\* While the buckets are numbered by suffix, a split gives no wrong number, and they
\* stay so through splits, evictions and restarts, until a page is lost: the numbers
\* go wrong only after an import that numbered them otherwise.
KeepsNumbers ==
  HashIntact /\ phase # "import" /\ Numbered =>
    "number" \notin damage' /\ (HashIntact' => Numbered')

\* StringsHash::get_or_create_str_id never breaks the numbering that its bit operations
\* rely on.
THEOREM StringsNumbered == Spec => [][KeepsNumbers]_vars
<1>1. IntactInv /\ [Next]_vars => [KeepsNumbers]_vars
  BY HashNext, NumberNext DEF KeepsNumbers
<1> QED
  BY <1>1, StringsHashInvariant, PTL DEF Spec

\* The string manager tells string k from all the others: str_eq holds at its id only.
Readable(k) ==
  \A m \in DOMAIN stored : StrEq(bytes, stored[k].str, stored[m].id) <=> stored[m].id = stored[k].id

\* Such a string is found, under its id, until a split is lost or takes a wrong number.
FoundWhenReadable ==
  HashIntact => \A k \in DOMAIN stored : Readable(k) => Lookup(stored[k].str) = stored[k].id

\* The only match is the first.
LEMMA FirstOfOne ==
  ASSUME NEW x
  PROVE  FirstOf({x}) = x
<1>1. FirstOf({x}) \in {x}
  <2>1. \E y \in {x} : \A z \in {x} \ {y} : y < z
    OBVIOUS
  <2> QED
    BY <2>1, Zenon DEF FirstOf
<1> QED
  BY <1>1

\* The key of string k is in the bucket that its hash selects, and no other key there
\* has its hash and its characters.
LEMMA ReadableFound ==
  ASSUME HashInv, NEW k \in DOMAIN stored, Readable(k)
  PROVE  Lookup(stored[k].str) = stored[k].id
<1> DEFINE s == stored[k].str
           h == Hash[s]
           b == BucketOf(s)
           d == buckets[b].local_depth
           key == [hash |-> h, id |-> stored[k].id]
           M == Matches(b, s)
<1>1. TypeOK /\ Exact(dir, global_depth, buckets, StoredKeys)
  BY DEF HashInv
<1>2. s \in Str /\ h \in Nat /\ global_depth \in Nat
  BY <1>1, HashTypes DEF TypeOK
<1>3. b = dir[Suffix(h, global_depth)]
  BY DEF BucketOf
<1>4. key \in StoredKeys
  BY DEF StoredKeys
<1>5. /\ key.hash = h /\ key.id = stored[k].id
  OBVIOUS
<1> HIDE DEF key, h, b
<1>6. \A y : y \in buckets[b].keys <=> y \in StoredKeys /\ Suffix(y.hash, d) = Suffix(h, d)
  <2>1. /\ Suffix(h, global_depth) \in Indices(global_depth) /\ d \in Nat /\ d <= global_depth
    BY <1>1, <1>2, <1>3, EntryOf
  <2>2. ExactAt(dir, global_depth, buckets, StoredKeys, Suffix(h, global_depth), d)
    BY <1>1, <1>3, <2>1 DEF Exact
  <2>3. Suffix(Suffix(h, global_depth), d) = Suffix(h, d)
    BY <1>2, <2>1, SuffixOfSuffix
  <2> QED
    BY <1>3, <2>2, <2>3 DEF ExactAt
<1>7. key \in buckets[b].keys
  BY <1>4, <1>5, <1>6
<1>8. M = {y.id : y \in {y \in buckets[b].keys : y.hash = h /\ StrEq(bytes, s, y.id)}}
  BY DEF Matches, h
<1>9. StrEq(bytes, s, stored[k].id)
  BY DEF Readable
<1>10. stored[k].id \in M
  BY <1>5, <1>7, <1>8, <1>9
<1>11. ASSUME NEW x \in M PROVE x = stored[k].id
  <2>1. PICK y \in buckets[b].keys : y.id = x /\ StrEq(bytes, s, y.id)
    BY <1>8
  <2>2. y \in StoredKeys
    BY <1>6
  <2>3. PICK m \in DOMAIN stored : y = [hash |-> Hash[stored[m].str], id |-> stored[m].id]
    BY <2>2 DEF StoredKeys
  <2>4. y.id = stored[m].id
    BY <2>3
  <2> QED
    BY <2>1, <2>4 DEF Readable
<1>12. M = {stored[k].id}
  BY <1>10, <1>11
<1>13. Lookup(s) = IF M = {} THEN NoId ELSE FirstOf(M)
  BY DEF Lookup, FindIn, b
<1> HIDE DEF M
<1> QED
  BY <1>12, <1>13, FirstOfOne

\* get_str_id and get_or_create_str_id: every string that was stored, by the import or
\* by a query, is found under the id that it was given, as far as str_eq reads it back:
\* the part of AllFound that rests with the hash.
THEOREM StringsFound == Spec => []FoundWhenReadable
<1>1. IntactInv => FoundWhenReadable
  BY ReadableFound DEF IntactInv, FoundWhenReadable
<1> QED
  BY <1>1, StringsHashInvariant, PTL

=============================================================================
