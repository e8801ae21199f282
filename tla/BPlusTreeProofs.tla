-------------------------- MODULE BPlusTreeProofs ---------------------------
(***************************************************************************)
(* The B+ tree is exact, for any records, imports and sizes of its pages:  *)
(* its searches, its range scans, its check() and what it refuses.         *)
(***************************************************************************)
EXTENDS BPlusTree, FiniteSetTheorems, WellFoundedInduction, TLAPS

-----------------------------------------------------------------------------
(* Induction and recursion without formulas as parameters.                  *)

\* A nonempty set of naturals has a least element.
LEMMA Least ==
  ASSUME NEW T \in SUBSET Nat, T # {}
  PROVE  \E x \in T : \A y \in T : x <= y
<1> DEFINE R == StrictSubsetOrdering(Nat)
           F == FiniteSubsetsOf(Nat)
           U == {0 .. n - 1 : n \in T}
<1>1. IsWellFoundedOn(R, F)
  BY FS_StrictSubsetOrderingWellFounded
<1>2. U \subseteq F
  <2>1. ASSUME NEW n \in T PROVE 0 .. n - 1 \in F
    <3>1. IsFiniteSet(0 .. n - 1) BY FS_Interval
    <3>2. 0 .. n - 1 \in SUBSET Nat OBVIOUS
    <3> QED BY <3>1, <3>2 DEF FiniteSubsetsOf
  <2> QED BY <2>1
<1>3. U # {} OBVIOUS
<1> HIDE DEF R, F
<1>4. \E x \in U : \A y \in U : ~(<<y, x>> \in R) BY <1>1, <1>2, <1>3, WFMin
<1>5. PICK n \in T : \A m \in T : ~(<<0 .. m - 1, 0 .. n - 1>> \in R) BY <1>4
<1>6. ASSUME NEW m \in T, m < n PROVE FALSE
  <2>1. 0 .. m - 1 \in SUBSET Nat /\ 0 .. n - 1 \in SUBSET Nat OBVIOUS
  <2>2. 0 .. m - 1 \subseteq 0 .. n - 1 /\ m \in 0 .. n - 1 /\ m \notin 0 .. m - 1 BY <1>6
  <2>3. IsFiniteSet(0 .. m - 1) /\ IsFiniteSet(0 .. n - 1) BY FS_Interval
  <2>4. <<0 .. m - 1, 0 .. n - 1>> \in R BY <2>1, <2>2, <2>3 DEF R, StrictSubsetOrdering
  <2> QED BY <1>5, <2>4
<1> QED BY <1>5, <1>6


\* H[d][f] is the right-hand side of a recursive definition f[d] == ..., which
\* looks at f only where the rank is smaller.
Descends(D, R, N, rank, H) ==
  /\ N \in Nat /\ R # {}
  /\ rank \in [D -> 0 .. N]
  /\ H \in [D -> [[D -> R] -> R]]
  /\ \A d \in D : \A f, g \in [D -> R] :
       (\A e \in D : rank[e] < rank[d] => f[e] = g[e]) => H[d][f] = H[d][g]

\* Some function is as the definition says.
Solvable(D, R, H) == \E f \in [D -> R] : f = [d \in D |-> H[d][f]]

\* A definition that descends is that of a function.
LEMMA RecursionExists ==
  ASSUME NEW D, NEW R, NEW N, NEW rank, NEW H, Descends(D, R, N, rank, H)
  PROVE  Solvable(D, R, H)
<1> USE DEF Descends
<1>0. PICK x \in R : TRUE OBVIOUS
<1> DEFINE Upto(f, n) == \A d \in D : rank[d] < n => f[d] = H[d][f]
           T == {n \in Nat : ~ \E f \in [D -> R] : Upto(f, n)}
<1>1. T = {}
  <2>1. SUFFICES ASSUME T # {} PROVE FALSE OBVIOUS
  <2>2. PICK n \in T : \A m \in T : n <= m BY <2>1, Least
  <2>3. n # 0
    <3>1. [d \in D |-> x] \in [D -> R] OBVIOUS
    <3>2. Upto([d \in D |-> x], 0) OBVIOUS
    <3> QED BY <3>1, <3>2
  <2>a. n - 1 \in Nat /\ ~ (n <= n - 1) BY <2>3
  <2>4. PICK f \in [D -> R] : Upto(f, n - 1)
    <3>1. n - 1 \notin T BY <2>2, <2>a, Zenon
    <3> QED BY <2>a, <3>1, Zenon
  <2> DEFINE g == [d \in D |-> H[d][f]]
  <2>5. g \in [D -> R] OBVIOUS
  <2>6. ASSUME NEW d \in D, rank[d] < n PROVE g[d] = H[d][g]
    <3>1. \A e \in D : rank[e] < rank[d] => f[e] = g[e] BY <2>4, <2>6
    <3>2. H[d][f] = H[d][g] BY <3>1, <2>5
    <3> QED BY <3>2
  <2>7. Upto(g, n) BY <2>6
  <2> QED BY <2>2, <2>5, <2>7
<1>2. PICK f \in [D -> R] : Upto(f, N + 1)
  <2>1. N + 1 \in Nat OBVIOUS
  <2> QED BY <1>1, <2>1, Zenon
<1>3. \A d \in D : f[d] = H[d][f] BY <1>2
<1>4. f = [d \in D |-> H[d][f]] BY <1>3
<1> QED BY <1>4 DEF Solvable

-----------------------------------------------------------------------------
(* Intervals and sequences.                                                 *)

LEMMA FirstPart ==
  ASSUME NEW N \in Nat, NEW m \in Int, m <= N
  PROVE  \A k \in 1 .. m : 0 + k = k /\ k \in 1 .. N
OBVIOUS

LEMMA LastPart ==
  ASSUME NEW N \in Nat, NEW a \in Nat
  PROVE  \A k \in 1 .. N - a : a + k \in 1 .. N
OBVIOUS

LEMMA HalfSizes ==
  ASSUME NEW N \in Nat, NEW m \in 1 .. N - 1
  PROVE  /\ m + 1 \in Nat /\ N + 1 \in Nat /\ m \in Int /\ m <= N
         /\ N - (m + 1) = N - m - 1 /\ (N + 1) - (m + 1) = N - m
OBVIOUS

LEMMA PlaceBelow ==
  ASSUME NEW N \in Nat, NEW j \in 1 .. N + 1, NEW k \in 1 .. N, k < j
  PROVE  j # 1 /\ j - 1 \in 1 .. N /\ (k = j - 1 \/ k < j - 1)
OBVIOUS

LEMMA NextInterval ==
  ASSUME NEW n \in Int, NEW hi \in Int, NEW c \in -n .. hi, c # -n
  PROVE  c \in -(n - 1) .. hi
OBVIOUS

LEMMA SequenceOf ==
  ASSUME NEW n \in Nat, NEW s \in [1 .. n -> Int]
  PROVE  s \in Seq(Int) /\ Len(s) = n
OBVIOUS

LEMMA SecondPart ==
  ASSUME NEW a \in Seq(Int), NEW b \in Seq(Int), NEW k \in Int, Len(a) < k, k <= Len(a) + Len(b)
  PROVE  (a \o b)[k] = b[k - Len(a)]
<1>1. Len(a) \in Nat /\ Len(b) \in Nat OBVIOUS
<1>2. k \in 1 .. Len(a) + Len(b) /\ ~ (k <= Len(a)) BY <1>1
<1> QED BY <1>1, <1>2

LEMMA RecordsInt ==
  ASSUME NEW P \in SUBSET Records, NEW r \in Records
  PROVE  \A q \in P \cup {r} : q \in Int
<1>1. \A q \in Records : q \in Int BY TreeAssumption DEF Records
<1> QED BY <1>1

-----------------------------------------------------------------------------
(* The binary search in a leaf.                                             *)

Spans == [from : 0 .. LeafMax, to : -1 .. LeafMax]

Look(l, r, s, at) ==
  LET middle == (s.from + s.to) \div 2 IN
  IF s.from >= s.to THEN IF r > l.records[s.from] THEN s.from + 1 ELSE s.from
  ELSE IF r < l.records[middle] THEN at[[s EXCEPT !.to = middle - 1]]
  ELSE IF r > l.records[middle] THEN at[[s EXCEPT !.from = middle + 1]]
  ELSE middle

\* search_index returns: its interval gets smaller.
LEMMA SearchDefined ==
  ASSUME NEW l, NEW r
  PROVE  \E at : /\ at = [s \in Spans |-> Look(l, r, s, at)]
                 /\ SearchIndex(l, r) = at[[from |-> 0, to |-> l.value_count - 1]]
<1> DEFINE rank == [s \in Spans |-> IF s.from <= s.to THEN s.to - s.from + 1 ELSE 0]
           H == [s \in Spans |-> [at \in [Spans -> Int] |-> Look(l, r, s, at)]]
<1>1. rank \in [Spans -> 0 .. LeafMax + 1] BY TreeAssumption DEF Spans
<1>2. ASSUME NEW s \in Spans, s.from < s.to
      PROVE  LET middle == (s.from + s.to) \div 2 IN
             /\ [s EXCEPT !.to = middle - 1] \in Spans /\ rank[[s EXCEPT !.to = middle - 1]] < rank[s]
             /\ [s EXCEPT !.from = middle + 1] \in Spans /\ rank[[s EXCEPT !.from = middle + 1]] < rank[s]
  BY <1>2, TreeAssumption DEF Spans
<1>3. H \in [Spans -> [[Spans -> Int] -> Int]]
  <2>1. ASSUME NEW s \in Spans, NEW at \in [Spans -> Int] PROVE Look(l, r, s, at) \in Int
    <3>1. s.from \in Int /\ s.to \in Int BY TreeAssumption DEF Spans
    <3>2. CASE s.from >= s.to BY <3>1, <3>2 DEF Look
    <3>3. CASE s.from < s.to
      <4> DEFINE m == (s.from + s.to) \div 2
      <4>1. at[[s EXCEPT !.to = m - 1]] \in Int /\ at[[s EXCEPT !.from = m + 1]] \in Int
        BY <1>2, <3>3
      <4>2. m \in Int BY <3>1
      <4> QED BY <3>1, <3>3, <4>1, <4>2 DEF Look
    <3> QED BY <3>1, <3>2, <3>3
  <2> QED BY <2>1
<1>4. \A s \in Spans : \A f, g \in [Spans -> Int] :
             (\A e \in Spans : rank[e] < rank[s] => f[e] = g[e]) => H[s][f] = H[s][g]
 <2> SUFFICES ASSUME NEW s \in Spans, NEW f \in [Spans -> Int], NEW g \in [Spans -> Int],
             \A e \in Spans : rank[e] < rank[s] => f[e] = g[e]
      PROVE  H[s][f] = H[s][g]
   OBVIOUS
  <2>1. Look(l, r, s, f) = Look(l, r, s, g)
    <3>1. s.from \in Int /\ s.to \in Int BY TreeAssumption DEF Spans
    <3>2. CASE s.from >= s.to BY <3>1, <3>2 DEF Look
    <3>3. CASE s.from < s.to
      <4> DEFINE m == (s.from + s.to) \div 2
      <4>1. /\ f[[s EXCEPT !.to = m - 1]] = g[[s EXCEPT !.to = m - 1]]
            /\ f[[s EXCEPT !.from = m + 1]] = g[[s EXCEPT !.from = m + 1]] BY <1>2, <3>3
      <4> QED BY <4>1 DEF Look
    <3> QED BY <3>1, <3>2, <3>3
  <2> QED BY <2>1
<1> HIDE DEF rank, H
<1>0. LeafMax + 1 \in Nat /\ 0 \in Int BY TreeAssumption
<1>5. Solvable(Spans, Int, H)
  <2>1. Int # {} OBVIOUS
  <2>2. Descends(Spans, Int, LeafMax + 1, rank, H)
    BY <1>0, <1>1, <1>3, <1>4, <2>1, Zenon DEF Descends
  <2> QED BY <2>2, RecursionExists, Zenon
<1>6. \E at : at = [s \in Spans |-> Look(l, r, s, at)] BY <1>5 DEF H, Solvable
<1> DEFINE c == CHOOSE at : at = [s \in Spans |-> Look(l, r, s, at)]
<1>7. c = [s \in Spans |-> Look(l, r, s, c)] BY <1>6, Zenon
<1>8. SearchIndex(l, r) = c[[from |-> 0, to |-> l.value_count - 1]]
  BY Zenon DEF SearchIndex, Look, Spans
<1> QED BY <1>7, <1>8

\* The records in use are in order, each before the next.
Ascending(l) ==
  \A i, j \in 0 .. l.value_count - 1 : i < j => l.records[i] < l.records[j]

\* i is the place of r: before it the smaller records, from it on the others.
IsPlace(l, r, i) ==
  /\ i \in 0 .. l.value_count
  /\ \A k \in 0 .. l.value_count - 1 : l.records[k] < r <=> k < i

\* search_index finds the first slot whose record is not smaller, in a leaf of any size.
LEMMA SearchIndexExact ==
  ASSUME NEW l, NEW r \in Int, l.value_count \in 1 .. LeafMax,
         l.records \in [Slots -> Int], Ascending(l)
  PROVE  IsPlace(l, r, SearchIndex(l, r))
<1> DEFINE n == l.value_count
           rec == l.records
           Within(s) == /\ s.to <= n - 1 /\ s.from <= n - 1 /\ s.from <= s.to + 1
                        /\ \A k \in 0 .. n - 1 : k < s.from => rec[k] < r
                        /\ \A k \in 0 .. n - 1 : k > s.to => rec[k] >= r
           size(s) == s.to + 1 - s.from
<1>1. PICK at : /\ at = [s \in Spans |-> Look(l, r, s, at)]
                /\ SearchIndex(l, r) = at[[from |-> 0, to |-> n - 1]]
  BY SearchDefined
<1>0. LeafMax \in Nat BY TreeAssumption
<1>2. \A k \in 0 .. n - 1 : k \in Slots /\ rec[k] \in Int BY <1>0 DEF Slots
<1> DEFINE T == {m \in Nat : \E s \in Spans : Within(s) /\ size(s) = m /\ ~IsPlace(l, r, at[s])}
<1>3. T = {}
  <2>1. SUFFICES ASSUME T # {} PROVE FALSE OBVIOUS
  <2>2. PICK m \in T : \A j \in T : m <= j BY <2>1, Least
  <2>3. PICK s \in Spans : Within(s) /\ size(s) = m /\ ~IsPlace(l, r, at[s]) OBVIOUS
  <2>4. s.from \in 0 .. LeafMax /\ s.to \in -1 .. LeafMax BY DEF Spans
  <2>5. at[s] = Look(l, r, s, at) BY <1>1
  <2>6. \A t \in Spans : Within(t) /\ size(t) \in Nat /\ size(t) < m => IsPlace(l, r, at[t])
    BY <2>2
  <2>7. CASE s.from >= s.to
    <3>1. s.from \in 0 .. n - 1 BY <2>3, <2>4
    <3>2. CASE r > rec[s.from]
      <4>1. at[s] = s.from + 1 BY <2>5, <2>7, <3>2 DEF Look
      <4>2. s.from = s.to BY <1>2, <2>3, <2>4, <2>7, <3>1, <3>2
      <4> QED BY <1>2, <2>3, <2>4, <3>1, <3>2, <4>1, <4>2 DEF IsPlace
    <3>3. CASE ~ (r > rec[s.from])
      <4>1. at[s] = s.from BY <2>5, <2>7, <3>3 DEF Look
      <4>2. \A k \in 0 .. n - 1 : rec[k] < r => k < s.from
        BY <1>2, <2>3, <2>4, <2>7, <3>1, <3>3
      <4> QED BY <1>2, <2>3, <2>4, <3>1, <4>1, <4>2 DEF IsPlace
    <3> QED BY <2>3, <3>2, <3>3
  <2>8. CASE s.from < s.to
    <3> DEFINE h == (s.from + s.to) \div 2
               left == [s EXCEPT !.to = h - 1]
               right == [s EXCEPT !.from = h + 1]
    <3>1. h \in s.from .. s.to - 1 BY <2>4, <2>8
    <3>2. h \in 0 .. n - 1 BY <2>3, <2>4, <3>1
    <3>3. /\ left \in Spans /\ left.from = s.from /\ left.to = h - 1
          /\ right \in Spans /\ right.from = h + 1 /\ right.to = s.to
      BY <1>0, <2>4, <3>1 DEF Spans
    <3>4. at[s] = IF r < rec[h] THEN at[left] ELSE IF r > rec[h] THEN at[right] ELSE h
      BY <2>4, <2>5, <2>8 DEF Look
    <3> HIDE DEF h, left, right
    <3>5. CASE r < rec[h]
      <4>1. \A k \in 0 .. n - 1 : k > h - 1 => rec[k] >= r
        BY <1>2, <3>1, <3>2, <3>5, <2>4 DEF Ascending
      <4>2. Within(left) BY <2>3, <2>4, <3>1, <3>3, <4>1
      <4>3. IsPlace(l, r, at[left]) BY <2>3, <2>4, <2>6, <3>1, <3>3, <4>2
      <4> QED BY <2>3, <3>4, <3>5, <4>3
    <3>6. CASE r > rec[h]
      <4>1. \A k \in 0 .. n - 1 : k < h + 1 => rec[k] < r
        BY <1>2, <3>1, <3>2, <3>6, <2>4 DEF Ascending
      <4>2. Within(right) BY <2>3, <2>4, <3>1, <3>3, <4>1
      <4>3. IsPlace(l, r, at[right]) BY <2>3, <2>4, <2>6, <3>1, <3>3, <4>2
      <4>4. at[s] = at[right] BY <1>2, <3>2, <3>4, <3>6
      <4> QED BY <2>3, <4>3, <4>4
    <3>7. CASE r = rec[h]
      <4>1. at[s] = h BY <1>2, <3>2, <3>4, <3>7
      <4>2. IsPlace(l, r, h) BY <1>2, <3>2, <3>7 DEF IsPlace, Ascending
      <4> QED BY <2>3, <4>1, <4>2
    <3> QED BY <1>2, <3>2, <3>5, <3>6, <3>7
  <2> QED BY <2>4, <2>7, <2>8
<1> DEFINE all == [from |-> 0, to |-> n - 1]
<1>4. all \in Spans BY <1>0 DEF Spans
<1>5. Within(all) /\ size(all) \in Nat OBVIOUS
<1> QED BY <1>1, <1>3, <1>4, <1>5

\* In an empty leaf the search stops at once.
LEMMA SearchIndexEmpty ==
  ASSUME NEW l, NEW r, l.value_count = 0
  PROVE  SearchIndex(l, r) \in {0, 1}
<1>1. PICK at : /\ at = [s \in Spans |-> Look(l, r, s, at)]
                /\ SearchIndex(l, r) = at[[from |-> 0, to |-> l.value_count - 1]]
  BY SearchDefined
<1> DEFINE s == [from |-> 0, to |-> -1]
<1>2. s \in Spans BY TreeAssumption DEF Spans
<1>3. l.value_count - 1 = -1 OBVIOUS
<1>4. SearchIndex(l, r) = Look(l, r, s, at) BY <1>1, <1>2, <1>3
<1> QED BY <1>4 DEF Look

-----------------------------------------------------------------------------
(* The binary search in a directory.                                        *)

LookDir(dir, r, s, at) ==
  LET middle == (s.from + s.to + 1) \div 2 - 1 IN
  IF s.from = s.to THEN s.from
  ELSE IF r < dir.keys[middle + 1] THEN at[[s EXCEPT !.to = middle]]
  ELSE at[[s EXCEPT !.from = middle + 1]]

\* search_child_index returns.
LEMMA SearchChildDefined ==
  ASSUME NEW dir, NEW r
  PROVE  \E at : /\ at = [s \in DirSpans |-> LookDir(dir, r, s, at)]
                 /\ SearchChild(dir, r) = at[[from |-> 0, to |-> Len(dir.keys)]]
<1> DEFINE rank == [s \in DirSpans |-> s.to - s.from]
           H == [s \in DirSpans |-> [at \in [DirSpans -> Int] |-> LookDir(dir, r, s, at)]]
<1>1. rank \in [DirSpans -> 0 .. DirMax] BY TreeAssumption DEF DirSpans
<1>2. ASSUME NEW s \in DirSpans, s.from # s.to
      PROVE  LET middle == (s.from + s.to + 1) \div 2 - 1 IN
             /\ [s EXCEPT !.to = middle] \in DirSpans
             /\ rank[[s EXCEPT !.to = middle]] < rank[s]
             /\ [s EXCEPT !.from = middle + 1] \in DirSpans
             /\ rank[[s EXCEPT !.from = middle + 1]] < rank[s]
  <2> DEFINE middle == (s.from + s.to + 1) \div 2 - 1
  <2>1. DirMax \in Nat /\ s.from \in 0 .. DirMax /\ s.to \in 0 .. DirMax /\ s.from < s.to
    BY <1>2, TreeAssumption DEF DirSpans
  <2>2. middle \in Int /\ s.from <= middle /\ middle < s.to BY <2>1
  <2> HIDE DEF middle
  <2>3. middle \in 0 .. DirMax /\ middle + 1 \in 0 .. DirMax BY <2>1, <2>2
  <2> DEFINE lower == [s EXCEPT !.to = middle]
             upper == [s EXCEPT !.from = middle + 1]
  <2>4. lower \in DirSpans /\ lower.from = s.from /\ lower.to = middle BY <2>2, <2>3 DEF DirSpans
  <2>5. upper \in DirSpans /\ upper.from = middle + 1 /\ upper.to = s.to BY <2>1, <2>2, <2>3 DEF DirSpans
  <2> HIDE DEF lower, upper
  <2>6. /\ rank[s] = s.to - s.from /\ rank[lower] = middle - s.from
        /\ rank[upper] = s.to - (middle + 1)
    BY <2>4, <2>5
  <2>7. rank[lower] < rank[s] /\ rank[upper] < rank[s] BY <2>1, <2>2, <2>6
  <2> QED BY <2>4, <2>5, <2>7 DEF lower, upper, middle
<1>3. H \in [DirSpans -> [[DirSpans -> Int] -> Int]]
  <2>1. ASSUME NEW s \in DirSpans, NEW at \in [DirSpans -> Int] PROVE LookDir(dir, r, s, at) \in Int
    <3>1. s.from \in Int /\ s.to \in Int BY TreeAssumption DEF DirSpans
    <3>2. CASE s.from = s.to BY <3>1, <3>2 DEF LookDir
    <3>3. CASE s.from # s.to
      <4> DEFINE m == (s.from + s.to + 1) \div 2 - 1
      <4>1. at[[s EXCEPT !.to = m]] \in Int /\ at[[s EXCEPT !.from = m + 1]] \in Int BY <1>2, <3>3
      <4> QED BY <3>3, <4>1 DEF LookDir
    <3> QED BY <3>2, <3>3
  <2> QED BY <2>1
<1>4. \A s \in DirSpans : \A f, g \in [DirSpans -> Int] :
        (\A e \in DirSpans : rank[e] < rank[s] => f[e] = g[e]) => H[s][f] = H[s][g]
  <2> SUFFICES ASSUME NEW s \in DirSpans, NEW f \in [DirSpans -> Int], NEW g \in [DirSpans -> Int],
                      \A e \in DirSpans : rank[e] < rank[s] => f[e] = g[e]
               PROVE  H[s][f] = H[s][g]
    OBVIOUS
  <2>1. LookDir(dir, r, s, f) = LookDir(dir, r, s, g)
    <3>2. CASE s.from = s.to BY <3>2 DEF LookDir
    <3>3. CASE s.from # s.to
      <4> DEFINE m == (s.from + s.to + 1) \div 2 - 1
      <4>1. /\ f[[s EXCEPT !.to = m]] = g[[s EXCEPT !.to = m]]
            /\ f[[s EXCEPT !.from = m + 1]] = g[[s EXCEPT !.from = m + 1]] BY <1>2, <3>3
      <4> QED BY <4>1 DEF LookDir
    <3> QED BY <3>2, <3>3
  <2> QED BY <2>1
<1> HIDE DEF rank, H
<1>5. Solvable(DirSpans, Int, H)
  <2>1. Int # {} /\ DirMax \in Nat BY TreeAssumption
  <2>2. Descends(DirSpans, Int, DirMax, rank, H) BY <1>1, <1>3, <1>4, <2>1, Zenon DEF Descends
  <2> QED BY <2>2, RecursionExists, Zenon
<1>6. \E at : at = [s \in DirSpans |-> LookDir(dir, r, s, at)] BY <1>5 DEF H, Solvable
<1> DEFINE c == CHOOSE at : at = [s \in DirSpans |-> LookDir(dir, r, s, at)]
<1>7. c = [s \in DirSpans |-> LookDir(dir, r, s, c)] BY <1>6, Zenon
<1>8. SearchChild(dir, r) = c[[from |-> 0, to |-> Len(dir.keys)]]
  BY Zenon DEF SearchChild, LookDir
<1> QED BY <1>7, <1>8

\* The keys of a directory, each before the next.
KeysAscend(keys) == \A i, j \in 1 .. Len(keys) : i < j => keys[i] < keys[j]

\* The keys up to i are not greater than r, the others are.
Separates(keys, r, i) == \A k \in 1 .. Len(keys) : keys[k] <= r <=> k <= i

\* search_child_index finds the child for r, in a directory of any size, and it stays
\* inside of one whose keys are not in order.
LEMMA SearchChildExact ==
  ASSUME NEW dir, NEW r \in Int, dir.keys \in Seq(Int), Len(dir.keys) <= DirMax
  PROVE  /\ SearchChild(dir, r) \in 0 .. Len(dir.keys)
         /\ KeysAscend(dir.keys) => Separates(dir.keys, r, SearchChild(dir, r))
<1> DEFINE keys == dir.keys
           n == Len(keys)
           Within(s) == /\ s.to <= n
                        /\ KeysAscend(keys) =>
                             /\ \A k \in 1 .. n : k <= s.from => keys[k] <= r
                             /\ \A k \in 1 .. n : k > s.to => keys[k] > r
           Good(i) == i \in 0 .. n /\ (KeysAscend(keys) => Separates(keys, r, i))
           size(s) == s.to - s.from
<1>1. PICK at : /\ at = [s \in DirSpans |-> LookDir(dir, r, s, at)]
                /\ SearchChild(dir, r) = at[[from |-> 0, to |-> n]]
  BY SearchChildDefined
<1>0. DirMax \in Nat BY TreeAssumption
<1>2. n \in Nat /\ n <= DirMax /\ n = Len(keys) /\ \A k \in 1 .. n : keys[k] \in Int OBVIOUS
<1> HIDE DEF keys, n
<1> DEFINE T == {m \in Nat : \E s \in DirSpans : Within(s) /\ size(s) = m /\ ~Good(at[s])}
<1>3. T = {}
  <2>1. SUFFICES ASSUME T # {} PROVE FALSE OBVIOUS
  <2>2. PICK m \in T : \A j \in T : m <= j BY <2>1, Least
  <2>3. PICK s \in DirSpans : Within(s) /\ size(s) = m /\ ~Good(at[s]) OBVIOUS
  <2>4. s.from \in 0 .. DirMax /\ s.to \in 0 .. DirMax /\ s.from <= s.to BY DEF DirSpans
  <2>5. at[s] = LookDir(dir, r, s, at) BY <1>1
  <2>6. \A t \in DirSpans : Within(t) /\ size(t) \in Nat /\ size(t) < m => Good(at[t])
    BY <2>2
  <2>7. CASE s.from = s.to
    <3>1. at[s] = s.from BY <2>5, <2>7 DEF LookDir
    <3>2. KeysAscend(keys) => Separates(keys, r, s.from)
      BY <1>2, <2>3, <2>4, <2>7 DEF Separates
    <3> QED BY <2>3, <2>4, <2>7, <3>1, <3>2
  <2>8. CASE s.from # s.to
    <3> DEFINE h == (s.from + s.to + 1) \div 2 - 1
               left == [s EXCEPT !.to = h]
               right == [s EXCEPT !.from = h + 1]
    <3>1. h \in s.from .. s.to - 1 BY <2>4, <2>8
    <3>a. s = [from |-> s.from, to |-> s.to] BY DEF DirSpans
    <3>b. at[s] = IF r < keys[h + 1] THEN at[left] ELSE at[right]
      BY <2>4, <2>5, <2>8 DEF LookDir, keys
    <3> HIDE DEF h
    <3>2. h + 1 \in 1 .. n BY <1>2, <2>3, <2>4, <3>1
    <3>3. /\ left \in DirSpans /\ left.from = s.from /\ left.to = h
          /\ right \in DirSpans /\ right.from = h + 1 /\ right.to = s.to
      BY <1>0, <2>4, <3>1 DEF DirSpans
    <3>4. at[s] = IF r < keys[h + 1] THEN at[left] ELSE at[right] BY <3>b
    <3> HIDE DEF left, right
    <3>5. CASE r < keys[h + 1]
      <4>1. KeysAscend(keys) => \A k \in 1 .. n : k > h => keys[k] > r
        <5> SUFFICES ASSUME KeysAscend(keys), NEW k \in 1 .. n, k > h PROVE keys[k] > r OBVIOUS
        <5>1. k = h + 1 \/ h + 1 < k BY <2>4, <3>1
        <5>2. h + 1 < k => keys[h + 1] < keys[k] BY <1>2, <3>2 DEF KeysAscend
        <5>3. keys[k] \in Int /\ keys[h + 1] \in Int BY <1>2, <3>2
        <5> QED BY <3>5, <5>1, <5>2, <5>3
      <4>2. Within(left) BY <1>2, <2>3, <2>4, <3>1, <3>3, <4>1
      <4>3. Good(at[left]) BY <2>3, <2>4, <2>6, <3>1, <3>3, <4>2, SMTT(30)
      <4> QED BY <2>3, <3>4, <3>5, <4>3
    <3>6. CASE ~ (r < keys[h + 1])
      <4>1. KeysAscend(keys) => \A k \in 1 .. n : k <= h + 1 => keys[k] <= r
        <5> SUFFICES ASSUME KeysAscend(keys), NEW k \in 1 .. n, k <= h + 1 PROVE keys[k] <= r OBVIOUS
        <5>1. k = h + 1 \/ k < h + 1 BY <2>4, <3>1
        <5>2. k < h + 1 => keys[k] < keys[h + 1] BY <1>2, <3>2 DEF KeysAscend
        <5>3. keys[k] \in Int /\ keys[h + 1] \in Int BY <1>2, <3>2
        <5> QED BY <3>6, <5>1, <5>2, <5>3
      <4>2. Within(right) BY <2>3, <2>4, <3>1, <3>3, <4>1
      <4>3. Good(at[right]) BY <2>3, <2>4, <2>6, <3>1, <3>3, <4>2, SMTT(30)
      <4> QED BY <2>3, <3>4, <3>6, <4>3
    <3> QED BY <3>5, <3>6
  <2> QED BY <2>7, <2>8
<1> DEFINE all == [from |-> 0, to |-> n]
<1>4. all \in DirSpans BY <1>0, <1>2 DEF DirSpans
<1>5. Within(all) /\ size(all) \in Nat BY <1>2
<1> QED BY <1>1, <1>3, <1>4, <1>5 DEF n, keys

-----------------------------------------------------------------------------
(* Sorted sequences.                                                        *)

\* s has the members of S in order.
InOrder(s, S) ==
  /\ s \in Seq(Int) /\ KeysAscend(s)
  /\ S = {s[i] : i \in 1 .. Len(s)}

\* The first k members of an ascending sequence are k.
LEMMA PrefixCount ==
  ASSUME NEW s \in Seq(Int), KeysAscend(s), NEW k \in 0 .. Len(s)
  PROVE  /\ IsFiniteSet({s[j] : j \in 1 .. k})
         /\ Cardinality({s[j] : j \in 1 .. k}) = k
<1> DEFINE A == 1 .. k
           B == {s[j] : j \in 1 .. k}
           f == [j \in A |-> s[j]]
<1>1. f \in [A -> B] OBVIOUS
<1>2. \A i, j \in A : f[i] = f[j] => i = j
  <2>1. \A i, j \in A : i \in 1 .. Len(s) /\ j \in 1 .. Len(s) /\ s[i] \in Int /\ s[j] \in Int
    OBVIOUS
  <2> QED BY <2>1 DEF KeysAscend
<1>3. \A b \in B : \E j \in A : f[j] = b OBVIOUS
<1>4. f \in Bijection(A, B) BY <1>1, <1>2, <1>3 DEF Bijection, Injection, Surjection, IsInjective
<1>5. ExistsBijection(A, B) BY <1>4 DEF ExistsBijection
<1>6. IsFiniteSet(A) /\ Cardinality(A) = k
  <2>1. k \in Nat OBVIOUS
  <2> QED BY <2>1, FS_Interval
<1> HIDE DEF A, B
<1>7. IsFiniteSet(B) /\ Cardinality(B) = k BY <1>5, <1>6, FS_Bijection
<1> QED BY <1>7 DEF B

\* The members below the i-th are the first i - 1.
LEMMA BelowCount ==
  ASSUME NEW s, NEW S, InOrder(s, S), NEW i \in 1 .. Len(s)
  PROVE  Cardinality({x \in S : x < s[i]}) = i - 1
<1>1. s \in Seq(Int) /\ KeysAscend(s) /\ S = {s[j] : j \in 1 .. Len(s)} BY DEF InOrder
<1>2. {x \in S : x < s[i]} = {s[j] : j \in 1 .. i - 1}
  <2>1. ASSUME NEW j \in 1 .. Len(s) PROVE s[j] < s[i] <=> j < i
    <3>1. s[i] \in Int /\ s[j] \in Int BY <1>1
    <3>2. (j < i => s[j] < s[i]) /\ (i < j => s[i] < s[j]) BY <1>1 DEF KeysAscend
    <3> QED BY <3>1, <3>2
  <2>2. \A j \in 1 .. i - 1 : j \in 1 .. Len(s) /\ j < i BY <1>1
  <2>3. \A j \in 1 .. Len(s) : j < i => j \in 1 .. i - 1 BY <1>1
  <2> QED BY <1>1, <2>1, <2>2, <2>3
<1>3. i - 1 \in 0 .. Len(s) BY <1>1
<1> QED BY <1>1, <1>2, <1>3, PrefixCount

\* There is one way to sort a set.
LEMMA SortedUnique ==
  ASSUME NEW s, NEW S, InOrder(s, S)
  PROVE  s = Sorted(S)
<1>1. s \in Seq(Int) /\ KeysAscend(s) /\ S = {s[j] : j \in 1 .. Len(s)} BY DEF InOrder
<1>2. Len(s) \in 0 .. Len(s) BY <1>1
<1>3. Cardinality(S) = Len(s) BY <1>1, <1>2, PrefixCount
<1>4. ASSUME NEW i \in 1 .. Len(s)
      PROVE  s[i] = CHOOSE r \in S : Cardinality({x \in S : x < r}) = i - 1
  <2>1. s[i] \in S BY <1>1
  <2>2. Cardinality({x \in S : x < s[i]}) = i - 1 BY BelowCount
  <2>3. ASSUME NEW r \in S, Cardinality({x \in S : x < r}) = i - 1 PROVE r = s[i]
    <3>1. PICK j \in 1 .. Len(s) : r = s[j] BY <1>1
    <3>2. Cardinality({x \in S : x < s[j]}) = j - 1 BY BelowCount
    <3>3. Cardinality({x \in S : x < s[j]}) = i - 1 BY <2>3, <3>1
    <3>4. j - 1 = i - 1 BY <3>2, <3>3
    <3>5. i \in Int /\ j \in Int BY <1>1
    <3>6. j = i BY <3>4, <3>5
    <3> QED BY <3>1, <3>6
  <2> QED BY <2>1, <2>2, <2>3, Zenon
<1>5. s = [i \in 1 .. Len(s) |-> s[i]] BY <1>1
<1>6. s = [i \in 1 .. Len(s) |-> CHOOSE r \in S : Cardinality({x \in S : x < r}) = i - 1]
  BY <1>4, <1>5, Zenon
<1> QED BY <1>3, <1>6, Zenon DEF Sorted

\* And every finite set can be sorted.
LEMMA SortedExists ==
  ASSUME NEW S \in SUBSET Int, IsFiniteSet(S)
  PROVE  InOrder(Sorted(S), S) /\ Len(Sorted(S)) = Cardinality(S)
<1> DEFINE n == Cardinality(S)
           Below(r) == {x \in S : x < r}
           place == [r \in S |-> Cardinality(Below(r)) + 1]
           P == {place[r] : r \in S}
<1>0. n \in Nat BY FS_CardinalityType
<1>1. \A r \in S : IsFiniteSet(Below(r)) /\ Cardinality(Below(r)) \in Nat /\ Cardinality(Below(r)) < n
  <2> TAKE r \in S
  <2>1. Below(r) \subseteq S /\ r \in S /\ r \notin Below(r) OBVIOUS
  <2> HIDE DEF Below
  <2>2. IsFiniteSet(Below(r)) BY <2>1, FS_Subset
  <2>3. Cardinality(Below(r)) \in Nat BY <2>2, FS_CardinalityType
  <2>4. Cardinality(Below(r)) <= Cardinality(S) BY <2>1, FS_Subset
  <2>5. Cardinality(Below(r)) # Cardinality(S) BY <2>1, FS_Subset
  <2> QED BY <1>0, <2>2, <2>3, <2>4, <2>5
<1>2. \A q, r \in S : q < r => place[q] < place[r]
  <2> TAKE q, r \in S
  <2> HAVE q < r
  <2>0. \A x \in S : x \in Int OBVIOUS
  <2>a. \A x \in S : x < q => x < r BY <2>0
  <2>1. Below(q) \subseteq Below(r) /\ q \in Below(r) /\ q \notin Below(q)
    <3>1. Below(q) \subseteq Below(r) BY <2>a
    <3>2. q \in Below(r) OBVIOUS
    <3>3. ~ (q < q) BY <2>0
    <3>4. q \notin Below(q) BY <3>3
    <3> QED BY <3>1, <3>2, <3>4
  <2>2. IsFiniteSet(Below(q)) /\ IsFiniteSet(Below(r)) BY <1>1
  <2>3. Cardinality(Below(q)) \in Nat /\ Cardinality(Below(r)) \in Nat BY <1>1
  <2> HIDE DEF Below
  <2>4. Cardinality(Below(q)) <= Cardinality(Below(r)) BY <2>1, <2>2, FS_Subset
  <2>5. Cardinality(Below(q)) # Cardinality(Below(r)) BY <2>1, <2>2, FS_Subset
  <2> QED BY <2>3, <2>4, <2>5
<1>3. \A r \in S : place[r] \in 1 .. n BY <1>0, <1>1
<1>4. \A q, r \in S : q # r => q < r \/ r < q OBVIOUS
<1> HIDE DEF place, n
<1>5. P = 1 .. n
  <2>1. P \subseteq 1 .. n BY <1>3
  <2>2. place \in [S -> P] BY DEF place
  <2>3. \A q, r \in S : place[q] = place[r] => q = r
    <3>1. \A q, r \in S : place[q] \in Int /\ place[r] \in Int BY <1>0, <1>3
    <3> QED BY <1>2, <1>4, <3>1
  <2>4. \A b \in P : \E r \in S : place[r] = b OBVIOUS
  <2>5. place \in Bijection(S, P)
    BY <2>2, <2>3, <2>4 DEF Bijection, Injection, Surjection, IsInjective
  <2>6. ExistsBijection(S, P) BY <2>5 DEF ExistsBijection
  <2> HIDE DEF P
  <2>7. IsFiniteSet(P) /\ Cardinality(P) = n BY <2>6, FS_Bijection DEF n
  <2>8. IsFiniteSet(1 .. n) /\ Cardinality(1 .. n) = n BY <1>0, FS_Interval
  <2> QED BY <2>1, <2>7, <2>8, FS_Subset
<1>6. Sorted(S) = [i \in 1 .. n |-> CHOOSE r \in S : Cardinality(Below(r)) = i - 1]
  BY Zenon DEF Sorted, n
<1>7. ASSUME NEW i \in 1 .. n PROVE Sorted(S)[i] \in S /\ place[Sorted(S)[i]] = i
  <2>1. PICK r \in S : place[r] = i BY <1>5
  <2>2. Cardinality(Below(r)) = i - 1 BY <1>0, <1>1, <2>1 DEF place
  <2> DEFINE c == CHOOSE q \in S : Cardinality(Below(q)) = i - 1
  <2>3. Sorted(S)[i] = c BY <1>6
  <2>4. c \in S /\ Cardinality(Below(c)) = i - 1 BY <2>2, Zenon
  <2> HIDE DEF c
  <2>5. place[c] = i BY <1>0, <2>4 DEF place
  <2> QED BY <2>3, <2>4, <2>5
<1>8. Sorted(S) \in Seq(Int) /\ Len(Sorted(S)) = n
  <2> HIDE DEF Below
  <2>1. \E f : Sorted(S) = [i \in 1 .. n |-> f[i]] 
    <3> DEFINE f == [i \in 1 .. n |-> CHOOSE r \in S : Cardinality(Below(r)) = i - 1]
    <3>1. f = [i \in 1 .. n |-> f[i]] OBVIOUS
    <3> QED BY <1>6, <3>1, Zenon
  <2>2. \A i \in 1 .. n : Sorted(S)[i] \in Int BY <1>7
  <2> QED BY <1>0, <2>1, <2>2
<1>9. KeysAscend(Sorted(S))
  <2> SUFFICES ASSUME NEW i \in 1 .. n, NEW j \in 1 .. n, i < j
               PROVE  Sorted(S)[i] < Sorted(S)[j]
    BY <1>8 DEF KeysAscend
  <2> DEFINE a == Sorted(S)[i]
             b == Sorted(S)[j]
  <2>1. a \in S /\ b \in S /\ place[a] = i /\ place[b] = j BY <1>7
  <2> HIDE DEF a, b
  <2>2. i \in Int /\ j \in Int BY <1>0
  <2>3. a # b BY <2>1, <2>2
  <2>4. ~ (b < a) BY <1>2, <2>1, <2>2
  <2>5. a < b BY <1>4, <2>1, <2>3, <2>4
  <2> QED BY <2>5 DEF a, b
<1>10. S = {Sorted(S)[i] : i \in 1 .. n}
  <2>1. ASSUME NEW r \in S PROVE \E i \in 1 .. n : Sorted(S)[i] = r
    <3>1. place[r] \in 1 .. n BY <1>3
    <3>2. Sorted(S)[place[r]] \in S /\ place[Sorted(S)[place[r]]] = place[r] BY <1>7, <3>1
    <3>3. \A q \in S : place[q] = place[r] => q = r
      <4>1. \A q \in S : place[q] \in Int BY <1>0, <1>3
      <4> QED BY <1>2, <1>4, <4>1
    <3> QED BY <3>1, <3>2, <3>3
  <2> QED BY <1>7, <2>1
<1> QED BY <1>8, <1>9, <1>10 DEF InOrder, n

-----------------------------------------------------------------------------
(* The tree.  t says what every page is responsible for: the page that a    *)
(* reference c stands for has the records from t.lo[c] to below t.hi[c].    *)
(* t.level gets smaller on the way down, and t.dirs and t.leaves are the    *)
(* numbers of pages in use.  The root has everything.                       *)

Top  == MaxRecord + 1
Refs == -MaxDirs .. MaxLeaves

LEMMA InRefs ==
  ASSUME NEW a \in 0 .. MaxDirs, NEW b \in 0 .. MaxLeaves, NEW c \in -a .. b - 1
  PROVE  c \in Refs /\ c \in Int
<1>1. MaxDirs \in Nat /\ MaxLeaves \in Nat BY TreeAssumption
<1>2. c \in Int /\ -MaxDirs <= c /\ c <= MaxLeaves BY <1>1
<1> QED BY <1>1, <1>2 DEF Refs

LEMMA NegRefs ==
  \A d \in 0 .. MaxDirs : -d \in Refs /\ d \in Int
<1>1. MaxDirs \in Nat /\ MaxLeaves \in Nat BY TreeAssumption
<1> TAKE d \in 0 .. MaxDirs
<1>2. -d \in Int /\ -MaxDirs <= -d /\ -d <= MaxLeaves BY <1>1
<1> QED BY <1>1, <1>2 DEF Refs

Low(t, d)  == IF d = 0 THEN 0 ELSE t.lo[-d]
High(t, d) == IF d = 0 THEN Top ELSE t.hi[-d]

\* What is between the keys to the left and to the right of child i.
Lower(dir, t, d, i) == IF i = 1 THEN Low(t, d) ELSE dir.keys[i - 1]
Upper(dir, t, d, i) == IF i = Len(dir.keys) + 1 THEN High(t, d) ELSE dir.keys[i]

Kids(dir) == 1 .. Len(dir.keys) + 1

\* While the page of b has been split and n, the other half, is not in its parent yet,
\* the parent takes b for both.  When nothing is split, b is n.
Seen(t, c, b, n) == IF c = b THEN t.hi[n] ELSE t.hi[c]

IsDir(dir) == dir \in [keys : Seq(Int), children : Seq(Int)] /\ Len(dir.children) = Len(dir.keys) + 1

Typed(ds, t) ==
  /\ t.dirs \in 1 .. MaxDirs /\ t.leaves \in 1 .. MaxLeaves
  /\ t.lo \in [Refs -> Int] /\ t.hi \in [Refs -> Int] /\ t.level \in [DirPages -> Nat]
  /\ DOMAIN ds = DirPages
  /\ \A d \in DirPages : IsDir(ds[d]) /\ t.level[d] <= t.level[0]
  /\ \A d \in DirPages : d >= t.dirs => ds[d] = NoDir

\* The keys of a directory are inside of what it has.
KeysIn(dir, t, d) ==
  /\ KeysAscend(dir.keys)
  /\ \A k \in 1 .. Len(dir.keys) : Low(t, d) < dir.keys[k] /\ dir.keys[k] < High(t, d)
  /\ Low(t, d) < High(t, d)
  /\ Len(dir.keys) = 0 => High(t, d) = Top

\* A child has what is between two keys.
ChildIn(c, dir, t, b, n, d, i) ==
  /\ c \in -(t.dirs - 1) .. t.leaves - 1
  /\ c < 0 => t.level[-c] < t.level[d]
  /\ t.lo[c] = Lower(dir, t, d, i)
  /\ Seen(t, c, b, n) = Upper(dir, t, d, i)

ChildrenIn(dir, t, b, n, d) ==
  \A i \in Kids(dir) : ChildIn(dir.children[i], dir, t, b, n, d, i)

InUseDirs(t) == 0 .. t.dirs - 1

\* No page has two parents.
OneParent(ds, t) ==
  \A d, e \in InUseDirs(t) : \A i \in Kids(ds[d]) : \A j \in Kids(ds[e]) :
    ds[d].children[i] = ds[e].children[j] => d = e /\ i = j

Pending(ds, t, b, n) ==
  b # n =>
    /\ b \in -(t.dirs - 1) .. t.leaves - 1 /\ n \in -(t.dirs - 1) .. t.leaves - 1
    /\ t.hi[b] = t.lo[n] /\ t.lo[b] < t.lo[n] /\ t.lo[n] < t.hi[n]
    /\ n < 0 => b < 0 /\ t.level[-n] <= t.level[-b]
    /\ n # 0
    /\ \A d \in InUseDirs(t) : \A i \in Kids(ds[d]) : ds[d].children[i] # n

Tree(ds, t, b, n) ==
  /\ Typed(ds, t)
  /\ \A d \in InUseDirs(t) : KeysIn(ds[d], t, d) /\ ChildrenIn(ds[d], t, b, n, d)
  /\ OneParent(ds, t)
  /\ Pending(ds, t, b, n)

\* Nothing is split.
Whole(ds, t) == Tree(ds, t, 0, 0)

\* q is s with x at place i.
IsInserted(q, s, i, x) ==
  /\ q \in Seq(Int) /\ Len(q) = Len(s) + 1
  /\ \A k \in 1 .. Len(s) : k < i => q[k] = s[k]
  /\ q[i] = x
  /\ \A k \in 1 .. Len(s) : k >= i => q[k + 1] = s[k]

\* What InsertAt does to a sequence.
LEMMA Inserted ==
  ASSUME NEW s \in Seq(Int), NEW i \in 1 .. Len(s) + 1, NEW x \in Int
  PROVE  IsInserted(InsertAt(s, i, x), s, i, x)
<1> DEFINE p == SubSeq(s, 1, i - 1)
           q == SubSeq(s, i, Len(s))
<1>0. Len(s) \in Nat /\ i \in Int OBVIOUS
<1>1. p \in Seq(Int) /\ Len(p) = i - 1 /\ \A k \in 1 .. i - 1 : p[k] = s[k] BY <1>0
<1>2. q \in Seq(Int) /\ Len(q) = Len(s) + 1 - i
  BY <1>0
<1>3. \A k \in 1 .. Len(s) + 1 - i : q[k] = s[i + k - 1] BY <1>0
<1>4. InsertAt(s, i, x) = (p \o <<x>>) \o q BY DEF InsertAt
<1> HIDE DEF p, q
<1>5. p \o <<x>> \in Seq(Int) /\ Len(p \o <<x>>) = i BY <1>0, <1>1
<1>6. \A k \in 1 .. i : (p \o <<x>>)[k] = IF k < i THEN s[k] ELSE x BY <1>0, <1>1
<1> DEFINE o == p \o <<x>>
<1>a. o \in Seq(Int) /\ Len(o) = i BY <1>5
<1>b. \A k \in 1 .. i : o[k] = IF k < i THEN s[k] ELSE x BY <1>6
<1> HIDE DEF o
<1>7. o \o q \in Seq(Int) /\ Len(o \o q) = Len(s) + 1 BY <1>0, <1>2, <1>a
<1>8. ASSUME NEW k \in 1 .. Len(s) + 1
      PROVE  (o \o q)[k] = IF k < i THEN s[k] ELSE IF k = i THEN x ELSE s[k - 1]
  <2>1. CASE k <= i
    <3>1. (o \o q)[k] = o[k] BY <1>0, <1>2, <1>a, <2>1
    <3> QED BY <1>0, <1>b, <2>1, <3>1
  <2>2. CASE k > i
    <3>0. k \in Int /\ Len(o) < k /\ k <= Len(o) + Len(q) /\ ~ (k < i) /\ k # i
      BY <1>0, <1>2, <1>a, <2>2
    <3>1. (o \o q)[k] = q[k - Len(o)] BY <1>2, <1>a, <3>0, SecondPart
    <3>a. k - i \in 1 .. Len(s) + 1 - i BY <1>0, <2>2
    <3>2. q[k - i] = s[i + (k - i) - 1] BY <1>3, <3>a
    <3>3. i + (k - i) - 1 = k - 1 BY <1>0
    <3>4. q[k - i] = s[k - 1] BY <3>2, <3>3
    <3>5. (o \o q)[k] = s[k - 1] BY <1>a, <3>1, <3>4
    <3> QED BY <3>0, <3>5
  <2>3. k <= i \/ k > i BY <1>0
  <2> QED BY <2>1, <2>2, <2>3, Zenon
<1> DEFINE z == o \o q
<1> HIDE DEF z
<1>9. z \in Seq(Int) /\ Len(z) = Len(s) + 1 BY <1>7 DEF z
<1>10. \A k \in 1 .. Len(s) + 1 : z[k] = IF k < i THEN s[k] ELSE IF k = i THEN x ELSE s[k - 1]
  BY <1>8 DEF z
<1>11. ASSUME NEW k \in 1 .. Len(s), k < i PROVE z[k] = s[k] BY <1>0, <1>10, <1>11
<1>12. z[i] = x BY <1>0, <1>10
<1>13. ASSUME NEW k \in 1 .. Len(s), k >= i PROVE z[k + 1] = s[k]
  <2> DEFINE m == k + 1
  <2>1. m \in 1 .. Len(s) + 1 /\ ~ (m < i) /\ m # i /\ m - 1 = k BY <1>0, <1>13
  <2> HIDE DEF m
  <2>2. z[m] = s[m - 1] BY <1>10, <2>1
  <2> QED BY <2>1, <2>2 DEF m
<1>14. IsInserted(z, s, i, x) BY <1>9, <1>11, <1>12, <1>13 DEF IsInserted
<1>15. InsertAt(s, i, x) = z BY <1>4 DEF o, z
<1> QED BY <1>14, <1>15

\* Facts about one directory of a tree.
LEMMA DirFacts ==
  ASSUME NEW ds, NEW t, Typed(ds, t), NEW d \in InUseDirs(t)
  PROVE  /\ d \in DirPages /\ -d \in Refs
         /\ ds[d].keys \in Seq(Int) /\ ds[d].children \in Seq(Int)
         /\ Len(ds[d].keys) \in Nat /\ Len(ds[d].children) = Len(ds[d].keys) + 1
         /\ Low(t, d) \in Int /\ High(t, d) \in Int /\ t.level[d] \in Nat
<1>1. MaxDirs \in Nat /\ MaxLeaves \in Nat /\ MaxRecord \in Nat BY TreeAssumption
<1>2. t.dirs \in 1 .. MaxDirs BY DEF Typed
<1>3. d \in DirPages /\ -d \in Refs BY <1>1, <1>2 DEF InUseDirs, DirPages, Refs
<1>4. IsDir(ds[d]) BY <1>3 DEF Typed
<1>5. ds[d].keys \in Seq(Int) /\ ds[d].children \in Seq(Int) BY <1>4 DEF IsDir
<1>6. Low(t, d) \in Int /\ High(t, d) \in Int BY <1>1, <1>3 DEF Low, High, Typed, Top
<1>7. t.level[d] \in Nat BY <1>3 DEF Typed
<1> QED BY <1>3, <1>4, <1>5, <1>6, <1>7 DEF IsDir

\* A directory with room takes the new page next to the one that was split.
LEMMA KidInserted ==
  ASSUME NEW ds, NEW t, NEW b, NEW n, Tree(ds, t, b, n), b # n,
         NEW e \in InUseDirs(t), NEW j \in Kids(ds[e]), ds[e].children[j] = b,
         NEW X, IsDir(X), IsInserted(X.keys, ds[e].keys, j, t.lo[n]),
         IsInserted(X.children, ds[e].children, j + 1, n)
  PROVE  Whole([ds EXCEPT ![e] = X], t)
<1> DEFINE dir == ds[e]
           K == t.lo[n]
           N == Len(dir.keys)
           D == [ds EXCEPT ![e] = X]
<1>1. Typed(ds, t) /\ OneParent(ds, t) /\ Pending(ds, t, b, n) BY DEF Tree
<1>2. /\ e \in DirPages /\ dir.keys \in Seq(Int) /\ dir.children \in Seq(Int)
      /\ N \in Nat /\ Len(dir.children) = N + 1
      /\ Low(t, e) \in Int /\ High(t, e) \in Int
  BY <1>1, DirFacts
<1>3. j \in 1 .. N + 1 BY DEF Kids
<1>4. n \in -(t.dirs - 1) .. t.leaves - 1 /\ n \in Int /\ n \in Refs /\ K \in Int
  <2>1. MaxDirs \in Nat /\ MaxLeaves \in Nat BY TreeAssumption
  <2>2. t.dirs \in 1 .. MaxDirs /\ t.leaves \in 1 .. MaxLeaves BY <1>1 DEF Typed
  <2>3. n \in -(t.dirs - 1) .. t.leaves - 1 BY <1>1 DEF Pending
  <2>4. n \in Int /\ n \in Refs BY <2>1, <2>2, <2>3 DEF Refs
  <2> QED BY <1>1, <2>3, <2>4 DEF Typed
<1>5. KeysIn(dir, t, e) /\ ChildrenIn(dir, t, b, n, e) BY DEF Tree
<1> DEFINE xk == X.keys
           xc == X.children
           dk == dir.keys
           dc == dir.children
<1>7. /\ Len(xk) = N + 1 /\ xk[j] = K
      /\ \A k \in 1 .. N : k < j => xk[k] = dk[k]
      /\ \A k \in 1 .. N : k >= j => xk[k + 1] = dk[k]
  BY DEF IsInserted
<1>8. /\ Len(xc) = N + 2 /\ xc[j + 1] = n
      /\ \A k \in 1 .. N + 1 : k <= j => xc[k] = dc[k]
      /\ \A k \in 1 .. N + 1 : k > j => xc[k + 1] = dc[k]
  <2>1. Len(dc) = N + 1 /\ Len(dc) + 1 = N + 2 BY <1>2
  <2>2. \A k \in 1 .. N + 1 : (k <= j <=> k < j + 1) /\ (k > j <=> k >= j + 1) BY <1>2, <1>3
  <2> QED BY <2>1, <2>2 DEF IsInserted
<1>9. \A k \in 1 .. N : dk[k] \in Int BY <1>2
<1>10. /\ \A k \in 1 .. N : Low(t, e) < dk[k] /\ dk[k] < High(t, e)
       /\ \A k, m \in 1 .. N : k < m => dk[k] < dk[m]
  BY <1>5 DEF KeysIn, KeysAscend
<1> HIDE DEF N, K, xk, xc, dk, dc, dir
<1>11. Lower(dir, t, e, j) < K /\ K < Upper(dir, t, e, j)
  <2>1. ChildIn(b, dir, t, b, n, e, j) BY <1>5 DEF ChildrenIn, dir
  <2>2. t.lo[b] = Lower(dir, t, e, j) /\ t.hi[n] = Upper(dir, t, e, j) BY <2>1 DEF ChildIn, Seen
  <2>3. t.lo[b] < K /\ K < t.hi[n] BY <1>1 DEF Pending, K
  <2> QED BY <2>2, <2>3
<1>12. /\ Low(t, e) < K /\ K < High(t, e)
       /\ \A k \in 1 .. N : (k < j => dk[k] < K) /\ (k >= j => K < dk[k])
  <2>1. \A k \in 1 .. N : k < j => dk[k] < K
    <3> SUFFICES ASSUME NEW k \in 1 .. N, k < j PROVE dk[k] < K OBVIOUS
    <3>1. j # 1 /\ j - 1 \in 1 .. N /\ (k = j - 1 \/ k < j - 1)
      BY <1>2, <1>3, PlaceBelow, Zenon
    <3>2. dk[j - 1] < K BY <1>11, <3>1 DEF Lower, dk
    <3> QED BY <1>4, <1>9, <1>10, <3>1, <3>2
  <2>2. \A k \in 1 .. N : k >= j => K < dk[k]
    <3> SUFFICES ASSUME NEW k \in 1 .. N, k >= j PROVE K < dk[k] OBVIOUS
    <3>1. j # N + 1 /\ j \in 1 .. N /\ (k = j \/ j < k) BY <1>2, <1>3
    <3>2. K < dk[j] BY <1>11, <3>1 DEF Upper, dk, N
    <3> QED BY <1>4, <1>9, <1>10, <3>1, <3>2
  <2>3. Low(t, e) < K
    <3>1. CASE j = 1 BY <1>11, <3>1 DEF Lower
    <3>2. CASE j # 1
      <4>1. j - 1 \in 1 .. N /\ j - 1 < j BY <1>2, <1>3, <3>2
      <4>2. Low(t, e) < dk[j - 1] /\ dk[j - 1] < K /\ dk[j - 1] \in Int BY <1>9, <1>10, <2>1, <4>1
      <4> QED BY <1>2, <1>4, <4>2
    <3> QED BY <3>1, <3>2
  <2>4. K < High(t, e)
    <3>1. CASE j = N + 1 BY <1>11, <3>1 DEF Upper, N
    <3>2. CASE j # N + 1
      <4>1. j \in 1 .. N BY <1>2, <1>3, <3>2
      <4>2. K < dk[j] /\ dk[j] < High(t, e) /\ dk[j] \in Int
        <5>1. j >= j BY <4>1
        <5> QED BY <1>9, <1>10, <2>2, <4>1, <5>1
      <4> QED BY <1>2, <1>4, <4>2
    <3> QED BY <3>1, <3>2
  <2> QED BY <2>1, <2>2, <2>3, <2>4
\* Every place of the new keys is one of the old keys, or that of K.
<1>13. \A k \in 1 .. N + 1 :
         \/ k = j
         \/ k < j /\ k \in 1 .. N /\ xk[k] = dk[k]
         \/ k > j /\ k - 1 \in 1 .. N /\ k - 1 >= j /\ xk[k] = dk[k - 1]
  <2> TAKE k \in 1 .. N + 1
  <2>1. CASE k < j
    <3>1. k \in 1 .. N BY <1>2, <1>3, <2>1
    <3> QED BY <1>7, <2>1, <3>1
  <2>2. CASE k > j
    <3>1. k - 1 \in 1 .. N /\ k - 1 >= j /\ k - 1 + 1 = k BY <1>2, <1>3, <2>2
    <3>2. xk[k - 1 + 1] = dk[k - 1] BY <1>7, <3>1
    <3> QED BY <2>2, <3>1, <3>2
  <2> QED BY <1>2, <1>3, <2>1, <2>2
<1>14. KeysIn(X, t, e)
  <2>1. ASSUME NEW k \in 1 .. N + 1, NEW m \in 1 .. N + 1, k < m PROVE xk[k] < xk[m]
    <3>1. CASE k = j
      <4>1. m > j /\ m - 1 \in 1 .. N /\ m - 1 >= j /\ xk[m] = dk[m - 1] BY <1>3, <1>13, <2>1, <3>1
      <4> QED BY <1>7, <1>12, <3>1, <4>1
    <3>2. CASE k < j /\ k \in 1 .. N /\ xk[k] = dk[k]
      <4>1. CASE m = j BY <1>7, <1>12, <3>2, <4>1
      <4>2. CASE m < j /\ m \in 1 .. N /\ xk[m] = dk[m] BY <1>10, <2>1, <3>2, <4>2
      <4>3. CASE m > j /\ m - 1 \in 1 .. N /\ m - 1 >= j /\ xk[m] = dk[m - 1]
        <5>1. k < m - 1 BY <1>3, <3>2, <4>3
        <5> QED BY <1>10, <3>2, <4>3, <5>1
      <4> QED BY <1>13, <4>1, <4>2, <4>3
    <3>3. CASE k > j /\ k - 1 \in 1 .. N /\ k - 1 >= j /\ xk[k] = dk[k - 1]
      <4>1. m > j /\ m - 1 \in 1 .. N /\ xk[m] = dk[m - 1] BY <1>3, <1>13, <2>1, <3>3
      <4>2. k - 1 < m - 1 BY <2>1
      <4> QED BY <1>10, <3>3, <4>1, <4>2
    <3> QED BY <1>13, <3>1, <3>2, <3>3
  <2>2. ASSUME NEW k \in 1 .. N + 1 PROVE Low(t, e) < xk[k] /\ xk[k] < High(t, e)
    BY <1>7, <1>10, <1>12, <1>13
  <2>3. Low(t, e) < High(t, e) BY <1>5 DEF KeysIn
  <2>4. Len(xk) # 0 BY <1>2, <1>7
  <2> QED BY <1>7, <2>1, <2>2, <2>3, <2>4 DEF KeysIn, KeysAscend, xk
\* Every place of the new children is one of the old children, or that of n.
<1>15. \A i \in 1 .. N + 2 :
         \/ i = j + 1
         \/ i <= j /\ i \in 1 .. N + 1 /\ xc[i] = dc[i]
         \/ i > j + 1 /\ i - 1 \in 1 .. N + 1 /\ i - 1 > j /\ xc[i] = dc[i - 1]
  <2> TAKE i \in 1 .. N + 2
  <2>1. CASE i <= j
    <3>1. i \in 1 .. N + 1 BY <1>2, <1>3, <2>1
    <3> QED BY <1>8, <2>1, <3>1
  <2>2. CASE i > j + 1
    <3>1. i - 1 \in 1 .. N + 1 /\ i - 1 > j /\ i - 1 + 1 = i BY <1>2, <1>3, <2>2
    <3>2. xc[i - 1 + 1] = dc[i - 1] BY <1>8, <3>1
    <3> QED BY <2>2, <3>1, <3>2
  <2> QED BY <1>2, <1>3, <2>1, <2>2
<1> DEFINE o(i) == IF i <= j THEN i ELSE i - 1
<1>16. \A i \in 1 .. N + 2 : i = j + 1 \/ (o(i) \in 1 .. N + 1 /\ xc[i] = dc[o(i)] /\ o(i) \in Kids(dir))
  BY <1>2, <1>3, <1>15 DEF Kids, N
<1>17. \A i, k \in 1 .. N + 2 : i # j + 1 /\ k # j + 1 /\ o(i) = o(k) => i = k BY <1>2, <1>3
<1>18. \A d \in InUseDirs(t) : \A i \in Kids(ds[d]) : ds[d].children[i] # n BY <1>1 DEF Pending
<1>19. \A i \in 1 .. N + 1 : dc[i] = b => i = j
  <2>1. \A i \in Kids(dir) : dc[i] = dc[j] => i = j BY <1>1 DEF OneParent, dir, dc
  <2> QED BY <2>1 DEF Kids, N, dc, dir
<1>20. ChildrenIn(X, t, 0, 0, e)
  <2> SUFFICES ASSUME NEW i \in 1 .. N + 2 PROVE ChildIn(xc[i], X, t, 0, 0, e, i)
    <3>1. Kids(X) = 1 .. N + 2 BY <1>2, <1>7 DEF Kids, xk
    <3> QED BY <3>1 DEF ChildrenIn, xc
  <2>0. \A k \in 1 .. N + 1 : ChildIn(dc[k], dir, t, b, n, e, k)
    BY <1>5 DEF ChildrenIn, Kids, N, dc
  <2>a. ChildIn(b, dir, t, b, n, e, j) BY <2>0, <1>3 DEF dir, dc
  <2>1. CASE i = j + 1
    <3>1. xc[i] = n BY <1>8, <2>1
    <3>2. n < 0 => t.level[-n] < t.level[e]
      <4> SUFFICES ASSUME n < 0 PROVE t.level[-n] < t.level[e] OBVIOUS
      <4>2. b < 0 => t.level[-b] < t.level[e] BY <2>a DEF ChildIn
      <4>3. b < 0 /\ t.level[-n] <= t.level[-b] BY <1>1 DEF Pending
      <4>4. t.level[-n] \in Int /\ t.level[-b] \in Int /\ t.level[e] \in Int
        <5>1. MaxDirs \in Nat BY TreeAssumption
        <5>2. t.dirs \in 1 .. MaxDirs BY <1>1 DEF Typed
        <5>3. b \in -(t.dirs - 1) .. t.leaves - 1 /\ t.leaves \in Int BY <1>1 DEF Pending, Typed
        <5>4. -n \in DirPages /\ -b \in DirPages
          BY <1>4, <4>3, <5>1, <5>2, <5>3 DEF DirPages
        <5> QED BY <1>1, <1>2, <5>4 DEF Typed
      <4> QED BY <4>2, <4>3, <4>4
    <3>3. t.lo[n] = Lower(X, t, e, i)
      <4>1. i # 1 /\ i - 1 = j BY <1>3, <2>1
      <4> QED BY <1>7, <4>1 DEF Lower, xk, K
    <3>4. t.hi[n] = Upper(X, t, e, i)
      <4>1. t.hi[n] = Upper(dir, t, e, j) BY <2>a DEF ChildIn, Seen
      <4>2. CASE j = N + 1 BY <1>2, <1>7, <2>1, <4>1, <4>2 DEF Upper, N, xk
      <4>3. CASE j # N + 1
        <5>1. j \in 1 .. N /\ j >= j /\ i # N + 1 + 1 BY <1>2, <1>3, <2>1, <4>3
        <5>2. xk[i] = dk[j] BY <1>7, <2>1, <5>1
        <5> QED BY <1>7, <4>1, <4>3, <5>1, <5>2 DEF Upper, N, xk, dk
      <4> QED BY <4>2, <4>3
    <3> QED BY <1>4, <3>1, <3>2, <3>3, <3>4 DEF ChildIn, Seen
  <2>2. CASE i <= j /\ i \in 1 .. N + 1 /\ xc[i] = dc[i]
    <3>1. ChildIn(dc[i], dir, t, b, n, e, i) BY <2>0, <2>2
    <3>2. Lower(X, t, e, i) = Lower(dir, t, e, i)
      <4>1. CASE i = 1 BY <4>1 DEF Lower
      <4>2. CASE i # 1
        <5>1. i - 1 \in 1 .. N /\ i - 1 < j BY <1>2, <1>3, <2>2, <4>2
        <5>2. xk[i - 1] = dk[i - 1] BY <1>7, <5>1
        <5> QED BY <4>2, <5>2 DEF Lower, xk, dk
      <4> QED BY <4>1, <4>2
    <3>3. t.hi[dc[i]] = Upper(X, t, e, i)
      <4>0. i # Len(xk) + 1 BY <1>2, <1>7, <2>2
      <4>1. CASE i = j
        <5>1. dc[i] = b BY <4>1 DEF dc, dir
        <5>2. t.hi[b] = K BY <1>1 DEF Pending, K
        <5> QED BY <1>7, <4>0, <4>1, <5>1, <5>2 DEF Upper, xk
      <4>2. CASE i # j
        <5>1. i \in 1 .. N /\ i < j /\ i # N + 1 BY <1>2, <1>3, <2>2, <4>2
        <5>2. dc[i] # b BY <1>19, <2>2, <4>2
        <5>3. t.hi[dc[i]] = Upper(dir, t, e, i) BY <3>1, <5>2 DEF ChildIn, Seen
        <5>4. xk[i] = dk[i] BY <1>7, <5>1
        <5> QED BY <4>0, <5>1, <5>3, <5>4 DEF Upper, N, xk, dk
      <4> QED BY <4>1, <4>2
    <3> QED BY <2>2, <3>1, <3>2, <3>3 DEF ChildIn, Seen
  <2>3. CASE i > j + 1 /\ i - 1 \in 1 .. N + 1 /\ i - 1 > j /\ xc[i] = dc[i - 1]
    <3> DEFINE k == i - 1
    <3>a. k \in 1 .. N + 1 /\ k > j /\ xc[i] = dc[k] BY <2>3
    <3>b. i \in Int /\ i = k + 1 BY <1>2
    <3> HIDE DEF k
    <3>c. k - 1 \in 1 .. N /\ k - 1 >= j /\ k - 1 + 1 = k BY <1>2, <1>3, <3>a
    <3>0. /\ k \in 1 .. N + 1 /\ k > j /\ xc[i] = dc[k] /\ i = k + 1
          /\ k - 1 \in 1 .. N /\ k - 1 >= j /\ k - 1 + 1 = k
      BY <3>a, <3>b, <3>c
    <3>1. ChildIn(dc[k], dir, t, b, n, e, k) BY <2>0, <3>0
    <3>2. Lower(X, t, e, i) = Lower(dir, t, e, k)
      <4>1. xk[k - 1 + 1] = dk[k - 1] BY <1>7, <3>0
      <4>2. i # 1 /\ k # 1 /\ i - 1 = k BY <1>3, <3>0
      <4> QED BY <3>0, <4>1, <4>2 DEF Lower, xk, dk
    <3>3. t.hi[dc[k]] = Upper(X, t, e, i)
      <4>1. dc[k] # b BY <1>3, <1>19, <3>0
      <4>2. t.hi[dc[k]] = Upper(dir, t, e, k) BY <3>1, <4>1 DEF ChildIn, Seen
      <4>3. CASE k = N + 1 BY <1>2, <1>7, <3>0, <4>2, <4>3 DEF Upper, N, xk
      <4>4. CASE k # N + 1
        <5>1. k \in 1 .. N /\ k >= j /\ i # N + 1 + 1 BY <1>2, <1>3, <3>0, <4>4
        <5>2. xk[i] = dk[k] BY <1>7, <3>0, <5>1
        <5> QED BY <1>7, <4>2, <4>4, <5>1, <5>2 DEF Upper, N, xk, dk
      <4> QED BY <4>3, <4>4
    <3> QED BY <3>0, <3>1, <3>2, <3>3 DEF ChildIn, Seen
  <2> QED BY <1>15, <2>1, <2>2, <2>3
<1>21. DOMAIN D = DirPages /\ D[e] = X /\ \A d \in InUseDirs(t) : d # e => D[d] = ds[d]
  <2>1. DOMAIN ds = DirPages BY <1>1 DEF Typed
  <2>2. \A d \in InUseDirs(t) : d \in DirPages BY <1>1, DirFacts
  <2> QED BY <1>2, <2>1, <2>2
<1>22. Typed(D, t)
  <2>1. \A d \in DirPages : d # e => D[d] = ds[d] BY <1>1 DEF Typed
  <2>2. e < t.dirs
    <3>1. t.dirs \in Int BY <1>1 DEF Typed
    <3> QED BY <3>1 DEF InUseDirs
  <2>3. \A d \in DirPages : d >= t.dirs => d # e
    <3>1. t.dirs \in Int BY <1>1 DEF Typed
    <3> QED BY <2>2, <3>1 DEF DirPages, InUseDirs
  <2> HIDE DEF D
  <2> QED BY <1>1, <1>21, <2>1, <2>3 DEF Typed
<1>23. \A d \in InUseDirs(t) : KeysIn(D[d], t, d) /\ ChildrenIn(D[d], t, 0, 0, d)
  <2> SUFFICES ASSUME NEW d \in InUseDirs(t), d # e
               PROVE  KeysIn(ds[d], t, d) /\ ChildrenIn(ds[d], t, 0, 0, d)
    BY <1>14, <1>20, <1>21
  <2>1. KeysIn(ds[d], t, d) /\ ChildrenIn(ds[d], t, b, n, d) BY DEF Tree
  <2>2. ASSUME NEW i \in Kids(ds[d]) PROVE ChildIn(ds[d].children[i], ds[d], t, 0, 0, d, i)
    <3>1. ds[d].children[i] # b BY <1>1 DEF OneParent
    <3>2. ChildIn(ds[d].children[i], ds[d], t, b, n, d, i) BY <2>1 DEF ChildrenIn
    <3> QED BY <3>1, <3>2 DEF ChildIn, Seen
  <2> QED BY <2>1, <2>2 DEF ChildrenIn
<1>24. OneParent(D, t)
  <2>1. Kids(X) = 1 .. N + 2 BY <1>2, <1>7 DEF Kids, xk
  <2>2. \A i \in Kids(X) : (i = j + 1 /\ X.children[i] = n)
                           \/ (i # j + 1 /\ o(i) \in Kids(dir) /\ X.children[i] = dir.children[o(i)])
    BY <1>8, <1>16, <2>1 DEF xc, dc
  <2> HIDE DEF D, o
  <2>3. ASSUME NEW d \in InUseDirs(t), NEW c \in InUseDirs(t), NEW i \in Kids(D[d]), NEW k \in Kids(D[c]),
               D[d].children[i] = D[c].children[k]
        PROVE  d = c /\ i = k
    <3>1. CASE d # e /\ c # e BY <1>1, <1>21, <2>3, <3>1 DEF OneParent
    <3>2. CASE d = e /\ c = e
      <4>1. i \in Kids(X) /\ k \in Kids(X) /\ X.children[i] = X.children[k] BY <1>21, <2>3, <3>2
      <4>2. (i = j + 1) <=> (k = j + 1) BY <1>18, <2>2, <4>1 DEF dir
      <4>3. i # j + 1 /\ k # j + 1 => o(i) = o(k) BY <1>1, <2>2, <4>1 DEF OneParent, dir
      <4>4. i # j + 1 /\ k # j + 1 => i = k BY <1>17, <2>1, <4>1, <4>3
      <4> QED BY <3>2, <4>2, <4>4
    <3>3. CASE d = e /\ c # e
      <4>1. i \in Kids(X) /\ k \in Kids(ds[c]) /\ X.children[i] = ds[c].children[k]
        BY <1>21, <2>3, <3>3
      <4>2. i # j + 1 BY <1>18, <2>2, <4>1
      <4> QED BY <1>1, <2>2, <3>3, <4>1, <4>2 DEF OneParent, dir
    <3>4. CASE d # e /\ c = e
      <4>1. k \in Kids(X) /\ i \in Kids(ds[d]) /\ X.children[k] = ds[d].children[i]
        BY <1>21, <2>3, <3>4
      <4>2. k # j + 1 BY <1>18, <2>2, <4>1
      <4> QED BY <1>1, <2>2, <3>4, <4>1, <4>2 DEF OneParent, dir
    <3> QED BY <3>1, <3>2, <3>3, <3>4
  <2> QED BY <2>3 DEF OneParent
<1>25. Pending(D, t, 0, 0) BY DEF Pending
<1> QED BY <1>22, <1>23, <1>24, <1>25 DEF Whole, Tree

\* q is the part of s that follows the first k and has m members.
IsPart(q, s, k, m) ==
  /\ q \in Seq(Int) /\ Len(q) = m
  /\ \A i \in 1 .. m : q[i] = s[k + i]

\* What SubSeq does to a sequence.
LEMMA Part ==
  ASSUME NEW s \in Seq(Int), NEW k \in 0 .. Len(s), NEW m \in Nat, k + m <= Len(s)
  PROVE  IsPart(SubSeq(s, k + 1, k + m), s, k, m)
<1> DEFINE q == SubSeq(s, k + 1, k + m)
<1>1. q \in Seq(Int) /\ Len(q) = m OBVIOUS
<1>2. ASSUME NEW i \in 1 .. m PROVE q[i] = s[k + i]
  <2>1. q[i] = s[(k + 1) + i - 1] OBVIOUS
  <2>2. (k + 1) + i - 1 = k + i OBVIOUS
  <2> QED BY <2>1, <2>2
<1> QED BY <1>1, <1>2 DEF IsPart

\* The directory e becomes two: it keeps m keys, the next one goes to the parent and
\* the others to the new page t.dirs.
IsHalves(left, right, dir, m) ==
  /\ IsDir(left) /\ IsPart(left.keys, dir.keys, 0, m) /\ IsPart(left.children, dir.children, 0, m + 1)
  /\ IsDir(right) /\ IsPart(right.keys, dir.keys, m + 1, Len(dir.keys) - m - 1)
  /\ IsPart(right.children, dir.children, m + 1, Len(dir.keys) - m)

AfterSplit(t, e, K) ==
  [dirs |-> t.dirs + 1, leaves |-> t.leaves,
   lo |-> [t.lo EXCEPT ![-t.dirs] = K],
   hi |-> [t.hi EXCEPT ![-t.dirs] = t.hi[-e], ![-e] = K],
   level |-> [t.level EXCEPT ![t.dirs] = t.level[e]]]

LEMMA DirSplit ==
  ASSUME NEW ds, NEW t, Whole(ds, t), NEW e \in InUseDirs(t), e # 0, t.dirs < MaxDirs,
         NEW m \in 1 .. Len(ds[e].keys) - 1, m + 1 = Len(ds[e].keys) => High(t, e) = Top,
         NEW left, NEW right, IsHalves(left, right, ds[e], m),
         NEW D, DOMAIN D = DirPages, D[e] = left, D[t.dirs] = right,
         \A d \in DirPages : d # e /\ d # t.dirs => D[d] = ds[d]
  PROVE  Tree(D, AfterSplit(t, e, ds[e].keys[m + 1]), -e, -t.dirs)
<1> DEFINE dir == ds[e]
           dk == dir.keys
           dc == dir.children
           N == Len(dk)
           K == dk[m + 1]
           T == AfterSplit(t, e, K)
           nd == t.dirs
<1>1. Typed(ds, t) /\ OneParent(ds, t) BY DEF Tree, Whole
<1>2. /\ e \in DirPages /\ dk \in Seq(Int) /\ dc \in Seq(Int)
      /\ N \in Nat /\ Len(dc) = N + 1
      /\ Low(t, e) \in Int /\ High(t, e) \in Int
  BY <1>1, DirFacts
<1>3. MaxDirs \in Nat /\ MaxLeaves \in Nat /\ nd \in 1 .. MaxDirs - 1 /\ t.leaves \in 1 .. MaxLeaves
  BY <1>1, TreeAssumption DEF Typed
<1>4. e \in 1 .. nd - 1 /\ e # nd /\ nd \in DirPages /\ nd # 0 /\ -nd \in Refs /\ -e \in Refs /\ -nd # -e
  <2>1. e \in 1 .. nd - 1 /\ nd \in DirPages BY <1>3 DEF InUseDirs, DirPages
  <2>2. e \in 0 .. MaxDirs /\ nd \in 0 .. MaxDirs /\ e < nd /\ nd # 0 BY <1>3, <2>1
  <2>3. -nd \in Refs /\ -e \in Refs /\ nd \in Int /\ e \in Int BY <2>2, NegRefs
  <2>4. e # nd /\ -nd # -e BY <2>2, <2>3
  <2> QED BY <2>1, <2>2, <2>3, <2>4
<1>5. m \in 1 .. N - 1 /\ m + 1 \in 1 .. N /\ m \in Nat BY <1>2
<1>6. \A k \in 1 .. N : dk[k] \in Int BY <1>2
<1>7. K \in Int BY <1>5, <1>6
<1>8. KeysIn(dir, t, e) /\ ChildrenIn(dir, t, 0, 0, e) BY DEF Tree, Whole
<1>9. /\ \A k \in 1 .. N : Low(t, e) < dk[k] /\ dk[k] < High(t, e)
      /\ \A k, l \in 1 .. N : k < l => dk[k] < dk[l]
  BY <1>8 DEF KeysIn, KeysAscend
<1>10. /\ T.dirs = nd + 1 /\ T.leaves = t.leaves
       /\ T.lo = [t.lo EXCEPT ![-nd] = K]
       /\ T.hi = [t.hi EXCEPT ![-nd] = t.hi[-e], ![-e] = K]
       /\ T.level = [t.level EXCEPT ![nd] = t.level[e]]
  BY DEF AfterSplit
<1>11. t.lo \in [Refs -> Int] /\ t.hi \in [Refs -> Int] /\ t.level \in [DirPages -> Nat]
  BY <1>1 DEF Typed
<1> HIDE DEF T, K
<1>12. /\ T.lo \in [Refs -> Int] /\ T.hi \in [Refs -> Int] /\ T.level \in [DirPages -> Nat]
       /\ T.lo[-nd] = K /\ T.hi[-nd] = t.hi[-e] /\ T.hi[-e] = K /\ T.level[nd] = t.level[e]
       /\ \A c \in Refs : c # -nd => T.lo[c] = t.lo[c]
       /\ \A c \in Refs : c # -nd /\ c # -e => T.hi[c] = t.hi[c]
       /\ \A d \in DirPages : d # nd => T.level[d] = t.level[d]
  <2> DEFINE x == -nd
             y == -e
  <2>0. x \in Refs /\ y \in Refs /\ x # y /\ nd \in DirPages BY <1>4
  <2>1. /\ T.lo = [t.lo EXCEPT ![x] = K]
        /\ T.hi = [t.hi EXCEPT ![x] = t.hi[y], ![y] = K]
        /\ T.level = [t.level EXCEPT ![nd] = t.level[e]]
    BY <1>10
  <2> HIDE DEF x, y
  <2>2. T.lo \in [Refs -> Int] /\ T.lo[x] = K /\ \A c \in Refs : c # x => T.lo[c] = t.lo[c]
    BY <1>7, <1>11, <2>0, <2>1
  <2>3. /\ T.hi \in [Refs -> Int] /\ T.hi[x] = t.hi[y] /\ T.hi[y] = K
        /\ \A c \in Refs : c # x /\ c # y => T.hi[c] = t.hi[c]
    BY <1>7, <1>11, <2>0, <2>1
  <2>4. /\ T.level \in [DirPages -> Nat] /\ T.level[nd] = t.level[e]
        /\ \A d \in DirPages : d # nd => T.level[d] = t.level[d]
    BY <1>2, <1>11, <2>0, <2>1
  <2> QED BY <2>2, <2>3, <2>4 DEF x, y
<1>13. \A c \in -(nd - 1) .. t.leaves - 1 :
         /\ c \in Refs /\ c # -nd /\ c \in -(T.dirs - 1) .. T.leaves - 1
         /\ T.lo[c] = t.lo[c] /\ Seen(T, c, -e, -nd) = t.hi[c]
         /\ c < 0 => -c \in DirPages /\ T.level[-c] = t.level[-c]
  <2> TAKE c \in -(nd - 1) .. t.leaves - 1
  <2>a. nd - 1 \in 0 .. MaxDirs /\ t.leaves \in 0 .. MaxLeaves BY <1>3, SMTT(30)
  <2>b. c \in Refs /\ c \in Int BY <2>a, InRefs
  <2>1. c \in Refs /\ c # -nd /\ c \in Int BY <1>3, <2>b
  <2>2. c \in -(T.dirs - 1) .. T.leaves - 1 BY <1>3, <1>10
  <2>3. c < 0 => -c \in DirPages /\ -c # nd BY <1>3, <2>1 DEF DirPages
  <2>4. Seen(T, c, -e, -nd) = t.hi[c] BY <1>12, <2>1 DEF Seen
  <2> QED BY <1>12, <2>1, <2>2, <2>3, <2>4
<1>14. \A d \in InUseDirs(t) :
         /\ d \in DirPages /\ d # nd /\ Low(T, d) = Low(t, d)
         /\ (d # e => High(T, d) = High(t, d)) /\ T.level[d] = t.level[d]
  <2> TAKE d \in InUseDirs(t)
  <2>1. d \in DirPages /\ d \in Int /\ -d \in Refs /\ d # nd /\ -d # -nd /\ (d # e => -d # -e)
    BY <1>3, <1>4, SMTT(30) DEF InUseDirs, DirPages, Refs
  <2> QED BY <1>12, <2>1 DEF Low, High
<1>15. High(T, e) = K /\ Low(T, nd) = K /\ High(T, nd) = High(t, e)
  BY <1>4, <1>12 DEF Low, High
<1> HIDE DEF N
<1>16. \A k \in 1 .. m : k \in 1 .. N /\ left.keys[k] = dk[k]
  <2>1. \A k \in 1 .. m : left.keys[k] = dk[0 + k] BY DEF IsHalves, IsPart
  <2>2. m \in Int /\ m <= N BY <1>2, <1>5, HalfSizes, Zenon
  <2>3. \A k \in 1 .. m : 0 + k = k /\ k \in 1 .. N BY <1>2, <2>2, FirstPart
  <2> QED BY <2>1, <2>3
<1>17. \A k \in 1 .. N - m - 1 : m + 1 + k \in 1 .. N /\ right.keys[k] = dk[m + 1 + k]
  <2>0. m + 1 \in Nat /\ N - (m + 1) = N - m - 1 BY <1>2, <1>5, HalfSizes, Zenon
  <2>1. \A k \in 1 .. N - m - 1 : m + 1 + k \in 1 .. N BY <1>2, <2>0, LastPart
  <2> QED BY <2>1 DEF IsHalves, IsPart, N
<1>18. \A i \in 1 .. m + 1 : i \in 1 .. N + 1 /\ left.children[i] = dc[i]
  <2>a. IsPart(left.children, dc, 0, m + 1) BY Zenon DEF IsHalves, dc, dir
  <2>1. \A i \in 1 .. m + 1 : left.children[i] = dc[0 + i] BY <2>a DEF IsPart
  <2>2. \A i \in 1 .. m + 1 : i \in 1 .. N + 1 BY <1>2, <1>5
  <2>3. \A i \in 1 .. m + 1 : 0 + i = i BY <1>5
  <2> QED BY <2>1, <2>2, <2>3
<1>19. \A i \in 1 .. N - m : m + 1 + i \in 1 .. N + 1 /\ right.children[i] = dc[m + 1 + i]
  <2>0. m + 1 \in Nat /\ N + 1 \in Nat /\ (N + 1) - (m + 1) = N - m
    BY <1>2, <1>5, HalfSizes, Zenon
  <2>1. \A i \in 1 .. N - m : m + 1 + i \in 1 .. N + 1 BY <2>0, LastPart
  <2> QED BY <2>1 DEF IsHalves, IsPart, N
<1>20. Len(left.keys) = m /\ Len(right.keys) = N - m - 1 /\ IsDir(left) /\ IsDir(right)
  BY DEF IsHalves, IsPart, N
<1>21. Kids(left) = 1 .. m + 1 /\ Kids(right) = 1 .. N - m /\ Kids(dir) = 1 .. N + 1
  <2>1. N - m - 1 + 1 = N - m BY <1>2, <1>5
  <2> QED BY <1>20, <2>1 DEF Kids, N
<1>22. Low(t, e) < K /\ K < High(t, e) BY <1>5, <1>9 DEF K
<1> HIDE DEF dk, dc, dir, nd
<1>23. KeysIn(left, T, e)
  <2>1. \A k, l \in 1 .. m : k < l => left.keys[k] < left.keys[l] BY <1>9, <1>16
  <2>2. \A k \in 1 .. m : Low(t, e) < left.keys[k] /\ left.keys[k] < K
    <3> TAKE k \in 1 .. m
    <3>1. k \in 1 .. N /\ m + 1 \in 1 .. N /\ k < m + 1 BY <1>5, <1>16
    <3> QED BY <1>9, <1>16, <3>1 DEF K
  <2>3. Low(T, e) = Low(t, e) BY <1>14
  <2> QED BY <1>5, <1>15, <1>20, <1>22, <2>1, <2>2, <2>3, SMTT(30) DEF KeysIn, KeysAscend
<1>24. KeysIn(right, T, nd)
  <2>1. ASSUME NEW k \in 1 .. N - m - 1, NEW l \in 1 .. N - m - 1, k < l
        PROVE  right.keys[k] < right.keys[l]
    <3>1. m + 1 + k < m + 1 + l BY <1>5, <2>1
    <3> QED BY <1>9, <1>17, <2>1, <3>1
  <2>2. ASSUME NEW k \in 1 .. N - m - 1 PROVE K < right.keys[k] /\ right.keys[k] < High(t, e)
    <3>1. m + 1 \in 1 .. N /\ m + 1 < m + 1 + k BY <1>5
    <3> QED BY <1>9, <1>17, <3>1 DEF K
  <2>3. N - m - 1 = 0 => High(t, e) = Top
    <3>1. N - m - 1 = 0 => m + 1 = N BY <1>2, <1>5
    <3> QED BY <3>1 DEF N, dk, dir
  <2> QED BY <1>15, <1>20, <1>22, <2>1, <2>2, <2>3 DEF KeysIn, KeysAscend
<1>25. \A i \in 1 .. N + 1 : ChildIn(dc[i], dir, t, 0, 0, e, i) BY <1>8, <1>21 DEF ChildrenIn, dc
<1>26. \A i \in 1 .. N + 1 : /\ dc[i] \in -(nd - 1) .. t.leaves - 1
                             /\ dc[i] < 0 => t.level[-dc[i]] < t.level[e]
                             /\ t.lo[dc[i]] = Lower(dir, t, e, i)
                             /\ t.hi[dc[i]] = Upper(dir, t, e, i)
  BY <1>25 DEF ChildIn, Seen, nd
<1>27. ChildrenIn(left, T, -e, -nd, e)
  <2> SUFFICES ASSUME NEW i \in 1 .. m + 1 PROVE ChildIn(left.children[i], left, T, -e, -nd, e, i)
    BY <1>21 DEF ChildrenIn
  <2>1. i \in 1 .. N + 1 /\ left.children[i] = dc[i] BY <1>18
  <2>2. Lower(left, T, e, i) = Lower(dir, t, e, i)
    <3>1. CASE i = 1 BY <1>14, <3>1 DEF Lower
    <3>2. CASE i # 1
      <4>1. i - 1 \in 1 .. m BY <1>5, <3>2
      <4>2. left.keys[i - 1] = dk[i - 1] BY <1>16, <4>1
      <4> QED BY <3>2, <4>2 DEF Lower, dk
    <3> QED BY <3>1, <3>2
  <2>3. Upper(left, T, e, i) = Upper(dir, t, e, i)
    <3>0. i # N + 1 BY <1>2, <1>5
    <3>1. CASE i = m + 1 BY <1>15, <1>20, <3>0, <3>1 DEF Upper, K, N, dk
    <3>2. CASE i # m + 1
      <4>1. i \in 1 .. m BY <1>5, <3>2
      <4>2. left.keys[i] = dk[i] BY <1>16, <4>1
      <4> QED BY <1>20, <3>0, <3>2, <4>2 DEF Upper, N, dk
    <3> QED BY <3>1, <3>2
  <2>4. T.level[e] = t.level[e] BY <1>14
  <2> QED BY <1>13, <1>26, <2>1, <2>2, <2>3, <2>4 DEF ChildIn
<1>28. ChildrenIn(right, T, -e, -nd, nd)
  <2> SUFFICES ASSUME NEW i \in 1 .. N - m PROVE ChildIn(right.children[i], right, T, -e, -nd, nd, i)
    BY <1>21 DEF ChildrenIn
  <2> DEFINE k == m + 1 + i
  <2>1. k \in 1 .. N + 1 /\ right.children[i] = dc[k] BY <1>19
  <2>2. Lower(right, T, nd, i) = Lower(dir, t, e, k)
    <3>0. k # 1 /\ k - 1 = m + i BY <1>5
    <3>1. CASE i = 1 BY <1>5, <1>15, <3>0, <3>1 DEF Lower, K, dk
    <3>2. CASE i # 1
      <4>1. i - 1 \in 1 .. N - m - 1 /\ m + 1 + (i - 1) = m + i BY <1>2, <1>5, <3>2
      <4>2. right.keys[i - 1] = dk[m + 1 + (i - 1)] BY <1>17, <4>1
      <4>3. right.keys[i - 1] = dk[m + i] BY <4>1, <4>2
      <4> HIDE DEF k
      <4> QED BY <3>0, <3>2, <4>3 DEF Lower, dk
    <3> QED BY <3>1, <3>2
  <2>3. Upper(right, T, nd, i) = Upper(dir, t, e, k)
    <3>1. CASE i = N - m
      <4>1. k = N + 1 /\ i = Len(right.keys) + 1 BY <1>2, <1>5, <1>20, <3>1
      <4> HIDE DEF k
      <4> QED BY <1>15, <4>1 DEF Upper, N, dk
    <3>2. CASE i # N - m
      <4>1. i \in 1 .. N - m - 1 /\ k # N + 1 /\ i # Len(right.keys) + 1 BY <1>2, <1>5, <1>20, <3>2
      <4>2. right.keys[i] = dk[k] BY <1>17, <4>1
      <4> HIDE DEF k
      <4> QED BY <4>1, <4>2 DEF Upper, N, dk
    <3> QED BY <3>1, <3>2
  <2> HIDE DEF k
  <2>4. T.level[nd] = t.level[e] BY <1>12
  <2> QED BY <1>13, <1>26, <2>1, <2>2, <2>3, <2>4 DEF ChildIn
<1>29. DOMAIN D = DirPages /\ \A d \in InUseDirs(t) : d # e => D[d] = ds[d]
  BY <1>14 DEF nd
<1>30. InUseDirs(T) = InUseDirs(t) \cup {nd}
  <2>1. T.dirs - 1 = nd BY <1>3, <1>10
  <2> QED BY <1>3, <2>1 DEF InUseDirs, nd
<1>31. Typed(D, T)
  <2>1. T.dirs \in 1 .. MaxDirs /\ T.leaves \in 1 .. MaxLeaves BY <1>3, <1>10
  <2>2. ASSUME NEW d \in DirPages PROVE IsDir(D[d])
    <3>1. d # e /\ d # nd => D[d] = ds[d] BY DEF nd
    <3>2. IsDir(ds[d]) BY <1>1 DEF Typed
    <3> QED BY <1>20, <3>1, <3>2 DEF nd
  <2>3. ASSUME NEW d \in DirPages PROVE T.level[d] <= T.level[0]
    <3>1. 0 \in DirPages /\ 0 # nd BY <1>3, <1>4 DEF DirPages
    <3>2. t.level[d] <= t.level[0] /\ t.level[e] <= t.level[0] BY <1>1, <1>2 DEF Typed
    <3> QED BY <1>12, <3>1, <3>2
  <2>4. ASSUME NEW d \in DirPages, d >= T.dirs PROVE D[d] = NoDir
    <3>1. d # nd /\ d # e /\ d >= nd BY <1>3, <1>4, <1>10, <2>4 DEF DirPages
    <3>2. ds[d] = NoDir BY <1>1, <3>1 DEF Typed, nd
    <3> QED BY <3>1, <3>2 DEF nd
  <2> QED BY <1>12, <2>1, <2>2, <2>3, <2>4 DEF Typed
<1>32. ASSUME NEW d \in InUseDirs(t), d # e
       PROVE  KeysIn(D[d], T, d) /\ ChildrenIn(D[d], T, -e, -nd, d)
  <2>1. D[d] = ds[d] /\ KeysIn(ds[d], t, d) /\ ChildrenIn(ds[d], t, 0, 0, d)
    BY <1>29, <1>32 DEF Tree, Whole
  <2>2. Low(T, d) = Low(t, d) /\ High(T, d) = High(t, d) /\ T.level[d] = t.level[d] BY <1>14, <1>32
  <2>3. KeysIn(ds[d], T, d) BY <2>1, <2>2 DEF KeysIn
  <2>4. ASSUME NEW i \in Kids(ds[d]) PROVE ChildIn(ds[d].children[i], ds[d], T, -e, -nd, d, i)
    <3> DEFINE c == ds[d].children[i]
    <3>1. ChildIn(c, ds[d], t, 0, 0, d, i) BY <2>1 DEF ChildrenIn
    <3> HIDE DEF c
    <3>2. /\ c \in -(nd - 1) .. t.leaves - 1 /\ t.lo[c] = Lower(ds[d], t, d, i)
          /\ t.hi[c] = Upper(ds[d], t, d, i) /\ (c < 0 => t.level[-c] < t.level[d])
      BY <3>1 DEF ChildIn, Seen, nd
    <3>3. Lower(ds[d], T, d, i) = Lower(ds[d], t, d, i) /\ Upper(ds[d], T, d, i) = Upper(ds[d], t, d, i)
      BY <2>2 DEF Lower, Upper
    <3>4. ChildIn(c, ds[d], T, -e, -nd, d, i) BY <1>13, <2>2, <3>2, <3>3 DEF ChildIn
    <3> QED BY <3>4 DEF c
  <2> QED BY <2>1, <2>3, <2>4 DEF ChildrenIn
<1>33. \A d \in InUseDirs(T) : KeysIn(D[d], T, d) /\ ChildrenIn(D[d], T, -e, -nd, d)
  BY <1>23, <1>24, <1>27, <1>28, <1>30, <1>32 DEF nd
\* Every child was one before.
<1> DEFINE od(d) == IF d = nd THEN e ELSE d
           oi(d, i) == IF d = nd THEN m + 1 + i ELSE i
<1>34. \A d \in InUseDirs(T) : \A i \in Kids(D[d]) :
         /\ od(d) \in InUseDirs(t) /\ oi(d, i) \in Kids(ds[od(d)])
         /\ D[d].children[i] = ds[od(d)].children[oi(d, i)]
  <2> TAKE d \in InUseDirs(T)
  <2> TAKE i \in Kids(D[d])
  <2>1. CASE d = nd BY <1>4, <1>19, <1>21, <2>1 DEF nd, dir, dc
  <2>2. CASE d = e BY <1>4, <1>18, <1>21, <2>2 DEF nd, dir, dc
  <2>3. CASE d # nd /\ d # e BY <1>29, <1>30, <2>3
  <2> QED BY <2>1, <2>2, <2>3
<1>35. ASSUME NEW d \in InUseDirs(T), NEW c \in InUseDirs(T), NEW i \in Kids(D[d]), NEW k \in Kids(D[c]),
              D[d].children[i] = D[c].children[k]
       PROVE  d = c /\ i = k
  <2>1. od(d) = od(c) /\ oi(d, i) = oi(c, k)
    <3> HIDE DEF od, oi
    <3> QED BY <1>1, <1>34, <1>35 DEF OneParent
  <2>2. i \in Int /\ k \in Int BY DEF Kids
  <2>3. CASE d = c BY <1>5, <2>1, <2>2, <2>3
  <2>4. CASE d = nd /\ c = e
    <3>1. i \in 1 .. N - m /\ k \in 1 .. m + 1 BY <1>21, <2>4 DEF nd
    <3> QED BY <1>4, <1>5, <2>1, <2>4, <3>1
  <2>5. CASE d = e /\ c = nd
    <3>1. k \in 1 .. N - m /\ i \in 1 .. m + 1 BY <1>21, <2>5 DEF nd
    <3> QED BY <1>4, <1>5, <2>1, <2>5, <3>1
  <2> QED BY <2>1, <2>3, <2>4, <2>5
<1>36. OneParent(D, T) BY <1>35 DEF OneParent
<1>37. Pending(D, T, -e, -nd)
  <2>a. T.dirs - 1 = nd /\ T.leaves = t.leaves BY <1>3, <1>10
  <2>b. -e \in -nd .. t.leaves - 1 /\ -nd \in -nd .. t.leaves - 1 /\ -nd # 0 BY <1>3, <1>4
  <2>1. -e \in -(T.dirs - 1) .. T.leaves - 1 /\ -nd \in -(T.dirs - 1) .. T.leaves - 1 /\ -nd # 0
    BY <2>a, <2>b
  <2>2. T.hi[-e] = T.lo[-nd] /\ T.lo[-e] < T.lo[-nd] /\ T.lo[-nd] < T.hi[-nd]
    <3>1. T.lo[-e] = Low(t, e) /\ T.hi[-nd] = High(t, e) BY <1>4, <1>12 DEF Low, High
    <3> QED BY <1>12, <1>22, <3>1
  <2>3. -e < 0 /\ T.level[-(-nd)] <= T.level[-(-e)]
    <3>1. -(-nd) = nd /\ -(-e) = e /\ -e < 0 BY <1>3, <1>4
    <3>2. T.level[nd] = T.level[e] /\ T.level[e] \in Nat BY <1>2, <1>4, <1>12
    <3> QED BY <3>1, <3>2
  <2>4. ASSUME NEW d \in InUseDirs(T), NEW i \in Kids(D[d]) PROVE D[d].children[i] # -nd
    <3> HIDE DEF od, oi
    <3> DEFINE c == ds[od(d)].children[oi(d, i)]
    <3>1. ChildIn(c, ds[od(d)], t, 0, 0, od(d), oi(d, i)) BY <1>34 DEF Whole, Tree, ChildrenIn
    <3>2. c \in -(nd - 1) .. t.leaves - 1 BY <3>1 DEF ChildIn, nd
    <3>3. c = D[d].children[i] BY <1>34
    <3> QED BY <1>13, <3>2, <3>3
  <2> QED BY <2>1, <2>2, <2>3, <2>4 DEF Pending
<1> QED BY <1>31, <1>33, <1>36, <1>37 DEF Tree, T, K, nd, dk, dir

\* Before the root is split, what it has goes to a new page below it.
Pushed(t) ==
  [dirs |-> t.dirs + 1, leaves |-> t.leaves,
   lo |-> [t.lo EXCEPT ![-t.dirs] = 0],
   hi |-> [t.hi EXCEPT ![-t.dirs] = Top],
   level |-> [t.level EXCEPT ![t.dirs] = t.level[0], ![0] = t.level[0] + 1]]

LEMMA RootPushed ==
  ASSUME NEW ds, NEW t, Whole(ds, t), t.dirs < MaxDirs,
         NEW D, DOMAIN D = DirPages, D[0] = [keys |-> << >>, children |-> <<-t.dirs>>],
         D[t.dirs] = ds[0], \A d \in DirPages : d # 0 /\ d # t.dirs => D[d] = ds[d]
  PROVE  Whole(D, Pushed(t))
<1> DEFINE T == Pushed(t)
           nd == t.dirs
           root == D[0]
<1>1. Typed(ds, t) /\ OneParent(ds, t) BY DEF Tree, Whole
<1>2. /\ MaxDirs \in Nat /\ MaxLeaves \in Nat /\ nd \in 1 .. MaxDirs - 1 /\ t.leaves \in 1 .. MaxLeaves
      /\ Top \in Nat /\ 0 < Top
  BY <1>1, TreeAssumption DEF Typed, Top
<1>3. nd \in DirPages /\ 0 \in DirPages /\ nd # 0 /\ -nd \in Refs /\ nd \in Int /\ 0 \in InUseDirs(t)
  BY <1>2 DEF DirPages, Refs, InUseDirs
<1>4. /\ T.dirs = nd + 1 /\ T.leaves = t.leaves
      /\ T.lo = [t.lo EXCEPT ![-nd] = 0] /\ T.hi = [t.hi EXCEPT ![-nd] = Top]
      /\ T.level = [t.level EXCEPT ![nd] = t.level[0], ![0] = t.level[0] + 1]
  BY DEF Pushed
<1>5. t.lo \in [Refs -> Int] /\ t.hi \in [Refs -> Int] /\ t.level \in [DirPages -> Nat]
  BY <1>1 DEF Typed
<1> HIDE DEF T
<1>6. /\ T.lo \in [Refs -> Int] /\ T.hi \in [Refs -> Int] /\ T.level \in [DirPages -> Nat]
      /\ T.lo[-nd] = 0 /\ T.hi[-nd] = Top
      /\ T.level[nd] = t.level[0] /\ T.level[0] = t.level[0] + 1
      /\ \A c \in Refs : c # -nd => T.lo[c] = t.lo[c] /\ T.hi[c] = t.hi[c]
      /\ \A d \in DirPages : d # nd /\ d # 0 => T.level[d] = t.level[d]
  <2> DEFINE x == -nd
  <2>0. x \in Refs BY <1>3
  <2>1. T.lo = [t.lo EXCEPT ![x] = 0] /\ T.hi = [t.hi EXCEPT ![x] = Top] BY <1>4
  <2> HIDE DEF x
  <2>2. T.lo \in [Refs -> Int] /\ T.lo[x] = 0 /\ \A c \in Refs : c # x => T.lo[c] = t.lo[c]
    BY <1>5, <2>0, <2>1
  <2>3. T.hi \in [Refs -> Int] /\ T.hi[x] = Top /\ \A c \in Refs : c # x => T.hi[c] = t.hi[c]
    BY <1>2, <1>5, <2>0, <2>1
  <2> DEFINE y == t.level[0]
             z == t.level[0] + 1
  <2>4. y \in Nat /\ z \in Nat BY <1>3, <1>5
  <2>a. T.level = [t.level EXCEPT ![nd] = y, ![0] = z] BY <1>4
  <2> HIDE DEF y, z
  <2>5. /\ T.level \in [DirPages -> Nat] /\ T.level[nd] = y /\ T.level[0] = z
        /\ \A d \in DirPages : d # nd /\ d # 0 => T.level[d] = t.level[d]
    BY <1>3, <1>5, <2>4, <2>a
  <2> QED BY <2>2, <2>3, <2>5 DEF x, y, z
<1>7. \A c \in -(nd - 1) .. t.leaves - 1 :
        /\ c \in Refs /\ c # -nd /\ c \in -(T.dirs - 1) .. T.leaves - 1
        /\ T.lo[c] = t.lo[c] /\ T.hi[c] = t.hi[c]
        /\ c < 0 => -c \in DirPages /\ T.level[-c] = t.level[-c]
  <2> TAKE c \in -(nd - 1) .. t.leaves - 1
  <2>1. c \in Refs /\ c # -nd /\ c \in Int BY <1>2 DEF Refs
  <2>2. c \in -(T.dirs - 1) .. T.leaves - 1 BY <1>2, <1>4
  <2>3. c < 0 => -c \in DirPages /\ -c # nd /\ -c # 0 BY <1>2, <2>1 DEF DirPages
  <2> QED BY <1>6, <2>1, <2>2, <2>3
<1>8. InUseDirs(T) = InUseDirs(t) \cup {nd}
  <2>1. T.dirs - 1 = nd BY <1>2, <1>4
  <2> QED BY <1>2, <2>1 DEF InUseDirs, nd
<1>9. /\ IsDir(root) /\ Len(root.keys) = 0 /\ Kids(root) = {1}
      /\ root.keys = << >> /\ root.children[1] = -nd
  <2>1. root.keys = << >> /\ root.children = <<-nd>> /\ -nd \in Int BY <1>3
  <2>2. root.keys \in Seq(Int) /\ root.children \in Seq(Int) /\ Len(root.keys) = 0
        /\ Len(root.children) = 1 /\ root.children[1] = -nd
    BY <2>1
  <2>3. root \in [keys : Seq(Int), children : Seq(Int)] BY <2>2
  <2>4. 1 .. 0 + 1 = {1} OBVIOUS
  <2> QED BY <2>1, <2>2, <2>3, <2>4 DEF IsDir, Kids
<1> HIDE DEF root, nd
<1>10. ASSUME NEW d \in InUseDirs(t), NEW e, (e = d /\ d # 0) \/ (e = nd /\ d = 0)
       PROVE  /\ D[e] = ds[d] /\ KeysIn(D[e], T, e) /\ ChildrenIn(D[e], T, 0, 0, e)
  <2>a. d \in 0 .. nd - 1 BY DEF InUseDirs, nd
  <2>b. d \in DirPages /\ -d \in Refs /\ -d # -nd /\ d # nd BY <1>2, <2>a DEF DirPages, Refs
  <2>1. d \in DirPages /\ -d \in Refs /\ -d # -nd /\ d # nd /\ t.level[d] \in Nat BY <1>5, <2>b
  <2>2. D[e] = ds[d] BY <1>10, <2>1 DEF nd
  <2>3. Low(T, e) = Low(t, d) /\ High(T, e) = High(t, d) /\ T.level[e] = t.level[d]
    BY <1>3, <1>6, <1>10, <2>1 DEF Low, High
  <2>4. KeysIn(ds[d], t, d) /\ ChildrenIn(ds[d], t, 0, 0, d) BY DEF Tree, Whole
  <2>5. KeysIn(ds[d], T, e) BY <2>3, <2>4 DEF KeysIn
  <2>6. ASSUME NEW i \in Kids(ds[d]) PROVE ChildIn(ds[d].children[i], ds[d], T, 0, 0, e, i)
    <3> DEFINE c == ds[d].children[i]
    <3>1. ChildIn(c, ds[d], t, 0, 0, d, i) BY <2>4 DEF ChildrenIn
    <3> HIDE DEF c
    <3>2. /\ c \in -(nd - 1) .. t.leaves - 1 /\ t.lo[c] = Lower(ds[d], t, d, i)
          /\ t.hi[c] = Upper(ds[d], t, d, i) /\ (c < 0 => t.level[-c] < t.level[d])
      BY <3>1 DEF ChildIn, Seen, nd
    <3>3. Lower(ds[d], T, e, i) = Lower(ds[d], t, d, i) /\ Upper(ds[d], T, e, i) = Upper(ds[d], t, d, i)
      BY <2>3 DEF Lower, Upper
    <3>4. ChildIn(c, ds[d], T, 0, 0, e, i) BY <1>7, <2>3, <3>2, <3>3 DEF ChildIn, Seen
    <3> QED BY <3>4 DEF c
  <2> QED BY <2>2, <2>5, <2>6 DEF ChildrenIn
<1>11. KeysIn(root, T, 0) BY <1>2, <1>9 DEF KeysIn, KeysAscend, Low, High
<1>12. ChildrenIn(root, T, 0, 0, 0)
  <2> SUFFICES ChildIn(-nd, root, T, 0, 0, 0, 1) BY <1>9 DEF ChildrenIn
  <2>1. -nd \in -(T.dirs - 1) .. T.leaves - 1 /\ -(-nd) = nd BY <1>2, <1>4
  <2>2. T.level[nd] < T.level[0] BY <1>3, <1>5, <1>6
  <2>3. Lower(root, T, 0, 1) = 0 /\ Upper(root, T, 0, 1) = Top
    BY <1>9 DEF Lower, Upper, Low, High
  <2>4. Seen(T, -nd, 0, 0) = Top BY <1>3, <1>6 DEF Seen
  <2> QED BY <1>6, <2>1, <2>2, <2>3, <2>4 DEF ChildIn
<1>13. \A d \in InUseDirs(T) : KeysIn(D[d], T, d) /\ ChildrenIn(D[d], T, 0, 0, d)
  <2> TAKE d \in InUseDirs(T)
  <2>1. CASE d = 0 BY <1>11, <1>12, <2>1 DEF root
  <2>2. CASE d = nd BY <1>3, <1>10, <2>2
  <2>3. CASE d # 0 /\ d # nd
    <3>1. d \in InUseDirs(t) BY <1>8, <2>3
    <3> QED BY <1>10, <2>3, <3>1
  <2> QED BY <2>1, <2>2, <2>3
<1>14. Typed(D, T)
  <2>1. T.dirs \in 1 .. MaxDirs /\ T.leaves \in 1 .. MaxLeaves BY <1>2, <1>4
  <2>2. ASSUME NEW d \in DirPages PROVE IsDir(D[d])
    <3>1. d # 0 /\ d # nd => D[d] = ds[d] BY DEF nd
    <3>2. IsDir(ds[d]) /\ IsDir(ds[0]) BY <1>1, <1>3 DEF Typed
    <3> QED BY <1>9, <3>1, <3>2 DEF nd, root
  <2>3. ASSUME NEW d \in DirPages PROVE T.level[d] <= T.level[0]
    <3>2. t.level[d] <= t.level[0] /\ t.level[d] \in Nat /\ t.level[0] \in Nat
      BY <1>1, <1>3 DEF Typed
    <3> QED BY <1>6, <3>2
  <2>4. ASSUME NEW d \in DirPages, d >= T.dirs PROVE D[d] = NoDir
    <3>1. d # nd /\ d # 0 /\ d >= nd BY <1>2, <1>4, <2>4 DEF DirPages
    <3>2. ds[d] = NoDir BY <1>1, <3>1 DEF Typed, nd
    <3> QED BY <3>1, <3>2 DEF nd
  <2> QED BY <1>6, <2>1, <2>2, <2>3, <2>4 DEF Typed
<1>15. OneParent(D, T)
  <2> DEFINE od(d) == IF d = nd THEN 0 ELSE d
  <2>1. \A d \in InUseDirs(T) : d # 0 => od(d) \in InUseDirs(t) /\ D[d] = ds[od(d)]
    <3> TAKE d \in InUseDirs(T)
    <3>1. CASE d = nd BY <1>3, <1>10, <3>1
    <3>2. CASE d # 0 /\ d # nd
      <4>1. d \in InUseDirs(t) BY <1>8, <3>2
      <4> QED BY <1>10, <3>2, <4>1
    <3> QED BY <3>1, <3>2
  <2>2. \A d, e \in InUseDirs(T) : d # 0 /\ e # 0 /\ od(d) = od(e) => d = e OBVIOUS
  <2> HIDE DEF od
  <2>3. ASSUME NEW d \in InUseDirs(T), d # 0, NEW i \in Kids(D[d]) PROVE D[d].children[i] # -nd
    <3> DEFINE c == D[d].children[i]
    <3>1. ChildIn(c, ds[od(d)], t, 0, 0, od(d), i) BY <2>1, <2>3 DEF Whole, Tree, ChildrenIn
    <3>2. c \in -(nd - 1) .. t.leaves - 1 BY <3>1 DEF ChildIn, nd
    <3> QED BY <1>7, <3>2
  <2>4. ASSUME NEW d \in InUseDirs(T), NEW e \in InUseDirs(T), NEW i \in Kids(D[d]), NEW j \in Kids(D[e]),
               D[d].children[i] = D[e].children[j]
        PROVE  d = e /\ i = j
    <3>1. CASE d = 0 /\ e = 0 BY <1>9, <3>1 DEF root
    <3>2. CASE d = 0 /\ e # 0 BY <1>9, <2>3, <2>4, <3>2 DEF root
    <3>3. CASE d # 0 /\ e = 0 BY <1>9, <2>3, <2>4, <3>3 DEF root
    <3>4. CASE d # 0 /\ e # 0
      <4>1. od(d) = od(e) /\ i = j BY <1>1, <2>1, <2>4, <3>4 DEF OneParent
      <4> QED BY <2>2, <3>4, <4>1
    <3> QED BY <3>1, <3>2, <3>3, <3>4
  <2> QED BY <2>4 DEF OneParent
<1>16. Pending(D, T, 0, 0) BY DEF Pending
<1> QED BY <1>13, <1>14, <1>15, <1>16 DEF Whole, Tree, T

\* The leaf b is split at K: the records from K on go to the new page t.leaves.
AfterLeaf(t, b, K) ==
  [dirs |-> t.dirs, leaves |-> t.leaves + 1,
   lo |-> [t.lo EXCEPT ![t.leaves] = K],
   hi |-> [t.hi EXCEPT ![t.leaves] = t.hi[b], ![b] = K],
   level |-> t.level]

LEMMA LeafFacts ==
  ASSUME NEW ds, NEW t, Typed(ds, t), t.leaves < MaxLeaves, NEW b \in 0 .. t.leaves - 1, NEW K \in Int
  PROVE  LET T == AfterLeaf(t, b, K)
             n == t.leaves IN
         /\ n \in Refs /\ b \in Refs /\ n # b /\ n # 0
         /\ T.dirs = t.dirs /\ T.leaves = n + 1 /\ T.level = t.level
         /\ T.lo \in [Refs -> Int] /\ T.hi \in [Refs -> Int]
         /\ T.lo[n] = K /\ T.hi[n] = t.hi[b] /\ T.hi[b] = K
         /\ \A c \in Refs : c # n => T.lo[c] = t.lo[c]
         /\ \A c \in Refs : c # n /\ c # b => T.hi[c] = t.hi[c]
<1> DEFINE T == AfterLeaf(t, b, K)
           n == t.leaves
<1>1. MaxDirs \in Nat /\ MaxLeaves \in Nat /\ n \in 1 .. MaxLeaves - 1 BY TreeAssumption DEF Typed
<1>2. n \in Refs /\ b \in Refs /\ n # b /\ n # 0 BY <1>1 DEF Refs
<1>3. t.lo \in [Refs -> Int] /\ t.hi \in [Refs -> Int] BY DEF Typed
<1>4. /\ T.dirs = t.dirs /\ T.leaves = n + 1 /\ T.level = t.level
      /\ T.lo = [t.lo EXCEPT ![n] = K] /\ T.hi = [t.hi EXCEPT ![n] = t.hi[b], ![b] = K]
  BY DEF AfterLeaf
<1> HIDE DEF T, n
<1>5. T.lo \in [Refs -> Int] /\ T.lo[n] = K /\ \A c \in Refs : c # n => T.lo[c] = t.lo[c]
  BY <1>2, <1>3, <1>4
<1>6. /\ T.hi \in [Refs -> Int] /\ T.hi[n] = t.hi[b] /\ T.hi[b] = K
      /\ \A c \in Refs : c # n /\ c # b => T.hi[c] = t.hi[c]
  BY <1>2, <1>3, <1>4
<1> QED BY <1>2, <1>4, <1>5, <1>6 DEF T, n

LEMMA LeafAdded ==
  ASSUME NEW ds, NEW t, Whole(ds, t), t.leaves < MaxLeaves,
         NEW b \in 0 .. t.leaves - 1, NEW K \in Int, t.lo[b] < K, K < t.hi[b]
  PROVE  Tree(ds, AfterLeaf(t, b, K), b, t.leaves)
<1> DEFINE T == AfterLeaf(t, b, K)
           n == t.leaves
<1>1. Typed(ds, t) /\ OneParent(ds, t) BY DEF Tree, Whole
<1>2. /\ MaxDirs \in Nat /\ MaxLeaves \in Nat /\ n \in 1 .. MaxLeaves - 1 /\ t.dirs \in 1 .. MaxDirs
  BY <1>1, TreeAssumption DEF Typed
<1>3. /\ n \in Refs /\ b \in Refs /\ n # b /\ n # 0
      /\ T.dirs = t.dirs /\ T.leaves = n + 1 /\ T.level = t.level
      /\ T.lo \in [Refs -> Int] /\ T.hi \in [Refs -> Int]
      /\ T.lo[n] = K /\ T.hi[n] = t.hi[b] /\ T.hi[b] = K
      /\ \A c \in Refs : c # n => T.lo[c] = t.lo[c]
      /\ \A c \in Refs : c # n /\ c # b => T.hi[c] = t.hi[c]
  BY <1>1, LeafFacts
<1> HIDE DEF T, n
<1>4. \A c \in -(t.dirs - 1) .. n - 1 :
        /\ c \in Refs /\ c # n /\ c \in -(T.dirs - 1) .. T.leaves - 1
        /\ T.lo[c] = t.lo[c] /\ Seen(T, c, b, n) = t.hi[c]
  <2> TAKE c \in -(t.dirs - 1) .. n - 1
  <2>a. c \in Refs /\ c # n BY <1>2 DEF Refs
  <2>b. c \in -(t.dirs - 1) .. (n + 1) - 1 BY <1>2
  <2>1. c \in Refs /\ c # n /\ c \in -(T.dirs - 1) .. T.leaves - 1 BY <1>3, <2>a, <2>b
  <2> QED BY <1>3, <2>1 DEF Seen
<1>5. InUseDirs(T) = InUseDirs(t) BY <1>3 DEF InUseDirs
<1>6. \A d \in InUseDirs(t) : /\ Low(T, d) = Low(t, d) /\ High(T, d) = High(t, d)
                              /\ d \in DirPages
  <2> TAKE d \in InUseDirs(t)
  <2>1. d \in DirPages /\ -d \in Refs /\ (d # 0 => -d # n /\ -d # b)
    BY <1>2 DEF InUseDirs, DirPages, Refs, n
  <2> QED BY <1>3, <2>1 DEF Low, High
<1>7. Typed(ds, T) BY <1>1, <1>2, <1>3 DEF Typed
<1>8. ASSUME NEW d \in InUseDirs(t) PROVE KeysIn(ds[d], T, d) /\ ChildrenIn(ds[d], T, b, n, d)
  <2>1. KeysIn(ds[d], t, d) /\ ChildrenIn(ds[d], t, 0, 0, d) BY DEF Tree, Whole
  <2>2. KeysIn(ds[d], T, d) BY <1>6, <2>1 DEF KeysIn
  <2>3. ASSUME NEW i \in Kids(ds[d]) PROVE ChildIn(ds[d].children[i], ds[d], T, b, n, d, i)
    <3> DEFINE c == ds[d].children[i]
    <3>1. ChildIn(c, ds[d], t, 0, 0, d, i) BY <2>1 DEF ChildrenIn
    <3> HIDE DEF c
    <3>2. /\ c \in -(t.dirs - 1) .. n - 1 /\ t.lo[c] = Lower(ds[d], t, d, i)
          /\ t.hi[c] = Upper(ds[d], t, d, i) /\ (c < 0 => t.level[-c] < t.level[d])
      BY <3>1 DEF ChildIn, Seen, n
    <3>3. Lower(ds[d], T, d, i) = Lower(ds[d], t, d, i) /\ Upper(ds[d], T, d, i) = Upper(ds[d], t, d, i)
      BY <1>6 DEF Lower, Upper
    <3>4. ChildIn(c, ds[d], T, b, n, d, i) BY <1>3, <1>4, <3>2, <3>3 DEF ChildIn
    <3> QED BY <3>4 DEF c
  <2> QED BY <2>2, <2>3 DEF ChildrenIn
<1>9. OneParent(ds, T) BY <1>1, <1>5 DEF OneParent
<1>10. Pending(ds, T, b, n)
  <2>1. b \in -(T.dirs - 1) .. T.leaves - 1 /\ n \in -(T.dirs - 1) .. T.leaves - 1 /\ ~ (n < 0)
    <3>1. b \in 0 .. n - 1 BY DEF n
    <3> QED BY <1>2, <1>3, <3>1
  <2>2. T.hi[b] = T.lo[n] /\ T.lo[b] < T.lo[n] /\ T.lo[n] < T.hi[n] BY <1>3
  <2>3. ASSUME NEW d \in InUseDirs(T), NEW i \in Kids(ds[d]) PROVE ds[d].children[i] # n
    <3> DEFINE c == ds[d].children[i]
    <3>1. ChildIn(c, ds[d], t, 0, 0, d, i) BY <1>5 DEF Tree, Whole, ChildrenIn
    <3>2. c \in -(t.dirs - 1) .. n - 1 BY <3>1 DEF ChildIn, n
    <3> QED BY <1>4, <3>2
  <2> QED BY <1>3, <2>1, <2>2, <2>3 DEF Pending
<1> QED BY <1>5, <1>7, <1>8, <1>9, <1>10 DEF Tree, T, n

-----------------------------------------------------------------------------
(* The way down.                                                            *)

Sizes(ds) == \A d \in DirPages : Len(ds[d].keys) <= DirMax

\* The child that search_child_index finds has r.
LEMMA ChildFound ==
  ASSUME NEW dir, IsDir(dir), Len(dir.keys) <= DirMax, NEW t, NEW d, KeysIn(dir, t, d),
         NEW r \in Int, Low(t, d) <= r, r < High(t, d)
  PROVE  /\ SearchChild(dir, r) + 1 \in Kids(dir)
         /\ Lower(dir, t, d, SearchChild(dir, r) + 1) <= r
         /\ r < Upper(dir, t, d, SearchChild(dir, r) + 1)
<1> DEFINE i == SearchChild(dir, r)
           j == i + 1
           N == Len(dir.keys)
<1>1. dir.keys \in Seq(Int) BY DEF IsDir
<1>2. N \in Nat /\ \A k \in 1 .. N : dir.keys[k] \in Int BY <1>1
<1>3. i \in 0 .. N /\ Separates(dir.keys, r, i) BY <1>1, SearchChildExact DEF KeysIn
<1> HIDE DEF i
<1>4. j \in Kids(dir) BY <1>2, <1>3 DEF Kids
<1>5. Lower(dir, t, d, j) <= r
  <2>1. CASE j = 1 BY <2>1 DEF Lower
  <2>2. CASE j # 1
    <3>1. i \in 1 .. N /\ j - 1 = i BY <1>2, <1>3, <2>2
    <3>2. dir.keys[i] <= r BY <1>2, <1>3, <3>1 DEF Separates
    <3> QED BY <2>2, <3>1, <3>2 DEF Lower
  <2> QED BY <2>1, <2>2
<1>6. r < Upper(dir, t, d, j)
  <2>1. CASE j = N + 1 BY <2>1 DEF Upper
  <2>2. CASE j # N + 1
    <3>1. j \in 1 .. N /\ ~ (j <= i) BY <1>2, <1>3, <2>2
    <3>2. ~ (dir.keys[j] <= r) /\ dir.keys[j] \in Int BY <1>2, <1>3, <3>1 DEF Separates
    <3> QED BY <2>2, <3>2 DEF Upper
  <2> QED BY <2>1, <2>2
<1> QED BY <1>4, <1>5, <1>6 DEF i

\* And it is the only one.
LEMMA ChildUnique ==
  ASSUME NEW dir, IsDir(dir), Len(dir.keys) <= DirMax, NEW t, NEW d, KeysIn(dir, t, d),
         NEW r \in Int, NEW j \in Kids(dir), Lower(dir, t, d, j) <= r, r < Upper(dir, t, d, j)
  PROVE  SearchChild(dir, r) = j - 1
<1> DEFINE i == SearchChild(dir, r)
           N == Len(dir.keys)
<1>1. dir.keys \in Seq(Int) BY DEF IsDir
<1>2. N \in Nat /\ \A k \in 1 .. N : dir.keys[k] \in Int BY <1>1
<1>3. i \in 0 .. N /\ Separates(dir.keys, r, i) BY <1>1, SearchChildExact DEF KeysIn
<1>0. j \in 1 .. N + 1 BY DEF Kids
<1> HIDE DEF i
<1>4. ~ (i < j - 1)
  <2> SUFFICES ASSUME i < j - 1 PROVE FALSE OBVIOUS
  <2>1. j # 1 /\ j - 1 \in 1 .. N /\ ~ (j - 1 <= i) BY <1>0, <1>2, <1>3
  <2>2. dir.keys[j - 1] <= r BY <2>1 DEF Lower
  <2> QED BY <1>3, <2>1, <2>2 DEF Separates
<1>5. ~ (i > j - 1)
  <2> SUFFICES ASSUME i > j - 1 PROVE FALSE OBVIOUS
  <2>1. j # N + 1 /\ j \in 1 .. N /\ j <= i BY <1>0, <1>2, <1>3
  <2>2. r < dir.keys[j] BY <2>1 DEF Upper
  <2>3. dir.keys[j] <= r BY <1>3, <2>1 DEF Separates
  <2> QED BY <1>2, <2>1, <2>2, <2>3
<1>6. i = j - 1 BY <1>0, <1>2, <1>3, <1>4, <1>5
<1> QED BY <1>6 DEF i

\* A child is a leaf or a directory below.
LEMMA ChildDown ==
  ASSUME NEW t, Whole(dirs, t), Sizes(dirs), NEW r \in Int, NEW d \in DirPages
  PROVE  /\ Child(d, r) \in Int
         /\ Child(d, r) < 0 => /\ -Child(d, r) \in DirPages
                               /\ -Child(d, r) \in InUseDirs(t)
                               /\ t.level[-Child(d, r)] < t.level[d]
<1> DEFINE c == Child(d, r)
           dir == dirs[d]
           i == SearchChild(dir, r) + 1
<1>1. Typed(dirs, t) /\ MaxDirs \in Nat BY TreeAssumption DEF Whole, Tree
<1>2. t.dirs \in 1 .. MaxDirs /\ t.leaves \in Int BY <1>1 DEF Typed
<1>3. CASE d < t.dirs
  <2>1. d \in InUseDirs(t) BY <1>2, <1>3 DEF InUseDirs, DirPages
  <2>2. dir.keys \in Seq(Int) /\ Len(dir.keys) \in Nat BY <1>1, <2>1, DirFacts
  <2>3. SearchChild(dir, r) \in 0 .. Len(dir.keys) BY <2>2, SearchChildExact DEF Sizes
  <2>4. i \in Kids(dir) BY <2>2, <2>3 DEF Kids
  <2>5. ChildIn(c, dir, t, 0, 0, d, i) BY <2>1, <2>4 DEF Child, Whole, Tree, ChildrenIn
  <2>6. c \in -(t.dirs - 1) .. t.leaves - 1 /\ (c < 0 => t.level[-c] < t.level[d])
    BY <2>5 DEF ChildIn
  <2> HIDE DEF c
  <2>7. c \in Int /\ (c < 0 => -c \in DirPages /\ -c \in InUseDirs(t))
    BY <1>1, <1>2, <2>6 DEF DirPages, InUseDirs
  <2> QED BY <2>6, <2>7 DEF c
<1>4. CASE d >= t.dirs
  <2>1. dir = NoDir BY <1>1, <1>4 DEF Typed
  <2>2. dir.keys = << >> /\ dir.children = <<0>> BY <2>1 DEF NoDir
  <2>3. dir.keys \in Seq(Int) /\ Len(dir.keys) = 0 BY <2>2
  <2>4. SearchChild(dir, r) \in 0 .. Len(dir.keys) BY <2>3, SearchChildExact DEF Sizes
  <2>5. SearchChild(dir, r) = 0 BY <2>3, <2>4
  <2>6. c = dir.children[0 + 1] BY <2>5 DEF Child
  <2>7. c = 0 BY <2>2, <2>6
  <2> QED BY <2>7
<1> QED BY <1>2, <1>3, <1>4 DEF DirPages

\* below is what LeafFor computes for every directory.
Below(below, r) ==
  \A d \in DirPages : /\ Child(d, r) < 0 => below[d] = below[-Child(d, r)]
                      /\ ~ (Child(d, r) < 0) => below[d] = Child(d, r)

LEMMA LeafForDefined ==
  ASSUME NEW t, Whole(dirs, t), Sizes(dirs), NEW r \in Int
  PROVE  \E below : Below(below, r) /\ LeafFor(r) = below[0]
<1> DEFINE H == [d \in DirPages |-> [f \in [DirPages -> Int] |->
                   IF Child(d, r) < 0 THEN f[-Child(d, r)] ELSE Child(d, r)]]
<1>1. Typed(dirs, t) /\ MaxDirs \in Nat BY TreeAssumption DEF Whole, Tree
<1>2. t.dirs \in 1 .. MaxDirs /\ t.leaves \in Int /\ t.level \in [DirPages -> Nat] /\ 0 \in DirPages
  BY <1>1 DEF Typed, DirPages
<1>3. \A d \in DirPages : /\ Child(d, r) \in Int
                          /\ Child(d, r) < 0 => /\ -Child(d, r) \in DirPages
                                                /\ -Child(d, r) \in InUseDirs(t)
                                                /\ t.level[-Child(d, r)] < t.level[d]
  BY ChildDown
<1>4. Descends(DirPages, Int, t.level[0], t.level, H)
  <2>1. t.level[0] \in Nat /\ Int # {} BY <1>2
  <2>2. t.level \in [DirPages -> 0 .. t.level[0]]
    <3>1. \A d \in DirPages : t.level[d] \in 0 .. t.level[0] BY <1>1, <1>2, <2>1 DEF Typed
    <3> QED BY <1>2, <3>1
  <2>3. H \in [DirPages -> [[DirPages -> Int] -> Int]] BY <1>3
  <2>4. ASSUME NEW d \in DirPages, NEW f \in [DirPages -> Int], NEW g \in [DirPages -> Int],
               \A e \in DirPages : t.level[e] < t.level[d] => f[e] = g[e]
        PROVE  H[d][f] = H[d][g]
    BY <1>3, <2>4
  <2> HIDE DEF H
  <2> QED BY <2>1, <2>2, <2>3, <2>4, Zenon DEF Descends
<1> HIDE DEF H
<1>5. Solvable(DirPages, Int, H) BY <1>4, RecursionExists, Zenon
<1>6. \E f : f = [d \in DirPages |-> IF Child(d, r) < 0 THEN f[-Child(d, r)] ELSE Child(d, r)]
  BY <1>5 DEF H, Solvable
<1> DEFINE below == CHOOSE f : f = [d \in DirPages |-> IF Child(d, r) < 0 THEN f[-Child(d, r)] ELSE Child(d, r)]
<1>7. below = [d \in DirPages |-> IF Child(d, r) < 0 THEN below[-Child(d, r)] ELSE Child(d, r)]
  BY <1>6, Zenon
<1>8. LeafFor(r) = below[0] BY Zenon DEF LeafFor
<1> HIDE DEF below
<1>9. Below(below, r) BY <1>7 DEF Below
<1> QED BY <1>8, <1>9

\* The way down ends at the leaf that is responsible for the record.
LEMMA LeafForExact ==
  ASSUME NEW t, Whole(dirs, t), Sizes(dirs), NEW r \in 0 .. MaxRecord
  PROVE  LeafFor(r) \in 0 .. t.leaves - 1 /\ t.lo[LeafFor(r)] <= r /\ r < t.hi[LeafFor(r)]
<1>0. r \in Int /\ MaxRecord \in Nat BY TreeAssumption
<1>1. Typed(dirs, t) /\ MaxDirs \in Nat BY TreeAssumption DEF Whole, Tree
<1>2. t.dirs \in 1 .. MaxDirs /\ t.leaves \in Int /\ t.level \in [DirPages -> Nat] /\ 0 \in DirPages
  BY <1>1 DEF Typed, DirPages
<1>3. \A d \in DirPages : /\ Child(d, r) \in Int
                          /\ Child(d, r) < 0 => /\ -Child(d, r) \in DirPages
                                                /\ -Child(d, r) \in InUseDirs(t)
                                                /\ t.level[-Child(d, r)] < t.level[d]
  BY <1>0, ChildDown
<1>8. PICK below : Below(below, r) /\ LeafFor(r) = below[0] BY <1>0, LeafForDefined
<1>9. \A d \in DirPages : /\ Child(d, r) < 0 => below[d] = below[-Child(d, r)]
                          /\ ~ (Child(d, r) < 0) => below[d] = Child(d, r)
  BY <1>8 DEF Below
<1> DEFINE Has(c) == t.lo[c] <= r /\ r < t.hi[c]
           Good(d) == below[d] \in 0 .. t.leaves - 1 /\ Has(below[d])
           Bad(d) == d \in InUseDirs(t) /\ Low(t, d) <= r /\ r < High(t, d) /\ ~Good(d)
           B == {k \in Nat : \E d \in DirPages : t.level[d] = k /\ Bad(d)}
<1>10. B = {}
  <2> SUFFICES ASSUME B # {} PROVE FALSE OBVIOUS
  <2>1. PICK k \in B : \A l \in B : k <= l BY Least
  <2>2. PICK d \in DirPages : t.level[d] = k /\ Bad(d) OBVIOUS
  <2> DEFINE dir == dirs[d]
             i == SearchChild(dir, r) + 1
             c == Child(d, r)
  <2>3. IsDir(dir) /\ KeysIn(dir, t, d) /\ ChildrenIn(dir, t, 0, 0, d) /\ Len(dir.keys) <= DirMax
    BY <1>1, <2>2 DEF Typed, Whole, Tree, Sizes
  <2>4. i \in Kids(dir) /\ Lower(dir, t, d, i) <= r /\ r < Upper(dir, t, d, i)
    BY <1>0, <2>2, <2>3, ChildFound
  <2>5. ChildIn(c, dir, t, 0, 0, d, i) BY <2>3, <2>4 DEF ChildrenIn, Child
  <2>6. Has(c) /\ c \in -(t.dirs - 1) .. t.leaves - 1 BY <2>4, <2>5 DEF ChildIn, Seen
  <2> HIDE DEF i, dir, c
  <2>7. c \in Int BY <1>3 DEF c
  <2>8. CASE c < 0
    <3> DEFINE e == -c
    <3>1. e \in DirPages /\ e \in InUseDirs(t) /\ t.level[e] < t.level[d] BY <1>3, <2>8 DEF c
    <3>2. below[d] = below[e] BY <1>9, <2>8 DEF c
    <3>3. e # 0 /\ -e = c BY <2>7, <2>8
    <3>4. Low(t, e) = t.lo[c] /\ High(t, e) = t.hi[c] BY <3>3 DEF Low, High
    <3> HIDE DEF e
    <3>5. Bad(e) BY <2>2, <2>6, <3>1, <3>2, <3>4
    <3>6. t.level[e] \in Nat /\ t.level[d] \in Nat BY <1>2, <3>1
    <3>7. t.level[e] \in B BY <3>1, <3>5, <3>6
    <3> QED BY <2>1, <2>2, <3>1, <3>6, <3>7
  <2>9. CASE ~ (c < 0)
    <3>1. below[d] = c BY <1>9, <2>9 DEF c
    <3>2. c \in 0 .. t.leaves - 1 BY <1>2, <2>6, <2>9
    <3> QED BY <2>2, <2>6, <3>1, <3>2
  <2> QED BY <2>8, <2>9
<1>11. ~Bad(0)
  <2>1. t.level[0] \in Nat BY <1>2
  <2> QED BY <1>2, <1>10, <2>1
<1>12. 0 \in InUseDirs(t) /\ Low(t, 0) <= r /\ r < High(t, 0)
  BY <1>0, <1>2 DEF InUseDirs, Low, High, Top
<1> QED BY <1>8, <1>11, <1>12

-----------------------------------------------------------------------------
(* BPlusTreeDir::insert, one directory.                                     *)

DirRecs == {x \in [keys : Seq(Int), children : Seq(Int)] : IsDir(x) /\ Len(x.keys) <= DirMax}
SplitRecs == [key : Int, page : Int]
Ups == [dirs : [DirPages -> DirRecs], asked : Nat, split : SplitRecs]

\* The directory with the key and the page of the split.
With(dir, i, split) ==
  [keys |-> InsertAt(dir.keys, i + 1, split.key),
   children |-> InsertAt(dir.children, i + 2, split.page)]

LEMMA WithFacts ==
  ASSUME NEW dir, IsDir(dir), NEW i \in 0 .. Len(dir.keys), NEW split \in SplitRecs
  PROVE  LET X == With(dir, i, split) IN
         /\ IsDir(X) /\ Len(X.keys) = Len(dir.keys) + 1
         /\ IsInserted(X.keys, dir.keys, i + 1, split.key)
         /\ IsInserted(X.children, dir.children, i + 2, split.page)
<1> DEFINE X == With(dir, i, split)
           N == Len(dir.keys)
<1>1. dir.keys \in Seq(Int) /\ dir.children \in Seq(Int) /\ Len(dir.children) = N + 1 BY DEF IsDir
<1>2. split.key \in Int /\ split.page \in Int BY DEF SplitRecs
<1>3. N \in Nat /\ i + 1 \in 1 .. N + 1 /\ i + 2 \in 1 .. Len(dir.children) + 1 BY <1>1
<1>4. IsInserted(InsertAt(dir.keys, i + 1, split.key), dir.keys, i + 1, split.key)
  BY <1>1, <1>2, <1>3, Inserted
<1>5. IsInserted(InsertAt(dir.children, i + 2, split.page), dir.children, i + 2, split.page)
  BY <1>1, <1>2, <1>3, Inserted
<1>6. /\ X.keys = InsertAt(dir.keys, i + 1, split.key)
      /\ X.children = InsertAt(dir.children, i + 2, split.page)
      /\ X = [keys |-> X.keys, children |-> X.children]
  BY DEF With
<1> HIDE DEF X
<1>7. /\ X.keys \in Seq(Int) /\ Len(X.keys) = N + 1
      /\ X.children \in Seq(Int) /\ Len(X.children) = Len(dir.children) + 1
  BY <1>4, <1>5, <1>6 DEF IsInserted
<1>8. Len(X.children) = Len(X.keys) + 1 BY <1>1, <1>7
<1>9. IsDir(X)
  <2>1. X \in [keys : Seq(Int), children : Seq(Int)] BY <1>6, <1>7
  <2> QED BY <1>8, <2>1 DEF IsDir
<1> QED BY <1>4, <1>5, <1>6, <1>7, <1>9 DEF X

\* The halves of a directory with one key too many.
LeftHalf(X)  == [keys |-> SubSeq(X.keys, 1, Middle(DirMax)),
                 children |-> SubSeq(X.children, 1, Middle(DirMax) + 1)]
RightHalf(X) == [keys |-> SubSeq(X.keys, Middle(DirMax) + 2, DirMax + 1),
                 children |-> SubSeq(X.children, Middle(DirMax) + 2, DirMax + 2)]

LEMMA HalvesFacts ==
  ASSUME NEW X, IsDir(X), Len(X.keys) = DirMax + 1
  PROVE  /\ IsHalves(LeftHalf(X), RightHalf(X), X, Middle(DirMax))
         /\ LeftHalf(X) \in DirRecs /\ RightHalf(X) \in DirRecs
         /\ Middle(DirMax) \in 1 .. DirMax - 1
<1> DEFINE m == Middle(DirMax)
           L == LeftHalf(X)
           R == RightHalf(X)
<1>1. X.keys \in Seq(Int) /\ X.children \in Seq(Int) /\ Len(X.children) = DirMax + 2 /\ DirMax \in Nat
  BY TreeAssumption DEF IsDir
<1>2. m \in 1 .. DirMax - 1 /\ m \in Nat BY TreeAssumption DEF Middle
<1>3. /\ L = [keys |-> SubSeq(X.keys, 1, m), children |-> SubSeq(X.children, 1, m + 1)]
      /\ R = [keys |-> SubSeq(X.keys, m + 2, DirMax + 1),
              children |-> SubSeq(X.children, m + 2, DirMax + 2)]
  BY DEF LeftHalf, RightHalf
<1> HIDE DEF m, L, R
<1>4. IsPart(L.keys, X.keys, 0, m)
  <2>1. 0 \in 0 .. Len(X.keys) /\ 0 + m <= Len(X.keys) /\ 0 + 1 = 1 /\ 0 + m = m BY <1>1, <1>2
  <2>2. IsPart(SubSeq(X.keys, 0 + 1, 0 + m), X.keys, 0, m) BY <1>1, <1>2, <2>1, Part
  <2>3. L.keys = SubSeq(X.keys, 1, m) BY <1>3
  <2>4. SubSeq(X.keys, 0 + 1, 0 + m) = SubSeq(X.keys, 1, m) BY <2>1
  <2> QED BY <2>2, <2>3, <2>4
<1>5. IsPart(L.children, X.children, 0, m + 1)
  <2> DEFINE k == m + 1
  <2>1. 0 \in 0 .. Len(X.children) /\ 0 + k <= Len(X.children) /\ 0 + 1 = 1 /\ 0 + k = k /\ k \in Nat
    BY <1>1, <1>2
  <2>3. L.children = SubSeq(X.children, 1, k) BY <1>3
  <2> HIDE DEF k
  <2>2. IsPart(SubSeq(X.children, 0 + 1, 0 + k), X.children, 0, k) BY <1>1, <2>1, Part
  <2>4. SubSeq(X.children, 0 + 1, 0 + k) = SubSeq(X.children, 1, k) BY <2>1
  <2> QED BY <2>2, <2>3, <2>4 DEF k
<1>6. IsPart(R.keys, X.keys, m + 1, Len(X.keys) - m - 1)
  <2> DEFINE k == m + 1
             h == Len(X.keys) - m - 1
  <2>1. /\ k \in 0 .. Len(X.keys) /\ h \in Nat /\ k + h <= Len(X.keys)
        /\ k + 1 = m + 2 /\ k + h = DirMax + 1
    BY <1>1, <1>2
  <2> HIDE DEF k, h
  <2>2. IsPart(SubSeq(X.keys, k + 1, k + h), X.keys, k, h) BY <1>1, <2>1, Part
  <2>3. R.keys = SubSeq(X.keys, m + 2, DirMax + 1) BY <1>3
  <2> QED BY <2>1, <2>2, <2>3 DEF k, h
<1>7. IsPart(R.children, X.children, m + 1, Len(X.keys) - m)
  <2> DEFINE k == m + 1
             h == Len(X.keys) - m
  <2>1. /\ k \in 0 .. Len(X.children) /\ h \in Nat /\ k + h <= Len(X.children)
        /\ k + 1 = m + 2 /\ k + h = DirMax + 2
    BY <1>1, <1>2
  <2> HIDE DEF k, h
  <2>2. IsPart(SubSeq(X.children, k + 1, k + h), X.children, k, h) BY <1>1, <2>1, Part
  <2>3. R.children = SubSeq(X.children, m + 2, DirMax + 2) BY <1>3
  <2> QED BY <2>1, <2>2, <2>3 DEF k, h
<1>8. /\ L.keys \in Seq(Int) /\ L.children \in Seq(Int) /\ Len(L.keys) = m /\ Len(L.children) = m + 1
      /\ R.keys \in Seq(Int) /\ R.children \in Seq(Int)
      /\ Len(R.keys) = Len(X.keys) - m - 1 /\ Len(R.children) = Len(X.keys) - m
  BY <1>4, <1>5, <1>6, <1>7 DEF IsPart
<1>9. L = [keys |-> L.keys, children |-> L.children] /\ R = [keys |-> R.keys, children |-> R.children]
  BY <1>3
<1>10. /\ L \in [keys : Seq(Int), children : Seq(Int)] /\ R \in [keys : Seq(Int), children : Seq(Int)]
  BY <1>8, <1>9
<1>11. Len(L.children) = Len(L.keys) + 1 /\ Len(R.children) = Len(R.keys) + 1
       /\ Len(L.keys) <= DirMax /\ Len(R.keys) <= DirMax
  BY <1>1, <1>2, <1>8
<1>12. IsDir(L) /\ IsDir(R) BY <1>10, <1>11 DEF IsDir
<1>13. IsHalves(L, R, X, m) BY <1>4, <1>5, <1>6, <1>7, <1>12 DEF IsHalves
<1> QED BY <1>2, <1>10, <1>11, <1>12, <1>13 DEF DirRecs, m, L, R

\* What DirStep does, by case.
LEMMA DirStepFacts ==
  ASSUME NEW d \in DirPages, NEW s \in Ups, dir_pages \in Nat
  PROVE  LET dir == s.dirs[d]
             X == With(dir, SearchChild(dir, s.split.key), s.split)
             u == DirStep(d, s) IN
         /\ u \in Ups /\ u.asked >= s.asked
         /\ s.split = NoSplit => u = s
         /\ s.split # NoSplit /\ Len(dir.keys) < DirMax =>
              u.dirs = [s.dirs EXCEPT ![d] = X] /\ u.asked = s.asked /\ u.split = NoSplit
         /\ s.split # NoSplit /\ Len(dir.keys) = DirMax /\ d = 0 => u.asked = s.asked + 2
         /\ s.split # NoSplit /\ Len(dir.keys) = DirMax /\ d # 0 =>
              /\ u.dirs = [s.dirs EXCEPT ![d] = LeftHalf(X), ![dir_pages] = RightHalf(X)]
              /\ u.asked = s.asked + 1
              /\ u.split = [key |-> X.keys[Middle(DirMax) + 1], page |-> -dir_pages]
<1> DEFINE dir == s.dirs[d]
           i == SearchChild(dir, s.split.key)
           X == With(dir, i, s.split)
           u == DirStep(d, s)
           m == Middle(DirMax)
           root == [keys |-> <<X.keys[m + 1]>>, children |-> <<-dir_pages, -dir_pages>>]
<1>1. /\ dir \in DirRecs /\ s.split \in SplitRecs /\ s.asked \in Nat /\ s.dirs \in [DirPages -> DirRecs]
      /\ s = [dirs |-> s.dirs, asked |-> s.asked, split |-> s.split]
  BY DEF Ups
<1>2. IsDir(dir) /\ Len(dir.keys) <= DirMax /\ dir.keys \in Seq(Int) /\ s.split.key \in Int
  BY <1>1 DEF DirRecs, IsDir, SplitRecs
<1>3. i \in 0 .. Len(dir.keys) BY <1>2, SearchChildExact
<1>4. Len(dir.keys) \in Nat /\ DirMax \in Nat BY <1>2, TreeAssumption
<1>5. IsDir(X) /\ Len(X.keys) = Len(dir.keys) + 1 BY <1>1, <1>2, <1>3, WithFacts
<1>6. NoSplit \in SplitRecs BY DEF NoSplit, SplitRecs
<1>7. u = IF s.split = NoSplit THEN s
          ELSE IF Len(dir.keys) < DirMax
            THEN [s EXCEPT !.dirs[d] = X, !.split = NoSplit]
          ELSE IF d = 0
            THEN [s EXCEPT !.dirs[dir_pages] = LeftHalf(X), !.dirs[dir_pages] = RightHalf(X),
                           !.dirs[0] = root, !.asked = @ + 2, !.split = NoSplit]
            ELSE [s EXCEPT !.dirs[d] = LeftHalf(X), !.dirs[dir_pages] = RightHalf(X), !.asked = @ + 1,
                           !.split = [key |-> X.keys[m + 1], page |-> -dir_pages]]
  BY DEF DirStep, With, LeftHalf, RightHalf
<1> HIDE DEF i, X, u, m, root
<1>8. CASE s.split = NoSplit BY <1>1, <1>7, <1>8 DEF u
<1>9. CASE s.split # NoSplit /\ Len(dir.keys) < DirMax
  <2>1. u = [dirs |-> [s.dirs EXCEPT ![d] = X], asked |-> s.asked, split |-> NoSplit]
    BY <1>1, <1>7, <1>9
  <2>a. Len(X.keys) <= DirMax BY <1>4, <1>5, <1>9
  <2>2. X \in DirRecs BY <1>5, <2>a DEF DirRecs, IsDir
  <2>3. [s.dirs EXCEPT ![d] = X] \in [DirPages -> DirRecs] BY <1>1, <2>2
  <2>4. u \in Ups /\ u.asked >= s.asked BY <1>1, <1>6, <2>1, <2>3 DEF Ups
  <2> QED BY <1>4, <1>9, <2>1, <2>4 DEF u, X, i
<1>10. CASE s.split # NoSplit /\ ~ (Len(dir.keys) < DirMax)
  <2>1. Len(dir.keys) = DirMax BY <1>2, <1>4, <1>10
  <2>2. /\ LeftHalf(X) \in DirRecs /\ RightHalf(X) \in DirRecs /\ m \in 1 .. DirMax - 1
    BY <1>5, <2>1, HalvesFacts DEF m
  <2>3. X.keys[m + 1] \in Int
    <3>1. m + 1 \in 1 .. Len(X.keys) BY <1>4, <1>5, <2>1, <2>2
    <3>2. X.keys \in Seq(Int) BY <1>5 DEF IsDir
    <3> QED BY <3>1, <3>2
  <2>4. CASE d = 0
    <3>1. root \in DirRecs
      <4>1. <<X.keys[m + 1]>> \in Seq(Int) /\ <<-dir_pages, -dir_pages>> \in Seq(Int) BY <2>3
      <4>2. Len(root.keys) = 1 /\ Len(root.children) = 2 /\ 1 <= DirMax BY TreeAssumption DEF root
      <4>3. root \in [keys : Seq(Int), children : Seq(Int)] BY <4>1 DEF root
      <4>4. Len(root.children) = Len(root.keys) + 1 /\ Len(root.keys) <= DirMax BY <4>2
      <4> QED BY <4>3, <4>4 DEF DirRecs, IsDir
    <3> DEFINE D == [s.dirs EXCEPT ![dir_pages] = LeftHalf(X), ![dir_pages] = RightHalf(X), ![0] = root]
    <3>2. D \in [DirPages -> DirRecs] BY <1>1, <2>2, <3>1
    <3>3. u = [dirs |-> D, asked |-> s.asked + 2, split |-> NoSplit] BY <1>1, <1>7, <1>10, <2>4
    <3> HIDE DEF D
    <3>4. u \in Ups /\ u.asked >= s.asked /\ u.asked = s.asked + 2 BY <1>1, <1>6, <3>2, <3>3 DEF Ups
    <3> QED BY <1>4, <1>10, <2>1, <2>4, <3>4 DEF u
  <2>5. CASE d # 0
    <3> DEFINE D == [s.dirs EXCEPT ![d] = LeftHalf(X), ![dir_pages] = RightHalf(X)]
               w == [key |-> X.keys[m + 1], page |-> -dir_pages]
    <3>1. D \in [DirPages -> DirRecs] BY <1>1, <2>2
    <3>2. u = [dirs |-> D, asked |-> s.asked + 1, split |-> w] BY <1>1, <1>7, <1>10, <2>5
    <3>3. w \in SplitRecs BY <2>3 DEF SplitRecs
    <3> HIDE DEF D, w
    <3>4. u \in Ups /\ u.asked >= s.asked /\ u.asked = s.asked + 1 /\ u.dirs = D /\ u.split = w
      BY <1>1, <3>1, <3>2, <3>3 DEF Ups
    <3> QED BY <1>4, <1>10, <2>1, <2>5, <3>4 DEF u, D, w, X, m, i
  <2> QED BY <2>4, <2>5
<1> QED BY <1>8, <1>9, <1>10

-----------------------------------------------------------------------------
(* The way up.                                                              *)

\* Every page has some of the records.
Bounded(t) == \A c \in -(t.dirs - 1) .. t.leaves - 1 : 0 <= t.lo[c] /\ t.hi[c] <= Top

\* What the steps up to level k leave alone.
Kept(t0, ds0, t, ds, k) ==
  /\ t.leaves = t0.leaves /\ t.dirs >= t0.dirs /\ Bounded(t)
  /\ \A c \in 0 .. t0.leaves - 1 : t.lo[c] = t0.lo[c] /\ t.hi[c] = t0.hi[c]
  /\ \A e \in InUseDirs(t0) : t.level[e] = t0.level[e]
  /\ \A e \in InUseDirs(t0) : t0.level[e] > k =>
       ds[e] = ds0[e] /\ Low(t, e) = Low(t0, e) /\ High(t, e) = High(t0, e)

\* The steps up to level k are done, and x, the last page they came to, is split or not.
Climbed(t0, ds0, x, k, t, ds, split) ==
  /\ Kept(t0, ds0, t, ds, k)
  /\ split = NoSplit => Whole(ds, t)
  /\ split # NoSplit => /\ Tree(ds, t, x, split.page) /\ x # split.page
                        /\ split.key = t.lo[split.page]

\* The parent of x, e, has it at place j, and X is e with the other page too.
Takes(X, dir, j, x, split) ==
  /\ j \in Kids(dir) /\ dir.children[j] = x /\ IsDir(X)
  /\ IsInserted(X.keys, dir.keys, j, split.key)
  /\ IsInserted(X.children, dir.children, j + 1, split.page)

LEMMA ClimbRoom ==
  ASSUME NEW t0, NEW ds0, Typed(ds0, t0), NEW x, NEW k \in Int, NEW t, NEW ds, NEW split,
         Climbed(t0, ds0, x, k, t, ds, split), split # NoSplit,
         NEW e \in InUseDirs(t0), k < t0.level[e],
         NEW j, NEW X, Takes(X, ds0[e], j, x, split)
  PROVE  /\ Climbed(t0, ds0, -e, t0.level[e], t, [ds EXCEPT ![e] = X], NoSplit)
         /\ e \in InUseDirs(t) /\ ds[e] = ds0[e] /\ High(t, e) = High(t0, e) /\ DOMAIN ds = DirPages
<1> DEFINE D == [ds EXCEPT ![e] = X]
<1>1. Kept(t0, ds0, t, ds, k) /\ Tree(ds, t, x, split.page) /\ x # split.page
      /\ split.key = t.lo[split.page]
  BY DEF Climbed
<1>2. ds[e] = ds0[e] /\ High(t, e) = High(t0, e)
  <2>1. t0.level[e] \in Int BY DirFacts
  <2> QED BY <1>1, <2>1 DEF Kept
<1>3. Typed(ds, t) BY <1>1 DEF Tree
<1>4. t0.dirs \in Int /\ t.dirs \in Int /\ t.dirs >= t0.dirs BY <1>1, <1>3 DEF Typed, Kept
<1>5. \A c \in InUseDirs(t0) : c \in InUseDirs(t) BY <1>4 DEF InUseDirs
<1>6. Whole(D, t)
  BY <1>1, <1>2, <1>5, KidInserted DEF Takes
<1>7. DOMAIN ds = DirPages /\ \A c \in InUseDirs(t0) : c \in DirPages /\ t0.level[c] \in Int
  <2>1. DOMAIN ds = DirPages BY <1>3 DEF Typed
  <2>2. \A c \in InUseDirs(t0) : c \in DirPages /\ t0.level[c] \in Int BY DirFacts
  <2> QED BY <2>1, <2>2
<1>8. Kept(t0, ds0, t, D, t0.level[e])
  <2>1. ASSUME NEW c \in InUseDirs(t0), t0.level[c] > t0.level[e]
        PROVE  D[c] = ds0[c] /\ Low(t, c) = Low(t0, c) /\ High(t, c) = High(t0, c)
    <3>1. t0.level[c] \in Int /\ t0.level[e] \in Int BY <1>7
    <3>2. c # e /\ t0.level[c] > k BY <2>1, <3>1
    <3>3. D[c] = ds[c] BY <1>7, <3>2
    <3> QED BY <1>1, <3>2, <3>3 DEF Kept
  <2> HIDE DEF D
  <2> QED BY <1>1, <2>1 DEF Kept
<1> HIDE DEF D
<1>9. Climbed(t0, ds0, -e, t0.level[e], t, D, NoSplit) BY <1>6, <1>8 DEF Climbed
<1> QED BY <1>2, <1>5, <1>7, <1>9 DEF D

LEMMA ClimbSplit ==
  ASSUME NEW t0, NEW ds0, Typed(ds0, t0), NEW x, NEW k \in Int, NEW t, NEW ds, NEW split,
         Climbed(t0, ds0, x, k, t, ds, split), split # NoSplit,
         NEW e \in InUseDirs(t0), k < t0.level[e], e # 0, t.dirs < MaxDirs,
         NEW j, NEW X, Takes(X, ds0[e], j, x, split),
         NEW m \in 1 .. Len(X.keys) - 1, m + 1 = Len(X.keys) => High(t0, e) = Top,
         NEW left, NEW right, IsHalves(left, right, X, m)
  PROVE  Climbed(t0, ds0, -e, t0.level[e], AfterSplit(t, e, X.keys[m + 1]),
                 [ds EXCEPT ![e] = left, ![t.dirs] = right],
                 [key |-> X.keys[m + 1], page |-> -t.dirs])
<1> DEFINE E == [ds EXCEPT ![e] = X]
           D == [ds EXCEPT ![e] = left, ![t.dirs] = right]
           K == X.keys[m + 1]
           T == AfterSplit(t, e, K)
           nd == t.dirs
<1>1. /\ Climbed(t0, ds0, -e, t0.level[e], t, E, NoSplit)
      /\ e \in InUseDirs(t) /\ High(t, e) = High(t0, e) /\ DOMAIN ds = DirPages
  BY ClimbRoom
<1>2. Whole(E, t) /\ Kept(t0, ds0, t, E, t0.level[e]) BY <1>1 DEF Climbed
<1>3. Typed(E, t) /\ MaxDirs \in Nat /\ MaxLeaves \in Nat BY <1>2, TreeAssumption DEF Whole, Tree
<1>4. /\ nd \in 1 .. MaxDirs - 1 /\ e \in 1 .. nd - 1 /\ t.leaves \in 1 .. MaxLeaves
      /\ t0.dirs \in 1 .. nd
  <2>1. nd \in 1 .. MaxDirs - 1 /\ t.leaves \in 1 .. MaxLeaves BY <1>3 DEF Typed
  <2>2. t0.dirs \in Int /\ t0.dirs >= 1 BY DEF Typed
  <2> QED BY <1>1, <1>2, <2>1, <2>2 DEF Kept, InUseDirs
<1>5. nd \in DirPages /\ e \in DirPages /\ e # nd BY <1>3, <1>4 DEF DirPages
<1>6. E[e] = X /\ \A c \in DirPages : c # e => E[c] = ds[c] BY <1>1, <1>5
<1>7. /\ DOMAIN D = DirPages /\ D[e] = left /\ D[nd] = right
      /\ \A c \in DirPages : c # e /\ c # nd => D[c] = ds[c]
  BY <1>1, <1>5
<1>8. IsHalves(left, right, E[e], m) /\ E[e].keys = X.keys BY <1>6
<1> HIDE DEF E, D
<1>9. Tree(D, T, -e, -nd)
  <2>1. \A c \in DirPages : c # e /\ c # nd => D[c] = E[c] BY <1>6, <1>7
  <2>2. m \in 1 .. Len(E[e].keys) - 1 /\ (m + 1 = Len(E[e].keys) => High(t, e) = Top)
    BY <1>1, <1>8
  <2>3. Tree(D, AfterSplit(t, e, E[e].keys[m + 1]), -e, -nd)
    BY <1>1, <1>2, <1>4, <1>7, <1>8, <2>1, <2>2, DirSplit
  <2> QED BY <1>8, <2>3
<1>10. t.lo \in [Refs -> Int] /\ t.hi \in [Refs -> Int] /\ t.level \in [DirPages -> Nat]
  BY <1>3 DEF Typed
<1>11. -nd \in Refs /\ -e \in Refs /\ -nd # -e
  <2>1. \A d \in 0 .. MaxDirs : -d \in Refs BY <1>3 DEF Refs
  <2>2. nd \in 0 .. MaxDirs /\ e \in 0 .. MaxDirs /\ nd \in Int /\ e \in Int /\ e < nd BY <1>3, <1>4
  <2>3. -nd # -e BY <2>2
  <2> QED BY <2>1, <2>2, <2>3
<1>12. /\ T.dirs = nd + 1 /\ T.leaves = t.leaves
       /\ T.lo[-nd] = K /\ T.hi[-nd] = t.hi[-e] /\ T.hi[-e] = K
       /\ \A c \in Refs : c # -nd => T.lo[c] = t.lo[c]
       /\ \A c \in Refs : c # -nd /\ c # -e => T.hi[c] = t.hi[c]
       /\ \A d \in DirPages : d # nd => T.level[d] = t.level[d]
  <2> DEFINE y == -nd
             z == -e
  <2>0. y \in Refs /\ z \in Refs /\ y # z BY <1>11
  <2>1. /\ T.lo = [t.lo EXCEPT ![y] = K] /\ T.hi = [t.hi EXCEPT ![y] = t.hi[z], ![z] = K]
        /\ T.level = [t.level EXCEPT ![nd] = t.level[e]]
        /\ T.dirs = nd + 1 /\ T.leaves = t.leaves
    BY DEF AfterSplit
  <2> HIDE DEF y, z, T, K
  <2>2. T.lo[y] = K /\ \A c \in Refs : c # y => T.lo[c] = t.lo[c] BY <1>10, <2>0, <2>1
  <2>3. T.hi[y] = t.hi[z] /\ T.hi[z] = K /\ \A c \in Refs : c # y /\ c # z => T.hi[c] = t.hi[c]
    BY <1>10, <2>0, <2>1
  <2>4. \A d \in DirPages : d # nd => T.level[d] = t.level[d] BY <1>10, <2>1
  <2> QED BY <2>1, <2>2, <2>3, <2>4 DEF y, z
<1> HIDE DEF T
<1>13. KeysIn(X, t, e) /\ K \in Int /\ Low(t, e) < K /\ K < High(t, e)
  <2>1. KeysIn(X, t, e) BY <1>1, <1>2, <1>6 DEF Whole, Tree
  <2>2. X.keys \in Seq(Int) BY DEF Takes, IsDir
  <2>3. m + 1 \in 1 .. Len(X.keys) BY <2>2
  <2> QED BY <2>1, <2>2, <2>3 DEF KeysIn
<1>14. Low(t, e) = t.lo[-e] /\ High(t, e) = t.hi[-e] BY <1>4 DEF Low, High
<1> HIDE DEF K
<1>15. Bounded(T)
  <2>1. ASSUME NEW c \in -(T.dirs - 1) .. T.leaves - 1 PROVE 0 <= T.lo[c] /\ T.hi[c] <= Top
    <3>0. c \in -nd .. t.leaves - 1 BY <1>4, <1>12
    <3>a. nd \in 0 .. MaxDirs /\ t.leaves \in 0 .. MaxLeaves BY <1>3, <1>4
    <3>1. c \in Refs
      <4> DEFINE w == t.leaves
      <4>1. w \in 0 .. MaxLeaves /\ c \in -nd .. w - 1 BY <3>0, <3>a
      <4> HIDE DEF w, nd
      <4> QED BY <3>a, <4>1, InRefs
    <3>2. -e \in -(nd - 1) .. t.leaves - 1 BY <1>4
    <3>3. 0 <= t.lo[-e] /\ t.hi[-e] <= Top BY <1>2, <3>2 DEF Kept, Bounded
    <3>4. Top \in Int /\ t.lo[-e] \in Int /\ t.hi[-e] \in Int
      BY <1>10, <1>11, TreeAssumption DEF Top
    <3>5. 0 <= K /\ K <= Top BY <1>13, <1>14, <3>3, <3>4
    <3>6. CASE c = -nd BY <1>12, <3>3, <3>5, <3>6
    <3>7. CASE c # -nd
      <4>0. nd \in Int /\ t.leaves - 1 \in Int BY <1>3, <1>4
      <4>1. c \in -(nd - 1) .. t.leaves - 1 BY <3>0, <3>7, <4>0, NextInterval
      <4>2. 0 <= t.lo[c] /\ t.hi[c] <= Top BY <1>2, <4>1 DEF Kept, Bounded
      <4> QED BY <1>12, <3>1, <3>5, <3>7, <4>2
    <3> QED BY <3>6, <3>7
  <2> QED BY <2>1 DEF Bounded
<1>16. Kept(t0, ds0, T, D, t0.level[e])
  <2>1. T.leaves = t0.leaves /\ T.dirs >= t0.dirs BY <1>2, <1>4, <1>12 DEF Kept
  <2>2. ASSUME NEW c \in 0 .. t0.leaves - 1 PROVE T.lo[c] = t0.lo[c] /\ T.hi[c] = t0.hi[c]
    <3>1. t0.leaves = t.leaves BY <1>2 DEF Kept
    <3>a. t.leaves \in 0 .. MaxLeaves /\ 0 \in 0 .. MaxDirs /\ c \in -0 .. t.leaves - 1 BY <1>3, <1>4, <3>1
    <3>b. c \in Refs /\ c \in Int BY <3>a, InRefs
    <3>2. c \in Refs /\ c # -nd /\ c # -e BY <1>4, <3>b
    <3>3. t.lo[c] = t0.lo[c] /\ t.hi[c] = t0.hi[c] BY <1>2 DEF Kept
    <3> QED BY <1>12, <3>2, <3>3
  <2>3. ASSUME NEW c \in InUseDirs(t0)
        PROVE  c \in DirPages /\ c # nd /\ (c # 0 => -c \in Refs /\ -c # -nd /\ (c # e => -c # -e))
    <3>1. c \in 0 .. nd - 1 BY <1>4 DEF InUseDirs
    <3>2. nd \in Int /\ e \in Int /\ c \in Int BY <1>3, <1>4, <3>1
    <3>3. c \in DirPages /\ c # nd BY <1>3, <1>4, <3>1 DEF DirPages
    <3>4. -c \in Refs BY <1>3, <1>4, <3>1 DEF Refs
    <3>5. -c # -nd /\ (c # e => -c # -e) BY <3>2, <3>3
    <3> QED BY <3>3, <3>4, <3>5
  <2>4. ASSUME NEW c \in InUseDirs(t0) PROVE T.level[c] = t0.level[c]
    <3>1. t.level[c] = t0.level[c] BY <1>2 DEF Kept
    <3> QED BY <1>12, <2>3, <3>1
  <2>5. ASSUME NEW c \in InUseDirs(t0), t0.level[c] > t0.level[e]
        PROVE  D[c] = ds0[c] /\ Low(T, c) = Low(t0, c) /\ High(T, c) = High(t0, c)
    <3>1. t0.level[c] \in Int /\ t0.level[e] \in Int BY DirFacts
    <3>2. c # e BY <2>5, <3>1
    <3>3. E[c] = ds0[c] /\ Low(t, c) = Low(t0, c) /\ High(t, c) = High(t0, c) BY <1>2, <2>5 DEF Kept
    <3>4. D[c] = E[c] BY <1>6, <1>7, <2>3, <3>2
    <3>5. Low(T, c) = Low(t, c) /\ High(T, c) = High(t, c) BY <1>12, <2>3, <3>2 DEF Low, High
    <3> QED BY <3>3, <3>4, <3>5
  <2> QED BY <1>15, <2>1, <2>2, <2>4, <2>5 DEF Kept
<1> DEFINE w == [key |-> K, page |-> -nd]
<1>17. w.key = K /\ w.page = -nd /\ -nd # 0 BY <1>4
<1>18. w # NoSplit BY <1>17 DEF NoSplit
<1> HIDE DEF w
<1>19. Climbed(t0, ds0, -e, t0.level[e], T, D, w)
  BY <1>9, <1>11, <1>12, <1>16, <1>17, <1>18 DEF Climbed
<1> QED BY <1>19 DEF w, D, T, K

\* At most one directory was asked for, and append_page gave a new page.
NewPage(t0, s) == s.asked <= 1 /\ (s.asked > 0 => dir_pages = t0.dirs /\ t0.dirs < MaxDirs)

\* The steps up to level k are done, without asking twice for a page.
PostAt(t0, x, k, s) ==
  NewPage(t0, s) => \E t : /\ t.dirs = t0.dirs + s.asked
                           /\ Climbed(t0, dirs, x, k, t, s.dirs, s.split)

LEMMA ClimbNoSplit ==
  ASSUME NEW t0, NEW ds0, Typed(ds0, t0), NEW x, NEW k \in Int, NEW t, NEW ds, NEW y,
         NEW e \in InUseDirs(t0), k < t0.level[e], Climbed(t0, ds0, x, k, t, ds, NoSplit)
  PROVE  Climbed(t0, ds0, y, t0.level[e], t, ds, NoSplit)
<1>1. Kept(t0, ds0, t, ds, k) /\ Whole(ds, t) BY DEF Climbed
<1>2. \A c \in InUseDirs(t0) : t0.level[c] \in Int BY DirFacts
<1>3. \A c \in InUseDirs(t0) : t0.level[c] > t0.level[e] => t0.level[c] > k BY <1>2
<1>4. Kept(t0, ds0, t, ds, t0.level[e]) BY <1>1, <1>3 DEF Kept
<1> QED BY <1>1, <1>4 DEF Climbed

\* The key of the other half goes to the right of x.
LEMMA PlaceOfKey ==
  ASSUME NEW ds, NEW t, NEW x, NEW n, Tree(ds, t, x, n), x # n, NEW K \in Int, K = t.lo[n],
         NEW e \in InUseDirs(t), Len(ds[e].keys) <= DirMax,
         NEW j \in Kids(ds[e]), ds[e].children[j] = x
  PROVE  SearchChild(ds[e], K) = j - 1
<1> DEFINE dir == ds[e]
<1>1. Typed(ds, t) /\ Pending(ds, t, x, n) /\ KeysIn(dir, t, e) /\ ChildrenIn(dir, t, x, n, e)
  BY DEF Tree
<1>2. e \in DirPages /\ dir.keys \in Seq(Int) /\ Low(t, e) \in Int /\ High(t, e) \in Int
  BY <1>1, DirFacts
<1>3. IsDir(dir) BY <1>1, <1>2 DEF Typed
<1>4. ChildIn(x, dir, t, x, n, e, j) BY <1>1 DEF ChildrenIn
<1>5. t.lo[x] = Lower(dir, t, e, j) /\ t.hi[n] = Upper(dir, t, e, j) BY <1>4 DEF ChildIn, Seen
<1>6. t.lo[x] < K /\ K < t.hi[n] BY <1>1 DEF Pending
<1>7. Lower(dir, t, e, j) \in Int
  <2>1. j \in 1 .. Len(dir.keys) + 1 BY DEF Kids
  <2>2. CASE j = 1 BY <1>2, <2>2 DEF Lower
  <2>3. CASE j # 1
    <3>1. j - 1 \in 1 .. Len(dir.keys) BY <1>2, <2>1, <2>3
    <3> QED BY <1>2, <2>3, <3>1 DEF Lower
  <2> QED BY <2>2, <2>3
<1>8. Lower(dir, t, e, j) <= K /\ K < Upper(dir, t, e, j) BY <1>5, <1>6, <1>7
<1> QED BY <1>1, <1>3, <1>8, ChildUnique

LEMMA InsertStep ==
  ASSUME NEW t0, Typed(dirs, t0), dir_pages \in Nat,
         NEW x, NEW k \in Int, NEW s \in Ups, PostAt(t0, x, k, s),
         NEW e \in InUseDirs(t0), k < t0.level[e], NEW j \in Kids(dirs[e]), dirs[e].children[j] = x
  PROVE  LET u == DirStep(e, s) IN
         /\ PostAt(t0, -e, t0.level[e], u)
         /\ e = 0 /\ NewPage(t0, u) => u.split = NoSplit
<1> DEFINE u == DirStep(e, s)
           dir == s.dirs[e]
           X == With(dir, SearchChild(dir, s.split.key), s.split)
           m == Middle(DirMax)
<1> SUFFICES ASSUME NewPage(t0, u)
             PROVE  /\ \E t : /\ t.dirs = t0.dirs + u.asked
                              /\ Climbed(t0, dirs, -e, t0.level[e], t, u.dirs, u.split)
                    /\ e = 0 => u.split = NoSplit
  BY DEF PostAt
<1>1. e \in DirPages /\ t0.level[e] \in Nat BY DirFacts
<1>2. t0.dirs \in Nat /\ dir_pages \in Nat /\ MaxDirs \in Nat /\ DirMax \in Nat
  BY TreeAssumption DEF Typed
<1>3. /\ u \in Ups /\ u.asked >= s.asked
      /\ s.split = NoSplit => u = s
      /\ s.split # NoSplit /\ Len(dir.keys) < DirMax =>
           u.dirs = [s.dirs EXCEPT ![e] = X] /\ u.asked = s.asked /\ u.split = NoSplit
      /\ s.split # NoSplit /\ Len(dir.keys) = DirMax /\ e = 0 => u.asked = s.asked + 2
      /\ s.split # NoSplit /\ Len(dir.keys) = DirMax /\ e # 0 =>
           /\ u.dirs = [s.dirs EXCEPT ![e] = LeftHalf(X), ![dir_pages] = RightHalf(X)]
           /\ u.asked = s.asked + 1
           /\ u.split = [key |-> X.keys[m + 1], page |-> -dir_pages]
  BY <1>1, <1>2, DirStepFacts
<1>4. s.asked \in Nat /\ u.asked \in Nat /\ s.dirs \in [DirPages -> DirRecs] /\ s.split \in SplitRecs
  BY <1>3 DEF Ups
<1>5. NewPage(t0, s) /\ u.asked <= 1 BY <1>3, <1>4 DEF NewPage
<1>6. PICK t : t.dirs = t0.dirs + s.asked /\ Climbed(t0, dirs, x, k, t, s.dirs, s.split)
  BY <1>5 DEF PostAt
<1>7. IsDir(dir) /\ Len(dir.keys) <= DirMax /\ Len(dir.keys) \in Nat
  BY <1>1, <1>4 DEF DirRecs, IsDir
<1>8. CASE s.split = NoSplit
  <2>1. Climbed(t0, dirs, -e, t0.level[e], t, s.dirs, NoSplit) BY <1>6, <1>8, ClimbNoSplit
  <2> QED BY <1>3, <1>6, <1>8, <2>1
<1>9. CASE s.split # NoSplit
  <2>1. Kept(t0, dirs, t, s.dirs, k) /\ Tree(s.dirs, t, x, s.split.page) /\ x # s.split.page
        /\ s.split.key = t.lo[s.split.page]
    BY <1>6, <1>9 DEF Climbed
  <2>2. dir = dirs[e] BY <1>1, <2>1 DEF Kept
  <2>3. e \in InUseDirs(t) BY <1>2, <1>4, <1>6 DEF InUseDirs
  <2>4. s.split.key \in Int BY <1>4 DEF SplitRecs
  <2>a. j \in Kids(s.dirs[e]) /\ s.dirs[e].children[j] = x /\ Len(s.dirs[e].keys) <= DirMax
    BY <1>7, <2>2
  <2>5. SearchChild(dir, s.split.key) = j - 1
    <3> DEFINE ds == s.dirs
               page == s.split.page
               K == s.split.key
    <3>1. Tree(ds, t, x, page) /\ x # page /\ K \in Int /\ K = t.lo[page] BY <2>1, <2>4
    <3>2. j \in Kids(ds[e]) /\ ds[e].children[j] = x /\ Len(ds[e].keys) <= DirMax BY <2>a
    <3> HIDE DEF ds, page, K
    <3>3. SearchChild(ds[e], K) = j - 1 BY <2>3, <3>1, <3>2, PlaceOfKey
    <3> QED BY <3>3 DEF ds, K
  <2>6. j \in 1 .. Len(dir.keys) + 1 BY <2>2 DEF Kids
  <2>7. j - 1 \in 0 .. Len(dir.keys) /\ (j - 1) + 1 = j /\ (j - 1) + 2 = j + 1 BY <1>7, <2>6
  <2>8. /\ IsDir(X) /\ Len(X.keys) = Len(dir.keys) + 1
        /\ IsInserted(X.keys, dir.keys, (j - 1) + 1, s.split.key)
        /\ IsInserted(X.children, dir.children, (j - 1) + 2, s.split.page)
    BY <1>4, <1>7, <2>5, <2>7, WithFacts
  <2> HIDE DEF X, dir, u, m
  <2>9. Takes(X, dirs[e], j, x, s.split) BY <2>2, <2>7, <2>8 DEF Takes
  <2>10. CASE Len(dir.keys) < DirMax
    <3>1. u.dirs = [s.dirs EXCEPT ![e] = X] /\ u.asked = s.asked /\ u.split = NoSplit
      BY <1>3, <1>9, <2>10
    <3>2. Climbed(t0, dirs, -e, t0.level[e], t, [s.dirs EXCEPT ![e] = X], NoSplit)
      BY <1>6, <1>9, <2>9, ClimbRoom
    <3> QED BY <1>6, <3>1, <3>2
  <2>11. CASE ~ (Len(dir.keys) < DirMax)
    <3>1. Len(dir.keys) = DirMax BY <1>2, <1>7, <2>11
    <3>2. e # 0
      <4> SUFFICES ASSUME e = 0 PROVE FALSE OBVIOUS
      <4>1. u.asked = s.asked + 2 BY <1>3, <1>9, <3>1
      <4> QED BY <1>4, <1>5, <4>1
    <3>3. /\ u.dirs = [s.dirs EXCEPT ![e] = LeftHalf(X), ![dir_pages] = RightHalf(X)]
          /\ u.asked = s.asked + 1
          /\ u.split = [key |-> X.keys[m + 1], page |-> -dir_pages]
      BY <1>3, <1>9, <3>1, <3>2
    <3>4. s.asked = 0 BY <1>4, <1>5, <3>3
    <3>a. dir_pages = t0.dirs /\ t0.dirs < MaxDirs BY <3>3, <3>4 DEF NewPage
    <3>5. t.dirs = t0.dirs /\ t.dirs = dir_pages /\ t.dirs < MaxDirs BY <1>2, <1>6, <3>4, <3>a
    <3>6. Len(X.keys) = DirMax + 1 BY <2>8, <3>1
    <3>7. IsHalves(LeftHalf(X), RightHalf(X), X, m) /\ m \in 1 .. DirMax - 1
      BY <2>8, <3>6, HalvesFacts DEF m
    <3>8. m \in 1 .. Len(X.keys) - 1 /\ m + 1 # Len(X.keys) BY <1>2, <3>6, <3>7
    <3>9. Climbed(t0, dirs, -e, t0.level[e], AfterSplit(t, e, X.keys[m + 1]),
                  [s.dirs EXCEPT ![e] = LeftHalf(X), ![t.dirs] = RightHalf(X)],
                  [key |-> X.keys[m + 1], page |-> -t.dirs])
      BY <1>6, <1>9, <2>9, <3>2, <3>5, <3>7, <3>8, ClimbSplit
    <3>10. AfterSplit(t, e, X.keys[m + 1]).dirs = t0.dirs + u.asked
      <4>1. AfterSplit(t, e, X.keys[m + 1]).dirs = t.dirs + 1 BY DEF AfterSplit
      <4>2. u.asked = 1 BY <3>3, <3>4
      <4> QED BY <3>5, <4>1, <4>2
    <3> QED BY <3>2, <3>3, <3>5, <3>9, <3>10
  <2> QED BY <2>10, <2>11
<1> QED BY <1>8, <1>9

\* The leaves have the same records.
LeavesSame(t, T) ==
  T.leaves = t.leaves /\ \A c \in 0 .. t.leaves - 1 : T.lo[c] = t.lo[c] /\ T.hi[c] = t.hi[c]

LEMMA LeafStarts ==
  ASSUME NEW ds, NEW t, Whole(ds, t), Bounded(t), t.leaves < MaxLeaves,
         NEW b \in 0 .. t.leaves - 1, NEW K \in Int, t.lo[b] < K, K < t.hi[b]
  PROVE  /\ Typed(ds, AfterLeaf(t, b, K))
         /\ Climbed(AfterLeaf(t, b, K), ds, b, -1, AfterLeaf(t, b, K), ds,
                    [key |-> K, page |-> t.leaves])
<1> DEFINE T == AfterLeaf(t, b, K)
           n == t.leaves
           w == [key |-> K, page |-> n]
<1>1. Typed(ds, t) BY DEF Whole, Tree
<1>2. Tree(ds, T, b, n) BY LeafAdded
<1>3. Typed(ds, T) BY <1>2 DEF Tree
<1>4. /\ n \in Refs /\ b \in Refs /\ n # b /\ n # 0
      /\ T.dirs = t.dirs /\ T.leaves = n + 1 /\ T.level = t.level
      /\ T.lo[n] = K /\ T.hi[n] = t.hi[b] /\ T.hi[b] = K
      /\ \A c \in Refs : c # n => T.lo[c] = t.lo[c]
      /\ \A c \in Refs : c # n /\ c # b => T.hi[c] = t.hi[c]
  BY <1>1, LeafFacts
<1>5. /\ MaxDirs \in Nat /\ MaxLeaves \in Nat /\ n \in 1 .. MaxLeaves - 1 /\ t.dirs \in 1 .. MaxDirs
      /\ Top \in Int /\ t.lo \in [Refs -> Int] /\ t.hi \in [Refs -> Int]
  BY <1>1, TreeAssumption DEF Typed, Top
<1> HIDE DEF T
<1>6. Bounded(T)
  <2>1. ASSUME NEW c \in -(T.dirs - 1) .. T.leaves - 1 PROVE 0 <= T.lo[c] /\ T.hi[c] <= Top
    <3>1. c \in -(t.dirs - 1) .. n BY <1>4, <1>5
    <3>a. c \in Int /\ -(t.dirs - 1) <= c /\ c <= n /\ n \in Int /\ n < MaxLeaves BY <1>5, <3>1
    <3>b. -MaxDirs <= c /\ c <= MaxLeaves BY <1>5, <3>a
    <3>2. c \in Refs BY <1>5, <3>a, <3>b DEF Refs
    <3>3. b \in -(t.dirs - 1) .. t.leaves - 1 BY <1>5
    <3>4. 0 <= t.lo[b] /\ t.hi[b] <= Top BY <3>3 DEF Bounded
    <3>5. t.lo[b] \in Int /\ t.hi[b] \in Int BY <1>4, <1>5
    <3>6. 0 <= K /\ K <= Top BY <1>5, <3>4, <3>5
    <3>7. CASE c = n BY <1>4, <3>4, <3>6, <3>7
    <3>8. CASE c # n
      <4>1. c \in -(t.dirs - 1) .. t.leaves - 1 BY <1>5, <3>1, <3>8
      <4>2. 0 <= t.lo[c] /\ t.hi[c] <= Top BY <4>1 DEF Bounded
      <4> QED BY <1>4, <3>2, <3>6, <3>8, <4>2
    <3> QED BY <3>7, <3>8
  <2> QED BY <2>1 DEF Bounded
<1>7. Kept(T, ds, T, ds, -1)
  <2>1. T.dirs >= T.dirs BY <1>4, <1>5
  <2> QED BY <1>6, <2>1 DEF Kept
<1>8. w.key = K /\ w.page = n /\ w # NoSplit BY <1>4 DEF NoSplit
<1> HIDE DEF w
<1>9. Climbed(T, ds, b, -1, T, ds, w) BY <1>2, <1>4, <1>7, <1>8 DEF Climbed
<1> QED BY <1>3, <1>9 DEF T, w

\* The directories after a split of the leaf for r are a tree again.
LEMMA PropagatedExact ==
  ASSUME NEW t, Whole(dirs, t), Bounded(t), dirs \in [DirPages -> DirRecs],
         dir_pages \in Nat, t.leaves < MaxLeaves,
         NEW r \in Int, LeafFor(r) \in 0 .. t.leaves - 1,
         NEW K \in Int, t.lo[LeafFor(r)] < K, K < t.hi[LeafFor(r)]
  PROVE  LET up == Propagated(r, [key |-> K, page |-> t.leaves]) IN
         /\ up \in Ups
         /\ NewPage(t, up) => \E T : /\ T.dirs = t.dirs + up.asked /\ Bounded(T)
                                     /\ LeavesSame(AfterLeaf(t, LeafFor(r), K), T)
                                     /\ Whole(up.dirs, T)
<1> DEFINE b == LeafFor(r)
           t0 == AfterLeaf(t, b, K)
           w == [key |-> K, page |-> t.leaves]
           s0 == [dirs |-> dirs, asked |-> 0, split |-> w]
           From(d, f) == IF Child(d, r) < 0 THEN f[-Child(d, r)] ELSE s0
           H == [d \in DirPages |-> [f \in [DirPages -> Ups] |-> DirStep(d, From(d, f))]]
<1>1. Typed(dirs, t) /\ MaxDirs \in Nat BY TreeAssumption DEF Whole, Tree
<1>2. t.dirs \in 1 .. MaxDirs /\ t.leaves \in Int /\ t.level \in [DirPages -> Nat] /\ 0 \in DirPages
      /\ dir_pages \in Nat
  BY <1>1 DEF Typed, DirPages
<1>3. Sizes(dirs) BY DEF Sizes, DirRecs
<1>4. \A d \in DirPages : /\ Child(d, r) \in Int
                          /\ Child(d, r) < 0 => /\ -Child(d, r) \in DirPages
                                                /\ -Child(d, r) \in InUseDirs(t)
                                                /\ t.level[-Child(d, r)] < t.level[d]
  BY <1>3, ChildDown
<1>5. PICK below : Below(below, r) /\ b = below[0] BY <1>3, LeafForDefined
<1> HIDE DEF b
<1>6. b \in 0 .. t.leaves - 1 /\ t.lo[b] < K /\ K < t.hi[b] BY DEF b
<1>7. Typed(dirs, t0) /\ Climbed(t0, dirs, b, -1, t0, dirs, w) BY <1>6, LeafStarts
<1>8. t0.dirs = t.dirs /\ t0.level = t.level /\ t0.leaves = t.leaves + 1 BY DEF AfterLeaf
<1>9. s0 \in Ups
  <2>1. w \in SplitRecs BY <1>2 DEF SplitRecs
  <2> HIDE DEF w
  <2> QED BY <2>1 DEF Ups
<1>10. s0.asked = 0 /\ s0.dirs = dirs /\ s0.split = w OBVIOUS
<1> HIDE DEF t0, w, s0
<1>11. PostAt(t0, b, -1, s0)
  <2>1. t0.dirs = t0.dirs + s0.asked BY <1>2, <1>8, <1>10
  <2> QED BY <1>7, <1>10, <2>1 DEF PostAt
<1>12. \A d \in DirPages : \A f \in [DirPages -> Ups] : From(d, f) \in Ups BY <1>4, <1>9
<1>13. Descends(DirPages, Ups, t.level[0], t.level, H)
  <2>1. t.level[0] \in Nat /\ Ups # {} BY <1>2, <1>9
  <2>2. t.level \in [DirPages -> 0 .. t.level[0]]
    <3>1. \A d \in DirPages : t.level[d] \in 0 .. t.level[0] BY <1>1, <1>2, <2>1 DEF Typed
    <3> QED BY <1>2, <3>1
  <2>3. H \in [DirPages -> [[DirPages -> Ups] -> Ups]]
    <3>1. ASSUME NEW d \in DirPages, NEW f \in [DirPages -> Ups] PROVE DirStep(d, From(d, f)) \in Ups
      BY <1>2, <1>12, DirStepFacts
    <3> HIDE DEF From
    <3> QED BY <3>1
  <2>4. ASSUME NEW d \in DirPages, NEW f \in [DirPages -> Ups], NEW g \in [DirPages -> Ups],
               \A e \in DirPages : t.level[e] < t.level[d] => f[e] = g[e]
        PROVE  H[d][f] = H[d][g]
    <3>1. From(d, f) = From(d, g) BY <1>4, <2>4
    <3> HIDE DEF From
    <3> QED BY <3>1
  <2> HIDE DEF H
  <2> QED BY <2>1, <2>2, <2>3, <2>4, Zenon DEF Descends
<1> HIDE DEF From, H
<1>14. Solvable(DirPages, Ups, H) BY <1>13, RecursionExists, Zenon
<1>15. PICK g \in [DirPages -> Ups] : g = [d \in DirPages |-> H[d][g]] BY <1>14 DEF Solvable
<1>16. g = [d \in DirPages |-> DirStep(d, From(d, g))] BY <1>15 DEF H
<1> DEFINE Eq(f) == f = [d \in DirPages |-> DirStep(d, IF Child(d, r) < 0 THEN f[-Child(d, r)]
                                                      ELSE [dirs |-> dirs, asked |-> 0, split |-> w])]
           after == CHOOSE f : Eq(f)
<1>17. Eq(after)
  <2>1. Eq(g) BY <1>16 DEF From, s0
  <2> QED BY <2>1, Zenon
<1>18. Propagated(r, w) = after[0] BY Zenon DEF Propagated
<1>19. after = [d \in DirPages |-> DirStep(d, From(d, after))] BY <1>17, Zenon DEF From, s0
<1> HIDE DEF Eq, after
\* The chosen function is of the type.
<1> DEFINE Bad(d) == after[d] \notin Ups
           B == {k \in Nat : \E d \in DirPages : t.level[d] = k /\ Bad(d)}
<1>20. B = {}
  <2> SUFFICES ASSUME B # {} PROVE FALSE OBVIOUS
  <2>1. PICK k \in B : \A l \in B : k <= l BY Least
  <2>2. PICK d \in DirPages : t.level[d] = k /\ Bad(d) OBVIOUS
  <2>3. From(d, after) \in Ups
    <3>1. CASE Child(d, r) < 0
      <4> DEFINE e == -Child(d, r)
      <4>1. e \in DirPages /\ t.level[e] < t.level[d] BY <1>4, <3>1
      <4>2. From(d, after) = after[e] BY <3>1 DEF From
      <4> HIDE DEF e
      <4>3. t.level[e] \in Nat /\ t.level[d] \in Nat BY <1>2, <4>1
      <4>4. t.level[e] \notin B BY <2>1, <2>2, <4>1, <4>3
      <4> QED BY <4>1, <4>2, <4>3, <4>4
    <3>2. CASE ~ (Child(d, r) < 0) BY <1>9, <3>2 DEF From
    <3> QED BY <3>1, <3>2
  <2>4. DirStep(d, From(d, after)) \in Ups BY <1>2, <2>3, DirStepFacts
  <2>5. after[d] = DirStep(d, From(d, after)) BY <1>19
  <2> QED BY <2>2, <2>4, <2>5
<1>21. \A d \in DirPages : after[d] \in Ups
  <2> TAKE d \in DirPages
  <2>1. t.level[d] \in Nat BY <1>2
  <2> QED BY <1>20, <2>1
\* Every directory on the way down is as it should be on the way up.
<1> DEFINE Done(d) == /\ PostAt(t0, -d, t0.level[d], after[d])
                      /\ d = 0 /\ NewPage(t0, after[d]) => after[d].split = NoSplit
           Late(d) == d \in InUseDirs(t0) /\ below[d] = b /\ ~Done(d)
           C == {k \in Nat : \E d \in DirPages : t.level[d] = k /\ Late(d)}
<1> HIDE DEF Done
<1>22. C = {}
  <2> SUFFICES ASSUME C # {} PROVE FALSE OBVIOUS
  <2>1. PICK k \in C : \A l \in C : k <= l BY Least
  <2>2. PICK d \in DirPages : t.level[d] = k /\ Late(d) OBVIOUS
  <2> DEFINE c == Child(d, r)
             s == From(d, after)
             i == SearchChild(dirs[d], r)
             j == i + 1
  <2>3. after[d] = DirStep(d, s) BY <1>19
  <2>4. j \in Kids(dirs[d]) /\ dirs[d].children[j] = c
    <3>1. dirs[d].keys \in Seq(Int) /\ Len(dirs[d].keys) \in Nat BY <1>7, <2>2, DirFacts
    <3>2. i \in 0 .. Len(dirs[d].keys) BY <1>3, <3>1, SearchChildExact DEF Sizes
    <3> HIDE DEF i
    <3>3. j \in Kids(dirs[d]) BY <3>1, <3>2 DEF Kids
    <3> QED BY <3>3 DEF Child, i
  <2>5. t0.level[d] \in Nat BY <1>2, <1>8
  <2> HIDE DEF c, s, j
  <2>6. \E l \in Int : l < t0.level[d] /\ s \in Ups /\ PostAt(t0, c, l, s)
    <3>1. CASE c < 0
      <4> DEFINE e == -c
      <4>1. e \in DirPages /\ e \in InUseDirs(t) /\ t.level[e] < t.level[d] BY <1>4, <3>1 DEF c
      <4>2. s = after[e] BY <3>1 DEF s, From, c
      <4>3. below[e] = b BY <1>5, <2>2, <3>1 DEF Below, c
      <4>a. c \in Int BY <1>4 DEF c
      <4>4. -e = c BY <4>a
      <4> HIDE DEF e
      <4>5. e \in InUseDirs(t0) BY <1>8, <4>1 DEF InUseDirs
      <4>6. t.level[e] \in Nat /\ t.level[d] \in Nat BY <1>2, <4>1
      <4>7. t.level[e] \notin C BY <2>1, <2>2, <4>1, <4>6
      <4>8. Done(e) BY <4>1, <4>3, <4>5, <4>6, <4>7
      <4>9. PostAt(t0, c, t0.level[e], s) BY <4>2, <4>4, <4>8 DEF Done
      <4>10. t0.level[e] \in Int /\ t0.level[e] < t0.level[d] BY <1>8, <4>1, <4>6
      <4> QED BY <1>21, <4>1, <4>2, <4>9, <4>10
    <3>2. CASE ~ (c < 0)
      <4>1. s = s0 BY <3>2 DEF s, From, c
      <4>2. c = b BY <1>5, <2>2, <3>2 DEF Below, c
      <4>3. -1 \in Int /\ -1 < t0.level[d] BY <2>5
      <4> QED BY <1>9, <1>11, <4>1, <4>2, <4>3
    <3> QED BY <3>1, <3>2
  <2>7. PICK l \in Int : l < t0.level[d] /\ s \in Ups /\ PostAt(t0, c, l, s) BY <2>6
  <2>8. d \in InUseDirs(t0) /\ dir_pages \in Nat BY <1>2, <2>2
  <2>9. /\ PostAt(t0, -d, t0.level[d], DirStep(d, s))
        /\ d = 0 /\ NewPage(t0, DirStep(d, s)) => DirStep(d, s).split = NoSplit
    BY <1>7, <2>4, <2>7, <2>8, InsertStep
  <2>10. Done(d) BY <2>3, <2>9 DEF Done
  <2> QED BY <2>2, <2>10
<1>23. Done(0)
  <2>1. 0 \in InUseDirs(t0) BY <1>2, <1>8 DEF InUseDirs
  <2>2. t.level[0] \in Nat BY <1>2
  <2> QED BY <1>2, <1>5, <1>22, <2>1, <2>2
<1> DEFINE up == after[0]
<1>24. up \in Ups BY <1>2, <1>21
<1>25. ASSUME NewPage(t, up)
       PROVE  \E T : /\ T.dirs = t.dirs + up.asked /\ Bounded(T) /\ LeavesSame(t0, T)
                     /\ Whole(up.dirs, T)
  <2>a. NewPage(t0, up) BY <1>8, <1>25 DEF NewPage
  <2>1. PICK T : /\ T.dirs = t0.dirs + up.asked
                 /\ Climbed(t0, dirs, -0, t0.level[0], T, up.dirs, up.split)
    BY <1>23, <2>a DEF Done, PostAt
  <2>2. up.split = NoSplit BY <1>23, <2>a DEF Done
  <2>3. Whole(up.dirs, T) /\ Kept(t0, dirs, T, up.dirs, t0.level[0]) BY <2>1, <2>2 DEF Climbed
  <2>4. Bounded(T) /\ LeavesSame(t0, T) BY <2>3 DEF Kept, LeavesSame
  <2> QED BY <1>8, <2>1, <2>3, <2>4
<1> QED BY <1>18, <1>24, <1>25 DEF w, t0, b

-----------------------------------------------------------------------------
(* The records of a leaf.                                                   *)

\* A leaf with the records of P from lo to below hi.  A slot that is not in use has
\* nothing, or a record that went to another leaf.
Content(l, lo, hi, P) ==
  /\ l.value_count \in 0 .. LeafMax /\ l.records \in [Slots -> 0 .. MaxRecord]
  /\ Ascending(l)
  /\ \A i \in 0 .. l.value_count - 1 : lo <= l.records[i] /\ l.records[i] < hi /\ l.records[i] \in P
  /\ \A r \in P : lo <= r /\ r < hi => \E i \in 0 .. l.value_count - 1 : l.records[i] = r
  /\ \A i \in Slots : i >= l.value_count => l.records[i] = 0 \/ l.records[i] >= hi

\* What insert() takes as the place of r.
PlaceIn(l, r) == IF l.value_count = 0 THEN 0 ELSE SearchIndex(l, r)

LEMMA PlaceFound ==
  ASSUME NEW l, NEW lo, NEW hi, NEW P, Content(l, lo, hi, P), NEW r \in Int
  PROVE  IsPlace(l, r, PlaceIn(l, r))
<1>1. l.value_count \in 0 .. LeafMax /\ l.records \in [Slots -> 0 .. MaxRecord] /\ Ascending(l)
      /\ LeafMax \in Nat /\ MaxRecord \in Nat
  BY TreeAssumption DEF Content
<1>2. CASE l.value_count = 0 BY <1>2 DEF IsPlace, PlaceIn
<1>3. CASE l.value_count # 0
  <2>1. l.value_count \in 1 .. LeafMax BY <1>1, <1>3
  <2>2. l.records \in [Slots -> Int] BY <1>1
  <2>3. IsPlace(l, r, SearchIndex(l, r)) BY <1>1, <2>1, <2>2, SearchIndexExact
  <2> QED BY <1>3, <2>3 DEF PlaceIn
<1> QED BY <1>2, <1>3

\* equal_record tells whether the record is there.
LEMMA EqualExact ==
  ASSUME NEW l, NEW lo, NEW hi, NEW P \in SUBSET Records, Content(l, lo, hi, P),
         NEW r \in Records, lo <= r, r < hi, hi \in Int
  PROVE  (l.value_count > 0 /\ EqualRecord(l, r, SearchIndex(l, r))) <=> r \in P
<1> DEFINE n == l.value_count
           rec == l.records
           i == SearchIndex(l, r)
<1>1. n \in 0 .. LeafMax /\ rec \in [Slots -> 0 .. MaxRecord] /\ Ascending(l)
      /\ LeafMax \in Nat /\ MaxRecord \in Nat /\ r \in Int /\ r > 0
  BY TreeAssumption DEF Content, Records
<1>2. CASE n = 0
  <2>1. 0 .. n - 1 = {} BY <1>2
  <2>2. r \notin P BY <2>1 DEF Content
  <2> QED BY <1>2, <2>2
<1>3. CASE n # 0
  <2>0. n \in 1 .. LeafMax /\ n > 0 BY <1>1, <1>3
  <2>1. IsPlace(l, r, i) BY <1>1, <1>3, PlaceFound DEF PlaceIn
  <2>2. i \in 0 .. n /\ \A k \in 0 .. n - 1 : rec[k] < r <=> k < i BY <2>1 DEF IsPlace
  <2> HIDE DEF i, n
  <2>3. \A k \in 0 .. n - 1 : k \in Slots /\ rec[k] \in Int BY <1>1 DEF Slots
  <2>4. ASSUME r \in P PROVE EqualRecord(l, r, i)
    <3>1. PICK k \in 0 .. n - 1 : rec[k] = r BY <2>4 DEF Content, n
    <3>2. ~ (k < i) BY <1>1, <2>2, <3>1
    <3>3. ~ (i < k)
      <4> SUFFICES ASSUME i < k PROVE FALSE OBVIOUS
      <4>1. i \in 0 .. n - 1 BY <1>1, <2>2
      <4>2. rec[i] < rec[k] BY <1>1, <4>1 DEF Ascending, n
      <4>3. i < i BY <2>2, <3>1, <4>1, <4>2
      <4> QED BY <2>2, <4>3
    <3>4. k = i BY <1>1, <2>2, <3>2, <3>3
    <3>5. i < LeafMax BY <1>1, <2>0, <3>4
    <3> QED BY <3>1, <3>4, <3>5 DEF EqualRecord
  <2>5. ASSUME EqualRecord(l, r, i) PROVE r \in P
    <3>1. i < LeafMax /\ rec[i] = r BY <2>5 DEF EqualRecord
    <3>2. CASE i < n
      <4>1. i \in 0 .. n - 1 BY <1>1, <2>2, <3>2
      <4> QED BY <3>1, <4>1 DEF Content, n
    <3>3. CASE ~ (i < n)
      <4>1. i \in Slots /\ i >= n BY <1>1, <2>2, <3>1, <3>3 DEF Slots
      <4>2. rec[i] = 0 \/ rec[i] >= hi BY <4>1 DEF Content, n
      <4> QED BY <1>1, <3>1, <4>2
    <3> QED BY <3>2, <3>3
  <2> QED BY <2>0, <2>4, <2>5 DEF i, n
<1> QED BY <1>2, <1>3

\* The records of l with r: those up to the n-th are in order and none is missing.
IsShifted(all, l, lo, hi, P, r) ==
  /\ all \in [0 .. LeafMax -> 0 .. MaxRecord]
  /\ \A a, b \in 0 .. l.value_count : a < b => all[a] < all[b]
  /\ \A a \in 0 .. l.value_count : lo <= all[a] /\ all[a] < hi /\ all[a] \in P \cup {r}
  /\ \A q \in P \cup {r} : lo <= q /\ q < hi => \E a \in 0 .. l.value_count : all[a] = q
  /\ \A a \in Slots : a > l.value_count => all[a] = l.records[a]

LEMMA ShiftedFacts ==
  ASSUME NEW l, NEW lo, NEW hi, NEW P \in SUBSET Records, Content(l, lo, hi, P),
         NEW r \in Records, lo <= r, r < hi, r \notin P, NEW i, IsPlace(l, r, i)
  PROVE  IsShifted(Shifted(l, r, i), l, lo, hi, P, r)
<1> DEFINE n == l.value_count
           rec == l.records
           all == Shifted(l, r, i)
<1>1. n \in 0 .. LeafMax /\ rec \in [Slots -> 0 .. MaxRecord] /\ Ascending(l)
      /\ LeafMax \in Nat /\ MaxRecord \in Nat /\ r \in Int /\ r \in 0 .. MaxRecord
  BY TreeAssumption DEF Content, Records
<1>2. i \in 0 .. n /\ \A k \in 0 .. n - 1 : rec[k] < r <=> k < i BY DEF IsPlace
<1>3. all = [k \in 0 .. LeafMax |-> IF k = i THEN r
                                    ELSE IF k > i /\ k <= n THEN rec[k - 1]
                                    ELSE IF k < LeafMax THEN rec[k] ELSE 0]
  BY DEF Shifted
<1>0. /\ \A k \in 0 .. n - 1 : lo <= rec[k] /\ rec[k] < hi /\ rec[k] \in P
      /\ \A q \in P : lo <= q /\ q < hi => \E k \in 0 .. n - 1 : rec[k] = q
      /\ \A k, m \in 0 .. n - 1 : k < m => rec[k] < rec[m]
  BY DEF Content, Ascending
<1> HIDE DEF n, rec, all
<1>4. \A k \in 0 .. n - 1 : k \in Slots /\ rec[k] \in Int /\ rec[k] \in 0 .. MaxRecord
  BY <1>1 DEF Slots
<1>5. \A k \in 0 .. n - 1 : (k < i => rec[k] < r) /\ (k >= i => r < rec[k])
  <2> TAKE k \in 0 .. n - 1
  <2>1. rec[k] # r BY <1>0
  <2>2. k \in Int /\ i \in Int BY <1>1, <1>2
  <2> QED BY <1>1, <1>2, <1>4, <2>1, <2>2
<1>6. \A k \in 0 .. n : k \in 0 .. LeafMax BY <1>1
<1>7. i \in 0 .. LeafMax /\ all[i] = r BY <1>1, <1>2, <1>3
<1>8. \A k \in 0 .. n : k < i => k \in 0 .. n - 1 /\ all[k] = rec[k]
  <2> TAKE k \in 0 .. n
  <2> HAVE k < i
  <2>1. k \in 0 .. n - 1 /\ k \in 0 .. LeafMax /\ k # i /\ ~ (k > i) /\ k < LeafMax BY <1>1, <1>2
  <2> QED BY <1>3, <2>1
<1>9. \A k \in 0 .. n : k > i => k - 1 \in 0 .. n - 1 /\ k - 1 >= i /\ all[k] = rec[k - 1]
  <2> TAKE k \in 0 .. n
  <2> HAVE k > i
  <2>1. k - 1 \in 0 .. n - 1 /\ k - 1 >= i /\ k \in 0 .. LeafMax /\ k # i /\ k <= n BY <1>1, <1>2
  <2> QED BY <1>3, <2>1
<1>10. \A k \in 0 .. n : k = i \/ k < i \/ k > i BY <1>1, <1>2
<1>11. \A a \in Slots : a > n => all[a] = rec[a]
  <2> TAKE a \in Slots
  <2> HAVE a > n
  <2>1. a \in 0 .. LeafMax /\ a # i /\ ~ (a <= n) /\ a < LeafMax BY <1>1, <1>2 DEF Slots
  <2> QED BY <1>3, <2>1
<1>12. all \in [0 .. LeafMax -> 0 .. MaxRecord]
  <2>1. ASSUME NEW k \in 0 .. LeafMax PROVE all[k] \in 0 .. MaxRecord
    <3>1. CASE k <= n
      <4>1. k \in 0 .. n BY <1>1, <3>1
      <4> QED BY <1>1, <1>4, <1>7, <1>8, <1>9, <1>10, <4>1
    <3>2. CASE k > n /\ k < LeafMax
      <4>1. k \in Slots BY <1>1, <3>2 DEF Slots
      <4> QED BY <1>1, <1>11, <3>2, <4>1
    <3>3. CASE k > n /\ ~ (k < LeafMax)
      <4>1. k # i /\ ~ (k <= n) BY <1>1, <1>2, <3>3
      <4>2. all[k] = 0 BY <1>3, <3>3, <4>1
      <4> QED BY <1>1, <4>2
    <3> QED BY <1>1, <3>1, <3>2, <3>3
  <2>2. all = [k \in 0 .. LeafMax |-> all[k]] BY <1>3
  <2> QED BY <2>1, <2>2
<1>13. ASSUME NEW a \in 0 .. n, NEW b \in 0 .. n, a < b PROVE all[a] < all[b]
  <2>0. a \in Int /\ b \in Int /\ i \in Int BY <1>1, <1>2
  <2>1. CASE a = i
    <3>1. b > i BY <1>13, <2>0, <2>1
    <3> QED BY <1>5, <1>7, <1>9, <2>1, <3>1
  <2>2. CASE a < i /\ b = i BY <1>5, <1>7, <1>8, <2>2
  <2>3. CASE a < i /\ b < i BY <1>0, <1>8, <1>13, <2>3
  <2>4. CASE a < i /\ b > i
    <3>1. a < b - 1 BY <2>0, <2>4
    <3> QED BY <1>0, <1>8, <1>9, <2>4, <3>1
  <2>5. CASE a > i
    <3>1. b > i /\ a - 1 < b - 1 BY <1>13, <2>0, <2>5
    <3> QED BY <1>0, <1>9, <2>5, <3>1
  <2> QED BY <1>10, <2>1, <2>2, <2>3, <2>4, <2>5
<1>14. \A a \in 0 .. n : lo <= all[a] /\ all[a] < hi /\ all[a] \in P \cup {r}
  BY <1>0, <1>7, <1>8, <1>9, <1>10
<1>15. ASSUME NEW q \in P \cup {r}, lo <= q, q < hi PROVE \E a \in 0 .. n : all[a] = q
  <2>1. CASE q = r BY <1>2, <1>7, <2>1
  <2>2. CASE q \in P
    <3>1. PICK k \in 0 .. n - 1 : rec[k] = q BY <1>0, <1>15, <2>2
    <3>2. CASE k < i
      <4>1. k \in 0 .. n BY <1>1
      <4> QED BY <1>8, <3>1, <3>2, <4>1
    <3>3. CASE k >= i
      <4> DEFINE a == k + 1
      <4>1. a \in 0 .. n /\ a > i /\ a - 1 = k BY <1>1, <1>2, <3>3
      <4> HIDE DEF a
      <4> QED BY <1>9, <3>1, <4>1
    <3> QED BY <1>1, <1>2, <3>2, <3>3
  <2> QED BY <2>1, <2>2
<1> QED BY <1>11, <1>12, <1>13, <1>14, <1>15 DEF IsShifted, n, rec, all

\* A leaf with room takes the record.
LEMMA InsertContent ==
  ASSUME NEW l, NEW lo, NEW hi, NEW P, Content(l, lo, hi, P), NEW r, NEW all,
         IsShifted(all, l, lo, hi, P, r), l.value_count < LeafMax,
         NEW L, L.records = FirstSlots(all), L.value_count = l.value_count + 1
  PROVE  Content(L, lo, hi, P \cup {r})
<1> DEFINE n == l.value_count
           rec == L.records
<1>1. n \in 0 .. LeafMax - 1 /\ LeafMax \in Nat BY TreeAssumption DEF Content
<1>2. /\ all \in [0 .. LeafMax -> 0 .. MaxRecord]
      /\ \A a, b \in 0 .. n : a < b => all[a] < all[b]
      /\ \A a \in 0 .. n : lo <= all[a] /\ all[a] < hi /\ all[a] \in P \cup {r}
      /\ \A q \in P \cup {r} : lo <= q /\ q < hi => \E a \in 0 .. n : all[a] = q
      /\ \A a \in Slots : a > n => all[a] = l.records[a]
  BY DEF IsShifted
<1>3. rec = [k \in Slots |-> all[k]] BY DEF FirstSlots
<1>4. \A a \in Slots : l.records[a] = 0 \/ l.records[a] >= hi \/ ~ (a >= n) BY DEF Content
<1> HIDE DEF n, rec
<1>5. L.value_count = n + 1 /\ L.value_count - 1 = n /\ L.value_count \in 0 .. LeafMax
  BY <1>1 DEF n
<1>6. \A k \in 0 .. n : k \in Slots BY <1>1 DEF Slots
<1>7. \A k \in Slots : rec[k] = all[k] /\ k \in 0 .. LeafMax BY <1>1, <1>3 DEF Slots
<1>8. rec \in [Slots -> 0 .. MaxRecord] BY <1>2, <1>3, <1>7
<1>9. \A a, b \in 0 .. n : a < b => rec[a] < rec[b] BY <1>2, <1>6, <1>7
<1>10. \A a \in 0 .. n : lo <= rec[a] /\ rec[a] < hi /\ rec[a] \in P \cup {r} BY <1>2, <1>6, <1>7
<1>11. \A q \in P \cup {r} : lo <= q /\ q < hi => \E a \in 0 .. n : rec[a] = q BY <1>2, <1>6, <1>7
<1>12. ASSUME NEW a \in Slots, a >= n + 1 PROVE rec[a] = 0 \/ rec[a] >= hi
  <2>1. a > n /\ a >= n BY <1>1, <1>12 DEF Slots
  <2> QED BY <1>2, <1>4, <1>7, <2>1
<1> QED BY <1>5, <1>8, <1>9, <1>10, <1>11, <1>12 DEF Content, Ascending, rec

\* A full leaf becomes two, at the record in the middle.
LEMMA SplitContent ==
  ASSUME NEW l, NEW lo \in Int, NEW hi \in Int, NEW P \in SUBSET Records, Content(l, lo, hi, P),
         NEW r \in Records, NEW all,
         IsShifted(all, l, lo, hi, P, r), l.value_count = LeafMax,
         NEW L, L.records = FirstSlots(all), L.value_count = Middle(LeafMax),
         NEW R, R.records = [k \in Slots |-> IF k <= LeafMax - Middle(LeafMax)
                                             THEN all[Middle(LeafMax) + k] ELSE 0],
         R.value_count = LeafMax \div 2 + 1
  PROVE  LET K == all[Middle(LeafMax)] IN
         /\ K \in Int /\ lo < K /\ K < hi /\ L.value_count > 0 /\ R.value_count > 0
         /\ Content(L, lo, K, P \cup {r}) /\ Content(R, K, hi, P \cup {r})
<1> DEFINE m == Middle(LeafMax)
           K == all[m]
           Q == P \cup {r}
           left == L.records
           right == R.records
<1>0. LeafMax \in Nat /\ LeafMax > 1 /\ MaxRecord \in Nat BY TreeAssumption
<1>1. m \in 1 .. LeafMax - 1 /\ LeafMax \div 2 + 1 = LeafMax - m + 1 BY <1>0 DEF Middle
<1>2. /\ all \in [0 .. LeafMax -> 0 .. MaxRecord]
      /\ \A a, b \in 0 .. LeafMax : a < b => all[a] < all[b]
      /\ \A a \in 0 .. LeafMax : lo <= all[a] /\ all[a] < hi /\ all[a] \in Q
      /\ \A q \in Q : lo <= q /\ q < hi => \E a \in 0 .. LeafMax : all[a] = q
  BY DEF IsShifted
<1>3. left = [k \in Slots |-> all[k]] BY DEF FirstSlots
<1>4. right = [k \in Slots |-> IF k <= LeafMax - m THEN all[m + k] ELSE 0] OBVIOUS
<1>5. L.value_count = m /\ R.value_count = LeafMax - m + 1 BY <1>1
<1> HIDE DEF m, left, right, Q
<1>6. m \in 0 .. LeafMax /\ 0 \in 0 .. LeafMax /\ 0 < m BY <1>0, <1>1
<1>7. \A a \in 0 .. LeafMax : all[a] \in Int /\ all[a] \in 0 .. MaxRecord BY <1>0, <1>2
<1>8. K \in Int /\ lo < K /\ K < hi
  <2>1. lo <= all[0] /\ all[0] < K /\ all[0] \in Int /\ K \in Int BY <1>2, <1>6, <1>7
  <2> QED BY <1>2, <1>6, <2>1
<1> HIDE DEF K
<1>9. Content(L, lo, K, Q)
  <2>1. \A k \in 0 .. m - 1 : k \in Slots /\ k \in 0 .. LeafMax /\ k < m BY <1>0, <1>1 DEF Slots
  <2>2. \A k \in Slots : left[k] = all[k] /\ k \in 0 .. LeafMax /\ k \in Int BY <1>0, <1>3 DEF Slots
  <2>3. left \in [Slots -> 0 .. MaxRecord] BY <1>3, <1>7, <2>2
  <2>4. \A a, b \in 0 .. m - 1 : a < b => left[a] < left[b] BY <1>2, <2>1, <2>2
  <2>5. \A a \in 0 .. m - 1 : lo <= left[a] /\ left[a] < K /\ left[a] \in Q
    BY <1>2, <1>6, <2>1, <2>2 DEF K
  <2>6. ASSUME NEW q \in Q, lo <= q, q < K PROVE \E a \in 0 .. m - 1 : left[a] = q
    <3>0. q \in Int BY RecordsInt DEF Q
    <3>1. PICK a \in 0 .. LeafMax : all[a] = q BY <1>2, <1>8, <2>6, <3>0
    <3>2. a < m
      <4> SUFFICES ASSUME ~ (a < m) PROVE FALSE OBVIOUS
      <4>1. a = m \/ m < a BY <1>0, <1>6
      <4>2. m < a => K < all[a] BY <1>2, <1>6 DEF K
      <4> QED BY <1>8, <2>6, <3>0, <3>1, <4>1, <4>2 DEF K
    <3>3. a \in 0 .. m - 1 BY <1>0, <1>6, <3>2
    <3> QED BY <2>1, <2>2, <3>1, <3>3
  <2>7. ASSUME NEW a \in Slots, a >= m PROVE left[a] >= K
    <3>1. a = m \/ m < a BY <1>0, <1>6, <2>2, <2>7
    <3>2. m < a => K < all[a] BY <1>2, <1>6, <2>2 DEF K
    <3> QED BY <1>7, <1>8, <2>2, <3>1, <3>2 DEF K
  <2>8. m \in 0 .. LeafMax /\ L.value_count = m BY <1>5, <1>6
  <2> QED BY <2>3, <2>4, <2>5, <2>6, <2>7, <2>8 DEF Content, Ascending, left
<1>10. Content(R, K, hi, Q)
  <2> DEFINE h == LeafMax - m
  <2>0. h \in 1 .. LeafMax - 1 /\ h + 1 - 1 = h /\ h + 1 \in 0 .. LeafMax BY <1>0, <1>1
  <2>1. \A k \in 0 .. h : k \in Slots /\ m + k \in 0 .. LeafMax /\ k <= h BY <1>0, <1>1 DEF Slots
  <2>a. \A k \in Slots : right[k] = IF k <= h THEN all[m + k] ELSE 0 BY <1>4
  <2>b. right = [k \in Slots |-> right[k]] BY <1>4
  <2>c. R.value_count = h + 1 BY <1>5
  <2> HIDE DEF h
  <2>2. \A k \in 0 .. h : right[k] = all[m + k] BY <2>1, <2>a
  <2>3. right \in [Slots -> 0 .. MaxRecord]
    <3>1. ASSUME NEW k \in Slots PROVE right[k] \in 0 .. MaxRecord
      <4>1. CASE k <= h
        <5>1. k \in 0 .. h BY <1>0, <2>0, <4>1 DEF Slots
        <5> QED BY <1>7, <2>1, <2>2, <5>1
      <4>2. CASE ~ (k <= h) BY <1>0, <2>a, <4>2
      <4> QED BY <4>1, <4>2
    <3> QED BY <2>b, <3>1
  <2>4. ASSUME NEW a \in 0 .. h, NEW b \in 0 .. h, a < b PROVE right[a] < right[b]
    <3>1. m + a < m + b BY <1>1, <2>0, <2>4
    <3> QED BY <1>2, <2>1, <2>2, <3>1
  <2>5. ASSUME NEW a \in 0 .. h PROVE K <= right[a] /\ right[a] < hi /\ right[a] \in Q
    <3>1. a = 0 \/ m < m + a BY <1>1, <2>0
    <3>2. m < m + a => K < all[m + a] BY <1>2, <1>6, <2>1 DEF K
    <3>3. a = 0 => m + a = m BY <1>1
    <3>4. K <= all[m + a]
      <4>1. all[m + a] \in Int BY <1>7, <2>1
      <4> QED BY <1>8, <3>1, <3>2, <3>3, <4>1 DEF K
    <3> QED BY <1>2, <2>1, <2>2, <3>4
  <2>6. ASSUME NEW q \in Q, K <= q, q < hi PROVE \E a \in 0 .. h : right[a] = q
    <3>0. q \in Int BY RecordsInt DEF Q
    <3>1. PICK a \in 0 .. LeafMax : all[a] = q BY <1>2, <1>8, <2>6, <3>0
    <3>2. ~ (a < m)
      <4> SUFFICES ASSUME a < m PROVE FALSE OBVIOUS
      <4>1. all[a] < K BY <1>2, <1>6 DEF K
      <4> QED BY <1>8, <2>6, <3>0, <3>1, <4>1
    <3> DEFINE k == a - m
    <3>3. k \in 0 .. h /\ m + k = a BY <1>0, <1>1, <3>2 DEF h
    <3> HIDE DEF k
    <3> QED BY <2>2, <3>1, <3>3
  <2>7. ASSUME NEW a \in Slots, a >= h + 1 PROVE right[a] = 0
    <3>1. ~ (a <= h) BY <1>0, <2>0, <2>7 DEF Slots
    <3> QED BY <2>a, <3>1
  <2> QED BY <2>0, <2>c, <2>3, <2>4, <2>5, <2>6, <2>7, SMTT(30) DEF Content, Ascending, right
<1>11. L.value_count > 0 /\ R.value_count > 0 BY <1>0, <1>1, <1>5
<1> QED BY <1>8, <1>9, <1>10, <1>11 DEF K, m, Q

\* The other leaves have nothing to do with r.
LEMMA OtherContent ==
  ASSUME NEW l, NEW lo, NEW hi, NEW P, Content(l, lo, hi, P), NEW r, ~ (lo <= r /\ r < hi)
  PROVE  Content(l, lo, hi, P \cup {r})
BY DEF Content

-----------------------------------------------------------------------------
(* All the leaves.                                                          *)

LeafRecs == [records : [Slots -> 0 .. MaxRecord], value_count : 0 .. LeafMax, next_leaf : LeafPages]

\* The next leaf goes on where this one ends; an empty leaf is the only one.
Linked(l, t, p) ==
  /\ l.next_leaf \in 0 .. t.leaves - 1
  /\ t.hi[p] = Top => l.next_leaf = 0
  /\ t.hi[p] # Top => l.next_leaf # 0 /\ t.lo[l.next_leaf] = t.hi[p]
  /\ l.value_count = 0 => p = 0 /\ t.hi[p] = Top

\* No record belongs to two leaves.
Apart(t) == \A p, q \in 0 .. t.leaves - 1 : p # q => t.hi[p] <= t.lo[q] \/ t.hi[q] <= t.lo[p]

Stored(ls, t, P) ==
  /\ ls \in [LeafPages -> LeafRecs] /\ P \in SUBSET Records /\ Apart(t)
  /\ \A p \in 0 .. t.leaves - 1 :
       Content(ls[p], t.lo[p], t.hi[p], P) /\ Linked(ls[p], t, p) /\ t.lo[p] < t.hi[p]
  /\ \A p \in LeafPages : p >= t.leaves => ls[p] = Zeros

LEMMA StoredSame ==
  ASSUME NEW ls, NEW t, NEW P, Stored(ls, t, P), NEW T, LeavesSame(t, T)
  PROVE  Stored(ls, T, P)
<1>1. T.leaves = t.leaves /\ \A c \in 0 .. t.leaves - 1 : T.lo[c] = t.lo[c] /\ T.hi[c] = t.hi[c]
  BY DEF LeavesSame
<1>2. Apart(T) BY <1>1 DEF Stored, Apart
<1>3. \A p \in 0 .. t.leaves - 1 : Linked(ls[p], T, p) BY <1>1 DEF Stored, Linked
<1> QED BY <1>1, <1>2, <1>3 DEF Stored

LEMMA StoredInsert ==
  ASSUME NEW ds, NEW t, Typed(ds, t), NEW P, Stored(leaves, t, P), NEW r \in Records, r \notin P,
         NEW p \in 0 .. t.leaves - 1, t.lo[p] <= r, r < t.hi[p], HasRoom(leaves[p]),
         NEW i, IsPlace(leaves[p], r, i)
  PROVE  Stored([leaves EXCEPT ![p].records = FirstSlots(Shifted(leaves[p], r, i)),
                               ![p].value_count = @ + 1], t, P \cup {r})
<1> DEFINE l == leaves[p]
           all == Shifted(l, r, i)
           L == [l EXCEPT !.records = FirstSlots(all), !.value_count = @ + 1]
           D == [leaves EXCEPT ![p].records = FirstSlots(all), ![p].value_count = @ + 1]
<1>1. MaxLeaves \in Nat /\ t.leaves \in 1 .. MaxLeaves /\ LeafMax \in Nat /\ MaxRecord \in Nat
      /\ MaxDirs \in Nat
  BY TreeAssumption DEF Typed
<1>2. p \in LeafPages /\ \A q \in 0 .. t.leaves - 1 : q \in LeafPages /\ q \in Refs
  BY <1>1 DEF LeafPages, Refs
<1>3. l \in LeafRecs /\ Content(l, t.lo[p], t.hi[p], P) /\ Linked(l, t, p) /\ P \in SUBSET Records
  BY <1>2 DEF Stored
<1>4. IsShifted(all, l, t.lo[p], t.hi[p], P, r) BY <1>3, ShiftedFacts
<1>5. D = [leaves EXCEPT ![p] = L] BY <1>2 DEF Stored
<1> HIDE DEF all
<1>6. /\ L.records = FirstSlots(all) /\ L.value_count = l.value_count + 1
      /\ L.next_leaf = l.next_leaf
      /\ L = [records |-> L.records, value_count |-> L.value_count, next_leaf |-> L.next_leaf]
  <2> DEFINE x == FirstSlots(all)
  <2>1. L = [l EXCEPT !.records = x, !.value_count = @ + 1] OBVIOUS
  <2> HIDE DEF l, L, x
  <2>2. L.records = x /\ L.value_count = l.value_count + 1 /\ L.next_leaf = l.next_leaf
    BY <1>3, <2>1 DEF LeafRecs
  <2>3. L = [records |-> L.records, value_count |-> L.value_count, next_leaf |-> L.next_leaf]
    BY <1>3, <2>1 DEF LeafRecs
  <2> QED BY <2>2, <2>3 DEF x
<1> HIDE DEF L, D
<1>7. Content(L, t.lo[p], t.hi[p], P \cup {r})
  <2>1. l.value_count < LeafMax BY DEF HasRoom
  <2> QED BY <1>3, <1>4, <1>6, <2>1, InsertContent
<1>8. L.value_count # 0
  <2>1. l.value_count \in Nat BY <1>1, <1>3 DEF LeafRecs
  <2> QED BY <1>6, <2>1
<1>9. Linked(L, t, p) BY <1>3, <1>6, <1>8 DEF Linked
<1>10. L \in LeafRecs
  <2>1. L.records \in [Slots -> 0 .. MaxRecord] /\ L.value_count \in 0 .. LeafMax
    BY <1>7 DEF Content
  <2>2. L.next_leaf \in LeafPages BY <1>3, <1>6 DEF LeafRecs
  <2> QED BY <1>6, <2>1, <2>2 DEF LeafRecs
<1>11. leaves \in [LeafPages -> LeafRecs] BY DEF Stored
<1>12. D \in [LeafPages -> LeafRecs] /\ D[p] = L /\ \A q \in LeafPages : q # p => D[q] = leaves[q]
  BY <1>2, <1>5, <1>10, <1>11
<1>13. ASSUME NEW q \in 0 .. t.leaves - 1, q # p
       PROVE  Content(leaves[q], t.lo[q], t.hi[q], P \cup {r})
  <2>1. Content(leaves[q], t.lo[q], t.hi[q], P) BY DEF Stored
  <2>2. t.hi[p] <= t.lo[q] \/ t.hi[q] <= t.lo[p] BY <1>13 DEF Stored, Apart
  <2>3. /\ t.lo[p] \in Int /\ t.hi[p] \in Int /\ t.lo[q] \in Int /\ t.hi[q] \in Int /\ r \in Int
    BY <1>1, <1>2 DEF Typed, Records
  <2>4. ~ (t.lo[q] <= r /\ r < t.hi[q]) BY <2>2, <2>3
  <2> QED BY <2>1, <2>4, OtherContent
<1>14. \A q \in 0 .. t.leaves - 1 :
         Content(D[q], t.lo[q], t.hi[q], P \cup {r}) /\ Linked(D[q], t, q) /\ t.lo[q] < t.hi[q]
  <2> TAKE q \in 0 .. t.leaves - 1
  <2>1. t.lo[q] < t.hi[q] /\ Linked(leaves[q], t, q) BY DEF Stored
  <2>2. CASE q = p BY <1>7, <1>9, <1>12, <2>1, <2>2
  <2>3. CASE q # p BY <1>2, <1>12, <1>13, <2>1, <2>3
  <2> QED BY <2>2, <2>3
<1>15. \A q \in LeafPages : q >= t.leaves => D[q] = Zeros
  <2> TAKE q \in LeafPages
  <2> HAVE q >= t.leaves
  <2>1. q # p BY <1>1 DEF LeafPages
  <2> QED BY <1>12, <2>1 DEF Stored
<1>16. P \cup {r} \in SUBSET Records /\ Apart(t) BY <1>3 DEF Stored
<1>17. Stored(D, t, P \cup {r}) BY <1>12, <1>14, <1>15, <1>16 DEF Stored
<1> QED BY <1>17 DEF D, all

\* The assignments of a split, field by field.
SplitIn(ls, p, q, a, b, c, n, x, m) ==
  [ls EXCEPT ![q].next_leaf = a, ![p].next_leaf = n, ![p].records = x,
             ![p].value_count = m, ![q].records = b, ![q].value_count = c]

TwoLeaves(ls, p, q, a, b, c, n, x, m) ==
  [ls EXCEPT ![p] = [records |-> x, value_count |-> m, next_leaf |-> n],
             ![q] = [records |-> b, value_count |-> c, next_leaf |-> a]]

LEMMA SplitShape ==
  ASSUME NEW ls \in [LeafPages -> LeafRecs], NEW p \in LeafPages, NEW q \in LeafPages, p # q,
         NEW a, NEW b, NEW c, NEW n, NEW x, NEW m
  PROVE  SplitIn(ls, p, q, a, b, c, n, x, m) = TwoLeaves(ls, p, q, a, b, c, n, x, m)
<1> DEFINE D == SplitIn(ls, p, q, a, b, c, n, x, m)
<1>0. D = [ls EXCEPT ![q].next_leaf = a, ![p].next_leaf = n, ![p].records = x,
                     ![p].value_count = m, ![q].records = b, ![q].value_count = c]
  BY DEF SplitIn
<1> HIDE DEF D
<1> DEFINE L == D[p]
           R == D[q]
<1>1. L.records = x /\ L.value_count = m /\ L.next_leaf = n BY <1>0 DEF LeafRecs
<1>2. R.records = b /\ R.value_count = c /\ R.next_leaf = a BY <1>0 DEF LeafRecs
<1>3. L = [records |-> L.records, value_count |-> L.value_count, next_leaf |-> L.next_leaf]
  BY <1>0 DEF LeafRecs
<1>4. R = [records |-> R.records, value_count |-> R.value_count, next_leaf |-> R.next_leaf]
  BY <1>0 DEF LeafRecs
<1>5. D = [k \in LeafPages |-> D[k]] BY <1>0
<1>6. \A k \in LeafPages : k # p /\ k # q => D[k] = ls[k] BY <1>0
<1>7. L = [records |-> x, value_count |-> m, next_leaf |-> n] BY <1>1, <1>3
<1>8. R = [records |-> b, value_count |-> c, next_leaf |-> a] BY <1>2, <1>4
<1> DEFINE E == [ls EXCEPT ![p] = L, ![q] = R]
<1> HIDE DEF L, R
<1>9. E = [k \in LeafPages |-> E[k]] /\ E[p] = L /\ E[q] = R
      /\ \A k \in LeafPages : k # p /\ k # q => E[k] = ls[k]
  OBVIOUS
<1> HIDE DEF E
<1>10. \A k \in LeafPages : D[k] = E[k] BY <1>6, <1>9 DEF L, R
<1>11. D = E BY <1>5, <1>9, <1>10
<1> QED BY <1>7, <1>8, <1>11 DEF E, D, TwoLeaves

LEMMA StoredSplit ==
  ASSUME NEW ds, NEW t, Typed(ds, t), Bounded(t), t.leaves < MaxLeaves, NEW P, Stored(leaves, t, P),
         NEW r \in Records, r \notin P,
         NEW p \in 0 .. t.leaves - 1, t.lo[p] <= r, r < t.hi[p], ~HasRoom(leaves[p]),
         NEW i, IsPlace(leaves[p], r, i)
  PROVE  LET all == Shifted(leaves[p], r, i)
             K == all[Middle(LeafMax)] IN
         /\ K \in Int /\ t.lo[p] < K /\ K < t.hi[p]
         /\ Stored(SplitLeaf(p, t.leaves, all), AfterLeaf(t, p, K), P \cup {r})
<1> DEFINE l == leaves[p]
           n == t.leaves
           all == Shifted(l, r, i)
           m == Middle(LeafMax)
           K == all[m]
           T == AfterLeaf(t, p, K)
           D == SplitLeaf(p, n, all)
           right == [k \in Slots |-> IF k <= LeafMax - m THEN all[m + k] ELSE 0]
           L == [records |-> FirstSlots(all), value_count |-> m, next_leaf |-> n]
           R == [records |-> right, value_count |-> LeafMax \div 2 + 1, next_leaf |-> l.next_leaf]
           Q == P \cup {r}
<1>1. MaxLeaves \in Nat /\ n \in 1 .. MaxLeaves - 1 /\ LeafMax \in Nat /\ MaxRecord \in Nat
      /\ MaxDirs \in Nat /\ t.dirs \in 1 .. MaxDirs
  BY TreeAssumption DEF Typed
<1>2. /\ p \in LeafPages /\ n \in LeafPages /\ n # p /\ n # 0 /\ p \in Refs /\ n \in Refs
      /\ \A q \in 0 .. n - 1 : q \in LeafPages /\ q \in Refs /\ q # n
  BY <1>1 DEF LeafPages, Refs
<1>3. /\ leaves \in [LeafPages -> LeafRecs]
      /\ l \in LeafRecs /\ Content(l, t.lo[p], t.hi[p], P) /\ Linked(l, t, p) /\ P \in SUBSET Records
  BY <1>2 DEF Stored
<1>4. IsShifted(all, l, t.lo[p], t.hi[p], P, r) BY <1>3, ShiftedFacts
<1>5. leaves[n] = Zeros BY <1>1, <1>2 DEF Stored
<1>6. D = [leaves EXCEPT ![p] = L, ![n] = R]
  <2> HIDE DEF all, m
  <2>1. D = [leaves EXCEPT ![n].next_leaf = l.next_leaf,
                           ![p].next_leaf = n,
                           ![p].records = FirstSlots(all),
                           ![p].value_count = m,
                           ![n].records = [k \in Slots |-> IF k <= LeafMax - m THEN all[m + k]
                                                            ELSE leaves[n].records[k]],
                           ![n].value_count = LeafMax \div 2 + 1]
    BY DEF SplitLeaf, m
  <2>2. leaves[n].records = [k \in Slots |-> 0] BY <1>5 DEF Zeros
  <2>3. [k \in Slots |-> IF k <= LeafMax - m THEN all[m + k] ELSE leaves[n].records[k]] = right
    BY <2>2
  <2> HIDE DEF right
  <2>4. D = [leaves EXCEPT ![n].next_leaf = l.next_leaf, ![p].next_leaf = n,
                           ![p].records = FirstSlots(all), ![p].value_count = m,
                           ![n].records = right, ![n].value_count = LeafMax \div 2 + 1]
    BY <2>1, <2>3
  <2> DEFINE half == LeafMax \div 2 + 1
             first == FirstSlots(all)
  <2>5. D = SplitIn(leaves, p, n, l.next_leaf, right, half, n, first, m) BY <2>4 DEF SplitIn
  <2> HIDE DEF D, half, first, l, n
  <2>6. D = TwoLeaves(leaves, p, n, l.next_leaf, right, half, n, first, m)
    BY <1>2, <1>3, <2>5, SplitShape
  <2> QED BY <2>6 DEF half, first, TwoLeaves
<1>7. /\ L.records = FirstSlots(all) /\ L.value_count = m /\ L.next_leaf = n
      /\ R.records = right /\ R.value_count = LeafMax \div 2 + 1 /\ R.next_leaf = l.next_leaf
      /\ L = [records |-> L.records, value_count |-> L.value_count, next_leaf |-> L.next_leaf]
      /\ R = [records |-> R.records, value_count |-> R.value_count, next_leaf |-> R.next_leaf]
  OBVIOUS
<1>8. t.lo \in [Refs -> Int] /\ t.hi \in [Refs -> Int] /\ Top \in Int
  BY TreeAssumption DEF Typed, Top
<1>9. t.lo[p] \in Int /\ t.hi[p] \in Int /\ l.value_count = LeafMax
  <2>1. l.value_count \in 0 .. LeafMax BY <1>3 DEF LeafRecs
  <2> QED BY <1>1, <1>2, <1>8, <2>1 DEF HasRoom
<1> HIDE DEF L, R, D, all
<1>10. /\ K \in Int /\ t.lo[p] < K /\ K < t.hi[p] /\ L.value_count > 0 /\ R.value_count > 0
       /\ Content(L, t.lo[p], K, Q) /\ Content(R, K, t.hi[p], Q)
  BY <1>3, <1>4, <1>7, <1>9, SplitContent
<1> HIDE DEF K, m, right, Q
<1>11. /\ T.dirs = t.dirs /\ T.leaves = n + 1
       /\ T.lo[n] = K /\ T.hi[n] = t.hi[p] /\ T.hi[p] = K
       /\ \A c \in Refs : c # n => T.lo[c] = t.lo[c]
       /\ \A c \in Refs : c # n /\ c # p => T.hi[c] = t.hi[c]
  BY <1>10, LeafFacts
<1> HIDE DEF T
<1>12. D \in [LeafPages -> LeafRecs] /\ D[p] = L /\ D[n] = R
       /\ \A q \in LeafPages : q # p /\ q # n => D[q] = leaves[q]
  <2>1. L \in LeafRecs
    <3>1. L.records \in [Slots -> 0 .. MaxRecord] /\ L.value_count \in 0 .. LeafMax
      BY <1>10 DEF Content
    <3>2. L.next_leaf \in LeafPages BY <1>2, <1>7
    <3> QED BY <1>7, <3>1, <3>2 DEF LeafRecs
  <2>2. R \in LeafRecs
    <3>1. R.records \in [Slots -> 0 .. MaxRecord] /\ R.value_count \in 0 .. LeafMax
      BY <1>10 DEF Content
    <3>2. R.next_leaf \in LeafPages BY <1>3, <1>7 DEF LeafRecs
    <3> QED BY <1>7, <3>1, <3>2 DEF LeafRecs
  <2> QED BY <1>2, <1>3, <1>6, <2>1, <2>2
<1>13. t.hi[p] <= Top
  <2>1. p \in -(t.dirs - 1) .. t.leaves - 1 BY <1>1
  <2> QED BY <2>1 DEF Bounded
<1>14. \A q \in 0 .. n - 1 : q # p => T.lo[q] = t.lo[q] /\ T.hi[q] = t.hi[q] BY <1>2, <1>11
<1>15. T.lo[p] = t.lo[p] BY <1>2, <1>11
<1>16. \A q \in 0 .. T.leaves - 1 : q = n \/ q \in 0 .. n - 1 BY <1>1, <1>11
<1>17. \A q \in 0 .. n - 1 : q \in 0 .. T.leaves - 1 /\ n \in 0 .. T.leaves - 1 BY <1>1, <1>11
<1> HIDE DEF n
<1>18. Linked(L, T, p) /\ Linked(R, T, n)
  <2>1. l.next_leaf \in 0 .. n - 1 BY <1>3 DEF Linked, n
  <2>2. T.lo[l.next_leaf] = t.lo[l.next_leaf] BY <1>2, <1>11, <2>1
  <2>3. Linked(L, T, p)
    <3>1. L.next_leaf \in 0 .. T.leaves - 1 /\ L.next_leaf # 0 /\ L.value_count # 0
      BY <1>1, <1>2, <1>7, <1>10, <1>11
    <3>2. T.hi[p] # Top BY <1>8, <1>9, <1>10, <1>11, <1>13
    <3> QED BY <1>7, <1>11, <3>1, <3>2 DEF Linked
  <2>4. Linked(R, T, n)
    <3>1. R.next_leaf \in 0 .. T.leaves - 1 BY <1>7, <1>17, <2>1
    <3>2. R.value_count # 0 BY <1>10
    <3>3. t.hi[p] = Top => l.next_leaf = 0 BY <1>3 DEF Linked
    <3>4. t.hi[p] # Top => l.next_leaf # 0 /\ t.lo[l.next_leaf] = t.hi[p] BY <1>3 DEF Linked
    <3> QED BY <1>7, <1>11, <2>2, <3>1, <3>2, <3>3, <3>4 DEF Linked
  <2> QED BY <2>3, <2>4
<1>19. ASSUME NEW q \in 0 .. n - 1, q # p
       PROVE  Content(D[q], T.lo[q], T.hi[q], Q) /\ Linked(D[q], T, q) /\ T.lo[q] < T.hi[q]
  <2>1. /\ Content(leaves[q], t.lo[q], t.hi[q], P) /\ Linked(leaves[q], t, q) /\ t.lo[q] < t.hi[q]
    BY DEF Stored, n
  <2>2. t.hi[p] <= t.lo[q] \/ t.hi[q] <= t.lo[p] BY <1>19 DEF Stored, Apart, n
  <2>3. t.lo[q] \in Int /\ t.hi[q] \in Int /\ r \in Int BY <1>1, <1>2, <1>8 DEF Records
  <2>4. ~ (t.lo[q] <= r /\ r < t.hi[q]) BY <1>9, <2>2, <2>3
  <2>5. Content(leaves[q], t.lo[q], t.hi[q], Q) BY <2>1, <2>4, OtherContent DEF Q
  <2>6. D[q] = leaves[q] BY <1>2, <1>12, <1>19
  <2>7. leaves[q].next_leaf \in 0 .. n - 1 BY <2>1 DEF Linked, n
  <2>8. T.lo[leaves[q].next_leaf] = t.lo[leaves[q].next_leaf] BY <1>2, <1>11, <2>7
  <2>9. Linked(leaves[q], T, q) BY <1>14, <1>17, <1>19, <2>1, <2>7, <2>8 DEF Linked
  <2> QED BY <1>14, <1>19, <2>1, <2>5, <2>6, <2>9
<1>20. \A q \in 0 .. T.leaves - 1 :
         Content(D[q], T.lo[q], T.hi[q], Q) /\ Linked(D[q], T, q) /\ T.lo[q] < T.hi[q]
  <2> TAKE q \in 0 .. T.leaves - 1
  <2>1. CASE q = n BY <1>10, <1>11, <1>12, <1>18, <2>1
  <2>2. CASE q = p BY <1>10, <1>11, <1>12, <1>15, <1>18, <2>2
  <2>3. CASE q # n /\ q # p BY <1>16, <1>19, <2>3
  <2> QED BY <2>1, <2>2, <2>3
<1>21. Apart(T)
  <2> SUFFICES ASSUME NEW a \in 0 .. T.leaves - 1, NEW b \in 0 .. T.leaves - 1, a # b
               PROVE  T.hi[a] <= T.lo[b] \/ T.hi[b] <= T.lo[a]
    BY DEF Apart
  <2>0. p \in 0 .. n - 1 BY DEF n
  <2>1. \A c, d \in 0 .. n - 1 : c # d => t.hi[c] <= t.lo[d] \/ t.hi[d] <= t.lo[c]
    BY DEF Stored, Apart, n
  <2>2. \A c \in 0 .. n - 1 : t.lo[c] \in Int /\ t.hi[c] \in Int BY <1>2, <1>8
  <2>3. \A c \in 0 .. n - 1 : c # p =>
          /\ T.hi[c] <= t.lo[p] \/ t.hi[p] <= T.lo[c]
          /\ T.hi[c] \in Int /\ T.lo[c] \in Int
    BY <1>14, <2>0, <2>1, <2>2
  <2>4. \A c \in 0 .. n - 1 : c # p =>
          /\ T.hi[c] <= T.lo[p] \/ T.hi[p] <= T.lo[c]
          /\ T.hi[c] <= T.lo[n] \/ T.hi[n] <= T.lo[c]
    BY <1>9, <1>10, <1>11, <1>15, <2>3
  <2>5. T.hi[p] <= T.lo[n] BY <1>10, <1>11
  <2>6. CASE a = n \/ b = n BY <1>16, <2>4, <2>5, <2>6
  <2>7. CASE a # n /\ b # n /\ (a = p \/ b = p) BY <1>16, <2>4, <2>7
  <2>8. CASE a # n /\ b # n /\ a # p /\ b # p BY <1>14, <1>16, <2>1, <2>8
  <2> QED BY <2>6, <2>7, <2>8
<1>22. \A q \in LeafPages : q >= T.leaves => D[q] = Zeros
  <2> TAKE q \in LeafPages
  <2> HAVE q >= T.leaves
  <2>1. q # p /\ q # n /\ q >= n
    <3>1. p \in 0 .. n - 1 BY DEF n
    <3> QED BY <1>1, <1>11, <3>1 DEF LeafPages
  <2> QED BY <1>12, <2>1 DEF Stored, n
<1>23. Q \in SUBSET Records BY <1>3 DEF Q
<1>24. Stored(D, T, Q) BY <1>12, <1>20, <1>21, <1>22, <1>23 DEF Stored
<1> QED BY <1>10, <1>24 DEF D, T, Q, K, m, all, n

-----------------------------------------------------------------------------
(* The invariant.                                                           *)

\* A page that was asked for is in use before it is on disk.
InUsePages(on_disk, file) == IF file \in unwritten THEN on_disk + 1 ELSE on_disk

\* The directories are a tree for t, its leaves have the records, and the pages on disk
\* and the one in the buffer are those in use.
TreeAt(t) ==
  /\ Whole(dirs, t) /\ Bounded(t) /\ dirs \in [DirPages -> DirRecs]
  /\ Stored(leaves, t, present)
  /\ unwritten \in SUBSET {"leaf", "dir"}
  /\ leaf_pages \in 1 .. MaxLeaves /\ dir_pages \in 1 .. MaxDirs
  /\ t.leaves = InUsePages(leaf_pages, "leaf")
  /\ t.dirs = InUsePages(dir_pages, "dir")

TreeInv == \E t : TreeAt(t)

\* It holds as long as append_page has given new pages.
TreeUnlessReused == reused \in BOOLEAN /\ (~reused => TreeInv)

LEMMA TreeFacts ==
  ASSUME NEW t, TreeAt(t)
  PROVE  /\ Sizes(dirs) /\ Typed(dirs, t) /\ present \in SUBSET Records
         /\ \A p \in 0 .. t.leaves - 1 : p \in LeafPages /\ p \in Refs
                                         /\ t.lo[p] \in Int /\ t.hi[p] \in Int
<1>1. Sizes(dirs) BY DEF TreeAt, Sizes, DirRecs
<1>2. Typed(dirs, t) BY DEF TreeAt, Whole, Tree
<1>3. MaxLeaves \in Nat /\ MaxDirs \in Nat /\ t.leaves \in 1 .. MaxLeaves
  BY <1>2, TreeAssumption DEF Typed
<1>4. \A p \in 0 .. t.leaves - 1 : p \in LeafPages /\ p \in Refs BY <1>3 DEF LeafPages, Refs
<1>5. \A p \in Refs : t.lo[p] \in Int /\ t.hi[p] \in Int BY <1>2 DEF Typed
<1> QED BY <1>1, <1>2, <1>4, <1>5 DEF TreeAt, Stored

\* insert() comes to the leaf for r, finds its place, and tells whether it is there.
LEMMA InsertFacts ==
  ASSUME NEW t, TreeAt(t), NEW r \in Records
  PROVE  LET p == LeafFor(r) IN
         /\ p \in 0 .. t.leaves - 1 /\ t.lo[p] <= r /\ r < t.hi[p]
         /\ IsPlace(leaves[p], r, PlaceIn(leaves[p], r))
         /\ leaves[p].value_count \in 0 .. LeafMax
         /\ Rejected(r) <=> r \in present
<1> DEFINE p == LeafFor(r)
<1>1. Whole(dirs, t) /\ Sizes(dirs) /\ Stored(leaves, t, present) BY TreeFacts DEF TreeAt
<1>2. MaxRecord \in Nat /\ r \in 0 .. MaxRecord /\ r \in Int BY TreeAssumption DEF Records
<1>3. p \in 0 .. t.leaves - 1 /\ t.lo[p] <= r /\ r < t.hi[p] BY <1>1, <1>2, LeafForExact
<1>4. t.hi[p] \in Int /\ present \in SUBSET Records BY <1>3, TreeFacts
<1> HIDE DEF p
<1>5. Content(leaves[p], t.lo[p], t.hi[p], present) BY <1>1, <1>3 DEF Stored
<1>6. IsPlace(leaves[p], r, PlaceIn(leaves[p], r)) BY <1>2, <1>5, PlaceFound
<1>7. (leaves[p].value_count > 0 /\ EqualRecord(leaves[p], r, SearchIndex(leaves[p], r)))
      <=> r \in present
  BY <1>3, <1>4, <1>5, EqualExact
<1>8. Rejected(r) <=> r \in present BY <1>7 DEF Rejected, p
<1> QED BY <1>3, <1>5, <1>6, <1>8 DEF p, Content

LEMMA InLeafStep ==
  ASSUME TreeInv, NEW r \in Records, InsertInLeaf(r)
  PROVE  TreeInv'
<1>1. PICK t : TreeAt(t) BY DEF TreeInv
<1> DEFINE p == LeafFor(r)
           l == leaves[p]
           i == PlaceIn(l, r)
<1>2. /\ p \in 0 .. t.leaves - 1 /\ t.lo[p] <= r /\ r < t.hi[p]
      /\ IsPlace(l, r, i) /\ (Rejected(r) <=> r \in present)
  BY <1>1, InsertFacts
<1>3. Typed(dirs, t) /\ Stored(leaves, t, present) BY <1>1, TreeFacts DEF TreeAt
<1>4. r \notin present /\ HasRoom(l) BY <1>2 DEF InsertInLeaf
<1>5. leaves' = [leaves EXCEPT ![p].records = FirstSlots(Shifted(l, r, i)),
                               ![p].value_count = @ + 1]
  BY DEF InsertInLeaf, PlaceIn
<1>6. present' = present \cup {r} /\ UNCHANGED <<dirs, leaf_pages, dir_pages, unwritten>>
  BY DEF InsertInLeaf
<1> HIDE DEF p, i
<1>7. Stored(leaves', t, present')
  <2> DEFINE D == [leaves EXCEPT ![p].records = FirstSlots(Shifted(leaves[p], r, i)),
                                 ![p].value_count = @ + 1]
  <2>1. IsPlace(leaves[p], r, i) /\ HasRoom(leaves[p]) BY <1>2, <1>4
  <2>2. Stored(D, t, present \cup {r}) BY <1>2, <1>3, <1>4, <2>1, StoredInsert
  <2>3. leaves' = D BY <1>5
  <2> HIDE DEF D
  <2> QED BY <1>6, <2>2, <2>3
<1>8. TreeAt(t)' BY <1>1, <1>6, <1>7 DEF TreeAt, InUsePages
<1> QED BY <1>8 DEF TreeInv

LEMMA SplitStep ==
  ASSUME TreeInv, NEW r \in Records, InsertAndSplit(r), ~reused'
  PROVE  TreeInv'
<1>1. PICK t : TreeAt(t) BY DEF TreeInv
<1> DEFINE p == LeafFor(r)
           l == leaves[p]
           i == SearchIndex(l, r)
           all == Shifted(l, r, i)
           K == all[Middle(LeafMax)]
           up == Propagated(r, [key |-> K, page |-> t.leaves])
<1>2. /\ p \in 0 .. t.leaves - 1 /\ t.lo[p] <= r /\ r < t.hi[p]
      /\ IsPlace(l, r, PlaceIn(l, r)) /\ (Rejected(r) <=> r \in present)
      /\ l.value_count \in 0 .. LeafMax
  BY <1>1, InsertFacts
<1> DEFINE asked == Propagated(r, [key |-> K, page |-> leaf_pages]).asked
<1>3. /\ leaf_pages < MaxLeaves /\ dir_pages < MaxDirs
      /\ "leaf" \notin unwritten /\ (asked > 0 => "dir" \notin unwritten) /\ ~ (asked > 1)
  BY DEF InsertAndSplit, MayInsert, GivesUsedPage
<1>a. leaf_pages \in Int /\ dir_pages \in Nat BY <1>1, TreeAssumption DEF TreeAt
<1>4. t.leaves = leaf_pages BY <1>1, <1>3, <1>a DEF TreeAt, InUsePages
<1>b. asked = up.asked BY <1>4
<1>5. /\ r \notin present /\ ~HasRoom(l)
      /\ leaves' = SplitLeaf(p, t.leaves, all) /\ dirs' = up.dirs
      /\ unwritten' = unwritten \cup {"leaf"} \cup (IF up.asked > 0 THEN {"dir"} ELSE {})
      /\ present' = present \cup {r} /\ UNCHANGED <<leaf_pages, dir_pages>>
  BY <1>2, <1>4 DEF InsertAndSplit
<1>6. i = PlaceIn(l, r)
  <2>1. LeafMax \in Nat /\ LeafMax > 1 BY TreeAssumption
  <2>2. l.value_count # 0 BY <1>5, <2>1 DEF HasRoom
  <2> QED BY <2>2 DEF PlaceIn
<1>7. Typed(dirs, t) /\ Stored(leaves, t, present) /\ Bounded(t) /\ Whole(dirs, t)
      /\ dirs \in [DirPages -> DirRecs] /\ t.leaves < MaxLeaves
  BY <1>1, <1>3, <1>4, TreeFacts DEF TreeAt
<1>8. IsPlace(l, r, i) BY <1>2, <1>6
<1> HIDE DEF i
<1>9. /\ K \in Int /\ t.lo[p] < K /\ K < t.hi[p]
      /\ Stored(SplitLeaf(p, t.leaves, all), AfterLeaf(t, p, K), present \cup {r})
  BY <1>2, <1>5, <1>7, <1>8, StoredSplit
<1> HIDE DEF K
<1>10. r \in Int /\ MaxLeaves \in Nat /\ MaxDirs \in Nat BY TreeAssumption DEF Records
<1>11. /\ up \in Ups
       /\ NewPage(t, up) => \E T : /\ T.dirs = t.dirs + up.asked /\ Bounded(T)
                                   /\ LeavesSame(AfterLeaf(t, p, K), T)
                                   /\ Whole(up.dirs, T)
  BY <1>2, <1>7, <1>9, <1>10, <1>a, PropagatedExact
<1>c. "leaf" \notin unwritten /\ (up.asked > 0 => "dir" \notin unwritten) /\ ~ (up.asked > 1)
  BY <1>3, <1>b
<1> HIDE DEF p, up, all, asked
<1>15. up.asked \in Nat /\ up.dirs \in [DirPages -> DirRecs] BY <1>11 DEF Ups
<1>16. up.asked = 0 \/ up.asked = 1 BY <1>15, <1>c
<1>d. up.asked = 1 => t.dirs = dir_pages BY <1>1, <1>c DEF TreeAt, InUsePages
<1>e. NewPage(t, up) BY <1>3, <1>16, <1>d DEF NewPage
<1>12. PICK T : /\ T.dirs = t.dirs + up.asked /\ Bounded(T)
                /\ LeavesSame(AfterLeaf(t, p, K), T) /\ Whole(up.dirs, T)
  BY <1>11, <1>e
<1>13. Stored(leaves', T, present') BY <1>5, <1>9, <1>12, StoredSame
<1>14. T.leaves = leaf_pages + 1 BY <1>4, <1>12 DEF LeavesSame, AfterLeaf
<1>17. T.leaves = InUsePages(leaf_pages, "leaf")' /\ T.dirs = InUsePages(dir_pages, "dir")'
  <2>1. T.leaves = InUsePages(leaf_pages, "leaf")' BY <1>5, <1>14 DEF InUsePages
  <2>2. t.dirs \in Int BY <1>7 DEF Typed
  <2>3. CASE up.asked = 0
    <3>1. unwritten' = unwritten \cup {"leaf"} BY <1>5, <2>3
    <3>2. T.dirs = t.dirs BY <1>12, <2>2, <2>3
    <3>3. "dir" \in unwritten' <=> "dir" \in unwritten BY <3>1
    <3> QED BY <1>1, <1>5, <2>1, <3>2, <3>3 DEF InUsePages, TreeAt
  <2>4. CASE up.asked = 1
    <3>1. "dir" \in unwritten' BY <1>5, <2>4
    <3>2. T.dirs = dir_pages + 1 BY <1>12, <1>d, <2>4
    <3> QED BY <1>5, <2>1, <3>1, <3>2 DEF InUsePages
  <2> QED BY <1>16, <2>3, <2>4
<1>18. unwritten' \in SUBSET {"leaf", "dir"} BY <1>1, <1>5 DEF TreeAt
<1>19. TreeAt(T)' BY <1>1, <1>5, <1>12, <1>13, <1>15, <1>17, <1>18 DEF TreeAt
<1> QED BY <1>19 DEF TreeInv

LEMMA WriteStep ==
  ASSUME TreeInv, NEW file \in {"leaf", "dir"}, WriteBack(file)
  PROVE  TreeInv'
<1>1. PICK t : TreeAt(t) BY DEF TreeInv
<1>2. MaxLeaves \in Nat /\ MaxDirs \in Nat BY TreeAssumption
<1>3. t.leaves \in 1 .. MaxLeaves /\ t.dirs \in 1 .. MaxDirs BY <1>1, TreeFacts DEF Typed
<1>4. /\ file \in unwritten /\ unwritten' = unwritten \ {file} /\ UNCHANGED <<leaves, dirs, present>>
      /\ leaf_pages' = IF file = "leaf" THEN leaf_pages + 1 ELSE leaf_pages
      /\ dir_pages' = IF file = "dir" THEN dir_pages + 1 ELSE dir_pages
  BY DEF WriteBack
<1>5. "leaf" # "dir" OBVIOUS
<1>6. t.leaves = InUsePages(leaf_pages, "leaf")' /\ leaf_pages' \in 1 .. MaxLeaves
  <2>1. CASE file = "leaf" BY <1>1, <1>2, <1>3, <1>4, <2>1 DEF TreeAt, InUsePages
  <2>2. CASE file = "dir" BY <1>1, <1>2, <1>3, <1>4, <1>5, <2>2 DEF TreeAt, InUsePages
  <2> QED BY <2>1, <2>2
<1>7. t.dirs = InUsePages(dir_pages, "dir")' /\ dir_pages' \in 1 .. MaxDirs
  <2>1. CASE file = "leaf" BY <1>1, <1>2, <1>3, <1>4, <1>5, <2>1 DEF TreeAt, InUsePages
  <2>2. CASE file = "dir" BY <1>1, <1>2, <1>3, <1>4, <2>2 DEF TreeAt, InUsePages
  <2> QED BY <2>1, <2>2
<1>8. TreeAt(t)' BY <1>1, <1>4, <1>6, <1>7 DEF TreeAt
<1> QED BY <1>8 DEF TreeInv

\* Every step that takes no page in use leaves a tree with the records.
LEMMA TreeStep ==
  ASSUME TreeUnlessReused, [Next]_vars
  PROVE  TreeUnlessReused'
<1>1. CASE UNCHANGED vars
  <2>1. TreeInv => TreeInv' BY <1>1 DEF vars, TreeInv, TreeAt, InUsePages
  <2>2. reused' = reused BY <1>1 DEF vars
  <2> QED BY <2>1, <2>2 DEF TreeUnlessReused
<1>2. ASSUME NEW r \in Records, InsertDuplicate(r) PROVE TreeUnlessReused'
  BY <1>1, <1>2 DEF InsertDuplicate
<1>3. ASSUME NEW r \in Records, InsertInLeaf(r) PROVE TreeUnlessReused'
  <2>1. reused' = reused BY <1>3 DEF InsertInLeaf
  <2>2. ~reused => TreeInv' BY <1>3, InLeafStep DEF TreeUnlessReused
  <2> QED BY <2>1, <2>2 DEF TreeUnlessReused
<1>4. ASSUME NEW r \in Records, InsertAndSplit(r) PROVE TreeUnlessReused'
  <2>1. ~reused /\ reused' \in BOOLEAN BY <1>4 DEF InsertAndSplit, MayInsert, GivesUsedPage
  <2>2. ~reused' => TreeInv' BY <1>4, <2>1, SplitStep DEF TreeUnlessReused
  <2> QED BY <2>1, <2>2 DEF TreeUnlessReused
<1>5. ASSUME NEW file \in {"leaf", "dir"}, WriteBack(file) PROVE TreeUnlessReused'
  <2>1. reused' = reused BY <1>5 DEF WriteBack
  <2>2. ~reused => TreeInv' BY <1>5, WriteStep DEF TreeUnlessReused
  <2> QED BY <2>1, <2>2 DEF TreeUnlessReused
<1>6. CASE Stopped BY <1>1, <1>6 DEF Stopped
<1> QED BY <1>1, <1>2, <1>3, <1>4, <1>5, <1>6 DEF Next

\* A record is refused when it is in the index, and only then.
LEMMA TreeDuplicates ==
  ASSUME TreeInv
  PROVE  DuplicatesExact
<1>1. PICK t : TreeAt(t) BY DEF TreeInv
<1>2. \A r \in Records : Rejected(r) <=> r \in present BY <1>1, InsertFacts
<1> QED BY <1>2 DEF DuplicatesExact

-----------------------------------------------------------------------------
(* check().                                                                 *)

\* Facts about the children of a directory: where they are and what they have.
LEMMA ChildFacts ==
  ASSUME NEW t, TreeAt(t), NEW d \in InUseDirs(t), NEW i \in Kids(dirs[d])
  PROVE  LET c == dirs[d].children[i] IN
         /\ c \in Int /\ c \in -(t.dirs - 1) .. t.leaves - 1
         /\ t.lo[c] = Lower(dirs[d], t, d, i) /\ t.hi[c] = Upper(dirs[d], t, d, i)
         /\ c < 0 => /\ -c \in InUseDirs(t) /\ -c \in DirPages /\ t.level[-c] < t.level[d]
                     /\ Low(t, -c) = t.lo[c] /\ High(t, -c) = t.hi[c]
         /\ ~ (c < 0) => c \in 0 .. t.leaves - 1
<1> DEFINE c == dirs[d].children[i]
<1>1. Typed(dirs, t) /\ MaxDirs \in Nat /\ MaxLeaves \in Nat BY TreeFacts, TreeAssumption
<1>2. t.dirs \in 1 .. MaxDirs /\ t.leaves \in 1 .. MaxLeaves BY <1>1 DEF Typed
<1>3. ChildIn(c, dirs[d], t, 0, 0, d, i) BY DEF TreeAt, Whole, Tree, ChildrenIn
<1> HIDE DEF c
<1>4. c \in -(t.dirs - 1) .. t.leaves - 1 /\ t.lo[c] = Lower(dirs[d], t, d, i)
      /\ t.hi[c] = Upper(dirs[d], t, d, i) /\ (c < 0 => t.level[-c] < t.level[d])
  BY <1>3 DEF ChildIn, Seen
<1>5. c \in Int BY <1>2, <1>4
<1>6. c < 0 => -c \in InUseDirs(t) /\ -c \in DirPages /\ -c # 0 /\ -(-c) = c
  BY <1>1, <1>2, <1>4, <1>5 DEF InUseDirs, DirPages
<1>7. c < 0 => Low(t, -c) = t.lo[c] /\ High(t, -c) = t.hi[c] BY <1>6 DEF Low, High
<1>8. ~ (c < 0) => c \in 0 .. t.leaves - 1 BY <1>2, <1>4, <1>5
<1> QED BY <1>4, <1>5, <1>6, <1>7, <1>8 DEF c

\* What every directory has is some of the records.
LEMMA DirBounds ==
  ASSUME NEW t, TreeAt(t), NEW d \in InUseDirs(t)
  PROVE  0 <= Low(t, d) /\ High(t, d) <= Top /\ Low(t, d) \in Int /\ High(t, d) \in Int /\ Top \in Int
<1>1. Typed(dirs, t) /\ MaxDirs \in Nat /\ MaxLeaves \in Nat /\ MaxRecord \in Nat
  BY TreeFacts, TreeAssumption
<1>2. t.dirs \in 1 .. MaxDirs /\ t.leaves \in 1 .. MaxLeaves BY <1>1 DEF Typed
<1>3. Low(t, d) \in Int /\ High(t, d) \in Int BY <1>1, DirFacts
<1>4. Top \in Int BY <1>1 DEF Top
<1>5. CASE d = 0 BY <1>1, <1>3, <1>4, <1>5 DEF Low, High
<1>6. CASE d # 0
  <2>1. -d \in -(t.dirs - 1) .. t.leaves - 1 BY <1>1, <1>2, <1>6 DEF InUseDirs
  <2>2. 0 <= t.lo[-d] /\ t.hi[-d] <= Top BY <2>1 DEF TreeAt, Bounded
  <2> QED BY <1>3, <1>4, <1>6, <2>2 DEF Low, High
<1> QED BY <1>5, <1>6

LEMMA TreeTypes ==
  ASSUME TreeInv, reused \in BOOLEAN
  PROVE  TypeOK
<1>1. PICK t : TreeAt(t) BY DEF TreeInv
<1>2. Typed(dirs, t) /\ MaxDirs \in Nat /\ MaxLeaves \in Nat /\ MaxRecord \in Nat /\ DirMax \in Nat
  BY <1>1, TreeFacts, TreeAssumption
<1>3. t.dirs \in 1 .. MaxDirs BY <1>2 DEF Typed
<1>4. ASSUME NEW d \in DirPages
      PROVE  /\ dirs[d].keys \in Seq(Records) /\ Len(dirs[d].keys) <= DirMax
             /\ Len(dirs[d].children) = Len(dirs[d].keys) + 1
  <2>1. dirs[d] \in DirRecs BY <1>1 DEF TreeAt
  <2>2. Len(dirs[d].keys) <= DirMax /\ Len(dirs[d].children) = Len(dirs[d].keys) + 1
    BY <2>1 DEF DirRecs, IsDir
  <2>3. dirs[d].keys \in Seq(Records)
    <3>1. CASE d \in InUseDirs(t)
      <4>1. KeysIn(dirs[d], t, d) BY <1>1, <3>1 DEF TreeAt, Whole, Tree
      <4>2. 0 <= Low(t, d) /\ High(t, d) <= Top /\ Low(t, d) \in Int /\ High(t, d) \in Int
        BY <1>1, <3>1, DirBounds
      <4> DEFINE s == dirs[d].keys
      <4>3. s \in Seq(Int) BY <2>1 DEF DirRecs
      <4>4. \A k \in 1 .. Len(s) : s[k] \in Int /\ Low(t, d) < s[k] /\ s[k] < High(t, d)
        BY <4>1, <4>3 DEF KeysIn
      <4> HIDE DEF s
      <4>5. \A k \in 1 .. Len(s) : s[k] \in Records BY <1>2, <4>2, <4>4 DEF Records, Top
      <4>6. s \in Seq(Records) BY <4>3, <4>5
      <4> QED BY <4>6 DEF s
    <3>2. CASE d \notin InUseDirs(t)
      <4>1. d >= t.dirs BY <1>2, <1>3, <3>2 DEF DirPages, InUseDirs
      <4>2. dirs[d].keys = << >> BY <1>2, <4>1 DEF Typed, NoDir
      <4> QED BY <4>2
    <3> QED BY <3>1, <3>2
  <2> QED BY <2>2, <2>3
<1>5. leaves \in [LeafPages -> LeafRecs] /\ present \in SUBSET Records BY <1>1 DEF TreeAt, Stored
<1> QED BY <1>1, <1>4, <1>5 DEF TypeOK, TreeAt, LeafRecs

\* One directory of check(), with ok for those below it.
CheckDir(d, ok) ==
  LET keys == dirs[d].keys
      kids == dirs[d].children
  IN /\ Len(keys) <= DirMax
     /\ \A i \in 1 .. Len(keys) - 1 : keys[i] < keys[i + 1]
     /\ \A i \in 1 .. Len(keys) :
          /\ Last(KeysOf(kids[i])) < keys[i]
          /\ KeysOf(kids[i + 1]) # << >> => keys[i] <= Head(KeysOf(kids[i + 1]))
     /\ \A i \in 1 .. Len(keys) + 1 :
          IF kids[i] < 0 THEN ok[-kids[i]] ELSE LeafCheck(kids[i])

LEMMA CheckDefined ==
  ASSUME NEW t, TreeAt(t)
  PROVE  \E ok \in [DirPages -> BOOLEAN] :
           Check = ok[0] /\ \A d \in DirPages : ok[d] = CheckDir(d, ok)
<1> DEFINE H == [d \in DirPages |-> [f \in [DirPages -> BOOLEAN] |-> CheckDir(d, f)]]
<1>1. Typed(dirs, t) /\ MaxDirs \in Nat BY TreeFacts, TreeAssumption
<1>2. t.dirs \in 1 .. MaxDirs /\ t.level \in [DirPages -> Nat] /\ 0 \in DirPages
  BY <1>1 DEF Typed, DirPages
<1>3. ASSUME NEW d \in DirPages, NEW f \in [DirPages -> BOOLEAN], NEW g \in [DirPages -> BOOLEAN],
             \A e \in DirPages : t.level[e] < t.level[d] => f[e] = g[e]
      PROVE  CheckDir(d, f) = CheckDir(d, g)
  <2>1. \A i \in 1 .. Len(dirs[d].keys) + 1 :
          dirs[d].children[i] < 0 => f[-dirs[d].children[i]] = g[-dirs[d].children[i]]
    <3>1. CASE d \in InUseDirs(t)
      <4> TAKE i \in 1 .. Len(dirs[d].keys) + 1
      <4> DEFINE c == dirs[d].children[i]
      <4>1. c < 0 => -c \in DirPages /\ t.level[-c] < t.level[d] BY <3>1, ChildFacts DEF Kids
      <4> HIDE DEF c
      <4>2. c < 0 => f[-c] = g[-c] BY <1>3, <4>1
      <4> QED BY <4>2 DEF c
    <3>2. CASE d \notin InUseDirs(t)
      <4>1. d >= t.dirs BY <1>1, <1>2, <3>2 DEF DirPages, InUseDirs
      <4>2. dirs[d].keys = << >> /\ dirs[d].children = <<0>> BY <1>1, <4>1 DEF Typed, NoDir
      <4> QED BY <4>2
    <3> QED BY <3>1, <3>2
  <2> DEFINE kids == dirs[d].children
             A(h) == \A i \in 1 .. Len(dirs[d].keys) + 1 :
                       IF kids[i] < 0 THEN h[-kids[i]] ELSE LeafCheck(kids[i])
  <2>2. A(f) <=> A(g) BY <2>1
  <2> HIDE DEF A
  <2>3. CheckDir(d, f) <=> CheckDir(d, g) BY <2>2, Zenon DEF CheckDir, A
  <2>4. CheckDir(d, f) \in BOOLEAN /\ CheckDir(d, g) \in BOOLEAN BY DEF CheckDir
  <2> QED BY <2>3, <2>4
<1>4. Descends(DirPages, BOOLEAN, t.level[0], t.level, H)
  <2>1. t.level[0] \in Nat /\ BOOLEAN # {} BY <1>2
  <2>2. t.level \in [DirPages -> 0 .. t.level[0]]
    <3>1. \A d \in DirPages : t.level[d] \in 0 .. t.level[0] BY <1>1, <1>2, <2>1 DEF Typed
    <3> QED BY <1>2, <3>1
  <2>3. H \in [DirPages -> [[DirPages -> BOOLEAN] -> BOOLEAN]]
    <3>1. \A d \in DirPages : \A f \in [DirPages -> BOOLEAN] : CheckDir(d, f) \in BOOLEAN
      BY DEF CheckDir
    <3> QED BY <3>1, Zenon
  <2>4. \A d \in DirPages : \A f \in [DirPages -> BOOLEAN] : H[d][f] = CheckDir(d, f) BY Zenon
  <2> HIDE DEF H
  <2>5. ASSUME NEW d \in DirPages, NEW f \in [DirPages -> BOOLEAN], NEW g \in [DirPages -> BOOLEAN],
               \A e \in DirPages : t.level[e] < t.level[d] => f[e] = g[e]
        PROVE  H[d][f] = H[d][g]
    <3>1. CheckDir(d, f) = CheckDir(d, g) BY <1>3, <2>5
    <3> QED BY <2>4, <3>1
  <2> QED BY <2>1, <2>2, <2>3, <2>5, Zenon DEF Descends
<1> HIDE DEF H
<1>5. Solvable(DirPages, BOOLEAN, H) BY <1>4, RecursionExists, Zenon
<1>6. PICK h \in [DirPages -> BOOLEAN] : h = [d \in DirPages |-> CheckDir(d, h)]
  <2>1. PICK h \in [DirPages -> BOOLEAN] : h = [d \in DirPages |-> H[d][h]]
    BY <1>5, Zenon DEF Solvable
  <2>2. \A d \in DirPages : H[d][h] = CheckDir(d, h) BY Zenon DEF H
  <2> QED BY <2>1, <2>2, Zenon
<1> DEFINE ok == CHOOSE f : f = [d \in DirPages |-> CheckDir(d, f)]
<1>7. ok = [d \in DirPages |-> CheckDir(d, ok)] BY <1>6, Zenon
<1>8. Check = ok[0] BY Zenon DEF Check, CheckDir
<1> HIDE DEF ok
<1>9. \A d \in DirPages : ok[d] = CheckDir(d, ok) BY <1>7, Zenon
<1>10. \A d \in DirPages : CheckDir(d, ok) \in BOOLEAN BY DEF CheckDir
<1>11. ok \in [DirPages -> BOOLEAN] BY <1>7, <1>10, Zenon
<1> QED BY <1>8, <1>9, <1>11, Zenon

\* The records in use, as a sequence.
LEMMA InUseFacts ==
  ASSUME NEW l, NEW lo, NEW hi, NEW P \in SUBSET Records, Content(l, lo, hi, P)
  PROVE  /\ InUse(l) \in Seq(Int) /\ Len(InUse(l)) = l.value_count /\ KeysAscend(InUse(l))
         /\ \A k \in 1 .. l.value_count :
              /\ InUse(l)[k] = l.records[k - 1] /\ InUse(l)[k] \in Int
              /\ lo <= InUse(l)[k] /\ InUse(l)[k] < hi /\ InUse(l)[k] \in P
         /\ \A r \in P : lo <= r /\ r < hi => \E k \in 1 .. l.value_count : InUse(l)[k] = r
<1> DEFINE s == InUse(l)
           n == l.value_count
<1>1. LeafMax \in Nat /\ n \in 0 .. LeafMax /\ n \in Nat BY TreeAssumption DEF Content
<1>2. s = [k \in 1 .. n |-> l.records[k - 1]] BY DEF InUse
<1>3. \A k \in 1 .. n : k - 1 \in 0 .. n - 1 /\ k - 1 \in Slots BY <1>1 DEF Slots
<1>4. \A k \in 0 .. n - 1 : l.records[k] \in Int /\ lo <= l.records[k] /\ l.records[k] < hi
                            /\ l.records[k] \in P
  <2>1. \A r \in P : r \in Int BY TreeAssumption DEF Records
  <2> QED BY <2>1 DEF Content
<1>5. \A a, b \in 0 .. n - 1 : a < b => l.records[a] < l.records[b] BY DEF Content, Ascending
<1>6. \A r \in P : lo <= r /\ r < hi => \E k \in 0 .. n - 1 : l.records[k] = r BY DEF Content
<1> HIDE DEF s, n
<1>7. s \in Seq(Int) /\ Len(s) = n
  <2>1. s \in [1 .. n -> Int] BY <1>2, <1>3, <1>4
  <2> QED BY <1>1, <2>1, SequenceOf
<1>8. \A k \in 1 .. n : s[k] = l.records[k - 1] BY <1>2
<1>9. KeysAscend(s)
  <2>1. ASSUME NEW i \in 1 .. n, NEW j \in 1 .. n, i < j PROVE s[i] < s[j]
    <3>1. i - 1 < j - 1 BY <1>1, <2>1
    <3> QED BY <1>3, <1>5, <1>8, <3>1
  <2> QED BY <1>7, <2>1 DEF KeysAscend
<1>10. ASSUME NEW r \in P, lo <= r, r < hi PROVE \E k \in 1 .. n : s[k] = r
  <2>1. PICK k \in 0 .. n - 1 : l.records[k] = r BY <1>6, <1>10
  <2>2. k + 1 \in 1 .. n /\ (k + 1) - 1 = k BY <1>1
  <2>3. s[k + 1] = r BY <1>8, <2>1, <2>2
  <2> QED BY <2>2, <2>3
<1> QED BY <1>3, <1>4, <1>7, <1>8, <1>9, <1>10 DEF s, n

\* check() finds a key below the keys of its right child, and above those of its left child.
LEMMA ChildKeys ==
  ASSUME NEW t, TreeAt(t), NEW d \in InUseDirs(t), NEW i \in Kids(dirs[d])
  PROVE  LET s == KeysOf(dirs[d].children[i])
             lo == Lower(dirs[d], t, d, i)
             hi == Upper(dirs[d], t, d, i) IN
         /\ s \in Seq(Int) /\ \A k \in 1 .. Len(s) : lo <= s[k] /\ s[k] < hi
         /\ hi # Top => Len(s) # 0
<1> DEFINE c == dirs[d].children[i]
           s == KeysOf(c)
           lo == Lower(dirs[d], t, d, i)
           hi == Upper(dirs[d], t, d, i)
<1>1. /\ c \in Int /\ t.lo[c] = lo /\ t.hi[c] = hi
      /\ c < 0 => /\ -c \in InUseDirs(t) /\ -c \in DirPages
                  /\ Low(t, -c) = t.lo[c] /\ High(t, -c) = t.hi[c]
      /\ ~ (c < 0) => c \in 0 .. t.leaves - 1
  BY ChildFacts
<1> HIDE DEF c, lo, hi
<1>2. CASE c < 0
  <2> DEFINE e == -c
  <2>1. s = dirs[e].keys BY <1>2 DEF KeysOf
  <2>2. KeysIn(dirs[e], t, e) BY <1>1, <1>2 DEF TreeAt, Whole, Tree
  <2>3. s \in Seq(Int) BY <1>1, <1>2, <2>1 DEF TreeAt, DirRecs
  <2>4. Low(t, e) = lo /\ High(t, e) = hi /\ Low(t, e) \in Int BY <1>1, <1>2, DirBounds
  <2> HIDE DEF e, s
  <2>5. \A k \in 1 .. Len(s) : s[k] \in Int /\ lo < s[k] /\ s[k] < hi
    BY <2>1, <2>2, <2>3, <2>4 DEF KeysIn
  <2>6. hi # Top => Len(s) # 0 BY <2>1, <2>2, <2>4 DEF KeysIn
  <2> QED BY <2>3, <2>4, <2>5, <2>6 DEF s, c, lo, hi
<1>3. CASE ~ (c < 0)
  <2>1. s = InUse(leaves[c]) BY <1>3 DEF KeysOf
  <2>2. Content(leaves[c], lo, hi, present) /\ Linked(leaves[c], t, c) /\ present \in SUBSET Records
    BY <1>1, <1>3 DEF TreeAt, Stored
  <2>3. /\ s \in Seq(Int) /\ Len(s) = leaves[c].value_count
        /\ \A k \in 1 .. leaves[c].value_count : lo <= s[k] /\ s[k] < hi
    BY <2>1, <2>2, InUseFacts
  <2>4. leaves[c].value_count = 0 => hi = Top BY <1>1, <2>2 DEF Linked
  <2> HIDE DEF s
  <2> QED BY <2>3, <2>4 DEF s, c, lo, hi
<1> QED BY <1>2, <1>3

LEMMA LeafChecks ==
  ASSUME NEW t, TreeAt(t), NEW p \in 0 .. t.leaves - 1
  PROVE  LeafCheck(p)
<1>1. Content(leaves[p], t.lo[p], t.hi[p], present) /\ Linked(leaves[p], t, p)
      /\ present \in SUBSET Records
  BY DEF TreeAt, Stored
<1> DEFINE s == InUse(leaves[p])
<1>2. s \in Seq(Int) /\ KeysAscend(s) BY <1>1, InUseFacts
<1>3. leaves[p].value_count \in Nat BY <1>1, TreeAssumption DEF Content
<1>4. leaves[p].value_count > 0 \/ p = 0 BY <1>1, <1>3 DEF Linked
<1> HIDE DEF s
<1>5. \A i \in 1 .. Len(s) - 1 : s[i] < s[i + 1]
  <2> TAKE i \in 1 .. Len(s) - 1
  <2>1. i \in 1 .. Len(s) /\ i + 1 \in 1 .. Len(s) /\ i < i + 1 BY <1>2
  <2> QED BY <1>2, <2>1 DEF KeysAscend
<1> QED BY <1>4, <1>5 DEF LeafCheck, s

LEMMA DirChecks ==
  ASSUME NEW t, TreeAt(t), NEW d \in InUseDirs(t), NEW ok,
         \A i \in Kids(dirs[d]) : dirs[d].children[i] < 0 => ok[-dirs[d].children[i]]
  PROVE  CheckDir(d, ok)
<1> DEFINE keys == dirs[d].keys
           kids == dirs[d].children
           lo(i) == Lower(dirs[d], t, d, i)
           hi(i) == Upper(dirs[d], t, d, i)
<1>1. Typed(dirs, t) BY TreeFacts
<1>2. /\ d \in DirPages /\ keys \in Seq(Int) /\ Len(keys) \in Nat
  BY <1>1, DirFacts
<1>3. Len(keys) <= DirMax BY <1>2 DEF TreeAt, DirRecs
<1>4. KeysIn(dirs[d], t, d) BY DEF TreeAt, Whole, Tree
<1>5. KeysAscend(keys) /\ \A k \in 1 .. Len(keys) : keys[k] \in Int /\ keys[k] < High(t, d)
  BY <1>2, <1>4 DEF KeysIn
<1>6. High(t, d) <= Top /\ High(t, d) \in Int /\ Top \in Int BY DirBounds
<1>7. \A i \in Kids(dirs[d]) :
         /\ KeysOf(kids[i]) \in Seq(Int)
         /\ \A k \in 1 .. Len(KeysOf(kids[i])) : lo(i) <= KeysOf(kids[i])[k] /\ KeysOf(kids[i])[k] < hi(i)
         /\ hi(i) # Top => Len(KeysOf(kids[i])) # 0
  BY ChildKeys
<1>8. \A i \in 1 .. Len(keys) - 1 : keys[i] < keys[i + 1]
  <2> TAKE i \in 1 .. Len(keys) - 1
  <2>1. i \in 1 .. Len(keys) /\ i + 1 \in 1 .. Len(keys) /\ i < i + 1 BY <1>2
  <2> QED BY <1>5, <2>1 DEF KeysAscend
<1>9. ASSUME NEW i \in 1 .. Len(keys)
      PROVE  /\ Last(KeysOf(kids[i])) < keys[i]
             /\ KeysOf(kids[i + 1]) # << >> => keys[i] <= Head(KeysOf(kids[i + 1]))
  <2>1. i \in Kids(dirs[d]) /\ i + 1 \in Kids(dirs[d]) /\ i # Len(keys) + 1 /\ i + 1 # 1
        /\ (i + 1) - 1 = i
    BY <1>2 DEF Kids
  <2>2. hi(i) = keys[i] /\ lo(i + 1) = keys[i] BY <2>1 DEF Upper, Lower
  <2>3. hi(i) # Top BY <1>5, <1>6, <2>2
  <2> DEFINE a == KeysOf(kids[i])
             b == KeysOf(kids[i + 1])
  <2>4. a \in Seq(Int) /\ Len(a) # 0 /\ \A k \in 1 .. Len(a) : a[k] < keys[i]
    BY <1>7, <2>1, <2>2, <2>3
  <2>5. b \in Seq(Int) /\ \A k \in 1 .. Len(b) : keys[i] <= b[k] BY <1>7, <2>1, <2>2
  <2> HIDE DEF a, b
  <2>6. Last(a) < keys[i]
    <3>1. Len(a) \in 1 .. Len(a) BY <2>4
    <3> QED BY <2>4, <3>1 DEF Last
  <2>7. b # << >> => keys[i] <= Head(b)
    <3>1. b # << >> => 1 \in 1 .. Len(b) /\ Head(b) = b[1] BY <2>5
    <3> QED BY <2>5, <3>1
  <2> QED BY <2>6, <2>7 DEF a, b
<1>10. ASSUME NEW i \in 1 .. Len(keys) + 1
       PROVE  IF kids[i] < 0 THEN ok[-kids[i]] ELSE LeafCheck(kids[i])
  <2>1. i \in Kids(dirs[d]) BY DEF Kids
  <2>2. ~ (kids[i] < 0) => kids[i] \in 0 .. t.leaves - 1 BY <2>1, ChildFacts
  <2>3. ~ (kids[i] < 0) => LeafCheck(kids[i]) BY <2>2, LeafChecks
  <2>4. kids[i] < 0 => ok[-kids[i]] BY <2>1
  <2> QED BY <2>3, <2>4
<1> QED BY <1>3, <1>8, <1>9, <1>10, Zenon DEF CheckDir

\* check() finds no error in a tree.
LEMMA TreeChecks ==
  ASSUME TreeInv, reused \in BOOLEAN
  PROVE  CheckPasses
<1>1. PICK t : TreeAt(t) BY DEF TreeInv
<1>2. Typed(dirs, t) /\ MaxDirs \in Nat BY <1>1, TreeFacts, TreeAssumption
<1>3. t.dirs \in 1 .. MaxDirs /\ t.level \in [DirPages -> Nat] /\ 0 \in InUseDirs(t)
      /\ \A d \in InUseDirs(t) : d \in DirPages
  BY <1>2 DEF Typed, DirPages, InUseDirs
<1>4. PICK ok \in [DirPages -> BOOLEAN] : Check = ok[0] /\ \A d \in DirPages : ok[d] = CheckDir(d, ok)
  BY <1>1, CheckDefined
<1> DEFINE B == {k \in Nat : \E d \in InUseDirs(t) : t.level[d] = k /\ ~ok[d]}
<1>5. B = {}
  <2> SUFFICES ASSUME B # {} PROVE FALSE OBVIOUS
  <2>1. PICK k \in B : \A j \in B : k <= j BY Least
  <2>2. PICK d \in InUseDirs(t) : t.level[d] = k /\ ~ok[d] OBVIOUS
  <2>3. ASSUME NEW i \in Kids(dirs[d]), dirs[d].children[i] < 0
        PROVE  ok[-dirs[d].children[i]]
    <3> DEFINE e == -dirs[d].children[i]
    <3>1. e \in InUseDirs(t) /\ t.level[e] < t.level[d] BY <1>1, <2>3, ChildFacts
    <3> HIDE DEF e
    <3>2. t.level[e] \in Nat /\ t.level[d] \in Nat BY <1>3, <3>1
    <3>3. t.level[e] \notin B BY <2>1, <2>2, <3>1, <3>2
    <3>4. ok[e] BY <3>1, <3>2, <3>3
    <3> QED BY <3>4 DEF e
  <2>4. CheckDir(d, ok) BY <1>1, <2>3, DirChecks
  <2>5. ok[d] BY <1>3, <1>4, <2>4
  <2> QED BY <2>2, <2>5
<1>6. ok[0]
  <2>1. t.level[0] \in Nat BY <1>3
  <2> QED BY <1>3, <1>5, <2>1
<1>7. TypeOK BY TreeTypes
<1> QED BY <1>4, <1>6, <1>7 DEF CheckPasses

-----------------------------------------------------------------------------
(* Range scans.                                                             *)

ScanStates == [leaf : LeafPages, fuel : 0 .. MaxLeaves]

\* One leaf of a scan, with what comes after it.
ScanLeaf(s, from) ==
  LET l == leaves[s.leaf] IN
  InUse(l) \o
    (IF l.next_leaf = 0 \/ s.fuel = 0 THEN << >>
     ELSE from[[leaf |-> l.next_leaf, fuel |-> s.fuel - 1]])

LEMMA ScanDefined ==
  ASSUME leaves \in [LeafPages -> LeafRecs]
  PROVE  \E from : /\ \A s \in ScanStates : from[s] = ScanLeaf(s, from)
                   /\ \A p : FromLeaf(p) = from[[leaf |-> p, fuel |-> MaxLeaves]]
<1> DEFINE H == [s \in ScanStates |-> [f \in [ScanStates -> Seq(Int)] |-> ScanLeaf(s, f)]]
           rank == [s \in ScanStates |-> s.fuel]
<1>1. MaxLeaves \in Nat /\ MaxRecord \in Nat /\ LeafMax \in Nat BY TreeAssumption
<1>2. \A p \in LeafPages : InUse(leaves[p]) \in Seq(Int) /\ leaves[p].next_leaf \in LeafPages
  <2> TAKE p \in LeafPages
  <2> DEFINE n == leaves[p].value_count
  <2>1. leaves[p] \in LeafRecs OBVIOUS
  <2>2. n \in 0 .. LeafMax /\ leaves[p].records \in [Slots -> 0 .. MaxRecord]
        /\ leaves[p].next_leaf \in LeafPages
    BY <2>1 DEF LeafRecs
  <2> HIDE DEF n
  <2>3. \A k \in 1 .. n : k - 1 \in Slots BY <1>1, <2>2 DEF Slots
  <2>4. \A k \in 1 .. n : leaves[p].records[k - 1] \in Int BY <1>1, <2>2, <2>3
  <2>5. [k \in 1 .. n |-> leaves[p].records[k - 1]] \in Seq(Int) BY <1>1, <2>2, <2>4
  <2> QED BY <2>2, <2>5 DEF InUse, n
<1>3. ASSUME NEW s \in ScanStates
      PROVE  /\ s.leaf \in LeafPages /\ s.fuel \in 0 .. MaxLeaves /\ s.fuel \in Nat
             /\ s.fuel # 0 => LET e == [leaf |-> leaves[s.leaf].next_leaf, fuel |-> s.fuel - 1] IN
                              e \in ScanStates /\ rank[e] < rank[s]
  <2>1. s.leaf \in LeafPages /\ s.fuel \in 0 .. MaxLeaves /\ s.fuel \in Nat BY <1>1 DEF ScanStates
  <2> DEFINE n == leaves[s.leaf].next_leaf
  <2>2. n \in LeafPages BY <1>2, <2>1
  <2> HIDE DEF n
  <2>3. s.fuel # 0 => s.fuel - 1 \in 0 .. MaxLeaves /\ s.fuel - 1 < s.fuel BY <1>1, <2>1
  <2> DEFINE e == [leaf |-> n, fuel |-> s.fuel - 1]
  <2>4. s.fuel # 0 => e \in ScanStates BY <2>2, <2>3 DEF ScanStates
  <2>5. s.fuel # 0 => rank[e] = s.fuel - 1 BY <2>4
  <2> QED BY <2>1, <2>3, <2>4, <2>5 DEF n
<1>4. rank \in [ScanStates -> 0 .. MaxLeaves] BY <1>3
<1> HIDE DEF rank
<1>5. \A s \in ScanStates : \A f \in [ScanStates -> Seq(Int)] : ScanLeaf(s, f) \in Seq(Int)
  <2> TAKE s \in ScanStates
  <2> TAKE f \in [ScanStates -> Seq(Int)]
  <2> DEFINE a == InUse(leaves[s.leaf])
             b == IF leaves[s.leaf].next_leaf = 0 \/ s.fuel = 0 THEN << >>
                  ELSE f[[leaf |-> leaves[s.leaf].next_leaf, fuel |-> s.fuel - 1]]
  <2>1. a \in Seq(Int) BY <1>2, <1>3
  <2>2. b \in Seq(Int) BY <1>3
  <2>3. ScanLeaf(s, f) = a \o b BY Zenon DEF ScanLeaf
  <2> HIDE DEF a, b
  <2> QED BY <2>1, <2>2, <2>3
<1>6. ASSUME NEW s \in ScanStates, NEW f \in [ScanStates -> Seq(Int)], NEW g \in [ScanStates -> Seq(Int)],
             \A e \in ScanStates : rank[e] < rank[s] => f[e] = g[e]
      PROVE  ScanLeaf(s, f) = ScanLeaf(s, g)
  <2> DEFINE e == [leaf |-> leaves[s.leaf].next_leaf, fuel |-> s.fuel - 1]
             stop == leaves[s.leaf].next_leaf = 0 \/ s.fuel = 0
             a(h) == InUse(leaves[s.leaf]) \o (IF stop THEN << >> ELSE h[e])
  <2>1. s.fuel # 0 => f[e] = g[e] BY <1>3, <1>6
  <2>2. ~stop => f[e] = g[e] BY <2>1
  <2>3. ScanLeaf(s, f) = a(f) /\ ScanLeaf(s, g) = a(g) BY Zenon DEF ScanLeaf
  <2> HIDE DEF e, stop
  <2>4. a(f) = a(g)
    <3>1. CASE stop BY <3>1, Zenon
    <3>2. CASE ~stop BY <2>2, <3>2, Zenon
    <3> QED BY <3>1, <3>2
  <2> HIDE DEF a
  <2> QED BY <2>3, <2>4
<1>7. \A s \in ScanStates : \A f \in [ScanStates -> Seq(Int)] : H[s][f] = ScanLeaf(s, f) BY Zenon
<1>8. H \in [ScanStates -> [[ScanStates -> Seq(Int)] -> Seq(Int)]] BY <1>5, Zenon
<1> HIDE DEF H
<1>9. Descends(ScanStates, Seq(Int), MaxLeaves, rank, H)
  <2>1. Seq(Int) # {}
    <3>1. << >> \in Seq(Int) OBVIOUS
    <3> QED BY <3>1, Zenon
  <2>2. ASSUME NEW s \in ScanStates, NEW f \in [ScanStates -> Seq(Int)],
               NEW g \in [ScanStates -> Seq(Int)],
               \A e \in ScanStates : rank[e] < rank[s] => f[e] = g[e]
        PROVE  H[s][f] = H[s][g]
    <3>1. ScanLeaf(s, f) = ScanLeaf(s, g) BY <1>6, <2>2
    <3> QED BY <1>7, <3>1
  <2> QED BY <1>1, <1>4, <1>8, <2>1, <2>2, Zenon DEF Descends
<1>10. Solvable(ScanStates, Seq(Int), H) BY <1>9, RecursionExists, Zenon
<1>11. \E h : h = [s \in ScanStates |-> ScanLeaf(s, h)]
  <2>1. PICK h \in [ScanStates -> Seq(Int)] : h = [s \in ScanStates |-> H[s][h]]
    BY <1>10, Zenon DEF Solvable
  <2> QED BY <1>7, <2>1, Zenon
<1> DEFINE from == CHOOSE f : f = [s \in ScanStates |-> ScanLeaf(s, f)]
<1>12. from = [s \in ScanStates |-> ScanLeaf(s, from)] BY <1>11, Zenon
<1>13. \A p : FromLeaf(p) = from[[leaf |-> p, fuel |-> MaxLeaves]]
  BY Zenon DEF FromLeaf, ScanLeaf, ScanStates
<1> HIDE DEF from
<1>14. \A s \in ScanStates : from[s] = ScanLeaf(s, from) BY <1>12, Zenon
<1> QED BY <1>13, <1>14, Zenon

\* Two sorted sequences, one after the other.
LEMMA Joined ==
  ASSUME NEW a, NEW A, InOrder(a, A), NEW b, NEW B, InOrder(b, B), \A x \in A : \A y \in B : x < y
  PROVE  InOrder(a \o b, A \cup B)
<1> DEFINE s == a \o b
           m == Len(a)
           n == Len(b)
<1>1. /\ a \in Seq(Int) /\ b \in Seq(Int) /\ s \in Seq(Int) /\ m \in Nat /\ n \in Nat
      /\ Len(s) = m + n /\ \A k \in 1 .. m : s[k] = a[k] /\ \A j \in m + 1 .. m + n : s[j] = b[j - m]
  BY DEF InOrder
<1>2. \A k \in 1 .. m : s[k] = a[k] /\ a[k] \in A BY <1>1 DEF InOrder
<1>3. \A k \in 1 .. n : s[m + k] = b[k] /\ b[k] \in B
  <2>1. \A k \in 1 .. n : s[m + k] = b[k] BY <1>1
  <2> QED BY <2>1 DEF InOrder
<1>4. \A i, j \in 1 .. m : i < j => a[i] < a[j] BY DEF InOrder, KeysAscend
<1>5. \A i, j \in 1 .. n : i < j => b[i] < b[j] BY DEF InOrder, KeysAscend
<1>6. A = {a[i] : i \in 1 .. m} /\ B = {b[i] : i \in 1 .. n} BY DEF InOrder
<1> HIDE DEF s, m, n
<1>7. \A k \in 1 .. m + n : k \in 1 .. m \/ (k - m \in 1 .. n /\ m + (k - m) = k) BY <1>1
<1>8. \A k \in 1 .. m : k \in 1 .. m + n BY <1>1
<1>9. \A k \in 1 .. n : m + k \in 1 .. m + n BY <1>1
<1>10. KeysAscend(s)
  <2> SUFFICES ASSUME NEW i \in 1 .. m + n, NEW j \in 1 .. m + n, i < j PROVE s[i] < s[j]
    BY <1>1 DEF KeysAscend
  <2>1. CASE i \in 1 .. m /\ j \in 1 .. m BY <1>2, <1>4, <2>1
  <2>2. CASE i \in 1 .. m /\ j \notin 1 .. m
    <3>1. s[i] \in A BY <1>2, <2>2
    <3>2. s[j] \in B BY <1>3, <1>7, <2>2
    <3> QED BY <3>1, <3>2
  <2>3. CASE i \notin 1 .. m
    <3>1. j \notin 1 .. m BY <1>1, <2>3
    <3>2. i - m \in 1 .. n /\ j - m \in 1 .. n /\ i - m < j - m BY <1>1, <1>7, <2>3, <3>1
    <3>3. s[i] = b[i - m] /\ s[j] = b[j - m] BY <1>3, <1>7, <2>3, <3>1
    <3> QED BY <1>5, <3>2, <3>3
  <2> QED BY <2>1, <2>2, <2>3
<1>11. A \cup B = {s[i] : i \in 1 .. m + n}
  <2>1. \A x \in A \cup B : \E i \in 1 .. m + n : s[i] = x BY <1>2, <1>3, <1>6, <1>8, <1>9
  <2>2. \A i \in 1 .. m + n : s[i] \in A \cup B BY <1>2, <1>3, <1>7
  <2> QED BY <2>1, <2>2
<1>12. InOrder(s, A \cup B) BY <1>1, <1>10, <1>11 DEF InOrder
<1> QED BY <1>12 DEF s

\* The leaves that are still to come.
Ahead(t, p) == {q \in 0 .. t.leaves - 1 : t.lo[q] > t.lo[p]}

LEMMA AheadFacts ==
  ASSUME NEW t, TreeAt(t), NEW p \in 0 .. t.leaves - 1
  PROVE  /\ Cardinality(Ahead(t, p)) \in 0 .. MaxLeaves
         /\ \A q \in 0 .. t.leaves - 1 : t.lo[q] > t.lo[p] =>
              Cardinality(Ahead(t, q)) < Cardinality(Ahead(t, p))
<1>1. Typed(dirs, t) /\ MaxLeaves \in Nat BY TreeFacts, TreeAssumption
<1>2. t.leaves \in 1 .. MaxLeaves BY <1>1 DEF Typed
<1> DEFINE L == 0 .. t.leaves - 1
<1>3. \A q \in L : t.lo[q] \in Int BY TreeFacts
<1>4. IsFiniteSet(L) /\ Cardinality(L) = t.leaves
  <2> DEFINE m == t.leaves - 1
  <2>1. 0 \in Int /\ m \in Int /\ ~ (0 > m) /\ m - 0 + 1 = t.leaves BY <1>1, <1>2
  <2> HIDE DEF m
  <2>2. IsFiniteSet(0 .. m) /\ Cardinality(0 .. m) = IF 0 > m THEN 0 ELSE m - 0 + 1
    BY <2>1, FS_Interval
  <2>3. IsFiniteSet(0 .. m) /\ Cardinality(0 .. m) = t.leaves BY <2>1, <2>2
  <2> QED BY <2>3 DEF m
<1>5. \A q \in L : Ahead(t, q) \in SUBSET L BY DEF Ahead
<1> HIDE DEF L
<1>6. \A q \in L : IsFiniteSet(Ahead(t, q)) /\ Cardinality(Ahead(t, q)) \in Nat
                   /\ Cardinality(Ahead(t, q)) <= Cardinality(L)
  BY <1>4, <1>5, FS_Subset, FS_CardinalityType
<1>7. Cardinality(Ahead(t, p)) \in 0 .. MaxLeaves
  <2>1. p \in L BY DEF L
  <2> QED BY <1>1, <1>2, <1>4, <1>6, <2>1
<1>8. ASSUME NEW q \in L, t.lo[q] > t.lo[p]
      PROVE  Cardinality(Ahead(t, q)) < Cardinality(Ahead(t, p))
  <2>1. p \in L BY DEF L
  <2>2. Ahead(t, q) \in SUBSET Ahead(t, p)
    <3>1. \A x \in L : t.lo[x] > t.lo[q] => t.lo[x] > t.lo[p] BY <1>3, <1>8, <2>1
    <3> QED BY <3>1 DEF Ahead, L
  <2>3. q \in Ahead(t, p) BY <1>8 DEF Ahead, L
  <2>4. q \notin Ahead(t, q) BY <1>3 DEF Ahead
  <2>5. Ahead(t, q) # Ahead(t, p) BY <2>3, <2>4
  <2>6. IsFiniteSet(Ahead(t, p)) BY <1>6, <2>1
  <2>7. Cardinality(Ahead(t, q)) \in Nat /\ Cardinality(Ahead(t, p)) \in Nat BY <1>6, <2>1
  <2>8. Cardinality(Ahead(t, q)) <= Cardinality(Ahead(t, p))
        /\ Cardinality(Ahead(t, p)) # Cardinality(Ahead(t, q))
    BY <2>2, <2>5, <2>6, FS_Subset
  <2> QED BY <2>7, <2>8
<1> QED BY <1>7, <1>8 DEF L

\* The records of a leaf, sorted.
LEMMA InUseSorted ==
  ASSUME NEW l, NEW lo, NEW hi, NEW P \in SUBSET Records, Content(l, lo, hi, P)
  PROVE  InOrder(InUse(l), {r \in P : lo <= r /\ r < hi})
<1> DEFINE s == InUse(l)
           n == l.value_count
<1>1. /\ s \in Seq(Int) /\ Len(s) = n /\ KeysAscend(s)
      /\ \A k \in 1 .. n : lo <= s[k] /\ s[k] < hi /\ s[k] \in P
      /\ \A r \in P : lo <= r /\ r < hi => \E k \in 1 .. n : s[k] = r
  BY InUseFacts
<1> HIDE DEF s, n
<1>2. {r \in P : lo <= r /\ r < hi} = {s[k] : k \in 1 .. Len(s)} BY <1>1
<1>3. InOrder(s, {r \in P : lo <= r /\ r < hi}) BY <1>1, <1>2 DEF InOrder
<1> QED BY <1>3 DEF s

\* A scan from leaf p has the records of it and of the leaves after it, in order.
LEMMA FromExact ==
  ASSUME NEW t, TreeAt(t), NEW p \in 0 .. t.leaves - 1
  PROVE  /\ InOrder(FromLeaf(p), {r \in present : t.lo[p] <= r})
         /\ leaves[p].value_count \in 0 .. Len(FromLeaf(p))
         /\ \A k \in 1 .. leaves[p].value_count : FromLeaf(p)[k] = leaves[p].records[k - 1]
<1>1. /\ Typed(dirs, t) /\ MaxLeaves \in Nat /\ MaxRecord \in Nat /\ Bounded(t)
      /\ Stored(leaves, t, present) /\ leaves \in [LeafPages -> LeafRecs]
  BY TreeFacts, TreeAssumption DEF TreeAt, Stored
<1>2. t.leaves \in 1 .. MaxLeaves /\ t.dirs \in Int /\ t.dirs >= 1 BY <1>1, TreeAssumption DEF Typed
<1>3. PICK from : /\ \A s \in ScanStates : from[s] = ScanLeaf(s, from)
                  /\ \A q : FromLeaf(q) = from[[leaf |-> q, fuel |-> MaxLeaves]]
  BY <1>1, ScanDefined
<1> DEFINE L == 0 .. t.leaves - 1
           R(q) == {r \in present : t.lo[q] <= r}
           At(q, f) == from[[leaf |-> q, fuel |-> f]]
           Good(q, f) == Cardinality(Ahead(t, q)) <= f => InOrder(At(q, f), R(q))
<1>4. \A q \in L : q \in LeafPages /\ t.lo[q] \in Int /\ t.hi[q] \in Int BY TreeFacts
<1>5. \A q \in L : /\ Content(leaves[q], t.lo[q], t.hi[q], present) /\ Linked(leaves[q], t, q)
                   /\ t.lo[q] < t.hi[q] /\ present \in SUBSET Records
  BY <1>1 DEF Stored
<1>6. \A q \in L : \A f \in 0 .. MaxLeaves :
        At(q, f) = InUse(leaves[q]) \o (IF leaves[q].next_leaf = 0 \/ f = 0 THEN << >>
                                        ELSE At(leaves[q].next_leaf, f - 1))
  <2> TAKE q \in L
  <2> TAKE f \in 0 .. MaxLeaves
  <2> DEFINE s == [leaf |-> q, fuel |-> f]
  <2>1. s \in ScanStates /\ s.leaf = q /\ s.fuel = f BY <1>4 DEF ScanStates
  <2>2. from[s] = ScanLeaf(s, from) BY <1>3, <2>1
  <2> HIDE DEF s
  <2>3. ScanLeaf(s, from) = InUse(leaves[q]) \o (IF leaves[q].next_leaf = 0 \/ f = 0 THEN << >>
                                                 ELSE At(leaves[q].next_leaf, f - 1))
    BY <2>1, Zenon DEF ScanLeaf
  <2> QED BY <2>2, <2>3 DEF s
<1>7. \A q \in L : t.hi[q] <= Top
  <2>1. \A q \in L : q \in -(t.dirs - 1) .. t.leaves - 1 BY <1>2
  <2> QED BY <1>1, <2>1 DEF Bounded
<1> HIDE DEF At
<1>8. ASSUME NEW q \in L PROVE Cardinality(Ahead(t, q)) \in Nat BY <1>1, <1>8, AheadFacts
<1> DEFINE B == {f \in Nat : f <= MaxLeaves /\ \E q \in L : ~Good(q, f)}
<1>9. B = {}
  <2> SUFFICES ASSUME B # {} PROVE FALSE OBVIOUS
  <2>1. PICK f \in B : \A g \in B : f <= g BY Least
  <2>2. f \in 0 .. MaxLeaves /\ f \in Nat BY <1>1
  <2>3. PICK q \in L : ~Good(q, f) OBVIOUS
  <2>4. Cardinality(Ahead(t, q)) <= f /\ ~InOrder(At(q, f), R(q)) BY <2>3
  <2> DEFINE l == leaves[q]
             A == {r \in present : t.lo[q] <= r /\ r < t.hi[q]}
  <2>5. Content(l, t.lo[q], t.hi[q], present) /\ Linked(l, t, q) /\ t.lo[q] < t.hi[q]
        /\ present \in SUBSET Records
    BY <1>5
  <2>6. InOrder(InUse(l), A) BY <2>5, InUseSorted
  <2>7. \A r \in present : r \in Int /\ r < Top BY <1>1, <2>5 DEF Records, Top
  <2>8. CASE t.hi[q] = Top
    <3>1. l.next_leaf = 0 BY <2>5, <2>8 DEF Linked
    <3>2. At(q, f) = InUse(l) \o << >> BY <1>6, <2>2, <3>1
    <3>3. InUse(l) \o << >> = InUse(l) BY <2>6 DEF InOrder
    <3>4. A = R(q) BY <2>7, <2>8
    <3> QED BY <2>4, <2>6, <3>2, <3>3, <3>4
  <2>9. CASE t.hi[q] # Top
    <3> DEFINE n == l.next_leaf
    <3>1. n # 0 /\ n \in L /\ t.lo[n] = t.hi[q] BY <2>5, <2>9 DEF Linked
    <3> HIDE DEF n
    <3>2. t.lo[n] > t.lo[q] /\ t.lo[n] \in Int BY <1>4, <2>5, <3>1
    <3>3. Cardinality(Ahead(t, n)) < Cardinality(Ahead(t, q)) BY <3>1, <3>2, AheadFacts
    <3>4. Cardinality(Ahead(t, n)) \in Nat /\ Cardinality(Ahead(t, q)) \in Nat BY <1>8, <3>1
    <3>5. f # 0 /\ f - 1 \in Nat /\ f - 1 <= MaxLeaves /\ Cardinality(Ahead(t, n)) <= f - 1
      BY <1>1, <2>2, <2>4, <3>3, <3>4
    <3>6. f - 1 \notin B BY <2>1, <2>2
    <3>7. Good(n, f - 1) BY <3>1, <3>5, <3>6
    <3>8. InOrder(At(n, f - 1), R(n)) BY <3>5, <3>7
    <3>9. At(q, f) = InUse(l) \o At(n, f - 1) BY <1>6, <2>2, <3>1, <3>5 DEF n
    <3>10. \A x \in A : \A y \in R(n) : x < y BY <1>4, <2>7, <3>1
    <3>11. R(q) = A \cup R(n) BY <1>4, <2>5, <2>7, <3>1
    <3> HIDE DEF A, R
    <3>12. InOrder(InUse(l) \o At(n, f - 1), A \cup R(n)) BY <2>6, <3>8, <3>10, Joined
    <3> QED BY <2>4, <3>9, <3>11, <3>12
  <2> QED BY <2>8, <2>9
<1>10. FromLeaf(p) = At(p, MaxLeaves) BY <1>3 DEF At
<1>11. InOrder(FromLeaf(p), R(p))
  <2>1. Cardinality(Ahead(t, p)) \in 0 .. MaxLeaves BY AheadFacts
  <2>2. Cardinality(Ahead(t, p)) <= MaxLeaves BY <1>1, <2>1
  <2>3. MaxLeaves <= MaxLeaves /\ MaxLeaves \notin B
    <3>1. MaxLeaves \notin B BY <1>9, Zenon
    <3>2. MaxLeaves <= MaxLeaves BY <1>1
    <3> QED BY <3>1, <3>2, Zenon
  <2>4. Good(p, MaxLeaves) BY <1>1, <2>3
  <2> QED BY <1>10, <2>2, <2>4
<1>12. PICK b : FromLeaf(p) = InUse(leaves[p]) \o b /\ b \in Seq(Int)
  <2> DEFINE b == IF leaves[p].next_leaf = 0 \/ MaxLeaves = 0 THEN << >>
                  ELSE At(leaves[p].next_leaf, MaxLeaves - 1)
  <2>0. MaxLeaves \in 0 .. MaxLeaves /\ p \in L BY <1>1
  <2>1. FromLeaf(p) = InUse(leaves[p]) \o b BY <1>6, <1>10, <2>0, Zenon
  <2>2. b \in Seq(Int)
    <3>1. CASE leaves[p].next_leaf = 0 BY <3>1
    <3>2. CASE leaves[p].next_leaf # 0
      <4> DEFINE n == leaves[p].next_leaf
      <4>1. t.hi[p] # Top /\ n \in L /\ t.lo[n] = t.hi[p] BY <1>5, <3>2 DEF Linked
      <4>2. MaxLeaves # 0 /\ MaxLeaves - 1 \in Nat /\ MaxLeaves - 1 <= MaxLeaves BY <1>1, <1>2
      <4>3. Good(n, MaxLeaves - 1) BY <1>9, <4>1, <4>2
      <4> HIDE DEF n
      <4>4. t.lo[n] > t.lo[p] BY <1>4, <1>5, <4>1
      <4>5. Cardinality(Ahead(t, n)) < Cardinality(Ahead(t, p)) BY <4>1, <4>4, AheadFacts
      <4>6. Cardinality(Ahead(t, p)) \in 0 .. MaxLeaves BY AheadFacts
      <4>7. Cardinality(Ahead(t, n)) \in Nat BY <1>8, <4>1
      <4>8. Cardinality(Ahead(t, n)) <= MaxLeaves - 1 BY <1>1, <4>5, <4>6, <4>7
      <4>9. At(n, MaxLeaves - 1) \in Seq(Int) BY <4>3, <4>8 DEF InOrder
      <4> QED BY <3>2, <4>2, <4>9 DEF n
    <3> QED BY <3>1, <3>2
  <2> HIDE DEF b
  <2> QED BY <2>1, <2>2
<1>13. /\ leaves[p].value_count \in 0 .. Len(FromLeaf(p))
       /\ \A k \in 1 .. leaves[p].value_count : FromLeaf(p)[k] = leaves[p].records[k - 1]
  <2> DEFINE s == InUse(leaves[p])
             n == leaves[p].value_count
  <2>1. /\ s \in Seq(Int) /\ Len(s) = n /\ \A k \in 1 .. n : s[k] = leaves[p].records[k - 1]
    BY <1>5, InUseFacts
  <2> HIDE DEF s
  <2>2. FromLeaf(p) = s \o b BY <1>12 DEF s
  <2>3. n \in Nat BY <2>1
  <2> HIDE DEF n
  <2>4. /\ Len(s \o b) = Len(s) + Len(b) /\ Len(b) \in Nat
        /\ \A k \in 1 .. Len(s) : (s \o b)[k] = s[k]
    <3>1. s \in Seq(Int) /\ b \in Seq(Int) BY <1>12, <2>1
    <3> QED BY <3>1
  <2> QED BY <2>1, <2>2, <2>3, <2>4 DEF n
<1> QED BY <1>11, <1>13

\* What SelectInSeq finds: the first place past max, or none.
LEMMA StopFacts ==
  ASSUME NEW s \in Seq(Int), KeysAscend(s), NEW max \in Int
  PROVE  LET stop == SelectInSeq(s, LAMBDA r : r > max)
             end == IF stop = 0 THEN Len(s) ELSE stop - 1 IN
         /\ end \in 0 .. Len(s)
         /\ \A k \in 1 .. Len(s) : s[k] <= max <=> k <= end
<1> DEFINE I == {i \in 1 .. Len(s) : s[i] > max}
           stop == SelectInSeq(s, LAMBDA r : r > max)
           end == IF stop = 0 THEN Len(s) ELSE stop - 1
           Ends == end \in 0 .. Len(s) /\ \A k \in 1 .. Len(s) : s[k] <= max <=> k <= end
<1>1. stop = IF I # {} THEN Min(I) ELSE 0 BY DEF SelectInSeq
<1>2. Len(s) \in Nat /\ \A k \in 1 .. Len(s) : s[k] \in Int OBVIOUS
<1> HIDE DEF stop
<1>3. ASSUME I = {} PROVE Ends
  <2>1. \A k \in 1 .. Len(s) : s[k] <= max BY <1>2, <1>3
  <2>2. end = Len(s) BY <1>1, <1>3
  <2> HIDE DEF end
  <2> QED BY <1>2, <2>1, <2>2
<1>4. ASSUME I # {} PROVE Ends
  <2>1. I \in SUBSET Nat BY <1>2
  <2>2. PICK m \in I : \A k \in I : m <= k BY <1>4, <2>1, Least
  <2>3. stop = m
    <3>1. stop = Min(I) BY <1>1, <1>4
    <3>2. Min(I) = CHOOSE x \in I : \A y \in I : x <= y BY DEF Min
    <3>3. Min(I) \in I /\ \A y \in I : Min(I) <= y
      <4> HIDE DEF I
      <4> QED BY <2>2, <3>2, Zenon
    <3>4. Min(I) <= m /\ m <= Min(I) BY <2>2, <3>3
    <3>5. Min(I) \in Int /\ m \in Int BY <1>2, <2>2, <3>3
    <3> QED BY <3>1, <3>4, <3>5
  <2>4. m \in 1 .. Len(s) /\ s[m] > max BY <2>2
  <2>5. end = m - 1 BY <1>2, <2>3, <2>4
  <2>6. ASSUME NEW k \in 1 .. Len(s) PROVE s[k] <= max <=> k <= m - 1
    <3>1. CASE k <= m - 1
      <4>1. k \notin I BY <1>2, <2>2, <2>4, <3>1
      <4> QED BY <1>2, <3>1, <4>1
    <3>2. CASE ~ (k <= m - 1)
      <4>1. k = m \/ m < k BY <1>2, <2>4, <3>2
      <4>2. s[k] > max BY <1>2, <2>4, <4>1 DEF KeysAscend
      <4> QED BY <1>2, <3>2, <4>2
    <3> QED BY <3>1, <3>2
  <2> HIDE DEF end
  <2> QED BY <1>2, <2>4, <2>5, <2>6
<1> HIDE DEF end
<1>5. Ends BY <1>3, <1>4
<1> QED BY <1>5, Zenon DEF end, stop

\* A piece of a sorted sequence, from the first member that is not below min to the
\* last that is not above max.
LEMMA PieceSorted ==
  ASSUME NEW s, NEW S, InOrder(s, S), NEW a \in 0 .. Len(s), NEW b \in 0 .. Len(s),
         NEW min \in Int, NEW max \in Int, min <= max,
         \A k \in 1 .. Len(s) : s[k] < min <=> k <= a,
         \A k \in 1 .. Len(s) : s[k] <= max <=> k <= b
  PROVE  InOrder(SubSeq(s, a + 1, b), S \cap (min .. max))
<1> DEFINE q == SubSeq(s, a + 1, b)
<1>1. s \in Seq(Int) /\ Len(s) \in Nat /\ \A k \in 1 .. Len(s) : s[k] \in Int BY DEF InOrder
<1>2. \A i, j \in 1 .. Len(s) : i < j => s[i] < s[j] BY DEF InOrder, KeysAscend
<1>3. S = {s[k] : k \in 1 .. Len(s)} BY DEF InOrder
<1>4. a <= b
  <2> SUFFICES ASSUME a > b PROVE FALSE BY <1>1
  <2>1. a \in 1 .. Len(s) /\ a <= a /\ ~ (a <= b) BY <1>1
  <2>2. s[a] < min /\ ~ (s[a] <= max) /\ s[a] \in Int BY <1>1, <2>1
  <2> QED BY <2>2
<1>5. IsPart(q, s, a, b - a)
  <2> DEFINE m == b - a
  <2>1. m \in Nat /\ a + m = b /\ a + m <= Len(s) BY <1>1, <1>4
  <2> HIDE DEF m
  <2>2. IsPart(SubSeq(s, a + 1, a + m), s, a, m) BY <1>1, <2>1, Part
  <2> QED BY <2>1, <2>2 DEF m
<1> HIDE DEF q
<1>6. q \in Seq(Int) /\ Len(q) = b - a /\ \A k \in 1 .. b - a : q[k] = s[a + k]
  BY <1>5 DEF IsPart
<1>7. \A k \in 1 .. b - a : a + k \in 1 .. Len(s) /\ a + k <= b /\ ~ (a + k <= a) BY <1>1
<1>8. KeysAscend(q)
  <2>1. ASSUME NEW i \in 1 .. b - a, NEW j \in 1 .. b - a, i < j PROVE q[i] < q[j]
    <3>1. a + i < a + j BY <1>1, <2>1
    <3> QED BY <1>2, <1>6, <1>7, <3>1
  <2> QED BY <1>6, <2>1 DEF KeysAscend
<1>9. ASSUME NEW k \in 1 .. b - a PROVE q[k] \in S \cap (min .. max)
  <2>1. q[k] = s[a + k] /\ a + k \in 1 .. Len(s) BY <1>6, <1>7
  <2>2. ~ (s[a + k] < min) /\ s[a + k] <= max /\ s[a + k] \in Int BY <1>1, <1>7
  <2> QED BY <1>3, <2>1, <2>2
<1>10. ASSUME NEW r \in S \cap (min .. max) PROVE \E k \in 1 .. b - a : q[k] = r
  <2>1. PICK i \in 1 .. Len(s) : s[i] = r BY <1>3, <1>10
  <2>2. ~ (s[i] < min) /\ s[i] <= max BY <2>1
  <2>3. ~ (i <= a) /\ i <= b BY <2>2
  <2>4. i - a \in 1 .. b - a /\ a + (i - a) = i BY <1>1, <2>3
  <2>5. q[i - a] = r BY <1>6, <2>1, <2>4
  <2> QED BY <2>4, <2>5
<1>11. S \cap (min .. max) = {q[k] : k \in 1 .. Len(q)} BY <1>6, <1>9, <1>10
<1>12. InOrder(q, S \cap (min .. max)) BY <1>6, <1>8, <1>11 DEF InOrder
<1> QED BY <1>12 DEF q

\* Every range scan of a tree is exact.
LEMMA TreeScans ==
  ASSUME TreeInv
  PROVE  ScanExact
<1>1. PICK t : TreeAt(t) BY DEF TreeInv
<1> SUFFICES ASSUME NEW min \in Records, NEW max \in Records, min <= max
             PROVE  Scan(min, max) = Sorted(present \cap (min .. max))
  BY DEF ScanExact
<1> DEFINE p == LeafFor(min)
           all == FromLeaf(p)
           l == leaves[p]
           n == l.value_count
           i == SearchIndex(l, min)
           rest == SubSeq(all, i + 1, Len(all))
           S == {r \in present : t.lo[p] <= r}
           stop == SelectInSeq(rest, LAMBDA r : r > max)
           end == IF stop = 0 THEN Len(rest) ELSE stop - 1
<1>2. MaxRecord \in Nat /\ min \in Int /\ max \in Int /\ max <= MaxRecord /\ min <= MaxRecord
  BY TreeAssumption DEF Records
<1>3. /\ p \in 0 .. t.leaves - 1 /\ t.lo[p] <= min /\ min < t.hi[p]
      /\ IsPlace(l, min, PlaceIn(l, min)) /\ n \in 0 .. LeafMax
  BY <1>1, InsertFacts
<1>4. /\ t.lo[p] \in Int /\ t.hi[p] \in Int /\ present \in SUBSET Records
      /\ Content(l, t.lo[p], t.hi[p], present) /\ Linked(l, t, p)
  BY <1>1, <1>3, TreeFacts DEF TreeAt, Stored
<1>5. /\ InOrder(all, S) /\ n \in 0 .. Len(all)
      /\ \A k \in 1 .. n : all[k] = l.records[k - 1]
  BY <1>1, <1>3, FromExact
<1>6. /\ all \in Seq(Int) /\ Len(all) \in Nat
      /\ \A k \in 1 .. Len(all) : all[k] \in S /\ all[k] \in Int
      /\ \A a, b \in 1 .. Len(all) : a < b => all[a] < all[b]
  BY <1>5 DEF InOrder, KeysAscend
<1>7. \A r \in present : r \in Int /\ r <= MaxRecord /\ 1 <= r BY <1>2, <1>4 DEF Records
<1>8. \A r \in S : r \in Int /\ r <= MaxRecord BY <1>7
<1>9. Scan(min, max) = IF stop = 0 THEN rest ELSE SubSeq(rest, 1, stop - 1) BY Zenon DEF Scan
<1>10. InOrder(rest, S \cap (min .. MaxRecord))
  <2>1. CASE n = 0
    <3>1. i \in {0, 1} BY <2>1, SearchIndexEmpty
    <3>2. ASSUME NEW r \in S PROVE FALSE
      <4>1. t.hi[p] = MaxRecord + 1 BY <1>4, <2>1 DEF Linked, Top
      <4>2. t.lo[p] <= r /\ r < t.hi[p] /\ r \in present BY <1>2, <1>8, <4>1
      <4>3. \E k \in 0 .. n - 1 : l.records[k] = r BY <1>4, <4>2 DEF Content
      <4> QED BY <2>1, <4>3
    <3> HIDE DEF S, all, i
    <3>3. Len(all) = 0
      <4>1. 1 \notin 1 .. Len(all) BY <1>6, <3>2
      <4> QED BY <1>6, <4>1
    <3>4. rest = << >>
      <4>1. CASE i = 0 BY <1>6, <3>3, <4>1
      <4>2. CASE i = 1 BY <1>6, <3>3, <4>2
      <4> QED BY <3>1, <4>1, <4>2
    <3>5. S \cap (min .. MaxRecord) = {} BY <3>2
    <3>6. InOrder(<< >>, {}) BY DEF InOrder, KeysAscend
    <3> QED BY <3>4, <3>5, <3>6, Zenon
  <2>2. CASE n # 0
    <3>1. i = PlaceIn(l, min) BY <2>2 DEF PlaceIn
    <3>2. i \in 0 .. n /\ \A k \in 0 .. n - 1 : l.records[k] < min <=> k < i
      BY <1>3, <3>1 DEF IsPlace
    <3>3. \A r \in present : t.lo[p] <= r /\ r < t.hi[p] => \E k \in 0 .. n - 1 : l.records[k] = r
      BY <1>4 DEF Content
    <3>4. n \in Nat BY <1>5, <1>6
    <3> HIDE DEF p, i, n, all, l
    <3>5. ASSUME NEW k \in 1 .. Len(all) PROVE all[k] < min <=> k <= i
      <4>1. CASE k <= n
        <5>1. k \in 1 .. n /\ k - 1 \in 0 .. n - 1 BY <3>4, <4>1
        <5>2. all[k] = l.records[k - 1] BY <1>5, <5>1
        <5>3. l.records[k - 1] < min <=> k - 1 < i BY <3>2, <5>1
        <5>4. i \in Int BY <3>2, <3>4
        <5>5. k - 1 < i <=> k <= i BY <1>6, <5>4
        <5> QED BY <5>2, <5>3, <5>5
      <4>2. CASE ~ (k <= n)
        <5>1. ~ (k <= i) BY <1>6, <3>2, <3>4, <4>2
        <5>2. ~ (all[k] < min)
          <6> SUFFICES ASSUME all[k] < min PROVE FALSE OBVIOUS
          <6>1. all[k] \in present /\ t.lo[p] <= all[k] /\ all[k] \in Int BY <1>6
          <6>2. all[k] < t.hi[p] BY <1>2, <1>3, <1>4, <6>1
          <6>3. PICK j \in 0 .. n - 1 : l.records[j] = all[k] BY <3>3, <6>1, <6>2
          <6>4. j + 1 \in 1 .. n /\ (j + 1) - 1 = j BY <3>4
          <6>5. all[j + 1] = all[k] BY <1>5, <6>3, <6>4
          <6>6. j + 1 \in 1 .. Len(all) /\ j + 1 < k BY <1>5, <1>6, <3>4, <4>2, <6>4
          <6> QED BY <1>6, <6>1, <6>5, <6>6
        <5> QED BY <5>1, <5>2
      <4> QED BY <4>1, <4>2
    <3>6. i \in 0 .. Len(all) /\ Len(all) \in 0 .. Len(all) BY <1>5, <1>6, <3>2, <3>4
    <3>7. \A k \in 1 .. Len(all) : all[k] <= MaxRecord <=> k <= Len(all) BY <1>6, <1>8
    <3> HIDE DEF S
    <3> QED BY <1>2, <1>5, <3>5, <3>6, <3>7, PieceSorted
  <2> QED BY <2>1, <2>2
<1> HIDE DEF p, all, l, i, n, rest
<1>11. rest \in Seq(Int) /\ Len(rest) \in Nat /\ KeysAscend(rest)
       /\ \A k \in 1 .. Len(rest) : rest[k] \in Int /\ min <= rest[k]
  BY <1>2, <1>10 DEF InOrder
<1>12. end \in 0 .. Len(rest) /\ \A k \in 1 .. Len(rest) : rest[k] <= max <=> k <= end
  BY <1>2, <1>11, StopFacts
<1>13. Scan(min, max) = SubSeq(rest, 1, end)
  <2>1. SubSeq(rest, 1, Len(rest)) = rest BY <1>11
  <2> HIDE DEF stop
  <2> QED BY <1>9, <2>1
<1> HIDE DEF stop, end, S
<1>14. InOrder(SubSeq(rest, 0 + 1, end), (S \cap (min .. MaxRecord)) \cap (min .. max))
  <2>1. 0 \in 0 .. Len(rest) /\ \A k \in 1 .. Len(rest) : rest[k] < min <=> k <= 0 BY <1>2, <1>11
  <2> QED BY <1>2, <1>10, <1>12, <2>1, PieceSorted
<1>15. (S \cap (min .. MaxRecord)) \cap (min .. max) = present \cap (min .. max)
  <2>1. \A r \in min .. max : r \in min .. MaxRecord BY <1>2
  <2>2. \A r \in min .. max : r \in present => r \in S BY <1>2, <1>3, <1>4, <1>7 DEF S
  <2>3. \A r \in S : r \in present BY DEF S
  <2> QED BY <2>1, <2>2, <2>3
<1>16. InOrder(Scan(min, max), present \cap (min .. max))
  <2>1. 0 + 1 = 1 OBVIOUS
  <2> QED BY <1>13, <1>14, <1>15, <2>1, Zenon
<1> QED BY <1>16, SortedUnique

-----------------------------------------------------------------------------
(* BPTDirWriter::bulk_insert, one directory.                                *)

Bulks == [dirs : [DirPages -> DirRecs], count : Nat, split : SplitRecs]

\* The directory with the key and the page at its end, and a new one with only the page.
Added(dir, split) == [keys |-> Append(dir.keys, split.key), children |-> Append(dir.children, split.page)]
Alone(split)      == [keys |-> << >>, children |-> <<split.page>>]

LEMMA Appended ==
  ASSUME NEW s \in Seq(Int), NEW x \in Int
  PROVE  IsInserted(Append(s, x), s, Len(s) + 1, x)
<1>1. /\ Append(s, x) \in Seq(Int) /\ Len(Append(s, x)) = Len(s) + 1 /\ Len(s) \in Nat
      /\ Append(s, x)[Len(s) + 1] = x /\ \A k \in 1 .. Len(s) : Append(s, x)[k] = s[k]
  OBVIOUS
<1>2. \A k \in 1 .. Len(s) : ~ (k >= Len(s) + 1) BY <1>1
<1> QED BY <1>1, <1>2 DEF IsInserted

LEMMA AddedFacts ==
  ASSUME NEW dir, IsDir(dir), NEW split \in SplitRecs
  PROVE  LET X == Added(dir, split)
             n == Len(dir.keys) IN
         /\ IsDir(X) /\ Len(X.keys) = n + 1 /\ n \in Nat
         /\ IsInserted(X.keys, dir.keys, n + 1, split.key)
         /\ IsInserted(X.children, dir.children, n + 2, split.page)
<1> DEFINE X == Added(dir, split)
           n == Len(dir.keys)
<1>1. dir.keys \in Seq(Int) /\ dir.children \in Seq(Int) /\ Len(dir.children) = n + 1 BY DEF IsDir
<1>2. split.key \in Int /\ split.page \in Int BY DEF SplitRecs
<1>3. n \in Nat /\ Len(dir.children) + 1 = n + 2 BY <1>1
<1>4. IsInserted(Append(dir.keys, split.key), dir.keys, n + 1, split.key) BY <1>1, <1>2, Appended
<1>5. IsInserted(Append(dir.children, split.page), dir.children, Len(dir.children) + 1, split.page)
  BY <1>1, <1>2, Appended
<1>6. /\ X.keys = Append(dir.keys, split.key) /\ X.children = Append(dir.children, split.page)
      /\ X = [keys |-> X.keys, children |-> X.children]
  BY DEF Added
<1> HIDE DEF X
<1>7. /\ X.keys \in Seq(Int) /\ Len(X.keys) = n + 1
      /\ X.children \in Seq(Int) /\ Len(X.children) = Len(dir.children) + 1
  BY <1>4, <1>5, <1>6 DEF IsInserted
<1>8. Len(X.children) = Len(X.keys) + 1 BY <1>1, <1>7
<1>9. IsDir(X)
  <2>1. X \in [keys : Seq(Int), children : Seq(Int)] BY <1>6, <1>7
  <2> QED BY <1>8, <2>1 DEF IsDir
<1> QED BY <1>3, <1>4, <1>5, <1>6, <1>7, <1>9 DEF X

LEMMA AloneFacts ==
  ASSUME NEW split \in SplitRecs
  PROVE  LET Y == Alone(split) IN
         /\ IsDir(Y) /\ Y \in DirRecs /\ Y.keys \in Seq(Int) /\ Len(Y.keys) = 0
         /\ Y.children \in Seq(Int) /\ Len(Y.children) = 1 /\ Y.children[1] = split.page
<1> DEFINE Y == Alone(split)
<1>1. split.page \in Int /\ DirMax \in Nat BY TreeAssumption DEF SplitRecs
<1>2. Y.keys = << >> /\ Y.children = <<split.page>> /\ Y = [keys |-> Y.keys, children |-> Y.children]
  BY DEF Alone
<1> HIDE DEF Y
<1>3. /\ Y.keys \in Seq(Int) /\ Len(Y.keys) = 0
      /\ Y.children \in Seq(Int) /\ Len(Y.children) = 1 /\ Y.children[1] = split.page
  BY <1>1, <1>2
<1>4. Y \in [keys : Seq(Int), children : Seq(Int)] BY <1>2, <1>3
<1>5. Len(Y.children) = Len(Y.keys) + 1 /\ Len(Y.keys) <= DirMax BY <1>1, <1>3
<1>6. IsDir(Y) BY <1>4, <1>5 DEF IsDir
<1> QED BY <1>3, <1>4, <1>5, <1>6 DEF Y, DirRecs

\* A root over two directories.
RootOver(key, n) == [keys |-> <<key>>, children |-> <<-n, -(n + 1)>>]

LEMMA RootOverFacts ==
  ASSUME NEW key \in Int, NEW n \in Nat
  PROVE  LET Z == RootOver(key, n) IN
         /\ IsDir(Z) /\ Z \in DirRecs
         /\ IsInserted(Z.keys, << >>, 1, key) /\ IsInserted(Z.children, <<-n>>, 2, -(n + 1))
<1> DEFINE Z == RootOver(key, n)
<1>1. Z.keys = <<key>> /\ Z.children = <<-n, -(n + 1)>> /\ Z = [keys |-> Z.keys, children |-> Z.children]
  BY DEF RootOver
<1> HIDE DEF Z
<1>2. Z.keys \in Seq(Int) /\ Len(Z.keys) = 1 /\ Z.keys[1] = key BY <1>1
<1>3. Z.children \in Seq(Int) /\ Len(Z.children) = 2 /\ Z.children[1] = -n /\ Z.children[2] = -(n + 1)
  BY <1>1
<1>4. Z \in [keys : Seq(Int), children : Seq(Int)] BY <1>1, <1>2, <1>3
<1>5. Len(Z.children) = Len(Z.keys) + 1 /\ Len(Z.keys) <= DirMax BY <1>2, <1>3, TreeAssumption
<1>6. IsDir(Z) /\ Z \in DirRecs BY <1>4, <1>5 DEF IsDir, DirRecs
<1>7. IsInserted(Z.keys, << >>, 1, key) BY <1>2 DEF IsInserted
<1>8. IsInserted(Z.children, <<-n>>, 2, -(n + 1))
  <2>1. Len(<<-n>>) = 1 /\ <<-n>>[1] = -n OBVIOUS
  <2>2. \A k \in 1 .. 1 : k = 1 OBVIOUS
  <2> QED BY <1>3, <2>1, <2>2 DEF IsInserted
<1> QED BY <1>6, <1>7, <1>8 DEF Z

\* What BulkStep does, by case.
LEMMA BulkStepFacts ==
  ASSUME NEW d \in DirPages, NEW s \in Bulks
  PROVE  LET dir == s.dirs[d]
             n == s.count
             u == BulkStep(d, s) IN
         /\ u \in Bulks /\ u.count >= n
         /\ s.split = NoSplit => u = s
         /\ s.split # NoSplit /\ Len(dir.keys) < DirMax =>
              /\ u.dirs = [s.dirs EXCEPT ![d] = Added(dir, s.split)]
              /\ u.count = n /\ u.split = NoSplit
         /\ s.split # NoSplit /\ Len(dir.keys) = DirMax /\ d # 0 =>
              /\ u.dirs = [s.dirs EXCEPT ![n] = Alone(s.split)]
              /\ u.count = n + 1 /\ u.split = [key |-> s.split.key, page |-> -n]
         /\ s.split # NoSplit /\ Len(dir.keys) = DirMax /\ d = 0 =>
              /\ u.dirs = [s.dirs EXCEPT ![n] = dir, ![n + 1] = Alone(s.split),
                                         ![0] = RootOver(s.split.key, n)]
              /\ u.count = n + 2 /\ u.split = NoSplit
<1> DEFINE dir == s.dirs[d]
           n == s.count
           X == Added(dir, s.split)
           Y == Alone(s.split)
           Z == RootOver(s.split.key, n)
           u == BulkStep(d, s)
<1>1. /\ dir \in DirRecs /\ s.split \in SplitRecs /\ n \in Nat /\ s.dirs \in [DirPages -> DirRecs]
      /\ s = [dirs |-> s.dirs, count |-> n, split |-> s.split]
  BY DEF Bulks
<1>2. IsDir(dir) /\ Len(dir.keys) <= DirMax /\ s.split.key \in Int /\ DirMax \in Nat
  BY <1>1, TreeAssumption DEF DirRecs, IsDir, SplitRecs
<1>3. IsDir(X) /\ Len(X.keys) = Len(dir.keys) + 1 /\ Len(dir.keys) \in Nat BY <1>1, <1>2, AddedFacts
<1>4. Y \in DirRecs /\ Z \in DirRecs BY <1>1, <1>2, AloneFacts, RootOverFacts
<1>5. NoSplit \in SplitRecs BY DEF NoSplit, SplitRecs
<1>6. u = IF s.split = NoSplit THEN s
          ELSE IF Len(dir.keys) < DirMax
            THEN [s EXCEPT !.dirs[d] = X, !.split = NoSplit]
          ELSE IF d # 0
            THEN [s EXCEPT !.dirs[n] = Y, !.count = n + 1,
                           !.split = [key |-> s.split.key, page |-> -n]]
            ELSE [s EXCEPT !.dirs[n] = dir, !.dirs[n + 1] = Y, !.dirs[0] = Z,
                           !.count = n + 2, !.split = NoSplit]
  BY Zenon DEF BulkStep, Added, Alone, RootOver
<1> HIDE DEF X, Y, Z, u
<1>7. CASE s.split = NoSplit
  <2>1. u = s BY <1>6, <1>7
  <2> QED BY <1>1, <1>7, <2>1 DEF u
<1>8. CASE s.split # NoSplit /\ Len(dir.keys) < DirMax
  <2>1. u = [dirs |-> [s.dirs EXCEPT ![d] = X], count |-> n, split |-> NoSplit]
    BY <1>1, <1>6, <1>8
  <2>2. Len(X.keys) <= DirMax BY <1>2, <1>3, <1>8
  <2>3. X \in DirRecs BY <1>3, <2>2 DEF DirRecs, IsDir
  <2>4. [s.dirs EXCEPT ![d] = X] \in [DirPages -> DirRecs] BY <1>1, <2>3
  <2>5. u \in Bulks /\ u.count >= n BY <1>1, <1>5, <2>1, <2>4 DEF Bulks
  <2> QED BY <1>2, <1>3, <1>8, <2>1, <2>5 DEF u, X
<1>9. CASE s.split # NoSplit /\ ~ (Len(dir.keys) < DirMax)
  <2>1. Len(dir.keys) = DirMax BY <1>2, <1>3, <1>9
  <2>2. CASE d # 0
    <3> DEFINE D == [s.dirs EXCEPT ![n] = Y]
               w == [key |-> s.split.key, page |-> -n]
    <3>1. D \in [DirPages -> DirRecs] BY <1>1, <1>4
    <3>2. u = [dirs |-> D, count |-> n + 1, split |-> w] BY <1>1, <1>6, <1>9, <2>2
    <3>3. w \in SplitRecs BY <1>1, <1>2 DEF SplitRecs
    <3> HIDE DEF D, w
    <3>4. u \in Bulks /\ u.count >= n /\ u.count = n + 1 /\ u.dirs = D /\ u.split = w
      BY <1>1, <3>1, <3>2, <3>3 DEF Bulks
    <3> QED BY <1>2, <1>9, <2>1, <2>2, <3>4 DEF u, D, w, Y
  <2>3. CASE d = 0
    <3> DEFINE D == [s.dirs EXCEPT ![n] = dir, ![n + 1] = Y, ![0] = Z]
    <3>1. D \in [DirPages -> DirRecs] BY <1>1, <1>4
    <3>2. u = [dirs |-> D, count |-> n + 2, split |-> NoSplit] BY <1>1, <1>6, <1>9, <2>3
    <3> HIDE DEF D
    <3>3. u \in Bulks /\ u.count >= n /\ u.count = n + 2 /\ u.dirs = D /\ u.split = NoSplit
      BY <1>1, <1>5, <3>1, <3>2 DEF Bulks
    <3> QED BY <1>2, <1>9, <2>1, <2>3, <3>3 DEF u, D, Y, Z
  <2> QED BY <2>2, <2>3
<1> QED BY <1>7, <1>8, <1>9

\* A full directory at the end of its level stays as it is, and the page goes to a new one.
LEMMA AloneHalves ==
  ASSUME NEW dir, IsDir(dir), Len(dir.keys) = DirMax, NEW split \in SplitRecs
  PROVE  LET X == Added(dir, split) IN
         /\ IsHalves(dir, Alone(split), X, DirMax)
         /\ Len(X.keys) = DirMax + 1 /\ X.keys[DirMax + 1] = split.key
<1> DEFINE X == Added(dir, split)
           Y == Alone(split)
           n == DirMax
<1>1. /\ IsDir(X) /\ Len(X.keys) = n + 1 /\ n \in Nat
      /\ IsInserted(X.keys, dir.keys, n + 1, split.key)
      /\ IsInserted(X.children, dir.children, n + 2, split.page)
  BY AddedFacts
<1>2. /\ IsDir(Y) /\ Y.keys \in Seq(Int) /\ Len(Y.keys) = 0
      /\ Y.children \in Seq(Int) /\ Len(Y.children) = 1 /\ Y.children[1] = split.page
  BY AloneFacts
<1> HIDE DEF X, Y, n
<1>3. dir.keys \in Seq(Int) /\ dir.children \in Seq(Int) /\ Len(dir.keys) = n
      /\ Len(dir.children) = n + 1
  BY DEF IsDir, n
<1>4. /\ \A k \in 1 .. n : k < n + 1 => X.keys[k] = dir.keys[k]
      /\ X.keys[n + 1] = split.key
      /\ \A k \in 1 .. n + 1 : k < n + 2 => X.children[k] = dir.children[k]
      /\ X.children[n + 2] = split.page
  BY <1>1, <1>3 DEF IsInserted
<1>5. IsPart(dir.keys, X.keys, 0, n)
  <2>1. \A k \in 1 .. n : 0 + k = k /\ k < n + 1 BY <1>1
  <2>2. \A k \in 1 .. n : dir.keys[k] = X.keys[0 + k] BY <1>4, <2>1
  <2> QED BY <1>3, <2>2 DEF IsPart
<1>6. IsPart(dir.children, X.children, 0, n + 1)
  <2>1. \A k \in 1 .. n + 1 : 0 + k = k /\ k < n + 2 BY <1>1
  <2>2. \A k \in 1 .. n + 1 : dir.children[k] = X.children[0 + k] BY <1>4, <2>1
  <2> QED BY <1>3, <2>2 DEF IsPart
<1>7. Len(X.keys) - n - 1 = 0 /\ Len(X.keys) - n = 1 BY <1>1
<1>8. IsPart(Y.keys, X.keys, n + 1, 0) BY <1>2 DEF IsPart
<1>9. IsPart(Y.children, X.children, n + 1, 1)
  <2>1. \A k \in 1 .. 1 : k = 1 /\ (n + 1) + k = n + 2 BY <1>1
  <2>2. \A k \in 1 .. 1 : Y.children[k] = X.children[(n + 1) + k] BY <1>2, <1>4, <2>1
  <2> QED BY <1>2, <2>2 DEF IsPart
<1>10. IsHalves(dir, Y, X, n) BY <1>2, <1>5, <1>6, <1>7, <1>8, <1>9 DEF IsHalves
<1> QED BY <1>1, <1>4, <1>10 DEF X, Y, n

\* The steps up to level k are done, and all the pages fit.
PostBulk(t0, ds0, x, k, s) ==
  s.count <= MaxDirs => \E t : t.dirs = s.count /\ Climbed(t0, ds0, x, k, t, s.dirs, s.split)

\* The last child takes the page after it.
LEMMA AddedTakes ==
  ASSUME NEW dir, IsDir(dir), NEW split \in SplitRecs, NEW x, Last(dir.children) = x
  PROVE  Takes(Added(dir, split), dir, Len(dir.keys) + 1, x, split)
<1> DEFINE X == Added(dir, split)
           n == Len(dir.keys)
<1>1. /\ IsDir(X) /\ n \in Nat
      /\ IsInserted(X.keys, dir.keys, n + 1, split.key)
      /\ IsInserted(X.children, dir.children, n + 2, split.page)
  BY AddedFacts
<1>2. dir.children[n + 1] = x BY DEF IsDir, Last
<1> HIDE DEF X, n
<1>3. n + 1 \in 1 .. n + 1 /\ (n + 1) + 1 = n + 2 BY <1>1
<1>4. Takes(X, dir, n + 1, x, split) BY <1>1, <1>2, <1>3 DEF Takes, Kids, n
<1> QED BY <1>4 DEF X, n

LEMMA BulkUp ==
  ASSUME NEW t0, NEW ds0, Typed(ds0, t0), NEW x, NEW k \in Int, NEW s \in Bulks,
         PostBulk(t0, ds0, x, k, s),
         NEW e \in InUseDirs(t0), e # 0, k < t0.level[e], High(t0, e) = Top,
         Last(ds0[e].children) = x
  PROVE  PostBulk(t0, ds0, -e, t0.level[e], BulkStep(e, s))
<1> DEFINE u == BulkStep(e, s)
           dir == s.dirs[e]
           n == s.count
           X == Added(dir, s.split)
           Y == Alone(s.split)
<1> SUFFICES ASSUME u.count <= MaxDirs
             PROVE  \E t : t.dirs = u.count /\ Climbed(t0, ds0, -e, t0.level[e], t, u.dirs, u.split)
  BY DEF PostBulk
<1>1. e \in DirPages /\ t0.level[e] \in Nat BY DirFacts
<1>2. MaxDirs \in Nat /\ DirMax \in Nat /\ DirMax > 1 BY TreeAssumption
<1>3. /\ u \in Bulks /\ u.count >= n
      /\ s.split = NoSplit => u = s
      /\ s.split # NoSplit /\ Len(dir.keys) < DirMax =>
           u.dirs = [s.dirs EXCEPT ![e] = X] /\ u.count = n /\ u.split = NoSplit
      /\ s.split # NoSplit /\ Len(dir.keys) = DirMax /\ e # 0 =>
           /\ u.dirs = [s.dirs EXCEPT ![n] = Y]
           /\ u.count = n + 1 /\ u.split = [key |-> s.split.key, page |-> -n]
  BY <1>1, BulkStepFacts
<1>4. n \in Nat /\ u.count \in Nat /\ s.dirs \in [DirPages -> DirRecs] /\ s.split \in SplitRecs
  BY <1>3 DEF Bulks
<1>5. n <= MaxDirs BY <1>2, <1>3, <1>4
<1>6. PICK t : t.dirs = n /\ Climbed(t0, ds0, x, k, t, s.dirs, s.split) BY <1>5 DEF PostBulk
<1>7. IsDir(dir) /\ Len(dir.keys) <= DirMax /\ Len(dir.keys) \in Nat
  BY <1>1, <1>4 DEF DirRecs, IsDir
<1>8. CASE s.split = NoSplit
  <2>1. Climbed(t0, ds0, -e, t0.level[e], t, s.dirs, NoSplit) BY <1>6, <1>8, ClimbNoSplit
  <2> QED BY <1>3, <1>6, <1>8, <2>1
<1>9. CASE s.split # NoSplit
  <2>1. dir = ds0[e] BY <1>1, <1>6, <1>9 DEF Climbed, Kept
  <2>2. Takes(X, ds0[e], Len(dir.keys) + 1, x, s.split) BY <1>4, <1>7, <2>1, AddedTakes
  <2> HIDE DEF u
  <2>3. CASE Len(dir.keys) < DirMax
    <3>1. u.dirs = [s.dirs EXCEPT ![e] = X] /\ u.count = n /\ u.split = NoSplit
      BY <1>3, <1>9, <2>3
    <3> HIDE DEF X
    <3>2. Climbed(t0, ds0, -e, t0.level[e], t, [s.dirs EXCEPT ![e] = X], NoSplit)
      BY <1>6, <1>9, <2>2, ClimbRoom
    <3> QED BY <1>6, <3>1, <3>2
  <2>4. CASE ~ (Len(dir.keys) < DirMax)
    <3>1. Len(dir.keys) = DirMax BY <1>2, <1>7, <2>4
    <3>2. /\ u.dirs = [s.dirs EXCEPT ![n] = Y]
          /\ u.count = n + 1 /\ u.split = [key |-> s.split.key, page |-> -n]
      BY <1>3, <1>9, <3>1
    <3>3. t.dirs < MaxDirs BY <1>2, <1>4, <1>6, <3>2
    <3>4. IsHalves(dir, Y, X, DirMax) /\ Len(X.keys) = DirMax + 1 /\ X.keys[DirMax + 1] = s.split.key
      BY <1>4, <1>7, <3>1, AloneHalves
    <3> HIDE DEF X, Y
    <3>5. DirMax \in 1 .. Len(X.keys) - 1 BY <1>2, <3>4
    <3>6. Climbed(t0, ds0, -e, t0.level[e], AfterSplit(t, e, X.keys[DirMax + 1]),
                  [s.dirs EXCEPT ![e] = dir, ![t.dirs] = Y],
                  [key |-> X.keys[DirMax + 1], page |-> -t.dirs])
      BY <1>6, <1>9, <2>2, <3>3, <3>4, <3>5, ClimbSplit
    <3>7. [s.dirs EXCEPT ![e] = dir, ![n] = Y] = [s.dirs EXCEPT ![n] = Y]
      BY <1>1, <1>4
    <3>8. AfterSplit(t, e, X.keys[DirMax + 1]).dirs = n + 1 BY <1>6 DEF AfterSplit
    <3>9. Climbed(t0, ds0, -e, t0.level[e], AfterSplit(t, e, X.keys[DirMax + 1]), u.dirs, u.split)
      BY <1>6, <3>2, <3>4, <3>6, <3>7
    <3> QED BY <3>2, <3>8, <3>9
  <2> QED BY <2>3, <2>4
<1> QED BY <1>8, <1>9

\* What the root split of an import makes of t: the root is over two new directories.
RootSplitFrom(t, K) == AfterSplit(Pushed(t), t.dirs, K)

LEMMA RootSplitFacts ==
  ASSUME NEW ds, NEW t, Typed(ds, t), t.dirs + 2 <= MaxDirs, NEW K \in Int
  PROVE  LET T == RootSplitFrom(t, K)
             n == t.dirs IN
         /\ T.dirs = n + 2 /\ T.leaves = t.leaves
         /\ T.lo[-n] = 0 /\ T.hi[-n] = K /\ T.lo[-(n + 1)] = K /\ T.hi[-(n + 1)] = Top
         /\ \A c \in Refs : c # -n /\ c # -(n + 1) => T.lo[c] = t.lo[c] /\ T.hi[c] = t.hi[c]
<1> DEFINE n == t.dirs
           P == Pushed(t)
           T == RootSplitFrom(t, K)
<1>1. /\ n \in Nat /\ MaxDirs \in Nat /\ MaxLeaves \in Nat
      /\ t.lo \in [Refs -> Int] /\ t.hi \in [Refs -> Int]
  BY TreeAssumption DEF Typed
<1>2. -n \in Refs /\ -(n + 1) \in Refs /\ -n # -(n + 1)
  <2>1. n + 2 <= MaxDirs OBVIOUS
  <2> HIDE DEF n
  <2>2. -MaxDirs <= -n /\ -MaxDirs <= -(n + 1) /\ -n <= MaxLeaves /\ -(n + 1) <= MaxLeaves
    BY <1>1, <2>1
  <2> QED BY <1>1, <2>2 DEF Refs
<1>3. /\ P.dirs = n + 1 /\ P.leaves = t.leaves
      /\ P.lo = [t.lo EXCEPT ![-n] = 0] /\ P.hi = [t.hi EXCEPT ![-n] = Top]
  BY DEF Pushed
<1>4. /\ T.dirs = P.dirs + 1 /\ T.leaves = P.leaves
      /\ T.lo = [P.lo EXCEPT ![-P.dirs] = K]
      /\ T.hi = [P.hi EXCEPT ![-P.dirs] = P.hi[-n], ![-n] = K]
  BY DEF AfterSplit, RootSplitFrom
<1> HIDE DEF P, T
<1>5. T.dirs = n + 2 /\ T.leaves = t.leaves BY <1>1, <1>3, <1>4
<1>6. P.lo[-n] = 0 /\ P.hi[-n] = Top /\ DOMAIN P.lo = Refs /\ DOMAIN P.hi = Refs
      /\ \A c \in Refs : c # -n => P.lo[c] = t.lo[c] /\ P.hi[c] = t.hi[c]
  BY <1>1, <1>2, <1>3
<1>7. T.lo = [P.lo EXCEPT ![-(n + 1)] = K] /\ T.hi = [P.hi EXCEPT ![-(n + 1)] = Top, ![-n] = K]
  BY <1>3, <1>4, <1>6
<1>8. /\ T.lo[-n] = 0 /\ T.hi[-n] = K /\ T.lo[-(n + 1)] = K /\ T.hi[-(n + 1)] = Top
      /\ \A c \in Refs : c # -n /\ c # -(n + 1) => T.lo[c] = t.lo[c] /\ T.hi[c] = t.hi[c]
  BY <1>2, <1>6, <1>7
<1> QED BY <1>5, <1>8 DEF T

\* The directories of the root split.
LEMMA RootSplitWhole ==
  ASSUME NEW ds, NEW t, NEW dir, IsDir(dir), Len(dir.keys) = DirMax, NEW split \in SplitRecs,
         Whole(ds, t), ds[0] = Added(dir, split), t.dirs + 2 <= MaxDirs,
         NEW D, D = [d \in DirPages |-> D[d]], D[0] = RootOver(split.key, t.dirs),
         D[t.dirs] = dir, D[t.dirs + 1] = Alone(split),
         \A d \in DirPages : d # 0 /\ d # t.dirs /\ d # t.dirs + 1 => D[d] = ds[d]
  PROVE  Whole(D, RootSplitFrom(t, split.key))
<1> DEFINE n == t.dirs
           X == Added(dir, split)
           Y == Alone(split)
           Z == RootOver(split.key, n)
           O == [keys |-> << >>, children |-> <<-n>>]
           P == Pushed(t)
           T == RootSplitFrom(t, split.key)
           E == [ds EXCEPT ![0] = O, ![n] = X]
           F == [E EXCEPT ![n] = dir, ![n + 1] = Y]
<1>1. Typed(ds, t) /\ MaxDirs \in Nat /\ MaxLeaves \in Nat /\ DirMax \in Nat /\ DirMax > 1
  BY TreeAssumption DEF Whole, Tree
<1>2. n \in 1 .. MaxDirs - 2 /\ DOMAIN ds = DirPages BY <1>1 DEF Typed
<1>3. 0 \in DirPages /\ n \in DirPages /\ n + 1 \in DirPages /\ n # 0 /\ n + 1 # 0 /\ n + 1 # n
  BY <1>1, <1>2 DEF DirPages
<1>4. split.key \in Int /\ split.page \in Int BY DEF SplitRecs
<1>5. IsHalves(dir, Y, X, DirMax) /\ Len(X.keys) = DirMax + 1 /\ X.keys[DirMax + 1] = split.key
  BY AloneHalves
<1>6. IsDir(Z) /\ IsInserted(Z.keys, << >>, 1, split.key) /\ IsInserted(Z.children, <<-n>>, 2, -(n + 1))
  BY <1>2, <1>4, RootOverFacts
<1>7. P.dirs = n + 1 /\ High(P, n) = Top
  <2>1. P.dirs = n + 1 /\ P.hi = [t.hi EXCEPT ![-n] = Top] BY DEF Pushed
  <2>a. n \in 0 .. MaxDirs BY <1>1, <1>2
  <2>2. t.hi \in [Refs -> Int] /\ -n \in Refs BY <1>1, <2>a, NegRefs DEF Typed
  <2> HIDE DEF P
  <2>3. P.hi[-n] = Top BY <2>1, <2>2
  <2> QED BY <1>3, <2>1, <2>3 DEF High
<1>8. T = AfterSplit(P, n, split.key) BY DEF RootSplitFrom
<1>9. T.lo[-(n + 1)] = split.key /\ T.dirs = n + 2 BY <1>1, <1>4, RootSplitFacts
<1> HIDE DEF X, Y, Z, O, P, T
<1>10. /\ DOMAIN E = DirPages /\ E[0] = O /\ E[n] = X
       /\ \A d \in DirPages : d # 0 /\ d # n => E[d] = ds[d]
  BY <1>2, <1>3
<1>11. Whole(E, P)
  <2>1. E[n] = ds[0] BY <1>10 DEF X
  <2> HIDE DEF E
  <2> QED BY <1>1, <1>2, <1>10, <2>1, RootPushed DEF O, P
<1> HIDE DEF E
<1>12. /\ DOMAIN F = DirPages /\ F[n] = dir /\ F[P.dirs] = Y /\ F[0] = O
       /\ \A d \in DirPages : d # n /\ d # P.dirs => F[d] = E[d]
  BY <1>3, <1>7, <1>10
<1> HIDE DEF F
<1>13. Tree(F, T, -n, -(n + 1))
  <2>1. n \in InUseDirs(P) /\ P.dirs < MaxDirs BY <1>1, <1>2, <1>7 DEF InUseDirs
  <2>2. DirMax \in 1 .. Len(E[n].keys) - 1 /\ IsHalves(dir, Y, E[n], DirMax)
        /\ E[n].keys[DirMax + 1] = split.key
    BY <1>1, <1>5, <1>10
  <2>3. Tree(F, AfterSplit(P, n, E[n].keys[DirMax + 1]), -n, -P.dirs)
    BY <1>3, <1>7, <1>11, <1>12, <2>1, <2>2, DirSplit
  <2> QED BY <1>7, <1>8, <2>2, <2>3
<1> DEFINE G == [F EXCEPT ![0] = Z]
<1>14. Whole(G, T)
  <2>1. 0 \in InUseDirs(T) BY <1>2, <1>9 DEF InUseDirs
  <2>2. F[0].keys = << >> /\ F[0].children = <<-n>> BY <1>12 DEF O
  <2>3. 1 \in Kids(F[0]) /\ F[0].children[1] = -n
    <3>1. Len(<< >>) = 0 /\ 1 \in 1 .. 0 + 1 OBVIOUS
    <3> QED BY <2>2, <3>1 DEF Kids
  <2>4. -n # -(n + 1) /\ 1 + 1 = 2 BY <1>2
  <2>5. IsInserted(Z.keys, F[0].keys, 1, T.lo[-(n + 1)]) BY <1>6, <1>9, <2>2
  <2>6. IsInserted(Z.children, F[0].children, 1 + 1, -(n + 1)) BY <1>6, <2>2, <2>4
  <2> QED BY <1>6, <1>13, <2>1, <2>3, <2>4, <2>5, <2>6, KidInserted
<1>15. D = G
  <2>2. \A d \in DirPages : D[d] = G[d] BY <1>3, <1>7, <1>10, <1>12 DEF Y, Z
  <2>3. G = [d \in DirPages |-> G[d]] BY <1>12
  <2> HIDE DEF G
  <2> QED BY <2>2, <2>3
<1> QED BY <1>14, <1>15 DEF T

\* What an import has done once the root is reached.
BulkDone(t0, u) ==
  /\ u.split = NoSplit
  /\ u.count <= MaxDirs => \E T : /\ T.dirs = u.count /\ Bounded(T) /\ LeavesSame(t0, T)
                                  /\ Whole(u.dirs, T)

LEMMA BulkRoot ==
  ASSUME NEW t0, NEW ds0, Typed(ds0, t0), NEW x, NEW k \in Int, NEW s \in Bulks,
         PostBulk(t0, ds0, x, k, s), k < t0.level[0], Last(ds0[0].children) = x
  PROVE  BulkDone(t0, BulkStep(0, s))
<1> DEFINE u == BulkStep(0, s)
           dir == s.dirs[0]
           n == s.count
           X == Added(dir, s.split)
           Y == Alone(s.split)
           Z == RootOver(s.split.key, n)
<1>0. MaxDirs \in Nat /\ MaxLeaves \in Nat /\ DirMax \in Nat /\ DirMax > 1 BY TreeAssumption
<1>1. 0 \in InUseDirs(t0) /\ 0 \in DirPages
  <2>1. t0.dirs \in 1 .. MaxDirs BY DEF Typed
  <2> QED BY <1>0, <2>1 DEF InUseDirs, DirPages
<1>2. t0.level[0] \in Nat BY <1>1, DirFacts
<1>3. /\ u \in Bulks /\ u.count >= n
      /\ s.split = NoSplit => u = s
      /\ s.split # NoSplit /\ Len(dir.keys) < DirMax =>
           u.dirs = [s.dirs EXCEPT ![0] = X] /\ u.count = n /\ u.split = NoSplit
      /\ s.split # NoSplit /\ Len(dir.keys) = DirMax /\ 0 = 0 =>
           /\ u.dirs = [s.dirs EXCEPT ![n] = dir, ![n + 1] = Y, ![0] = Z]
           /\ u.count = n + 2 /\ u.split = NoSplit
  BY <1>1, BulkStepFacts
<1>4. n \in Nat /\ u.count \in Nat /\ s.dirs \in [DirPages -> DirRecs] /\ s.split \in SplitRecs
  BY <1>3 DEF Bulks
<1>5. IsDir(dir) /\ Len(dir.keys) <= DirMax /\ Len(dir.keys) \in Nat
  BY <1>1, <1>4 DEF DirRecs, IsDir
<1>6. u.split = NoSplit
  <2>1. Len(dir.keys) < DirMax \/ Len(dir.keys) = DirMax BY <1>0, <1>5
  <2> QED BY <1>3, <2>1
<1> HIDE DEF u
<1>7. ASSUME u.count <= MaxDirs
      PROVE  \E T : T.dirs = u.count /\ Bounded(T) /\ LeavesSame(t0, T) /\ Whole(u.dirs, T)
  <2>1. n <= MaxDirs BY <1>0, <1>3, <1>4, <1>7
  <2>2. PICK t : t.dirs = n /\ Climbed(t0, ds0, x, k, t, s.dirs, s.split) BY <2>1 DEF PostBulk
  <2>3. CASE s.split = NoSplit
    <3>1. Whole(s.dirs, t) /\ Kept(t0, ds0, t, s.dirs, k) BY <2>2, <2>3 DEF Climbed
    <3>2. Bounded(t) /\ LeavesSame(t0, t) BY <3>1 DEF Kept, LeavesSame
    <3> QED BY <1>3, <2>2, <2>3, <3>1, <3>2
  <2>4. CASE s.split # NoSplit
    <3>1. dir = ds0[0] BY <1>1, <1>2, <2>2, <2>4 DEF Climbed, Kept
    <3>2. Takes(X, ds0[0], Len(dir.keys) + 1, x, s.split) BY <1>4, <1>5, <3>1, AddedTakes
    <3> DEFINE E == [s.dirs EXCEPT ![0] = X]
    <3>3. Climbed(t0, ds0, -0, t0.level[0], t, E, NoSplit)
      <4> HIDE DEF X
      <4> QED BY <1>1, <2>2, <2>4, <3>2, ClimbRoom
    <3>4. Whole(E, t) /\ Kept(t0, ds0, t, E, t0.level[0]) BY <3>3 DEF Climbed
    <3>5. Bounded(t) /\ LeavesSame(t0, t) BY <3>4 DEF Kept, LeavesSame
    <3>6. CASE Len(dir.keys) < DirMax
      <4>1. u.dirs = E /\ u.count = n BY <1>3, <2>4, <3>6
      <4> HIDE DEF E
      <4> QED BY <2>2, <3>4, <3>5, <4>1
    <3>7. CASE ~ (Len(dir.keys) < DirMax)
      <4>1. Len(dir.keys) = DirMax BY <1>0, <1>5, <3>7
      <4>2. u.dirs = [s.dirs EXCEPT ![n] = dir, ![n + 1] = Y, ![0] = Z] /\ u.count = n + 2
        BY <1>3, <2>4, <4>1
      <4>3. Typed(E, t) BY <3>4 DEF Whole, Tree
      <4>4. t.dirs \in 1 .. MaxDirs /\ t.leaves \in 1 .. MaxLeaves /\ Top \in Int
            /\ t.lo \in [Refs -> Int] /\ t.hi \in [Refs -> Int]
        BY <4>3, TreeAssumption DEF Typed, Top
      <4>5. n + 2 <= MaxDirs /\ n \in 1 .. MaxDirs - 2 BY <1>0, <1>4, <1>7, <2>2, <4>2, <4>4
      <4>6. n \in DirPages /\ n + 1 \in DirPages /\ n # 0 /\ n + 1 # 0 /\ n + 1 # n
        BY <1>0, <4>5 DEF DirPages
      <4> DEFINE D == u.dirs
                 K == s.split.key
                 T == RootSplitFrom(t, K)
      <4>7. /\ D = [d \in DirPages |-> D[d]] /\ D[0] = Z /\ D[n] = dir /\ D[n + 1] = Y
            /\ \A d \in DirPages : d # 0 /\ d # n /\ d # n + 1 => D[d] = s.dirs[d]
        <5> HIDE DEF Y, Z, dir
        <5> QED BY <1>1, <1>4, <4>2, <4>6
      <4>8. E[0] = X /\ \A d \in DirPages : d # 0 => E[d] = s.dirs[d] BY <1>1, <1>4
      <4> HIDE DEF D, E
      <4>9. Whole(D, T)
        <5>1. /\ E[0] = Added(dir, s.split) /\ t.dirs + 2 <= MaxDirs
              /\ D[0] = RootOver(s.split.key, t.dirs) /\ D[t.dirs] = dir
              /\ D[t.dirs + 1] = Alone(s.split)
              /\ \A d \in DirPages : d # 0 /\ d # t.dirs /\ d # t.dirs + 1 => D[d] = E[d]
          BY <2>2, <4>5, <4>7, <4>8
        <5> QED BY <1>4, <1>5, <3>4, <4>1, <4>7, <5>1, RootSplitWhole
      <4>10. K \in Int /\ 0 <= K /\ K <= Top
        <5>1. K \in Int BY <1>4 DEF SplitRecs
        <5> DEFINE q == s.split.page
        <5>2. Tree(s.dirs, t, x, q) /\ x # q /\ K = t.lo[q] BY <2>2, <2>4 DEF Climbed
        <5>3. q \in -(t.dirs - 1) .. t.leaves - 1 /\ t.lo[q] < t.hi[q] BY <5>2 DEF Tree, Pending
        <5>4. 0 <= t.lo[q] /\ t.hi[q] <= Top BY <3>5, <5>3 DEF Bounded
        <5>5. q \in Refs
          <6> HIDE DEF q
          <6>1. q \in Int /\ -MaxDirs <= q /\ q <= MaxLeaves BY <1>0, <4>4, <5>3
          <6> QED BY <6>1, <1>0 DEF Refs
        <5>6. t.hi[q] \in Int BY <4>4, <5>5
        <5> QED BY <4>4, <5>1, <5>2, <5>3, <5>4, <5>6
      <4>11. /\ T.dirs = n + 2 /\ T.leaves = t.leaves
             /\ T.lo[-n] = 0 /\ T.hi[-n] = K /\ T.lo[-(n + 1)] = K /\ T.hi[-(n + 1)] = Top
             /\ \A c \in Refs : c # -n /\ c # -(n + 1) => T.lo[c] = t.lo[c] /\ T.hi[c] = t.hi[c]
        BY <2>2, <4>3, <4>5, <4>10, RootSplitFacts
      <4> HIDE DEF T, K
      <4>12. Bounded(T)
        <5> SUFFICES ASSUME NEW c \in -(T.dirs - 1) .. T.leaves - 1
                     PROVE  0 <= T.lo[c] /\ T.hi[c] <= Top
          BY DEF Bounded
        <5>1. c \in Int /\ -(n + 1) <= c /\ c <= t.leaves - 1 BY <1>4, <4>4, <4>11
        <5>2. CASE c = -n \/ c = -(n + 1) BY <4>4, <4>10, <4>11, <5>2
        <5>3. CASE c # -n /\ c # -(n + 1)
          <6>1. c \in -(t.dirs - 1) .. t.leaves - 1 BY <1>4, <2>2, <4>4, <5>1, <5>3
          <6>2. -MaxDirs <= c /\ c <= MaxLeaves BY <1>0, <4>4, <4>5, <5>1
          <6>3. c \in Refs BY <1>0, <5>1, <6>2 DEF Refs
          <6>4. 0 <= t.lo[c] /\ t.hi[c] <= Top BY <3>5, <6>1 DEF Bounded
          <6> QED BY <4>11, <5>3, <6>3, <6>4
        <5> QED BY <5>2, <5>3
      <4>13. LeavesSame(t0, T)
        <5>1. \A c \in 0 .. t.leaves - 1 : c \in Refs /\ c # -n /\ c # -(n + 1)
          <6> TAKE c \in 0 .. t.leaves - 1
          <6>1. c \in Int /\ 0 <= c /\ c <= MaxLeaves BY <1>0, <4>4
          <6>2. -MaxDirs <= c BY <1>0, <6>1
          <6>3. n \in Int /\ n >= 1 BY <1>0, <4>5
          <6>4. c # -n /\ c # -(n + 1) BY <6>1, <6>3
          <6> QED BY <1>0, <6>1, <6>2, <6>4 DEF Refs
        <5>2. \A c \in 0 .. t.leaves - 1 : T.lo[c] = t.lo[c] /\ T.hi[c] = t.hi[c] BY <4>11, <5>1
        <5> QED BY <3>5, <4>11, <5>2 DEF LeavesSame
      <4> QED BY <4>2, <4>9, <4>11, <4>12, <4>13 DEF D
    <3> QED BY <3>6, <3>7
  <2> QED BY <2>3, <2>4
<1> QED BY <1>6, <1>7 DEF BulkDone, u

-----------------------------------------------------------------------------
(* The way down of an import: always the last child.                        *)

LEMMA LastDown ==
  ASSUME NEW ds, NEW t, Whole(ds, t), NEW d \in DirPages
  PROVE  LET c == Last(ds[d].children) IN
         /\ c \in Int
         /\ c < 0 => /\ -c \in DirPages /\ -c \in InUseDirs(t) /\ t.level[-c] < t.level[d]
         /\ d \in InUseDirs(t) /\ High(t, d) = Top =>
              /\ t.hi[c] = Top
              /\ c < 0 => High(t, -c) = Top
              /\ ~ (c < 0) => c \in 0 .. t.leaves - 1
<1> DEFINE c == Last(ds[d].children)
           dir == ds[d]
           j == Len(dir.keys) + 1
<1>1. Typed(ds, t) /\ MaxDirs \in Nat /\ MaxLeaves \in Nat BY TreeAssumption DEF Whole, Tree
<1>2. t.dirs \in 1 .. MaxDirs /\ t.leaves \in 1 .. MaxLeaves BY <1>1 DEF Typed
<1>3. CASE d \in InUseDirs(t)
  <2>1. Len(dir.keys) \in Nat /\ Len(dir.children) = j BY <1>1, <1>3, DirFacts
  <2>2. c = dir.children[j] BY <2>1 DEF Last
  <2>3. j \in Kids(dir) BY <2>1 DEF Kids
  <2>4. ChildIn(dir.children[j], dir, t, 0, 0, d, j) BY <1>3, <2>3 DEF Whole, Tree, ChildrenIn
  <2> HIDE DEF c, dir, j
  <2>5. /\ c \in -(t.dirs - 1) .. t.leaves - 1 /\ (c < 0 => t.level[-c] < t.level[d])
        /\ t.hi[c] = Upper(dir, t, d, j)
    BY <2>2, <2>4 DEF ChildIn, Seen
  <2>6. Upper(dir, t, d, j) = High(t, d) BY DEF Upper, j
  <2>7. c \in Int BY <1>2, <2>5
  <2>8. c < 0 => -c \in DirPages /\ -c \in InUseDirs(t) /\ -c # 0 /\ -(-c) = c
    BY <1>1, <1>2, <2>5, <2>7 DEF DirPages, InUseDirs
  <2>9. c < 0 => High(t, -c) = t.hi[c] BY <2>8 DEF High
  <2>10. ~ (c < 0) => c \in 0 .. t.leaves - 1 BY <1>2, <2>5, <2>7
  <2> QED BY <2>5, <2>6, <2>7, <2>8, <2>9, <2>10 DEF c
<1>4. CASE d \notin InUseDirs(t)
  <2>1. d >= t.dirs BY <1>1, <1>2, <1>4 DEF DirPages, InUseDirs
  <2>2. dir = NoDir BY <1>1, <2>1 DEF Typed
  <2>3. c = 0 BY <2>2 DEF Last, NoDir
  <2> HIDE DEF c
  <2> QED BY <1>4, <2>3 DEF c
<1> QED BY <1>3, <1>4

LEMMA BulkInsertExact ==
  ASSUME NEW s \in Bulks, NEW t, Whole(s.dirs, t), Bounded(t), t.dirs = s.count, t.leaves < MaxLeaves,
         NEW b \in 0 .. t.leaves - 1, t.hi[b] = Top, \A q \in 0 .. t.leaves - 1 : t.hi[q] = Top => q = b,
         NEW K \in Int, t.lo[b] < K, K < Top
  PROVE  LET u == BulkInsert(s, t.leaves, K) IN u \in Bulks /\ BulkDone(AfterLeaf(t, b, K), u)
<1> DEFINE t0 == AfterLeaf(t, b, K)
           w == [key |-> K, page |-> t.leaves]
           s0 == [s EXCEPT !.split = w]
           ds == s.dirs
           c(d) == Last(s.dirs[d].children)
           From(d, f) == IF c(d) < 0 THEN f[-c(d)] ELSE s0
           H == [d \in DirPages |-> [f \in [DirPages -> Bulks] |-> BulkStep(d, From(d, f))]]
<1>1. Typed(ds, t) /\ MaxDirs \in Nat /\ MaxLeaves \in Nat BY TreeAssumption DEF Whole, Tree
<1>2. t.dirs \in 1 .. MaxDirs /\ t.leaves \in Int /\ t.level \in [DirPages -> Nat] /\ 0 \in DirPages
  <2>1. t.dirs \in 1 .. MaxDirs /\ t.leaves \in 1 .. MaxLeaves /\ t.level \in [DirPages -> Nat]
    BY <1>1, Zenon DEF Typed
  <2>2. t.leaves \in Int /\ 0 \in DirPages BY <1>1, <2>1 DEF DirPages
  <2> QED BY <2>1, <2>2
<1>3. \A d \in DirPages :
        /\ c(d) \in Int
        /\ c(d) < 0 => /\ -c(d) \in DirPages /\ -c(d) \in InUseDirs(t) /\ t.level[-c(d)] < t.level[d]
        /\ d \in InUseDirs(t) /\ High(t, d) = Top =>
             /\ t.hi[c(d)] = Top
             /\ c(d) < 0 => High(t, -c(d)) = Top
             /\ ~ (c(d) < 0) => c(d) \in 0 .. t.leaves - 1
  BY LastDown
<1>4. Typed(ds, t0) /\ Climbed(t0, ds, b, -1, t0, ds, w) BY LeafStarts
<1>5. t0.dirs = t.dirs /\ t0.level = t.level /\ t0.leaves = t.leaves + 1 BY DEF AfterLeaf
<1>6. s0.dirs = ds /\ s0.count = s.count /\ s0.split = w /\ s0 \in Bulks
  <2>1. w \in SplitRecs BY <1>2 DEF SplitRecs
  <2> HIDE DEF w
  <2>2. s0 = [dirs |-> s.dirs, count |-> s.count, split |-> w] BY DEF Bulks
  <2> QED BY <2>1, <2>2 DEF Bulks
<1>7. \A d \in InUseDirs(t) : High(t0, d) = High(t, d)
  <2> TAKE d \in InUseDirs(t)
  <2>1. CASE d = 0 BY <2>1 DEF High
  <2>2. CASE d # 0
    <3>1. -d \in Refs BY <1>1, DirFacts
    <3>2. -d # t.leaves /\ -d # b BY <1>1, <1>2, <2>2 DEF InUseDirs, Typed
    <3>3. \A q \in Refs : q # t.leaves /\ q # b => t0.hi[q] = t.hi[q] BY <1>1, LeafFacts
    <3> HIDE DEF t0
    <3> QED BY <2>2, <3>1, <3>2, <3>3 DEF High
  <2> QED BY <2>1, <2>2
<1> HIDE DEF t0, w, s0, c
<1>8. PostBulk(t0, ds, b, -1, s0) BY <1>4, <1>5, <1>6 DEF PostBulk
<1>9. \A d \in DirPages : \A f \in [DirPages -> Bulks] : From(d, f) \in Bulks BY <1>3, <1>6
<1>10. Descends(DirPages, Bulks, t.level[0], t.level, H)
  <2>1. t.level[0] \in Nat /\ Bulks # {} BY <1>2, <1>6
  <2>2. t.level \in [DirPages -> 0 .. t.level[0]]
    <3>1. \A d \in DirPages : t.level[d] \in 0 .. t.level[0] BY <1>1, <1>2, <2>1 DEF Typed
    <3> QED BY <1>2, <3>1
  <2>3. H \in [DirPages -> [[DirPages -> Bulks] -> Bulks]]
    <3>1. ASSUME NEW d \in DirPages, NEW f \in [DirPages -> Bulks] PROVE BulkStep(d, From(d, f)) \in Bulks
      BY <1>9, BulkStepFacts
    <3> HIDE DEF From
    <3> QED BY <3>1
  <2>4. ASSUME NEW d \in DirPages, NEW f \in [DirPages -> Bulks], NEW g \in [DirPages -> Bulks],
               \A e \in DirPages : t.level[e] < t.level[d] => f[e] = g[e]
        PROVE  H[d][f] = H[d][g]
    <3>1. From(d, f) = From(d, g) BY <1>3, <2>4
    <3> HIDE DEF From
    <3> QED BY <3>1
  <2> HIDE DEF H
  <2> QED BY <2>1, <2>2, <2>3, <2>4, Zenon DEF Descends
<1> HIDE DEF From, H
<1>11. Solvable(DirPages, Bulks, H) BY <1>10, RecursionExists, Zenon
<1>12. PICK g \in [DirPages -> Bulks] : g = [d \in DirPages |-> H[d][g]] BY <1>11 DEF Solvable
<1>13. g = [d \in DirPages |-> BulkStep(d, From(d, g))] BY <1>12 DEF H
<1> DEFINE Eq(f) == f = [d \in DirPages |->
                           BulkStep(d, IF Last(s.dirs[d].children) < 0 THEN f[-Last(s.dirs[d].children)]
                                       ELSE [s EXCEPT !.split = w])]
           after == CHOOSE f : Eq(f)
<1>14. Eq(after)
  <2>1. Eq(g) BY <1>13 DEF From, s0, c
  <2> QED BY <2>1, Zenon
<1>15. BulkInsert(s, t.leaves, K) = after[0] BY Zenon DEF BulkInsert, w
<1>16. after = [d \in DirPages |-> BulkStep(d, From(d, after))] BY <1>14, Zenon DEF From, s0, c
<1> HIDE DEF Eq, after
\* The chosen function is of the type.
<1> DEFINE Bad(d) == after[d] \notin Bulks
           B == {k \in Nat : \E d \in DirPages : t.level[d] = k /\ Bad(d)}
<1>17. B = {}
  <2> SUFFICES ASSUME B # {} PROVE FALSE OBVIOUS
  <2>1. PICK k \in B : \A l \in B : k <= l BY Least
  <2>2. PICK d \in DirPages : t.level[d] = k /\ Bad(d) OBVIOUS
  <2>3. From(d, after) \in Bulks
    <3>1. CASE c(d) < 0
      <4> DEFINE e == -c(d)
      <4>1. e \in DirPages /\ t.level[e] < t.level[d] BY <1>3, <3>1
      <4>2. From(d, after) = after[e] BY <3>1 DEF From
      <4> HIDE DEF e
      <4>3. t.level[e] \in Nat /\ t.level[d] \in Nat BY <1>2, <4>1
      <4>4. t.level[e] \notin B BY <2>1, <2>2, <4>1, <4>3
      <4> QED BY <4>1, <4>2, <4>3, <4>4
    <3>2. CASE ~ (c(d) < 0) BY <1>6, <3>2 DEF From
    <3> QED BY <3>1, <3>2
  <2>4. BulkStep(d, From(d, after)) \in Bulks BY <2>3, BulkStepFacts
  <2>5. after[d] = BulkStep(d, From(d, after)) BY <1>16
  <2> QED BY <2>2, <2>4, <2>5
<1>18. \A d \in DirPages : after[d] \in Bulks
  <2> TAKE d \in DirPages
  <2>1. t.level[d] \in Nat BY <1>2
  <2> QED BY <1>17, <2>1
\* What every directory gets from the level below it.
<1> DEFINE Done(d) == PostBulk(t0, ds, -d, t0.level[d], after[d])
           Good(d) == \E l \in Int : /\ l < t0.level[d] /\ From(d, after) \in Bulks
                                     /\ PostBulk(t0, ds, c(d), l, From(d, after))
           Late(d) == d \in InUseDirs(t) /\ High(t, d) = Top /\ d # 0 /\ ~Done(d)
           C == {k \in Nat : \E d \in DirPages : t.level[d] = k /\ Late(d)}
<1> HIDE DEF Done
<1>19. ASSUME NEW d \in DirPages, d \in InUseDirs(t), High(t, d) = Top,
              \A e \in DirPages : t.level[e] < t.level[d] => ~Late(e)
       PROVE  Good(d)
  <2>1. t0.level[d] \in Nat BY <1>2, <1>5
  <2>2. CASE c(d) < 0
    <3> DEFINE e == -c(d)
    <3>1. e \in DirPages /\ e \in InUseDirs(t) /\ t.level[e] < t.level[d] /\ High(t, e) = Top
      BY <1>3, <1>19, <2>2
    <3>2. From(d, after) = after[e] BY <2>2 DEF From
    <3>3. c(d) \in Int BY <1>3
    <3>4. -e = c(d) /\ e # 0 BY <2>2, <3>3
    <3> HIDE DEF e
    <3>5. Done(e) BY <1>19, <3>1, <3>4
    <3>6. PostBulk(t0, ds, c(d), t0.level[e], From(d, after)) BY <3>2, <3>4, <3>5 DEF Done
    <3>7. t0.level[e] \in Int /\ t0.level[e] < t0.level[d] BY <1>2, <1>5, <3>1
    <3> QED BY <1>18, <3>1, <3>2, <3>6, <3>7
  <2>3. CASE ~ (c(d) < 0)
    <3>1. From(d, after) = s0 BY <2>3 DEF From
    <3>2. c(d) = b BY <1>3, <1>19, <2>3
    <3>3. -1 \in Int /\ -1 < t0.level[d] BY <2>1
    <3> QED BY <1>6, <1>8, <3>1, <3>2, <3>3
  <2> QED BY <2>2, <2>3
<1>20. C = {}
  <2> SUFFICES ASSUME C # {} PROVE FALSE OBVIOUS
  <2>1. PICK k \in C : \A l \in C : k <= l BY Least
  <2>2. PICK d \in DirPages : t.level[d] = k /\ Late(d) OBVIOUS
  <2>3. ASSUME NEW e \in DirPages, t.level[e] < t.level[d] PROVE ~Late(e)
    <3>1. t.level[e] \in Nat /\ t.level[d] \in Nat BY <1>2
    <3>2. t.level[e] \notin C BY <2>1, <2>2, <2>3, <3>1
    <3> QED BY <3>1, <3>2
  <2>4. Good(d) BY <1>19, <2>2, <2>3
  <2>5. PICK l \in Int : /\ l < t0.level[d] /\ From(d, after) \in Bulks
                         /\ PostBulk(t0, ds, c(d), l, From(d, after))
    BY <2>4
  <2>6. d \in InUseDirs(t0) /\ High(t0, d) = Top BY <1>5, <1>7, <2>2 DEF InUseDirs
  <2>7. PostBulk(t0, ds, -d, t0.level[d], BulkStep(d, From(d, after)))
    BY <1>4, <2>2, <2>5, <2>6, BulkUp DEF c
  <2>8. Done(d) BY <1>16, <2>7 DEF Done
  <2> QED BY <2>2, <2>8
<1>21. BulkDone(t0, after[0])
  <2>1. 0 \in InUseDirs(t) /\ High(t, 0) = Top BY <1>2 DEF InUseDirs, High
  <2>2. ASSUME NEW e \in DirPages PROVE ~Late(e)
    <3>1. t.level[e] \in Nat BY <1>2
    <3> QED BY <1>20, <3>1
  <2>3. Good(0) BY <1>2, <1>19, <2>1, <2>2
  <2>4. PICK l \in Int : /\ l < t0.level[0] /\ From(0, after) \in Bulks
                         /\ PostBulk(t0, ds, c(0), l, From(0, after))
    BY <2>3
  <2>5. BulkDone(t0, BulkStep(0, From(0, after))) BY <1>4, <2>4, BulkRoot DEF c
  <2>6. after[0] = BulkStep(0, From(0, after)) BY <1>2, <1>16
  <2> QED BY <2>5, <2>6
<1> QED BY <1>2, <1>15, <1>18, <1>21 DEF t0

-----------------------------------------------------------------------------
(* The leaves of an import.                                                 *)

LEMMA PageStarts ==
  ASSUME NEW p \in Nat, NEW q \in Nat, p < q
  PROVE  p * LeafMax + LeafMax <= q * LeafMax
<1> DEFINE L == LeafMax
<1>0. L \in Nat BY TreeAssumption
<1> HIDE DEF L
<1>1. PICK k \in Nat : q = (p + 1) + k
  <2>1. q - p - 1 \in Nat /\ q = (p + 1) + (q - p - 1) OBVIOUS
  <2> QED BY <2>1
<1>2. k * L \in Nat BY <1>0
<1>3. q * L = p * L + L + k * L BY <1>0, <1>1
<1>4. p * L \in Nat /\ q * L \in Nat BY <1>0
<1>5. p * L + L <= q * L BY <1>0, <1>2, <1>3, <1>4
<1> QED BY <1>5 DEF L

LEMMA PageCount ==
  ASSUME NEW n \in Nat, n > 0
  PROVE  LET c == (n + LeafMax - 1) \div LeafMax IN
         c \in Nat /\ c > 0 /\ (c - 1) * LeafMax < n /\ n <= c * LeafMax
<1> DEFINE L == LeafMax
           c == (n + L - 1) \div L
           r == (n + L - 1) % L
<1>0. L \in Nat /\ L > 1 BY TreeAssumption
<1> HIDE DEF L
<1>1. n + L - 1 = L * c + r /\ r \in 0 .. L - 1 /\ c \in Int BY <1>0
<1> HIDE DEF c, r
<1>2. c > 0 BY <1>0, <1>1
<1>3. (c - 1) * L = L * c - L BY <1>0, <1>1
<1>4. c * L = L * c /\ c * L \in Int /\ r \in Int BY <1>0, <1>1
<1>5. (c - 1) * L < n /\ n <= c * L BY <1>0, <1>1, <1>3, <1>4
<1> QED BY <1>1, <1>2, <1>5 DEF c, L

LEMMA ImportSorted ==
  ASSUME NEW S \in SUBSET Records
  PROVE  InOrder(Sorted(S), S) /\ Len(Sorted(S)) \in Nat
<1>1. MaxRecord \in Int /\ 1 \in Int BY TreeAssumption
<1>2. IsFiniteSet(1 .. MaxRecord) BY <1>1, FS_Interval
<1>3. IsFiniteSet(S) BY <1>2, FS_Subset DEF Records
<1>4. S \in SUBSET Int BY <1>1 DEF Records
<1>5. InOrder(Sorted(S), S) BY <1>3, <1>4, SortedExists
<1> QED BY <1>5 DEF InOrder

\* Where the records of page p are in the sorted sequence.
IsPage(S, p, l, a, n) ==
  /\ n \in Nat /\ a \in Nat /\ (n # 0 => a < n)
  /\ p # LeafCount(S) - 1 => /\ l.value_count = LeafMax /\ l.next_leaf = p + 1
                             /\ a + LeafMax < n
  /\ p = LeafCount(S) - 1 => /\ l.value_count = n - a /\ l.next_leaf = 0
                             /\ a <= n /\ n <= a + LeafMax
  /\ n = 0 => p = 0 /\ LeafCount(S) = 1
  /\ l.records = [i \in Slots |-> IF i < l.value_count THEN Sorted(S)[a + i + 1] ELSE 0]
  /\ l = [records |-> l.records, value_count |-> l.value_count, next_leaf |-> l.next_leaf]

LEMMA LeafCountNat ==
  ASSUME NEW S \in SUBSET Records
  PROVE  LeafCount(S) \in Nat /\ LeafCount(S) >= 1
<1> DEFINE n == Len(Sorted(S))
           c == (n + LeafMax - 1) \div LeafMax
<1>1. n \in Nat BY ImportSorted
<1>2. LeafCount(S) = IF n = 0 THEN 1 ELSE c BY Zenon DEF LeafCount
<1> HIDE DEF n
<1>3. n # 0 => c \in Nat /\ c > 0 BY <1>1, PageCount
<1> HIDE DEF c
<1> QED BY <1>2, <1>3

LEMMA ImportedPage ==
  ASSUME NEW S \in SUBSET Records, NEW p \in 0 .. LeafCount(S) - 1
  PROVE  IsPage(S, p, ImportedLeaf(S, p), p * LeafMax, Len(Sorted(S)))
<1> DEFINE n == Len(Sorted(S))
           a == p * LeafMax
           L == LeafMax
           C == LeafCount(S)
           c == (n + LeafMax - 1) \div LeafMax
           l == ImportedLeaf(S, p)
           more == (p + 1) * L < n
           size == IF more THEN L ELSE n - a
<1>1. n \in Nat /\ L \in Nat /\ L > 1 /\ C \in Nat /\ C >= 1
  BY ImportSorted, LeafCountNat, TreeAssumption
<1>2. p \in Nat /\ p <= C - 1 BY <1>1
<1>3. l = [records |-> [i \in Slots |-> IF i < size THEN Sorted(S)[a + i + 1] ELSE 0],
           value_count |-> size, next_leaf |-> IF more THEN p + 1 ELSE 0]
  BY Zenon DEF ImportedLeaf
<1>4. C = IF n = 0 THEN 1 ELSE c BY Zenon DEF LeafCount
<1>5. a \in Nat /\ (p + 1) * L = a + L BY <1>1, <1>2
<1>6. n # 0 => C = c /\ (C - 1) * L < n /\ n <= C * L
  <2> HIDE DEF n
  <2>1. n # 0 => c \in Nat /\ c > 0 /\ (c - 1) * L < n /\ n <= c * L BY <1>1, PageCount
  <2> HIDE DEF c
  <2> QED BY <1>4, <2>1
<1>7. n # 0 => a < n
  <2>1. CASE p = C - 1 BY <1>6, <2>1
  <2>2. CASE p # C - 1
    <3>1. C - 1 \in Nat /\ p < C - 1 BY <1>1, <1>2, <2>2
    <3>2. a + L <= (C - 1) * L BY <1>2, <3>1, PageStarts
    <3> DEFINE b == (C - 1) * L
    <3>3. b \in Nat BY <1>1, <3>1
    <3> HIDE DEF b, a, L, n, C
    <3> QED BY <1>1, <1>5, <1>6, <3>2, <3>3 DEF b
  <2> QED BY <2>1, <2>2
<1>8. p # C - 1 => a + L < n /\ n # 0
  <2> SUFFICES ASSUME p # C - 1 PROVE a + L < n /\ n # 0 OBVIOUS
  <2>1. C - 1 \in Nat /\ p < C - 1 BY <1>1, <1>2
  <2>2. a + L <= (C - 1) * L BY <1>2, <2>1, PageStarts
  <2>3. n # 0 BY <1>1, <1>2, <1>4
  <2> DEFINE b == (C - 1) * L
  <2>4. b \in Nat BY <1>1, <2>1
  <2> HIDE DEF b, a, L, n, C
  <2> QED BY <1>1, <1>5, <1>6, <2>2, <2>3, <2>4 DEF b
<1>9. p = C - 1 => a <= n /\ n <= a + L
  <2> SUFFICES ASSUME p = C - 1 PROVE a <= n /\ n <= a + L OBVIOUS
  <2>1. p + 1 = C BY <1>1
  <2>2. n # 0 => n <= a + L BY <1>5, <1>6, <2>1
  <2>3. n = 0 => C = 1 BY <1>4
  <2>4. n = 0 => p = 0 BY <1>1, <2>1, <2>3
  <2>5. n = 0 => a = 0 BY <1>1, <2>4
  <2> HIDE DEF a, L, n, C
  <2> QED BY <1>1, <1>5, <1>7, <2>2, <2>5
<1>10. n = 0 => p = 0 /\ C = 1 BY <1>1, <1>2, <1>4
<1>11. p # C - 1 => more BY <1>5, <1>8
<1>12. p = C - 1 => ~more
  <2> HIDE DEF a, n, C
  <2> QED BY <1>1, <1>5, <1>9
<1> HIDE DEF l, a, n, C, L, more
<1>13. /\ l.value_count = size /\ l.next_leaf = (IF more THEN p + 1 ELSE 0)
       /\ l.records = [i \in Slots |-> IF i < size THEN Sorted(S)[a + i + 1] ELSE 0]
       /\ l = [records |-> l.records, value_count |-> l.value_count, next_leaf |-> l.next_leaf]
  BY <1>3
<1>14. p # C - 1 => l.value_count = L /\ l.next_leaf = p + 1 BY <1>11, <1>13
<1>15. p = C - 1 => l.value_count = n - a /\ l.next_leaf = 0 BY <1>12, <1>13
<1> HIDE DEF size
<1>16. l.records = [i \in Slots |-> IF i < l.value_count THEN Sorted(S)[a + i + 1] ELSE 0] BY <1>13
<1>17. IsPage(S, p, l, a, n)
  BY <1>1, <1>5, <1>7, <1>8, <1>9, <1>10, <1>13, <1>14, <1>15, <1>16 DEF IsPage, C, L
<1> QED BY <1>17 DEF l, a, n

\* The first record of page p, and where the page ends when page last is the last one.
FirstKey(S, p) == IF p = 0 THEN 0 ELSE Sorted(S)[p * LeafMax + 1]
EndKey(S, p, last) == IF p = last THEN Top ELSE FirstKey(S, p + 1)

LEMMA FirstKeys ==
  ASSUME NEW S \in SUBSET Records
  PROVE  /\ \A p \in 0 .. LeafCount(S) - 1 :
              /\ FirstKey(S, p) \in 0 .. MaxRecord
              /\ p # 0 => ImportedLeaf(S, p).records[0] = FirstKey(S, p)
         /\ \A p, q \in 0 .. LeafCount(S) - 1 : p < q => FirstKey(S, p) < FirstKey(S, q)
<1> DEFINE seq == Sorted(S)
           n == Len(seq)
           C == LeafCount(S)
           a(p) == p * LeafMax
<1>1. /\ seq \in Seq(Int) /\ n \in Nat /\ C \in Nat /\ LeafMax \in Nat /\ LeafMax > 1 /\ MaxRecord \in Nat
      /\ \A k \in 1 .. n : seq[k] \in S /\ \A j \in 1 .. n : k < j => seq[k] < seq[j]
  BY ImportSorted, LeafCountNat, TreeAssumption DEF InOrder, KeysAscend
<1>2. \A p \in 0 .. C - 1 : IsPage(S, p, ImportedLeaf(S, p), a(p), n) BY ImportedPage
<1>3. \A k \in 1 .. n : seq[k] \in 1 .. MaxRecord BY <1>1 DEF Records
<1> HIDE DEF seq, n, C, a
<1>4. ASSUME NEW p \in 0 .. C - 1, p # 0
      PROVE  a(p) + 1 \in 1 .. n /\ ImportedLeaf(S, p).records[0] = seq[a(p) + 1]
  <2> DEFINE l == ImportedLeaf(S, p)
             b == a(p)
  <2>1. /\ b \in Nat /\ n # 0 /\ b < n
        /\ p # C - 1 => l.value_count = LeafMax
        /\ p = C - 1 => l.value_count = n - b
        /\ l.records = [i \in Slots |-> IF i < l.value_count THEN seq[b + i + 1] ELSE 0]
    BY <1>2, <1>4 DEF IsPage, seq, C
  <2> HIDE DEF l, b
  <2>2. 0 \in Slots /\ 0 < l.value_count /\ b + 0 + 1 = b + 1 BY <1>1, <2>1 DEF Slots
  <2>3. l.records[0] = seq[b + 0 + 1] BY <2>1, <2>2
  <2>4. b + 1 \in 1 .. n BY <1>1, <2>1
  <2> QED BY <2>2, <2>3, <2>4 DEF l, b
<1>5. \A p \in 0 .. C - 1 : p # 0 => FirstKey(S, p) = seq[a(p) + 1] BY DEF FirstKey, seq, a
<1>6. ASSUME NEW p \in 0 .. C - 1
      PROVE  /\ FirstKey(S, p) \in 0 .. MaxRecord
             /\ p # 0 => /\ FirstKey(S, p) \in 1 .. MaxRecord
                         /\ ImportedLeaf(S, p).records[0] = FirstKey(S, p)
  <2>1. CASE p = 0 BY <1>1, <2>1 DEF FirstKey
  <2>2. CASE p # 0
    <3>1. FirstKey(S, p) \in 1 .. MaxRecord BY <1>3, <1>4, <1>5, <2>2
    <3>2. FirstKey(S, p) \in 0 .. MaxRecord BY <1>1, <3>1
    <3> QED BY <1>4, <1>5, <2>2, <3>1, <3>2
  <2> QED BY <2>1, <2>2
<1>7. ASSUME NEW p \in 0 .. C - 1, NEW q \in 0 .. C - 1, p < q
      PROVE  FirstKey(S, p) < FirstKey(S, q)
  <2>1. q # 0 /\ p \in Nat /\ q \in Nat BY <1>1, <1>7
  <2>2. CASE p = 0
    <3>1. FirstKey(S, p) = 0 BY <2>2 DEF FirstKey
    <3>2. FirstKey(S, q) \in 1 .. MaxRecord BY <1>6, <2>1
    <3> QED BY <1>1, <3>1, <3>2
  <2>3. CASE p # 0
    <3>1. a(p) + LeafMax <= a(q) BY <1>7, <2>1, PageStarts DEF a
    <3>2. a(p) \in Nat /\ a(q) \in Nat BY <1>2 DEF IsPage
    <3>3. a(p) + 1 < a(q) + 1 BY <1>1, <3>1, <3>2
    <3>4. a(p) + 1 \in 1 .. n /\ a(q) + 1 \in 1 .. n BY <1>4, <2>1, <2>3
    <3>5. seq[a(p) + 1] < seq[a(q) + 1] BY <1>1, <3>3, <3>4
    <3> QED BY <1>5, <2>1, <2>3, <3>5
  <2> QED BY <2>2, <2>3
<1> QED BY <1>6, <1>7 DEF C

\* Every leaf of an import has the records from its first key to that of the next leaf.
LEMMA ImportedContent ==
  ASSUME NEW S \in SUBSET Records, NEW p \in 0 .. LeafCount(S) - 1
  PROVE  Content(ImportedLeaf(S, p), FirstKey(S, p), EndKey(S, p, LeafCount(S) - 1), S)
<1> DEFINE seq == Sorted(S)
           n == Len(seq)
           C == LeafCount(S)
           a == p * LeafMax
           l == ImportedLeaf(S, p)
           v == l.value_count
           lo == FirstKey(S, p)
           hi == EndKey(S, p, C - 1)
<1>1. /\ seq \in Seq(Int) /\ n \in Nat /\ C \in Nat /\ LeafMax \in Nat /\ LeafMax > 1 /\ MaxRecord \in Nat
      /\ \A i, j \in 1 .. n : i < j => seq[i] < seq[j]
      /\ S = {seq[k] : k \in 1 .. n}
  BY ImportSorted, LeafCountNat, TreeAssumption DEF InOrder, KeysAscend
<1>2. IsPage(S, p, l, a, n) BY ImportedPage
<1>3. /\ a \in Nat
      /\ p # C - 1 => v = LeafMax /\ a + LeafMax < n
      /\ p = C - 1 => v = n - a /\ a <= n /\ n <= a + LeafMax
      /\ l.records = [i \in Slots |-> IF i < v THEN seq[a + i + 1] ELSE 0]
  BY <1>2 DEF IsPage
<1>4. p = 0 => a = 0 /\ lo = 0 BY <1>1 DEF FirstKey
<1>5. p # 0 => lo = seq[a + 1] BY DEF FirstKey
<1>6. p = C - 1 => hi = MaxRecord + 1 BY DEF EndKey, Top
<1>7. p # C - 1 => hi = seq[a + LeafMax + 1]
  <2>1. p + 1 # 0 /\ (p + 1) * LeafMax = a + LeafMax BY <1>1
  <2> QED BY <2>1 DEF EndKey, FirstKey
<1>8. \A k \in 1 .. n : seq[k] \in S /\ seq[k] \in 1 .. MaxRecord /\ seq[k] \in Int
  BY <1>1 DEF Records
<1>9. p # 0 => a < n
  <2>1. n = 0 => p = 0 BY <1>2 DEF IsPage
  <2>2. n # 0 => a < n BY <1>2 DEF IsPage
  <2> QED BY <2>1, <2>2
<1> HIDE DEF seq, n, C, a, l, v, lo, hi
<1>10. v \in 0 .. LeafMax /\ v \in Nat /\ a + v <= n BY <1>1, <1>3
<1>11. \A i \in 0 .. v - 1 : i \in Slots /\ a + i + 1 \in 1 .. n /\ l.records[i] = seq[a + i + 1]
  <2> TAKE i \in 0 .. v - 1
  <2>1. i \in Slots /\ i < v BY <1>1, <1>10 DEF Slots
  <2>2. a + i + 1 \in 1 .. n BY <1>1, <1>3, <1>10
  <2> QED BY <1>3, <2>1, <2>2
<1>12. \A i \in Slots : i >= v => l.records[i] = 0
  <2>1. \A i \in Slots : i >= v => ~ (i < v) BY <1>1, <1>10 DEF Slots
  <2> QED BY <1>3, <2>1
<1>13. l.records \in [Slots -> 0 .. MaxRecord]
  <2>1. \A i \in Slots : l.records[i] \in 0 .. MaxRecord
    <3> TAKE i \in Slots
    <3>1. CASE i < v
      <4>1. i \in 0 .. v - 1 BY <1>1, <1>10, <3>1 DEF Slots
      <4> QED BY <1>1, <1>8, <1>11, <4>1
    <3>2. CASE ~ (i < v)
      <4>1. i >= v BY <1>1, <1>10, <3>2 DEF Slots
      <4> QED BY <1>1, <1>12, <4>1
    <3> QED BY <3>1, <3>2
  <2>2. l.records = [i \in Slots |-> l.records[i]] BY <1>3
  <2> QED BY <2>1, <2>2
<1>14. Ascending(l)
  <2>1. ASSUME NEW i \in 0 .. v - 1, NEW j \in 0 .. v - 1, i < j PROVE l.records[i] < l.records[j]
    <3>1. a + i + 1 < a + j + 1 BY <1>3, <1>10, <2>1
    <3> QED BY <1>1, <1>11, <3>1
  <2> QED BY <2>1 DEF Ascending, v
<1>15. ASSUME NEW i \in 0 .. v - 1
       PROVE  lo <= l.records[i] /\ l.records[i] < hi /\ l.records[i] \in S
  <2> DEFINE x == seq[a + i + 1]
  <2>1. l.records[i] = x /\ x \in S /\ x \in 1 .. MaxRecord /\ x \in Int /\ i \in Int /\ 0 <= i /\ i < v
        /\ a + i + 1 \in 1 .. n
    BY <1>8, <1>10, <1>11
  <2>2. lo <= x
    <3>1. CASE p = 0 BY <1>1, <1>4, <2>1, <3>1
    <3>2. CASE p # 0
      <4>1. a + 1 \in 1 .. n /\ (a + 1 = a + i + 1 \/ a + 1 < a + i + 1)
        BY <1>1, <1>3, <1>9, <2>1, <3>2
      <4>2. seq[a + 1] \in Int BY <1>8, <4>1
      <4>3. seq[a + 1] = x \/ seq[a + 1] < x BY <1>1, <2>1, <4>1
      <4> HIDE DEF x
      <4> QED BY <1>5, <2>1, <3>2, <4>2, <4>3
    <3> QED BY <3>1, <3>2
  <2>3. x < hi
    <3>1. CASE p = C - 1 BY <1>1, <1>6, <2>1, <3>1
    <3>2. CASE p # C - 1
      <4>0. v = LeafMax /\ a + LeafMax < n /\ a \in Nat /\ i \in Int /\ i < v BY <1>3, <2>1, <3>2
      <4>1. a + LeafMax + 1 \in 1 .. n /\ a + i + 1 < a + LeafMax + 1 BY <1>1, <4>0
      <4> QED BY <1>1, <1>7, <2>1, <3>2, <4>1
    <3> QED BY <3>1, <3>2
  <2> HIDE DEF x
  <2> QED BY <2>1, <2>2, <2>3
<1>16. ASSUME NEW r \in S, lo <= r, r < hi PROVE \E i \in 0 .. v - 1 : l.records[i] = r
  <2>1. PICK j \in 1 .. n : seq[j] = r BY <1>1
  <2>2. j \in Int /\ seq[j] \in Int BY <1>1, <1>8
  <2>3. a + 1 <= j
    <3>1. CASE p = 0 BY <1>1, <1>4, <2>2, <3>1
    <3>2. CASE p # 0
      <4> SUFFICES ASSUME j < a + 1 PROVE FALSE BY <1>3, <2>2
      <4>1. a + 1 \in 1 .. n BY <1>1, <1>3, <1>9, <3>2
      <4>2. seq[j] < seq[a + 1] /\ seq[a + 1] \in Int BY <1>1, <1>8, <4>1
      <4>3. seq[a + 1] <= seq[j] BY <1>5, <1>16, <2>1, <3>2
      <4> QED BY <2>2, <4>2, <4>3
    <3> QED BY <3>1, <3>2
  <2>4. j <= a + v
    <3>1. CASE p = C - 1 BY <1>1, <1>3, <2>2, <3>1
    <3>2. CASE p # C - 1
      <4> SUFFICES ASSUME j > a + v PROVE FALSE BY <1>3, <1>10, <2>2
      <4> DEFINE e == a + LeafMax + 1
      <4>1. e \in 1 .. n /\ (j = e \/ e < j) BY <1>1, <1>3, <2>2, <3>2
      <4> HIDE DEF e
      <4>2. seq[e] \in Int /\ (seq[e] = seq[j] \/ seq[e] < seq[j]) BY <1>1, <1>8, <4>1
      <4>3. seq[j] < seq[e] BY <1>7, <1>16, <2>1, <3>2 DEF e
      <4> QED BY <2>2, <4>2, <4>3
    <3> QED BY <3>1, <3>2
  <2> DEFINE i == j - 1 - a
  <2>5. i \in 0 .. v - 1 /\ a + i + 1 = j BY <1>1, <1>3, <1>10, <2>2, <2>3, <2>4
  <2> HIDE DEF i
  <2>6. l.records[i] = r BY <1>11, <2>1, <2>5
  <2> QED BY <2>5, <2>6
<1>17. Content(l, lo, hi, S) BY <1>10, <1>12, <1>13, <1>14, <1>15, <1>16 DEF Content, v
<1> QED BY <1>17 DEF l, lo, hi, C

-----------------------------------------------------------------------------
(* The directories of an import.                                            *)

\* Nothing is written yet but the root, which has the first leaf.
FirstDirs == [dirs |-> [d \in DirPages |-> NoDir], count |-> 1, split |-> NoSplit]

\* t is the tree of the leaves 0 .. p of the import of S.
TreeFor(S, p, u, t) ==
  /\ Whole(u.dirs, t) /\ Bounded(t) /\ t.dirs = u.count /\ t.leaves = p + 1
  /\ \A q \in 0 .. p : t.lo[q] = FirstKey(S, q) /\ t.hi[q] = EndKey(S, q, p)

Built(S, p, u) ==
  /\ u \in Bulks /\ u.split = NoSplit
  /\ u.count <= MaxDirs => \E t : TreeFor(S, p, u, t)

\* What leaf p does to the directories.
Grown(S, p, u) ==
  IF u.count > MaxDirs THEN u ELSE BulkInsert(u, p, ImportedLeaf(S, p).records[0])

LEMMA NoDirFacts ==
  /\ IsDir(NoDir) /\ Len(NoDir.keys) = 0 /\ NoDir.children[1] = 0 /\ NoDir \in DirRecs
<1>1. NoDir.keys = << >> /\ NoDir.children = <<0>> /\ NoDir = [keys |-> << >>, children |-> <<0>>]
  BY DEF NoDir
<1>2. << >> \in Seq(Int) /\ <<0>> \in Seq(Int) /\ Len(<< >>) = 0 /\ Len(<<0>>) = 1 /\ <<0>>[1] = 0
  OBVIOUS
<1>3. NoDir \in [keys : Seq(Int), children : Seq(Int)] BY <1>1, <1>2
<1>4. IsDir(NoDir) BY <1>1, <1>2, <1>3 DEF IsDir
<1>5. Len(NoDir.keys) <= DirMax BY <1>1, <1>2, TreeAssumption
<1> HIDE DEF NoDir
<1> QED BY <1>1, <1>2, <1>3, <1>4, <1>5 DEF DirRecs

LEMMA BuiltFirst ==
  ASSUME NEW S, MaxLeaves >= 1
  PROVE  Built(S, 0, FirstDirs)
<1> DEFINE u == FirstDirs
           t == [dirs |-> 1, leaves |-> 1, lo |-> [c \in Refs |-> 0], hi |-> [c \in Refs |-> Top],
                 level |-> [d \in DirPages |-> 0]]
<1>0. MaxDirs \in Nat /\ MaxLeaves \in Nat /\ MaxRecord \in Nat BY TreeAssumption
<1>1. u.dirs = [d \in DirPages |-> NoDir] /\ u.count = 1 /\ u.split = NoSplit
      /\ u = [dirs |-> u.dirs, count |-> u.count, split |-> u.split]
  BY DEF FirstDirs
<1>2. NoSplit \in SplitRecs BY DEF NoSplit, SplitRecs
<1>3. u \in Bulks
  <2>1. u.dirs \in [DirPages -> DirRecs] BY <1>1, NoDirFacts
  <2> HIDE DEF u
  <2>2. u.count \in Nat /\ u.split \in SplitRecs BY <1>1, <1>2
  <2> QED BY <1>1, <2>1, <2>2 DEF Bulks
<1>4. /\ t.dirs = 1 /\ t.leaves = 1 /\ t.lo = [c \in Refs |-> 0] /\ t.hi = [c \in Refs |-> Top]
      /\ t.level = [d \in DirPages |-> 0]
  OBVIOUS
<1> HIDE DEF u, t
<1>5. SUFFICES ASSUME 1 <= MaxDirs PROVE TreeFor(S, 0, u, t) BY <1>1, <1>3 DEF Built, u
<1>6. 0 \in Refs /\ 0 \in DirPages BY <1>0, <1>5 DEF Refs, DirPages
<1>7. Top \in Int /\ 0 < Top BY <1>0 DEF Top
<1>8. t.lo[0] = 0 /\ t.hi[0] = Top /\ t.level[0] = 0 BY <1>4, <1>6
<1>9. InUseDirs(t) = {0}
  <2>1. 0 .. 1 - 1 = {0} OBVIOUS
  <2> QED BY <1>4, <2>1 DEF InUseDirs
<1>10. Typed(u.dirs, t)
  <2>1. t.dirs \in 1 .. MaxDirs /\ t.leaves \in 1 .. MaxLeaves BY <1>0, <1>4, <1>5
  <2>2. t.lo \in [Refs -> Int] /\ t.hi \in [Refs -> Int] /\ t.level \in [DirPages -> Nat]
    BY <1>4, <1>7
  <2>3. DOMAIN u.dirs = DirPages /\ \A d \in DirPages : u.dirs[d] = NoDir BY <1>1
  <2>4. \A d \in DirPages : t.level[d] <= t.level[0] BY <1>4, <1>8
  <2> QED BY <2>1, <2>2, <2>3, <2>4, NoDirFacts DEF Typed
<1>11. u.dirs[0] = NoDir BY <1>1, <1>6
<1>12. Kids(NoDir) = {1}
  <2>1. 1 .. 0 + 1 = {1} OBVIOUS
  <2> QED BY <2>1, NoDirFacts DEF Kids
<1>13. KeysIn(NoDir, t, 0)
  <2>1. Low(t, 0) = 0 /\ High(t, 0) = Top BY DEF Low, High
  <2>2. KeysAscend(NoDir.keys) BY NoDirFacts DEF KeysAscend
  <2> QED BY <1>7, <2>1, <2>2, NoDirFacts DEF KeysIn
<1>14. ChildrenIn(NoDir, t, 0, 0, 0)
  <2>1. 0 \in -(t.dirs - 1) .. t.leaves - 1 BY <1>4
  <2>2. Lower(NoDir, t, 0, 1) = 0 /\ Upper(NoDir, t, 0, 1) = Top
    BY NoDirFacts DEF Lower, Upper, Low, High
  <2>3. Seen(t, 0, 0, 0) = Top BY <1>8 DEF Seen
  <2>4. ChildIn(0, NoDir, t, 0, 0, 0, 1) BY <1>8, <2>1, <2>2, <2>3 DEF ChildIn
  <2> QED BY <1>12, <2>4, NoDirFacts DEF ChildrenIn
<1>15. OneParent(u.dirs, t) BY <1>9, <1>11, <1>12 DEF OneParent
<1>16. Pending(u.dirs, t, 0, 0) BY DEF Pending
<1>17. Whole(u.dirs, t) BY <1>9, <1>10, <1>11, <1>13, <1>14, <1>15, <1>16 DEF Whole, Tree
<1>18. -(1 - 1) .. 1 - 1 = {0} OBVIOUS
<1>19. Bounded(t) BY <1>4, <1>7, <1>8, <1>18 DEF Bounded
<1>20. 0 .. 0 = {0} /\ 0 + 1 = 1 OBVIOUS
<1>21. FirstKey(S, 0) = 0 /\ EndKey(S, 0, 0) = Top BY DEF FirstKey, EndKey
<1> QED BY <1>1, <1>4, <1>8, <1>17, <1>19, <1>20, <1>21 DEF TreeFor

LEMMA BuiltNext ==
  ASSUME NEW S \in SUBSET Records, LeafCount(S) <= MaxLeaves,
         NEW p \in 1 .. LeafCount(S) - 1, NEW u, Built(S, p - 1, u)
  PROVE  Built(S, p, Grown(S, p, u))
<1> DEFINE C == LeafCount(S)
           b == p - 1
           K == FirstKey(S, p)
<1>0. MaxDirs \in Nat /\ MaxLeaves \in Nat /\ MaxRecord \in Nat /\ C \in Nat
  BY TreeAssumption, LeafCountNat
<1>1. u \in Bulks /\ u.split = NoSplit /\ u.count \in Nat BY DEF Built, Bulks
<1>2. /\ p \in 0 .. C - 1 /\ b \in 0 .. C - 1 /\ b < p /\ p \in Nat /\ b \in Nat /\ p # 0 /\ b + 1 = p
      /\ p < MaxLeaves
  BY <1>0
<1>3. /\ \A q \in 0 .. C - 1 : FirstKey(S, q) \in 0 .. MaxRecord
      /\ \A q, r \in 0 .. C - 1 : q < r => FirstKey(S, q) < FirstKey(S, r)
      /\ ImportedLeaf(S, p).records[0] = K
  BY <1>2, FirstKeys
<1> HIDE DEF C, b, K
<1>4. CASE u.count > MaxDirs
  <2>1. Grown(S, p, u) = u BY <1>4 DEF Grown
  <2> QED BY <1>0, <1>1, <1>4, <2>1 DEF Built
<1>5. CASE ~ (u.count > MaxDirs)
  <2>1. PICK t : TreeFor(S, b, u, t) BY <1>0, <1>1, <1>5 DEF Built, b
  <2>2. Grown(S, p, u) = BulkInsert(u, p, K) BY <1>3, <1>5 DEF Grown
  <2>3. /\ Whole(u.dirs, t) /\ Bounded(t) /\ t.dirs = u.count /\ t.leaves = p
        /\ \A q \in 0 .. b : t.lo[q] = FirstKey(S, q) /\ t.hi[q] = EndKey(S, q, b)
    BY <1>2, <2>1 DEF TreeFor
  <2>4. 0 .. t.leaves - 1 = 0 .. b /\ b \in 0 .. t.leaves - 1 BY <1>2, <2>3
  <2>5. t.hi[b] = Top /\ t.lo[b] = FirstKey(S, b) BY <1>2, <2>3, <2>4 DEF EndKey
  <2>6. \A q \in 0 .. b : q # b => t.hi[q] = FirstKey(S, q + 1) /\ q + 1 \in 0 .. C - 1
    <3> TAKE q \in 0 .. b
    <3>1. q # b => q + 1 \in 0 .. C - 1 BY <1>0, <1>2
    <3> QED BY <2>3, <3>1 DEF EndKey
  <2>7. \A q \in 0 .. t.leaves - 1 : t.hi[q] = Top => q = b
    <3> SUFFICES ASSUME NEW q \in 0 .. b, q # b PROVE t.hi[q] # Top BY <2>4
    <3>1. FirstKey(S, q + 1) \in 0 .. MaxRecord /\ t.hi[q] = FirstKey(S, q + 1) BY <1>3, <2>6
    <3> QED BY <1>0, <3>1 DEF Top
  <2>8. K \in 0 .. MaxRecord /\ FirstKey(S, b) < K BY <1>2, <1>3 DEF K
  <2>9. K \in Int /\ t.lo[b] < K /\ K < Top BY <1>0, <2>5, <2>8 DEF Top
  <2> DEFINE w == BulkInsert(u, p, K)
             t0 == AfterLeaf(t, b, K)
  <2>10. w \in Bulks /\ BulkDone(t0, w)
    BY <1>1, <1>2, <2>3, <2>4, <2>5, <2>7, <2>9, BulkInsertExact
  <2>11. Typed(u.dirs, t) BY <2>3 DEF Whole, Tree
  <2>12. /\ t0.leaves = p + 1 /\ t0.lo[p] = K /\ t0.hi[p] = t.hi[b] /\ t0.hi[b] = K
         /\ \A c \in Refs : c # p => t0.lo[c] = t.lo[c]
         /\ \A c \in Refs : c # p /\ c # b => t0.hi[c] = t.hi[c]
    BY <1>2, <2>3, <2>4, <2>9, <2>11, LeafFacts
  <2> HIDE DEF t0, w
  <2>13. \A q \in 0 .. p : t0.lo[q] = FirstKey(S, q) /\ t0.hi[q] = EndKey(S, q, p)
    <3> TAKE q \in 0 .. p
    <3>1. q \in Refs /\ q \in Nat
      <4>1. q \in Int /\ -MaxDirs <= q /\ q <= MaxLeaves BY <1>0, <1>2
      <4> QED BY <1>0, <1>2, <4>1 DEF Refs
    <3>2. CASE q = p BY <2>5, <2>12, <3>2 DEF EndKey, K
    <3>3. CASE q = b
      <4>1. q # p /\ q + 1 = p /\ q \in 0 .. b BY <1>2, <3>3
      <4>2. EndKey(S, q, p) = K BY <4>1 DEF EndKey, K
      <4>3. t0.lo[q] = t.lo[q] BY <2>12, <3>1, <4>1
      <4> QED BY <2>5, <2>12, <3>3, <4>2, <4>3
    <3>4. CASE q # p /\ q # b
      <4>1. q \in 0 .. b BY <1>2, <3>4
      <4>2. t0.lo[q] = t.lo[q] /\ t0.hi[q] = t.hi[q] BY <2>12, <3>1, <3>4
      <4>3. EndKey(S, q, p) = FirstKey(S, q + 1) BY <3>4 DEF EndKey
      <4> QED BY <2>3, <2>6, <3>4, <4>1, <4>2, <4>3
    <3> QED BY <3>2, <3>3, <3>4
  <2>14. ASSUME w.count <= MaxDirs PROVE \E T : TreeFor(S, p, w, T)
    <3>1. PICK T : T.dirs = w.count /\ Bounded(T) /\ LeavesSame(t0, T) /\ Whole(w.dirs, T)
      BY <2>10, <2>14 DEF BulkDone
    <3>2. T.leaves = p + 1 /\ \A c \in 0 .. t0.leaves - 1 : T.lo[c] = t0.lo[c] /\ T.hi[c] = t0.hi[c]
      BY <2>12, <3>1 DEF LeavesSame
    <3>3. 0 .. t0.leaves - 1 = 0 .. p BY <1>2, <2>12
    <3>4. TreeFor(S, p, w, T) BY <2>13, <3>1, <3>2, <3>3 DEF TreeFor
    <3> QED BY <3>4
  <2>15. Built(S, p, w) BY <2>10, <2>14 DEF Built, BulkDone
  <2> QED BY <2>2, <2>15 DEF w
<1> QED BY <1>4, <1>5

\* written[p] of DirsAfter.
Writes(S, p, f) == IF p = 0 THEN FirstDirs ELSE Grown(S, p, f[p - 1])

\* The import writes the directories of a tree, leaf after leaf.
LEMMA ImportBuilt ==
  ASSUME NEW S \in SUBSET Records, LeafCount(S) <= MaxLeaves
  PROVE  Built(S, LeafCount(S) - 1, ImportedDirs(S))
<1> DEFINE C == LeafCount(S)
           D == 0 .. C - 1
           Sound(p, f) == p # 0 => Built(S, p - 1, f[p - 1])
           H == [p \in D |-> [f \in [D -> Bulks] |->
                  IF Sound(p, f) THEN Writes(S, p, f) ELSE FirstDirs]]
           rank == [p \in D |-> p]
<1>0. MaxLeaves \in Nat /\ C \in Nat /\ C >= 1 /\ MaxLeaves >= 1 BY TreeAssumption, LeafCountNat
<1> HIDE DEF C
<1>1. Built(S, 0, FirstDirs) /\ FirstDirs \in Bulks BY <1>0, BuiltFirst DEF Built
<1>2. \A p \in D : p # 0 => p - 1 \in D /\ p \in 1 .. C - 1 /\ p - 1 < p BY <1>0
<1>3. ASSUME NEW p \in D, NEW f, Sound(p, f) PROVE Built(S, p, Writes(S, p, f))
  <2>1. CASE p = 0 BY <1>1, <2>1 DEF Writes
  <2>2. CASE p # 0
    <3>1. Built(S, p, Grown(S, p, f[p - 1])) BY <1>2, <1>3, <2>2, BuiltNext DEF C
    <3> QED BY <2>2, <3>1 DEF Writes
  <2> QED BY <2>1, <2>2
<1>4. \A p \in D, f \in [D -> Bulks] :
        (IF Sound(p, f) THEN Writes(S, p, f) ELSE FirstDirs) \in Bulks
  <2> TAKE p \in D, f \in [D -> Bulks]
  <2>1. CASE Sound(p, f)
    <3>1. Writes(S, p, f) \in Bulks BY <1>3, <2>1 DEF Built
    <3> HIDE DEF Sound
    <3> QED BY <2>1, <3>1
  <2> HIDE DEF Sound
  <2>2. CASE ~Sound(p, f) BY <1>1, <2>2
  <2> QED BY <2>1, <2>2
<1>5. Descends(D, Bulks, C, rank, H)
  <2>1. C \in Nat /\ Bulks # {} BY <1>0, <1>1
  <2>2. rank \in [D -> 0 .. C] BY <1>0
  <2>3. H \in [D -> [[D -> Bulks] -> Bulks]]
    <3> HIDE DEF Sound
    <3> QED BY <1>4
  <2>4. ASSUME NEW p \in D, NEW f \in [D -> Bulks], NEW g \in [D -> Bulks],
               \A e \in D : rank[e] < rank[p] => f[e] = g[e]
        PROVE  H[p][f] = H[p][g]
    <3>1. p # 0 => f[p - 1] = g[p - 1]
      <4>1. \A e \in D : rank[e] = e OBVIOUS
      <4> HIDE DEF rank, H
      <4> QED BY <1>2, <2>4, <4>1
    <3>2. Writes(S, p, f) = Writes(S, p, g) BY <3>1 DEF Writes
    <3>3. Sound(p, f) <=> Sound(p, g) BY <3>1
    <3>4. /\ H[p][f] = IF Sound(p, f) THEN Writes(S, p, f) ELSE FirstDirs
          /\ H[p][g] = IF Sound(p, g) THEN Writes(S, p, g) ELSE FirstDirs
      <4> HIDE DEF Sound
      <4> QED BY <2>4
    <3> HIDE DEF Sound, H
    <3> QED BY <3>2, <3>3, <3>4
  <2> HIDE DEF H, rank, D
  <2> QED BY <2>1, <2>2, <2>3, <2>4, Zenon DEF Descends
<1> HIDE DEF rank, H
<1>6. Solvable(D, Bulks, H) BY <1>5, RecursionExists, Zenon
<1>7. PICK g \in [D -> Bulks] : g = [p \in D |-> H[p][g]] BY <1>6 DEF Solvable
<1> DEFINE Eq(f) == f = [p \in D |-> Writes(S, p, f)]
\* A function that is as the definition says where it is sound is built.
<1>8. ASSUME NEW f, \A p \in D : Sound(p, f) => f[p] = Writes(S, p, f)
      PROVE  \A p \in D : Built(S, p, f[p]) /\ Sound(p, f)
  <2> DEFINE B == {p \in D : ~Built(S, p, f[p])}
  <2>1. B = {}
    <3> SUFFICES ASSUME B # {} PROVE FALSE OBVIOUS
    <3>1. B \in SUBSET Nat BY <1>0
    <3>2. PICK p \in B : \A q \in B : p <= q BY <3>1, Least
    <3>3. p # 0 => p - 1 \notin B BY <1>0, <1>2, <3>2
    <3>4. Sound(p, f) BY <1>2, <3>3
    <3> HIDE DEF Sound
    <3>5. Built(S, p, Writes(S, p, f)) BY <1>3, <3>4
    <3>6. f[p] = Writes(S, p, f) BY <1>8, <3>4
    <3> QED BY <3>5, <3>6
  <2>2. \A p \in D : Built(S, p, f[p]) BY <2>1
  <2> HIDE DEF B
  <2> QED BY <1>2, <2>2
<1>9. Eq(g)
  <2>1. \A p \in D : H[p][g] = IF Sound(p, g) THEN Writes(S, p, g) ELSE FirstDirs
    <3> HIDE DEF Sound
    <3> QED BY <1>7 DEF H
  <2>2. \A p \in D : g[p] = H[p][g] BY <1>7
  <2> HIDE DEF Sound
  <2>3. \A p \in D : Sound(p, g) => g[p] = Writes(S, p, g) BY <2>1, <2>2
  <2>4. \A p \in D : Sound(p, g) BY <1>8, <2>3
  <2>5. \A p \in D : g[p] = Writes(S, p, g) BY <2>3, <2>4
  <2> QED BY <1>7, <2>5
<1> DEFINE written == CHOOSE f : Eq(f)
<1>10. Eq(written) BY <1>9, Zenon
<1>11. DirsAfter(S) = written
  BY Zenon DEF DirsAfter, Writes, Grown, FirstDirs, C
<1> HIDE DEF written
<1>12. \A p \in D : written[p] = Writes(S, p, written) BY <1>10
<1>13. \A p \in D : Built(S, p, written[p]) BY <1>8, <1>12
<1>14. C - 1 \in D BY <1>0
<1> QED BY <1>11, <1>13, <1>14 DEF ImportedDirs, C

\* The leaves of an import have its records.
LEMMA ImportStored ==
  ASSUME NEW S \in SUBSET Records, LeafCount(S) <= MaxLeaves, NEW u, NEW t,
         TreeFor(S, LeafCount(S) - 1, u, t)
  PROVE  Stored([p \in LeafPages |-> IF p < LeafCount(S) THEN ImportedLeaf(S, p) ELSE Zeros], t, S)
<1> DEFINE C == LeafCount(S)
           ls == [p \in LeafPages |-> IF p < C THEN ImportedLeaf(S, p) ELSE Zeros]
           a(p) == p * LeafMax
           n == Len(Sorted(S))
<1>0. /\ MaxLeaves \in Nat /\ MaxRecord \in Nat /\ LeafMax \in Nat /\ LeafMax > 1 /\ C \in Nat /\ C >= 1
      /\ n \in Nat
  BY TreeAssumption, LeafCountNat, ImportSorted
<1>1. t.leaves = C /\ \A q \in 0 .. C - 1 : t.lo[q] = FirstKey(S, q) /\ t.hi[q] = EndKey(S, q, C - 1)
  BY <1>0 DEF TreeFor
<1>2. \A q \in 0 .. C - 1 : q \in LeafPages /\ ls[q] = ImportedLeaf(S, q)
  BY <1>0 DEF LeafPages
<1>3. /\ \A q \in 0 .. C - 1 : FirstKey(S, q) \in 0 .. MaxRecord
      /\ \A q, r \in 0 .. C - 1 : q < r => FirstKey(S, q) < FirstKey(S, r)
  BY FirstKeys
<1>4. \A q \in 0 .. C - 1 : Content(ls[q], t.lo[q], t.hi[q], S) BY <1>1, <1>2, ImportedContent
<1>5. \A q \in 0 .. C - 1 : IsPage(S, q, ls[q], a(q), n) BY <1>2, ImportedPage
<1>6. \A q \in LeafPages : ~ (q < C) => ls[q] = Zeros OBVIOUS
<1>7. DOMAIN ls = LeafPages /\ ls = [q \in LeafPages |-> ls[q]] OBVIOUS
<1> HIDE DEF ls, a, n, C
<1>8. Zeros \in LeafRecs
  <2>1. /\ Zeros.records = [i \in Slots |-> 0] /\ Zeros.value_count = 0 /\ Zeros.next_leaf = 0
        /\ Zeros = [records |-> Zeros.records, value_count |-> Zeros.value_count,
                    next_leaf |-> Zeros.next_leaf]
    BY DEF Zeros
  <2>2. Zeros.records \in [Slots -> 0 .. MaxRecord] BY <1>0, <2>1
  <2>3. 0 \in 0 .. LeafMax /\ 0 \in LeafPages BY <1>0 DEF LeafPages, C
  <2> QED BY <2>1, <2>2, <2>3 DEF LeafRecs
<1>9. ASSUME NEW q \in 0 .. C - 1
      PROVE  /\ ls[q].next_leaf \in 0 .. C - 1
             /\ q = C - 1 => ls[q].next_leaf = 0
             /\ q # C - 1 => ls[q].next_leaf = q + 1 /\ q + 1 \in 0 .. C - 1
             /\ ls[q] \in LeafRecs
             /\ ls[q].value_count = 0 => q = 0 /\ C = 1
  <2> DEFINE l == ls[q]
  <2>1. /\ a(q) \in Nat /\ (n # 0 => a(q) < n)
        /\ q # C - 1 => l.value_count = LeafMax /\ l.next_leaf = q + 1
        /\ q = C - 1 => l.value_count = n - a(q) /\ l.next_leaf = 0
        /\ n = 0 => q = 0 /\ C = 1
        /\ l = [records |-> l.records, value_count |-> l.value_count, next_leaf |-> l.next_leaf]
    BY <1>5 DEF IsPage, C
  <2>2. l.records \in [Slots -> 0 .. MaxRecord] /\ l.value_count \in 0 .. LeafMax
    BY <1>4 DEF Content
  <2> HIDE DEF l
  <2>3. q # C - 1 => q + 1 \in 0 .. C - 1 BY <1>0
  <2>4. l.next_leaf \in 0 .. C - 1 BY <1>0, <2>1, <2>3
  <2>5. l.next_leaf \in LeafPages BY <1>2, <2>4
  <2>6. l \in LeafRecs BY <2>1, <2>2, <2>5 DEF LeafRecs
  <2>7. l.value_count = 0 => n = 0
    <3>1. CASE q # C - 1 BY <1>0, <2>1, <3>1
    <3>2. CASE q = C - 1 BY <1>0, <2>1, <3>2
    <3> QED BY <3>1, <3>2
  <2> QED BY <2>1, <2>3, <2>4, <2>6, <2>7 DEF l
<1>10. ls \in [LeafPages -> LeafRecs]
  <2>1. \A q \in LeafPages : ls[q] \in LeafRecs
    <3> TAKE q \in LeafPages
    <3>1. CASE q < C
      <4>1. q \in 0 .. C - 1 BY <1>0, <3>1 DEF LeafPages
      <4> QED BY <1>9, <4>1
    <3>2. CASE ~ (q < C) BY <1>6, <1>8, <3>2
    <3> QED BY <3>1, <3>2
  <2> QED BY <1>7, <2>1
\* A leaf ends where the next one starts, or at the top.
<1>11. ASSUME NEW q \in 0 .. C - 1
       PROVE  /\ t.lo[q] = FirstKey(S, q) /\ t.lo[q] \in Int /\ t.lo[q] < Top /\ Top \in Int
              /\ q = C - 1 => t.hi[q] = Top
              /\ q # C - 1 => /\ q + 1 \in 0 .. C - 1 /\ t.hi[q] = t.lo[q + 1]
                              /\ t.hi[q] \in Int /\ t.hi[q] # Top
              /\ t.lo[q] < t.hi[q]
  <2>1. t.lo[q] \in 0 .. MaxRecord /\ t.lo[q] = FirstKey(S, q) BY <1>1, <1>3
  <2>2. t.lo[q] \in Int /\ t.lo[q] < Top /\ Top \in Int BY <1>0, <2>1 DEF Top
  <2>3. CASE q = C - 1
    <3>1. t.hi[q] = Top BY <1>1, <2>3 DEF EndKey
    <3> QED BY <2>1, <2>2, <2>3, <3>1
  <2>4. CASE q # C - 1
    <3>1. q + 1 \in 0 .. C - 1 /\ q < q + 1 BY <1>0, <2>4
    <3>2. t.hi[q] = FirstKey(S, q + 1) BY <1>1, <2>4 DEF EndKey
    <3>3. t.lo[q + 1] = FirstKey(S, q + 1) BY <1>1, <3>1
    <3>4. FirstKey(S, q + 1) \in 0 .. MaxRecord /\ FirstKey(S, q) < FirstKey(S, q + 1) BY <1>3, <3>1
    <3>5. t.hi[q] \in Int /\ t.hi[q] # Top BY <1>0, <3>2, <3>4 DEF Top
    <3> QED BY <2>1, <2>2, <2>4, <3>1, <3>2, <3>3, <3>4, <3>5
  <2> QED BY <2>3, <2>4
<1>12. ASSUME NEW q \in 0 .. C - 1, NEW r \in 0 .. C - 1, q < r PROVE t.hi[q] <= t.lo[r]
  <2>1. q # C - 1 /\ q + 1 \in 0 .. C - 1 /\ (q + 1 = r \/ q + 1 < r) BY <1>0, <1>12
  <2>2. t.hi[q] = t.lo[q + 1] /\ t.lo[q + 1] \in Int /\ t.lo[r] \in Int BY <1>11, <2>1
  <2>3. CASE q + 1 = r BY <2>2, <2>3
  <2>4. CASE q + 1 < r
    <3>1. FirstKey(S, q + 1) < FirstKey(S, r) BY <1>3, <2>1, <2>4
    <3>2. t.lo[q + 1] = FirstKey(S, q + 1) /\ t.lo[r] = FirstKey(S, r) BY <1>11, <2>1
    <3> QED BY <2>2, <3>1, <3>2
  <2> QED BY <2>1, <2>3, <2>4
<1>13. Apart(t)
  <2>1. ASSUME NEW q \in 0 .. C - 1, NEW r \in 0 .. C - 1, q # r
        PROVE  t.hi[q] <= t.lo[r] \/ t.hi[r] <= t.lo[q]
    <3>1. q < r \/ r < q BY <1>0, <2>1
    <3> QED BY <1>12, <3>1
  <2> QED BY <1>1, <2>1 DEF Apart
<1>14. \A q \in 0 .. C - 1 : Linked(ls[q], t, q)
  <2> TAKE q \in 0 .. C - 1
  <2>1. CASE q = C - 1
    <3>1. t.hi[q] = Top /\ ls[q].next_leaf = 0 BY <1>9, <1>11, <2>1
    <3> QED BY <1>1, <1>9, <3>1 DEF Linked
  <2>2. CASE q # C - 1
    <3>1. /\ t.hi[q] # Top /\ ls[q].next_leaf = q + 1 /\ t.hi[q] = t.lo[q + 1]
          /\ ls[q].next_leaf \in 0 .. C - 1
      BY <1>9, <1>11, <2>2
    <3>2. q + 1 # 0 BY <1>0
    <3>3. ls[q].value_count # 0 BY <1>0, <1>9, <2>2
    <3> QED BY <1>1, <3>1, <3>2, <3>3 DEF Linked
  <2> QED BY <2>1, <2>2
<1>15. \A q \in LeafPages : q >= t.leaves => ls[q] = Zeros
  <2>1. \A q \in LeafPages : q >= C => ~ (q < C) BY <1>0 DEF LeafPages
  <2> QED BY <1>1, <1>6, <2>1
<1>16. Stored(ls, t, S) BY <1>1, <1>4, <1>10, <1>11, <1>13, <1>14, <1>15 DEF Stored
<1> QED BY <1>16 DEF ls, C

\* The index starts as a tree with the records that were imported.
LEMMA TreeInit ==
  ASSUME Init
  PROVE  TreeInv
<1>1. PICK S \in Imports :
        /\ Fits(S)
        /\ leaves = [p \in LeafPages |-> IF p < LeafCount(S) THEN ImportedLeaf(S, p) ELSE Zeros]
        /\ leaf_pages = LeafCount(S)
        /\ dirs = ImportedDirs(S).dirs
        /\ dir_pages = ImportedDirs(S).count
        /\ unwritten = {}
        /\ present = S
        /\ reused = FALSE
  BY Zenon DEF Init
<1>2. S \in SUBSET Records BY TreeAssumption DEF Records
<1>3. LeafCount(S) <= MaxLeaves /\ ImportedDirs(S).count <= MaxDirs BY <1>1 DEF Fits
<1> DEFINE u == ImportedDirs(S)
<1>4. Built(S, LeafCount(S) - 1, u) BY <1>2, <1>3, ImportBuilt
<1> HIDE DEF u
<1>5. PICK t : TreeFor(S, LeafCount(S) - 1, u, t) BY <1>3, <1>4 DEF Built, u
<1>6. Stored(leaves, t, present) BY <1>1, <1>2, <1>3, <1>5, ImportStored
<1>7. dirs = u.dirs /\ dir_pages = u.count /\ dirs \in [DirPages -> DirRecs]
  BY <1>1, <1>4 DEF Built, Bulks, u
<1>8. Whole(dirs, t) /\ Bounded(t) /\ t.dirs = dir_pages BY <1>5, <1>7 DEF TreeFor
<1>9. LeafCount(S) \in Nat /\ LeafCount(S) >= 1 BY <1>2, LeafCountNat
<1>10. t.leaves = leaf_pages BY <1>1, <1>5, <1>9 DEF TreeFor
<1>11. t.dirs \in 1 .. MaxDirs /\ t.leaves \in 1 .. MaxLeaves BY <1>8 DEF Whole, Tree, Typed
<1>12. /\ t.leaves = InUsePages(leaf_pages, "leaf")
       /\ t.dirs = InUsePages(dir_pages, "dir")
       /\ unwritten \in SUBSET {"leaf", "dir"}
  BY <1>1, <1>8, <1>10 DEF InUsePages
<1>13. TreeAt(t) BY <1>6, <1>7, <1>8, <1>10, <1>11, <1>12 DEF TreeAt
<1> QED BY <1>13 DEF TreeInv

-----------------------------------------------------------------------------
(* The theorems.  The tree never breaks before append_page gives a page    *)
(* that is in use.                                                          *)

\* The invariant of import, BPlusTree::insert and the write-back of new pages: as long as
\* append_page has given new pages, the directories reach every leaf, each responsible for
\* an interval of its own, the leaves have exactly the records imported and inserted, and
\* the list of leaves is in their order.
THEOREM TreeInvariant == Spec => []TreeUnlessReused
<1>1. Init => TreeUnlessReused
  <2>1. Init => reused = FALSE BY DEF Init
  <2> QED BY <2>1, TreeInit DEF TreeUnlessReused
<1>2. TreeUnlessReused /\ [Next]_vars => TreeUnlessReused' BY TreeStep
<1> QED BY <1>1, <1>2, PTL DEF Spec

\* get_range and BptIter::next return exactly the records in the range, in order and once
\* each, for every size of the pages and after every sequence of inserts, splits and
\* write-backs in which append_page has given new pages.
THEOREM ScansExact == Spec => []ScanExact
<1>1. TreeUnlessReused => ScanExact BY TreeScans DEF TreeUnlessReused, ScanExact
<1> QED BY <1>1, TreeInvariant, PTL

\* BPlusTreeDir::check and BPlusTreeLeaf::check find no error in any state in which
\* append_page has given new pages.
THEOREM CheckFindsNothing == Spec => []CheckPasses
<1>1. TreeUnlessReused => CheckPasses BY TreeChecks DEF TreeUnlessReused, CheckPasses
<1> QED BY <1>1, TreeInvariant, PTL

\* BPlusTree::insert refuses exactly the records that are in the index, as long as
\* append_page has given new pages: what search_index and equal_record look at past
\* value_count is never taken for the record.
THEOREM DuplicatesRefused == Spec => []DuplicatesExact
<1>1. TreeUnlessReused => DuplicatesExact BY TreeDuplicates DEF TreeUnlessReused, DuplicatesExact
<1> QED BY <1>1, TreeInvariant, PTL

=============================================================================
