------------------------------- MODULE SumProofs -------------------------------
(***************************************************************************)
(* Sums over finite sets.  MapThenFoldSet adds the values of a function up *)
(* over ever smaller sets, in an order that a choice function gives.       *)
(* Whatever it chooses, the result is the same sum, which any element may  *)
(* be taken out of.  The library's induction theorems take an operator, so *)
(* each induction is on the least counterexample among the parts of a set. *)
(***************************************************************************)
EXTENDS Integers, Sequences, FiniteSetTheorems, SequenceTheorems, WellFoundedInduction, TLAPS

\* A set of numbers has a least one.
LEMMA LeastNumber ==
  ASSUME NEW T \in SUBSET Nat, T # {}
  PROVE  \E m \in T : \A k \in T : m <= k
<1>1. PICK m \in T : \A k \in T : ~(<<k, m>> \in OpToRel(<, Nat))
  BY NatLessThanWellFounded, WFMin
<1>2. \A k \in T : ~(k < m)
  BY <1>1 DEF OpToRel
<1> QED
  BY <1>2

\* A set that has a position whenever it has all the later ones has every position.
LEMMA Downward ==
  ASSUME NEW n \in Nat, NEW T, \A i \in 1..n : (\A j \in (i + 1)..n : j \in T) => i \in T
  PROVE  \A i \in 1..n : i \in T
<1> SUFFICES ASSUME NEW k \in 1..n, k \notin T PROVE FALSE
  OBVIOUS
<1>1. PICK D : D = {d \in Nat : n - d \in 1..n /\ n - d \notin T}
  OBVIOUS
<1>2. n - k \in D
  <2>1. n - k \in Nat /\ n - (n - k) = k
    OBVIOUS
  <2> QED
    BY <1>1, <2>1
<1>3. PICK m \in D : \A d \in D : m <= d
  BY <1>1, <1>2, LeastNumber
<1>4. m \in Nat /\ n - m \in 1..n /\ n - m \notin T
  BY <1>1, <1>3
<1>5. ASSUME NEW j \in (n - m + 1)..n, j \notin T PROVE FALSE
  <2>1. n - j \in Nat /\ n - (n - j) = j /\ j \in 1..n /\ n - j < m
    BY <1>4
  <2>2. n - j \in D
    BY <1>1, <1>5, <2>1
  <2> QED
    BY <1>3, <1>4, <2>1, <2>2
<1> QED
  BY <1>4, <1>5

\* The same from below.
LEMMA Upward ==
  ASSUME NEW n \in Nat, NEW T, \A i \in 0..n : (\A j \in 0..(i - 1) : j \in T) => i \in T
  PROVE  \A i \in 0..n : i \in T
<1> SUFFICES ASSUME NEW k \in 0..n, k \notin T PROVE FALSE
  OBVIOUS
<1>1. PICK D : D = {d \in 0..n : d \notin T}
  OBVIOUS
<1>2. PICK m \in D : \A d \in D : m <= d
  <2>1. D \in SUBSET Nat /\ D # {}
    BY <1>1
  <2> QED
    BY <2>1, LeastNumber
<1>3. m \in 0..n /\ m \notin T
  BY <1>1, <1>2
<1>4. ASSUME NEW j \in 0..(m - 1), j \notin T PROVE FALSE
  <2>1. j \in 0..n /\ j < m
    BY <1>3
  <2>2. j \in D
    BY <1>1, <1>4, <2>1
  <2> QED
    BY <1>2, <2>1, <2>2, <1>3
<1> QED
  BY <1>3, <1>4

\* The size of a part of a finite set.
LEMMA FiniteParts ==
  ASSUME NEW S, IsFiniteSet(S), NEW s \in SUBSET S
  PROVE  /\ IsFiniteSet(s) /\ Cardinality(s) \in Nat
         /\ Cardinality(s) <= Cardinality(S) /\ Cardinality(S) \in Nat
         /\ \A x \in s : /\ s \ {x} \in SUBSET S /\ Cardinality(s \ {x}) \in Nat
                         /\ Cardinality(s \ {x}) = Cardinality(s) - 1
<1>1. /\ IsFiniteSet(s) /\ Cardinality(s) \in Nat
      /\ Cardinality(s) <= Cardinality(S) /\ Cardinality(S) \in Nat
  BY FS_Subset, FS_CardinalityType
<1>2. ASSUME NEW x \in s PROVE Cardinality(s \ {x}) = Cardinality(s) - 1 /\ Cardinality(s \ {x}) \in Nat
  BY <1>1, FS_RemoveElement, FS_CardinalityType
<1> QED
  BY <1>1, <1>2

\* Among some parts of a finite set there is one such that none of them has one
\* element less.
LEMMA LeastPart ==
  ASSUME NEW S, IsFiniteSet(S), NEW T \in SUBSET SUBSET S, T # {}
  PROVE  \E s \in T : \A x \in s : s \ {x} \notin T
<1> DEFINE Sizes == {Cardinality(s) : s \in T}
<1>1. Sizes \in SUBSET Nat /\ Sizes # {}
  BY FiniteParts
<1>2. PICK m \in Sizes : \A k \in Sizes : m <= k
  <2> HIDE DEF Sizes
  <2> QED
    BY <1>1, LeastNumber
<1>3. PICK s \in T : m = Cardinality(s)
  BY <1>2
<1>4. ASSUME NEW x \in s, s \ {x} \in T PROVE FALSE
  <2>1. Cardinality(s \ {x}) \in Nat /\ Cardinality(s) \in Nat /\ Cardinality(s \ {x}) = Cardinality(s) - 1
    BY <1>4, FiniteParts
  <2>2. Cardinality(s) <= Cardinality(s \ {x})
    BY <1>2, <1>3, <1>4
  <2> QED
    BY <2>1, <2>2
<1> QED
  BY <1>4

-----------------------------------------------------------------------------

\* c chooses an element of each part of S.
Chooses(c, S) == \A s \in SUBSET S : s # {} => c[s] \in s

\* How MapThenFoldSet adds the values of d up.
Unfold(d, c, S, g) ==
  [s \in SUBSET S |-> IF s = {} THEN 0 ELSE d[c[s]] + g[s \ {c[s]}]]

\* g gives the sum of d's values on each part of S.
IsSum(g, d, S) ==
  /\ g \in [SUBSET S -> Int]
  /\ \A s \in SUBSET S : /\ s = {} => g[s] = 0
                        /\ \A p \in s : g[s] = d[p] + g[s \ {p}]

\* The recursive function exists.
LEMMA UnfoldExists ==
  ASSUME NEW S, IsFiniteSet(S), NEW d \in [S -> Int], NEW c, Chooses(c, S)
  PROVE  \E g : g = Unfold(d, c, S, g)
<1> DEFINE Upto(n, g) == /\ g \in [SUBSET S -> Int]
                         /\ \A s \in SUBSET S : Cardinality(s) <= n => g[s] = Unfold(d, c, S, g)[s]
           Missing == {n \in Nat : ~\E g : Upto(n, g)}
<1>1. ASSUME NEW s \in SUBSET S
      PROVE  /\ IsFiniteSet(s) /\ Cardinality(s) \in Nat /\ Cardinality(s) <= Cardinality(S)
             /\ Cardinality(S) \in Nat
  BY FiniteParts
<1>2. ASSUME NEW s \in SUBSET S, s # {}
      PROVE  c[s] \in s /\ s \ {c[s]} \in SUBSET S /\ Cardinality(s \ {c[s]}) < Cardinality(s)
  <2>1. c[s] \in s
    BY <1>2 DEF Chooses
  <2> QED
    BY <1>1, <2>1, FiniteParts
<1>3. Missing = {}
  <2> SUFFICES ASSUME Missing # {} PROVE FALSE
    OBVIOUS
  <2>1. PICK m \in Nat : m \in Missing /\ \A k \in Nat : k \in Missing => m <= k
    BY LeastNumber
  <2>2. CASE m = 0
    <3> DEFINE g == [s \in SUBSET S |-> 0]
    <3>1. ASSUME NEW s \in SUBSET S, Cardinality(s) <= 0 PROVE s = {}
      BY <1>1, <3>1, FS_EmptySet
    <3>2. Upto(0, g)
      BY <3>1 DEF Unfold
    <3> QED
      BY <2>1, <2>2, <3>2
  <2>3. CASE m > 0
    <3>1. m - 1 \in Nat /\ m - 1 \notin Missing
      <4> HIDE DEF Missing
      <4> QED
        BY <2>1, <2>3
    <3>2. PICK g : Upto(m - 1, g)
      <4> HIDE DEF Upto
      <4> QED
        BY <3>1
    <3> DEFINE h == [s \in SUBSET S |-> Unfold(d, c, S, g)[s]]
    <3>3. h \in [SUBSET S -> Int]
      <4>1. ASSUME NEW s \in SUBSET S PROVE Unfold(d, c, S, g)[s] \in Int
        <5>1. CASE s = {}
          BY <5>1 DEF Unfold
        <5>2. CASE s # {}
          <6>1. c[s] \in S /\ s \ {c[s]} \in SUBSET S
            BY <1>2, <5>2
          <6>2. d[c[s]] \in Int /\ g[s \ {c[s]}] \in Int
            BY <3>2, <6>1
          <6>3. Unfold(d, c, S, g)[s] = d[c[s]] + g[s \ {c[s]}]
            BY <5>2 DEF Unfold
          <6> QED
            BY <6>2, <6>3
        <5> QED
          BY <5>1, <5>2
      <4> QED
        BY <4>1
    <3>4. ASSUME NEW s \in SUBSET S, Cardinality(s) < m PROVE h[s] = g[s]
      BY <1>1, <2>1, <3>2, <3>4
    <3>5. ASSUME NEW s \in SUBSET S, Cardinality(s) <= m PROVE h[s] = Unfold(d, c, S, h)[s]
      <4>1. CASE s = {}
        BY <4>1 DEF Unfold
      <4>2. CASE s # {}
        <5> DEFINE r == s \ {c[s]}
        <5>1. r \in SUBSET S /\ Cardinality(r) < Cardinality(s)
          BY <1>2, <4>2
        <5>2. h[r] = g[r]
          <6> HIDE DEF h, r
          <6>1. Cardinality(r) \in Nat /\ Cardinality(s) \in Nat
            BY <1>1, <5>1
          <6> QED
            BY <3>4, <3>5, <5>1, <6>1
        <5>3. \A f : Unfold(d, c, S, f)[s] = d[c[s]] + f[r]
          BY <4>2 DEF Unfold
        <5>4. h[s] = Unfold(d, c, S, g)[s]
          OBVIOUS
        <5> HIDE DEF h, r
        <5> QED
          BY <5>2, <5>3, <5>4
      <4> QED
        BY <4>1, <4>2
    <3>6. Upto(m, h)
      BY <3>3, <3>5
    <3> QED
      BY <2>1, <3>6
  <2> QED
    BY <2>1, <2>2, <2>3
<1>4. PICK g : Upto(Cardinality(S), g)
  BY <1>1, <1>3
<1>5. g = Unfold(d, c, S, g)
  <2>1. \A s \in SUBSET S : g[s] = Unfold(d, c, S, g)[s]
    BY <1>1, <1>4
  <2> QED
    BY <1>4, <2>1 DEF Unfold
<1> QED
  BY <1>5

\* It gives the sum, whatever c chooses.
LEMMA UnfoldSums ==
  ASSUME NEW S, IsFiniteSet(S), NEW d \in [S -> Int], NEW c, Chooses(c, S),
         NEW g, g = Unfold(d, c, S, g)
  PROVE  IsSum(g, d, S)
<1>1. ASSUME NEW s \in SUBSET S, s = {} PROVE g[s] = 0
  BY <1>1 DEF Unfold
<1>2. ASSUME NEW s \in SUBSET S, s # {} PROVE c[s] \in s /\ g[s] = d[c[s]] + g[s \ {c[s]}]
  BY <1>2 DEF Unfold, Chooses
<1>3. ASSUME NEW s \in SUBSET S PROVE g[s] \in Int
  <2> DEFINE Bad == {t \in SUBSET S : g[t] \notin Int}
  <2> SUFFICES ASSUME Bad # {} PROVE FALSE
    OBVIOUS
  <2>1. PICK t \in Bad : \A x \in t : t \ {x} \notin Bad
    <3>1. Bad \in SUBSET SUBSET S
      OBVIOUS
    <3> HIDE DEF Bad
    <3> QED
      BY <3>1, LeastPart
  <2>2. t # {}
    BY <1>1, <2>1
  <2>3. PICK x : x = c[t]
    OBVIOUS
  <2>4. x \in t /\ g[t] = d[x] + g[t \ {x}]
    BY <1>2, <2>1, <2>2, <2>3
  <2>5. g[t \ {x}] \in Int /\ d[x] \in Int
    BY <2>1, <2>4
  <2> QED
    BY <2>1, <2>4, <2>5
<1>4. ASSUME NEW s \in SUBSET S PROVE \A p \in s : g[s] = d[p] + g[s \ {p}]
  <2> DEFINE Bad == {t \in SUBSET S : \E p \in t : g[t] # d[p] + g[t \ {p}]}
  <2> SUFFICES ASSUME Bad # {} PROVE FALSE
    OBVIOUS
  <2>1. PICK t \in Bad : \A x \in t : t \ {x} \notin Bad
    <3>1. Bad \in SUBSET SUBSET S
      OBVIOUS
    <3> HIDE DEF Bad
    <3> QED
      BY <3>1, LeastPart
  <2>2. PICK p \in t : g[t] # d[p] + g[t \ {p}]
    BY <2>1
  <2>3. PICK x : x = c[t]
    OBVIOUS
  <2>4. x \in t /\ g[t] = d[x] + g[t \ {x}]
    BY <1>2, <2>1, <2>2, <2>3
  <2>5. p # x
    BY <2>2, <2>4
  <2>6. g[t \ {x}] = d[p] + g[(t \ {x}) \ {p}] /\ g[t \ {p}] = d[x] + g[(t \ {p}) \ {x}]
    BY <2>1, <2>2, <2>4, <2>5
  <2>7. PICK r \in SUBSET S : r = (t \ {x}) \ {p} /\ r = (t \ {p}) \ {x}
    BY <2>1
  <2>8. d[x] \in Int /\ d[p] \in Int /\ g[r] \in Int
    BY <1>3, <2>1, <2>2, <2>4
  <2>9. g[t] = d[x] + (d[p] + g[r]) /\ g[t \ {p}] = d[x] + g[r]
    BY <2>4, <2>6, <2>7
  <2> QED
    BY <2>2, <2>8, <2>9
<1>5. g \in [SUBSET S -> Int]
  BY <1>3 DEF Unfold
<1> QED
  BY <1>1, <1>4, <1>5 DEF IsSum

\* There is such a sum.
LEMMA SumExists ==
  ASSUME NEW S, IsFiniteSet(S), NEW d \in [S -> Int]
  PROVE  \E g : IsSum(g, d, S)
<1> DEFINE c == [s \in SUBSET S |-> CHOOSE x \in s : TRUE]
<1>1. Chooses(c, S)
  BY DEF Chooses
<1> HIDE DEF c
<1> QED
  BY <1>1, UnfoldExists, UnfoldSums

-----------------------------------------------------------------------------

\* One value more or less changes the sum by as much.
LEMMA SumChanges ==
  ASSUME NEW S, IsFiniteSet(S), NEW d \in [S -> Int], NEW e \in [S -> Int], NEW p \in S,
         \A x \in S : x # p => e[x] = d[x], NEW g, IsSum(g, d, S), NEW h, IsSum(h, e, S)
  PROVE  g[S] \in Int /\ h[S] = g[S] + e[p] - d[p]
<1> DEFINE Bad == {s \in SUBSET S : p \notin s /\ h[s] # g[s]}
<1>1. Bad = {}
  <2> SUFFICES ASSUME Bad # {} PROVE FALSE
    OBVIOUS
  <2>1. PICK s \in Bad : \A x \in s : s \ {x} \notin Bad
    <3>1. Bad \in SUBSET SUBSET S
      OBVIOUS
    <3> HIDE DEF Bad
    <3> QED
      BY <3>1, LeastPart
  <2>2. PICK x \in s : TRUE
    <3>1. s # {}
      BY <2>1 DEF IsSum
    <3> QED
      BY <3>1
  <2>3. h[s \ {x}] = g[s \ {x}] /\ e[x] = d[x]
    BY <2>1, <2>2
  <2>4. s \in SUBSET S /\ h[s] # g[s]
    BY <2>1
  <2>5. g[s] = d[x] + g[s \ {x}] /\ h[s] = e[x] + h[s \ {x}]
    BY <2>2, <2>4 DEF IsSum
  <2> QED
    BY <2>3, <2>4, <2>5
<1>2. h[S \ {p}] = g[S \ {p}] /\ g[S \ {p}] \in Int /\ d[p] \in Int /\ e[p] \in Int
  BY <1>1 DEF IsSum
<1>3. g[S] = d[p] + g[S \ {p}] /\ h[S] = e[p] + h[S \ {p}]
  BY DEF IsSum
<1> QED
  BY <1>2, <1>3

\* A sum of zeros.
LEMMA SumOfZeros ==
  ASSUME NEW S, IsFiniteSet(S), NEW d, d = [x \in S |-> 0], NEW g, IsSum(g, d, S)
  PROVE  g[S] = 0
<1> DEFINE Bad == {s \in SUBSET S : g[s] # 0}
<1>1. Bad = {}
  <2> SUFFICES ASSUME Bad # {} PROVE FALSE
    OBVIOUS
  <2>1. PICK s \in Bad : \A x \in s : s \ {x} \notin Bad
    <3>1. Bad \in SUBSET SUBSET S
      OBVIOUS
    <3> HIDE DEF Bad
    <3> QED
      BY <3>1, LeastPart
  <2>2. PICK x \in s : TRUE
    <3>1. s # {}
      BY <2>1 DEF IsSum
    <3> QED
      BY <3>1
  <2>3. s \in SUBSET S /\ g[s] # 0 /\ s \ {x} \in SUBSET S
    BY <2>1
  <2>4. g[s] = d[x] + g[s \ {x}] /\ g[s \ {x}] = 0
    BY <2>1, <2>2, <2>3 DEF IsSum
  <2>5. d[x] = 0
    BY <2>2, <2>3
  <2> QED
    BY <2>3, <2>4, <2>5
<1> QED
  BY <1>1

\* f names each element of S by one of T, whose value is the same.
Renames(f, S, T, d, e) ==
  /\ f \in [S -> T]
  /\ \A x, y \in S : f[x] = f[y] => x = y
  /\ \A x \in S : e[f[x]] = d[x]

Images(f, S) == {f[x] : x \in S}

\* The elements of one set may be counted as those of another.
LEMMA SumReindex ==
  ASSUME NEW S, IsFiniteSet(S), NEW T, NEW d, NEW e, NEW f, Renames(f, S, T, d, e),
         NEW g, IsSum(g, d, S), NEW h, IsSum(h, e, T)
  PROVE  g[S] = h[Images(f, S)]
<1> DEFINE Bad == {s \in SUBSET S : g[s] # h[Images(f, s)]}
<1>1. Bad = {}
  <2> SUFFICES ASSUME Bad # {} PROVE FALSE
    OBVIOUS
  <2>1. PICK s \in Bad : \A x \in s : s \ {x} \notin Bad
    <3>1. Bad \in SUBSET SUBSET S
      OBVIOUS
    <3> HIDE DEF Bad
    <3> QED
      BY <3>1, LeastPart
  <2>2. s # {}
    <3> SUFFICES ASSUME s = {} PROVE FALSE
      OBVIOUS
    <3>1. Images(f, s) = {}
      BY DEF Images
    <3>2. g[s] = 0 /\ h[Images(f, s)] = 0 /\ g[s] # h[Images(f, s)]
      BY <2>1, <3>1 DEF IsSum
    <3> QED
      BY <3>2
  <2>3. PICK x \in s : TRUE
    BY <2>2
  <2>4. Images(f, s \ {x}) = Images(f, s) \ {f[x]} /\ f[x] \in Images(f, s) /\ Images(f, s) \in SUBSET T
    BY <2>1 DEF Images, Renames
  <2>5. g[s \ {x}] = h[Images(f, s \ {x})]
    BY <2>1
  <2>6. h[Images(f, s)] = e[f[x]] + h[Images(f, s) \ {f[x]}] /\ g[s] = d[x] + g[s \ {x}]
    BY <2>1, <2>4 DEF IsSum
  <2>7. e[f[x]] = d[x] /\ g[s] # h[Images(f, s)]
    BY <2>1 DEF Renames
  <2> QED
    BY <2>4, <2>5, <2>6, <2>7
<1> QED
  BY <1>1

\* The sum over two disjoint parts.
LEMMA SumOfParts ==
  ASSUME NEW S, IsFiniteSet(S), NEW d \in [S -> Int], NEW g, IsSum(g, d, S),
         NEW A \in SUBSET S, NEW B \in SUBSET S, A \cap B = {}
  PROVE  g[A \cup B] = g[A] + g[B]
<1> DEFINE Bad == {s \in SUBSET S : s \cap A = {} /\ g[A \cup s] # g[A] + g[s]}
<1>1. Bad = {}
  <2> SUFFICES ASSUME Bad # {} PROVE FALSE
    OBVIOUS
  <2>1. PICK s \in Bad : \A x \in s : s \ {x} \notin Bad
    <3>1. Bad \in SUBSET SUBSET S
      OBVIOUS
    <3> HIDE DEF Bad
    <3> QED
      BY <3>1, LeastPart
  <2>2. s # {}
    <3> SUFFICES ASSUME s = {} PROVE FALSE
      OBVIOUS
    <3>1. A \cup s = A /\ g[A] \in Int /\ g[s] = 0
      BY <2>1 DEF IsSum
    <3> QED
      BY <2>1, <3>1
  <2>3. PICK x \in s : TRUE
    BY <2>2
  <2>4. PICK r \in SUBSET S : r = s \ {x}
    BY <2>1
  <2>5. x \in A \cup s /\ (A \cup s) \ {x} = A \cup r
    BY <2>1, <2>4
  <2>6. g[A \cup r] = g[A] + g[r]
    BY <2>1, <2>4
  <2>7. g[A \cup s] = d[x] + g[A \cup r] /\ g[s] = d[x] + g[r]
    <3>1. PICK q \in SUBSET S : q = A \cup s
      BY <2>1
    <3>2. s \in SUBSET S /\ x \in s /\ x \in q /\ q \ {x} = A \cup r /\ s \ {x} = r
      BY <2>1, <2>4, <2>5, <3>1
    <3>3. g[q] = d[x] + g[q \ {x}] /\ g[s] = d[x] + g[s \ {x}]
      BY <3>2 DEF IsSum
    <3> QED
      BY <3>1, <3>2, <3>3
  <2>8. g[A] \in Int /\ g[r] \in Int /\ d[x] \in Int
    BY <2>1 DEF IsSum
  <2>9. g[A \cup s] # g[A] + g[s]
    BY <2>1
  <2> QED
    BY <2>6, <2>7, <2>8, <2>9
<1> QED
  BY <1>1

\* A sum of natural numbers is one, and is zero if all of them are.
LEMMA SumOfNaturals ==
  ASSUME NEW S, IsFiniteSet(S), NEW d \in [S -> Nat], NEW g, IsSum(g, d, S)
  PROVE  \A s \in SUBSET S : g[s] \in Nat /\ \A x \in s : d[x] <= g[s]
<1> DEFINE Bad == {s \in SUBSET S : g[s] \notin Nat}
<1>1. Bad = {}
  <2> SUFFICES ASSUME Bad # {} PROVE FALSE
    OBVIOUS
  <2>1. PICK s \in Bad : \A x \in s : s \ {x} \notin Bad
    <3>1. Bad \in SUBSET SUBSET S
      OBVIOUS
    <3> HIDE DEF Bad
    <3> QED
      BY <3>1, LeastPart
  <2>2. PICK x \in s : TRUE
    <3>1. s # {}
      BY <2>1 DEF IsSum
    <3> QED
      BY <3>1
  <2>3. g[s \ {x}] \in Nat /\ d[x] \in Nat /\ g[s] = d[x] + g[s \ {x}]
    BY <2>1 DEF IsSum
  <2> QED
    BY <2>1, <2>3
<1>2. ASSUME NEW s \in SUBSET S, NEW x \in s PROVE d[x] <= g[s]
  <2>1. g[s \ {x}] \in Nat /\ d[x] \in Nat /\ g[s] = d[x] + g[s \ {x}]
    BY <1>1 DEF IsSum
  <2> QED
    BY <2>1
<1> QED
  BY <1>1, <1>2

\* b has the values of d, then those of e.
Joins(b, d, e, m, n) ==
  /\ d \in [1..m -> Int] /\ e \in [1..n -> Int] /\ b \in [1..(m + n) -> Int]
  /\ \A i \in 1..m : b[i] = d[i]
  /\ \A i \in 1..n : b[m + i] = e[i]

\* The sum over a sequence and that over the one that follows it.
LEMMA SumOfJoined ==
  ASSUME NEW m \in Nat, NEW n \in Nat, NEW d, NEW e, NEW b, Joins(b, d, e, m, n),
         NEW g, IsSum(g, d, 1..m), NEW h, IsSum(h, e, 1..n), NEW j, IsSum(j, b, 1..(m + n))
  PROVE  j[1..(m + n)] = g[1..m] + h[1..n]
<1>1. PICK P, Q, R, S : P = 1..m /\ Q = 1..n /\ R = (m + 1)..(m + n) /\ S = 1..(m + n)
  OBVIOUS
<1>2. /\ IsFiniteSet(P) /\ IsFiniteSet(Q) /\ IsFiniteSet(S)
      /\ IsSum(g, d, P) /\ IsSum(h, e, Q) /\ IsSum(j, b, S) /\ b \in [S -> Int]
  BY <1>1, FS_Interval DEF Joins
<1>3. g[P] = j[P]
  <2>1. PICK f : f = [i \in P |-> i]
    OBVIOUS
  <2>2. Renames(f, P, S, d, b)
    BY <1>1, <2>1 DEF Renames, Joins
  <2>3. Images(f, P) = P
    BY <2>1 DEF Images
  <2>4. g[P] = j[Images(f, P)]
    BY <1>2, <2>2, SumReindex
  <2> QED
    BY <2>3, <2>4
<1>4. h[Q] = j[R]
  <2>1. PICK f : f = [i \in Q |-> m + i]
    OBVIOUS
  <2>2. ASSUME NEW x \in Q PROVE m + x \in S /\ m + x \in R /\ f[x] = m + x
    BY <1>1, <2>1
  <2>3. ASSUME NEW y \in R PROVE y - m \in Q /\ m + (y - m) = y
    BY <1>1
  <2>4. Renames(f, Q, S, e, b)
    BY <1>1, <2>1, <2>2 DEF Renames, Joins
  <2>5. Images(f, Q) = R
    BY <2>2, <2>3 DEF Images
  <2>6. h[Q] = j[Images(f, Q)]
    BY <1>2, <2>4, SumReindex
  <2> QED
    BY <2>5, <2>6
<1>5. j[S] = j[P] + j[R]
  <2>1. P \in SUBSET S /\ R \in SUBSET S /\ P \cap R = {} /\ P \cup R = S
    BY <1>1
  <2>2. j[P \cup R] = j[P] + j[R]
    BY <1>2, <2>1, SumOfParts
  <2> QED
    BY <2>1, <2>2
<1> QED
  BY <1>1, <1>3, <1>4, <1>5

=============================================================================
