----------------------------- MODULE DataLemmas -----------------------------
(***************************************************************************)
(* Facts about data that the proofs about the components need: every       *)
(* sequence of numbers can be sorted and a set of numbers has only one     *)
(* ascending enumeration (for ReportPipeline), the laws of sums (for       *)
(* CostGate) and of products, and sequences of one or two (for EndToEnd).  *)
(***************************************************************************)
EXTENDS FiniteSetTheorems, SequenceTheorems, TLAPS

\* f puts the elements of s into ascending order.
Sorts(f, s, n) == \A i, j \in 1..n : i < j => s[f[i]] <= s[f[j]]

\* s has each element once, the smaller before the greater.
Climbs(s) == \A i, j \in DOMAIN s : i < j => s[i] < s[j]

\* A set of numbers has a smallest.
LEMMA NatMinimum ==
    ASSUME NEW T \in SUBSET Nat, T # {}
    PROVE  \E m \in T : \A n \in T : m <= n
<1>1. PICK m \in T : \A n \in T : ~(<<n, m>> \in OpToRel(<, Nat))
  BY WFMin, NatLessThanWellFounded, Zenon
<1>2. \A n \in T : ~(n < m)
  BY <1>1 DEF OpToRel
<1> QED
  BY <1>2

\* A set of numbers that has 0 and, with a number, the next, has them all.
LEMMA NatClosure ==
    ASSUME NEW S \in SUBSET Nat, 0 \in S, \A n \in S : n + 1 \in S
    PROVE  \A n \in Nat : n \in S
<1> SUFFICES ASSUME Nat \ S # {} PROVE FALSE
  OBVIOUS
<1>1. PICK m \in Nat \ S : \A n \in Nat \ S : m <= n
  BY NatMinimum
<1>2. m - 1 \in Nat /\ m - 1 \in S
  BY <1>1
<1> QED
  BY <1>1, <1>2

\* The place at which one more element belongs.
LEMMA SortedInsertion ==
    ASSUME NEW n \in Nat, NEW s \in [1..n + 1 -> Nat],
           NEW f \in Bijection(1..n, 1..n), Sorts(f, s, n)
    PROVE  \E g \in Bijection(1..n + 1, 1..n + 1) : Sorts(g, s, n + 1)
<1> DEFINE bigger == {i \in 1..n : s[f[i]] > s[n + 1]} \cup {n + 1}
<1>0. \A i \in 1..n : f[i] \in 1..n
  BY DEF Bijection, Injection
<1>1. PICK k \in bigger : \A i \in bigger : k <= i
  <2>1. bigger \in SUBSET Nat /\ bigger # {}
    OBVIOUS
  <2> HIDE DEF bigger
  <2> QED
    BY <2>1, NatMinimum
<1>2. /\ k \in 1..n + 1
      /\ \A i \in 1..n : i < k => s[f[i]] <= s[n + 1]
      /\ k # n + 1 => s[f[k]] > s[n + 1]
  BY <1>0, <1>1
<1>3. \A i \in 1..n : k <= i => s[n + 1] <= s[f[i]]
  BY <1>0, <1>2 DEF Sorts
<1> DEFINE g == [i \in 1..n + 1 |-> IF i < k THEN f[i] ELSE IF i = k THEN n + 1 ELSE f[i - 1]]
<1>4. g \in [1..n + 1 -> 1..n + 1]
  BY <1>0, <1>2
<1>5. \A i, j \in 1..n + 1 : g[i] = g[j] => i = j
  <2>1. \A a, b \in 1..n : f[a] = f[b] => a = b
    BY DEF Bijection, Injection, IsInjective
  <2>2. \A i, j \in 1..n + 1 : i < j => g[i] # g[j]
    BY <1>0, <1>2, <2>1
  <2> HIDE DEF g
  <2> QED
    BY <2>2
<1>6. \A t \in 1..n + 1 : \E i \in 1..n + 1 : g[i] = t
  <2> SUFFICES ASSUME NEW t \in 1..n + 1 PROVE \E i \in 1..n + 1 : g[i] = t
    OBVIOUS
  <2>1. CASE t = n + 1
    BY <1>2, <2>1
  <2>2. CASE t \in 1..n
    <3>1. PICK a \in 1..n : f[a] = t
      BY <2>2 DEF Bijection, Surjection
    <3>2. CASE a < k
      BY <3>1, <3>2, <1>2
    <3>3. CASE a >= k
      <4>1. a + 1 \in 1..n + 1 /\ ~(a + 1 < k) /\ a + 1 # k /\ a + 1 - 1 = a
        BY <3>3, <1>2
      <4>2. g[a + 1] = t
        BY <3>1, <4>1
      <4> QED
        BY <4>1, <4>2
    <3> QED
      BY <3>2, <3>3, <1>2
  <2> QED
    BY <2>1, <2>2
<1>7. g \in Bijection(1..n + 1, 1..n + 1)
  BY <1>4, <1>5, <1>6, Zenon DEF Bijection, Injection, Surjection, IsInjective
<1>8. Sorts(g, s, n + 1)
  <2> SUFFICES ASSUME NEW i \in 1..n + 1, NEW j \in 1..n + 1, i < j
               PROVE  s[g[i]] <= s[g[j]]
    BY DEF Sorts
  <2>1. \A a, b \in 1..n : a < b => s[f[a]] <= s[f[b]]
    BY DEF Sorts
  <2>2. CASE j < k
    BY <1>0, <1>2, <2>1, <2>2
  <2>3. CASE j = k
    BY <1>0, <1>2, <2>3
  <2>4. CASE j > k /\ i < k
    BY <1>0, <1>2, <2>1, <2>4
  <2>5. CASE j > k /\ i = k
    BY <1>0, <1>2, <1>3, <2>5
  <2>6. CASE j > k /\ i > k
    BY <1>0, <1>2, <2>1, <2>6
  <2> QED
    BY <2>2, <2>3, <2>4, <2>5, <2>6, <1>2
<1> QED
  BY <1>7, <1>8

\* Every sequence can be sorted.
LEMMA SortingExists ==
    \A n \in Nat : \A s \in [1..n -> Nat] : \E f \in Bijection(1..n, 1..n) : Sorts(f, s, n)
<1> DEFINE S == {n \in Nat : \A s \in [1..n -> Nat] :
                              \E f \in Bijection(1..n, 1..n) : Sorts(f, s, n)}
<1>1. 0 \in S
  <2>1. [i \in 1..0 |-> 0] \in Bijection(1..0, 1..0)
    BY DEF Bijection, Injection, Surjection, IsInjective
  <2>2. \A s : Sorts([i \in 1..0 |-> 0], s, 0)
    BY DEF Sorts
  <2> QED
    BY <2>1, <2>2
<1>2. ASSUME NEW n \in S PROVE n + 1 \in S
  <2> SUFFICES ASSUME NEW s \in [1..n + 1 -> Nat]
               PROVE  \E f \in Bijection(1..n + 1, 1..n + 1) : Sorts(f, s, n + 1)
    OBVIOUS
  <2> DEFINE r == [i \in 1..n |-> s[i]]
  <2>1. r \in [1..n -> Nat]
    OBVIOUS
  <2>2. PICK f \in Bijection(1..n, 1..n) : Sorts(f, r, n)
    BY <2>1
  <2>3. Sorts(f, s, n)
    BY <2>2 DEF Sorts, Bijection, Injection
  <2> QED
    BY <2>3, SortedInsertion
<1> HIDE DEF S
<1>3. \A n \in Nat : n \in S
  BY <1>1, <1>2, NatClosure DEF S
<1> QED
  BY <1>3 DEF S

\* A set of numbers has at most one ascending enumeration.
LEMMA OneListing ==
    ASSUME NEW s \in Seq(Nat), NEW t \in Seq(Nat), Climbs(s), Climbs(t), Range(s) = Range(t)
    PROVE  s = t
<1> DEFINE Differ(i) == \/ i \in 1..Len(s) /\ i \notin 1..Len(t)
                        \/ i \in 1..Len(t) /\ i \notin 1..Len(s)
                        \/ i \in 1..Len(s) /\ i \in 1..Len(t) /\ s[i] # t[i]
<1>0. /\ Len(s) \in Nat /\ Len(t) \in Nat
      /\ DOMAIN s = 1..Len(s) /\ DOMAIN t = 1..Len(t)
      /\ \A i \in 1..Len(s) : s[i] \in Nat
      /\ \A i \in 1..Len(t) : t[i] \in Nat
  BY LenProperties
<1>1. CASE \A i \in Nat : ~Differ(i)
  <2>1. Len(s) = Len(t)
    <3>1. /\ Len(s) \in 1..Len(s) => Len(s) \in 1..Len(t)
          /\ Len(t) \in 1..Len(t) => Len(t) \in 1..Len(s)
      <4>1. ~Differ(Len(s)) /\ ~Differ(Len(t))
        BY <1>0, <1>1
      <4> QED
        BY <4>1, Zenon
    <3>2. \A a, b \in Nat : (a \in 1..a => a \in 1..b) /\ (b \in 1..b => b \in 1..a) => a = b
      OBVIOUS
    <3> QED
      BY <1>0, <3>1, <3>2, Zenon
  <2>2. \A i \in 1..Len(s) : s[i] = t[i]
    BY <1>0, <1>1, <2>1
  <2> QED
    BY <2>1, <2>2, SeqEqual
<1>2. CASE \E i \in Nat : Differ(i)
  <2>1. PICK m \in Nat : Differ(m) /\ \A i \in Nat : i < m => ~Differ(i)
    <3> DEFINE apart == {i \in Nat : Differ(i)}
    <3>1. apart \in SUBSET Nat /\ apart # {}
      BY <1>2
    <3>2. PICK m \in apart : \A i \in apart : m <= i
      <4> HIDE DEF apart
      <4> QED
        BY <3>1, NatMinimum
    <3>3. Differ(m) /\ \A i \in Nat : Differ(i) => m <= i
      BY <3>2
    <3> HIDE DEF Differ
    <3> QED
      BY <3>2, <3>3
  <2>2. \A i \in 1..Len(s) : i < m => i \in 1..Len(t) /\ s[i] = t[i]
    BY <1>0, <2>1
  <2>3. \A i \in 1..Len(t) : i < m => i \in 1..Len(s) /\ s[i] = t[i]
    BY <1>0, <2>1
  <2>4. ASSUME m \in 1..Len(s) PROVE \E j \in 1..Len(t) : t[j] = s[m] /\ m <= j
    <3>1. PICK j \in 1..Len(t) : t[j] = s[m]
      BY <1>0, <2>4 DEF Range
    <3>2. j < m => j \in 1..Len(s) /\ s[j] < s[m]
      BY <1>0, <2>3, <2>4 DEF Climbs
    <3>3. ~(j < m)
      BY <1>0, <2>3, <2>4, <3>1, <3>2
    <3> QED
      BY <3>1, <3>3
  <2>5. ASSUME m \in 1..Len(t) PROVE \E j \in 1..Len(s) : s[j] = t[m] /\ m <= j
    <3>1. PICK j \in 1..Len(s) : s[j] = t[m]
      BY <1>0, <2>5 DEF Range
    <3>2. j < m => j \in 1..Len(t) /\ t[j] < t[m]
      BY <1>0, <2>2, <2>5 DEF Climbs
    <3>3. ~(j < m)
      BY <1>0, <2>2, <2>5, <3>1, <3>2
    <3> QED
      BY <3>1, <3>3
  <2>6. m \in 1..Len(s) /\ m \in 1..Len(t) /\ s[m] # t[m]
    <3>1. m \in 1..Len(s) => m \in 1..Len(t)
      BY <1>0, <2>4
    <3>2. m \in 1..Len(t) => m \in 1..Len(s)
      BY <1>0, <2>5
    <3> QED
      BY <2>1, <3>1, <3>2
  <2>7. t[m] <= s[m]
    <3>1. PICK j \in 1..Len(t) : t[j] = s[m] /\ m <= j
      BY <2>4, <2>6
    <3>2. m < j => t[m] < t[j]
      BY <1>0, <2>6, <3>1 DEF Climbs
    <3>3. m = j \/ m < j
      BY <3>1
    <3> QED
      BY <1>0, <2>6, <3>1, <3>2, <3>3
  <2>8. s[m] <= t[m]
    <3>1. PICK j \in 1..Len(s) : s[j] = t[m] /\ m <= j
      BY <2>5, <2>6
    <3>2. m < j => s[m] < s[j]
      BY <1>0, <2>6, <3>1 DEF Climbs
    <3>3. m = j \/ m < j
      BY <3>1
    <3> QED
      BY <1>0, <2>6, <3>1, <3>2, <3>3
  <2> QED
    BY <1>0, <2>6, <2>7, <2>8
<1> QED
  BY <1>0, <1>1, <1>2

-----------------------------------------------------------------------------
(***************************************************************************)
(* Sums.  SumFunction adds the values of a function up by recursion over   *)
(* the subsets of its domain, an arbitrary element at a time.  For a       *)
(* finite domain that is well defined, and the order does not matter.      *)
(***************************************************************************)
AMember(s) == CHOOSE x \in s : TRUE

\* h gives the sum of f over every subset of D.
Tallies(h, f, D) ==
    h = [s \in SUBSET D |-> IF s = {} THEN 0 ELSE f[AMember(s)] + h[s \ {AMember(s)}]]

\* f without the value at x.
Less(f, x) == [y \in DOMAIN f \ {x} |-> f[y]]

\* What SumFunction is.
LEMMA SumIsTally ==
    ASSUME NEW f
    PROVE  SumFunction(f) = (CHOOSE h : Tallies(h, f, DOMAIN f))[DOMAIN f]
  BY DEF SumFunction, SumFunctionOnSet, FoldFunctionOnSet, MapThenFoldSet, Tallies, AMember

\* A set without an element of it is smaller by one.
LEMMA OneLess ==
    ASSUME NEW s, IsFiniteSet(s), NEW n \in Nat, NEW x \in s, Cardinality(s) <= n + 1
    PROVE  IsFiniteSet(s \ {x}) /\ Cardinality(s \ {x}) \in Nat /\ Cardinality(s \ {x}) <= n
           /\ Cardinality(s) \in Nat /\ Cardinality(s) = Cardinality(s \ {x}) + 1
<1>1. Cardinality(s) \in Nat /\ Cardinality(s \ {x}) = Cardinality(s) - 1 /\ IsFiniteSet(s \ {x})
  BY FS_CardinalityType, FS_RemoveElement
<1>2. Cardinality(s \ {x}) \in Nat
  BY <1>1, FS_CardinalityType
<1> QED
  BY <1>1, <1>2

\* The sums over the subsets can be worked out, the smaller before the greater.
LEMMA TallyExists ==
    ASSUME NEW D, IsFiniteSet(D), NEW f \in [D -> Int]
    PROVE  \E h \in [SUBSET D -> Int] : Tallies(h, f, D)
<1> DEFINE Level(n) == {s \in SUBSET D : Cardinality(s) <= n}
           Right(h, s) == h[s] = IF s = {} THEN 0 ELSE f[AMember(s)] + h[s \ {AMember(s)}]
           N == {n \in Nat : \E h \in [Level(n) -> Int] : \A s \in Level(n) : Right(h, s)}
<1>0. \A s \in SUBSET D : IsFiniteSet(s) /\ Cardinality(s) \in Nat /\ (Cardinality(s) = 0 <=> s = {})
  BY FS_Subset, FS_CardinalityType, FS_EmptySet
<1>a. \A s : s # {} => AMember(s) \in s
  BY DEF AMember
<1>1. 0 \in N
  <2> DEFINE h == [s \in Level(0) |-> 0]
  <2>1. \A s \in Level(0) : s = {}
    BY <1>0
  <2>2. h \in [Level(0) -> Int] /\ \A s \in Level(0) : Right(h, s)
    BY <2>1
  <2> HIDE DEF h, Right
  <2> QED
    BY <2>2
<1>2. ASSUME NEW n \in N PROVE n + 1 \in N
  <2>1. PICK h \in [Level(n) -> Int] : \A s \in Level(n) : Right(h, s)
    OBVIOUS
  <2> DEFINE k == [s \in Level(n + 1) |->
                     IF s = {} THEN 0 ELSE f[AMember(s)] + h[s \ {AMember(s)}]]
  <2>2. \A s \in Level(n + 1) : s # {} => AMember(s) \in s /\ s \ {AMember(s)} \in Level(n)
    <3> SUFFICES ASSUME NEW s \in Level(n + 1), s # {} PROVE AMember(s) \in s /\ s \ {AMember(s)} \in Level(n)
      OBVIOUS
    <3>1. AMember(s) \in s /\ IsFiniteSet(s) /\ Cardinality(s) <= n + 1
      BY <1>0, <1>a
    <3>2. Cardinality(s \ {AMember(s)}) <= n
      BY <3>1, OneLess
    <3> QED
      BY <3>1, <3>2
  <2>3. k \in [Level(n + 1) -> Int]
    <3> HIDE DEF Level
    <3>1. \A s \in Level(n + 1) : s \in SUBSET D
      BY DEF Level
    <3> QED
      BY <2>2, <3>1
  <2>4. \A s \in Level(n) : s \in Level(n + 1) /\ k[s] = h[s]
    <3>1. \A s \in Level(n) : s \in Level(n + 1)
      BY <1>0
    <3> HIDE DEF Level
    <3> QED
      BY <2>1, <3>1
  <2>5. \A s \in Level(n + 1) : Right(k, s)
    <3> HIDE DEF Level
    <3> QED
      BY <2>2, <2>4
  <2>6. \E j \in [Level(n + 1) -> Int] : \A s \in Level(n + 1) : Right(j, s)
    <3> HIDE DEF k, Right, Level
    <3> QED
      BY <2>3, <2>5
  <2> HIDE DEF Right, Level
  <2> QED
    BY <2>6
<1>3. Cardinality(D) \in N
  <2> HIDE DEF N
  <2>1. N \in SUBSET Nat
    BY DEF N
  <2> QED
    BY <2>1, <1>0, <1>1, <1>2, NatClosure
<1>4. Level(Cardinality(D)) = SUBSET D
  BY FS_Subset
<1>5. PICK h \in [SUBSET D -> Int] : \A s \in SUBSET D : Right(h, s)
  BY <1>3, <1>4
<1>6. Tallies(h, f, D)
  BY <1>5 DEF Tallies
<1> QED
  BY <1>5, <1>6

\* A sum depends on the values that it adds up and on nothing else.
LEMMA TallyIsLocal ==
    ASSUME NEW D, NEW E, NEW f, NEW g, NEW h, NEW k, Tallies(h, f, D), Tallies(k, g, E),
           NEW t \in SUBSET D, t \in SUBSET E, IsFiniteSet(t), \A x \in t : f[x] = g[x]
    PROVE  h[t] = k[t]
<1> DEFINE N == {n \in Nat : \A s \in SUBSET t : Cardinality(s) = n => h[s] = k[s]}
<1>0. \A s \in SUBSET t : IsFiniteSet(s) /\ Cardinality(s) \in Nat /\ (Cardinality(s) = 0 <=> s = {})
  BY FS_Subset, FS_CardinalityType, FS_EmptySet
<1>1. /\ \A s \in SUBSET t : h[s] = IF s = {} THEN 0 ELSE f[AMember(s)] + h[s \ {AMember(s)}]
      /\ \A s \in SUBSET t : k[s] = IF s = {} THEN 0 ELSE g[AMember(s)] + k[s \ {AMember(s)}]
  <2>1. \A s \in SUBSET t : s \in SUBSET D /\ s \in SUBSET E
    OBVIOUS
  <2> QED
    BY <2>1 DEF Tallies
<1>2. 0 \in N
  BY <1>0, <1>1
<1>3. ASSUME NEW n \in N PROVE n + 1 \in N
  <2> SUFFICES ASSUME NEW s \in SUBSET t, Cardinality(s) = n + 1 PROVE h[s] = k[s]
    OBVIOUS
  <2>1. s # {}
    BY <1>0
  <2>2. AMember(s) \in s
    BY <2>1 DEF AMember
  <2>3. Cardinality(s \ {AMember(s)}) = n
    BY <1>0, <2>2, OneLess
  <2>4. h[s \ {AMember(s)}] = k[s \ {AMember(s)}] /\ f[AMember(s)] = g[AMember(s)]
    BY <2>2, <2>3
  <2> QED
    BY <1>1, <2>1, <2>4
<1>4. Cardinality(t) \in N
  <2> HIDE DEF N
  <2>1. N \in SUBSET Nat
    BY DEF N
  <2> QED
    BY <2>1, <1>0, <1>2, <1>3, NatClosure
<1> QED
  BY <1>4

\* The sum of a function, once it is known to be well defined.
LEMMA SumStep ==
    ASSUME NEW D, IsFiniteSet(D), NEW f \in [D -> Int]
    PROVE  /\ SumFunction(f) \in Int
           /\ D = {} => SumFunction(f) = 0
           /\ D # {} => SumFunction(f) = f[AMember(D)] + SumFunction(Less(f, AMember(D)))
<1> DEFINE h == CHOOSE h : Tallies(h, f, D)
<1>1. DOMAIN f = D
  OBVIOUS
<1>2. SumFunction(f) = h[D]
  BY <1>1, SumIsTally
<1>3. PICK h0 \in [SUBSET D -> Int] : Tallies(h0, f, D)
  BY TallyExists
<1>4. Tallies(h, f, D)
  BY <1>3, Zenon
<1> HIDE DEF h
<1>5. h[D] = h0[D]
  <2>1. D \in SUBSET D /\ \A x \in D : f[x] = f[x]
    OBVIOUS
  <2> QED
    BY <1>3, <1>4, <2>1, TallyIsLocal
<1>6. h[D] = IF D = {} THEN 0 ELSE f[AMember(D)] + h[D \ {AMember(D)}]
  BY <1>4 DEF Tallies
<1>7. ASSUME D # {} PROVE h[D \ {AMember(D)}] = SumFunction(Less(f, AMember(D)))
  <2> DEFINE E == D \ {AMember(D)}
             g == Less(f, AMember(D))
             k == CHOOSE k : Tallies(k, g, E)
  <2>1. g \in [E -> Int] /\ DOMAIN g = E /\ \A x \in E : f[x] = g[x]
    BY DEF Less
  <2>2. IsFiniteSet(E) /\ E \in SUBSET D /\ E \in SUBSET E
    BY FS_Subset
  <2> HIDE DEF E, g
  <2>3. SumFunction(g) = k[E]
    BY <2>1, SumIsTally
  <2>4. Tallies(k, g, E)
    <3>1. \E j : Tallies(j, g, E)
      BY <2>1, <2>2, TallyExists
    <3> QED
      BY <3>1, Zenon
  <2> HIDE DEF k
  <2>5. h[E] = k[E]
    BY <1>4, <2>1, <2>2, <2>4, TallyIsLocal
  <2> QED
    BY <2>3, <2>5 DEF E, g
<1> QED
  BY <1>2, <1>3, <1>5, <1>6, <1>7

\* A family of subsets that has the empty set and, with a set, every set with one
\* element more, has the whole set.
LEMMA SubsetClosure ==
    ASSUME NEW D, IsFiniteSet(D), NEW F, {} \in F,
           \A s \in SUBSET D : \A x \in D \ s : s \in F => s \cup {x} \in F
    PROVE  D \in F
<1> DEFINE N == {n \in Nat : \A s \in SUBSET D : Cardinality(s) = n => s \in F}
<1>0. \A s \in SUBSET D : IsFiniteSet(s) /\ Cardinality(s) \in Nat /\ (Cardinality(s) = 0 <=> s = {})
  BY FS_Subset, FS_CardinalityType, FS_EmptySet
<1>1. 0 \in N
  BY <1>0
<1>2. ASSUME NEW n \in N PROVE n + 1 \in N
  <2> SUFFICES ASSUME NEW s \in SUBSET D, Cardinality(s) = n + 1 PROVE s \in F
    OBVIOUS
  <2>1. PICK x \in s : TRUE
    BY <1>0
  <2>2. Cardinality(s \ {x}) = n
    BY <1>0, OneLess
  <2>3. s \ {x} \in F
    BY <2>2
  <2>4. s = (s \ {x}) \cup {x} /\ x \in D \ (s \ {x}) /\ s \ {x} \in SUBSET D
    OBVIOUS
  <2> QED
    BY <2>3, <2>4
<1>3. Cardinality(D) \in N
  <2> HIDE DEF N
  <2>1. N \in SUBSET Nat
    BY DEF N
  <2> QED
    BY <2>1, <1>0, <1>1, <1>2, NatClosure
<1> QED
  BY <1>3

\* Any element may be added last.
LEMMA SumTakeOut ==
    ASSUME NEW D, IsFiniteSet(D), NEW f \in [D -> Int], NEW x \in D
    PROVE  SumFunction(f) = f[x] + SumFunction(Less(f, x))
<1> DEFINE Goal(s, y) == SumFunction(Restrict(f, s)) = f[y] + SumFunction(Restrict(f, s \ {y}))
           N == {n \in Nat : \A s \in SUBSET D : Cardinality(s) = n => \A y \in s : Goal(s, y)}
<1>0. \A s \in SUBSET D : IsFiniteSet(s) /\ Cardinality(s) \in Nat /\ (Cardinality(s) = 0 <=> s = {})
  BY FS_Subset, FS_CardinalityType, FS_EmptySet
<1>1. ASSUME NEW s \in SUBSET D
      PROVE  /\ SumFunction(Restrict(f, s)) \in Int
             /\ s # {} => AMember(s) \in s /\ Goal(s, AMember(s))
  <2>1. Restrict(f, s) \in [s -> Int] /\ \A y \in s : Restrict(f, s)[y] = f[y]
    BY DEF Restrict
  <2>2. \A y \in s : Less(Restrict(f, s), y) = Restrict(f, s \ {y})
    BY DEF Restrict, Less
  <2>3. s # {} => AMember(s) \in s
    BY DEF AMember
  <2>4. IsFiniteSet(s)
    BY <1>0
  <2>5. /\ SumFunction(Restrict(f, s)) \in Int
        /\ s # {} => SumFunction(Restrict(f, s))
                       = Restrict(f, s)[AMember(s)] + SumFunction(Less(Restrict(f, s), AMember(s)))
    BY <2>1, <2>4, SumStep
  <2> QED
    BY <2>1, <2>2, <2>3, <2>5
<1>2. 0 \in N
  BY <1>0
<1>3. ASSUME NEW n \in N PROVE n + 1 \in N
  <2> SUFFICES ASSUME NEW s \in SUBSET D, Cardinality(s) = n + 1, NEW y \in s PROVE Goal(s, y)
    OBVIOUS
  <2> DEFINE z == AMember(s)
  <2>1. z \in s /\ Goal(s, z)
    BY <1>1
  <2> HIDE DEF z
  <2>2. CASE y = z
    BY <2>1, <2>2
  <2>3. CASE y # z
    <3>1. y \in s \ {z} /\ z \in s \ {y} /\ s \ {y} \in SUBSET D /\ s \ {z} \in SUBSET D
      BY <2>1, <2>3
    <3>2. Cardinality(s \ {z}) = n /\ Cardinality(s \ {y}) = n
      BY <1>0, <2>1, OneLess
    <3>3. Goal(s \ {z}, y) /\ Goal(s \ {y}, z)
      BY <3>1, <3>2
    <3>4. (s \ {z}) \ {y} = (s \ {y}) \ {z} /\ (s \ {z}) \ {y} \in SUBSET D
      OBVIOUS
    <3>5. SumFunction(Restrict(f, (s \ {z}) \ {y})) \in Int /\ f[y] \in Int /\ f[z] \in Int
      BY <1>1, <2>1, <3>4
    <3> QED
      BY <2>1, <3>3, <3>4, <3>5
  <2> QED
    BY <2>2, <2>3
<1>4. Cardinality(D) \in N
  <2> HIDE DEF N
  <2>1. N \in SUBSET Nat
    BY DEF N
  <2> QED
    BY <2>1, <1>0, <1>2, <1>3, NatClosure
<1>5. Goal(D, x)
  BY <1>4
<1>6. Restrict(f, D) = f /\ Restrict(f, D \ {x}) = Less(f, x)
  BY DEF Restrict, Less
<1> QED
  BY <1>5, <1>6

\* One more element adds its value.
LEMMA SumInsert ==
    ASSUME NEW D, IsFiniteSet(D), NEW f \in [D -> Int], NEW s \in SUBSET D, NEW x \in D \ s
    PROVE  /\ SumFunction(Restrict(f, s)) \in Int
           /\ SumFunction(Restrict(f, s \cup {x})) = f[x] + SumFunction(Restrict(f, s))
<1>1. IsFiniteSet(s) /\ IsFiniteSet(s \cup {x})
  BY FS_Subset
<1>2. /\ Restrict(f, s) \in [s -> Int] /\ Restrict(f, s \cup {x}) \in [s \cup {x} -> Int]
      /\ Restrict(f, s \cup {x})[x] = f[x]
      /\ Less(Restrict(f, s \cup {x}), x) = Restrict(f, s)
  BY DEF Restrict, Less
<1>3. SumFunction(Restrict(f, s)) \in Int
  BY <1>1, <1>2, SumStep
<1>4. SumFunction(Restrict(f, s \cup {x}))
        = Restrict(f, s \cup {x})[x] + SumFunction(Less(Restrict(f, s \cup {x}), x))
  <2>1. x \in s \cup {x}
    OBVIOUS
  <2> QED
    BY <1>1, <1>2, <2>1, SumTakeOut
<1> QED
  BY <1>2, <1>3, <1>4

\* Restricting a function to its domain changes nothing, and nothing adds up to 0.
LEMMA SumWhole ==
    ASSUME NEW D, IsFiniteSet(D), NEW f \in [D -> Int]
    PROVE  /\ Restrict(f, D) = f
           /\ SumFunction(f) \in Int
           /\ SumFunction(Restrict(f, {})) = 0
<1>1. Restrict(f, D) = f
  BY DEF Restrict
<1>2. Restrict(f, {}) \in [{} -> Int]
  BY DEF Restrict
<1> QED
  BY <1>1, <1>2, SumStep, FS_EmptySet

\* Sums of naturals are naturals.
LEMMA SumNat ==
    ASSUME NEW D, IsFiniteSet(D), NEW f \in [D -> Nat]
    PROVE  SumFunction(f) \in Nat
<1> DEFINE F == {s \in SUBSET D : SumFunction(Restrict(f, s)) \in Nat}
<1>0. f \in [D -> Int] /\ \A x \in D : f[x] \in Nat
  OBVIOUS
<1>1. {} \in F
  BY <1>0, SumWhole
<1>2. ASSUME NEW s \in SUBSET D, NEW x \in D \ s, s \in F PROVE s \cup {x} \in F
  <2>1. SumFunction(Restrict(f, s \cup {x})) = f[x] + SumFunction(Restrict(f, s))
    BY <1>0, SumInsert
  <2> QED
    BY <1>0, <1>2, <2>1
<1> HIDE DEF F
<1>3. D \in F
  BY <1>1, <1>2, SubsetClosure
<1> QED
  BY <1>0, <1>3, SumWhole DEF F

\* A sum of zeros.
LEMMA SumZero ==
    ASSUME NEW D, IsFiniteSet(D), NEW f \in [D -> Int], \A x \in D : f[x] = 0
    PROVE  SumFunction(f) = 0
<1> DEFINE F == {s \in SUBSET D : SumFunction(Restrict(f, s)) = 0}
<1>1. {} \in F
  BY SumWhole
<1>2. ASSUME NEW s \in SUBSET D, NEW x \in D \ s, s \in F PROVE s \cup {x} \in F
  <2>1. SumFunction(Restrict(f, s \cup {x})) = f[x] + SumFunction(Restrict(f, s))
    BY SumInsert
  <2> QED
    BY <1>2, <2>1
<1> HIDE DEF F
<1>3. D \in F
  BY <1>1, <1>2, SubsetClosure
<1> QED
  BY <1>3, SumWhole DEF F

\* The same, of every function.
LEMMA SumInsertAny ==
    ASSUME NEW D, IsFiniteSet(D)
    PROVE  \A k \in [D -> Int] : \A s \in SUBSET D : \A x \in D \ s :
             /\ SumFunction(Restrict(k, s)) \in Int
             /\ SumFunction(Restrict(k, s \cup {x})) = k[x] + SumFunction(Restrict(k, s))
  BY SumInsert

\* The sum of two functions.
LEMMA SumPlus ==
    ASSUME NEW D, IsFiniteSet(D), NEW f \in [D -> Int], NEW g \in [D -> Int], NEW h \in [D -> Int],
           \A x \in D : h[x] = f[x] + g[x]
    PROVE  SumFunction(h) = SumFunction(f) + SumFunction(g)
<1> DEFINE F == {s \in SUBSET D : SumFunction(Restrict(h, s))
                                   = SumFunction(Restrict(f, s)) + SumFunction(Restrict(g, s))}
<1>1. {} \in F
  BY SumWhole
<1>2. ASSUME NEW s \in SUBSET D, NEW x \in D \ s, s \in F PROVE s \cup {x} \in F
  <2>0. \A k \in [D -> Int] : /\ SumFunction(Restrict(k, s)) \in Int
                              /\ SumFunction(Restrict(k, s \cup {x}))
                                   = k[x] + SumFunction(Restrict(k, s))
    <3>1. \A k \in [D -> Int] : \A r \in SUBSET D : \A y \in D \ r :
             /\ SumFunction(Restrict(k, r)) \in Int
             /\ SumFunction(Restrict(k, r \cup {y})) = k[y] + SumFunction(Restrict(k, r))
      BY SumInsertAny
    <3>2. s \in SUBSET D /\ x \in D \ s
      OBVIOUS
    <3> HIDE DEF F
    <3> QED
      BY <3>1, <3>2, Zenon
  <2>1. /\ SumFunction(Restrict(h, s)) \in Int
        /\ SumFunction(Restrict(h, s \cup {x})) = h[x] + SumFunction(Restrict(h, s))
    BY <2>0, Zenon
  <2>2. /\ SumFunction(Restrict(f, s)) \in Int
        /\ SumFunction(Restrict(f, s \cup {x})) = f[x] + SumFunction(Restrict(f, s))
    BY <2>0, Zenon
  <2>3. /\ SumFunction(Restrict(g, s)) \in Int
        /\ SumFunction(Restrict(g, s \cup {x})) = g[x] + SumFunction(Restrict(g, s))
    BY <2>0, Zenon
  <2>4. f[x] \in Int /\ g[x] \in Int /\ h[x] = f[x] + g[x]
    OBVIOUS
  <2> QED
    BY <1>2, <2>1, <2>2, <2>3, <2>4
<1> HIDE DEF F
<1>3. D \in F
  BY <1>1, <1>2, SubsetClosure
<1>4. Restrict(f, D) = f /\ Restrict(g, D) = g /\ Restrict(h, D) = h
  BY SumWhole
<1> QED
  BY <1>3, <1>4 DEF F

\* The elements of A, and the others.
LEMMA SumParts ==
    ASSUME NEW D, IsFiniteSet(D), NEW f \in [D -> Int], NEW A \in SUBSET D
    PROVE  SumFunction(f) = SumFunction(Restrict(f, A)) + SumFunction(Restrict(f, D \ A))
<1> DEFINE F == {s \in SUBSET A : SumFunction(Restrict(f, s \cup (D \ A)))
                                   = SumFunction(Restrict(f, s)) + SumFunction(Restrict(f, D \ A))}
<1>0. /\ IsFiniteSet(A) /\ IsFiniteSet(D \ A)
      /\ Restrict(f, D \ A) \in [D \ A -> Int]
  BY FS_Subset DEF Restrict
<1>1. {} \in F
  <2>1. SumFunction(Restrict(f, D \ A)) \in Int
    BY <1>0, SumWhole
  <2>2. SumFunction(Restrict(f, {})) = 0
    BY SumWhole
  <2>3. {} \cup (D \ A) = D \ A
    OBVIOUS
  <2> QED
    BY <2>1, <2>2, <2>3
<1>2. ASSUME NEW s \in SUBSET A, NEW x \in A \ s, s \in F PROVE s \cup {x} \in F
  <2> DEFINE t == s \cup (D \ A)
  <2>0. t \in SUBSET D /\ x \in D \ t /\ s \in SUBSET D /\ x \in D \ s
        /\ (s \cup {x}) \cup (D \ A) = t \cup {x} /\ f[x] \in Int
    OBVIOUS
  <2>1. SumFunction(Restrict(f, s)) = SumFunction(Restrict(f, s))
        /\ SumFunction(Restrict(f, t)) = SumFunction(Restrict(f, s)) + SumFunction(Restrict(f, D \ A))
    BY <1>2
  <2> HIDE DEF t
  <2>2. /\ SumFunction(Restrict(f, t)) \in Int
        /\ SumFunction(Restrict(f, t \cup {x})) = f[x] + SumFunction(Restrict(f, t))
    BY <2>0, SumInsert
  <2>3. /\ SumFunction(Restrict(f, s)) \in Int
        /\ SumFunction(Restrict(f, s \cup {x})) = f[x] + SumFunction(Restrict(f, s))
    BY <2>0, SumInsert
  <2>4. SumFunction(Restrict(f, D \ A)) \in Int
    BY <1>0, SumWhole
  <2>5. SumFunction(Restrict(f, t \cup {x}))
          = SumFunction(Restrict(f, s \cup {x})) + SumFunction(Restrict(f, D \ A))
    BY <2>0, <2>1, <2>2, <2>3, <2>4
  <2> QED
    BY <2>0, <2>5
<1> HIDE DEF F
<1>3. A \in F
  BY <1>0, <1>1, <1>2, SubsetClosure
<1>4. A \cup (D \ A) = D /\ Restrict(f, D) = f
  BY SumWhole
<1> QED
  BY <1>3, <1>4 DEF F

\* Some of the values of a function into the naturals add up to no more than all.
LEMMA SumSome ==
    ASSUME NEW D, IsFiniteSet(D), NEW f \in [D -> Nat], NEW A \in SUBSET D
    PROVE  SumFunction(Restrict(f, A)) <= SumFunction(f)
<1>1. f \in [D -> Int] /\ IsFiniteSet(A) /\ IsFiniteSet(D \ A)
  BY FS_Subset
<1>2. Restrict(f, A) \in [A -> Nat] /\ Restrict(f, D \ A) \in [D \ A -> Nat]
  BY DEF Restrict
<1>3. SumFunction(Restrict(f, A)) \in Nat
  BY <1>1, <1>2, SumNat
<1>4. SumFunction(Restrict(f, D \ A)) \in Nat
  BY <1>1, <1>2, SumNat
<1>5. SumFunction(f) = SumFunction(Restrict(f, A)) + SumFunction(Restrict(f, D \ A))
  BY <1>1, SumParts
<1> QED
  BY <1>3, <1>4, <1>5

\* What is 0 outside A need not be added.
LEMMA SumWithin ==
    ASSUME NEW D, IsFiniteSet(D), NEW f \in [D -> Int], NEW A \in SUBSET D,
           \A x \in D \ A : f[x] = 0
    PROVE  SumFunction(f) = SumFunction(Restrict(f, A))
<1>1. IsFiniteSet(A) /\ IsFiniteSet(D \ A)
  BY FS_Subset
<1>2. /\ Restrict(f, A) \in [A -> Int] /\ Restrict(f, D \ A) \in [D \ A -> Int]
      /\ \A x \in D \ A : Restrict(f, D \ A)[x] = 0
  BY DEF Restrict
<1>3. SumFunction(Restrict(f, A)) \in Int
  BY <1>1, <1>2, SumWhole
<1>4. SumFunction(Restrict(f, D \ A)) = 0
  BY <1>1, <1>2, SumZero
<1> QED
  BY <1>3, <1>4, SumParts

\* The sum of a difference.
LEMMA SumMinus ==
    ASSUME NEW D, IsFiniteSet(D), NEW f \in [D -> Int], NEW g \in [D -> Int], NEW h \in [D -> Int],
           \A x \in D : h[x] = f[x] - g[x]
    PROVE  SumFunction(h) = SumFunction(f) - SumFunction(g)
<1>1. \A x \in D : f[x] = h[x] + g[x]
  <2>1. \A x \in D : f[x] \in Int /\ g[x] \in Int
    OBVIOUS
  <2> QED
    BY <2>1
<1>2. SumFunction(f) = SumFunction(h) + SumFunction(g)
  BY <1>1, SumPlus
<1>3. \A k \in [D -> Int] : SumFunction(k) \in Int
  BY SumWhole
<1> QED
  BY <1>2, <1>3

\* A table adds up to the same by rows and by columns.
LEMMA SumSwap ==
    ASSUME NEW A, NEW B, IsFiniteSet(A), IsFiniteSet(B), NEW m \in [A -> [B -> Int]]
    PROVE  SumFunction([a \in A |-> SumFunction(m[a])])
             = SumFunction([b \in B |-> SumFunction([a \in A |-> m[a][b]])])
<1> DEFINE row == [a \in A |-> SumFunction(m[a])]
           Col(b) == [a \in A |-> m[a][b]]
           Cols(s) == [b \in B |-> SumFunction(Restrict(Col(b), s))]
           F == {s \in SUBSET A : SumFunction(Restrict(row, s)) = SumFunction(Cols(s))}
<1>1. row \in [A -> Int]
  <2>1. \A a \in A : SumFunction(m[a]) \in Int
    BY SumWhole
  <2> QED
    BY <2>1
<1>2. \A b \in B : Col(b) \in [A -> Int]
  OBVIOUS
<1>3. \A s \in SUBSET A : Cols(s) \in [B -> Int]
  <2> SUFFICES ASSUME NEW s \in SUBSET A, NEW b \in B
               PROVE  SumFunction(Restrict(Col(b), s)) \in Int
    OBVIOUS
  <2>1. IsFiniteSet(s) /\ Restrict(Col(b), s) \in [s -> Int]
    BY FS_Subset DEF Restrict
  <2> QED
    BY <2>1, SumWhole
<1>4. {} \in F
  <2>1. \A b \in B : Cols({})[b] = 0
    <3> SUFFICES ASSUME NEW b \in B PROVE SumFunction(Restrict(Col(b), {})) = 0
      OBVIOUS
    <3> QED
      BY <1>2, SumWhole
  <2>2. Cols({}) \in [B -> Int]
    BY <1>3
  <2>3. SumFunction(Cols({})) = 0
    <3> HIDE DEF Cols
    <3> QED
      BY <2>1, <2>2, SumZero
  <2>4. SumFunction(Restrict(row, {})) = 0
    <3> HIDE DEF row
    <3> QED
      BY <1>1, SumWhole
  <2> HIDE DEF row, Cols
  <2> QED
    BY <2>3, <2>4
<1>5. ASSUME NEW s \in SUBSET A, NEW x \in A \ s, s \in F PROVE s \cup {x} \in F
  <2>1. /\ SumFunction(Restrict(row, s)) \in Int
        /\ SumFunction(Restrict(row, s \cup {x})) = row[x] + SumFunction(Restrict(row, s))
    <3>1. \A k \in [A -> Int] : \A r \in SUBSET A : \A y \in A \ r :
             /\ SumFunction(Restrict(k, r)) \in Int
             /\ SumFunction(Restrict(k, r \cup {y})) = k[y] + SumFunction(Restrict(k, r))
      BY SumInsertAny
    <3> HIDE DEF row, F
    <3> QED
      BY <1>1, <3>1, Zenon
  <2>2. \A b \in B : Cols(s \cup {x})[b] = m[x][b] + Cols(s)[b]
    <3> SUFFICES ASSUME NEW b \in B
                 PROVE  SumFunction(Restrict(Col(b), s \cup {x}))
                          = m[x][b] + SumFunction(Restrict(Col(b), s))
      OBVIOUS
    <3>1. Col(b) \in [A -> Int] /\ Col(b)[x] = m[x][b]
      BY <1>2
    <3> HIDE DEF Col, F
    <3>2. SumFunction(Restrict(Col(b), s \cup {x})) = Col(b)[x] + SumFunction(Restrict(Col(b), s))
      BY <3>1, SumInsert
    <3> QED
      BY <3>1, <3>2
  <2>3. Cols(s \cup {x}) \in [B -> Int] /\ Cols(s) \in [B -> Int] /\ m[x] \in [B -> Int]
    BY <1>3
  <2>4. SumFunction(Cols(s \cup {x})) = SumFunction(m[x]) + SumFunction(Cols(s))
    <3>1. \A f, g, h \in [B -> Int] :
             (\A b \in B : h[b] = f[b] + g[b]) => SumFunction(h) = SumFunction(f) + SumFunction(g)
      BY SumPlus
    <3> HIDE DEF Cols, F
    <3> QED
      BY <2>2, <2>3, <3>1, Zenon
  <2>5. row[x] = SumFunction(m[x])
    OBVIOUS
  <2>6. s \cup {x} \in SUBSET A /\ SumFunction(Restrict(row, s)) = SumFunction(Cols(s))
    BY <1>5
  <2> HIDE DEF row, Cols
  <2> QED
    BY <2>1, <2>4, <2>5, <2>6
<1> HIDE DEF F
<1>6. A \in F
  BY <1>4, <1>5, SubsetClosure
<1>7. Restrict(row, A) = row
  BY DEF Restrict
<1>8. Cols(A) = [b \in B |-> SumFunction([a \in A |-> m[a][b]])]
  BY DEF Restrict
<1> QED
  BY <1>6, <1>7, <1>8 DEF F

\* The elements whose key is in R, key by key.
LEMMA SumByKey ==
    ASSUME NEW D, IsFiniteSet(D), NEW f \in [D -> Int], NEW key, NEW R, IsFiniteSet(R)
    PROVE  SumFunction([r \in R |-> SumFunction(Restrict(f, {x \in D : key[x] = r}))])
             = SumFunction(Restrict(f, {x \in D : key[x] \in R}))
<1> DEFINE With(r) == {x \in D : key[x] = r}
           In(s) == {x \in D : key[x] \in s}
           g == [r \in R |-> SumFunction(Restrict(f, With(r)))]
           F == {s \in SUBSET R : SumFunction(Restrict(g, s)) = SumFunction(Restrict(f, In(s)))}
<1>0. \A t \in SUBSET D : IsFiniteSet(t) /\ Restrict(f, t) \in [t -> Int]
                           /\ SumFunction(Restrict(f, t)) \in Int
  <2> SUFFICES ASSUME NEW t \in SUBSET D
               PROVE  IsFiniteSet(t) /\ Restrict(f, t) \in [t -> Int]
                       /\ SumFunction(Restrict(f, t)) \in Int
    OBVIOUS
  <2>1. IsFiniteSet(t) /\ Restrict(f, t) \in [t -> Int]
    BY FS_Subset DEF Restrict
  <2> QED
    BY <2>1, SumWhole
<1>1. g \in [R -> Int]
  BY <1>0
<1>2. {} \in F
  <2>1. SumFunction(Restrict(g, {})) = 0
    <3> HIDE DEF g
    <3> QED
      BY <1>1, SumWhole
  <2>2. In({}) = {}
    OBVIOUS
  <2>3. SumFunction(Restrict(f, {})) = 0
    BY SumWhole
  <2> HIDE DEF g, In
  <2> QED
    BY <2>1, <2>2, <2>3
<1>3. ASSUME NEW s \in SUBSET R, NEW x \in R \ s, s \in F PROVE s \cup {x} \in F
  <2>1. /\ SumFunction(Restrict(g, s)) \in Int
        /\ SumFunction(Restrict(g, s \cup {x})) = g[x] + SumFunction(Restrict(g, s))
    <3> HIDE DEF g, F
    <3> QED
      BY <1>1, SumInsert
  <2> DEFINE E == In(s \cup {x})
             k == Restrict(f, E)
  <2>2. /\ E \in SUBSET D /\ In(s) \in SUBSET E /\ E \ In(s) = With(x)
        /\ \A t \in SUBSET E : Restrict(k, t) = Restrict(f, t)
    BY DEF Restrict
  <2>3. SumFunction(k) = SumFunction(Restrict(k, In(s))) + SumFunction(Restrict(k, E \ In(s)))
    <3>1. IsFiniteSet(E) /\ k \in [E -> Int] /\ In(s) \in SUBSET E
      BY <1>0, <2>2
    <3> HIDE DEF E, k, F, In
    <3> QED
      BY <3>1, SumParts
  <2>4. Restrict(k, In(s)) = Restrict(f, In(s)) /\ Restrict(k, E \ In(s)) = Restrict(f, With(x))
    <3>1. In(s) \in SUBSET E /\ E \ In(s) \in SUBSET E
      BY <2>2
    <3> HIDE DEF E, k, F, In, With
    <3> QED
      BY <2>2, <3>1
  <2>5. SumFunction(Restrict(g, s)) = SumFunction(Restrict(f, In(s))) /\ s \cup {x} \in SUBSET R
    BY <1>3
  <2>6. g[x] = SumFunction(Restrict(f, With(x))) /\ g[x] \in Int
    BY <1>1
  <2> HIDE DEF g, In, With
  <2> QED
    BY <2>1, <2>3, <2>4, <2>5, <2>6
<1> HIDE DEF F
<1>4. R \in F
  BY <1>2, <1>3, SubsetClosure
<1>5. Restrict(g, R) = g
  BY DEF Restrict
<1> QED
  BY <1>4, <1>5 DEF F

-----------------------------------------------------------------------------
(***************************************************************************)
(* Products, by the same recursion.                                        *)
(***************************************************************************)
\* The product of the numbers of params with a name in D.
Multiplies(h, params, D) ==
    h = [s \in SUBSET D |-> IF s = {} THEN 1 ELSE h[s \ {AMember(s)}] * params[AMember(s)]]

Product(params, D) == (CHOOSE h : Multiplies(h, params, D))[D]

LEMMA NoFactor ==
    ASSUME NEW params
    PROVE  Product(params, {}) = 1
<1> DEFINE h == [s \in SUBSET {} |-> 1]
           k == CHOOSE h2 : Multiplies(h2, params, {})
<1>1. Multiplies(h, params, {})
  BY DEF Multiplies
<1>2. Multiplies(k, params, {})
  BY <1>1
<1> HIDE DEF k
<1>3. k[{}] = 1
  BY <1>2 DEF Multiplies
<1> QED
  BY <1>3 DEF Product, k

LEMMA OneFactor ==
    ASSUME NEW params, NEW x, params[x] \in Int
    PROVE  Product(params, {x}) = params[x]
<1> DEFINE h == [s \in SUBSET {x} |-> IF s = {} THEN 1 ELSE params[x]]
           k == CHOOSE h2 : Multiplies(h2, params, {x})
<1>1. \A s \in SUBSET {x} : s = {} \/ s = {x}
  OBVIOUS
<1>2. AMember({x}) = x /\ {x} \ {x} = {}
  BY DEF AMember
<1>3. h[{}] = 1 /\ h[{x}] = params[x]
  OBVIOUS
<1>4. Multiplies(h, params, {x})
  <2>0. h = [s \in SUBSET {x} |-> h[s]]
    OBVIOUS
  <2> HIDE DEF h
  <2>1. ASSUME NEW s \in SUBSET {x}
        PROVE  h[s] = IF s = {} THEN 1 ELSE h[s \ {AMember(s)}] * params[AMember(s)]
    <3>1. CASE s = {}
      BY <1>3, <3>1
    <3>2. CASE s = {x}
      <4>1. s \ {AMember(s)} = {} /\ AMember(s) = x
        BY <1>2, <3>2
      <4>2. h[s] = params[x] /\ h[s \ {AMember(s)}] * params[AMember(s)] = 1 * params[x]
        BY <1>3, <3>2, <4>1
      <4> QED
        BY <3>2, <4>2
    <3> QED
      BY <1>1, <3>1, <3>2
  <2> QED
    BY <2>0, <2>1 DEF Multiplies
<1>5. Multiplies(k, params, {x})
  BY <1>4
<1> HIDE DEF h, k
<1>6. k[{}] = 1 /\ k[{x}] = k[{}] * params[x]
  BY <1>2, <1>5 DEF Multiplies
<1> QED
  BY <1>6 DEF Product, k

LEMMA TwoFactors ==
    ASSUME NEW params, NEW x, NEW y, x # y, params[x] \in Int, params[y] \in Int
    PROVE  Product(params, {x, y}) = params[x] * params[y]
<1> DEFINE D == {x, y}
           h == [s \in SUBSET D |-> (IF x \in s THEN params[x] ELSE 1) * (IF y \in s THEN params[y] ELSE 1)]
           k == CHOOSE h2 : Multiplies(h2, params, D)
<1>1. \A s \in SUBSET D : s \in {{}, {x}, {y}, D}
  OBVIOUS
<1>2. AMember({x}) = x /\ AMember({y}) = y /\ AMember(D) \in {x, y}
  BY DEF AMember
<1>3. h[{}] = 1 /\ h[{x}] = params[x] /\ h[{y}] = params[y] /\ h[D] = params[x] * params[y]
  OBVIOUS
<1> HIDE DEF h
<1>4. \A s \in SUBSET D : h[s] = IF s = {} THEN 1 ELSE h[s \ {AMember(s)}] * params[AMember(s)]
  <2> SUFFICES ASSUME NEW s \in SUBSET D
               PROVE  h[s] = IF s = {} THEN 1 ELSE h[s \ {AMember(s)}] * params[AMember(s)]
    OBVIOUS
  <2>0. CASE s = {}
    BY <1>3, <2>0
  <2>1. CASE s = {x}
    <3>1. s \ {AMember(s)} = {} /\ AMember(s) = x
      BY <1>2, <2>1
    <3>2. h[s] = params[x] /\ h[s \ {AMember(s)}] * params[AMember(s)] = 1 * params[x]
      BY <1>3, <2>1, <3>1
    <3> QED
      BY <2>1, <3>2
  <2>2. CASE s = {y}
    <3>1. s \ {AMember(s)} = {} /\ AMember(s) = y
      BY <1>2, <2>2
    <3>2. h[s] = params[y] /\ h[s \ {AMember(s)}] * params[AMember(s)] = 1 * params[y]
      BY <1>3, <2>2, <3>1
    <3> QED
      BY <2>2, <3>2
  <2>3. CASE s = D /\ AMember(D) = x
    <3>1. D \ {x} = {y} /\ params[x] * params[y] = params[y] * params[x]
      OBVIOUS
    <3> QED
      BY <1>3, <2>3, <3>1
  <2>4. CASE s = D /\ AMember(D) = y
    <3>1. D \ {y} = {x}
      OBVIOUS
    <3> QED
      BY <1>3, <2>4, <3>1
  <2> QED
    BY <1>1, <1>2, <2>0, <2>1, <2>2, <2>3, <2>4
<1>5. Multiplies(h, params, D)
  <2>1. h = [s \in SUBSET D |-> h[s]]
    BY DEF h
  <2> QED
    BY <1>4, <2>1 DEF Multiplies
<1>6. Multiplies(k, params, D)
  BY <1>5
<1> HIDE DEF k
<1>7. k[{}] = 1
  BY <1>6 DEF Multiplies
<1>8. k[{x}] = params[x] /\ k[{y}] = params[y]
  <2>1. {x} \ {x} = {} /\ {y} \ {y} = {} /\ {x} # {} /\ {y} # {} /\ {x} \in SUBSET D /\ {y} \in SUBSET D
    OBVIOUS
  <2>2. k[{x}] = k[{}] * params[x] /\ k[{y}] = k[{}] * params[y]
    BY <1>2, <1>6, <2>1 DEF Multiplies
  <2> QED
    BY <1>7, <2>2
<1>9. k[D] = params[x] * params[y]
  <2>1. k[D] = k[D \ {AMember(D)}] * params[AMember(D)]
    BY <1>6 DEF Multiplies
  <2>2. CASE AMember(D) = x
    <3>1. D \ {x} = {y} /\ params[x] * params[y] = params[y] * params[x]
      OBVIOUS
    <3> QED
      BY <1>8, <2>1, <2>2, <3>1
  <2>3. CASE AMember(D) = y
    <3>1. D \ {y} = {x}
      OBVIOUS
    <3> QED
      BY <1>8, <2>1, <2>3, <3>1
  <2> QED
    BY <1>2, <2>2, <2>3
<1> QED
  BY <1>9 DEF Product, k

-----------------------------------------------------------------------------
(***************************************************************************)
(* Sequences of one or two.                                                *)
(***************************************************************************)
\* One more, or none.
Follows(rest, d) == rest \in {<<>>, <<d>>}

LEMMA OneOrTwo ==
    ASSUME NEW c, NEW d, NEW rest, Follows(rest, d)
    PROVE  /\ <<c>> \o rest # <<>> /\ (<<c>> \o rest)[1] = c /\ DOMAIN (<<c>> \o rest) = 1..Len(<<c>> \o rest)
           /\ rest = <<>> => Len(<<c>> \o rest) = 1
           /\ rest = <<d>> => Len(<<c>> \o rest) = 2 /\ (<<c>> \o rest)[2] = d
<1>0. rest = <<>> \/ rest = <<d>>
  BY DEF Follows
<1>1. <<c>> \in Seq({c, d}) /\ rest \in Seq({c, d}) /\ Len(<<c>>) = 1 /\ <<c>>[1] = c
  <2>1. <<c>> \in Seq({c, d}) /\ <<d>> \in Seq({c, d}) /\ <<>> \in Seq({c, d})
    OBVIOUS
  <2> QED
    BY <1>0, <2>1
<1>2. rest = <<>> => Len(rest) = 0
  OBVIOUS
<1>3. rest = <<d>> => Len(rest) = 1 /\ rest[1] = d
  OBVIOUS
<1>4. <<c>> \o rest \in Seq({c, d}) /\ Len(<<c>> \o rest) = 1 + Len(rest)
  BY <1>1
<1>5. (<<c>> \o rest)[1] = c
  BY <1>0, <1>1, <1>2, <1>3
<1>6. rest = <<d>> => (<<c>> \o rest)[2] = d
  BY <1>1, <1>3
<1>7. <<c>> \o rest # <<>>
  BY <1>0, <1>2, <1>3, <1>4
<1>8. DOMAIN (<<c>> \o rest) = 1..Len(<<c>> \o rest)
  BY <1>4
<1>9. rest = <<>> => Len(<<c>> \o rest) = 1
  BY <1>2, <1>4
<1>10. rest = <<d>> => Len(<<c>> \o rest) = 2
  BY <1>3, <1>4
<1> QED
  BY <1>5, <1>6, <1>7, <1>8, <1>9, <1>10

LEMMA NothingAfter ==
    ASSUME NEW c, NEW d, NEW rest, Follows(rest, d)
    PROVE  (<<c>> \o rest) \o <<>> = <<c>> \o rest
<1>1. <<c>> \in Seq({c, d}) /\ <<>> \in Seq({c, d}) /\ <<d>> \in Seq({c, d})
  OBVIOUS
<1>2. rest \in Seq({c, d})
  BY <1>1 DEF Follows
<1>3. <<c>> \o rest \in Seq({c, d})
  BY <1>1, <1>2
<1>4. \A s \in Seq({c, d}) : s \o <<>> = s
  OBVIOUS
<1> QED
  BY <1>3, <1>4
=============================================================================
