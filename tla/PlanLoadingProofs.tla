------------------------- MODULE PlanLoadingProofs -------------------------
(***************************************************************************)
(* What PlanLoading keeps to, for all plans and usage files: what is       *)
(* loaded, that bad usage stops the run before anything is priced, and     *)
(* what usage comes to.                                                    *)
(***************************************************************************)
EXTENDS PlanLoading, DataLemmas

-----------------------------------------------------------------------------
(* The elements of a sequence at some of its places. *)

\* How many members of I are not above i.
Rank(I, i) == Cardinality({j \in I : j <= i})

LEMMA RankType ==
    ASSUME NEW n \in Nat, NEW I \in SUBSET (1..n)
    PROVE  /\ IsFiniteSet(I) /\ Cardinality(I) \in Nat
           /\ \A i \in I : Rank(I, i) \in 1..Cardinality(I)
<1>1. IsFiniteSet(1..n)
  BY FS_Interval
<1>2. IsFiniteSet(I) /\ Cardinality(I) \in Nat
  BY <1>1, FS_Subset, FS_CardinalityType
<1>3. ASSUME NEW i \in I
      PROVE  Rank(I, i) \in 1..Cardinality(I)
  <2> DEFINE L == {j \in I : j <= i}
  <2>1. IsFiniteSet(L) /\ Cardinality(L) \in Nat /\ Cardinality(L) <= Cardinality(I)
    BY <1>2, FS_Subset, FS_CardinalityType
  <2>2. L # {}
    OBVIOUS
  <2>3. Cardinality(L) # 0
    BY <2>1, <2>2, FS_EmptySet
  <2> QED
    BY <1>2, <2>1, <2>3 DEF Rank
<1> QED
  BY <1>2, <1>3

\* A greater member has a greater rank.
LEMMA RankGrows ==
    ASSUME NEW n \in Nat, NEW I \in SUBSET (1..n), NEW i \in I, NEW j \in I, i < j
    PROVE  Rank(I, i) < Rank(I, j)
<1> DEFINE A == {x \in I : x <= i}
           B == {x \in I : x <= j}
<1>1. IsFiniteSet(I)
  BY RankType, Zenon
<1>2. A \in SUBSET B /\ B \in SUBSET I /\ j \in B /\ j \notin A
  <2>1. \A x \in I : x \in Int
    OBVIOUS
  <2>2. \A x \in I : x <= i => x <= j
    BY <2>1
  <2>3. ~(j <= i) /\ j <= j
    BY <2>1
  <2> QED
    BY <2>2, <2>3
<1> HIDE DEF A, B
<1>3. IsFiniteSet(B)
  BY <1>1, <1>2, FS_Subset
<1>4. /\ Cardinality(A) <= Cardinality(B) /\ Cardinality(A) # Cardinality(B)
      /\ IsFiniteSet(A)
  BY <1>2, <1>3, FS_Subset
<1>5. Cardinality(A) \in Nat /\ Cardinality(B) \in Nat
  BY <1>3, <1>4, FS_CardinalityType
<1> QED
  BY <1>4, <1>5 DEF Rank, A, B

\* Every rank is taken.
LEMMA RankTaken ==
    \A n \in Nat : \A I \in SUBSET (1..n) : \A k \in 1..Cardinality(I) : \E i \in I : Rank(I, i) = k
<1> DEFINE N == {n \in Nat : \A I \in SUBSET (1..n) : \A k \in 1..Cardinality(I) : \E i \in I : Rank(I, i) = k}
<1>1. 0 \in N
  <2>1. ASSUME NEW I \in SUBSET (1..0)
        PROVE  I = {} /\ Cardinality(I) = 0
    <3>1. I = {}
      OBVIOUS
    <3> QED
      BY <3>1, FS_EmptySet
  <2>2. \A I \in SUBSET (1..0) : \A k \in 1..Cardinality(I) : FALSE
    BY <2>1
  <2> QED
    BY <2>2
<1>2. ASSUME NEW n \in N
      PROVE  n + 1 \in N
  <2> SUFFICES ASSUME NEW I \in SUBSET (1..n + 1), NEW k \in 1..Cardinality(I)
               PROVE  \E i \in I : Rank(I, i) = k
    OBVIOUS
  <2> DEFINE J == I \ {n + 1}
  <2>1. J \in SUBSET (1..n)
    OBVIOUS
  <2>2. n \in Nat /\ n + 1 \in Nat
    OBVIOUS
  <2>3. IsFiniteSet(I) /\ Cardinality(I) \in Nat /\ IsFiniteSet(J) /\ Cardinality(J) \in Nat
    BY <2>1, <2>2, RankType
  <2>4. ASSUME NEW i \in J
        PROVE  Rank(I, i) = Rank(J, i)
    <3>1. {j \in I : j <= i} = {j \in J : j <= i}
      BY <2>1, <2>2
    <3> QED
      BY <3>1 DEF Rank
  <2>5. CASE k \in 1..Cardinality(J)
    <3>1. PICK i \in J : Rank(J, i) = k
      BY <2>1, <2>5
    <3> QED
      BY <3>1, <2>4
  <2>6. CASE k \notin 1..Cardinality(J)
    <3>1. n + 1 \in I
      <4> SUFFICES ASSUME n + 1 \notin I
                   PROVE  FALSE
        OBVIOUS
      <4>1. J = I
        OBVIOUS
      <4> QED
        BY <4>1, <2>6
    <3>2. Cardinality(J) = Cardinality(I) - 1
      BY <3>1, <2>3, FS_RemoveElement
    <3>3. k = Cardinality(I)
      <4>1. \A q \in Nat : \A p \in 1..q : p \notin 1..q - 1 => p = q
        OBVIOUS
      <4> QED
        BY <3>2, <2>3, <2>6, <4>1, Zenon
    <3>4. {j \in I : j <= n + 1} = I
      <4> HIDE DEF N, J
      <4>1. \A j \in 1..n + 1 : j <= n + 1
        BY <2>2
      <4>2. \A j \in I : j \in 1..n + 1
        OBVIOUS
      <4> QED
        BY <4>1, <4>2
    <3> QED
      BY <3>1, <3>3, <3>4 DEF Rank
  <2> QED
    BY <2>5, <2>6
<1>3. N \in SUBSET Nat
  OBVIOUS
<1> HIDE DEF N
<1>4. \A n \in Nat : n \in N
  BY <1>1, <1>2, <1>3, NatClosure
<1> QED
  BY <1>4 DEF N

\* t consists of the elements of s at the places in I, each taken once: the k-th
\* is the one at at[k].
Takes(at, t, s, I) ==
    /\ Cardinality(I) \in Nat /\ at \in [1..Cardinality(I) -> I]
    /\ \A k \in 1..Cardinality(I) : t[k] = s[at[k]]
    /\ \A k, l \in 1..Cardinality(I) : at[k] = at[l] => k = l
    /\ I = {at[k] : k \in 1..Cardinality(I)}

LEMMA ThoseAre ==
    ASSUME NEW s, NEW n \in Nat, DOMAIN s = 1..n, NEW I \in SUBSET (1..n)
    PROVE  \E at : Takes(at, Those(s, I), s, I)
<1> DEFINE at == [k \in 1..Cardinality(I) |-> CHOOSE i \in I : Rank(I, i) = k]
<1>1. I \in SUBSET (1..n)
  OBVIOUS
<1>2. \A k \in 1..Cardinality(I) : \E i \in I : Rank(I, i) = k
  BY RankTaken
<1>3. \A k \in 1..Cardinality(I) : at[k] \in I /\ Rank(I, at[k]) = k
  BY <1>2
<1>4. at \in [1..Cardinality(I) -> I]
  BY <1>3
<1>5. \A k \in 1..Cardinality(I) : Those(s, I)[k] = s[at[k]]
  BY DEF Those, Rank
<1>6. \A k, l \in 1..Cardinality(I) : at[k] = at[l] => k = l
  BY <1>3
<1>7. ASSUME NEW i \in I
      PROVE  \E k \in 1..Cardinality(I) : i = at[k]
  <2>1. Rank(I, i) \in 1..Cardinality(I)
    BY <1>1, RankType
  <2> DEFINE j == at[Rank(I, i)]
  <2>2. j \in I /\ Rank(I, j) = Rank(I, i)
    <3> HIDE DEF at
    <3> QED
      BY <1>3, <2>1
  <2>3. Cardinality(I) \in Nat
    BY <1>1, RankType
  <2> HIDE DEF j, at
  <2>4. ~(i < j) /\ ~(j < i)
    <3>1. \A x, y \in I : x < y => Rank(I, x) < Rank(I, y)
      BY <1>1, RankGrows
    <3>2. ~(Rank(I, i) < Rank(I, i))
      BY <2>1, <2>3
    <3> QED
      BY <2>2, <3>1, <3>2
  <2>5. i = j
    BY <2>2, <2>4, <1>1
  <2> QED
    BY <2>1, <2>5 DEF j
<1>8. I = {at[k] : k \in 1..Cardinality(I)}
  <2> HIDE DEF at
  <2> QED
    BY <1>3, <1>7
<1>9. Cardinality(I) \in Nat
  BY <1>1, RankType
<1> HIDE DEF at
<1> QED
  BY <1>4, <1>5, <1>6, <1>8, <1>9 DEF Takes

\* A function on 1..n is a sequence.
LEMMA IsSequence ==
    ASSUME NEW f, NEW n \in Nat, DOMAIN f = 1..n, f = [k \in DOMAIN f |-> f[k]]
    PROVE  Len(f) = n
<1>1. f \in [1..n -> {f[k] : k \in 1..n}]
  OBVIOUS
<1>2. f \in Seq({f[k] : k \in 1..n})
  BY <1>1, SeqDef
<1> QED
  BY <1>2, LenProperties

-----------------------------------------------------------------------------
(* What a command loads. *)

Inventory == command = "diff" /\ ~legacyPlan
Wanted ==
    {i \in DOMAIN world :
        /\ world[i].mode = "managed" /\ Stays(world[i])
        /\ Inventory \/ world[i].actions # <<"no-op">>}
Loading == IF command = "diff" THEN LoadPlanInventoryJSON(PlanDocument) ELSE LoadPlanJSON(PlanDocument)

\* Which actions a breakdown counts.
LEMMA Contributing ==
    /\ \A a \in ChangeActions :
        ContributesToCost(a) <=> a \notin {<<"delete">>, <<"forget">>, <<"no-op">>}
    /\ \A a \in {<<"no-op">>, <<"read">>} : ~ContributesToCost(a)
<1>1. /\ ~ContributesToCost(<<"no-op">>) /\ ~ContributesToCost(<<"read">>)
      /\ ~ContributesToCost(<<"delete">>) /\ ~ContributesToCost(<<"forget">>)
  BY DEF ContributesToCost, ToSet
<1>2. /\ ContributesToCost(<<"create">>) /\ ContributesToCost(<<"update">>)
  BY DEF ContributesToCost, ToSet
<1>3. /\ ContributesToCost(<<"delete", "create">>) /\ ContributesToCost(<<"create", "delete">>)
      /\ ContributesToCost(<<"create", "forget">>)
  BY DEF ContributesToCost, ToSet
<1> QED
  BY <1>1, <1>2, <1>3 DEF ChangeActions

\* A breakdown and an old plan load what the changes say.
LEMMA FromChanges ==
    ASSUME world \in Worlds, ~Inventory
    PROVE  Wanted = {i \in DOMAIN world : ContributesToCost(world[i].actions)}
<1>1. \A i \in DOMAIN world :
        \/ world[i].mode = "data" /\ world[i].actions \in {<<"no-op">>, <<"read">>}
        \/ world[i].mode = "managed" /\ world[i].actions \in ChangeActions
  BY WorldAssumption
<1>2. \A i \in DOMAIN world : ContributesToCost(world[i].actions)
        <=> /\ world[i].mode = "managed" /\ Stays(world[i])
            /\ world[i].actions # <<"no-op">>
  BY <1>1, Contributing DEF Stays
<1> QED
  BY <1>2 DEF Wanted

LEMMA WorldIsSequence ==
    ASSUME world \in Worlds
    PROVE  Len(world) \in Nat /\ DOMAIN world = 1..Len(world)
  BY WorldAssumption, LenProperties

\* What is loaded comes from the wanted places of the world, each once.
Comes(at) ==
    /\ at \in [DOMAIN Loading -> Wanted]
    /\ \A k \in DOMAIN Loading : Loading[k] = Planned(PlanDocument, world[at[k]])
    /\ \A k, l \in DOMAIN Loading : at[k] = at[l] => k = l
    /\ Wanted = {at[k] : k \in DOMAIN Loading}

\* Filtering twice is filtering once.
LEMMA ThoseOfThose ==
    ASSUME NEW s, NEW n \in Nat, DOMAIN s = 1..n, NEW I \in SUBSET (1..n), NEW J \in SUBSET I,
           NEW K, K = {k \in DOMAIN Those(s, I) : \E j \in J : Those(s, I)[k] = s[j]},
           \A i \in I : \A j \in J : s[i] = s[j] => i \in J
    PROVE  Cardinality(K) = Cardinality(J) /\ \E at : Takes(at, Those(Those(s, I), K), s, J)
<1> DEFINE t == Those(s, I)
           c == Cardinality(I)
           d == Cardinality(K)
<1>1. DOMAIN t = 1..c
  BY DEF Those
<1>2. PICK f : Takes(f, t, s, I)
  BY ThoseAre
<1>3. K \in SUBSET (1..c)
  BY <1>1
<1>4. c \in Nat
  BY <1>2 DEF Takes
<1>5. PICK g : Takes(g, Those(t, K), t, K)
  <2> HIDE DEF t, c
  <2> QED
    BY <1>1, <1>3, <1>4, ThoseAre
<1>6. /\ f \in [1..c -> I]
      /\ \A k \in 1..c : t[k] = s[f[k]]
      /\ \A k, l \in 1..c : f[k] = f[l] => k = l
      /\ \A i \in I : \E k \in 1..c : f[k] = i
  BY <1>2, Zenon DEF Takes
<1>7. /\ d \in Nat /\ g \in [1..d -> K]
      /\ \A k \in 1..d : Those(t, K)[k] = t[g[k]]
      /\ \A k, l \in 1..d : g[k] = g[l] => k = l
      /\ \A i \in K : \E k \in 1..d : g[k] = i
  BY <1>5, Zenon DEF Takes
<1>8. \A k \in 1..c : k \in K <=> \E j \in J : t[k] = s[j]
  BY <1>1
<1> HIDE DEF t, c, d
<1> DEFINE at == [k \in 1..d |-> f[g[k]]]
<1>9. \A k \in K : k \in 1..c /\ f[k] \in J
  <2> SUFFICES ASSUME NEW k \in K
               PROVE  k \in 1..c /\ f[k] \in J
    OBVIOUS
  <2>1. k \in 1..c
    BY <1>3
  <2>2. PICK j \in J : t[k] = s[j]
    BY <1>8, <2>1
  <2>3. f[k] \in I /\ s[f[k]] = s[j]
    BY <1>6, <2>1, <2>2
  <2> QED
    BY <2>1, <2>3
<1>10. \A j \in J : \E k \in K : f[k] = j
  <2> SUFFICES ASSUME NEW j \in J
               PROVE  \E k \in K : f[k] = j
    OBVIOUS
  <2>1. PICK k \in 1..c : f[k] = j
    BY <1>6
  <2>2. t[k] = s[j]
    BY <1>6, <2>1
  <2> QED
    BY <1>8, <2>1, <2>2
<1>11. at \in [1..d -> J]
  BY <1>7, <1>9
<1>12. \A k \in 1..d : Those(t, K)[k] = s[at[k]]
  BY <1>6, <1>7, <1>9
<1>13. \A k, l \in 1..d : at[k] = at[l] => k = l
  BY <1>6, <1>7, <1>9
<1>14. \A j \in J : \E k \in 1..d : at[k] = j
  <2> SUFFICES ASSUME NEW j \in J
               PROVE  \E k \in 1..d : at[k] = j
    OBVIOUS
  <2>1. PICK i \in K : f[i] = j
    BY <1>10
  <2>2. PICK k \in 1..d : g[k] = i
    BY <1>7
  <2> QED
    BY <2>1, <2>2
<1> HIDE DEF at
<1>15. J = {at[k] : k \in 1..d}
  BY <1>11, <1>14
<1>16. d = Cardinality(J)
  <2>1. at \in Bijection(1..d, J)
    BY <1>11, <1>13, <1>14 DEF Bijection, Injection, Surjection, IsInjective
  <2>2. ExistsBijection(1..d, J)
    BY <2>1 DEF ExistsBijection
  <2> QED
    BY <1>7, <2>2, FS_CountingElements
<1>17. Takes(at, Those(t, K), s, J)
  BY <1>7, <1>11, <1>12, <1>13, <1>15, <1>16 DEF Takes
<1> QED
  BY <1>16, <1>17 DEF t, d

\* What is loaded are the wanted instances, whichever way the plan is read.
LEMMA Loads ==
    ASSUME world \in Worlds
    PROVE  /\ DOMAIN Loading = 1..Cardinality(Wanted) /\ Len(Loading) = Cardinality(Wanted)
           /\ \E at : Comes(at)
<1> DEFINE n == Len(world)
           S == {i \in DOMAIN world : Stays(world[i])}
<1>1. n \in Nat /\ DOMAIN world = 1..n
  BY WorldIsSequence
<1>2. Wanted \in SUBSET (1..n)
  BY <1>1 DEF Wanted
<1>3. SUFFICES \E t : /\ \E at : Takes(at, t, world, Wanted)
                      /\ DOMAIN t = 1..Cardinality(Wanted)
                      /\ Loading = [k \in DOMAIN t |-> Planned(PlanDocument, t[k])]
  <2>1. PICK t, at : /\ Takes(at, t, world, Wanted) /\ DOMAIN t = 1..Cardinality(Wanted)
                     /\ Loading = [k \in DOMAIN t |-> Planned(PlanDocument, t[k])]
    BY <1>3
  <2>2. DOMAIN Loading = 1..Cardinality(Wanted) /\ Loading = [k \in DOMAIN Loading |-> Loading[k]]
    BY <2>1
  <2>3. Cardinality(Wanted) \in Nat
    BY <2>1 DEF Takes
  <2>4. Len(Loading) = Cardinality(Wanted)
    BY <2>2, <2>3, IsSequence
  <2>5. \A k \in 1..Cardinality(Wanted) : at[k] \in DOMAIN world /\ t[k] = world[at[k]]
    BY <1>1, <1>2, <2>1 DEF Takes
  <2>6. \A k \in 1..Cardinality(Wanted) : Loading[k] = Planned(PlanDocument, world[at[k]])
    BY <2>1, <2>5
  <2>7. Comes(at)
    BY <2>1, <2>2, <2>6, Zenon DEF Comes, Takes
  <2> QED
    BY <2>2, <2>4, <2>7
<1>4. CASE ~Inventory
  <2> DEFINE t == Those(world, Wanted)
  <2>1. Wanted = {i \in DOMAIN world : ContributesToCost(world[i].actions)}
    BY <1>4, FromChanges
  <2>2. Loading = LoadPlanJSON(PlanDocument)
    BY <1>4 DEF Loading, Inventory, LoadPlanInventoryJSON, PlanDocument
  <2>3. PlanDocument.changes = world
    BY DEF PlanDocument
  <2>4. LoadPlanJSON(PlanDocument) = [k \in DOMAIN t |-> Planned(PlanDocument, t[k])]
    BY <2>1, <2>3 DEF LoadPlanJSON
  <2>5. DOMAIN t = 1..Cardinality(Wanted)
    BY DEF Those
  <2>6. \E at : Takes(at, t, world, Wanted)
    BY <1>1, <1>2, ThoseAre
  <2> HIDE DEF t
  <2> QED
    BY <2>2, <2>4, <2>5, <2>6
<1>5. CASE Inventory
  <2> DEFINE all == Those(world, S)
             K == {i \in DOMAIN all : all[i].mode = "managed"}
             t == Those(all, K)
  <2>1. PlanDocument.inventory = {all}
    BY <1>5 DEF PlanDocument, Inventory
  <2>2. Loading = [k \in DOMAIN t |-> Planned(PlanDocument, t[k])]
    <3>1. (CHOOSE seq \in PlanDocument.inventory : TRUE) = all /\ PlanDocument.inventory # {}
      BY <2>1
    <3> QED
      BY <1>5, <3>1 DEF Loading, Inventory, LoadPlanInventoryJSON
  <2>3. S \in SUBSET (1..n)
    BY <1>1
  <2>4. Wanted \in SUBSET S /\ \A i \in S : i \in Wanted <=> world[i].mode = "managed"
    BY <1>5 DEF Wanted
  <2>5. \A i \in S : \A j \in Wanted : world[i] = world[j] => i \in Wanted
    BY <2>4
  <2>6. DOMAIN all = 1..Cardinality(S)
    BY DEF Those
  <2> HIDE DEF S, n
  <2>7. PICK f : Takes(f, all, world, S)
    BY <1>1, <2>3, ThoseAre
  <2> HIDE DEF all
  <2>8. K = {k \in DOMAIN all : \E j \in Wanted : all[k] = world[j]}
    <3>1. \A k \in DOMAIN all : f[k] \in S /\ all[k] = world[f[k]]
      BY <2>6, <2>7 DEF Takes
    <3> QED
      BY <2>4, <3>1
  <2> HIDE DEF K
  <2>9. Cardinality(K) = Cardinality(Wanted) /\ \E at : Takes(at, t, world, Wanted)
    <3>1. \A X : X = {k \in DOMAIN Those(world, S) : \E j \in Wanted : Those(world, S)[k] = world[j]}
            => /\ Cardinality(X) = Cardinality(Wanted)
               /\ \E at : Takes(at, Those(Those(world, S), X), world, Wanted)
      BY <1>1, <2>3, <2>4, <2>5, ThoseOfThose
    <3> QED
      BY <2>8, <3>1 DEF all
  <2>10. DOMAIN t = 1..Cardinality(Wanted)
    BY <2>9 DEF Those
  <2> HIDE DEF t
  <2> QED
    BY <2>2, <2>9, <2>10
<1> QED
  BY <1>4, <1>5

-----------------------------------------------------------------------------
(* What is made of a usage file. *)

\* The accepted usage of a file, field by field.
LEMMA UsageSays ==
    ASSUME NEW f \in Files, Accepted(f), NEW u, u = Usage(f)
    PROVE  /\ u.version = 0 => DOMAIN u.resources = {}
           /\ DOMAIN u.resources # {} =>
                /\ f.version = {1} /\ The(f.resources) \in f.resources
                /\ u.resources = [a \in DOMAIN The(f.resources) |->
                        [id \in DOMAIN The(f.resources)[a] |-> Item(The(f.resources)[a][id])]]
           /\ DOMAIN u.legacy # {} =>
                f.documents = 1 /\ f.version = {} /\ u.legacy = f.legacy
           /\ f.documents = 1 /\ f.version = {} => u.legacy = f.legacy
<1>1. Nothing = [x \in {} |-> x] /\ DOMAIN Nothing = {}
  BY DEF Nothing
<1> DEFINE rs == The(f.resources)
           used == [a \in DOMAIN rs |-> [id \in DOMAIN rs[a] |-> Item(rs[a][id])]]
           empty == [version |-> 0, legacy |-> Nothing, resources |-> Nothing]
           old == [version |-> 0, legacy |-> f.legacy, resources |-> Nothing]
           new == [version |-> 1, legacy |-> Nothing, resources |-> used]
<1>2. u = IF f.documents = 0 THEN empty ELSE IF f.version = {} THEN old ELSE new
  BY DEF Usage
<1> HIDE DEF rs, used
<1>3. CASE f.documents = 0
  <2>1. u.version = 0 /\ u.legacy = Nothing /\ u.resources = Nothing
    BY <1>2, <1>3
  <2> QED
    BY <1>1, <1>3, <2>1
<1>4. CASE f.documents # 0 /\ f.version = {}
  <2>1. u.version = 0 /\ u.legacy = f.legacy /\ u.resources = Nothing
    BY <1>2, <1>4
  <2>2. f.documents = 1
    BY <1>4 DEF Accepted
  <2> QED
    BY <1>1, <1>4, <2>1, <2>2
<1>5. CASE f.documents # 0 /\ f.version # {}
  <2>1. u.version = 1 /\ u.legacy = Nothing /\ u.resources = used
    BY <1>2, <1>5
  <2>2. \A v \in f.version : v = 1 /\ f.resources # {}
    BY <1>5 DEF Accepted
  <2>3. f.version = {1} /\ f.resources # {}
    BY <1>5, <2>2
  <2>4. The(f.resources) \in f.resources
    BY <2>3 DEF The
  <2> QED
    BY <1>1, <1>5, <2>1, <2>3, <2>4 DEF used, rs
<1> QED
  BY <1>3, <1>4, <1>5

\* What an accepted item costs is a number.
LEMMA ItemCosts ==
    ASSUME NEW id, NEW item, Readable(item), ValidItem(id, item)
    PROVE  MonthlyCost(Item(item)) \in Int
<1>1. PICK quantity \in item.quantity : TRUE
  BY DEF ValidItem
<1>2. The(item.quantity) \in Int
  BY <1>1 DEF The, Readable
<1>3. PICK rate \in item.rate : ValidRate(rate)
  BY DEF ValidItem
<1>4. The(item.rate) = rate
  BY <1>3 DEF The, Readable, AtMostOne
<1>5. PICK amount \in rate.amount : TRUE
  BY <1>3 DEF ValidRate
<1>6. The(rate.amount) \in Int
  BY <1>3, <1>5 DEF The, Readable
<1>7. PICK per \in rate.per : per > 0
  BY <1>3 DEF ValidRate
<1>8. The(rate.per) = per
  BY <1>3, <1>7 DEF The, Readable, AtMostOne
<1>9. per \in Int
  BY <1>3, <1>7 DEF Readable
<1>10. /\ Item(item).quantity = The(item.quantity)
       /\ Item(item).amount = The(rate.amount)
       /\ Item(item).per = per
  BY <1>4, <1>8 DEF Item
<1>11. \A q, a, p \in Int : p > 0 => (q * a) \div p \in Int
  OBVIOUS
<1> QED
  BY <1>2, <1>6, <1>7, <1>9, <1>10, <1>11 DEF MonthlyCost

\* The estimate of each currency is the sum of what is stated in it.
LEMMA EstimateIsStated ==
    ASSUME NEW items, IsFiniteSet(DOMAIN items),
           \A id \in DOMAIN items : MonthlyCost(items[id]) \in Int
    PROVE  Estimate(items) = [c \in {items[id].currency : id \in DOMAIN items} |->
             SumFunction([id \in DOMAIN items |-> IF items[id].currency = c THEN MonthlyCost(items[id]) ELSE 0])]
<1>1. ASSUME NEW c
      PROVE  SumFunction([id \in {i \in DOMAIN items : items[i].currency = c} |-> MonthlyCost(items[id])])
               = SumFunction([id \in DOMAIN items |->
                    IF items[id].currency = c THEN MonthlyCost(items[id]) ELSE 0])
  <2> DEFINE D == DOMAIN items
             A == {i \in D : items[i].currency = c}
             f == [id \in D |-> IF items[id].currency = c THEN MonthlyCost(items[id]) ELSE 0]
             g == [id \in A |-> MonthlyCost(items[id])]
  <2>1. f \in [D -> Int] /\ A \in SUBSET D /\ \A x \in D \ A : f[x] = 0
    OBVIOUS
  <2>2. Restrict(f, A) = g
    BY DEF Restrict
  <2> HIDE DEF D, A, f, g
  <2>3. IsFiniteSet(D)
    BY DEF D
  <2>4. SumFunction(f) = SumFunction(Restrict(f, A))
    BY <2>1, <2>3, SumWithin
  <2>5. SumFunction(g) = SumFunction(f)
    BY <2>2, <2>4
  <2> QED
    BY <2>5 DEF f, g, A, D
<1> QED
  BY <1>1 DEF Estimate

-----------------------------------------------------------------------------
(* Addresses: reading one takes its indices away.  The scanner and the       *)
(* stretches of a spelled address are functions of their length.            *)

\* The states of the scanner of s, and the stretches that spell an address.
ScanOf(s) ==
    CHOOSE scan : scan = [i \in 0..Len(s) |-> IF i = 0 THEN Scanned ELSE ScanStep(scan[i - 1], s[i])]
UpTo(names, keys) ==
    CHOOSE upTo : upTo = [n \in 0..Len(names) |->
                            IF n = 0 THEN <<>> ELSE upTo[n - 1] \o <<names[n]>> \o keys[n]]

\* The scanner takes one step for each character.
LEMMA ScanSays ==
    ASSUME NEW s, Len(s) \in Nat
    PROVE  /\ Normalize(s) = ScanOf(s)[Len(s)].out
           /\ ScanOf(s)[0] = Scanned
           /\ \A i \in 1..Len(s) : ScanOf(s)[i] = ScanStep(ScanOf(s)[i - 1], s[i])
<1> DEFINE Goes(h, n) == h = [i \in 0..n |-> IF i = 0 THEN Scanned ELSE ScanStep(h[i - 1], s[i])]
           N == {n \in Nat : \E f : Goes(f, n)}
<1>1. 0 \in N
  <2>1. Goes([i \in 0..0 |-> Scanned], 0)
    OBVIOUS
  <2> QED
    BY <2>1
<1>2. ASSUME NEW n \in N
      PROVE  n + 1 \in N
  <2>1. PICK f : Goes(f, n)
    OBVIOUS
  <2> DEFINE g == [i \in 0..n + 1 |-> IF i = n + 1 THEN ScanStep(f[n], s[n + 1]) ELSE f[i]]
  <2>2. n \in Nat /\ f[0] = Scanned /\ \A i \in 0..n : i # 0 => f[i] = ScanStep(f[i - 1], s[i])
    BY <2>1
  <2>3. \A i \in 0..n + 1 : g[i] = IF i = 0 THEN Scanned ELSE ScanStep(g[i - 1], s[i])
    <3>1. g[0] = Scanned
      BY <2>2
    <3>2. ASSUME NEW i \in 0..n, i # 0
          PROVE  g[i] = ScanStep(g[i - 1], s[i])
      <4>1. g[i] = f[i] /\ g[i - 1] = f[i - 1]
        BY <2>2, <3>2
      <4> HIDE DEF g
      <4> QED
        BY <2>2, <3>2, <4>1
    <3>3. g[n + 1] = ScanStep(g[n], s[n + 1])
      <4>1. g[n + 1] = ScanStep(f[n], s[n + 1]) /\ g[n] = f[n]
        BY <2>2
      <4> HIDE DEF g
      <4> QED
        BY <4>1
    <3>4. \A i \in 0..n + 1 : i \in 0..n \/ i = n + 1
      BY <2>2
    <3>5. (n + 1) - 1 = n /\ n + 1 # 0
      BY <2>2
    <3> HIDE DEF g
    <3> QED
      BY <3>1, <3>2, <3>3, <3>4, <3>5
  <2>4. g = [i \in 0..n + 1 |-> g[i]]
    OBVIOUS
  <2>5. Goes(g, n + 1)
    <3> HIDE DEF g
    <3> QED
      BY <2>3, <2>4
  <2> HIDE DEF g, Goes
  <2>6. \E h : Goes(h, n + 1)
    BY <2>5
  <2> QED
    BY <2>2, <2>6
<1>3. N \in SUBSET Nat
  OBVIOUS
<1>4. Len(s) \in N
  <2> HIDE DEF N
  <2> QED
    BY <1>1, <1>2, <1>3, NatClosure
<1>5. Goes(ScanOf(s), Len(s))
  BY <1>4 DEF ScanOf
<1>6. ScanOf(s)[0] = Scanned
  BY <1>5
<1>7. \A i \in 1..Len(s) : ScanOf(s)[i] = ScanStep(ScanOf(s)[i - 1], s[i])
  <2> SUFFICES ASSUME NEW i \in 1..Len(s)
               PROVE  ScanOf(s)[i] = ScanStep(ScanOf(s)[i - 1], s[i])
    OBVIOUS
  <2>1. i \in 0..Len(s) /\ i # 0
    OBVIOUS
  <2> QED
    BY <1>5, <2>1
<1>8. Normalize(s) = ScanOf(s)[Len(s)].out
  BY DEF Normalize, ScanOf
<1> QED
  BY <1>6, <1>7, <1>8

\* An address is spelled name by name.
LEMMA SpelledSays ==
    ASSUME NEW names, NEW keys, Len(names) \in Nat
    PROVE  /\ Spelled(names, keys) = UpTo(names, keys)[Len(names)]
           /\ UpTo(names, keys)[0] = <<>>
           /\ \A n \in 1..Len(names) :
                UpTo(names, keys)[n] = UpTo(names, keys)[n - 1] \o <<names[n]>> \o keys[n]
<1> DEFINE Next1(t, n) == t \o <<names[n]>> \o keys[n]
           Goes(h, n) == h = [i \in 0..n |-> IF i = 0 THEN <<>> ELSE Next1(h[i - 1], i)]
           N == {n \in Nat : \E f : Goes(f, n)}
<1>0. UpTo(names, keys) = CHOOSE f : Goes(f, Len(names))
  BY DEF UpTo
<1>1. Spelled(names, keys) = UpTo(names, keys)[Len(names)]
  BY DEF Spelled, UpTo
<1> HIDE DEF Next1
<1>2. 0 \in N
  <2>1. Goes([i \in 0..0 |-> <<>>], 0)
    OBVIOUS
  <2> QED
    BY <2>1
<1>3. ASSUME NEW n \in N
      PROVE  n + 1 \in N
  <2>1. PICK f : Goes(f, n)
    OBVIOUS
  <2> DEFINE g == [i \in 0..n + 1 |-> IF i = n + 1 THEN Next1(f[n], n + 1) ELSE f[i]]
  <2>2. n \in Nat /\ f[0] = <<>> /\ \A i \in 0..n : i # 0 => f[i] = Next1(f[i - 1], i)
    BY <2>1
  <2>3. \A i \in 0..n + 1 : g[i] = IF i = 0 THEN <<>> ELSE Next1(g[i - 1], i)
    <3>1. g[0] = <<>>
      BY <2>2
    <3>2. ASSUME NEW i \in 0..n, i # 0
          PROVE  g[i] = Next1(g[i - 1], i)
      <4>1. g[i] = f[i] /\ g[i - 1] = f[i - 1]
        BY <2>2, <3>2
      <4> HIDE DEF g
      <4> QED
        BY <2>2, <3>2, <4>1
    <3>3. g[n + 1] = Next1(g[n], n + 1)
      <4>1. g[n + 1] = Next1(f[n], n + 1) /\ g[n] = f[n]
        BY <2>2
      <4> HIDE DEF g
      <4> QED
        BY <4>1
    <3>4. \A i \in 0..n + 1 : i \in 0..n \/ i = n + 1
      BY <2>2
    <3>5. (n + 1) - 1 = n /\ n + 1 # 0
      BY <2>2
    <3> HIDE DEF g
    <3> QED
      BY <3>1, <3>2, <3>3, <3>4, <3>5
  <2>4. g = [i \in 0..n + 1 |-> g[i]]
    OBVIOUS
  <2>5. Goes(g, n + 1)
    <3> HIDE DEF g
    <3> QED
      BY <2>3, <2>4
  <2> HIDE DEF g, Goes
  <2>6. \E h : Goes(h, n + 1)
    BY <2>5
  <2> QED
    BY <2>2, <2>6
<1>4. N \in SUBSET Nat
  OBVIOUS
<1>5. Len(names) \in N
  <2> HIDE DEF N
  <2> QED
    BY <1>2, <1>3, <1>4, NatClosure
<1>6. Goes(UpTo(names, keys), Len(names))
  BY <1>0, <1>5
<1>7. UpTo(names, keys)[0] = <<>>
  BY <1>6
<1>8. \A n \in 1..Len(names) : UpTo(names, keys)[n] = Next1(UpTo(names, keys)[n - 1], n)
  <2> SUFFICES ASSUME NEW n \in 1..Len(names)
               PROVE  UpTo(names, keys)[n] = Next1(UpTo(names, keys)[n - 1], n)
    OBVIOUS
  <2>1. n \in 0..Len(names) /\ n # 0
    OBVIOUS
  <2> QED
    BY <1>6, <2>1
<1> QED
  BY <1>1, <1>7, <1>8 DEF Next1

\* An index is a sequence, bracketed.
LEMMA IndexType ==
    ASSUME NEW key, IsNumber(key) \/ IsQuoted(key)
    PROVE  Len(key) \in Nat /\ Len(key) > 2 /\ key[1] = "[" /\ key[Len(key)] = "]"
<1>1. key \in Seq(Range(key))
  BY DEF IsNumber, IsQuoted
<1>2. Len(key) \in Nat
  BY <1>1, LenProperties
<1>3. key[1] = "[" /\ key[Len(key)] = "]"
  BY DEF IsNumber, IsQuoted
<1>4. IsNumber(key) => Len(key) > 2
  BY DEF IsNumber
<1>5. IsQuoted(key) => Len(key) >= 4
  BY DEF IsQuoted
<1> QED
  BY <1>2, <1>3, <1>4, <1>5

LEMMA CharactersDiffer ==
    /\ DoubleQuote # "[" /\ DoubleQuote # "]" /\ DoubleQuote # Backslash
    /\ Backslash # "[" /\ Backslash # "]" /\ "[" # "]"
<1>1. DoubleQuote # "[" /\ DoubleQuote # "]" /\ DoubleQuote # Backslash
  BY Zenon DEF DoubleQuote, Backslash
<1>2. Backslash # "[" /\ Backslash # "]" /\ "[" # "]"
  BY Zenon DEF Backslash
<1> QED
  BY <1>1, <1>2

\* What the scanner knows: within an index, within its quotes, and after a
\* backslash there.
Scanner(o, index, quote, escaped) == [out |-> o, index |-> index, quote |-> quote, escaped |-> escaped]

LEMMA ScannerSteps ==
    ASSUME NEW o, NEW c
    PROVE  /\ c = "[" => ScanStep(Scanner(o, FALSE, FALSE, FALSE), c) = Scanner(o, TRUE, FALSE, FALSE)
           /\ c # "[" => ScanStep(Scanner(o, FALSE, FALSE, FALSE), c) = Scanner(Append(o, c), FALSE, FALSE, FALSE)
           /\ c = "]" => ScanStep(Scanner(o, TRUE, FALSE, FALSE), c) = Scanner(o, FALSE, FALSE, FALSE)
           /\ c = DoubleQuote => ScanStep(Scanner(o, TRUE, FALSE, FALSE), c) = Scanner(o, TRUE, TRUE, FALSE)
           /\ c = DoubleQuote => ScanStep(Scanner(o, TRUE, TRUE, FALSE), c) = Scanner(o, TRUE, FALSE, FALSE)
           /\ c = Backslash => ScanStep(Scanner(o, TRUE, TRUE, FALSE), c) = Scanner(o, TRUE, TRUE, TRUE)
           /\ ScanStep(Scanner(o, TRUE, TRUE, TRUE), c) = Scanner(o, TRUE, TRUE, FALSE)
           /\ c \notin {DoubleQuote, "]"} =>
                ScanStep(Scanner(o, TRUE, FALSE, FALSE), c) = Scanner(o, TRUE, FALSE, FALSE)
           /\ c \notin {DoubleQuote, Backslash} =>
                ScanStep(Scanner(o, TRUE, TRUE, FALSE), c) = Scanner(o, TRUE, TRUE, FALSE)
<1>1. c = "[" => ScanStep(Scanner(o, FALSE, FALSE, FALSE), c) = Scanner(o, TRUE, FALSE, FALSE)
  BY CharactersDiffer DEF ScanStep, Scanner
<1>2. c # "[" => ScanStep(Scanner(o, FALSE, FALSE, FALSE), c) = Scanner(Append(o, c), FALSE, FALSE, FALSE)
  BY CharactersDiffer DEF ScanStep, Scanner
<1>3. c = "]" => ScanStep(Scanner(o, TRUE, FALSE, FALSE), c) = Scanner(o, FALSE, FALSE, FALSE)
  BY CharactersDiffer DEF ScanStep, Scanner
<1>4. c = DoubleQuote => ScanStep(Scanner(o, TRUE, FALSE, FALSE), c) = Scanner(o, TRUE, TRUE, FALSE)
  BY CharactersDiffer DEF ScanStep, Scanner
<1>5. c = DoubleQuote => ScanStep(Scanner(o, TRUE, TRUE, FALSE), c) = Scanner(o, TRUE, FALSE, FALSE)
  BY CharactersDiffer DEF ScanStep, Scanner
<1>6. c = Backslash => ScanStep(Scanner(o, TRUE, TRUE, FALSE), c) = Scanner(o, TRUE, TRUE, TRUE)
  BY CharactersDiffer DEF ScanStep, Scanner
<1>7. ScanStep(Scanner(o, TRUE, TRUE, TRUE), c) = Scanner(o, TRUE, TRUE, FALSE)
  BY CharactersDiffer DEF ScanStep, Scanner
<1>8. c \notin {DoubleQuote, "]"} => ScanStep(Scanner(o, TRUE, FALSE, FALSE), c) = Scanner(o, TRUE, FALSE, FALSE)
  BY CharactersDiffer DEF ScanStep, Scanner
<1>9. c \notin {DoubleQuote, Backslash} => ScanStep(Scanner(o, TRUE, TRUE, FALSE), c) = Scanner(o, TRUE, TRUE, FALSE)
  BY CharactersDiffer DEF ScanStep, Scanner
<1> QED
  BY <1>1, <1>2, <1>3, <1>4, <1>5, <1>6, <1>7, <1>8, <1>9

\* The scanner when i of the n characters of an index are read: the key is in
\* quotes between the second and the last but one.
Within(o, n, i, quoted, escapes) ==
    IF i \in 1..n - 1
    THEN IF quoted /\ i \in 2..n - 2
         THEN IF i \in escapes THEN Scanner(o, TRUE, TRUE, TRUE) ELSE Scanner(o, TRUE, TRUE, FALSE)
         ELSE Scanner(o, TRUE, FALSE, FALSE)
    ELSE Scanner(o, FALSE, FALSE, FALSE)

LEMMA NumberSteps ==
    ASSUME NEW key, IsNumber(key), NEW o, NEW n, n = Len(key), NEW i \in 1..n
    PROVE  ScanStep(Within(o, n, i - 1, FALSE, {}), key[i]) = Within(o, n, i, FALSE, {})
<1> DEFINE At(k) == Within(o, n, k, FALSE, {})
<1>1. n \in Nat /\ n > 2 /\ key[1] = "[" /\ key[n] = "]"
  BY IndexType
<1>2. \A k \in 2..n - 1 : key[k] \notin {DoubleQuote, "]"}
  BY DEF IsNumber
<1>3. /\ At(0) = Scanner(o, FALSE, FALSE, FALSE) /\ At(n) = Scanner(o, FALSE, FALSE, FALSE)
      /\ \A k \in 1..n - 1 : At(k) = Scanner(o, TRUE, FALSE, FALSE)
  <2>1. 0 \notin 1..n - 1 /\ n \notin 1..n - 1
    BY <1>1
  <2> QED
    BY <2>1, Zenon DEF Within
<1> HIDE DEF At
<1>4. i \in 1..n
  OBVIOUS
<1>5. CASE i = 1
  <2>1. i - 1 = 0 /\ i \in 1..n - 1
    BY <1>1, <1>5
  <2> QED
    BY <1>1, <1>3, <1>5, <2>1, ScannerSteps DEF At
<1>6. CASE i \in 2..n - 1
  <2>1. i - 1 \in 1..n - 1 /\ i \in 1..n - 1
    BY <1>1, <1>6
  <2>2. At(i - 1) = Scanner(o, TRUE, FALSE, FALSE) /\ At(i) = Scanner(o, TRUE, FALSE, FALSE)
    BY <1>3, <2>1
  <2>3. ScanStep(At(i - 1), key[i]) = At(i)
    BY <1>2, <1>6, <2>2, ScannerSteps
  <2> QED
    BY <2>3 DEF At
<1>7. CASE i = n
  <2>1. i - 1 \in 1..n - 1
    BY <1>1, <1>7
  <2>2. At(i - 1) = Scanner(o, TRUE, FALSE, FALSE) /\ At(i) = Scanner(o, FALSE, FALSE, FALSE)
    BY <1>3, <1>7, <2>1
  <2>3. ScanStep(At(i - 1), key[i]) = At(i)
    BY <1>1, <1>7, <2>2, ScannerSteps
  <2> QED
    BY <2>3 DEF At
<1>8. i = 1 \/ i \in 2..n - 1 \/ i = n
  BY <1>1, <1>4
<1> QED
  BY <1>5, <1>6, <1>7, <1>8

\* Where the escapes of a key in quotes are.
Escapes(key, escapes) ==
    /\ escapes \in SUBSET (3..Len(key) - 3)
    /\ \A i \in escapes : key[i] = Backslash /\ i + 1 \notin escapes
    /\ \A i \in 3..Len(key) - 2 :
        key[i] \in {DoubleQuote, Backslash} => i \in escapes \/ i - 1 \in escapes

LEMMA QuotedSteps ==
    ASSUME NEW key, IsQuoted(key), NEW o, NEW e, Escapes(key, e)
    PROVE  \A i \in 1..Len(key) :
             ScanStep(Within(o, Len(key), i - 1, TRUE, e), key[i]) = Within(o, Len(key), i, TRUE, e)
<1> SUFFICES ASSUME NEW n, n = Len(key)
             PROVE  \A i \in 1..n : ScanStep(Within(o, n, i - 1, TRUE, e), key[i]) = Within(o, n, i, TRUE, e)
  OBVIOUS
<1> DEFINE At(k) == Within(o, n, k, TRUE, e)
<1>1. n \in Nat /\ n >= 4 /\ key[1] = "[" /\ key[n] = "]" /\ key[2] = DoubleQuote /\ key[n - 1] = DoubleQuote
  BY IndexType, Zenon DEF IsQuoted
<1>2. \A k \in e : k \in 3..n - 3 /\ key[k] = Backslash /\ k + 1 \notin e
  BY DEF Escapes
<1>3. \A k \in 3..n - 2 : key[k] \in {DoubleQuote, Backslash} => k \in e \/ k - 1 \in e
  BY DEF Escapes
<1>5. /\ At(0) = Scanner(o, FALSE, FALSE, FALSE) /\ At(n) = Scanner(o, FALSE, FALSE, FALSE)
      /\ At(1) = Scanner(o, TRUE, FALSE, FALSE) /\ At(n - 1) = Scanner(o, TRUE, FALSE, FALSE)
  <2>1. 0 \notin 1..n - 1 /\ n \notin 1..n - 1
    BY <1>1
  <2>2. 1 \in 1..n - 1 /\ 1 \notin 2..n - 2 /\ n - 1 \in 1..n - 1 /\ n - 1 \notin 2..n - 2
    BY <1>1
  <2> QED
    BY <2>1, <2>2, Zenon DEF Within
<1>6. \A k \in 2..n - 2 : At(k) = IF k \in e THEN Scanner(o, TRUE, TRUE, TRUE)
                                            ELSE Scanner(o, TRUE, TRUE, FALSE)
  <2>1. \A k \in 2..n - 2 : k \in 1..n - 1
    BY <1>1
  <2> QED
    BY <2>1 DEF Within
<1>7. 2 \notin e /\ n - 2 \notin e
  BY <1>1, <1>2
<1>8. SUFFICES ASSUME NEW i \in 1..n
               PROVE  ScanStep(At(i - 1), key[i]) = At(i)
  OBVIOUS
<1> HIDE DEF At
<1>9. CASE i = 1
  <2>1. i - 1 = 0
    BY <1>9
  <2> QED
    BY <1>1, <1>5, <1>9, <2>1, ScannerSteps
<1>10. CASE i = 2
  <2>1. i - 1 = 1 /\ i \in 2..n - 2
    BY <1>1, <1>10
  <2> QED
    BY <1>1, <1>5, <1>6, <1>7, <1>10, <2>1, ScannerSteps
<1>11. CASE i \in 3..n - 2
  <2>1. i - 1 \in 2..n - 2 /\ i \in 2..n - 2
    BY <1>1, <1>11
  <2>2. CASE i - 1 \in e
    <3>1. (i - 1) + 1 = i
      BY <1>11
    <3>2. i \notin e
      BY <1>2, <2>2, <3>1
    <3>3. At(i - 1) = Scanner(o, TRUE, TRUE, TRUE) /\ At(i) = Scanner(o, TRUE, TRUE, FALSE)
      BY <1>6, <2>1, <2>2, <3>2
    <3> QED
      BY <3>3, ScannerSteps
  <2>3. CASE i - 1 \notin e /\ i \in e
    <3>1. key[i] = Backslash
      BY <1>2, <2>3
    <3>2. At(i - 1) = Scanner(o, TRUE, TRUE, FALSE) /\ At(i) = Scanner(o, TRUE, TRUE, TRUE)
      BY <1>6, <2>1, <2>3
    <3> QED
      BY <3>1, <3>2, ScannerSteps
  <2>4. CASE i - 1 \notin e /\ i \notin e
    <3>1. key[i] \notin {DoubleQuote, Backslash}
      BY <1>3, <1>11, <2>4
    <3>2. At(i - 1) = Scanner(o, TRUE, TRUE, FALSE) /\ At(i) = Scanner(o, TRUE, TRUE, FALSE)
      BY <1>6, <2>1, <2>4
    <3> QED
      BY <3>1, <3>2, ScannerSteps
  <2> QED
    BY <2>2, <2>3, <2>4
<1>12. CASE i = n - 1
  <2>1. i - 1 = n - 2 /\ i - 1 \in 2..n - 2
    BY <1>1, <1>12
  <2>2. At(i - 1) = Scanner(o, TRUE, TRUE, FALSE) /\ At(i) = Scanner(o, TRUE, FALSE, FALSE)
    BY <1>5, <1>6, <1>7, <1>12, <2>1
  <2> QED
    BY <1>1, <1>12, <2>2, ScannerSteps
<1>13. CASE i = n
  BY <1>1, <1>5, <1>13, ScannerSteps
<1>14. i = 1 \/ i = 2 \/ i \in 3..n - 2 \/ i = n - 1 \/ i = n
  BY <1>1
<1> QED
  BY <1>9, <1>10, <1>11, <1>12, <1>13, <1>14

Outside(o) == Scanner(o, FALSE, FALSE, FALSE)

\* After a whole index the scanner is where it was before.
LEMMA IndexIsSkipped ==
    ASSUME NEW s, Len(s) \in Nat, NEW key, IsNumber(key) \/ IsQuoted(key), NEW o,
           NEW b \in Nat, b + Len(key) <= Len(s), \A i \in 1..Len(key) : s[b + i] = key[i],
           ScanOf(s)[b] = Outside(o)
    PROVE  ScanOf(s)[b + Len(key)] = Outside(o)
<1> SUFFICES ASSUME NEW n, n = Len(key)
             PROVE  ScanOf(s)[b + n] = Outside(o)
  OBVIOUS
<1>1. n \in Nat /\ n > 2
  BY IndexType
<1>2. PICK quoted, e :
        \A i \in 1..n : ScanStep(Within(o, n, i - 1, quoted, e), key[i]) = Within(o, n, i, quoted, e)
  <2>1. CASE IsNumber(key)
    <3>1. \A i \in 1..n : ScanStep(Within(o, n, i - 1, FALSE, {}), key[i]) = Within(o, n, i, FALSE, {})
      BY <2>1, NumberSteps
    <3> QED
      BY <3>1
  <2>2. CASE IsQuoted(key)
    <3>1. PICK e : Escapes(key, e)
      BY <2>2, Zenon DEF IsQuoted, Escapes
    <3>2. \A i \in 1..n : ScanStep(Within(o, n, i - 1, TRUE, e), key[i]) = Within(o, n, i, TRUE, e)
      BY <2>2, <3>1, QuotedSteps
    <3> QED
      BY <3>2
  <2> QED
    BY <2>1, <2>2
<1> DEFINE N == {i \in Nat : i <= n => ScanOf(s)[b + i] = Within(o, n, i, quoted, e)}
<1>3. 0 \notin 1..n - 1 /\ n \notin 1..n - 1
  BY <1>1
<1>4. Within(o, n, 0, quoted, e) = Outside(o) /\ Within(o, n, n, quoted, e) = Outside(o)
  BY <1>3 DEF Within, Outside
<1>5. 0 \in N
  BY <1>4
<1>6. ASSUME NEW i \in N
      PROVE  i + 1 \in N
  <2> SUFFICES ASSUME i + 1 <= n
               PROVE  ScanOf(s)[b + (i + 1)] = Within(o, n, i + 1, quoted, e)
    OBVIOUS
  <2>1. i \in Nat /\ i <= n /\ ScanOf(s)[b + i] = Within(o, n, i, quoted, e)
    BY <1>1
  <2> HIDE DEF N
  <2> DEFINE k == b + (i + 1)
  <2>2. i + 1 \in 1..n /\ k \in 1..Len(s) /\ k - 1 = b + i /\ (i + 1) - 1 = i
    BY <1>1, <2>1
  <2>3. s[k] = key[i + 1]
    BY <2>2
  <2> HIDE DEF k
  <2>4. ScanOf(s)[k] = ScanStep(ScanOf(s)[k - 1], s[k])
    BY <2>2, ScanSays
  <2>5. ScanStep(Within(o, n, i, quoted, e), key[i + 1]) = Within(o, n, i + 1, quoted, e)
    BY <1>2, <2>2
  <2>6. ScanOf(s)[k] = Within(o, n, i + 1, quoted, e)
    BY <2>1, <2>2, <2>3, <2>4, <2>5
  <2> QED
    BY <2>6 DEF k
<1>7. N \in SUBSET Nat
  OBVIOUS
<1>8. n \in N
  <2> HIDE DEF N
  <2> QED
    BY <1>1, <1>5, <1>6, <1>7, NatClosure
<1> QED
  BY <1>1, <1>4, <1>8

\* What is put together of two sequences and an element between them.
LEMMA AroundOne ==
    ASSUME NEW T, NEW s \in Seq(T), NEW x \in T, NEW t \in Seq(T)
    PROVE  /\ s \o <<x>> \o t \in Seq(T)
           /\ Len(s) \in Nat /\ Len(t) \in Nat /\ Len(s \o <<x>> \o t) = Len(s) + 1 + Len(t)
           /\ \A i \in 1..Len(s) : (s \o <<x>> \o t)[i] = s[i]
           /\ (s \o <<x>> \o t)[Len(s) + 1] = x
           /\ \A i \in 1..Len(t) : (s \o <<x>> \o t)[Len(s) + 1 + i] = t[i]
<1>0. PICK u : u = s \o <<x>> \o t
  OBVIOUS
<1>1. Len(s) \in Nat /\ Len(t) \in Nat /\ <<x>> \in Seq(T) /\ Len(<<x>>) = 1
  BY LenProperties
<1>2. PICK v : v = s \o <<x>>
  OBVIOUS
<1>3. /\ v \in Seq(T) /\ Len(v) = Len(s) + 1
      /\ \A i \in 1..Len(s) + 1 : v[i] = IF i <= Len(s) THEN s[i] ELSE <<x>>[i - Len(s)]
  BY <1>1, <1>2, ConcatProperties
<1>4. u = v \o t
  BY <1>0, <1>2
<1>5. /\ u \in Seq(T) /\ Len(u) = Len(v) + Len(t)
      /\ \A i \in 1..Len(v) + Len(t) : u[i] = IF i <= Len(v) THEN v[i] ELSE t[i - Len(v)]
  BY <1>3, <1>4, ConcatProperties
<1>6. Len(u) \in Nat /\ Len(u) = Len(s) + 1 + Len(t)
  BY <1>1, <1>3, <1>5
<1>7. \A i \in 1..Len(s) : u[i] = s[i]
  BY <1>1, <1>3, <1>5
<1>8. u[Len(s) + 1] = x
  <2>1. Len(s) + 1 \in 1..Len(v) + Len(t) /\ Len(s) + 1 <= Len(v) /\ Len(s) + 1 \in 1..Len(s) + 1
        /\ ~(Len(s) + 1 <= Len(s)) /\ (Len(s) + 1) - Len(s) = 1
    BY <1>1, <1>3
  <2>2. u[Len(s) + 1] = v[Len(s) + 1]
    BY <1>5, <2>1
  <2>3. v[Len(s) + 1] = <<x>>[1]
    BY <1>3, <2>1
  <2> QED
    BY <2>2, <2>3
<1>9. \A i \in 1..Len(t) : u[Len(s) + 1 + i] = t[i]
  <2> SUFFICES ASSUME NEW i \in 1..Len(t)
               PROVE  u[Len(s) + 1 + i] = t[i]
    OBVIOUS
  <2>1. /\ Len(s) + 1 + i \in 1..Len(v) + Len(t) /\ ~(Len(s) + 1 + i <= Len(v))
        /\ (Len(s) + 1 + i) - Len(v) = i
    BY <1>1, <1>3
  <2> QED
    BY <1>5, <2>1
<1> QED
  BY <1>0, <1>1, <1>5, <1>6, <1>7, <1>8, <1>9

\* The stretches of an address: each is the beginning of the next.
Made(names, keys, T) == names \in Seq(T) /\ \A n \in 1..Len(names) : keys[n] \in Seq(T)
Nested(U, L, T) ==
    /\ \A n \in 0..L : U[n] \in Seq(T)
    /\ \A l \in 0..L : \A n \in 0..l :
        Len(U[n]) <= Len(U[l]) /\ \A i \in 1..Len(U[n]) : U[l][i] = U[n][i]

LEMMA StretchesGrow ==
    ASSUME NEW T, NEW names, NEW keys, Made(names, keys, T)
    PROVE  Nested(UpTo(names, keys), Len(names), T)
<1> SUFFICES ASSUME NEW L, L = Len(names)
             PROVE  Nested(UpTo(names, keys), L, T)
  OBVIOUS
<1>10. names \in Seq(T) /\ \A n \in 1..L : keys[n] \in Seq(T)
  BY DEF Made
<1> DEFINE U == UpTo(names, keys)
<1>1. L \in Nat
  BY <1>10, LenProperties
<1>0. \A n \in 1..L : names[n] \in T
  BY <1>10, ElementOfSeq
<1>2. U[0] = <<>> /\ \A n \in 1..L : U[n] = U[n - 1] \o <<names[n]>> \o keys[n]
  BY <1>1, SpelledSays
<1> HIDE DEF U
<1> DEFINE Typed(n) == U[n] \in Seq(T) /\ Len(U[n]) \in Nat
           Grows(n, l) == /\ Len(U[n]) <= Len(U[l])
                          /\ \A i \in 1..Len(U[n]) : U[l][i] = U[n][i]
           N == {l \in Nat : l <= L => \A n \in 0..l : Typed(n) /\ Grows(n, l)}
<1>3. 0 \in N
  <2>1. Typed(0)
    BY <1>2
  <2>2. \A n \in 0..0 : n = 0
    OBVIOUS
  <2>3. \A n \in 0..0 : Typed(n) /\ Grows(n, 0)
    BY <2>1, <2>2
  <2> QED
    BY <2>3
<1>4. ASSUME NEW l \in N
      PROVE  l + 1 \in N
  <2> SUFFICES ASSUME l + 1 <= L
               PROVE  \A n \in 0..l + 1 : Typed(n) /\ Grows(n, l + 1)
    OBVIOUS
  <2>1. l \in Nat /\ l \in 0..l /\ \A n \in 0..l : Typed(n) /\ Grows(n, l)
    BY <1>1
  <2> HIDE DEF N
  <2>2. l + 1 \in 1..L /\ (l + 1) - 1 = l
    <3>1. l \in Nat
      BY <2>1
    <3> QED
      BY <1>1, <3>1
  <2>3. U[l + 1] = U[l] \o <<names[l + 1]>> \o keys[l + 1]
    BY <1>2, <2>2
  <2>4. names[l + 1] \in T /\ keys[l + 1] \in Seq(T)
    BY <1>0, <1>10, <2>2
  <2>5. Typed(l + 1) /\ Grows(l, l + 1)
    <3>1. PICK s, x, t, u : s = U[l] /\ x = names[l + 1] /\ t = keys[l + 1] /\ u = U[l + 1]
      OBVIOUS
    <3>2. s \in Seq(T) /\ x \in T /\ t \in Seq(T) /\ u = s \o <<x>> \o t
      BY <2>1, <2>3, <2>4, <3>1
    <3>3. /\ u \in Seq(T) /\ Len(s) \in Nat /\ Len(t) \in Nat /\ Len(u) = Len(s) + 1 + Len(t)
          /\ \A i \in 1..Len(s) : u[i] = s[i]
      BY <3>2, AroundOne
    <3>4. Len(u) \in Nat /\ Len(s) <= Len(u)
      BY <3>3
    <3> QED
      BY <3>1, <3>3, <3>4
  <2>6. \A n \in 0..l + 1 : n \in 0..l \/ n = l + 1
    BY <2>1
  <2>7. ASSUME NEW n \in 0..l
        PROVE  Grows(n, l + 1)
    <3>1. Grows(n, l) /\ Typed(n) /\ Typed(l)
      BY <2>1
    <3> QED
      BY <2>5, <3>1
  <2>8. Grows(l + 1, l + 1)
    BY <2>5
  <2> HIDE DEF Grows, Typed
  <2> QED
    BY <2>1, <2>5, <2>6, <2>7, <2>8
<1>5. N \in SUBSET Nat
  OBVIOUS
<1> HIDE DEF N
<1>6. \A l \in Nat : l \in N
  BY <1>3, <1>4, <1>5, NatClosure
<1>7. \A l \in 0..L : l \in Nat /\ l <= L
  BY <1>1
<1>8. \A l \in 0..L : \A n \in 0..l : Typed(n) /\ Grows(n, l)
  BY <1>6, <1>7 DEF N
<1>9. \A n \in 0..L : n \in 0..n
  BY <1>1
<1> QED
  BY <1>8, <1>9 DEF U, Nested

\* A name after another.
LEMMA OneMore ==
    ASSUME NEW T, NEW names \in Seq(T), NEW k \in Nat, k + 1 <= Len(names)
    PROVE  Append(SubSeq(names, 1, k), names[k + 1]) = SubSeq(names, 1, k + 1)
<1>1. Len(names) \in Nat
  BY LenProperties
<1>2. SubSeq(names, 1, k) = [i \in 1..k |-> names[i]]
  BY <1>1
<1>3. SubSeq(names, 1, k + 1) = [i \in 1..k + 1 |-> names[i]]
  BY <1>1
<1>4. SubSeq(names, 1, k) \in Seq(T) /\ Len(SubSeq(names, 1, k)) = k
  BY <1>1, SubSeqProperties
<1>5. Append(SubSeq(names, 1, k), names[k + 1])
        = [i \in 1..k + 1 |-> IF i <= k THEN names[i] ELSE names[k + 1]]
  BY <1>2, <1>4
<1> QED
  BY <1>3, <1>5

\* Reading an address takes its indices away, whatever their keys are.
LEMMA NormalizeSpelled ==
    ASSUME NEW names, IsAddress(names), NEW keys,
           \A n \in DOMAIN names : keys[n] = <<>> \/ IsNumber(keys[n]) \/ IsQuoted(keys[n])
    PROVE  Normalize(Spelled(names, keys)) = names
<1> DEFINE T == Range(names) \cup UNION {Range(keys[n]) : n \in DOMAIN names}
<1>1. names \in Seq(T)
  <2>1. names \in Seq(Range(names)) /\ Range(names) \subseteq T
    BY DEF IsAddress
  <2> HIDE DEF T
  <2> QED
    BY <2>1
<1>2. PICK L : L = Len(names)
  OBVIOUS
<1>3. L \in Nat /\ DOMAIN names = 1..L
  BY <1>1, <1>2, LenProperties
<1>4. \A n \in 1..L : names[n] # "["
  BY <1>3 DEF IsAddress, Range
<1>5. \A n \in 1..L : keys[n] \in Seq(T)
  <2> SUFFICES ASSUME NEW n \in 1..L
               PROVE  keys[n] \in Seq(T)
    OBVIOUS
  <2>1. keys[n] = <<>> \/ keys[n] \in Seq(Range(keys[n]))
    BY <1>3 DEF IsNumber, IsQuoted
  <2>2. Range(keys[n]) \subseteq T
    BY <1>3
  <2> HIDE DEF T
  <2>3. CASE keys[n] = <<>>
    BY <2>3
  <2>4. CASE keys[n] \in Seq(Range(keys[n]))
    <3>1. PICK key : key = keys[n]
      OBVIOUS
    <3>2. key \in Seq(T)
      BY <2>2, <2>4, <3>1
    <3> QED
      BY <3>1, <3>2
  <2> QED
    BY <2>1, <2>3, <2>4
<1> HIDE DEF T
<1> DEFINE U == UpTo(names, keys)
           a == U[L]
           N == {k \in Nat : k <= L => ScanOf(a)[Len(U[k])] = Outside(SubSeq(names, 1, k))}
<1>6. /\ \A n \in 0..L : U[n] \in Seq(T)
      /\ \A n \in 0..L : \A i \in 1..Len(U[n]) : a[i] = U[n][i]
      /\ \A n \in 0..L : Len(U[n]) <= Len(a)
  <2>1. L \in 0..L
    BY <1>3
  <2>2. Made(names, keys, T)
    BY <1>1, <1>2, <1>5 DEF Made
  <2>3. Nested(U, L, T)
    BY <1>2, <2>2, StretchesGrow
  <2> HIDE DEF U
  <2> QED
    BY <2>1, <2>3 DEF Nested
<1>7. /\ Spelled(names, keys) = a /\ U[0] = <<>>
      /\ \A n \in 1..L : U[n] = U[n - 1] \o <<names[n]>> \o keys[n]
  BY <1>2, <1>3, SpelledSays
<1> HIDE DEF U, a
<1>8. Len(a) \in Nat
  <2>1. L \in 0..L
    BY <1>3
  <2> QED
    BY <1>6, <2>1, LenProperties DEF a
<1>9. 0 \in N
  <2>1. Len(U[0]) = 0
    BY <1>7
  <2>2. SubSeq(names, 1, 0) = <<>>
    BY <1>1
  <2>3. ScanOf(a)[0] = Scanned
    BY <1>8, ScanSays
  <2>4. Scanned = Outside(<<>>)
    BY DEF Scanned, Outside, Scanner
  <2> QED
    BY <2>1, <2>2, <2>3, <2>4
<1>10. ASSUME NEW k \in N
       PROVE  k + 1 \in N
  <2> SUFFICES ASSUME k + 1 <= L
               PROVE  ScanOf(a)[Len(U[k + 1])] = Outside(SubSeq(names, 1, k + 1))
    OBVIOUS
  <2>1. k \in Nat /\ k <= L /\ ScanOf(a)[Len(U[k])] = Outside(SubSeq(names, 1, k))
    BY <1>3
  <2> HIDE DEF N
  <2>2. k + 1 \in 1..L /\ k + 1 \in 0..L /\ k \in 0..L /\ (k + 1) - 1 = k
    BY <1>3, <2>1
  <2>3. PICK c, x, key, u : c = Len(U[k]) /\ x = names[k + 1] /\ key = keys[k + 1] /\ u = U[k + 1]
    OBVIOUS
  <2>4. U[k] \in Seq(T) /\ x \in T /\ key \in Seq(T) /\ u = U[k] \o <<x>> \o key
    BY <1>1, <1>2, <1>5, <1>6, <1>7, <2>2, <2>3, ElementOfSeq
  <2>5. /\ c \in Nat /\ Len(key) \in Nat /\ Len(u) = c + 1 + Len(key) /\ Len(u) \in Nat
        /\ u[c + 1] = x
        /\ \A i \in 1..Len(key) : u[c + 1 + i] = key[i]
    <3>1. PICK v : v = U[k]
      OBVIOUS
    <3>2. v \in Seq(T) /\ x \in T /\ key \in Seq(T) /\ u = v \o <<x>> \o key /\ c = Len(v)
      BY <2>3, <2>4, <3>1
    <3>3. /\ Len(v) \in Nat /\ Len(key) \in Nat /\ Len(u) = Len(v) + 1 + Len(key)
          /\ u[Len(v) + 1] = x
          /\ \A i \in 1..Len(key) : u[Len(v) + 1 + i] = key[i]
      BY <3>2, AroundOne
    <3> QED
      BY <3>2, <3>3
  <2>6. Len(u) <= Len(a) /\ \A i \in 1..Len(u) : a[i] = u[i]
    BY <1>6, <2>2, <2>3
  <2>7. c + 1 \in 1..Len(u) /\ c + 1 \in 1..Len(a) /\ (c + 1) - 1 = c
    BY <1>8, <2>5, <2>6
  <2>8. a[c + 1] = x /\ x # "["
    BY <1>4, <2>2, <2>3, <2>5, <2>6, <2>7
  <2>9. ScanOf(a)[c + 1] = Outside(SubSeq(names, 1, k + 1))
    <3>1. ScanOf(a)[c + 1] = ScanStep(ScanOf(a)[c], a[c + 1])
      BY <1>8, <2>7, ScanSays
    <3>2. ScanStep(Outside(SubSeq(names, 1, k)), x) = Outside(Append(SubSeq(names, 1, k), x))
      BY <2>8, ScannerSteps DEF Outside
    <3>3. Append(SubSeq(names, 1, k), x) = SubSeq(names, 1, k + 1)
      BY <1>1, <1>2, <2>1, <2>3, OneMore
    <3> QED
      BY <2>1, <2>3, <2>8, <3>1, <3>2, <3>3
  <2>10. CASE key = <<>>
    <3>1. Len(u) = c + 1
      BY <2>5, <2>10
    <3> QED
      BY <2>3, <2>9, <3>1
  <2>11. CASE IsNumber(key) \/ IsQuoted(key)
    <3>1. \A i \in 1..Len(key) : a[c + 1 + i] = key[i]
      <4>1. \A i \in 1..Len(key) : c + 1 + i \in 1..Len(u)
        BY <2>5
      <4> QED
        BY <2>5, <2>6, <4>1
    <3>2. c + 1 \in Nat /\ (c + 1) + Len(key) <= Len(a) /\ (c + 1) + Len(key) = Len(u)
      BY <1>8, <2>5, <2>6
    <3>3. ScanOf(a)[(c + 1) + Len(key)] = Outside(SubSeq(names, 1, k + 1))
      BY <1>8, <2>9, <2>11, <3>1, <3>2, IndexIsSkipped
    <3> QED
      BY <2>3, <3>2, <3>3
  <2> QED
    BY <1>3, <2>2, <2>3, <2>10, <2>11
<1>11. L \in N
  <2>1. N \in SUBSET Nat
    OBVIOUS
  <2> HIDE DEF N
  <2> QED
    BY <1>3, <1>9, <1>10, <2>1, NatClosure
<1>12. ScanOf(a)[Len(a)] = Outside(SubSeq(names, 1, L))
  BY <1>3, <1>11 DEF a
<1>13. SubSeq(names, 1, L) = names
  BY <1>1, <1>2, <1>3
<1>14. Normalize(a) = ScanOf(a)[Len(a)].out
  BY <1>8, ScanSays
<1> QED
  BY <1>7, <1>12, <1>13, <1>14 DEF Outside, Scanner

\* An address without indices is its own.
LEMMA NormalizePlain ==
    ASSUME NEW names, IsAddress(names)
    PROVE  Normalize(names) = names
<1>1. names \in Seq(Range(names))
  BY DEF IsAddress
<1>2. PICK L : L = Len(names)
  OBVIOUS
<1>3. L \in Nat /\ DOMAIN names = 1..L
  BY <1>1, <1>2, LenProperties
<1>4. \A n \in 1..L : names[n] # "["
  BY <1>3 DEF IsAddress, Range
<1>5. ScanOf(names)[0] = Scanned /\ \A n \in 1..L : ScanOf(names)[n] = ScanStep(ScanOf(names)[n - 1], names[n])
  BY <1>2, <1>3, ScanSays
<1> DEFINE N == {k \in Nat : k <= L => ScanOf(names)[k] = Outside(SubSeq(names, 1, k))}
<1>6. 0 \in N
  <2>1. SubSeq(names, 1, 0) = <<>>
    BY <1>1
  <2>2. Scanned = Outside(<<>>)
    BY DEF Scanned, Outside, Scanner
  <2> QED
    BY <1>5, <2>1, <2>2
<1>7. ASSUME NEW k \in N
      PROVE  k + 1 \in N
  <2> SUFFICES ASSUME k + 1 <= L
               PROVE  ScanOf(names)[k + 1] = Outside(SubSeq(names, 1, k + 1))
    OBVIOUS
  <2>1. k \in Nat /\ k <= L /\ ScanOf(names)[k] = Outside(SubSeq(names, 1, k))
    BY <1>3
  <2> HIDE DEF N
  <2>2. k + 1 \in 1..L /\ (k + 1) - 1 = k
    BY <1>3, <2>1
  <2>3. ScanOf(names)[k + 1] = ScanStep(Outside(SubSeq(names, 1, k)), names[k + 1])
    BY <1>5, <2>1, <2>2
  <2>4. ScanStep(Outside(SubSeq(names, 1, k)), names[k + 1])
          = Outside(Append(SubSeq(names, 1, k), names[k + 1]))
    BY <1>4, <2>2, ScannerSteps DEF Outside
  <2>5. Append(SubSeq(names, 1, k), names[k + 1]) = SubSeq(names, 1, k + 1)
    BY <1>1, <1>2, <2>1, OneMore
  <2> QED
    BY <2>3, <2>4, <2>5
<1>8. L \in N
  <2>1. N \in SUBSET Nat
    OBVIOUS
  <2> HIDE DEF N
  <2> QED
    BY <1>3, <1>6, <1>7, <2>1, NatClosure
<1>9. ScanOf(names)[L] = Outside(SubSeq(names, 1, L))
  BY <1>3, <1>8
<1>10. SubSeq(names, 1, L) = names
  BY <1>1, <1>2, <1>3
<1>11. Normalize(names) = ScanOf(names)[L].out
  BY <1>2, <1>3, ScanSays
<1> QED
  BY <1>9, <1>10, <1>11 DEF Outside, Scanner

-----------------------------------------------------------------------------
(* Regions: the provider of an address is that of the resource there. *)

\* A set of numbers up to n has a greatest.
LEMMA HasLast ==
    ASSUME NEW n \in Nat, NEW I \in SUBSET (1..n), I # {}
    PROVE  \E m \in I : \A other \in I : other <= m
<1> DEFINE J == {n - i : i \in I}
<1>1. J \in SUBSET Nat /\ J # {}
  <2>1. \A i \in 1..n : n - i \in Nat
    OBVIOUS
  <2>2. J \in SUBSET Nat
    BY <2>1
  <2> QED
    BY <2>2
<1>2. PICK k \in J : \A j \in J : k <= j
  <2> HIDE DEF J
  <2> QED
    BY <1>1, NatMinimum
<1>3. PICK m \in I : k = n - m
  BY <1>2
<1>4. \A i \in I : n - m <= n - i
  BY <1>2, <1>3
<1> QED
  BY <1>4

\* One entry of a module's resources: as written, or from the root.
Entries(m) ==
    LET names == {[written |-> Normalize(r.address), key |-> r.key] : r \in m.resources}
    IN  names \cup {[written |-> m.path \o n.written, key |-> n.key] :
                        n \in {x \in names : m.path # <<>> /\ ~IsPrefix(m.path, x.written)}}

LEMMA KeysAre ==
    ASSUME NEW m
    PROVE  ProviderKeys(m) = [a \in {n.written : n \in Entries(m)} |->
                                (CHOOSE n \in Entries(m) : n.written = a).key]
  BY DEF ProviderKeys, Entries

\* An entry is of a resource, under its address or its address from the root.
Entry(e, m) ==
    \/ \E c \in m.resources : e = [written |-> c.address, key |-> c.key]
    \/ \E c \in m.resources :
        /\ m.path # <<>> /\ ~IsPrefix(m.path, c.address)
        /\ e = [written |-> m.path \o c.address, key |-> c.key]
Instanceless(m) == \A c \in m.resources : IsAddress(c.address)

LEMMA EntriesAre ==
    ASSUME NEW m, Instanceless(m), NEW e
    PROVE  e \in Entries(m) <=> Entry(e, m)
<1> DEFINE names == {[written |-> Normalize(r.address), key |-> r.key] : r \in m.resources}
           far == {x \in names : m.path # <<>> /\ ~IsPrefix(m.path, x.written)}
           rooted == {[written |-> m.path \o n.written, key |-> n.key] : n \in far}
<1>1. \A c \in m.resources : Normalize(c.address) = c.address
  BY NormalizePlain DEF Instanceless
<1>2. \A x : x \in names <=> \E c \in m.resources : x = [written |-> c.address, key |-> c.key]
  BY <1>1
<1>3. Entries(m) = names \cup rooted
  BY DEF Entries
<1>4. \A x : x \in rooted <=> \E n \in far : x = [written |-> m.path \o n.written, key |-> n.key]
  OBVIOUS
<1>5. \A x : x \in far <=> x \in names /\ m.path # <<>> /\ ~IsPrefix(m.path, x.written)
  OBVIOUS
<1> HIDE DEF names, far, rooted
<1>6. ASSUME e \in rooted
      PROVE  \E c \in m.resources :
                /\ m.path # <<>> /\ ~IsPrefix(m.path, c.address)
                /\ e = [written |-> m.path \o c.address, key |-> c.key]
  <2>1. PICK x \in names : /\ m.path # <<>> /\ ~IsPrefix(m.path, x.written)
                           /\ e = [written |-> m.path \o x.written, key |-> x.key]
    BY <1>4, <1>5, <1>6
  <2>2. PICK c \in m.resources : x = [written |-> c.address, key |-> c.key]
    BY <1>2
  <2>3. x.written = c.address /\ x.key = c.key
    BY <2>2
  <2> QED
    BY <2>1, <2>3
<1>7. ASSUME NEW c \in m.resources, m.path # <<>>, ~IsPrefix(m.path, c.address),
             e = [written |-> m.path \o c.address, key |-> c.key]
      PROVE  e \in rooted
  <2>1. PICK x : x = [written |-> c.address, key |-> c.key]
    OBVIOUS
  <2>2. x \in names /\ x.written = c.address /\ x.key = c.key
    BY <1>2, <2>1
  <2>3. x \in far
    BY <1>5, <1>7, <2>2
  <2> QED
    BY <1>4, <1>7, <2>2, <2>3
<1> QED
  BY <1>2, <1>3, <1>6, <1>7 DEF Entry

\* Some of the n modules name the address a, and all that do give it the key k.
Agree(config, n, a, k) ==
    /\ DOMAIN config = 1..n
    /\ \E i \in 1..n : a \in DOMAIN ProviderKeys(config[i])
    /\ \A i \in 1..n : a \in DOMAIN ProviderKeys(config[i]) => ProviderKeys(config[i])[a] = k

LEMMA ProvidersAre ==
    ASSUME NEW config, NEW n \in Nat, NEW a, NEW k, Agree(config, n, a, k)
    PROVE  a \in DOMAIN ResourceProviders(config) /\ ResourceProviders(config)[a] = k
<1> USE DEF Agree
<1> DEFINE keys == [i \in DOMAIN config |-> ProviderKeys(config[i])]
           Naming(x) == {i \in DOMAIN config : x \in DOMAIN keys[i]}
           last(x) == CHOOSE i \in Naming(x) : \A other \in Naming(x) : other <= i
           all == UNION {DOMAIN keys[i] : i \in DOMAIN config}
<1>1. ResourceProviders(config) = [x \in all |-> keys[last(x)][x]]
  BY DEF ResourceProviders
<1>2. Naming(a) \in SUBSET (1..n) /\ Naming(a) # {} /\ a \in all
  OBVIOUS
<1>3. last(a) \in Naming(a)
  <2> HIDE DEF Naming
  <2>1. \E i \in Naming(a) : \A other \in Naming(a) : other <= i
    BY <1>2, HasLast
  <2> QED
    BY <2>1
<1>4. \A i \in Naming(a) : keys[i][a] = k
  OBVIOUS
<1> HIDE DEF keys, Naming, last, all
<1> QED
  BY <1>1, <1>2, <1>3, <1>4

LEMMA RootPrefix ==
    ASSUME NEW s, IsAddress(s)
    PROVE  IsPrefix(<<>>, s)
<1>1. s \in Seq(Range(s)) /\ Len(s) \in Nat
  BY LenProperties DEF IsAddress
<1>2. Len(<<>>) = 0 /\ SubSeq(<<>>, 1, 0) = <<>> /\ SubSeq(s, 1, 0) = <<>>
  BY <1>1
<1> QED
  BY <1>1, <1>2 DEF IsPrefix

\* The provider that the configuration gives an address that only its owner has.
LEMMA ProviderIsOwners ==
    ASSUME setup \in Setups, NEW r, ~Shadowed(r), NEW o \in Owner(r)
    PROVE  /\ r.of \in DOMAIN ResourceProviders(setup.config)
           /\ ResourceProviders(setup.config)[r.of] = o[2].key
<1> DEFINE config == setup.config
           a == r.of
           n == Len(config)
<1>1. config \in Seq(Range(config))
  BY SetupAssumption
<1>2. n \in Nat /\ DOMAIN config = 1..n
  BY <1>1, LenProperties
<1>3. \A i \in 1..n : \A c \in config[i].resources : <<config[i], c>> \in Configured(config)
  BY <1>2 DEF Configured
<1>4. \A i \in 1..n : \A c \in config[i].resources : IsAddress(c.address)
  <2>1. \A p \in Configured(config) : IsAddress(p[2].address)
    BY SetupAssumption
  <2> QED
    BY <1>3, <2>1
<1>5. o \in Configured(config) /\ a = Rooted(o[1], o[2])
  BY DEF Owner
<1>6. \A i \in 1..n : \A c \in config[i].resources : Rooted(config[i], c) = a => c = o[2]
  <2> SUFFICES ASSUME NEW i \in 1..n, NEW c \in config[i].resources, Rooted(config[i], c) = a
               PROVE  c = o[2]
    OBVIOUS
  <2>1. PICK p : p = <<config[i], c>>
    OBVIOUS
  <2>2. p \in Configured(config) /\ p[1] = config[i] /\ p[2] = c
    BY <1>3, <2>1
  <2>3. \A q1, q2 \in Configured(config) : Rooted(q1[1], q1[2]) = Rooted(q2[1], q2[2]) => q1 = q2
    BY SetupAssumption
  <2>4. p = o
    BY <1>5, <2>2, <2>3
  <2> QED
    BY <2>2, <2>4
<1>7. PICK at \in 1..n : \E own \in config[at].resources : o = <<config[at], own>>
  BY <1>2, <1>5 DEF Configured
<1>13. PICK own \in config[at].resources : o = <<config[at], own>>
  BY <1>7
<1>8. \A i \in 1..n : \A c \in config[i].resources :
        c.address = a => config[i].path = <<>> \/ IsPrefix(config[i].path, c.address)
  BY <1>2 DEF Shadowed
<1> HIDE DEF n
<1>9. ASSUME NEW i \in 1..n, NEW e \in Entries(config[i]), e.written = a
      PROVE  e.key = o[2].key
  <2>1. PICK c \in config[i].resources :
          \/ e = [written |-> c.address, key |-> c.key]
          \/ /\ config[i].path # <<>> /\ ~IsPrefix(config[i].path, c.address)
             /\ e = [written |-> config[i].path \o c.address, key |-> c.key]
    <3>1. PICK m : m = config[i]
      OBVIOUS
    <3>2. e \in Entries(m) /\ Instanceless(m)
      BY <1>4, <3>1 DEF Instanceless
    <3>3. Entry(e, m)
      BY <3>2, EntriesAre
    <3> QED
      BY <3>1, <3>3 DEF Entry
  <2>0. /\ e.key = c.key
        /\ \/ e.written = c.address
           \/ ~IsPrefix(config[i].path, c.address) /\ e.written = config[i].path \o c.address
    <3>1. CASE e = [written |-> c.address, key |-> c.key]
      BY <3>1
    <3>2. PICK x : x = config[i].path \o c.address
      OBVIOUS
    <3>3. CASE ~IsPrefix(config[i].path, c.address) /\ e = [written |-> x, key |-> c.key]
      BY <3>2, <3>3
    <3> QED
      BY <2>1, <3>1, <3>2, <3>3
  <2>2. IsPrefix(<<>>, c.address)
    BY <1>4, RootPrefix
  <2>3. Rooted(config[i], c) = a
    <3>1. CASE e.written = c.address
      <4>1. c.address = a
        BY <1>9, <3>1
      <4>2. IsPrefix(config[i].path, c.address)
        BY <1>8, <2>2, <4>1
      <4> QED
        BY <4>1, <4>2 DEF Rooted
    <3>2. CASE ~IsPrefix(config[i].path, c.address) /\ e.written = config[i].path \o c.address
      BY <1>9, <3>2 DEF Rooted
    <3> QED
      BY <2>0, <3>1, <3>2
  <2> QED
    BY <1>6, <2>0, <2>3
<1>10. \E e \in Entries(config[at]) : e.written = a
  <2>1. o[1] = config[at] /\ o[2] = own
    BY <1>13
  <2>2. IsPrefix(<<>>, own.address) /\ Instanceless(config[at])
    BY <1>4, <1>13, RootPrefix DEF Instanceless
  <2> DEFINE e == [written |-> a, key |-> own.key]
  <2>3. \/ e = [written |-> own.address, key |-> own.key]
        \/ /\ config[at].path # <<>> /\ ~IsPrefix(config[at].path, own.address)
           /\ e = [written |-> config[at].path \o own.address, key |-> own.key]
    <3>1. CASE IsPrefix(config[at].path, own.address)
      <4>1. a = own.address
        BY <1>5, <2>1, <3>1 DEF Rooted
      <4> QED
        BY <4>1
    <3>2. CASE ~IsPrefix(config[at].path, own.address)
      <4>1. a = config[at].path \o own.address /\ config[at].path # <<>>
        BY <1>5, <2>1, <2>2, <3>2 DEF Rooted
      <4> QED
        BY <3>2, <4>1
    <3> QED
      BY <3>1, <3>2
  <2>4. e.written = a
    OBVIOUS
  <2> HIDE DEF e
  <2>5. e \in Entries(config[at])
    BY <1>13, <2>2, <2>3, EntriesAre DEF Entry
  <2> QED
    BY <2>4, <2>5
<1>11. a \in DOMAIN ProviderKeys(config[at])
  BY <1>10, KeysAre
<1>12. ASSUME NEW i \in 1..n, a \in DOMAIN ProviderKeys(config[i])
       PROVE  ProviderKeys(config[i])[a] = o[2].key
  <2>1. /\ \E e \in Entries(config[i]) : e.written = a
        /\ ProviderKeys(config[i])[a] = (CHOOSE e \in Entries(config[i]) : e.written = a).key
    BY <1>12, KeysAre
  <2> QED
    BY <1>9, <2>1
<1> HIDE DEF a, config
<1> QED
  <2>1. Agree(config, n, a, o[2].key)
    BY <1>2, <1>11, <1>12 DEF Agree
  <2>2. a \in DOMAIN ResourceProviders(config) /\ ResourceProviders(config)[a] = o[2].key
    BY <1>2, <2>1, ProvidersAre
  <2> QED
    BY <2>2 DEF a, config

\* The region of an instance is the one it really gets.
LEMMA RegionIsReal ==
    ASSUME world \in Worlds, setup \in Setups, NEW i \in DOMAIN world,
           HasProvider(world[i]), ~Shadowed(world[i])
    PROVE  Region(PlanDocument, world[i]) = RealRegion(world[i])
<1> DEFINE r == world[i]
           o == CHOOSE x \in Owner(r) : TRUE
           keys == ResourceProviders(setup.config)
<1>1. o \in Owner(r)
  BY DEF HasProvider
<1>2. Normalize(r.address) = r.of
  <2>1. /\ IsAddress(r.of) /\ r.address = Spelled(r.of, r.keys)
        /\ \A n \in DOMAIN r.of : r.keys[n] = <<>> \/ IsNumber(r.keys[n]) \/ IsQuoted(r.keys[n])
    BY WorldAssumption
  <2> QED
    BY <2>1, NormalizeSpelled
<1>3. PICK p \in Owner(r) : p[2].key # <<>>
  BY DEF HasProvider
<1>4. \A q \in Owner(r) : r.of \in DOMAIN keys /\ keys[r.of] = q[2].key
  BY ProviderIsOwners
<1>5. r.of \in DOMAIN keys /\ keys[r.of] = o[2].key /\ keys[r.of] # <<>>
  BY <1>1, <1>3, <1>4
<1>6. PlanDocument.config = setup.config /\ PlanDocument.regions = setup.regions
  BY DEF PlanDocument
<1>7. Region(PlanDocument, r) =
        LET own == IF "region" \in DOMAIN r.after THEN r.after["region"] ELSE ""
        IN  IF own # "" THEN own ELSE RegionOf(setup.regions, o[2].key)
  BY <1>2, <1>5, <1>6, Zenon DEF Region
<1> QED
  BY <1>7 DEF RealRegion, RegionOf

-----------------------------------------------------------------------------
(* The invariant: what each stage has made sure of. *)

UsageRead ==
    \/ stage \in {"usage", "failed"}
    \/ stage \in {"plan", "check", "price", "done"} /\ Accepted(file) /\ usage = {Usage(file)}

PlanRead ==
    /\ loaded = <<>> \/ loaded = Loading
    /\ stage \in {"check", "price", "done"} => loaded = Loading

\* Only usage that fits goes on, and results come after that.
UsageChecked ==
    /\ stage \in {"price", "done"} => UsageFits(Usage(file))
    /\ stage \notin {"price", "done"} => results = <<>>

ResultsFollow ==
    /\ DOMAIN results = 1..Len(results) /\ Len(results) \in Nat
    /\ Len(results) <= Len(loaded)
    /\ \A i \in DOMAIN results : results[i] = Outcome(loaded[i], Usage(file))

LoadInv ==
    /\ world \in Worlds /\ setup \in Setups /\ file \in Files
    /\ UsageRead /\ PlanRead /\ UsageChecked /\ ResultsFollow

LEMMA InitLoads == Init => LoadInv
<1> SUFFICES ASSUME Init
             PROVE  LoadInv
  OBVIOUS
<1>1. stage = "usage" /\ loaded = <<>> /\ results = <<>>
  BY DEF Init
<1>2. Len(<<>>) = 0 /\ DOMAIN <<>> = 1..0
  OBVIOUS
<1>3. ResultsFollow
  BY <1>1, <1>2 DEF ResultsFollow
<1> QED
  BY <1>1, <1>3 DEF Init, LoadInv, UsageRead, PlanRead, UsageChecked

\* Nothing but the stage, the usage, the resources and the results ever moves.
LEMMA SameInputs ==
    ASSUME UNCHANGED inputs
    PROVE  /\ world' = world /\ setup' = setup /\ file' = file /\ Loading' = Loading
           /\ Usage(file)' = Usage(file) /\ Accepted(file)' = Accepted(file)
<1>1. world' = world /\ file' = file /\ command' = command /\ legacyPlan' = legacyPlan /\ setup' = setup
  BY DEF inputs
<1>2. PlanDocument' = PlanDocument
  BY <1>1 DEF PlanDocument
<1>3. Loading' = Loading
  BY <1>1, <1>2 DEF Loading
<1> QED
  BY <1>1, <1>3

LEMMA StepLoads == LoadInv /\ [Next]_vars => LoadInv'
<1> SUFFICES ASSUME LoadInv, [Next]_vars
             PROVE  LoadInv'
  OBVIOUS
<1> USE DEF LoadInv
<1>1. UNCHANGED inputs
  BY DEF Next, vars, LoadUsage, LoadPlan, CheckUsage, PriceNext, Finish
<1>2. /\ world' = world /\ setup' = setup /\ file' = file /\ Loading' = Loading
      /\ Usage(file)' = Usage(file) /\ Accepted(file)' = Accepted(file)
  BY <1>1, SameInputs
<1>3. (world \in Worlds)' /\ (setup \in Setups)' /\ (file \in Files)'
  BY <1>2
<1>4. CASE LoadUsage
  <2>1. stage = "usage" /\ results = <<>> /\ UNCHANGED <<loaded, results>>
    BY <1>4 DEF LoadUsage, UsageChecked
  <2>2. \/ Accepted(file) /\ usage' = {Usage(file)} /\ stage' = "plan"
        \/ stage' = "failed"
    BY <1>4 DEF LoadUsage
  <2>3. UsageRead' /\ PlanRead' /\ UsageChecked'
    BY <1>2, <2>1, <2>2 DEF UsageRead, PlanRead, UsageChecked
  <2>4. ResultsFollow'
    BY <1>2, <2>1 DEF ResultsFollow
  <2> QED
    BY <1>3, <2>3, <2>4
<1>5. CASE LoadPlan
  <2>1. /\ stage = "plan" /\ stage' = "check" /\ UNCHANGED <<usage, results>>
        /\ loaded' = Loading
    BY <1>5 DEF LoadPlan, Loading
  <2>2. results = <<>>
    BY <2>1 DEF UsageChecked
  <2>3. UsageRead' /\ PlanRead' /\ UsageChecked'
    BY <1>2, <2>1, <2>2 DEF UsageRead, PlanRead, UsageChecked
  <2>4. Len(Loading) \in Nat
    BY Loads
  <2>5. ResultsFollow'
    <3>1. Len(<<>>) = 0 /\ DOMAIN <<>> = 1..0
      OBVIOUS
    <3> QED
      BY <2>1, <2>2, <2>4, <3>1 DEF ResultsFollow
  <2> QED
    BY <1>3, <2>3, <2>5
<1>6. CASE CheckUsage
  <2>1. stage = "check" /\ usage = {Usage(file)} /\ results = <<>> /\ UNCHANGED <<usage, loaded, results>>
    BY <1>6 DEF CheckUsage, UsageRead, UsageChecked
  <2>2. \/ stage' = "price" /\ UsageFits(Usage(file))
        \/ stage' = "failed"
    BY <1>6, <2>1 DEF CheckUsage
  <2>3. UsageFits(Usage(file))' = UsageFits(Usage(file))
    BY <1>2, <2>1 DEF UsageFits
  <2>4. UsageRead' /\ PlanRead' /\ UsageChecked'
    BY <1>2, <2>1, <2>2, <2>3 DEF UsageRead, PlanRead, UsageChecked
  <2>5. ResultsFollow'
    BY <1>2, <2>1 DEF ResultsFollow
  <2> QED
    BY <1>3, <2>4, <2>5
<1>7. CASE PriceNext
  <2>1. stage = "price" /\ Len(results) < Len(loaded) /\ UNCHANGED <<stage, usage, loaded>>
    BY <1>7 DEF PriceNext
  <2>2. usage = {Usage(file)} /\ loaded = Loading
    BY <2>1 DEF UsageRead, PlanRead
  <2> DEFINE n == Len(results)
             r == Outcome(loaded[n + 1], Usage(file))
  <2>3. results' = Append(results, r)
    BY <1>7, <2>2 DEF PriceNext
  <2>4. UsageFits(Usage(file))' = UsageFits(Usage(file))
    BY <1>2, <2>1 DEF UsageFits
  <2>5. UsageRead' /\ PlanRead' /\ UsageChecked'
    BY <1>2, <2>1, <2>4 DEF UsageRead, PlanRead, UsageChecked
  <2>6. n \in Nat /\ DOMAIN results = 1..n /\ Len(loaded) \in Nat
    BY <2>2, Loads DEF ResultsFollow
  <2>7. results' = [i \in 1..n + 1 |-> IF i = n + 1 THEN r ELSE results[i]]
    BY <2>3, <2>6
  <2> HIDE DEF n, r
  <2>8. DOMAIN results' = 1..n + 1 /\ results' = [i \in DOMAIN results' |-> results'[i]]
    BY <2>7
  <2>9. Len(results') = n + 1
    BY <2>6, <2>8, IsSequence
  <2>10. \A i \in 1..n : results[i] = Outcome(loaded[i], Usage(file))
    BY <2>6 DEF ResultsFollow
  <2>11. \A i \in 1..n + 1 : results'[i] = Outcome(loaded[i], Usage(file))
    BY <2>6, <2>7, <2>10 DEF r
  <2>12. n + 1 <= Len(loaded) /\ n + 1 \in Nat
    BY <2>1, <2>6 DEF n
  <2>13. ResultsFollow'
    BY <1>2, <2>1, <2>8, <2>9, <2>11, <2>12 DEF ResultsFollow
  <2> QED
    BY <1>3, <2>5, <2>13
<1>8. CASE Finish
  <2>1. stage = "price" /\ stage' = "done" /\ UNCHANGED <<usage, loaded, results>>
    BY <1>8 DEF Finish
  <2>2. UsageFits(Usage(file))' = UsageFits(Usage(file))
    BY <1>2, <2>1 DEF UsageFits
  <2>3. UsageRead' /\ PlanRead' /\ UsageChecked'
    BY <1>2, <2>1, <2>2 DEF UsageRead, PlanRead, UsageChecked
  <2>4. ResultsFollow'
    BY <1>2, <2>1 DEF ResultsFollow
  <2> QED
    BY <1>3, <2>3, <2>4
<1>9. CASE UNCHANGED vars
  <2>1. UNCHANGED <<stage, usage, loaded, results>>
    BY <1>9 DEF vars
  <2>2. UsageFits(Usage(file))' = UsageFits(Usage(file))
    BY <1>2, <2>1 DEF UsageFits
  <2> QED
    BY <1>2, <1>3, <2>1, <2>2 DEF UsageRead, PlanRead, UsageChecked, ResultsFollow
<1> QED
  BY <1>4, <1>5, <1>6, <1>7, <1>8, <1>9 DEF Next

LEMMA AlwaysLoads == Spec => []LoadInv
  BY InitLoads, StepLoads, PTL DEF Spec

-----------------------------------------------------------------------------
(* The theorems. *)

\* Every instance that should be priced is loaded, once, and nothing else is,
\* however many resources, indices and modules a plan has (LoadPlanJSON,
\* LoadPlanInventoryJSON).
THEOREM EveryPlannedLoaded == Spec => []LoadsWhatIsPlanned
<1>1. LoadInv => LoadsWhatIsPlanned
  <2> SUFFICES ASSUME LoadInv, stage \in {"check", "price", "done"}
               PROVE  /\ Len(loaded) = Cardinality(Wanted)
                      /\ {loaded[i].address : i \in DOMAIN loaded} = {world[i].address : i \in Wanted}
    BY DEF LoadsWhatIsPlanned, Wanted, Inventory
  <2>1. loaded = Loading /\ world \in Worlds
    BY DEF LoadInv, PlanRead
  <2>2. PICK at : Comes(at)
    BY <2>1, Loads
  <2>3. Len(loaded) = Cardinality(Wanted)
    BY <2>1, Loads
  <2>4. \A k \in DOMAIN loaded : loaded[k].address = world[at[k]].address
    BY <2>1, <2>2 DEF Comes, Planned
  <2>5. Wanted = {at[k] : k \in DOMAIN loaded}
    BY <2>1, <2>2 DEF Comes
  <2>6. {loaded[k].address : k \in DOMAIN loaded} = {world[i].address : i \in Wanted}
    BY <2>4, <2>5
  <2> QED
    BY <2>3, <2>6
<1> QED
  BY <1>1, AlwaysLoads, PTL

\* The region a resource is priced in is the one its attribute or its provider
\* gives it, whatever the keys of its indices are and in whatever order the
\* modules come, unless it is written like one of the root
\* (normalizeResourceAddress, resourceProviderConfigKeys, resolveResourceRegion).
THEOREM RegionsAreReal == Spec => []UnshadowedRegionIsExact
<1>1. LoadInv => UnshadowedRegionIsExact
  <2> SUFFICES ASSUME LoadInv, NEW i \in DOMAIN loaded, NEW j \in DOMAIN world,
                      loaded[i].address = world[j].address, Stays(world[j]),
                      HasProvider(world[j]), ~Shadowed(world[j])
               PROVE  loaded[i].region = RealRegion(world[j])
    BY DEF UnshadowedRegionIsExact
  <2>1. world \in Worlds /\ setup \in Setups
    BY DEF LoadInv
  <2>2. CASE loaded = Loading
    <3>1. PICK at : Comes(at)
      BY <2>1, Loads
    <3>2. at[i] \in Wanted /\ loaded[i] = Planned(PlanDocument, world[at[i]])
      BY <2>2, <3>1 DEF Comes
    <3>3. at[i] \in DOMAIN world /\ Stays(world[at[i]])
      BY <3>2 DEF Wanted
    <3>4. loaded[i].address = world[at[i]].address
          /\ loaded[i].region = Region(PlanDocument, world[at[i]])
      BY <3>2 DEF Planned
    <3>5. at[i] = j
      BY <2>1, <3>3, <3>4, WorldAssumption
    <3> QED
      BY <2>1, <3>4, <3>5, RegionIsReal
  <2>3. loaded = Loading \/ loaded = <<>>
    BY DEF LoadInv, PlanRead
  <2>4. CASE loaded = <<>>
    BY <2>4
  <2> QED
    BY <2>2, <2>3, <2>4
<1> QED
  BY <1>1, AlwaysLoads, PTL

\* An address is loaded once.
LEMMA OneOfAnAddress ==
    ASSUME world \in Worlds, NEW i \in DOMAIN Loading, NEW j \in DOMAIN Loading,
           Loading[i].address = Loading[j].address
    PROVE  i = j
<1>1. PICK at : Comes(at)
  BY Loads
<1>2. at[i] \in Wanted /\ at[j] \in Wanted
  BY <1>1 DEF Comes
<1>3. Loading[i].address = world[at[i]].address /\ Loading[j].address = world[at[j]].address
  BY <1>1 DEF Comes, Planned
<1>4. /\ at[i] \in DOMAIN world /\ at[j] \in DOMAIN world
      /\ Stays(world[at[i]]) /\ Stays(world[at[j]])
  BY <1>2 DEF Wanted
<1>5. at[i] = at[j]
  BY <1>3, <1>4, WorldAssumption
<1> QED
  BY <1>1, <1>5 DEF Comes

LEMMA VocabularyIsFinite ==
    \A t \in DOMAIN Vocabulary : IsFiniteSet(DOMAIN Vocabulary[t])
<1> DEFINE Items == {"standard_storage", "get_requests", "put_requests", "internet_egress", "traffic",
                     "https_requests", "compute", "invocations", "address_hours"}
<1>1. IsFiniteSet(Items)
  <2> DEFINE A == {} \cup {"standard_storage"} \cup {"get_requests"} \cup {"put_requests"}
             B == A \cup {"internet_egress"} \cup {"traffic"} \cup {"https_requests"}
             C == B \cup {"compute"} \cup {"invocations"} \cup {"address_hours"}
  <2>1. \A S : IsFiniteSet(S) => \A x : IsFiniteSet(S \cup {x})
    BY FS_AddElement
  <2>2. \A S : IsFiniteSet(S) => \A x, y, z : IsFiniteSet(S \cup {x} \cup {y} \cup {z})
    BY <2>1, Zenon
  <2>3. IsFiniteSet(A)
    BY <2>2, FS_EmptySet, Zenon
  <2>4. IsFiniteSet(B)
    <3> HIDE DEF A
    <3> QED
      BY <2>2, <2>3, Zenon
  <2>5. IsFiniteSet(C)
    <3> HIDE DEF B
    <3> QED
      BY <2>2, <2>4, Zenon
  <2>6. C = Items
    OBVIOUS
  <2> HIDE DEF C, Items
  <2> QED
    BY <2>5, <2>6
<1>2. \A t \in DOMAIN Vocabulary : DOMAIN Vocabulary[t] \in SUBSET Items
  BY DEF Vocabulary
<1> QED
  BY <1>1, <1>2, FS_Subset

\* What becomes of a resource, by what is known of it.
LEMMA OutcomeSays ==
    ASSUME NEW r, NEW u, NEW o, o = Outcome(r, u)
    PROVE  /\ o.request = WithLegacyUsage(r, u)
           /\ o.what = "usage_error" =>
                /\ r.type[2] \in DOMAIN Vocabulary /\ r.address \in DOMAIN u.resources
                /\ ~Estimable(Vocabulary[r.type[2]], u.resources[r.address])
           /\ o.what = "cost" =>
                /\ r.type[2] \in DOMAIN Vocabulary /\ r.address \in DOMAIN u.resources
                /\ Estimable(Vocabulary[r.type[2]], u.resources[r.address])
                /\ o.cost = Estimate(u.resources[r.address])
  BY Zenon DEF Outcome

\* No worker ever meets usage it cannot price, in whatever order resources and
\* files come (validateVersionedUsage before priceReport).
THEOREM BadUsageNeverPriced == Spec => []BadUsageStopsTheRun
<1>1. LoadInv => BadUsageStopsTheRun
  <2> SUFFICES ASSUME LoadInv, NEW i \in DOMAIN results, results[i].what = "usage_error"
               PROVE  FALSE
    BY DEF BadUsageStopsTheRun
  <2> DEFINE u == Usage(file)
             r == loaded[i]
  <2>1. results # <<>>
    BY DEF LoadInv, ResultsFollow
  <2>2. stage \in {"price", "done"}
    BY <2>1 DEF LoadInv, UsageChecked
  <2>3. UsageFits(u) /\ Accepted(file) /\ loaded = Loading /\ file \in Files /\ world \in Worlds
    BY <2>2 DEF LoadInv, UsageChecked, UsageRead, PlanRead
  <2>4. results[i] = Outcome(r, u) /\ i \in DOMAIN loaded
    BY <2>3, Loads DEF LoadInv, ResultsFollow
  <2> HIDE DEF u, r
  <2>5. /\ r.address \in DOMAIN u.resources
        /\ ~Estimable(Vocabulary[r.type[2]], u.resources[r.address])
    BY <2>4, OutcomeSays
  <2>6. u.version # 0
    BY <2>3, <2>5, UsageSays DEF u
  <2>7. PICK j \in DOMAIN loaded :
          /\ loaded[j].address = r.address
          /\ Estimable(Vocabulary[loaded[j].type[2]], u.resources[r.address])
    BY <2>3, <2>5, <2>6 DEF UsageFits
  <2>8. j = i
    BY <2>3, <2>4, <2>7, OneOfAnAddress DEF r
  <2> QED
    BY <2>5, <2>7, <2>8 DEF r
<1> QED
  BY <1>1, AlwaysLoads, PTL

\* What the request of a resource says of its attributes.
LEMMA LegacyMerges ==
    ASSUME NEW r, NEW u, "after" \in DOMAIN r, r = [x \in DOMAIN r |-> r[x]]
    PROVE  /\ DOMAIN WithLegacyUsage(r, u).after =
                DOMAIN r.after \cup (IF r.address \in DOMAIN u.legacy THEN DOMAIN u.legacy[r.address] ELSE {})
           /\ \A k \in DOMAIN WithLegacyUsage(r, u).after :
                WithLegacyUsage(r, u).after[k] =
                    IF r.address \in DOMAIN u.legacy /\ k \in DOMAIN u.legacy[r.address]
                    THEN u.legacy[r.address][k] ELSE r.after[k]
<1>1. CASE r.address \in DOMAIN u.legacy
  <2> DEFINE f == u.legacy[r.address]
             g == r.after
             m == MergeUsageIntoAfter(g, f)
  <2>1. m = [x \in DOMAIN g \cup DOMAIN f |-> IF x \in DOMAIN f THEN f[x] ELSE g[x]]
    BY DEF MergeUsageIntoAfter
  <2>2. WithLegacyUsage(r, u) = [r EXCEPT !.after = m]
    BY <1>1 DEF WithLegacyUsage
  <2> HIDE DEF m
  <2>3. WithLegacyUsage(r, u).after = m
    BY <2>2
  <2> QED
    BY <1>1, <2>1, <2>3
<1>2. CASE r.address \notin DOMAIN u.legacy
  BY <1>2 DEF WithLegacyUsage
<1> QED
  BY <1>1, <1>2

\* A cost from usage is what the file states, all of it and for that resource,
\* and a legacy file changes the attributes it names of the resources it names
\* and no other (prepareResourceUsage, EstimateUsage).
THEOREM UsageAlwaysApplied == Spec => []UsageIsApplied
<1>1. ASSUME LoadInv, NEW i \in DOMAIN results
      PROVE  /\ stage \in {"price", "done"} /\ i \in DOMAIN loaded
             /\ results[i] = Outcome(loaded[i], Usage(file))
             /\ Accepted(file) /\ loaded = Loading /\ file \in Files /\ world \in Worlds
  <2>1. results # <<>>
    BY <1>1 DEF LoadInv, ResultsFollow
  <2>2. stage \in {"price", "done"}
    BY <1>1, <2>1 DEF LoadInv, UsageChecked
  <2>3. Accepted(file) /\ loaded = Loading
    BY <1>1, <2>2 DEF LoadInv, UsageRead, PlanRead
  <2> QED
    BY <1>1, <2>2, <2>3, Loads DEF LoadInv, ResultsFollow
<1>2. ASSUME LoadInv, NEW i \in DOMAIN results, results[i].what = "cost"
      PROVE  /\ file.version = {1} /\ loaded[i].address \in DOMAIN The(file.resources)
             /\ DOMAIN The(file.resources)[loaded[i].address] = DOMAIN Vocabulary[loaded[i].type[2]]
             /\ results[i].cost = StatedCost(loaded[i].address)
  <2> DEFINE u == Usage(file)
             a == loaded[i].address
             v == Vocabulary[loaded[i].type[2]]
             rs == The(file.resources)
             items == [id \in DOMAIN rs[a] |-> Item(rs[a][id])]
  <2>1. /\ loaded[i].type[2] \in DOMAIN Vocabulary
        /\ a \in DOMAIN u.resources
        /\ Estimable(v, u.resources[a]) /\ results[i].cost = Estimate(u.resources[a])
    BY <1>1, <1>2, OutcomeSays
  <2>2. /\ file.version = {1} /\ rs \in file.resources
        /\ u.resources = [x \in DOMAIN rs |-> [id \in DOMAIN rs[x] |-> Item(rs[x][id])]]
    <3>1. DOMAIN u.resources # {}
      BY <2>1
    <3> QED
      BY <1>1, <1>2, <3>1, UsageSays
  <2>3. a \in DOMAIN rs /\ u.resources[a] = items
    BY <2>1, <2>2
  <2>4. DOMAIN items = DOMAIN rs[a]
    OBVIOUS
  <2>5. DOMAIN rs[a] = DOMAIN v
    BY <2>1, <2>3, <2>4 DEF Estimable
  <2>6. IsFiniteSet(DOMAIN v)
    BY <2>1, VocabularyIsFinite
  <2>7. \A id \in DOMAIN rs[a] : Readable(rs[a][id])
    BY <1>1, <1>2, <2>2, <2>3, FilesAssumption
  <2>8. \A id \in DOMAIN rs[a] : ValidItem(id, rs[a][id])
    <3>1. ValidResources(rs)
      <4> HIDE DEF rs
      <4>1. Accepted(file) /\ file.version = {1} /\ rs \in file.resources
        BY <1>1, <1>2, <2>2
      <4>2. file.documents # 0
        BY <1>1, <1>2, <2>1, UsageSays DEF Usage, Nothing
      <4> QED
        BY <4>1, <4>2 DEF Accepted
    <3> QED
      BY <2>3, <3>1 DEF ValidResources
  <2>9. \A id \in DOMAIN items : MonthlyCost(items[id]) \in Int
    BY <2>7, <2>8, ItemCosts
  <2>10. Estimate(items) = StatedCost(a)
    <3>1. IsFiniteSet(DOMAIN items)
      BY <2>4, <2>5, <2>6
    <3> HIDE DEF items
    <3>2. Estimate(items) = [c \in {items[id].currency : id \in DOMAIN items} |->
             SumFunction([id \in DOMAIN items |-> IF items[id].currency = c THEN MonthlyCost(items[id]) ELSE 0])]
      BY <2>9, <3>1, EstimateIsStated
    <3> QED
      BY <3>2 DEF StatedCost, items
  <2> QED
    BY <2>1, <2>2, <2>3, <2>5, <2>10
<1> DEFINE legacy(a) == file.documents = 1 /\ file.version = {} /\ a \in DOMAIN file.legacy
<1>3. ASSUME LoadInv, NEW i \in DOMAIN results
      PROVE  LET a == loaded[i].address
                 after == results[i].request.after
             IN  /\ DOMAIN after =
                      DOMAIN loaded[i].after \cup (IF legacy(a) THEN DOMAIN file.legacy[a] ELSE {})
                 /\ \A k \in DOMAIN after : after[k] =
                      IF legacy(a) /\ k \in DOMAIN file.legacy[a]
                      THEN file.legacy[a][k] ELSE loaded[i].after[k]
  <2> DEFINE u == Usage(file)
             r == loaded[i]
  <2>1. PICK at : Comes(at)
    BY <1>1, <1>3, Loads
  <2>2. r = Planned(PlanDocument, world[at[i]])
    BY <1>1, <1>3, <2>1 DEF Comes
  <2>3. "after" \in DOMAIN r /\ r = [x \in DOMAIN r |-> r[x]]
    BY <2>2 DEF Planned
  <2>4. results[i].request = WithLegacyUsage(r, u)
    BY <1>1, <1>3, OutcomeSays
  <2> HIDE DEF r, u
  <2> DEFINE after == results[i].request.after
  <2>5. /\ DOMAIN after =
             DOMAIN r.after \cup (IF r.address \in DOMAIN u.legacy THEN DOMAIN u.legacy[r.address] ELSE {})
        /\ \A k \in DOMAIN after :
             after[k] = IF r.address \in DOMAIN u.legacy /\ k \in DOMAIN u.legacy[r.address]
                        THEN u.legacy[r.address][k] ELSE r.after[k]
    BY <2>3, <2>4, LegacyMerges
  <2>6. /\ DOMAIN u.legacy # {} =>
            file.documents = 1 /\ file.version = {} /\ u.legacy = file.legacy
        /\ file.documents = 1 /\ file.version = {} => u.legacy = file.legacy
    BY <1>1, <1>3, UsageSays DEF u
  <2>7. r.address \in DOMAIN u.legacy <=> legacy(r.address)
    BY <2>6
  <2>8. legacy(r.address) => u.legacy = file.legacy
    BY <2>6
  <2> HIDE DEF after, legacy
  <2>9. /\ DOMAIN after = DOMAIN r.after \cup (IF legacy(r.address) THEN DOMAIN file.legacy[r.address] ELSE {})
        /\ \A k \in DOMAIN after :
             after[k] = IF legacy(r.address) /\ k \in DOMAIN file.legacy[r.address]
                        THEN file.legacy[r.address][k] ELSE r.after[k]
    BY <2>5, <2>7, <2>8
  <2> QED
    BY <2>9 DEF r, after
<1>4. LoadInv => UsageIsApplied
  BY <1>2, <1>3, Zenon DEF UsageIsApplied
<1> QED
  BY <1>4, AlwaysLoads, PTL
=============================================================================
