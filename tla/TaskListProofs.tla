--------------------------- MODULE TaskListProofs ---------------------------
(***************************************************************************)
(* What Only, Erase and RemoveAt return: the nodes that are kept, each     *)
(* once, in their order.                                                   *)
(***************************************************************************)
EXTENDS TaskList, FiniteSetTheorems, FunctionTheorems, SequenceTheorems, TLAPS

\* Numbered runs through a finite set of positions upwards, each once (the
\* renumbering behind erase() in RemoveTasks).
LEMMA NumberedProperties ==
  ASSUME NEW n \in Nat, NEW K \in SUBSET (1..n)
  PROVE  /\ Cardinality(K) \in Nat
         /\ Numbered(K) \in [1..Cardinality(K) -> K]
         /\ \A i, j \in 1..Cardinality(K) : i < j => Numbered(K)[i] < Numbered(K)[j]
         /\ \A k \in K : \E j \in 1..Cardinality(K) : Numbered(K)[j] = k
<1> DEFINE m == Cardinality(K)
           Upto(i) == {k \in K : k <= i}
           Rank(i) == Cardinality(Upto(i))
           nth(j) == CHOOSE i \in K : Rank(i) = j
           r == [i \in K |-> Rank(i)]
<1>0. \A i \in K : i \in Nat
  OBVIOUS
<1>1. IsFiniteSet(K) /\ m \in Nat
  <2>1. IsFiniteSet(1..n)
    BY FS_Interval
  <2>2. QED
    BY <2>1, FS_Subset, FS_CardinalityType
<1>2. ASSUME NEW i \in K
      PROVE  IsFiniteSet(Upto(i)) /\ Rank(i) \in Nat /\ Rank(i) \in 1..m
  <2>1. Upto(i) \in SUBSET K /\ i \in Upto(i)
    BY <1>0
  <2>2. IsFiniteSet(Upto(i)) /\ Rank(i) \in Nat /\ Rank(i) <= m /\ Rank(i) # 0
    BY <2>1, <1>1, FS_Subset, FS_CardinalityType, FS_EmptySet
  <2> HIDE DEF Rank, m
  <2>3. QED
    BY <2>2, <1>1
<1>3. ASSUME NEW i \in K, NEW j \in K, i < j
      PROVE  Rank(i) < Rank(j)
  <2>1. Upto(i) \in SUBSET Upto(j)
    <3>1. \A k \in K : k <= i => k <= j
      BY <1>0, <1>3
    <3>2. QED
      BY <3>1
  <2>2. j \in Upto(j) /\ j \notin Upto(i)
    BY <1>0, <1>3
  <2>3. Rank(i) <= Rank(j) /\ Rank(i) # Rank(j)
    BY <2>1, <2>2, <1>2, FS_Subset
  <2>4. Rank(i) \in Nat /\ Rank(j) \in Nat
    BY <1>2
  <2> HIDE DEF Rank
  <2>5. QED
    BY <2>3, <2>4
<1> HIDE DEF Rank
<1>4. ASSUME NEW i \in K, NEW j \in K, Rank(i) = Rank(j)
      PROVE  i = j
  <2>1. Rank(i) \in Nat /\ Rank(j) \in Nat
    BY <1>2
  <2>2. ~(i < j) /\ ~(j < i)
    BY <2>1, <1>3, <1>4
  <2>3. QED
    BY <2>2, <1>0
<1>5. \A j \in 1..m : \E i \in K : Rank(i) = j
  <2>1. r \in Injection(K, 1..m)
    BY <1>2, <1>4, Fun_IsInj
  <2>2. IsFiniteSet(1..m) /\ Cardinality(1..m) = m
    BY <1>1, FS_Interval
  <2>3. r \in Surjection(K, 1..m)
    BY <2>1, <2>2, FS_Injection
  <2>4. \A i \in K : r[i] = Rank(i)
    OBVIOUS
  <2> HIDE DEF r, m
  <2>5. QED
    <3>1. \A j \in 1..m : \E i \in K : r[i] = j
      BY <2>3, Fun_SurjectionProperties
    <3>2. QED
      BY <3>1, <2>4
<1>6. \A j \in 1..m : nth(j) \in K /\ Rank(nth(j)) = j
  BY <1>5
<1>7. DOMAIN Numbered(K) = 1..m /\ \A j \in 1..m : Numbered(K)[j] = nth(j)
  BY DEF Numbered, Rank
<1>8. \A i, j \in 1..m : i < j => nth(i) < nth(j)
  <2> SUFFICES ASSUME NEW i \in 1..m, NEW j \in 1..m, i < j, ~(nth(i) < nth(j))
               PROVE  FALSE
    OBVIOUS
  <2>1. nth(i) \in K /\ nth(j) \in K /\ nth(i) \in Nat /\ nth(j) \in Nat
    BY <1>6, <1>0
  <2>2. nth(j) < nth(i) \/ nth(j) = nth(i)
    BY <2>1
  <2>3. j < i \/ j = i
    BY <2>2, <2>1, <1>3, <1>6
  <2>4. QED
    BY <2>3
<1>9. \A k \in K : \E j \in 1..m : nth(j) = k
  <2>1. TAKE k \in K
  <2>2. Rank(k) \in 1..m
    BY <1>2
  <2>3. nth(Rank(k)) \in K /\ Rank(nth(Rank(k))) = Rank(k)
    BY <2>2, <1>6
  <2>4. QED
    BY <2>2, <2>3, <1>4
<1>10. Numbered(K) \in [1..m -> K]
  <2>1. Numbered(K) = [j \in 1..m |-> nth(j)]
    BY DEF Numbered, Rank
  <2> HIDE DEF nth, m
  <2>2. QED
    BY <2>1, <1>6
<1> HIDE DEF nth
<1>11. QED
  BY <1>1, <1>7, <1>8, <1>9, <1>10

\* A finite set of positions that is not empty has a first (the scans of
\* g_lstTask stop at one).
LEMMA FirstPosition ==
  ASSUME NEW n \in Nat, NEW K \in SUBSET (1..n), K # {}
  PROVE  \E k \in K : \A i \in K : k <= i
<1> DEFINE m == Cardinality(K)
<1>1. /\ m \in Nat
      /\ Numbered(K) \in [1..m -> K]
      /\ \A i, j \in 1..m : i < j => Numbered(K)[i] < Numbered(K)[j]
      /\ \A k \in K : \E j \in 1..m : Numbered(K)[j] = k
  BY NumberedProperties
<1>0. \A k \in K : k \in Nat
  OBVIOUS
<1> HIDE DEF m
<1>2. 1 \in 1..m /\ Numbered(K)[1] \in K
  <2>1. PICK k \in K : TRUE
    OBVIOUS
  <2>2. PICK j \in 1..m : Numbered(K)[j] = k
    BY <1>1
  <2>3. 1 \in 1..m
    BY <2>2, <1>1
  <2>4. QED
    BY <2>3, <1>1
<1>3. ASSUME NEW i \in K
      PROVE  Numbered(K)[1] <= i
  <2>1. PICK j \in 1..m : Numbered(K)[j] = i
    BY <1>1
  <2>2. Numbered(K)[1] \in Nat /\ i \in Nat
    BY <1>0, <1>2
  <2>3. CASE j = 1
    BY <2>1, <2>2, <2>3
  <2>4. CASE 1 < j
    BY <2>1, <2>2, <2>4, <1>1, <1>2
  <2>5. QED
    BY <2>2, <2>3, <2>4
<1>4. QED
  BY <1>2, <1>3

\* And a last.
LEMMA LastPosition ==
  ASSUME NEW n \in Nat, NEW K \in SUBSET (1..n), K # {}
  PROVE  \E k \in K : \A i \in K : i <= k
<1> DEFINE turned == {n + 1 - k : k \in K}
<1>1. turned \in SUBSET (1..n) /\ turned # {}
  <2>1. \A k \in K : n + 1 - k \in 1..n
    OBVIOUS
  <2>2. PICK k \in K : TRUE
    OBVIOUS
  <2>3. n + 1 - k \in turned
    OBVIOUS
  <2>4. QED
    BY <2>1, <2>3
<1>2. \A k \in K : n + 1 - k \in turned
  OBVIOUS
<1>3. \A x \in turned : \E k \in K : x = n + 1 - k
  OBVIOUS
<1> HIDE DEF turned
<1>4. PICK x \in turned : \A y \in turned : x <= y
  BY <1>1, FirstPosition
<1>5. PICK k \in K : x = n + 1 - k
  BY <1>3
<1>6. \A i \in K : i <= k
  BY <1>2, <1>4, <1>5
<1>7. QED
  BY <1>6

\* There is but one way to run through a set upwards, so whatever does is
\* Numbered.
LEMMA NumberedUnique ==
  ASSUME NEW n \in Nat, NEW K \in SUBSET (1..n), NEW m \in Nat, NEW f \in [1..m -> K],
         \A i, j \in 1..m : i < j => f[i] < f[j],
         \A k \in K : \E j \in 1..m : f[j] = k
  PROVE  Cardinality(K) = m /\ \A j \in 1..m : Numbered(K)[j] = f[j]
<1> DEFINE g == Numbered(K)
           Differ == {j \in 1..m : g[j] # f[j]}
<1>0. \A k \in K : k \in Nat
  OBVIOUS
<1>1. \A i, j \in 1..m : f[i] = f[j] => i = j
  <2> SUFFICES ASSUME NEW i \in 1..m, NEW j \in 1..m, f[i] = f[j], i # j
               PROVE  FALSE
    OBVIOUS
  <2>1. f[i] \in Nat /\ f[j] \in Nat
    BY <1>0
  <2>2. i < j \/ j < i
    OBVIOUS
  <2>3. QED
    BY <2>1, <2>2
<1>2. Cardinality(K) = m
  <2>1. f \in Bijection(1..m, K)
    <3>1. f \in Injection(1..m, K)
      BY <1>1 DEF Injection, IsInjective
    <3>2. f \in Surjection(1..m, K)
      BY DEF Surjection
    <3>3. QED
      BY <3>1, <3>2 DEF Bijection
  <2>2. IsFiniteSet(1..m) /\ Cardinality(1..m) = m
    BY FS_Interval
  <2>3. ExistsBijection(1..m, K)
    BY <2>1 DEF ExistsBijection
  <2>4. QED
    BY <2>2, <2>3, FS_Bijection
<1>3. /\ g \in [1..m -> K]
      /\ \A i, j \in 1..m : i < j => g[i] < g[j]
      /\ \A k \in K : \E j \in 1..m : g[j] = k
  BY <1>2, NumberedProperties
<1> HIDE DEF g
<1>4. ASSUME Differ # {}
      PROVE  FALSE
  <2>1. PICK j \in Differ : \A i \in Differ : j <= i
    <3>1. Differ \in SUBSET (1..m)
      OBVIOUS
    <3> HIDE DEF Differ
    <3>2. QED
      BY <1>4, <3>1, FirstPosition
  <2>2. j \in 1..m /\ g[j] # f[j] /\ g[j] \in Nat /\ f[j] \in Nat
    BY <1>0, <1>3
  <2>3. \A i \in 1..m : i < j => g[i] = f[i]
    BY <2>1, <2>2
  <2>4. ASSUME g[j] < f[j]
        PROVE  FALSE
    <3>1. PICK i \in 1..m : f[i] = g[j]
      BY <1>3, <2>2
    <3>2. i < j
      <4>1. i # j
        BY <2>2, <3>1
      <4>2. ~(j < i)
        BY <2>2, <2>4, <3>1
      <4>3. QED
        BY <2>2, <4>1, <4>2
    <3>3. g[i] = g[j] /\ g[i] < g[j]
      BY <1>3, <2>2, <2>3, <3>1, <3>2
    <3>4. QED
      BY <2>2, <3>3
  <2>5. ASSUME f[j] < g[j]
        PROVE  FALSE
    <3>1. PICK i \in 1..m : g[i] = f[j]
      BY <1>3, <2>2
    <3>2. i < j
      <4>1. i # j
        BY <2>2, <3>1
      <4>2. ~(j < i)
        <5>1. j < i => g[j] < g[i]
          BY <1>3, <2>2
        <5>2. QED
          BY <2>2, <2>5, <3>1, <5>1
      <4>3. QED
        BY <2>2, <4>1, <4>2
    <3>3. f[i] = f[j] /\ f[i] < f[j]
      BY <2>2, <2>3, <3>1, <3>2
    <3>4. QED
      BY <2>2, <3>3
  <2>6. QED
    BY <2>2, <2>4, <2>5
<1>5. QED
  BY <1>2, <1>4 DEF g

\* Only has a node for each position kept, and none else, in their order.
LEMMA OnlyProperties ==
  ASSUME NEW T, NEW s \in Seq(T), NEW K \in SUBSET DOMAIN s
  PROVE  /\ Only(s, K) \in Seq(T)
         /\ DOMAIN Only(s, K) = 1..Cardinality(K)
         /\ Cardinality(K) \in Nat
         /\ Numbered(K) \in [1..Cardinality(K) -> K]
         /\ \A j \in 1..Cardinality(K) : Only(s, K)[j] = s[Numbered(K)[j]]
         /\ \A i, j \in 1..Cardinality(K) : i < j => Numbered(K)[i] < Numbered(K)[j]
         /\ \A i, j \in 1..Cardinality(K) : Numbered(K)[i] = Numbered(K)[j] => i = j
         /\ \A k \in K : \E j \in 1..Cardinality(K) : Numbered(K)[j] = k
<1> DEFINE m == Cardinality(K)
           f == Numbered(K)
<1>1. /\ m \in Nat
      /\ f \in [1..m -> K]
      /\ \A i, j \in 1..m : i < j => f[i] < f[j]
      /\ \A k \in K : \E j \in 1..m : f[j] = k
  <2>1. Len(s) \in Nat /\ DOMAIN s = 1..Len(s)
    OBVIOUS
  <2>2. QED
    BY <2>1, NumberedProperties
<1>2. Only(s, K) = [j \in 1..m |-> s[f[j]]]
  BY DEF Only
<1> HIDE DEF m, f
<1>3. \A j \in 1..m : s[f[j]] \in T
  BY <1>1
<1>4. Only(s, K) \in Seq(T)
  BY <1>1, <1>2, <1>3
<1>5. \A i, j \in 1..m : f[i] = f[j] => i = j
  <2> SUFFICES ASSUME NEW i \in 1..m, NEW j \in 1..m, f[i] = f[j], i # j
               PROVE  FALSE
    OBVIOUS
  <2>1. f[i] \in Nat /\ f[j] \in Nat
    BY <1>1
  <2>2. i < j \/ j < i
    BY <1>1
  <2>3. QED
    BY <2>1, <2>2, <1>1
<1>6. QED
  BY <1>1, <1>2, <1>4, <1>5 DEF m, f

\* Erase keeps exactly the nodes that are not in S, no node twice, and every
\* two of them in the order they had.
LEMMA EraseProperties ==
  ASSUME NEW T, NEW s \in Seq(T), NEW S
  PROVE  /\ Erase(s, S) \in Seq(T)
         /\ Members(Erase(s, S)) = Members(s) \ S
         /\ Distinct(s) => Distinct(Erase(s, S))
         /\ \A i, j \in DOMAIN Erase(s, S) : i < j =>
              \E a, b \in DOMAIN s :
                a < b /\ s[a] = Erase(s, S)[i] /\ s[b] = Erase(s, S)[j]
<1> DEFINE K == {i \in DOMAIN s : s[i] \notin S}
           m == Cardinality(K)
           f == Numbered(K)
           e == Only(s, K)
<1>1. Erase(s, S) = e
  BY DEF Erase
<1>2. /\ e \in Seq(T)
      /\ DOMAIN e = 1..m
      /\ f \in [1..m -> K]
      /\ \A j \in 1..m : e[j] = s[f[j]]
      /\ \A i, j \in 1..m : i < j => f[i] < f[j]
      /\ \A i, j \in 1..m : f[i] = f[j] => i = j
      /\ \A k \in K : \E j \in 1..m : f[j] = k
  <2>1. K \in SUBSET DOMAIN s
    OBVIOUS
  <2> HIDE DEF K
  <2>2. QED
    BY <2>1, OnlyProperties
<1>3. \A i \in DOMAIN s : i \in K <=> s[i] \notin S
  OBVIOUS
<1>4. K \subseteq DOMAIN s
  OBVIOUS
<1> HIDE DEF K, m, f, e
<1>5. Members(e) = Members(s) \ S
  <2>1. ASSUME NEW x \in Members(e)
        PROVE  x \in Members(s) \ S
    BY <2>1, <1>2, <1>3, <1>4 DEF Members
  <2>2. ASSUME NEW x \in Members(s) \ S
        PROVE  x \in Members(e)
    <3>1. PICK i \in K : x = s[i]
      BY <2>2, <1>3 DEF Members
    <3>2. PICK j \in 1..m : f[j] = i
      BY <1>2
    <3>3. QED
      BY <3>1, <3>2, <1>2 DEF Members
  <2>3. QED
    BY <2>1, <2>2
<1>6. Distinct(s) => Distinct(e)
  <2> SUFFICES ASSUME Distinct(s), NEW i \in 1..m, NEW j \in 1..m, e[i] = e[j]
               PROVE  i = j
    BY <1>2 DEF Distinct
  <2>1. f[i] \in DOMAIN s /\ f[j] \in DOMAIN s /\ s[f[i]] = s[f[j]]
    BY <1>2, <1>4
  <2>2. f[i] = f[j]
    BY <2>1 DEF Distinct
  <2>3. QED
    BY <2>2, <1>2
<1>7. ASSUME NEW i \in DOMAIN e, NEW j \in DOMAIN e, i < j
      PROVE  \E a, b \in DOMAIN s : a < b /\ s[a] = e[i] /\ s[b] = e[j]
  <2>1. f[i] \in DOMAIN s /\ f[j] \in DOMAIN s /\ f[i] < f[j]
    BY <1>2, <1>4, <1>7
  <2>2. QED
    BY <2>1, <1>2
<1>8. QED
  BY <1>1, <1>2, <1>5, <1>6, <1>7

\* RemoveAt(s, i): when one node is erased those behind it move up (erase(it)
\* for a control that is over).
LEMMA RemoveAtProperties ==
  ASSUME NEW T, NEW s \in Seq(T), NEW i \in DOMAIN s
  PROVE  LET r == SubSeq(s, 1, i - 1) \o SubSeq(s, i + 1, Len(s))
         IN  /\ r \in Seq(T)
             /\ Len(r) = Len(s) - 1
             /\ \A j \in 1..Len(s) - 1 : r[j] = IF j < i THEN s[j] ELSE s[j + 1]
<1> DEFINE a == SubSeq(s, 1, i - 1)
           b == SubSeq(s, i + 1, Len(s))
<1>1. Len(s) \in Nat /\ i \in 1..Len(s) /\ \A j \in 1..Len(s) : s[j] \in T
  OBVIOUS
<1>2. /\ a \in Seq(T) /\ Len(a) = i - 1
      /\ \A j \in 1..i - 1 : a[j] = s[j]
  <2>1. 1 \in Int /\ i - 1 \in Int /\ \A j \in 1..i - 1 : s[j] \in T
    BY <1>1
  <2>2. /\ a \in Seq(T)
        /\ Len(a) = IF 1 <= i - 1 THEN (i - 1) - 1 + 1 ELSE 0
        /\ \A j \in 1..(i - 1) - 1 + 1 : a[j] = s[1 + j - 1]
    BY <2>1, SubSeqProperties
  <2>3. (i - 1) - 1 + 1 = i - 1 /\ (1 <= i - 1 \/ i - 1 = 0) /\ \A j \in Int : 1 + j - 1 = j
    BY <1>1
  <2> HIDE DEF a
  <2>4. QED
    BY <2>2, <2>3, <1>1
<1>3. /\ b \in Seq(T) /\ Len(b) = Len(s) - i
      /\ \A j \in 1..Len(s) - i : b[j] = s[i + j]
  <2>1. i + 1 \in Int /\ Len(s) \in Int /\ \A j \in i + 1..Len(s) : s[j] \in T
    BY <1>1
  <2>2. /\ b \in Seq(T)
        /\ Len(b) = IF i + 1 <= Len(s) THEN Len(s) - (i + 1) + 1 ELSE 0
        /\ \A j \in 1..Len(s) - (i + 1) + 1 : b[j] = s[(i + 1) + j - 1]
    BY <2>1, SubSeqProperties
  <2>3. /\ Len(s) - (i + 1) + 1 = Len(s) - i
        /\ i + 1 <= Len(s) \/ Len(s) - i = 0
    BY <1>1
  <2>4. \A j \in Int : (i + 1) + j - 1 = i + j
    BY <1>1
  <2> HIDE DEF b
  <2>5. b \in Seq(T) /\ Len(b) = Len(s) - i
    BY <2>2, <2>3
  <2>6. ASSUME NEW j \in 1..Len(s) - i
        PROVE  b[j] = s[i + j]
    <3>1. j \in Int /\ j \in 1..Len(s) - (i + 1) + 1
      BY <1>1, <2>3
    <3>2. b[j] = s[(i + 1) + j - 1]
      BY <2>2, <3>1
    <3>3. QED
      BY <2>4, <3>1, <3>2
  <2>7. QED
    BY <2>5, <2>6
<1> HIDE DEF a, b
<1>4. /\ a \o b \in Seq(T)
      /\ Len(a \o b) = Len(a) + Len(b)
      /\ \A j \in 1..Len(a) + Len(b) : (a \o b)[j] = IF j <= Len(a) THEN a[j] ELSE b[j - Len(a)]
  BY <1>2, <1>3, ConcatProperties
<1>5. Len(a) + Len(b) = Len(s) - 1
  BY <1>1, <1>2, <1>3
<1>6. ASSUME NEW j \in 1..Len(s) - 1
      PROVE  (a \o b)[j] = IF j < i THEN s[j] ELSE s[j + 1]
  <2>1. (a \o b)[j] = IF j <= i - 1 THEN a[j] ELSE b[j - (i - 1)]
    BY <1>2, <1>4, <1>5
  <2>2. CASE j < i
    <3>1. j <= i - 1 /\ j \in 1..i - 1
      BY <1>1, <2>2
    <3>2. QED
      BY <2>1, <2>2, <3>1, <1>2
  <2>3. CASE ~(j < i)
    <3>1. ~(j <= i - 1) /\ j - (i - 1) \in 1..Len(s) - i /\ i + (j - (i - 1)) = j + 1
      BY <1>1, <2>3
    <3>2. QED
      BY <2>1, <2>3, <3>1, <1>3
  <2>4. QED
    BY <2>2, <2>3
<1>7. QED
  BY <1>4, <1>5, <1>6 DEF a, b
=============================================================================
