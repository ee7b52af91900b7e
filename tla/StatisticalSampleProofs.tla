----------------------- MODULE StatisticalSampleProofs -----------------------
(***************************************************************************)
(* Lemmas about the operators of StatisticalSample, for all rows, numbers  *)
(* of attempts and sets of samples: what a rule has seen stays seen when   *)
(* rows arrive, samples are given up or samples with higher numbers are    *)
(* issued, and InOrder is the one increasing enumeration of a set.  The    *)
(* proofs about ClusterRun, DkwStages and SampleFeed rest on them.         *)
(***************************************************************************)
EXTENDS StatisticalSample, FiniteSetTheorems, SequenceTheorems,
        NaturalsInduction, WellFoundedInduction, TLAPS

\* A set of natural numbers has a smallest member.
LEMMA Smallest ==
    ASSUME NEW T, T \subseteq Nat, T # {}
    PROVE  \E n \in T : \A m \in T : n <= m
<1>1. PICK n \in T : \A m \in T : <<m, n>> \notin OpToRel(<, Nat)
  BY NatLessThanWellFounded, WFMin, Zenon
<1>2. ASSUME NEW m \in T PROVE n <= m
  <2>1. m \in Nat /\ n \in Nat /\ ~(m < n)
    BY <1>1, <1>2 DEF OpToRel
  <2> QED
    BY <2>1
<1> QED
  BY <1>2

\* InOrder lists the members of a set of numbers, each of them once, in
\* increasing order: the numbers of smaller members are all different.
LEMMA InOrderFacts ==
    ASSUME NEW S, S \subseteq Nat, IsFiniteSet(S)
    PROVE  /\ Cardinality(S) \in Nat
           /\ InOrder(S) \in [1 .. Cardinality(S) -> S]
           /\ InOrder(S) \in Seq(S)
           /\ Len(InOrder(S)) = Cardinality(S)
           /\ \A i, j \in 1 .. Cardinality(S) :
                 i < j => InOrder(S)[i] < InOrder(S)[j]
           /\ \A s \in S : \E i \in 1 .. Cardinality(S) : InOrder(S)[i] = s
<1> DEFINE n == Cardinality(S)
           Below(s) == {t \in S : t < s}
           rank == [s \in S |-> Cardinality(Below(s))]
<1>1. n \in Nat
  BY FS_CardinalityType
<1>2. \A s \in S : IsFiniteSet(Below(s)) /\ Cardinality(Below(s)) \in Nat
  BY FS_Subset, FS_CardinalityType
<1>3. ASSUME NEW s \in S PROVE Cardinality(Below(s)) < n
  <2>1. Below(s) \in SUBSET S /\ s \notin Below(s)
    BY <1>3
  <2>2. Cardinality(Below(s)) <= n /\ Cardinality(Below(s)) # n
    <3> HIDE DEF Below
    <3> QED
      BY <1>3, <2>1, FS_Subset
  <2> HIDE DEF Below, n
  <2> QED
    BY <1>1, <1>2, <2>2
<1>4. ASSUME NEW s \in S, NEW t \in S, s < t
      PROVE  Cardinality(Below(s)) < Cardinality(Below(t))
  <2>1. Below(s) \in SUBSET Below(t) /\ s \in Below(t) /\ s \notin Below(s)
    <3>1. s \in Nat /\ t \in Nat /\ \A u \in S : u \in Nat
      OBVIOUS
    <3>2. ~(s < s) /\ \A u \in S : u < s => u < t
      BY <1>4, <3>1
    <3> QED
      BY <1>4, <3>2
  <2>2. /\ Cardinality(Below(s)) <= Cardinality(Below(t))
        /\ Cardinality(Below(s)) # Cardinality(Below(t))
    <3> HIDE DEF Below
    <3> QED
      BY <1>2, <2>1, FS_Subset
  <2> HIDE DEF Below
  <2> QED
    BY <1>2, <2>2
<1>5. rank \in Injection(S, 0 .. n - 1)
  <2>1. rank \in [S -> 0 .. n - 1]
    <3> HIDE DEF Below, n
    <3> QED
      BY <1>1, <1>2, <1>3
  <2>2. ASSUME NEW s \in S, NEW t \in S, rank[s] = rank[t] PROVE s = t
    <3>1. Cardinality(Below(s)) = Cardinality(Below(t))
      BY <2>2
    <3>2. s \in Nat /\ t \in Nat
      OBVIOUS
    <3> HIDE DEF Below
    <3> QED
      BY <1>2, <1>4, <3>1, <3>2
  <2> HIDE DEF rank
  <2> QED
    BY <2>1, <2>2 DEF Injection, IsInjective
<1>6. IsFiniteSet(0 .. n - 1) /\ Cardinality(0 .. n - 1) = n
  <2>1. 0 \in Int /\ n - 1 \in Int
    BY <1>1
  <2>2. Cardinality(0 .. n - 1) = IF 0 > n - 1 THEN 0 ELSE (n - 1) - 0 + 1
    BY <2>1, FS_Interval
  <2>3. IsFiniteSet(0 .. n - 1)
    BY <2>1, FS_Interval
  <2> HIDE DEF n
  <2> QED
    BY <1>1, <2>2, <2>3
<1>7. rank \in Surjection(S, 0 .. n - 1)
  <2> HIDE DEF rank
  <2> QED
    BY <1>5, <1>6, FS_Injection
<1>8. ASSUME NEW i \in 1 .. n
      PROVE  \E s \in S : Cardinality(Below(s)) = i - 1
  <2>1. i - 1 \in 0 .. n - 1
    <3> HIDE DEF n
    <3> QED
      BY <1>1
  <2>2. \E s \in S : rank[s] = i - 1
    <3> HIDE DEF rank, n
    <3> QED
      BY <1>7, <2>1 DEF Surjection
  <2> QED
    BY <2>2
<1>9. InOrder(S) \in [1 .. n -> S]
  <2>1. \A i \in 1 .. n :
           (CHOOSE s \in S : Cardinality(Below(s)) = i - 1) \in S
    <3> HIDE DEF Below, n
    <3> QED
      BY <1>8
  <2> QED
    BY <2>1 DEF InOrder
<1>10. ASSUME NEW i \in 1 .. n PROVE rank[InOrder(S)[i]] = i - 1
  <2>1. InOrder(S)[i] = CHOOSE s \in S : Cardinality(Below(s)) = i - 1
    BY DEF InOrder
  <2>2. InOrder(S)[i] \in S /\ Cardinality(Below(InOrder(S)[i])) = i - 1
    <3> HIDE DEF Below, n
    <3> QED
      BY <1>8, <2>1
  <2> QED
    BY <2>2
<1>11. ASSUME NEW i \in 1 .. n, NEW j \in 1 .. n, i < j
       PROVE  InOrder(S)[i] < InOrder(S)[j]
  <2> DEFINE s == InOrder(S)[i]
             t == InOrder(S)[j]
  <2>1. s \in S /\ t \in S
    <3> HIDE DEF n
    <3> QED
      BY <1>9
  <2>2. rank[s] = i - 1 /\ rank[t] = j - 1
    <3> HIDE DEF rank, n
    <3> QED
      BY <1>10
  <2>3. t < s => rank[t] < rank[s]
    <3> HIDE DEF s, t
    <3>1. rank[t] = Cardinality(Below(t)) /\ rank[s] = Cardinality(Below(s))
      BY <2>1
    <3> HIDE DEF Below, rank
    <3> QED
      BY <1>4, <2>1, <3>1
  <2>4. i \in Int /\ j \in Int /\ s \in Nat /\ t \in Nat
    <3> HIDE DEF s, t, n
    <3> QED
      BY <1>1, <2>1
  <2>5. s # t
    <3> HIDE DEF s, t, n, rank
    <3> QED
      BY <1>11, <2>2, <2>4
  <2>6. ~(t < s)
    <3> HIDE DEF s, t, n, rank
    <3> QED
      BY <1>11, <2>2, <2>3, <2>4
  <2> HIDE DEF s, t, n, rank
  <2>7. s < t
    BY <2>4, <2>5, <2>6
  <2> QED
    BY <2>7 DEF s, t
<1>12. ASSUME NEW s \in S PROVE \E i \in 1 .. n : InOrder(S)[i] = s
  <2> DEFINE i == rank[s] + 1
  <2>1. rank[s] \in 0 .. n - 1
    <3> HIDE DEF rank, n
    <3> QED
      BY <1>5 DEF Injection
  <2>2. i \in 1 .. n /\ i - 1 = rank[s]
    <3> HIDE DEF rank, n
    <3> QED
      BY <1>1, <2>1
  <2>3. rank[InOrder(S)[i]] = rank[s] /\ InOrder(S)[i] \in S
    <3> HIDE DEF rank, n, i
    <3> QED
      BY <1>9, <1>10, <2>2
  <2>4. InOrder(S)[i] = s
    <3> HIDE DEF rank, n, i
    <3> QED
      BY <1>5, <2>3 DEF Injection, IsInjective
  <2> HIDE DEF i
  <2> QED
    BY <2>2, <2>4
<1> HIDE DEF n
<1>13. InOrder(S) \in Seq(S) /\ Len(InOrder(S)) = n
  BY <1>1, <1>9
<1> QED
  BY <1>1, <1>9, <1>11, <1>12, <1>13 DEF n

\* The first n values of q are the members of S in increasing order.
Lists(q, n, S) ==
    /\ q \in [1 .. n -> S]
    /\ \A i, j \in 1 .. n : i < j => q[i] < q[j]
    /\ \A s \in S : \E i \in 1 .. n : q[i] = s

\* The members of a set of numbers that q gives in increasing order are as many
\* as q gives, each the one with as many smaller members as come before it.
LEMMA EnumerationIsInOrder ==
    ASSUME NEW S, S \subseteq Nat, NEW n \in Nat, NEW q \in [1 .. n -> S],
           \A i, j \in 1 .. n : i < j => q[i] < q[j],
           \A s \in S : \E i \in 1 .. n : q[i] = s
    PROVE  IsFiniteSet(S) /\ Cardinality(S) = n /\ InOrder(S) = q
<1> DEFINE Below(s) == {t \in S : t < s}
<1>0. \A i \in 1 .. n : i \in Int /\ q[i] \in Nat
  <2> SUFFICES ASSUME NEW i \in 1 .. n PROVE i \in Int /\ q[i] \in Nat
    OBVIOUS
  <2>1. i \in Int
    OBVIOUS
  <2>2. q[i] \in S
    OBVIOUS
  <2> QED
    BY <2>1, <2>2
<1>1. \A i, j \in 1 .. n : i # j => q[i] # q[j]
  <2> SUFFICES ASSUME NEW i \in 1 .. n, NEW j \in 1 .. n, i # j
               PROVE  q[i] # q[j]
    OBVIOUS
  <2>1. q[i] \in Nat /\ q[j] \in Nat /\ (i < j \/ j < i)
    <3>1. i \in Int /\ j \in Int /\ q[i] \in Nat /\ q[j] \in Nat
      BY <1>0
    <3> QED
      BY <3>1
  <2> QED
    BY <2>1
<1>2. ASSUME NEW k \in 0 .. n
      PROVE  LET T == {q[i] : i \in 1 .. k}
             IN  IsFiniteSet(T) /\ Cardinality(T) = k
  <2> DEFINE T == {q[i] : i \in 1 .. k}
             f == [i \in 1 .. k |-> q[i]]
  <2>1. k \in Nat /\ 1 .. k \subseteq 1 .. n
    OBVIOUS
  <2>2. f \in Bijection(1 .. k, T)
    <3>1. \A i, j \in 1 .. k : f[i] = f[j] => i = j
      BY <1>1, <2>1
    <3>2. f \in [1 .. k -> T] /\ \A t \in T : \E i \in 1 .. k : f[i] = t
      OBVIOUS
    <3> QED
      BY <3>1, <3>2 DEF Bijection, Injection, Surjection, IsInjective
  <2>3. IsFiniteSet(1 .. k) /\ Cardinality(1 .. k) = k
    <3>1. 1 \in Int /\ k \in Int
      BY <2>1
    <3>2. IsFiniteSet(1 .. k) /\ Cardinality(1 .. k) = IF 1 > k THEN 0 ELSE k - 1 + 1
      BY <3>1, FS_Interval
    <3> QED
      BY <2>1, <3>2
  <2>4. ExistsBijection(1 .. k, T)
    BY <2>2 DEF ExistsBijection
  <2>5. IsFiniteSet(T) /\ Cardinality(T) = Cardinality(1 .. k)
    <3> HIDE DEF T
    <3> QED
      BY <2>3, <2>4, FS_Bijection
  <2> QED
    BY <2>3, <2>5
<1>3. S = {q[i] : i \in 1 .. n}
  OBVIOUS
<1>4. IsFiniteSet(S) /\ Cardinality(S) = n
  <2>1. n \in 0 .. n
    OBVIOUS
  <2> QED
    BY <1>2, <1>3, <2>1
<1>5. ASSUME NEW i \in 1 .. n PROVE Cardinality(Below(q[i])) = i - 1
  <2>1. i - 1 \in 0 .. n
    OBVIOUS
  <2>2. \A j \in 1 .. n : q[j] < q[i] <=> j \in 1 .. i - 1
    <3> SUFFICES ASSUME NEW j \in 1 .. n
                 PROVE  q[j] < q[i] <=> j \in 1 .. i - 1
      OBVIOUS
    <3>1. /\ i \in Int /\ j \in Int /\ q[i] \in Nat /\ q[j] \in Nat
          /\ i < j \/ j < i \/ i = j
      <4>1. i \in Int /\ j \in Int /\ q[i] \in Nat /\ q[j] \in Nat
        BY <1>0
      <4> QED
        BY <4>1
    <3>2. i < j => q[i] < q[j]
      OBVIOUS
    <3>3. j < i => q[j] < q[i]
      OBVIOUS
    <3>4. j \in 1 .. i - 1 <=> j < i
      OBVIOUS
    <3> QED
      BY <3>1, <3>2, <3>3, <3>4
  <2>3. Below(q[i]) = {q[j] : j \in 1 .. i - 1}
    <3>1. 1 .. i - 1 \subseteq 1 .. n
      OBVIOUS
    <3> QED
      BY <1>3, <2>2, <3>1
  <2> QED
    BY <1>2, <2>1, <2>3
<1>6. ASSUME NEW i \in 1 .. n
      PROVE  (CHOOSE s \in S : Cardinality(Below(s)) = i - 1) = q[i]
  <2>1. ASSUME NEW s \in S PROVE Cardinality(Below(s)) = i - 1 <=> s = q[i]
    <3>1. PICK j \in 1 .. n : q[j] = s
      OBVIOUS
    <3>2. Cardinality(Below(s)) = j - 1 /\ Cardinality(Below(q[i])) = i - 1
      BY <1>5, <3>1
    <3> HIDE DEF Below
    <3> QED
      BY <3>1, <3>2
  <2>2. q[i] \in S
    OBVIOUS
  <2> HIDE DEF Below
  <2> QED
    BY <2>1, <2>2
<1>7. InOrder(S) = [i \in 1 .. n |-> q[i]]
  BY <1>4, <1>6 DEF InOrder
<1> QED
  BY <1>4, <1>7

\* There is one increasing enumeration of a set of numbers: the one InOrder
\* gives.
LEMMA InOrderIs ==
    ASSUME NEW S, S \subseteq Nat, NEW n \in Nat, NEW q, Lists(q, n, S)
    PROVE  IsFiniteSet(S) /\ Cardinality(S) = n /\ InOrder(S) = q
BY EnumerationIsInOrder DEF Lists

\* A new row adds a success or nothing to the positions of the successes.
LEMMA SuccessesOfMore ==
    ASSUME NEW r \in Seq(BOOLEAN), NEW ok \in BOOLEAN
    PROVE  /\ Append(r, ok) \in Seq(BOOLEAN) /\ Append(r, ok) # <<>>
           /\ Len(r) \in Nat /\ Len(Append(r, ok)) = Len(r) + 1
           /\ Successes(r) \subseteq 1 .. Len(r)
           /\ Successes(Append(r, ok)) =
                 Successes(r) \cup (IF ok THEN {Len(r) + 1} ELSE {})
<1> DEFINE q == Append(r, ok)
           n == Len(r)
<1>1. /\ n \in Nat /\ Len(q) = n + 1 /\ q \in Seq(BOOLEAN) /\ q # <<>>
      /\ \A i \in 1 .. n : q[i] = r[i]
      /\ q[n + 1] = ok
      /\ DOMAIN q = 1 .. n + 1 /\ DOMAIN r = 1 .. n
  OBVIOUS
<1>2. /\ Successes(r) = {i \in 1 .. n : r[i]}
      /\ Successes(q) = {i \in 1 .. n + 1 : q[i]}
  BY <1>1 DEF Successes
<1> HIDE DEF q, n
<1>3. ASSUME NEW i
      PROVE  i \in Successes(q) <=>
                i \in Successes(r) \cup (IF ok THEN {n + 1} ELSE {})
  <2>1. i \in 1 .. n + 1 <=> i \in 1 .. n \/ i = n + 1
    BY <1>1
  <2>2. n + 1 \notin 1 .. n
    BY <1>1
  <2>3. CASE i \in 1 .. n
    <3>1. q[i] = r[i] /\ i # n + 1
      BY <1>1, <2>2, <2>3
    <3> QED
      BY <1>2, <2>1, <2>3, <3>1
  <2>4. CASE i = n + 1
    <3>1. i \in Successes(q) <=> ok
      BY <1>1, <1>2, <2>1, <2>4
    <3>2. i \notin Successes(r)
      BY <1>2, <2>2, <2>4
    <3> QED
      BY <2>4, <3>1, <3>2
  <2>5. CASE i \notin 1 .. n /\ i # n + 1
    BY <1>2, <2>1, <2>5
  <2> QED
    BY <2>3, <2>4, <2>5
<1>4. Successes(q) = Successes(r) \cup (IF ok THEN {n + 1} ELSE {})
  BY <1>3
<1>5. Successes(r) \subseteq 1 .. n
  BY <1>2
<1> QED
  BY <1>1, <1>4, <1>5 DEF q, n

\* A sample that needs nothing more needs nothing more after another row.
LEMMA ResolvedStays ==
    ASSUME NEW r \in Seq(BOOLEAN), NEW ok \in BOOLEAN, NEW g, NEW m \in Nat,
           Resolved(r, g, m)
    PROVE  Resolved(Append(r, ok), g, m)
<1>1. Successes(r) \subseteq Successes(Append(r, ok))
  BY SuccessesOfMore
<1>2. Len(r) >= m => Len(Append(r, ok)) >= m
  BY SuccessesOfMore
<1> QED
  BY <1>1, <1>2 DEF Resolved

\* The first success stays the row that stands for its sample.
LEMMA ChosenStays ==
    ASSUME NEW r \in Seq(BOOLEAN), NEW ok \in BOOLEAN, Successes(r) # {}
    PROVE  ChosenRow(Append(r, ok)) = ChosenRow(r)
<1> DEFINE S == Successes(r)
           T == Successes(Append(r, ok))
           n == Len(r)
           First(U, i) == i \in U /\ \A j \in U : i <= j
<1>1. /\ n \in Nat /\ S \subseteq 1 .. n /\ S # {}
      /\ T = S \cup (IF ok THEN {n + 1} ELSE {})
  BY SuccessesOfMore
<1>2. /\ ChosenRow(r) = CHOOSE i \in S : \A j \in S : i <= j
      /\ ChosenRow(Append(r, ok)) = CHOOSE i \in T : \A j \in T : i <= j
  BY <1>1 DEF ChosenRow
<1> HIDE DEF S, T, n
<1>3. PICK f \in S : \A j \in S : f <= j
  <2>1. S \subseteq Nat
    BY <1>1
  <2> QED
    BY <1>1, <2>1, Smallest
<1>4. f \in Nat /\ f <= n /\ \A j \in S : j \in Nat /\ j <= n
  BY <1>1
<1>5. ASSUME NEW i PROVE First(S, i) <=> i = f
  <2>1. First(S, i) => i \in Nat /\ i <= f /\ f <= i
    BY <1>3, <1>4
  <2> QED
    BY <1>3, <1>4, <2>1
<1>6. ASSUME NEW i PROVE First(T, i) <=> i = f
  <2>1. f \in T /\ \A j \in T : f <= j
    BY <1>1, <1>3, <1>4
  <2>2. \A j \in T : j \in Nat
    BY <1>1, <1>4
  <2>3. First(T, i) => i \in Nat /\ i <= f /\ f <= i
    BY <2>1, <2>2
  <2> QED
    BY <1>4, <2>1, <2>3
<1>7. (CHOOSE i \in S : \A j \in S : i <= j) = f
  BY <1>5
<1>8. (CHOOSE i \in T : \A j \in T : i <= j) = f
  BY <1>6
<1> QED
  BY <1>2, <1>7, <1>8

\* Rows and losses are of issued samples, so the samples there is any trace of
\* are those.
LEMMA PrefixIs ==
    ASSUME NEW r, NEW a, NEW d, NEW m, a \subseteq d,
           \A s \in DOMAIN r : r[s] # <<>> => s \in d
    PROVE  Prefix(r, a, d, m) =
              {s \in d : \A t \in d : t <= s => Resolved(r[t], t \in a, m)}
<1>1. Known(r, a, d) = d
  BY DEF Known
<1> QED
  BY <1>1 DEF Prefix

\* More rows, more samples given up and samples with higher numbers hide none
\* of the samples seen.
LEMMA PrefixGrows ==
    ASSUME NEW r, NEW a, NEW d, NEW q, NEW b, NEW e, NEW m,
           a \subseteq d, b \subseteq e, d \subseteq e,
           \A s \in DOMAIN r : r[s] # <<>> => s \in d,
           \A s \in DOMAIN q : q[s] # <<>> => s \in e,
           \A s \in d : \A t \in e : t <= s => t \in d,
           \A s \in d : Resolved(r[s], s \in a, m) => Resolved(q[s], s \in b, m)
    PROVE  Prefix(r, a, d, m) \subseteq Prefix(q, b, e, m)
<1>1. Prefix(r, a, d, m) =
         {s \in d : \A t \in d : t <= s => Resolved(r[t], t \in a, m)}
  BY PrefixIs
<1>2. Prefix(q, b, e, m) =
         {s \in e : \A t \in e : t <= s => Resolved(q[t], t \in b, m)}
  BY PrefixIs
<1> QED
  BY <1>1, <1>2
=============================================================================
