--------------------------- MODULE SampleFeedProofs ---------------------------
(***************************************************************************)
(* Theorems about SampleFeed, for every number of samples, attempts and    *)
(* rows: the pass over the sample numbers gives a rule the resolved prefix *)
(* and nothing else, and the order rows of different samples arrived in    *)
(* does not matter.  The pass is a recursive function, so its value after  *)
(* each turn is found by a smallest counterexample over the turns.         *)
(***************************************************************************)
EXTENDS SampleFeed, StatisticalSampleProofs

-----------------------------------------------------------------------------
(* The state of the pass after its turns.                                  *)

\* What the pass has reached once it has been through the samples of L.
Reached(rows, ab, m, L) ==
    {s \in L : \A t \in L : t <= s => Resolved(rows[t], t \in ab, m)}

\* The samples of S that have a row, in order, each with the row that stands
\* for it.
Pairs(rows, S) ==
    LET seen == InOrder({s \in S : rows[s] # <<>>})
    IN  [i \in DOMAIN seen |-> <<seen[i], ChosenRow(rows[seen[i]])>>]

\* The state of the pass then.
After(rows, ab, m, L) ==
    [chosen |-> Pairs(rows, Reached(rows, ab, m, L)),
     lost |-> Cardinality({s \in Reached(rows, ab, m, L) : rows[s] = <<>>}),
     cut |-> \E s \in L : ~Resolved(rows[s], s \in ab, m)]

\* A member above all others comes last in the order.
LEMMA InOrderAppends ==
    ASSUME NEW S, S \subseteq Nat, IsFiniteSet(S), NEW s \in Nat,
           \A t \in S : t < s
    PROVE  InOrder(S \cup {s}) = Append(InOrder(S), s)
<1> DEFINE n == Cardinality(S)
           o == InOrder(S)
           T == S \cup {s}
           q == Append(o, s)
<1>1. /\ n \in Nat /\ o \in [1 .. n -> S] /\ o \in Seq(S) /\ Len(o) = n
      /\ \A i, j \in 1 .. n : i < j => o[i] < o[j]
      /\ \A t \in S : \E i \in 1 .. n : o[i] = t
  BY InOrderFacts
<1> HIDE DEF n, o
<1>2. /\ DOMAIN q = 1 .. n + 1
      /\ \A i \in 1 .. n : q[i] = o[i]
      /\ q[n + 1] = s
      /\ q \in Seq(T)
  <2>1. o \in Seq(T) /\ s \in T
    <3>1. S \subseteq T
      OBVIOUS
    <3> QED
      BY <1>1, <3>1, SeqMonotonic
  <2> HIDE DEF T
  <2> QED
    BY <1>1, <2>1
<1>3. q \in [1 .. n + 1 -> T]
  <2>1. q \in [1 .. Len(q) -> T] /\ DOMAIN q = 1 .. Len(q)
    <3> HIDE DEF q, T
    <3> QED
      BY <1>2
  <2> HIDE DEF q, T
  <2> QED
    BY <1>2, <2>1
<1> HIDE DEF q
<1>4. \A i \in 1 .. n + 1 : i \in Int /\ (i \in 1 .. n \/ i = n + 1)
  BY <1>1
<1>5. ASSUME NEW i \in 1 .. n + 1, NEW j \in 1 .. n + 1, i < j
      PROVE  q[i] < q[j]
  <2>1. i \in 1 .. n
    BY <1>1, <1>5
  <2>2. CASE j \in 1 .. n
    BY <1>1, <1>2, <1>5, <2>1, <2>2
  <2>3. CASE j = n + 1
    <3>1. o[i] \in S
      BY <1>1, <2>1
    <3> QED
      BY <1>2, <2>1, <2>3, <3>1
  <2> QED
    BY <1>4, <2>2, <2>3
<1>6. ASSUME NEW t \in T PROVE \E i \in 1 .. n + 1 : q[i] = t
  <2>1. CASE t \in S
    <3>1. PICK i \in 1 .. n : o[i] = t
      BY <1>1, <2>1
    <3>2. i \in 1 .. n + 1
      BY <1>1
    <3> QED
      BY <1>2, <3>1, <3>2
  <2>2. CASE t = s
    <3>1. n + 1 \in 1 .. n + 1
      BY <1>1
    <3> QED
      BY <1>2, <2>2, <3>1
  <2> QED
    BY <2>1, <2>2
<1>7. T \subseteq Nat /\ n + 1 \in Nat
  BY <1>1
<1> HIDE DEF T
<1>8. InOrder(T) = q
  <2>1. Lists(q, n + 1, T)
    BY <1>3, <1>5, <1>6 DEF Lists
  <2> QED
    BY <1>7, <2>1, InOrderIs
<1> QED
  BY <1>8 DEF T, q, o

\* A sample above the others, with a row, adds its pair at the end.
LEMMA PairsAppend ==
    ASSUME NEW L, L \subseteq Nat, IsFiniteSet(L), NEW s \in Nat,
           \A t \in L : t < s, NEW rows, rows[s] # <<>>
    PROVE  Pairs(rows, L \cup {s}) =
              Append(Pairs(rows, L), <<s, ChosenRow(rows[s])>>)
<1> DEFINE A == {t \in L : rows[t] # <<>>}
           B == {t \in L \cup {s} : rows[t] # <<>>}
           a == InOrder(A)
           b == InOrder(B)
           P(c) == [i \in DOMAIN c |-> <<c[i], ChosenRow(rows[c[i]])>>]
<1>1. B = A \cup {s}
  OBVIOUS
<1>2. A \subseteq Nat /\ IsFiniteSet(A) /\ \A t \in A : t < s
  BY FS_Subset
<1>3. b = Append(a, s)
  <2> HIDE DEF A, B
  <2> QED
    BY <1>1, <1>2, InOrderAppends
<1>4. a \in Seq(A) /\ Cardinality(A) \in Nat
  <2> HIDE DEF A
  <2> QED
    BY <1>2, InOrderFacts
<1>5. P(b) = Append(P(a), <<s, ChosenRow(rows[s])>>)
  <2> DEFINE n == Len(a)
  <2>1. n \in Nat /\ DOMAIN a = 1 .. n
    <3> HIDE DEF a, A
    <3> QED
      BY <1>4
  <2>2. /\ DOMAIN b = 1 .. n + 1
        /\ \A i \in 1 .. n : b[i] = a[i]
        /\ b[n + 1] = s
    <3> HIDE DEF a, A, b
    <3> QED
      BY <1>3, <1>4
  <2> HIDE DEF a, b, A, n
  <2> DEFINE x == <<s, ChosenRow(rows[s])>>
  <2>3. /\ P(b) = [i \in 1 .. n + 1 |-> <<b[i], ChosenRow(rows[b[i]])>>]
        /\ P(a) = [i \in 1 .. n |-> <<a[i], ChosenRow(rows[a[i]])>>]
    BY <2>1, <2>2
  <2>4. Len(P(a)) = n
    BY <2>1, <2>3
  <2>5. \A i \in 1 .. n + 1 : i \in 1 .. n \/ i = n + 1
    BY <2>1
  <2>6. n + 1 \notin 1 .. n
    BY <2>1
  <2>7. \A i \in 1 .. n + 1 :
           P(b)[i] = IF i <= n THEN P(a)[i] ELSE x
    <3> SUFFICES ASSUME NEW i \in 1 .. n + 1
                 PROVE  P(b)[i] = IF i <= n THEN P(a)[i] ELSE x
      OBVIOUS
    <3>1. CASE i \in 1 .. n
      <4>1. i <= n
        BY <2>1, <3>1
      <4> QED
        BY <2>2, <2>3, <3>1, <4>1
    <3>2. CASE i = n + 1
      <4>1. ~(i <= n)
        BY <2>1, <3>2
      <4> QED
        BY <2>2, <2>3, <3>2, <4>1
    <3> QED
      BY <2>5, <3>1, <3>2
  <2>8. Append(P(a), x) = [i \in 1 .. n + 1 |-> IF i <= n THEN P(a)[i] ELSE x]
    <3> DEFINE p == P(a)
    <3>1. p \in Seq({p[i] : i \in 1 .. n}) /\ Len(p) = n
      <4>1. DOMAIN p = 1 .. n
        BY <2>3
      <4>2. p = [i \in 1 .. n |-> p[i]]
        BY <2>3
      <4> HIDE DEF p
      <4>3. p \in [1 .. n -> {p[i] : i \in 1 .. n}]
        BY <4>2
      <4> QED
        BY <2>1, <4>1, <4>3
    <3> HIDE DEF p, x
    <3>2. Append(p, x) = [i \in 1 .. n + 1 |-> IF i <= n THEN p[i] ELSE x]
      <4> DEFINE ap == Append(p, x)
      <4>1. /\ DOMAIN ap = 1 .. n + 1
            /\ \A i \in 1 .. n : ap[i] = p[i]
            /\ ap[n + 1] = x
            /\ ap = [i \in 1 .. n + 1 |-> ap[i]]
        <5> DEFINE X == {p[i] : i \in 1 .. n} \cup {x}
        <5>1. p \in Seq(X) /\ x \in X
          <6>1. {p[i] : i \in 1 .. n} \subseteq X
            OBVIOUS
          <6> HIDE DEF X
          <6>2. p \in Seq(X)
            BY <3>1, <6>1, SeqMonotonic
          <6> QED
            BY <6>2 DEF X
        <5> HIDE DEF X, ap
        <5>2. /\ ap \in Seq(X) /\ Len(ap) = n + 1
              /\ \A i \in 1 .. n : ap[i] = p[i]
              /\ ap[n + 1] = x
          BY <3>1, <5>1, AppendProperties DEF ap
        <5>3. ap \in [1 .. n + 1 -> X]
          BY <5>2
        <5> QED
          BY <5>2, <5>3
      <4>2. \A i \in 1 .. n + 1 : ap[i] = IF i <= n THEN p[i] ELSE x
        <5> HIDE DEF ap
        <5> QED
          BY <2>1, <2>5, <4>1
      <4> HIDE DEF ap
      <4>3. ap = [i \in 1 .. n + 1 |-> IF i <= n THEN p[i] ELSE x]
        BY <4>1, <4>2
      <4> QED
        BY <4>3 DEF ap
    <3> QED
      BY <3>2 DEF p
  <2>9. P(b) = [i \in 1 .. n + 1 |-> P(b)[i]]
    BY <2>3
  <2> HIDE DEF P, x
  <2>10. P(b) = [i \in 1 .. n + 1 |-> IF i <= n THEN P(a)[i] ELSE x]
    BY <2>7, <2>9
  <2>11. P(b) = Append(P(a), x)
    BY <2>8, <2>10
  <2> QED
    BY <2>11 DEF x
<1> QED
  BY <1>5 DEF Pairs

\* One turn more: what the loop does with a sample above all those it has been
\* through is what After says of them and that sample.
LEMMA TurnAdvances ==
    ASSUME NEW L, L \subseteq Nat, IsFiniteSet(L), NEW s \in Nat,
           \A t \in L : t < s, NEW rows, rows[s] \in Seq(BOOLEAN),
           NEW ab, NEW m \in Nat \ {0}
    PROVE  Turn(After(rows, ab, m, L), s, rows[s], s \in ab, m) =
              After(rows, ab, m, L \cup {s})
<1> DEFINE Res(t) == Resolved(rows[t], t \in ab, m)
           M == L \cup {s}
           R == Reached(rows, ab, m, L)
           Q == Reached(rows, ab, m, M)
           a == After(rows, ab, m, L)
           b == After(rows, ab, m, M)
           next == Turn(a, s, rows[s], s \in ab, m)
           Lost(S) == Cardinality({t \in S : rows[t] = <<>>})
<1>1. /\ R = {t \in L : \A u \in L : u <= t => Res(u)}
      /\ Q = {t \in M : \A u \in M : u <= t => Res(u)}
  BY DEF Reached
<1>2. /\ a = [chosen |-> Pairs(rows, R), lost |-> Lost(R),
              cut |-> \E t \in L : ~Res(t)]
      /\ b = [chosen |-> Pairs(rows, Q), lost |-> Lost(Q),
              cut |-> \E t \in M : ~Res(t)]
  BY DEF After
<1>3. /\ s <= s /\ s \notin L
      /\ \A t \in L : t <= s /\ ~(s <= t)
  <2>1. s <= s /\ ~(s < s)
    OBVIOUS
  <2>2. \A t \in L : t \in Nat /\ t < s
    OBVIOUS
  <2> QED
    BY <2>1, <2>2
<1>4. /\ rows[s] = <<>> <=> Len(rows[s]) = 0
      /\ Len(rows[s]) \in Nat
      /\ rows[s] = <<>> => Successes(rows[s]) = {}
      /\ rows[s] = <<>> => ~(Len(rows[s]) >= m)
  <2>1. Len(rows[s]) \in Nat /\ (rows[s] = <<>> <=> Len(rows[s]) = 0)
    OBVIOUS
  <2>2. rows[s] = <<>> => Successes(rows[s]) = {}
    BY DEF Successes
  <2>3. rows[s] = <<>> => ~(Len(rows[s]) >= m)
    BY <2>1
  <2> QED
    BY <2>1, <2>2, <2>3
<1>5. next = IF a.cut THEN a
             ELSE IF Successes(rows[s]) # {}
               THEN [a EXCEPT !.chosen = Append(@, <<s, ChosenRow(rows[s])>>)]
             ELSE IF rows[s] # <<>> /\ (Len(rows[s]) >= m \/ s \in ab)
               THEN [a EXCEPT !.chosen = Append(@, <<s, Len(rows[s])>>)]
             ELSE IF rows[s] = <<>> /\ s \in ab
               THEN [a EXCEPT !.lost = @ + 1]
             ELSE [a EXCEPT !.cut = TRUE]
  BY DEF Turn
<1>6. Res(s) <=> \/ Successes(rows[s]) # {}
                 \/ Len(rows[s]) >= m
                 \/ s \in ab
  BY DEF Resolved
<1>7. Successes(rows[s]) = {} => ChosenRow(rows[s]) = Len(rows[s])
  BY DEF ChosenRow
<1> HIDE DEF Res, a, b, next
<1>0. PICK off : off = FALSE
  OBVIOUS
<1>8. ASSUME \E t \in L : ~Res(t) PROVE next = b
  <2>1. Q = R
    <3>1. s \notin Q
      BY <1>1, <1>3, <1>8
    <3>2. \A t \in L : (\A u \in M : u <= t => Res(u)) <=>
                       (\A u \in L : u <= t => Res(u))
      BY <1>3
    <3> HIDE DEF Q, R
    <3> QED
      BY <1>1, <3>1, <3>2
  <2>2. (\E t \in L : ~Res(t)) <=> (\E t \in M : ~Res(t))
    BY <1>8
  <2>3. a = b /\ a.cut
    <3> HIDE DEF Q, R, M, Lost
    <3>1. a = [chosen |-> Pairs(rows, R), lost |-> Lost(R), cut |-> TRUE]
      BY <1>2, <1>8
    <3>2. b = [chosen |-> Pairs(rows, R), lost |-> Lost(R), cut |-> TRUE]
      BY <1>2, <1>8, <2>1, <2>2
    <3> QED
      BY <3>1, <3>2
  <2> QED
    BY <1>5, <2>3
<1>9. ASSUME \A t \in L : Res(t) PROVE next = b
  <2>1. R = L
    BY <1>1, <1>9
  <2>2. a = [chosen |-> Pairs(rows, L), lost |-> Lost(L), cut |-> off]
    <3> HIDE DEF R, Q, M, Lost
    <3> QED
      BY <1>0, <1>2, <1>9, <2>1
  <2>3. PICK c, l : c = Pairs(rows, L) /\ l = Lost(L)
    OBVIOUS
  <2>4. a = [chosen |-> c, lost |-> l, cut |-> off]
    <3> HIDE DEF Lost
    <3> QED
      BY <2>2, <2>3
  <2>5. ASSUME NEW x
        PROVE  /\ [a EXCEPT !.chosen = x] = [chosen |-> x, lost |-> l, cut |-> off]
               /\ [a EXCEPT !.lost = x] = [chosen |-> c, lost |-> x, cut |-> off]
               /\ [a EXCEPT !.cut = x] = [chosen |-> c, lost |-> l, cut |-> x]
    <3> DEFINE Fields == {"chosen", "lost", "cut"}
    <3>1. [a EXCEPT !.chosen = x] = [chosen |-> x, lost |-> l, cut |-> off]
      <4> DEFINE q == [a EXCEPT !.chosen = x]
                 r == [chosen |-> x, lost |-> l, cut |-> off]
      <4>1. DOMAIN q = Fields /\ q.chosen = x /\ q.lost = l /\ q.cut = off
        BY <2>4
      <4>2. q = [i \in Fields |-> q[i]] /\ r = [i \in Fields |-> r[i]]
        BY <2>4
      <4> QED
        BY <4>1, <4>2
    <3>2. [a EXCEPT !.lost = x] = [chosen |-> c, lost |-> x, cut |-> off]
      <4> DEFINE q == [a EXCEPT !.lost = x]
                 r == [chosen |-> c, lost |-> x, cut |-> off]
      <4>1. DOMAIN q = Fields /\ q.chosen = c /\ q.lost = x /\ q.cut = off
        BY <2>4
      <4>2. q = [i \in Fields |-> q[i]] /\ r = [i \in Fields |-> r[i]]
        BY <2>4
      <4> QED
        BY <4>1, <4>2
    <3>3. [a EXCEPT !.cut = x] = [chosen |-> c, lost |-> l, cut |-> x]
      <4> DEFINE q == [a EXCEPT !.cut = x]
                 r == [chosen |-> c, lost |-> l, cut |-> x]
      <4>1. DOMAIN q = Fields /\ q.chosen = c /\ q.lost = l /\ q.cut = x
        BY <2>4
      <4>2. q = [i \in Fields |-> q[i]] /\ r = [i \in Fields |-> r[i]]
        BY <2>4
      <4> QED
        BY <4>1, <4>2
    <3> QED
      BY <3>1, <3>2, <3>3
  <2>6. Lost(L) \in Nat
    <3> DEFINE N == {t \in L : rows[t] = <<>>}
    <3>1. IsFiniteSet(N)
      BY FS_Subset
    <3> HIDE DEF N
    <3>2. Cardinality(N) \in Nat
      BY <3>1, FS_CardinalityType
    <3> QED
      BY <3>2 DEF N
  <2>7. ASSUME Res(s) PROVE next = b
    <3>1. Q = M
      BY <1>1, <1>9, <2>7
    <3>2. \A t \in M : Res(t)
      BY <1>9, <2>7
    <3>3. b = [chosen |-> Pairs(rows, M), lost |-> Lost(M), cut |-> off]
      <4> HIDE DEF R, Q, M, Lost
      <4> QED
        BY <1>0, <1>2, <3>1, <3>2
    <3>4. ASSUME rows[s] # <<>> PROVE next = b
      <4>1. Pairs(rows, M) = Append(Pairs(rows, L), <<s, ChosenRow(rows[s])>>)
        BY <3>4, PairsAppend
      <4>2. Lost(M) = Lost(L)
        <5>1. {t \in M : rows[t] = <<>>} = {t \in L : rows[t] = <<>>}
          BY <3>4
        <5> QED
          BY <5>1
      <4> DEFINE d == Append(a.chosen, <<s, ChosenRow(rows[s])>>)
      <4>3. next = [a EXCEPT !.chosen = d]
        <5>1. ~a.cut
          BY <1>0, <2>2
        <5> QED
          BY <1>5, <1>6, <1>7, <2>7, <3>4, <5>1
      <4>4. d = Pairs(rows, M)
        <5>1. a.chosen = Pairs(rows, L)
          BY <2>2
        <5> QED
          BY <4>1, <5>1
      <4> HIDE DEF d
      <4> HIDE DEF M, Lost
      <4> QED
        BY <2>3, <2>5, <3>3, <4>2, <4>3, <4>4
    <3>5. ASSUME rows[s] = <<>> PROVE next = b
      <4>1. Pairs(rows, M) = Pairs(rows, L)
        <5>1. {t \in M : rows[t] # <<>>} = {t \in L : rows[t] # <<>>}
          BY <3>5
        <5> HIDE DEF M
        <5> QED
          BY <5>1 DEF Pairs
      <4>2. Lost(M) = Lost(L) + 1
        <5> DEFINE N == {t \in L : rows[t] = <<>>}
        <5>1. {t \in M : rows[t] = <<>>} = N \cup {s}
          BY <3>5
        <5>2. IsFiniteSet(N) /\ s \notin N
          BY <1>3, FS_Subset
        <5>3. Cardinality(N \cup {s}) = Cardinality(N) + 1
          <6> HIDE DEF N
          <6> QED
            BY <5>2, FS_AddElement
        <5> HIDE DEF M
        <5> QED
          BY <5>1, <5>3
      <4> DEFINE k == a.lost + 1
      <4>3. next = [a EXCEPT !.lost = k]
        <5>1. ~a.cut
          BY <1>0, <2>2
        <5>2. s \in ab /\ Successes(rows[s]) = {}
          BY <1>4, <1>6, <2>7, <3>5
        <5> QED
          BY <1>5, <3>5, <5>1, <5>2
      <4>4. k = Lost(M)
        <5>1. a.lost = Lost(L)
          BY <2>2
        <5> HIDE DEF M, Lost
        <5> QED
          BY <4>2, <5>1
      <4> HIDE DEF M, Lost, k
      <4> QED
        BY <2>3, <2>5, <3>3, <4>1, <4>3, <4>4
    <3> QED
      BY <3>4, <3>5
  <2>8. ASSUME ~Res(s) PROVE next = b
    <3>1. Q = L
      <4>1. s \notin Q
        BY <1>1, <1>3, <2>8
      <4>2. \A t \in L : \A u \in M : u <= t => Res(u)
        BY <1>3, <1>9
      <4> HIDE DEF Q, R
      <4> QED
        BY <1>1, <4>1, <4>2
    <3>2. \E t \in M : ~Res(t)
      BY <2>8
    <3>3. b = [chosen |-> Pairs(rows, L), lost |-> Lost(L), cut |-> TRUE]
      <4> HIDE DEF R, Q, M, Lost
      <4> QED
        BY <1>0, <1>2, <3>1, <3>2
    <3>4. next = [a EXCEPT !.cut = TRUE]
      <4>1. ~a.cut
        BY <1>0, <2>2
      <4> QED
        BY <1>5, <1>6, <2>8, <4>1
    <3> HIDE DEF M, Lost
    <3> QED
      BY <2>3, <2>5, <3>3, <3>4
  <2> QED
    BY <2>7, <2>8
<1>10. next = b
  BY <1>8, <1>9
<1> QED
  BY <1>10 DEF next, a, b

-----------------------------------------------------------------------------
(* All the turns.                                                          *)

\* The recursive definition of Turns has a solution, so what it says of the
\* start and of each turn holds.
LEMMA TurnsFacts ==
    ASSUME NEW rows, NEW order, Len(order) \in Nat, NEW ab, NEW m
    PROVE  LET after == Turns(rows, order, ab, m)
           IN  /\ after[0] = NothingYet
               /\ \A n \in 1 .. Len(order) :
                     after[n] = Turn(after[n - 1], order[n], rows[order[n]],
                                     order[n] \in ab, m)
<1> DEFINE N == Len(order)
           Step(pass, n) == Turn(pass, order[n], rows[order[n]], order[n] \in ab, m)
           Good(g, k) == g = [n \in 0 .. k |-> IF n = 0 THEN NothingYet
                                               ELSE Step(g[n - 1], n)]
           after == Turns(rows, order, ab, m)
<1>1. after = CHOOSE g : Good(g, N)
  BY DEF Turns
<1> HIDE DEF Step, after, N
<1>2. ASSUME NEW k \in Nat, NEW g, Good(g, k) PROVE \E h : Good(h, k + 1)
  <2> DEFINE h == [n \in 0 .. k + 1 |-> IF n = k + 1 THEN Step(g[k], n) ELSE g[n]]
  <2>1. \A n \in 0 .. k : h[n] = g[n]
    <3> SUFFICES ASSUME NEW n \in 0 .. k PROVE h[n] = g[n]
      OBVIOUS
    <3>1. n \in 0 .. k + 1 /\ n # k + 1
      OBVIOUS
    <3> QED
      BY <3>1
  <2>2. h[k + 1] = Step(g[k], k + 1)
    <3>1. k + 1 \in 0 .. k + 1
      OBVIOUS
    <3> QED
      BY <3>1
  <2>3. ASSUME NEW n \in 0 .. k + 1
        PROVE  h[n] = IF n = 0 THEN NothingYet ELSE Step(h[n - 1], n)
    <3>1. CASE n = k + 1
      <4>1. n # 0 /\ n - 1 = k /\ k \in 0 .. k
        BY <3>1
      <4> HIDE DEF h
      <4> QED
        BY <2>1, <2>2, <3>1, <4>1
    <3>2. CASE n \in 0 .. k
      <4>1. g[n] = IF n = 0 THEN NothingYet ELSE Step(g[n - 1], n)
        BY <1>2, <3>2
      <4>2. n # 0 => n - 1 \in 0 .. k
        BY <3>2
      <4> HIDE DEF h
      <4> QED
        BY <2>1, <3>2, <4>1, <4>2
    <3> QED
      BY <3>1, <3>2
  <2>4. h = [n \in 0 .. k + 1 |-> h[n]]
    OBVIOUS
  <2> HIDE DEF h
  <2>5. Good(h, k + 1)
    BY <2>3, <2>4
  <2> QED
    BY <2>5
<1>3. \E g : Good(g, 0)
  <2> DEFINE g == [n \in 0 .. 0 |-> NothingYet]
  <2>1. \A n \in 0 .. 0 : n = 0
    OBVIOUS
  <2>2. Good(g, 0)
    BY <2>1
  <2> QED
    BY <2>2
<1>4. \A k \in Nat : \E g : Good(g, k)
  <2> DEFINE T == {k \in Nat : ~\E g : Good(g, k)}
  <2>1. SUFFICES ASSUME T # {} PROVE FALSE
    OBVIOUS
  <2>2. PICK k \in T : \A j \in T : k <= j
    <3>1. T \subseteq Nat
      OBVIOUS
    <3> HIDE DEF T
    <3> QED
      BY <2>1, <3>1, Smallest
  <2>3. k \in Nat /\ k # 0
    BY <1>3
  <2>4. k - 1 \in Nat /\ k - 1 \notin T
    <3>1. k - 1 \in Nat /\ ~(k <= k - 1)
      BY <2>3
    <3> HIDE DEF T
    <3> QED
      BY <2>2, <3>1
  <2>5. PICK g : Good(g, k - 1)
    BY <2>4
  <2>6. \E h : Good(h, (k - 1) + 1)
    <3> HIDE DEF T, Good
    <3> QED
      BY <1>2, <2>4, <2>5
  <2>7. (k - 1) + 1 = k
    BY <2>3
  <2> QED
    BY <2>6, <2>7
<1>5. Good(after, N)
  <2>1. \E g : Good(g, N)
    <3> HIDE DEF Good
    <3> QED
      BY <1>4 DEF N
  <2> HIDE DEF Good
  <2> QED
    BY <1>1, <2>1
<1>6. N \in Nat
  BY DEF N
<1>7. after[0] = NothingYet
  <2>1. 0 \in 0 .. N
    BY <1>6
  <2> QED
    BY <1>5, <2>1
<1>8. ASSUME NEW n \in 1 .. N PROVE after[n] = Step(after[n - 1], n)
  <2>1. n \in 0 .. N /\ n # 0
    BY <1>6
  <2> QED
    BY <1>5, <2>1
<1> QED
  BY <1>7, <1>8 DEF after, N, Step

\* After n turns the pass has been through the first n samples, whatever they
\* are: by the smallest number of turns after which it would not.
LEMMA TurnsReach ==
    ASSUME NEW K, K \subseteq Nat, IsFiniteSet(K),
           NEW rows, \A s \in K : rows[s] \in Seq(BOOLEAN),
           NEW ab, NEW m \in Nat \ {0}
    PROVE  Turns(rows, InOrder(K), ab, m)[Len(InOrder(K))] = After(rows, ab, m, K)
<1> DEFINE order == InOrder(K)
           N == Len(order)
           after == Turns(rows, order, ab, m)
           First(n) == {order[i] : i \in 1 .. n}
           T == {n \in 0 .. N : after[n] # After(rows, ab, m, First(n))}
<1>1. /\ N \in Nat /\ N = Cardinality(K)
      /\ order \in [1 .. N -> K]
      /\ \A i, j \in 1 .. N : i < j => order[i] < order[j]
      /\ \A s \in K : \E i \in 1 .. N : order[i] = s
  BY InOrderFacts
<1>2. /\ after[0] = NothingYet
      /\ \A n \in 1 .. N :
            after[n] = Turn(after[n - 1], order[n], rows[order[n]],
                            order[n] \in ab, m)
  <2> HIDE DEF order
  <2> QED
    BY <1>1, TurnsFacts
<1> HIDE DEF order, N, after
<1>3. First(N) = K
  BY <1>1
<1>4. ASSUME NEW n \in 0 .. N
      PROVE  First(n) \subseteq K /\ First(n) \subseteq Nat /\ IsFiniteSet(First(n))
  <2>1. 1 .. n \subseteq 1 .. N
    BY <1>1
  <2>2. First(n) \subseteq K
    BY <1>1, <2>1
  <2> HIDE DEF First
  <2> QED
    BY <2>2, FS_Subset
<1>5. 0 \notin T
  <2>1. First(0) = {}
    OBVIOUS
  <2>2. Reached(rows, ab, m, {}) = {}
    BY DEF Reached
  <2>3. InOrder({}) = <<>>
    <3>1. Cardinality({}) = 0
      BY FS_EmptySet
    <3>2. 1 .. 0 = {}
      OBVIOUS
    <3> QED
      BY <3>1, <3>2 DEF InOrder
  <2>4. Pairs(rows, {}) = <<>>
    <3>1. {s \in {} : rows[s] # <<>>} = {}
      OBVIOUS
    <3>2. DOMAIN <<>> = {}
      OBVIOUS
    <3> QED
      BY <2>3, <3>1, <3>2 DEF Pairs
  <2>5. Cardinality({s \in {} : rows[s] = <<>>}) = 0
    <3>1. {s \in {} : rows[s] = <<>>} = {}
      OBVIOUS
    <3> QED
      BY <3>1, FS_EmptySet
  <2>6. ~\E s \in {} : ~Resolved(rows[s], s \in ab, m)
    OBVIOUS
  <2>7. After(rows, ab, m, {}) = NothingYet
    BY <2>2, <2>4, <2>5, <2>6 DEF After, NothingYet
  <2> HIDE DEF First
  <2> QED
    BY <1>2, <2>1, <2>7
<1>6. ASSUME NEW n \in 1 .. N, n - 1 \notin T PROVE n \notin T
  <2> DEFINE L == First(n - 1)
             s == order[n]
  <2>1. n \in Nat /\ n - 1 \in 0 .. N /\ n \in 0 .. N
    BY <1>1
  <2>2. after[n - 1] = After(rows, ab, m, L)
    BY <1>6, <2>1
  <2>3. First(n) = L \cup {s}
    <3>1. 1 .. n = 1 .. (n - 1) \cup {n}
      BY <2>1
    <3> QED
      BY <3>1
  <2>4. s \in K /\ s \in Nat
    BY <1>1
  <2>5. \A t \in L : t < s
    <3> SUFFICES ASSUME NEW i \in 1 .. (n - 1) PROVE order[i] < s
      OBVIOUS
    <3>1. i \in 1 .. N /\ i < n
      BY <1>1, <2>1
    <3> QED
      BY <1>1, <3>1
  <2>6. L \subseteq Nat /\ IsFiniteSet(L)
    <3> HIDE DEF First
    <3> QED
      BY <1>4, <2>1
  <2>7. after[n] = Turn(after[n - 1], s, rows[s], s \in ab, m)
    BY <1>2
  <2> HIDE DEF L, s
  <2>8. Turn(After(rows, ab, m, L), s, rows[s], s \in ab, m) =
           After(rows, ab, m, L \cup {s})
    BY <2>4, <2>5, <2>6, TurnAdvances
  <2>9. after[n] = After(rows, ab, m, First(n))
    <3> HIDE DEF First
    <3> QED
      BY <2>2, <2>3, <2>7, <2>8
  <2> QED
    BY <2>9
<1>7. T = {}
  <2>1. SUFFICES ASSUME T # {} PROVE FALSE
    OBVIOUS
  <2>2. T \subseteq Nat /\ T \subseteq 0 .. N
    BY <1>1
  <2> HIDE DEF T
  <2>3. PICK n \in T : \A j \in T : n <= j
    BY <2>1, <2>2, Smallest
  <2>4. n # 0 /\ n \in Nat /\ n \in 1 .. N
    BY <1>1, <1>5, <2>2
  <2>5. n - 1 \notin T
    BY <2>3, <2>4
  <2> QED
    BY <1>6, <2>4, <2>5
<1>8. after[N] = After(rows, ab, m, First(N))
  <2>1. N \in 0 .. N
    BY <1>1
  <2> HIDE DEF First
  <2> QED
    BY <1>7, <2>1
<1> QED
  BY <1>3, <1>8 DEF after, N, order

-----------------------------------------------------------------------------
(* The rows of a sample.                                                   *)

\* The rows of a sample are a sequence of outcomes.
LEMMA RowsOfType ==
    ASSUME NEW d \in Seq([sample : Nat, ok : BOOLEAN]), NEW s
    PROVE  RowsOf(d, s) \in Seq(BOOLEAN)
<1> DEFINE D == {i \in DOMAIN d : d[i].sample = s}
           own == InOrder(D)
           n == Cardinality(D)
<1>1. Len(d) \in Nat /\ DOMAIN d = 1 .. Len(d)
  OBVIOUS
<1>2. D \subseteq DOMAIN d /\ D \subseteq Nat /\ IsFiniteSet(D)
  <2>1. D \subseteq DOMAIN d /\ D \subseteq Nat
    BY <1>1
  <2>2. IsFiniteSet(1 .. Len(d))
    <3>1. 1 \in Int /\ Len(d) \in Int
      BY <1>1
    <3> QED
      BY <3>1, FS_Interval
  <2> HIDE DEF D
  <2> QED
    BY <1>1, <2>1, <2>2, FS_Subset
<1> HIDE DEF D
<1>3. n \in Nat /\ own \in [1 .. n -> D]
  BY <1>2, InOrderFacts
<1> HIDE DEF n, own
<1>4. \A j \in 1 .. n : d[own[j]].ok \in BOOLEAN
  <2>1. \A k \in 1 .. Len(d) : d[k].ok \in BOOLEAN
    <3> SUFFICES ASSUME NEW k \in 1 .. Len(d) PROVE d[k].ok \in BOOLEAN
      OBVIOUS
    <3>1. d[k] \in [sample : Nat, ok : BOOLEAN]
      BY ElementOfSeq
    <3> QED
      BY <3>1, Zenon
  <2>2. \A j \in 1 .. n : own[j] \in 1 .. Len(d)
    BY <1>1, <1>2, <1>3
  <2> QED
    BY <2>1, <2>2, Zenon
<1>5. RowsOf(d, s) = [j \in DOMAIN own |-> d[own[j]].ok]
  BY DEF RowsOf, own, D
<1>6. RowsOf(d, s) \in [1 .. n -> BOOLEAN]
  BY <1>3, <1>4, <1>5
<1> QED
  BY <1>3, <1>6

\* f takes the members of D to those of E and keeps their order.
Carries(f, D, E) ==
    /\ f \in [D -> E]
    /\ \A k, l \in D : k < l => f[k] < f[l]
    /\ \A k \in E : \E l \in D : f[l] = k

\* Then it takes the order of D to that of E.
LEMMA InOrderMaps ==
    ASSUME NEW D, D \subseteq Nat, IsFiniteSet(D), NEW E, E \subseteq Nat,
           NEW f, Carries(f, D, E)
    PROVE  /\ Cardinality(D) \in Nat
           /\ DOMAIN InOrder(D) = 1 .. Cardinality(D)
           /\ DOMAIN InOrder(E) = 1 .. Cardinality(D)
           /\ \A j \in 1 .. Cardinality(D) : InOrder(D)[j] \in D
           /\ \A j \in 1 .. Cardinality(D) : InOrder(E)[j] = f[InOrder(D)[j]]
<1> DEFINE own == InOrder(D)
           n == Cardinality(D)
           q == [j \in 1 .. n |-> f[own[j]]]
<1>1. /\ n \in Nat /\ own \in [1 .. n -> D]
      /\ \A j, k \in 1 .. n : j < k => own[j] < own[k]
      /\ \A k \in D : \E j \in 1 .. n : own[j] = k
  BY InOrderFacts
<1> HIDE DEF own, n
<1>2. /\ q \in [1 .. n -> E]
      /\ \A j, k \in 1 .. n : j < k => q[j] < q[k]
      /\ \A k \in E : \E j \in 1 .. n : q[j] = k
  <2> USE DEF Carries
  <2>1. q \in [1 .. n -> E]
    BY <1>1
  <2>2. \A j, k \in 1 .. n : j < k => q[j] < q[k]
    BY <1>1
  <2>3. ASSUME NEW k \in E PROVE \E j \in 1 .. n : q[j] = k
    <3>1. PICK l \in D : f[l] = k
      OBVIOUS
    <3>2. PICK j \in 1 .. n : own[j] = l
      BY <1>1
    <3> QED
      BY <3>1, <3>2
  <2> QED
    BY <2>1, <2>2, <2>3
<1>3. DOMAIN own = 1 .. n /\ \A j \in 1 .. n : own[j] \in D
  BY <1>1
<1>4. DOMAIN q = 1 .. n /\ \A j \in 1 .. n : q[j] = f[own[j]]
  OBVIOUS
<1> HIDE DEF q
<1>5. Lists(q, n, E) /\ n \in Nat
  BY <1>1, <1>2 DEF Lists
<1>6. InOrder(E) = q
  BY <1>5, InOrderIs
<1> QED
  BY <1>1, <1>3, <1>4, <1>6 DEF own, n

\* Exchanging two neighbours of different samples moves the rows of a sample
\* but keeps their order.
LEMMA SwapKeepsRows ==
    ASSUME NEW d \in Seq([sample : Nat, ok : BOOLEAN]),
           NEW i \in 1 .. Len(d) - 1, d[i].sample # d[i + 1].sample, NEW s
    PROVE  RowsOf([d EXCEPT ![i] = d[i + 1], ![i + 1] = d[i]], s) = RowsOf(d, s)
<1> DEFINE N == Len(d)
           e == [d EXCEPT ![i] = d[i + 1], ![i + 1] = d[i]]
           D == {k \in DOMAIN d : d[k].sample = s}
           E == {k \in DOMAIN e : e[k].sample = s}
           To(k) == IF k = i THEN i + 1 ELSE IF k = i + 1 THEN i ELSE k
           f == [k \in D |-> To(k)]
           own == InOrder(D)
           moved == InOrder(E)
<1>1. /\ N \in Nat /\ DOMAIN d = 1 .. N /\ DOMAIN e = 1 .. N
      /\ i \in Nat /\ i \in 1 .. N /\ i + 1 \in 1 .. N /\ i # i + 1
  <2>1. N \in Nat /\ DOMAIN d = 1 .. N /\ i \in Int /\ i >= 1 /\ i <= N - 1
    OBVIOUS
  <2>2. DOMAIN e = DOMAIN d
    OBVIOUS
  <2> HIDE DEF N, e
  <2> QED
    BY <2>1, <2>2
<1> HIDE DEF N
<1>2. \A k \in 1 .. N : To(k) \in 1 .. N /\ To(To(k)) = k /\ e[To(k)] = d[k]
  <2> SUFFICES ASSUME NEW k \in 1 .. N
               PROVE  To(k) \in 1 .. N /\ To(To(k)) = k /\ e[To(k)] = d[k]
    OBVIOUS
  <2>1. e[i] = d[i + 1] /\ e[i + 1] = d[i]
    BY <1>1
  <2>2. k # i /\ k # i + 1 => e[k] = d[k]
    BY <1>1
  <2> HIDE DEF e
  <2> QED
    BY <1>1, <2>1, <2>2
<1> HIDE DEF e
<1>3. D \subseteq 1 .. N /\ D \subseteq Nat /\ E \subseteq Nat /\ IsFiniteSet(D)
  <2>1. D \subseteq 1 .. N /\ D \subseteq Nat /\ E \subseteq Nat
    BY <1>1
  <2>2. IsFiniteSet(1 .. N)
    <3>1. 1 \in Int /\ N \in Int
      BY <1>1
    <3> QED
      BY <3>1, FS_Interval
  <2> HIDE DEF D
  <2> QED
    BY <2>1, <2>2, FS_Subset
<1>4. \A k \in D : To(k) \in E
  BY <1>1, <1>2
<1>5. \A k \in E : To(k) \in D
  <2> SUFFICES ASSUME NEW k \in E PROVE To(k) \in D
    OBVIOUS
  <2>1. k \in 1 .. N /\ To(k) \in 1 .. N /\ e[To(To(k))] = d[To(k)]
    BY <1>1, <1>2
  <2>2. To(To(k)) = k
    BY <1>2, <2>1
  <2> HIDE DEF To
  <2> QED
    BY <1>1, <2>1, <2>2
<1>6. \A k, l \in D : k < l => To(k) < To(l)
  <2> SUFFICES ASSUME NEW k \in D, NEW l \in D, k < l PROVE To(k) < To(l)
    OBVIOUS
  <2>1. k \in Nat /\ l \in Nat
    BY <1>3
  <2>2. ~(k = i /\ l = i + 1)
    OBVIOUS
  <2> QED
    BY <1>1, <2>1, <2>2
<1>7. /\ RowsOf(d, s) = [j \in DOMAIN own |-> d[own[j]].ok]
      /\ RowsOf(e, s) = [j \in DOMAIN moved |-> e[moved[j]].ok]
  BY DEF RowsOf
<1>8. Carries(f, D, E)
  <2> HIDE DEF D, E
  <2>1. f \in [D -> E]
    BY <1>4
  <2>2. \A k, l \in D : k < l => f[k] < f[l]
    <3> HIDE DEF To
    <3> QED
      BY <1>6
  <2>3. ASSUME NEW k \in E PROVE \E l \in D : f[l] = k
    <3>1. To(k) \in D
      BY <1>5
    <3>2. To(To(k)) = k
      <4>1. k \in 1 .. N
        BY <1>1 DEF E
      <4> HIDE DEF To
      <4> QED
        BY <1>2, <4>1
    <3> HIDE DEF To
    <3> QED
      BY <3>1, <3>2
  <2> QED
    BY <2>1, <2>2, <2>3 DEF Carries
<1>9. \A k \in D : f[k] = To(k)
  OBVIOUS
<1> HIDE DEF D, E, To, f
<1> DEFINE n == Cardinality(D)
<1>10. /\ DOMAIN own = 1 .. n /\ DOMAIN moved = 1 .. n
       /\ \A j \in 1 .. n : own[j] \in D
       /\ \A j \in 1 .. n : moved[j] = f[own[j]]
  <2>1. D \subseteq Nat /\ E \subseteq Nat /\ IsFiniteSet(D)
    BY <1>3
  <2>2. DOMAIN own = 1 .. n /\ DOMAIN moved = 1 .. n
    BY <1>8, <2>1, InOrderMaps
  <2>3. \A j \in 1 .. n : own[j] \in D
    BY <1>8, <2>1, InOrderMaps
  <2>4. \A j \in 1 .. n : moved[j] = f[own[j]]
    BY <1>8, <2>1, InOrderMaps, Zenon
  <2> QED
    BY <2>2, <2>3, <2>4
<1> HIDE DEF own, moved, n
<1>11. ASSUME NEW j \in 1 .. n PROVE e[moved[j]].ok = d[own[j]].ok
  <2>1. own[j] \in D /\ own[j] \in 1 .. N
    BY <1>3, <1>10
  <2>2. e[To(own[j])] = d[own[j]]
    BY <1>2, <2>1
  <2>3. moved[j] = To(own[j])
    BY <1>9, <1>10, <2>1
  <2> QED
    BY <2>2, <2>3
<1>12. RowsOf(e, s) = RowsOf(d, s)
  BY <1>7, <1>10, <1>11
<1> QED
  BY <1>12 DEF e

-----------------------------------------------------------------------------
(* The invariant of SampleFeed and its theorems.                           *)

\* Numbers are finitely many, and only of issued samples there are rows or
\* losses.
FeedInv ==
    /\ issued \subseteq Nat /\ IsFiniteSet(issued)
    /\ abandoned \subseteq issued
    /\ data \in Seq([sample : Nat, ok : BOOLEAN])
    /\ \A i \in DOMAIN data : data[i].sample \in issued

\* FeedInv is inductive: numbers are issued from 1 on, and workers get no
\* others.
LEMMA FeedInvariant == Spec => []FeedInv
<1>1. Init => FeedInv
  BY FS_EmptySet DEF Init, FeedInv
<1>2. FeedInv /\ [Next]_vars => FeedInv'
  <2> SUFFICES ASSUME FeedInv, [Next]_vars PROVE FeedInv'
    OBVIOUS
  <2> DEFINE Row == [sample : Nat, ok : BOOLEAN]
  <2>1. CASE Issue
    <3> DEFINE k == Cardinality(issued) + 1
    <3>1. k \in Nat
      BY FS_CardinalityType DEF FeedInv
    <3>2. issued' = issued \cup {k} /\ UNCHANGED <<data, abandoned>>
      BY <2>1 DEF Issue
    <3> HIDE DEF k
    <3>3. IsFiniteSet(issued')
      BY <3>2, FS_AddElement DEF FeedInv
    <3> QED
      BY <3>1, <3>2, <3>3 DEF FeedInv
  <2>2. ASSUME NEW s \in issued, GiveUp(s) PROVE FeedInv'
    BY <2>2 DEF GiveUp, FeedInv
  <2>3. ASSUME NEW s \in issued, NEW ok \in BOOLEAN, RowArrives(s, ok)
        PROVE  FeedInv'
    <3> DEFINE row == [sample |-> s, ok |-> ok]
    <3>1. data' = Append(data, row) /\ UNCHANGED <<issued, abandoned>>
      BY <2>3 DEF RowArrives
    <3>2. row \in Row /\ data \in Seq(Row) /\ row.sample = s
      BY DEF FeedInv
    <3> HIDE DEF row, Row
    <3>3. /\ data' \in Seq(Row) /\ Len(data) \in Nat
          /\ DOMAIN data = 1 .. Len(data) /\ DOMAIN data' = 1 .. Len(data) + 1
          /\ \A i \in 1 .. Len(data) : data'[i] = data[i]
          /\ data'[Len(data) + 1] = row
      BY <3>1, <3>2
    <3>4. \A i \in DOMAIN data' : data'[i].sample \in issued
      <4> SUFFICES ASSUME NEW i \in 1 .. Len(data) + 1
                   PROVE  data'[i].sample \in issued
        BY <3>3
      <4>1. i \in 1 .. Len(data) \/ i = Len(data) + 1
        BY <3>3
      <4>2. CASE i \in 1 .. Len(data)
        BY <3>3, <4>2 DEF FeedInv
      <4>3. CASE i = Len(data) + 1
        BY <3>2, <3>3, <4>3
      <4> QED
        BY <4>1, <4>2, <4>3
    <3> QED
      BY <3>1, <3>3, <3>4 DEF FeedInv, Row
  <2>4. CASE UNCHANGED vars
    BY <2>4 DEF vars, FeedInv
  <2> QED
    BY <2>1, <2>2, <2>3, <2>4 DEF Next
<1> QED
  BY <1>1, <1>2, PTL DEF Spec

\* What a rule sees, by the rows of the issued samples.
LEMMA PreparedIs ==
    ASSUME FeedInv, data # <<>>
    PROVE  LET rows == [s \in issued |-> RowsOf(data, s)]
           IN  Prepared(data) = After(rows, abandoned, MaxAttempts, issued)
<1> DEFINE rows == [s \in issued |-> RowsOf(data, s)]
           order == InOrder(issued)
<1>1. Numbers(data, abandoned, issued) = issued
  BY DEF Numbers, FeedInv
<1>2. {order[n] : n \in DOMAIN order} = issued
  <2>1. /\ order \in [1 .. Cardinality(issued) -> issued]
        /\ \A s \in issued : \E i \in 1 .. Cardinality(issued) : order[i] = s
    BY InOrderFacts DEF FeedInv
  <2> HIDE DEF order
  <2> QED
    BY <2>1
<1>3. Pass(data, order, abandoned, MaxAttempts) =
         Turns(rows, order, abandoned, MaxAttempts)[Len(order)]
  <2> HIDE DEF order
  <2> QED
    BY <1>2 DEF Pass
<1>4. Prepared(data) = Pass(data, order, abandoned, MaxAttempts)
  BY <1>1 DEF Prepared, PreparedSample
<1>5. \A s \in issued : rows[s] \in Seq(BOOLEAN)
  BY RowsOfType DEF FeedInv
<1> HIDE DEF rows
<1>6. Turns(rows, order, abandoned, MaxAttempts)[Len(order)] =
         After(rows, abandoned, MaxAttempts, issued)
  BY <1>5, TurnsReach, FeedAssumption DEF FeedInv
<1> QED
  BY <1>3, <1>4, <1>6 DEF rows

\* A rule sees the samples up to the first unresolved one, each once and by the
\* row that stands for it, and nothing after it: the one pass of
\* prepare_statistical_sample cuts where Prefix says, for every dataset.
THEOREM PassIsPrefixCorrect == Spec => []PassIsPrefix
<1>1. FeedInv => PassIsPrefix
  <2> SUFFICES ASSUME FeedInv, data # <<>>
               PROVE  LET pass == Prepared(data)
                          seen == InOrder({s \in PrefixNow : RowsOf(data, s) # <<>>})
                      IN  /\ pass.lost = Cardinality({s \in PrefixNow :
                                                        RowsOf(data, s) = <<>>})
                          /\ pass.chosen =
                               [i \in DOMAIN seen |->
                                  <<seen[i], ChosenRow(RowsOf(data, seen[i]))>>]
    BY DEF PassIsPrefix
  <2> DEFINE rows == [s \in issued |-> RowsOf(data, s)]
             R == Reached(rows, abandoned, MaxAttempts, issued)
             pass == Prepared(data)
             U == {s \in PrefixNow : RowsOf(data, s) # <<>>}
             seen == InOrder(U)
  <2>1. pass = After(rows, abandoned, MaxAttempts, issued)
    BY PreparedIs
  <2>2. PrefixNow = R
    <3>1. /\ PrefixNow = Prefix(rows, abandoned, issued, MaxAttempts)
          /\ abandoned \subseteq issued
          /\ \A s \in DOMAIN rows : rows[s] # <<>> => s \in issued
      BY DEF PrefixNow, FeedInv
    <3> HIDE DEF rows
    <3> QED
      BY <3>1, PrefixIs DEF Reached
  <2>3. PrefixNow \subseteq issued
    BY <2>2 DEF Reached
  <2>4. \A s \in PrefixNow : rows[s] = RowsOf(data, s)
    BY <2>3
  <2> HIDE DEF rows
  <2>5. /\ {s \in R : rows[s] = <<>>} = {s \in PrefixNow : RowsOf(data, s) = <<>>}
        /\ {s \in R : rows[s] # <<>>} = U
    <3> HIDE DEF R
    <3> QED
      BY <2>2, <2>4
  <2>6. pass.lost = Cardinality({s \in PrefixNow : RowsOf(data, s) = <<>>})
    <3>1. pass.lost = Cardinality({s \in R : rows[s] = <<>>})
      BY <2>1 DEF After
    <3> HIDE DEF pass, R
    <3> QED
      BY <2>5, <3>1
  <2>7. pass.chosen = [i \in DOMAIN seen |-> <<seen[i], ChosenRow(rows[seen[i]])>>]
    <3>1. pass.chosen = Pairs(rows, R)
      BY <2>1 DEF After
    <3> HIDE DEF R, U, pass
    <3> QED
      BY <2>5, <3>1 DEF Pairs
  <2>8. \A i \in DOMAIN seen : seen[i] \in PrefixNow
    <3>1. U \subseteq PrefixNow /\ U \subseteq Nat /\ U \in SUBSET issued
      BY <2>3 DEF FeedInv
    <3> HIDE DEF U
    <3>2. IsFiniteSet(U)
      BY <3>1, FS_Subset DEF FeedInv
    <3>3. seen \in [1 .. Cardinality(U) -> U]
      BY <3>1, <3>2, InOrderFacts
    <3> HIDE DEF seen
    <3> QED
      BY <3>1, <3>3
  <2>9. pass.chosen =
           [i \in DOMAIN seen |-> <<seen[i], ChosenRow(RowsOf(data, seen[i]))>>]
    <3> HIDE DEF seen, pass
    <3> QED
      BY <2>4, <2>7, <2>8
  <2> QED
    BY <2>6, <2>9
<1> QED
  BY <1>1, FeedInvariant, PTL

\* Which of two workers finished first does not matter to a rule: exchanging
\* neighbouring rows of different samples leaves every sample its rows in
\* their order, and these are all the pass looks at.
THEOREM ArrivalOrderIrrelevantCorrect == Spec => []ArrivalOrderIrrelevant
<1>1. FeedInv => ArrivalOrderIrrelevant
  <2> SUFFICES ASSUME FeedInv, NEW i \in 1 .. Len(data) - 1,
                      data[i].sample # data[i + 1].sample
               PROVE  Prepared([data EXCEPT ![i] = data[i + 1], ![i + 1] = data[i]])
                         = Prepared(data)
    BY DEF ArrivalOrderIrrelevant
  <2> DEFINE e == [data EXCEPT ![i] = data[i + 1], ![i + 1] = data[i]]
             N == Len(data)
  <2>1. /\ N \in Nat /\ DOMAIN data = 1 .. N /\ DOMAIN e = 1 .. N
        /\ i \in 1 .. N /\ i + 1 \in 1 .. N
    <3>1. N \in Nat /\ DOMAIN data = 1 .. N
      BY DEF FeedInv
    <3>2. DOMAIN e = DOMAIN data
      OBVIOUS
    <3> HIDE DEF e
    <3>3. i \in Int /\ i >= 1 /\ i <= N - 1
      BY <3>1
    <3> HIDE DEF N
    <3> QED
      BY <3>1, <3>2, <3>3
  <2>2. data # <<>> /\ e # <<>>
    <3>1. i \in DOMAIN data /\ i \in DOMAIN e
      BY <2>1
    <3>2. DOMAIN <<>> = {}
      OBVIOUS
    <3> HIDE DEF e
    <3> QED
      BY <3>1, <3>2
  <2>3. {e[k].sample : k \in DOMAIN e} = {data[k].sample : k \in DOMAIN data}
    <3>1. e[i] = data[i + 1] /\ e[i + 1] = data[i]
      BY <2>1
    <3>2. \A k \in 1 .. N : k # i /\ k # i + 1 => e[k] = data[k]
      BY <2>1
    <3> HIDE DEF e, N
    <3>3. \A k \in 1 .. N : \E l \in 1 .. N : e[l] = data[k]
      BY <2>1, <3>1, <3>2
    <3>4. \A k \in 1 .. N : \E l \in 1 .. N : data[l] = e[k]
      BY <2>1, <3>1, <3>2
    <3>5. {e[k].sample : k \in 1 .. N} = {data[k].sample : k \in 1 .. N}
      <4>1. ASSUME NEW k \in 1 .. N
            PROVE  e[k].sample \in {data[l].sample : l \in 1 .. N}
        BY <3>4
      <4>2. ASSUME NEW k \in 1 .. N
            PROVE  data[k].sample \in {e[l].sample : l \in 1 .. N}
        BY <3>3
      <4> QED
        BY <4>1, <4>2
    <3> QED
      BY <2>1, <3>5
  <2>4. Numbers(e, abandoned, issued) = Numbers(data, abandoned, issued)
    <3> HIDE DEF e
    <3> QED
      BY <2>3 DEF Numbers
  <2>5. \A s : RowsOf(e, s) = RowsOf(data, s)
    BY SwapKeepsRows DEF FeedInv
  <2> HIDE DEF e
  <2>6. \A order : Pass(e, order, abandoned, MaxAttempts) =
                      Pass(data, order, abandoned, MaxAttempts)
    BY <2>5 DEF Pass
  <2>7. Prepared(e) = Prepared(data)
    BY <2>2, <2>4, <2>6 DEF Prepared, PreparedSample
  <2> QED
    BY <2>7 DEF e
<1> QED
  BY <1>1, FeedInvariant, PTL
=============================================================================
