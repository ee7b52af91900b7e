--------------------------- MODULE DkwStagesProofs ---------------------------
(***************************************************************************)
(* Proofs about DkwStages, for every base, limit of samples and number of  *)
(* attempts: the stages are evaluated once and in order on samples none of *)
(* which overtook another, and every sample has a number of its own.       *)
(***************************************************************************)
EXTENDS DkwStages, StatisticalSampleProofs, FiniteSetTheorems,
        SequenceTheorems, TLAPS

\* Rows come only of samples that were issued.
RowsOfIssued == \A s \in SampleIndexes : rows[s] # <<>> => s \in issued

\* As many samples as draws were made have numbers below the next one.
NumbersBelowNext ==
    /\ Cardinality(issued) = dispatched
    /\ \A t \in issued : t < Cardinality(Frame) + dispatched

\* The evaluations so far are those of the stages below the current one; only
\* the one a decision was made on may have had too few samples.
StagesDone ==
    /\ Len(looks) = stage - 1
    /\ \A i \in DOMAIN looks :
          /\ looks[i].stage = i
          /\ i < Len(looks) \/ final = "none" =>
                Len(looks[i].samples) = Size(i)
    /\ final = "none" => stage <= LastStage

\* The inductive invariant.
DInv ==
    /\ DkwTypeOK
    /\ RowsOfIssued
    /\ NumbersBelowNext
    /\ StagesDone

-----------------------------------------------------------------------------
(* Sets of numbers.                                                        *)

\* A bounded set of natural numbers has a largest member.
LEMMA Largest ==
    ASSUME NEW T, T \subseteq Nat, T # {}, NEW b \in Nat, \A n \in T : n <= b
    PROVE  \E n \in T : \A m \in T : m <= n
<1> DEFINE U == {k \in Nat : \A m \in T : m <= k}
<1>1. PICK k \in U : \A l \in U : k <= l
  <2>1. b \in U /\ U \subseteq Nat
    OBVIOUS
  <2> HIDE DEF U
  <2> QED
    BY <2>1, Smallest
<1>2. k \in Nat /\ \A m \in T : m <= k
  OBVIOUS
<1>3. k \in T
  <2> SUFFICES ASSUME k \notin T PROVE FALSE
    OBVIOUS
  <2>1. \A m \in T : m \in Nat /\ m <= k /\ m # k
    BY <1>2
  <2>2. k # 0
    <3>1. PICK m \in T : TRUE
      OBVIOUS
    <3> QED
      BY <1>2, <2>1, <3>1
  <2>3. k - 1 \in Nat /\ \A m \in T : m <= k - 1
    BY <1>2, <2>1, <2>2
  <2>4. k <= k - 1
    BY <1>1, <2>3
  <2> QED
    BY <1>2, <2>4
<1> QED
  BY <1>2, <1>3

-----------------------------------------------------------------------------
(* The schedule.                                                           *)

\* The constants are numbers.
LEMMA Constants ==
    /\ BaseSamples \in Nat /\ BaseSamples # 0
    /\ MaxSamples \in Nat /\ MaxSamples # 0
    /\ MaxAttempts \in Nat
  BY DkwAssumption

\* A product grows with its factor.
LEMMA ProductGrows ==
    ASSUME NEW b \in Nat, NEW s \in Nat, NEW t \in Nat, t <= s
    PROVE  b * t <= b * s /\ b * t \in Nat /\ b * s \in Nat
<1>1. PICK d \in Nat : s = t + d
  <2>1. s - t \in Nat /\ s = t + (s - t)
    OBVIOUS
  <2> QED
    BY <2>1
<1>2. b * s = b * t + b * d /\ b * d \in Nat /\ b * t \in Nat
  BY <1>1
<1> DEFINE x == b * t
           y == b * s
           z == b * d
<1>3. y = x + z /\ z \in Nat /\ x \in Nat
  BY <1>2
<1> HIDE DEF x, y, z
<1>4. x <= y /\ y \in Nat
  BY <1>3
<1> QED
  BY <1>3, <1>4 DEF x, y

\* So does a square.
LEMMA SquareGrows ==
    ASSUME NEW b \in Nat, NEW s \in Nat, NEW t \in Nat, t <= s
    PROVE  b * t * t <= b * s * s /\ b * t * t \in Nat /\ b * s * s \in Nat
<1> DEFINE x == b * t
           y == b * s
           u == x * t
           v == x * s
           w == y * s
<1>1. x <= y /\ x \in Nat /\ y \in Nat
  BY ProductGrows
<1> HIDE DEF x, y
<1>2. u <= v /\ u \in Nat /\ v \in Nat
  BY <1>1, ProductGrows
<1>3. s * x = v /\ s * y = w
  BY <1>1
<1>4. v <= w /\ w \in Nat
  BY <1>1, <1>3, ProductGrows
<1>5. u <= w
  <2> HIDE DEF u, v, w
  <2> QED
    BY <1>2, <1>4
<1> QED
  BY <1>2, <1>4, <1>5 DEF x, y

\* A later stage needs no fewer samples, and none more than are drawn at all.
LEMMA SizeGrows ==
    ASSUME NEW s \in Nat, NEW t \in Nat, t <= s
    PROVE  /\ Size(t) \in Nat /\ Size(s) \in Nat
           /\ Size(t) <= Size(s) /\ Size(s) <= MaxSamples
<1> DEFINE u == BaseSamples * t * t
           v == BaseSamples * s * s
<1>1. u <= v /\ u \in Nat /\ v \in Nat
  BY Constants, SquareGrows
<1>2. /\ Size(t) = IF u < MaxSamples THEN u ELSE MaxSamples
      /\ Size(s) = IF v < MaxSamples THEN v ELSE MaxSamples
  BY DEF Size
<1> HIDE DEF u, v
<1> QED
  BY <1>1, <1>2, Constants

\* The stages end: the one of number max_samples is large enough.
LEMMA LastStageExists ==
    /\ LastStage \in 1 .. MaxSamples
    /\ \A s \in Nat : s >= LastStage => IsLast(s)
    /\ \A s \in Nat : s >= 1 /\ ~IsLast(s) => s + 1 <= LastStage
<1> DEFINE m == MaxSamples
           T == {s \in 1 .. m : IsLast(s)}
<1>1. IsLast(m)
  <2>1. BaseSamples * m * m >= m
    <3>1. 1 * m * m >= m
      <4>1. 1 <= m /\ m \in Nat
        BY Constants
      <4>2. m * 1 <= m * m
        BY <4>1, ProductGrows
      <4> QED
        BY <4>1, <4>2
    <3> DEFINE k == m * m
    <3>2. k \in Nat
      BY Constants
    <3>3. k * 1 <= k * BaseSamples
      <4> HIDE DEF k
      <4>1. 1 <= BaseSamples /\ 1 \in Nat /\ BaseSamples \in Nat
        BY Constants
      <4> QED
        BY <3>2, <4>1, ProductGrows
    <3>4. k * BaseSamples = BaseSamples * m * m /\ k * 1 = k /\ 1 * m * m = k
      BY Constants
    <3> DEFINE w == BaseSamples * m * m
    <3>5. w \in Nat /\ k <= w /\ m <= k
      <4>1. w \in Nat
        BY Constants
      <4> QED
        BY <3>1, <3>3, <3>4, <4>1
    <3>6. m \in Nat
      BY Constants
    <3> HIDE DEF k, w, m
    <3>7. w >= m
      BY <3>2, <3>5, <3>6
    <3> QED
      BY <3>7 DEF w
  <2> DEFINE w == BaseSamples * m * m
  <2>2. w >= m /\ w \in Nat /\ m \in Nat
    BY <2>1, Constants
  <2>3. Size(m) = IF w < m THEN w ELSE m
    BY DEF Size
  <2> HIDE DEF w, m
  <2>4. Size(m) = m
    BY <2>2, <2>3
  <2> QED
    BY <2>4 DEF IsLast, m
<1>2. PICK n \in T : \A s \in T : n <= s
  <2>1. m \in T /\ T \subseteq Nat
    BY <1>1, Constants
  <2> HIDE DEF T
  <2> QED
    BY <2>1, Smallest
<1>3. \A t \in 1 .. n - 1 : ~IsLast(t)
  BY <1>2, Constants
<1>4. /\ LastStage \in 1 .. m
      /\ IsLast(LastStage)
      /\ \A t \in 1 .. LastStage - 1 : ~IsLast(t)
  <2> HIDE DEF IsLast
  <2>1. n \in 1 .. m /\ IsLast(n)
    BY <1>2
  <2> QED
    BY <1>3, <2>1 DEF LastStage
<1>5. ASSUME NEW s \in Nat, s >= LastStage PROVE IsLast(s)
  <2>1. LastStage \in Nat /\ Size(LastStage) = MaxSamples
    BY <1>4, Constants DEF IsLast
  <2>2. Size(s) <= MaxSamples /\ Size(LastStage) <= Size(s) /\ Size(s) \in Nat
    BY <1>5, <2>1, SizeGrows
  <2> QED
    BY <2>1, <2>2, Constants DEF IsLast
<1>6. ASSUME NEW s \in Nat, s >= 1, ~IsLast(s) PROVE s + 1 <= LastStage
  <2>1. LastStage \in Nat
    BY <1>4, Constants
  <2>2. ~(s >= LastStage)
    BY <1>5, <1>6
  <2> QED
    BY <1>6, <2>1, <2>2
<1> QED
  BY <1>4, <1>5, <1>6

-----------------------------------------------------------------------------
(* The samples a rule sees.                                                *)

FrameOf(r, a, d) == {s \in Prefix(r, a, d, MaxAttempts) : r[s] # <<>>}

\* Rows and losses are of issued samples, so the filtered dataset is a part of
\* the issued ones.
LEMMA FrameIs ==
    ASSUME NEW r, NEW a, NEW d, a \subseteq d,
           \A s \in DOMAIN r : r[s] # <<>> => s \in d
    PROVE  FrameOf(r, a, d) =
              {s \in d : /\ r[s] # <<>>
                         /\ \A t \in d : t <= s =>
                               Resolved(r[t], t \in a, MaxAttempts)}
<1>1. Prefix(r, a, d, MaxAttempts) =
         {s \in d : \A t \in d : t <= s => Resolved(r[t], t \in a, MaxAttempts)}
  BY PrefixIs
<1> QED
  BY <1>1 DEF FrameOf

\* More rows and more samples given up only show more of the samples issued.
LEMMA FrameGrows ==
    ASSUME NEW r, NEW a, NEW q, NEW b, NEW d, a \subseteq d, b \subseteq d,
           \A s \in DOMAIN r : r[s] # <<>> => s \in d,
           \A s \in DOMAIN q : q[s] # <<>> => s \in d,
           \A s \in d : r[s] # <<>> => q[s] # <<>>,
           \A s \in d : Resolved(r[s], s \in a, MaxAttempts) =>
                           Resolved(q[s], s \in b, MaxAttempts)
    PROVE  FrameOf(r, a, d) \subseteq FrameOf(q, b, d)
<1>1. Prefix(r, a, d, MaxAttempts) \subseteq Prefix(q, b, d, MaxAttempts)
  BY PrefixGrows
<1>2. Prefix(r, a, d, MaxAttempts) \subseteq d
  BY PrefixIs
<1> QED
  BY <1>1, <1>2 DEF FrameOf

\* A sample of a number above all others changes nothing about the others.
LEMMA FrameOfMore ==
    ASSUME NEW r, NEW a, NEW d, NEW n \in Nat, a \subseteq d, d \subseteq Nat,
           \A s \in DOMAIN r : r[s] # <<>> => s \in d,
           n \in DOMAIN r, n \notin d, \A s \in d : s < n
    PROVE  FrameOf(r, a, d \cup {n}) = FrameOf(r, a, d)
<1> DEFINE e == d \cup {n}
<1>1. a \subseteq e /\ \A s \in DOMAIN r : r[s] # <<>> => s \in e
  OBVIOUS
<1>2. r[n] = <<>>
  OBVIOUS
<1>3. ASSUME NEW s PROVE s \in FrameOf(r, a, e) <=> s \in FrameOf(r, a, d)
  <2>1. s \in FrameOf(r, a, e) <=>
           /\ s \in e /\ r[s] # <<>>
           /\ \A t \in e : t <= s => Resolved(r[t], t \in a, MaxAttempts)
    <3> HIDE DEF e
    <3>1. FrameOf(r, a, e) =
             {u \in e : /\ r[u] # <<>>
                        /\ \A t \in e : t <= u =>
                              Resolved(r[t], t \in a, MaxAttempts)}
      BY <1>1, FrameIs
    <3> QED
      BY <3>1
  <2>2. s \in FrameOf(r, a, d) <=>
           /\ s \in d /\ r[s] # <<>>
           /\ \A t \in d : t <= s => Resolved(r[t], t \in a, MaxAttempts)
    <3>1. FrameOf(r, a, d) =
             {u \in d : /\ r[u] # <<>>
                        /\ \A t \in d : t <= u =>
                              Resolved(r[t], t \in a, MaxAttempts)}
      BY FrameIs
    <3> QED
      BY <3>1
  <2>3. s \in d => ~(n <= s)
    OBVIOUS
  <2> QED
    BY <1>2, <2>1, <2>2, <2>3
<1>4. FrameOf(r, a, e) = FrameOf(r, a, d)
  <2> HIDE DEF e
  <2> QED
    BY <1>3
<1> QED
  BY <1>4

\* The frame of a state depends on its dataset alone.
LEMMA FrameDef ==
    /\ Frame = FrameOf(rows, abandoned, issued)
    /\ Frame' = FrameOf(rows', abandoned', issued')
<1>1. Frame = FrameOf(rows, abandoned, issued)
  BY DEF Frame, Seen, FrameOf
<1>2. Frame' = FrameOf(rows', abandoned', issued')
  BY DEF Frame, Seen, FrameOf
<1> QED
  BY <1>1, <1>2

\* What the rules of a stage are computed from is finite and well typed.
LEMMA FrameFacts ==
    ASSUME DkwTypeOK, RowsOfIssued
    PROVE  /\ issued \subseteq Nat /\ IsFiniteSet(issued)
           /\ Frame \subseteq issued
           /\ Cardinality(Frame) \in Nat
           /\ Cardinality(Frame) <= Cardinality(issued)
           /\ Usable \in Seq(Frame) /\ Usable \in Seq(SampleIndexes)
           /\ \A s \in Frame : \A t \in issued : t <= s => Settled(t)
<1> DEFINE U == {s \in Frame : Successes(rows[s]) # {}}
<1>1. issued \subseteq SampleIndexes /\ abandoned \subseteq issued
  BY DEF DkwTypeOK
<1>2. SampleIndexes \subseteq Nat /\ IsFiniteSet(SampleIndexes)
  <2>1. 0 \in Int /\ 2 * (MaxSamples - 1) \in Int
    BY Constants
  <2> QED
    BY <2>1, FS_Interval DEF SampleIndexes
<1>3. issued \subseteq Nat /\ IsFiniteSet(issued)
  BY <1>1, <1>2, FS_Subset
<1>4. Frame = {s \in issued : /\ rows[s] # <<>>
                              /\ \A t \in issued : t <= s => Settled(t)}
  <2>1. \A s \in DOMAIN rows : rows[s] # <<>> => s \in issued
    BY DEF DkwTypeOK, RowsOfIssued
  <2> QED
    BY <1>1, <2>1, FrameDef, FrameIs DEF Settled
<1>5. Frame \subseteq issued /\ \A s \in Frame : \A t \in issued : t <= s => Settled(t)
  BY <1>4
<1>6. Cardinality(Frame) \in Nat /\ Cardinality(Frame) <= Cardinality(issued)
  BY <1>3, <1>5, FS_Subset, FS_CardinalityType
<1>7. U \subseteq Nat /\ IsFiniteSet(U) /\ U \subseteq Frame
  BY <1>3, <1>5, FS_Subset
<1>8. Usable \in Seq(U)
  <2> HIDE DEF U
  <2>1. InOrder(U) \in Seq(U)
    BY <1>7, InOrderFacts
  <2> QED
    BY <2>1 DEF Usable, U
<1>9. Usable \in Seq(Frame) /\ Usable \in Seq(SampleIndexes)
  <2>1. U \subseteq SampleIndexes
    BY <1>1, <1>5
  <2> HIDE DEF U
  <2> QED
    BY <1>7, <1>8, <2>1, SeqMonotonic
<1> QED
  BY <1>3, <1>5, <1>6, <1>9

-----------------------------------------------------------------------------
(* Steps of the dataset.                                                   *)

\* A step that only adds to the dataset keeps the invariant: what was settled
\* stays so, hence the stages that were evaluated.
LEMMA DatasetKeepsDInv ==
    ASSUME DInv,
           issued' = issued, UNCHANGED state,
           rows' \in [SampleIndexes -> Seq(BOOLEAN)],
           abandoned' \subseteq issued,
           \A s \in SampleIndexes : rows'[s] # <<>> => s \in issued,
           \A s \in issued : rows[s] # <<>> => rows'[s] # <<>>,
           \A s \in issued : Settled(s) =>
                  Resolved(rows'[s], s \in abandoned', MaxAttempts)
    PROVE  DInv'
<1>1. DkwTypeOK'
  BY DEF DInv, DkwTypeOK, state
<1>2. RowsOfIssued'
  BY DEF RowsOfIssued
<1>3. NumbersBelowNext'
  <2>1. Frame \subseteq Frame'
    <3> DEFINE q == rows'
               b == abandoned'
               d == issued
    <3>1. abandoned \subseteq d /\ b \subseteq d
      BY DEF DInv, DkwTypeOK
    <3>2. \A s \in DOMAIN rows : rows[s] # <<>> => s \in d
      BY DEF DInv, DkwTypeOK, RowsOfIssued
    <3>3. \A s \in DOMAIN q : q[s] # <<>> => s \in d
      OBVIOUS
    <3>4. \A s \in d : rows[s] # <<>> => q[s] # <<>>
      OBVIOUS
    <3>5. \A s \in d : Resolved(rows[s], s \in abandoned, MaxAttempts) =>
                          Resolved(q[s], s \in b, MaxAttempts)
      BY DEF Settled
    <3>6. FrameOf(rows, abandoned, d) \subseteq FrameOf(q, b, d)
      <4> HIDE DEF q, b, d
      <4> QED
        BY <3>1, <3>2, <3>3, <3>4, <3>5, FrameGrows
    <3> QED
      BY <3>6, FrameDef
  <2>2. /\ DkwTypeOK /\ RowsOfIssued
        /\ Cardinality(issued) = dispatched /\ dispatched \in Nat
        /\ \A t \in issued : t < Cardinality(Frame) + dispatched
    BY Constants DEF DInv, NumbersBelowNext, DkwTypeOK
  <2>3. /\ issued \subseteq Nat /\ IsFiniteSet(issued)
        /\ Cardinality(Frame) \in Nat
    BY <2>2, FrameFacts
  <2>4. Frame' \subseteq issued
    <3>1. \A s \in DOMAIN rows' : rows'[s] # <<>> => s \in issued
      OBVIOUS
    <3>2. Frame' = FrameOf(rows', abandoned', issued)
      BY FrameDef
    <3> QED
      BY <3>1, <3>2, FrameIs
  <2> DEFINE f == Frame
             g == Frame'
             k == Cardinality(f)
             l == Cardinality(g)
  <2>5. k <= l /\ l \in Nat
    <3>1. f \in SUBSET g /\ g \in SUBSET issued
      BY <2>1, <2>4
    <3> HIDE DEF f, g
    <3>2. IsFiniteSet(g)
      BY <2>3, <3>1, FS_Subset
    <3> QED
      BY <3>1, <3>2, FS_Subset, FS_CardinalityType
  <2>6. dispatched' = dispatched
    BY DEF state
  <2>7. \A t \in issued : t < k + dispatched /\ t \in Nat /\ k \in Nat
    BY <2>2, <2>3
  <2>8. Cardinality(Frame)' = l
    OBVIOUS
  <2> HIDE DEF k, l
  <2>9. \A t \in issued : t < l + dispatched
    BY <2>2, <2>5, <2>7
  <2>10. \A t \in issued' : t < Cardinality(Frame)' + dispatched'
    BY <2>6, <2>8, <2>9
  <2>11. Cardinality(issued)' = dispatched'
    BY <2>2, <2>6
  <2> QED
    BY <2>10, <2>11 DEF NumbersBelowNext
<1>4. StagesDone'
  BY DEF DInv, StagesDone, state, Size, LastStage, IsLast
<1> QED
  BY <1>1, <1>2, <1>3, <1>4 DEF DInv

\* A row is such a step,
LEMMA RowArrivesKeepsDInv ==
    ASSUME DInv, NEW s \in SampleIndexes, RowArrives(s)
    PROVE  DInv'
<1>1. PICK ok \in BOOLEAN : rows' = [rows EXCEPT ![s] = Append(@, ok)]
  BY DEF RowArrives
<1>2. /\ s \in issued /\ UNCHANGED <<issued, abandoned, state>>
  BY DEF RowArrives
<1>3. /\ rows \in [SampleIndexes -> Seq(BOOLEAN)]
      /\ abandoned \subseteq issued /\ issued \subseteq SampleIndexes
      /\ \A t \in SampleIndexes : rows[t] # <<>> => t \in issued
  BY DEF DInv, DkwTypeOK, RowsOfIssued
<1>4. /\ rows[s] \in Seq(BOOLEAN)
      /\ Append(rows[s], ok) \in Seq(BOOLEAN) /\ Append(rows[s], ok) # <<>>
      /\ \A t \in SampleIndexes :
            rows'[t] = IF t = s THEN Append(rows[s], ok) ELSE rows[t]
  <2>1. rows[s] \in Seq(BOOLEAN)
    BY <1>3
  <2> DEFINE r == rows[s]
  <2>2. r \in Seq(BOOLEAN)
    BY <2>1
  <2> HIDE DEF r
  <2>3. Append(r, ok) \in Seq(BOOLEAN) /\ Append(r, ok) # <<>>
    BY <2>2
  <2>4. Append(rows[s], ok) \in Seq(BOOLEAN) /\ Append(rows[s], ok) # <<>>
    BY <2>3 DEF r
  <2>5. \A t \in SampleIndexes :
            rows'[t] = IF t = s THEN Append(rows[s], ok) ELSE rows[t]
    BY <1>1, <1>3
  <2> QED
    BY <2>1, <2>4, <2>5
<1>5. rows' \in [SampleIndexes -> Seq(BOOLEAN)]
  BY <1>1, <1>3, <1>4
<1>6. \A t \in SampleIndexes : rows'[t] # <<>> => t \in issued
  BY <1>2, <1>3, <1>4
<1>7. \A t \in issued : rows[t] # <<>> => rows'[t] # <<>>
  BY <1>3, <1>4
<1>8. ASSUME NEW t \in issued, Settled(t)
      PROVE  Resolved(rows'[t], t \in abandoned', MaxAttempts)
  <2>1. Resolved(rows[t], t \in abandoned', MaxAttempts)
    <3>1. t \in abandoned' <=> t \in abandoned
      BY <1>2
    <3> QED
      BY <1>8, <3>1 DEF Settled, Resolved
  <2>2. CASE t = s
    <3>1. rows'[t] = Append(rows[t], ok) /\ rows[t] \in Seq(BOOLEAN)
      BY <1>3, <1>4, <2>2
    <3> QED
      BY <2>1, <3>1, ResolvedStays, Constants
  <2>3. CASE t # s
    <3>1. rows'[t] = rows[t]
      BY <1>3, <1>4, <2>3
    <3> QED
      BY <2>1, <3>1
  <2> QED
    BY <2>2, <2>3
<1>9. issued' = issued /\ abandoned' \subseteq issued /\ UNCHANGED state
  BY <1>2, <1>3
<1> QED
  BY <1>5, <1>6, <1>7, <1>8, <1>9, DatasetKeepsDInv

\* and so is a sample that is given up.
LEMMA GiveUpKeepsDInv ==
    ASSUME DInv, NEW s \in SampleIndexes, GiveUp(s)
    PROVE  DInv'
<1>1. /\ s \in issued /\ abandoned' = abandoned \cup {s}
      /\ rows' = rows /\ issued' = issued /\ UNCHANGED state
  BY DEF GiveUp
<1>2. /\ rows' \in [SampleIndexes -> Seq(BOOLEAN)]
      /\ abandoned' \subseteq issued
      /\ \A t \in SampleIndexes : rows'[t] # <<>> => t \in issued
  BY <1>1 DEF DInv, DkwTypeOK, RowsOfIssued
<1>3. \A t \in issued : Settled(t) =>
         Resolved(rows'[t], t \in abandoned', MaxAttempts)
  BY <1>1 DEF Settled, Resolved
<1> QED
  BY <1>1, <1>2, <1>3, DatasetKeepsDInv

-----------------------------------------------------------------------------
(* Evaluations.                                                            *)

Look == [stage : 1 .. LastStage, samples : Seq(SampleIndexes)]

\* An evaluation uses the samples of its stage, or all there are.
LEMMA LookFacts ==
    ASSUME DkwTypeOK, RowsOfIssued, NEW t \in 1 .. LastStage
    PROVE  /\ LookAt(t) \in Look
           /\ LookAt(t).stage = t
           /\ LookAt(t).samples \in Seq(Frame)
           /\ Len(Usable) \in Nat
           /\ Len(Usable) >= Size(t) => Len(LookAt(t).samples) = Size(t)
<1>1. Usable \in Seq(Frame) /\ Usable \in Seq(SampleIndexes)
  BY FrameFacts
<1>2. Size(t) \in Nat /\ Len(Usable) \in Nat
  <2>1. t \in Nat
    BY LastStageExists, Constants
  <2> QED
    BY <1>1, <2>1, SizeGrows, LenProperties
<1> DEFINE u == Usable
           n == Size(t)
           v == IF Len(u) < n THEN u ELSE SubSeq(u, 1, n)
<1>3. LookAt(t) = [stage |-> t, samples |-> v]
  BY DEF LookAt
<1>4. /\ v \in Seq(Frame) /\ v \in Seq(SampleIndexes)
      /\ Len(u) >= n => Len(v) = n
  <2>1. u \in Seq(Frame) /\ u \in Seq(SampleIndexes) /\ n \in Nat
    BY <1>1, <1>2
  <2> HIDE DEF u, n
  <2>2. CASE Len(u) < n
    <3>1. Len(u) \in Nat
      BY <2>1, LenProperties
    <3> QED
      BY <2>1, <2>2, <3>1
  <2>3. CASE ~(Len(u) < n)
    <3>1. Len(u) \in Nat /\ DOMAIN u = 1 .. Len(u)
      BY <2>1, LenProperties
    <3>2. \A i \in 1 .. n : u[i] \in Frame /\ u[i] \in SampleIndexes
      <4>1. \A i \in 1 .. n : i \in 1 .. Len(u)
        BY <2>1, <2>3, <3>1
      <4> QED
        BY <2>1, <4>1, ElementOfSeq
    <3>3. 1 \in Int /\ n \in Int
      BY <2>1
    <3>4. /\ SubSeq(u, 1, n) \in Seq(Frame)
          /\ Len(SubSeq(u, 1, n)) = IF 1 <= n THEN n - 1 + 1 ELSE 0
      BY <3>2, <3>3, SubSeqProperties
    <3>5. SubSeq(u, 1, n) \in Seq(SampleIndexes)
      BY <3>2, <3>3, SubSeqProperties
    <3>6. v = SubSeq(u, 1, n)
      BY <2>3
    <3>7. Len(SubSeq(u, 1, n)) = n
      BY <2>1, <3>4
    <3> QED
      BY <3>4, <3>5, <3>6, <3>7
  <2> QED
    BY <2>2, <2>3
<1> HIDE DEF v
<1> QED
  BY <1>2, <1>3, <1>4 DEF Look, u, n

\* The stages a call evaluates all exist, and only the last of them may have
\* too few samples, when no more can be issued.
LEMMA EvaluableFacts ==
    ASSUME DInv, final = "none", NEW s \in Evaluable
    PROVE  /\ stage \in Nat /\ s \in Nat /\ stage >= 1
           /\ stage <= s /\ s <= LastStage
           /\ \A t \in stage .. s - 1 : Len(Usable) >= Size(t)
           /\ ~Exhausted => Len(Usable) >= Size(s)
<1>1. LastStage \in Nat /\ LastStage >= 1
  BY LastStageExists, Constants
<1>2. stage \in Nat /\ stage >= 1 /\ stage <= LastStage
  BY <1>1 DEF DInv, DkwTypeOK, StagesDone
<1>3. s \in stage .. LastStage + 1 /\ Ready(s) /\ \A t \in stage .. s - 1 : GoesOn(t)
  BY DEF Evaluable
<1>4. s \in Nat /\ stage <= s /\ s <= LastStage + 1
  BY <1>1, <1>2, <1>3
<1>5. s <= LastStage
  <2> SUFFICES ASSUME ~(s <= LastStage) PROVE FALSE
    OBVIOUS
  <2>1. LastStage \in stage .. s - 1
    BY <1>1, <1>2, <1>4
  <2>2. ~IsLast(LastStage)
    BY <1>3, <2>1 DEF GoesOn
  <2>3. IsLast(LastStage)
    <3>1. LastStage >= LastStage
      BY <1>1
    <3> QED
      BY <1>1, <3>1, LastStageExists
  <2> QED
    BY <2>2, <2>3
<1>6. Usable \in Seq(Frame)
  BY FrameFacts DEF DInv
<1>7. Len(Usable) \in Nat
  BY <1>6, LenProperties
<1>8. ASSUME NEW t \in stage .. s - 1 PROVE Len(Usable) >= Size(t)
  <2>1. GoesOn(t)
    BY <1>3
  <2>2. Len(Usable) >= Size(t + 1)
    BY <2>1 DEF GoesOn, Ready
  <2>3. t \in Nat /\ t + 1 \in Nat /\ t <= t + 1
    BY <1>2, <1>4
  <2>4. Size(t) <= Size(t + 1) /\ Size(t) \in Nat /\ Size(t + 1) \in Nat
    BY <2>3, SizeGrows
  <2> QED
    BY <1>7, <2>2, <2>4
<1>9. ~Exhausted => Len(Usable) >= Size(s)
  BY <1>3 DEF Ready
<1> QED
  BY <1>2, <1>4, <1>5, <1>8, <1>9

\* What the history holds once the stages up to s are evaluated.
LEMMA EvaluateFacts ==
    ASSUME DInv, final = "none", NEW s \in Evaluable, Evaluate(s)
    PROVE  /\ stage' = s + 1 /\ s \in 1 .. LastStage
           /\ looks' \in Seq(Look) /\ Len(looks') = s
           /\ Len(looks) = stage - 1
           /\ \A i \in stage .. s : looks'[i] = LookAt(i)
           /\ \A i \in 1 .. s : looks'[i].stage = i
           /\ \A i \in 1 .. s : i < s \/ ~Exhausted =>
                 Len(looks'[i].samples) = Size(i)
<1>1. /\ stage \in Nat /\ s \in Nat /\ stage >= 1
      /\ stage <= s /\ s <= LastStage
      /\ \A t \in stage .. s - 1 : Len(Usable) >= Size(t)
      /\ ~Exhausted => Len(Usable) >= Size(s)
  BY EvaluableFacts
<1>2. LastStage \in Nat
  BY LastStageExists, Constants
<1>3. \A t \in stage .. s : t \in 1 .. LastStage
  BY <1>1, <1>2
<1>4. DkwTypeOK /\ RowsOfIssued /\ StagesDone
  BY DEF DInv
<1> DEFINE m == s - stage + 1
           e(i) == LookAt(stage + i - 1)
           more == [i \in 1 .. m |-> e(i)]
<1>5. m \in Nat /\ \A i \in 1 .. m : stage + i - 1 \in stage .. s
  BY <1>1
<1>6. \A i \in 1 .. m : e(i) \in Look
  <2>1. ASSUME NEW i \in 1 .. m PROVE e(i) \in Look
    <3>1. stage + i - 1 \in 1 .. LastStage
      BY <1>3, <1>5
    <3> QED
      BY <1>4, <3>1, LookFacts
  <2> QED
    BY <2>1
<1>7. more \in Seq(Look) /\ Len(more) = m
  <2> HIDE DEF m, e
  <2>1. more \in [1 .. m -> Look]
    BY <1>6
  <2> HIDE DEF more
  <2> QED
    BY <1>5, <2>1
<1>8. looks \in Seq(Look) /\ Len(looks) = stage - 1 /\ final = "none"
  BY <1>4 DEF DkwTypeOK, StagesDone, Look
<1>9. looks' = looks \o more /\ stage' = s + 1
  BY DEF Evaluate
<1>10. /\ looks' \in Seq(Look) /\ Len(looks') = Len(looks) + m
       /\ \A i \in 1 .. Len(looks) + m :
             looks'[i] = IF i <= Len(looks) THEN looks[i] ELSE more[i - Len(looks)]
  <2> HIDE DEF more, m
  <2> QED
    BY <1>7, <1>8, <1>9, ConcatProperties
<1>11. Len(looks') = s /\ Len(looks) + m = s
  <2>1. Len(looks) + m = s
    BY <1>1, <1>8
  <2> QED
    BY <1>10, <2>1
<1>12. ASSUME NEW i \in stage .. s PROVE looks'[i] = LookAt(i)
  <2>1. i \in 1 .. s /\ ~(i <= Len(looks))
    BY <1>1, <1>8
  <2>2. looks'[i] = more[i - Len(looks)]
    BY <1>10, <1>11, <2>1
  <2>3. /\ i - Len(looks) \in 1 .. m
        /\ stage + (i - Len(looks)) - 1 = i
    BY <1>1, <1>8
  <2>4. more[i - Len(looks)] = e(i - Len(looks))
    BY <2>3
  <2> QED
    BY <2>2, <2>3, <2>4
<1>13. ASSUME NEW i \in 1 .. s
       PROVE  /\ looks'[i].stage = i
              /\ i < s \/ ~Exhausted => Len(looks'[i].samples) = Size(i)
  <2>1. CASE i < stage
    <3>1. i \in 1 .. Len(looks)
      BY <1>1, <1>8, <2>1
    <3>2. looks'[i] = looks[i]
      <4>1. i <= Len(looks) /\ i \in 1 .. Len(looks) + m
        BY <1>1, <1>8, <1>11, <3>1
      <4> HIDE DEF m, more
      <4> QED
        BY <1>10, <4>1
    <3>3. i \in DOMAIN looks
      <4>1. DOMAIN looks = 1 .. Len(looks)
        BY <1>8, LenProperties
      <4> QED
        BY <3>1, <4>1
    <3>4. looks[i].stage = i /\ Len(looks[i].samples) = Size(i)
      BY <1>4, <1>8, <3>3 DEF StagesDone
    <3> QED
      BY <3>2, <3>4
  <2>2. CASE ~(i < stage)
    <3>1. i \in stage .. s
      BY <1>1, <2>2
    <3>2. looks'[i] = LookAt(i) /\ i \in 1 .. LastStage
      BY <1>3, <1>12, <3>1
    <3>3. /\ LookAt(i).stage = i
          /\ Len(Usable) >= Size(i) => Len(LookAt(i).samples) = Size(i)
      BY <1>4, <3>2, LookFacts
    <3>4. i < s => i \in stage .. s - 1
      BY <1>1, <3>1
    <3>5. i < s => Len(Usable) >= Size(i)
      BY <1>1, <3>4
    <3>6. ~(i < s) => i = s
      BY <1>1, <3>1
    <3>7. ~(i < s) /\ ~Exhausted => Len(Usable) >= Size(i)
      BY <1>1, <3>6
    <3> QED
      BY <3>2, <3>3, <3>5, <3>7
  <2> QED
    BY <2>1, <2>2
<1>14. s \in 1 .. LastStage
  BY <1>1, <1>2
<1> QED
  BY <1>8, <1>9, <1>10, <1>11, <1>12, <1>13, <1>14

\* Of the stages that can be evaluated there is a last one.
LEMMA EvaluateAllFacts ==
    ASSUME DInv, final = "none", EvaluateAll
    PROVE  \/ UNCHANGED <<looks, stage>>
           \/ \E s \in Evaluable : Evaluate(s)
<1>1. CASE Evaluable = {}
  BY <1>1 DEF EvaluateAll
<1>2. CASE Evaluable # {}
  <2>1. Evaluable \subseteq Nat /\ \A s \in Evaluable : s <= LastStage
    BY EvaluableFacts
  <2>2. LastStage \in Nat
    BY LastStageExists, Constants
  <2>3. \E s \in Evaluable : \A t \in Evaluable : t <= s
    BY <1>2, <2>1, <2>2, Largest
  <2>4. (CHOOSE s \in Evaluable : \A t \in Evaluable : t <= s) \in Evaluable
    BY <2>3
  <2>5. Evaluate(CHOOSE s \in Evaluable : \A t \in Evaluable : t <= s)
    BY <1>2 DEF EvaluateAll
  <2> QED
    BY <2>4, <2>5
<1> QED
  BY <1>1, <1>2

-----------------------------------------------------------------------------
(* The steps of the rule.                                                  *)

\* A step that leaves the dataset alone keeps what is known about its samples.
LEMMA SameData ==
    ASSUME UNCHANGED data
    PROVE  Frame' = Frame
<1>1. rows' = rows /\ issued' = issued /\ abandoned' = abandoned
  BY DEF data
<1> QED
  BY <1>1, FrameDef

\* A final decision keeps the invariant, with or without a last evaluation.
LEMMA DecisionKeepsDInv ==
    ASSUME DInv, final = "none", final' \in {"complete", "exhausted"},
           UNCHANGED <<data, dispatched>>,
           \/ UNCHANGED <<looks, stage>>
           \/ \E s \in Evaluable : Evaluate(s)
    PROVE  DInv'
<1>1. /\ rows' = rows /\ issued' = issued /\ abandoned' = abandoned
      /\ dispatched' = dispatched
  BY DEF data
<1>2. LastStage' = LastStage /\ \A i : Size(i)' = Size(i)
  BY DEF LastStage, IsLast, Size
<1>3. RowsOfIssued' /\ NumbersBelowNext'
  <2>1. Frame' = Frame
    BY SameData
  <2> QED
    BY <1>1, <2>1 DEF DInv, RowsOfIssued, NumbersBelowNext
<1>4. CASE UNCHANGED <<looks, stage>>
  <2>1. DkwTypeOK'
    BY <1>1, <1>4 DEF DInv, DkwTypeOK
  <2>2. StagesDone'
    <3>1. \A i \in DOMAIN looks : looks[i].stage = i /\
             (i < Len(looks) \/ final = "none" => Len(looks[i].samples) = Size(i))
      BY DEF DInv, StagesDone
    <3>2. Len(looks) = stage - 1
      BY DEF DInv, StagesDone
    <3> QED
      BY <1>2, <1>4, <3>1, <3>2 DEF StagesDone
  <2> QED
    BY <1>3, <2>1, <2>2 DEF DInv
<1>5. ASSUME NEW s \in Evaluable, Evaluate(s) PROVE DInv'
  <2>1. /\ stage' = s + 1 /\ s \in 1 .. LastStage
        /\ looks' \in Seq(Look) /\ Len(looks') = s
        /\ \A i \in 1 .. s : looks'[i].stage = i
        /\ \A i \in 1 .. s : i < s \/ ~Exhausted =>
              Len(looks'[i].samples) = Size(i)
    BY <1>5, EvaluateFacts
  <2>2. stage' \in 1 .. LastStage + 1
    BY <2>1, LastStageExists, Constants
  <2>3. DkwTypeOK'
    BY <1>1, <1>2, <2>1, <2>2 DEF DInv, DkwTypeOK, Look
  <2>4. StagesDone'
    <3>1. DOMAIN looks' = 1 .. s
      BY <2>1, LenProperties
    <3>2. s = stage' - 1
      BY <2>1, LastStageExists, Constants
    <3> QED
      BY <1>2, <2>1, <3>1, <3>2 DEF StagesDone
  <2> QED
    BY <1>3, <2>3, <2>4 DEF DInv
<1> QED
  BY <1>4, <1>5

\* The next sample's number is one of its own, above those issued before.
LEMMA NextNumberFacts ==
    ASSUME DInv, ~Exhausted
    PROVE  /\ NextNumber \in SampleIndexes /\ NextNumber \in Nat
           /\ \A t \in issued : t < NextNumber
           /\ NextNumber < Cardinality(Frame) + dispatched + 1
<1>1. /\ issued \subseteq Nat /\ IsFiniteSet(issued)
      /\ Cardinality(Frame) \in Nat
      /\ Cardinality(Frame) <= Cardinality(issued)
  BY FrameFacts DEF DInv
<1>2. /\ Cardinality(issued) = dispatched /\ dispatched \in Nat
      /\ \A t \in issued : t < Cardinality(Frame) + dispatched
      /\ ~(dispatched >= MaxSamples)
  BY Constants DEF DInv, NumbersBelowNext, DkwTypeOK, Exhausted
<1> DEFINE c == Cardinality(Frame)
<1>3. c \in Nat /\ c <= dispatched /\ \A t \in issued : t < c + dispatched
  BY <1>1, <1>2
<1>4. NextNumber = IF issued = {} THEN 0 ELSE c + dispatched
  BY DEF NextNumber
<1> HIDE DEF c
<1>5. c + dispatched \in Nat /\ c + dispatched <= 2 * (MaxSamples - 1)
  BY <1>2, <1>3, Constants
<1>6. NextNumber \in Nat /\ NextNumber <= c + dispatched
  BY <1>4, <1>5
<1>7. NextNumber \in SampleIndexes
  BY <1>5, <1>6, Constants DEF SampleIndexes
<1>8. \A t \in issued : t < NextNumber
  BY <1>3, <1>4
<1>9. NextNumber < c + dispatched + 1
  BY <1>5, <1>6
<1> QED
  BY <1>6, <1>7, <1>8, <1>9 DEF c

\* The next sample has a number nothing has yet, so the invariant survives it.
LEMMA IssueKeepsDInv ==
    ASSUME DInv, IssueNext
    PROVE  DInv'
<1>1. /\ final = "none" /\ final' = "none" /\ EvaluateAll /\ ~Exhausted
      /\ ~(stage' > 1 /\ IsLast(stage' - 1)) /\ IssueSample
  BY DEF IssueNext, Decided
<1> DEFINE n == NextNumber
<1>2. /\ n \in SampleIndexes /\ n \in Nat /\ \A t \in issued : t < n
      /\ n < Cardinality(Frame) + dispatched + 1
  BY <1>1, NextNumberFacts
<1>3. /\ issued' = issued \cup {n} /\ dispatched' = dispatched + 1
      /\ rows' = rows /\ abandoned' = abandoned
  BY <1>1 DEF IssueSample
<1> HIDE DEF n
<1>4. LastStage' = LastStage /\ \A i : Size(i)' = Size(i)
  BY DEF LastStage, IsLast, Size
<1>5. /\ rows \in [SampleIndexes -> Seq(BOOLEAN)]
      /\ issued \subseteq SampleIndexes /\ abandoned \subseteq issued
      /\ stage \in 1 .. LastStage + 1 /\ dispatched \in 0 .. MaxSamples
      /\ looks \in Seq(Look)
  BY DEF DInv, DkwTypeOK, Look
<1>6. /\ \A s \in SampleIndexes : rows[s] # <<>> => s \in issued
      /\ Cardinality(issued) = dispatched
      /\ \A t \in issued : t < Cardinality(Frame) + dispatched
  BY DEF DInv, RowsOfIssued, NumbersBelowNext
<1>7. /\ issued \subseteq Nat /\ IsFiniteSet(issued)
      /\ Cardinality(Frame) \in Nat
  BY FrameFacts DEF DInv
<1>8. n \notin issued
  <2>1. ~(n < n)
    BY <1>2
  <2> QED
    BY <1>2, <2>1
<1>9. dispatched' \in 0 .. MaxSamples
  BY <1>1, <1>3, <1>5, Constants DEF Exhausted
<1>10. RowsOfIssued'
  BY <1>3, <1>6 DEF RowsOfIssued
<1>11. NumbersBelowNext'
  <2>1. Frame' = Frame
    <3>1. n \in DOMAIN rows /\ \A s \in DOMAIN rows : rows[s] # <<>> => s \in issued
      BY <1>2, <1>5, <1>6
    <3>2. FrameOf(rows, abandoned, issued \cup {n}) =
             FrameOf(rows, abandoned, issued)
      BY <1>2, <1>5, <1>7, <1>8, <3>1, FrameOfMore
    <3> QED
      BY <1>3, <3>2, FrameDef
  <2>2. Cardinality(issued)' = dispatched'
    <3>1. Cardinality(issued \cup {n}) = Cardinality(issued) + 1
      BY <1>7, <1>8, FS_AddElement
    <3> QED
      BY <1>3, <1>6, <3>1
  <2> DEFINE c == Cardinality(Frame)
  <2>3. /\ c \in Nat /\ n < c + dispatched + 1 /\ Cardinality(Frame)' = c
        /\ \A t \in issued : t < c + dispatched
    BY <1>2, <1>6, <1>7, <2>1
  <2>4. dispatched \in Nat /\ issued \subseteq Nat
    BY <1>5, <1>7, Constants
  <2> HIDE DEF c
  <2>5. \A t \in issued \cup {n} : t < c + (dispatched + 1)
    BY <1>2, <2>3, <2>4
  <2> QED
    BY <1>3, <2>2, <2>3, <2>5 DEF NumbersBelowNext
<1>12. CASE UNCHANGED <<looks, stage>>
  <2>1. DkwTypeOK'
    BY <1>1, <1>2, <1>3, <1>5, <1>9, <1>12 DEF DkwTypeOK, Look
  <2>2. StagesDone'
    BY <1>1, <1>4, <1>12 DEF DInv, StagesDone
  <2> QED
    BY <1>10, <1>11, <2>1, <2>2 DEF DInv
<1>13. ASSUME NEW s \in Evaluable, Evaluate(s) PROVE DInv'
  <2>1. /\ stage' = s + 1 /\ s \in 1 .. LastStage
        /\ looks' \in Seq(Look) /\ Len(looks') = s
        /\ \A i \in 1 .. s : looks'[i].stage = i
        /\ \A i \in 1 .. s : i < s \/ ~Exhausted =>
              Len(looks'[i].samples) = Size(i)
    BY <1>1, <1>13, EvaluateFacts
  <2>2. s \in Nat /\ s >= 1 /\ LastStage \in Nat
    BY <2>1, LastStageExists, Constants
  <2>3. stage' - 1 = s /\ stage' > 1
    BY <2>1, <2>2
  <2>4. ~IsLast(s)
    BY <1>1, <2>3
  <2>5. stage' <= LastStage
    BY <2>1, <2>2, <2>4, LastStageExists
  <2>6. stage' \in 1 .. LastStage + 1
    BY <2>1, <2>2, <2>5
  <2>7. DkwTypeOK'
    BY <1>1, <1>2, <1>3, <1>4, <1>5, <1>9, <2>1, <2>6 DEF DkwTypeOK, Look
  <2>8. StagesDone'
    <3>1. DOMAIN looks' = 1 .. s
      BY <2>1, LenProperties
    <3>2. \A i \in 1 .. s : Len(looks'[i].samples) = Size(i)
      BY <1>1, <2>1
    <3> QED
      BY <1>1, <1>4, <2>1, <2>3, <2>5, <3>1, <3>2 DEF StagesDone
  <2> QED
    BY <1>10, <1>11, <2>7, <2>8 DEF DInv
<1> QED
  BY <1>1, <1>12, <1>13, EvaluateAllFacts

-----------------------------------------------------------------------------
(* The theorems.                                                           *)

\* The invariant holds in the beginning.
LEMMA InitDInv == Init => DInv
<1> SUFFICES ASSUME Init PROVE DInv
  OBVIOUS
<1>1. /\ rows = [s \in SampleIndexes |-> <<>>] /\ issued = {} /\ abandoned = {}
      /\ stage = 1 /\ dispatched = 0 /\ final = "none" /\ looks = <<>>
  BY DEF Init
<1>2. LastStage \in Nat /\ LastStage >= 1
  BY LastStageExists, Constants
<1>3. DkwTypeOK
  <2>1. /\ stage \in 1 .. LastStage + 1 /\ dispatched \in 0 .. MaxSamples
    BY <1>1, <1>2, Constants
  <2>2. looks \in Seq([stage : 1 .. LastStage, samples : Seq(SampleIndexes)])
    BY <1>1, EmptySeq
  <2>3. rows \in [SampleIndexes -> Seq(BOOLEAN)]
    BY <1>1, EmptySeq
  <2> QED
    BY <1>1, <2>1, <2>2, <2>3 DEF DkwTypeOK
<1>4. RowsOfIssued
  BY <1>1 DEF RowsOfIssued
<1>5. NumbersBelowNext
  BY <1>1, FS_EmptySet DEF NumbersBelowNext
<1>6. StagesDone
  <2>1. Len(looks) = 0 /\ DOMAIN looks = {}
    BY <1>1
  <2> QED
    BY <1>1, <1>2, <2>1 DEF StagesDone
<1> QED
  BY <1>3, <1>4, <1>5, <1>6 DEF DInv

\* Every step keeps the invariant.
LEMMA NextDInv == DInv /\ [Next]_vars => DInv'
<1> SUFFICES ASSUME DInv, [Next]_vars PROVE DInv'
  OBVIOUS
<1>1. ASSUME NEW s \in SampleIndexes, RowArrives(s) PROVE DInv'
  BY <1>1, RowArrivesKeepsDInv
<1>2. ASSUME NEW s \in SampleIndexes, GiveUp(s) PROVE DInv'
  BY <1>2, GiveUpKeepsDInv
<1>3. CASE StopContent
  <2>1. /\ final = "none" /\ final' = "complete"
        /\ UNCHANGED <<data, dispatched>>
        /\ \E s \in Evaluable : Evaluate(s)
    BY <1>3 DEF StopContent, Decided
  <2> QED
    BY <2>1, DecisionKeepsDInv
<1>4. CASE StopExhausted
  <2>1. /\ final = "none" /\ final' = "exhausted"
        /\ UNCHANGED <<data, dispatched>> /\ EvaluateAll
    BY <1>4 DEF StopExhausted, Decided
  <2> QED
    BY <2>1, EvaluateAllFacts, DecisionKeepsDInv
<1>5. CASE IssueNext
  BY <1>5, IssueKeepsDInv
<1>6. CASE UNCHANGED vars
  <2>1. UNCHANGED data /\ UNCHANGED state
    BY <1>6 DEF vars
  <2>2. Frame' = Frame
    BY <2>1, SameData
  <2> QED
    BY <2>1, <2>2 DEF data, state, DInv, DkwTypeOK, RowsOfIssued,
       NumbersBelowNext, StagesDone, LastStage, IsLast, Size
<1> QED
  BY <1>1, <1>2, <1>3, <1>4, <1>5, <1>6 DEF Next, Ask

\* Every run keeps the invariant: rows come only of samples that were issued,
\* the numbers are below the next one, and the history holds the stages done.
THEOREM StagesInvariant == Spec => []DInv
<1> QED
  BY InitDInv, NextDInv, PTL DEF Spec

\* The state of the rule has its type, so no number is drawn and no stage is
\* evaluated beyond the last, and no more samples are issued than allowed.
THEOREM StagesTypeCorrect == Spec => []DkwTypeOK
<1>1. DInv => DkwTypeOK
  BY DEF DInv
<1> QED
  BY <1>1, StagesInvariant, PTL

\* Every stage's share of the error is spent at most once and in order, and
\* all stages but the last one evaluated have exactly their samples.
THEOREM StagesInOrderCorrect == Spec => []StagesInOrder
<1>1. DInv => StagesInOrder
  BY DEF DInv, StagesDone, StagesInOrder
<1> QED
  BY <1>1, StagesInvariant, PTL

\* A decision to stop stands: only results of samples still arrive after it.
THEOREM DecisionKeptCorrect == Spec => DecisionKept
<1>1. [Next]_vars => [final # "none" => UNCHANGED state]_vars
  BY DEF Next, Ask, StopContent, StopExhausted, IssueNext, Decided,
     RowArrives, GiveUp, vars
<1> QED
  BY <1>1, PTL DEF Spec, DecisionKept

\* Every sample issued gets a number above all earlier ones.
THEOREM NumbersIncreaseCorrect == Spec => NumbersIncrease
<1> DEFINE Above == dispatched' # dispatched =>
                       \E s \in issued' \ issued : \A t \in issued : t < s
<1>1. ASSUME DInv, [Next]_vars PROVE [Above]_vars
  <2> SUFFICES ASSUME dispatched' # dispatched
               PROVE  \E s \in issued' \ issued : \A t \in issued : t < s
    OBVIOUS
  <2>1. IssueNext
    BY <1>1 DEF Next, Ask, StopContent, StopExhausted, RowArrives, GiveUp,
       vars, data, state
  <2>2. ~Exhausted /\ issued' = issued \cup {NextNumber}
    BY <2>1 DEF IssueNext, IssueSample
  <2> DEFINE n == NextNumber
  <2>3. n \in Nat /\ \A t \in issued : t < n
    BY <1>1, <2>2, NextNumberFacts
  <2> HIDE DEF n
  <2>4. ~(n < n)
    BY <2>3
  <2>5. n \in issued' \ issued
    BY <2>2, <2>3, <2>4 DEF n
  <2> QED
    BY <2>3, <2>5
<1> QED
  BY <1>1, StagesInvariant, PTL DEF Spec, NumbersIncrease

\* When a stage is evaluated, every sample issued before the last one it uses
\* has its final result.
THEOREM NoneOvertakenCorrect == Spec => NoneOvertaken
<1> DEFINE Ordered ==
             \A i \in DOMAIN looks' \ DOMAIN looks :
                \A s \in issued : \A j \in DOMAIN looks'[i].samples :
                   s <= looks'[i].samples[j] => Settled(s)
<1>1. ASSUME DInv, [Next]_vars PROVE [Ordered]_vars
  <2>1. CASE UNCHANGED <<looks, stage>>
    <3>1. Ordered
      BY <2>1
    <3> QED
      BY <3>1
  <2>2. ASSUME NEW s \in Evaluable, Evaluate(s), final = "none"
        PROVE  Ordered
    <3>1. /\ Len(looks') = s /\ looks' \in Seq(Look) /\ Len(looks) = stage - 1
          /\ \A i \in stage .. s : looks'[i] = LookAt(i)
          /\ s \in 1 .. LastStage
      BY <1>1, <2>2, EvaluateFacts
    <3>2. looks \in Seq(Look) /\ stage \in Nat /\ stage >= 1
      BY <1>1, LastStageExists, Constants DEF DInv, DkwTypeOK, Look
    <3>3. DOMAIN looks' = 1 .. s /\ DOMAIN looks = 1 .. stage - 1
      BY <3>1, <3>2, LenProperties
    <3>4. ASSUME NEW i \in DOMAIN looks' \ DOMAIN looks,
                 NEW t \in issued, NEW j \in DOMAIN looks'[i].samples,
                 t <= looks'[i].samples[j]
          PROVE  Settled(t)
      <4>1. i \in stage .. s /\ i \in 1 .. LastStage
        BY <3>1, <3>2, <3>3, LastStageExists, Constants
      <4>2. looks'[i].samples \in Seq(Frame)
        <5>1. looks'[i] = LookAt(i)
          BY <3>1, <4>1
        <5>2. LookAt(i).samples \in Seq(Frame)
          BY <1>1, <4>1, LookFacts DEF DInv
        <5> QED
          BY <5>1, <5>2
      <4> DEFINE q == looks'[i].samples
      <4>3. q \in Seq(Frame) /\ j \in DOMAIN q
        BY <4>2
      <4> HIDE DEF q
      <4>4. q[j] \in Frame
        BY <4>3, LenProperties, ElementOfSeq
      <4>5. t <= q[j]
        BY <3>4 DEF q
      <4> QED
        BY <1>1, <4>4, <4>5, FrameFacts DEF DInv
    <3> QED
      BY <3>4
  <2>3. CASE StopContent
    BY <2>2, <2>3 DEF StopContent, Decided
  <2>4. CASE StopExhausted
    <3>1. final = "none" /\ EvaluateAll
      BY <2>4 DEF StopExhausted, Decided
    <3> QED
      BY <1>1, <2>1, <2>2, <3>1, EvaluateAllFacts
  <2>5. CASE IssueNext
    <3>1. final = "none" /\ EvaluateAll
      BY <2>5 DEF IssueNext, Decided
    <3> QED
      BY <1>1, <2>1, <2>2, <3>1, EvaluateAllFacts
  <2>6. CASE UNCHANGED vars
    BY <2>6
  <2>7. ASSUME NEW s \in SampleIndexes, RowArrives(s) \/ GiveUp(s)
        PROVE  [Ordered]_vars
    BY <2>1, <2>7 DEF RowArrives, GiveUp, state
  <2> QED
    BY <1>1, <2>3, <2>4, <2>5, <2>6, <2>7 DEF Next, Ask
<1> QED
  BY <1>1, StagesInvariant, PTL DEF Spec, NoneOvertaken
=============================================================================
