------------------------ MODULE ExperimentRoundsProofs ------------------------
(***************************************************************************)
(* Proofs about ExperimentRounds, for any plans, roots, samples, attempts  *)
(* and sessions: the records of an experiment share one identity, a run    *)
(* that is called complete evaluates one success of each sample, and a     *)
(* session that ends by itself has used up the attempts.                   *)
(***************************************************************************)
EXTENDS ExperimentRounds, TLAPS, WellFoundedInduction, FiniteSetTheorems

-----------------------------------------------------------------------------
(* The latest attempt in a sequence of records.                            *)

AttemptsIn(r, s) == {i \in DOMAIN r : r[i].id = s}

After(r, i, j) ==
    \/ r[j].attempt < r[i].attempt
    \/ r[j].attempt = r[i].attempt /\ j <= i

LatestIn(r, s) ==
    CHOOSE i \in AttemptsIn(r, s) : \A j \in AttemptsIn(r, s) : After(r, i, j)

ResolvedIn(r, s) ==
    AttemptsIn(r, s) # {} /\ r[LatestIn(r, s)].result = "resolved"

NextIn(r, s) ==
    IF AttemptsIn(r, s) = {} THEN 0 ELSE r[LatestIn(r, s)].attempt + 1

\* The operators of the model as functions of one file.
LEMMA InRecords ==
    ASSUME NEW k, NEW s
    PROVE  /\ Attempts(k, s) = AttemptsIn(records[k], s)
           /\ Latest(k, s) = LatestIn(records[k], s)
           /\ Resolved(k, s) <=> ResolvedIn(records[k], s)
           /\ NextAttempt(k, s) = NextIn(records[k], s)
<1>1. Attempts(k, s) = AttemptsIn(records[k], s)
  BY DEF Attempts, AttemptsIn
<1>2. Latest(k, s) = LatestIn(records[k], s)
  BY DEF Latest, LatestIn, Attempts, AttemptsIn, After
<1> QED
  BY <1>1, <1>2 DEF Resolved, ResolvedIn, NextAttempt, NextIn

\* The same of the next state.
LEMMA InRecordsNext ==
    ASSUME NEW k, NEW s
    PROVE  /\ Attempts(k, s)' = AttemptsIn(records'[k], s)
           /\ Resolved(k, s)' <=> ResolvedIn(records'[k], s)
           /\ NextAttempt(k, s)' = NextIn(records'[k], s)
<1>1. Attempts(k, s)' = AttemptsIn(records'[k], s)
  BY DEF Attempts, AttemptsIn
<1>2. Latest(k, s)' = LatestIn(records'[k], s)
  BY DEF Latest, LatestIn, Attempts, AttemptsIn, After
<1> QED
  BY <1>1, <1>2 DEF Resolved, ResolvedIn, NextAttempt, NextIn

\* The lines of a file are records with numbered attempts.
LEMMA RecordFields ==
    ASSUME NEW r \in Seq(Record), NEW i \in DOMAIN r
    PROVE  /\ r[i] \in Record /\ i \in Nat
           /\ r[i].attempt \in Nat
<1>1. r[i] \in Record /\ i \in Nat
  OBVIOUS
<1> QED
  BY <1>1 DEF Record

\* A set of natural numbers has a smallest member.
LEMMA Smallest ==
    ASSUME NEW T, T \subseteq Nat, T # {}
    PROVE  \E n \in T : \A m \in T : n <= m
<1>1. PICK n \in T : \A m \in T : <<m, n>> \notin OpToRel(<, Nat)
  BY NatLessThanWellFounded, WFMin, Zenon
<1>2. ASSUME NEW m \in T PROVE n <= m
  <2>1. m \in Nat /\ n \in Nat /\ ~(m < n)
    BY <1>1, <1>2 DEF OpToRel
  <2> QED
    BY <2>1
<1> QED
  BY <1>2

\* One of the attempts at a sample comes after all others.
LEMMA LatestExists ==
    ASSUME NEW r \in Seq(Record), NEW s, AttemptsIn(r, s) # {}
    PROVE  \E i \in AttemptsIn(r, s) : \A j \in AttemptsIn(r, s) : After(r, i, j)
<1> DEFINE A == AttemptsIn(r, s)
           Up(n) == {i \in A : i <= n}
           P(n) == Up(n) # {} => \E i \in Up(n) : \A j \in Up(n) : After(r, i, j)
           C == {n \in Nat : ~P(n)}
<1>1. A \subseteq DOMAIN r /\ DOMAIN r = 1 .. Len(r) /\ Len(r) \in Nat
  BY DEF AttemptsIn
<1>2. \A i \in A : i \in Nat /\ i # 0 /\ r[i].attempt \in Nat
  BY <1>1, RecordFields
<1>3. C = {}
  <2> SUFFICES ASSUME C # {} PROVE FALSE
    OBVIOUS
  <2>1. PICK n \in C : \A m \in C : n <= m
    <3>1. C \subseteq Nat
      OBVIOUS
    <3> HIDE DEF C
    <3> QED
      BY <3>1, Smallest
  <2>2. n \in Nat
    OBVIOUS
  <2>3. ~P(n)
    OBVIOUS
  <2>4. ASSUME NEW m \in Nat, m < n PROVE P(m)
    BY <2>1, <2>4
  <2>5. n # 0
    BY <1>2, <2>3
  <2>6. n - 1 \in Nat /\ P(n - 1)
    BY <2>2, <2>4, <2>5
  <2> HIDE DEF A, P, C
  <2>7. \A i \in A : i <= n - 1 <=> i <= n /\ i # n
    BY <1>2, <2>2
  <2>8. CASE n \notin A
    <3>1. Up(n) = Up(n - 1)
      BY <1>2, <2>2, <2>7, <2>8
    <3> QED
      BY <2>3, <2>6, <3>1 DEF P
  <2>9. CASE n \in A
    <3>1. Up(n) = Up(n - 1) \cup {n}
      <4>1. n <= n
        BY <2>2
      <4>2. \A i : i \in Up(n) <=> i \in A /\ i <= n
        OBVIOUS
      <4>3. \A i : i \in Up(n - 1) <=> i \in A /\ i <= n - 1
        OBVIOUS
      <4> HIDE DEF Up
      <4> QED
        BY <2>7, <2>9, <4>1, <4>2, <4>3
    <3>2. After(r, n, n)
      BY <2>2 DEF After
    <3>3. CASE Up(n - 1) = {}
      BY <2>3, <3>1, <3>2, <3>3 DEF P
    <3>4. CASE Up(n - 1) # {}
      <4>1. PICK i \in Up(n - 1) : \A j \in Up(n - 1) : After(r, i, j)
        BY <2>6, <3>4 DEF P
      <4>2. i \in A /\ i \in Nat /\ r[i].attempt \in Nat /\ r[n].attempt \in Nat
        BY <1>2, <2>9
      <4>3. CASE r[n].attempt < r[i].attempt
        <5>1. After(r, i, n)
          BY <4>3 DEF After
        <5> QED
          BY <2>3, <3>1, <4>1, <5>1 DEF P
      <4>4. CASE ~(r[n].attempt < r[i].attempt)
        <5>1. ASSUME NEW j \in Up(n - 1) PROVE After(r, n, j)
          <6>1. /\ After(r, i, j) /\ r[j].attempt \in Nat
                /\ j \in Nat /\ j <= n - 1
            BY <1>2, <4>1, <5>1
          <6>2. j <= n
            BY <2>2, <6>1
          <6> QED
            BY <4>2, <4>4, <6>1, <6>2 DEF After
        <5> QED
          BY <2>3, <3>1, <3>2, <5>1 DEF P
      <4> QED
        BY <4>3, <4>4
    <3> QED
      BY <3>3, <3>4
  <2> QED
    BY <2>8, <2>9
<1>4. P(Len(r))
  BY <1>1, <1>3
<1>5. Up(Len(r)) = A
  BY <1>1
<1> QED
  BY <1>4, <1>5

\* The latest attempt is an attempt, and none comes after it.
LEMMA LatestIsAttempt ==
    ASSUME NEW r \in Seq(Record), NEW s, AttemptsIn(r, s) # {}
    PROVE  /\ LatestIn(r, s) \in AttemptsIn(r, s)
           /\ \A j \in AttemptsIn(r, s) : After(r, LatestIn(r, s), j)
  BY LatestExists DEF LatestIn

\* It is the only one.
LEMMA LatestIs ==
    ASSUME NEW r \in Seq(Record), NEW s, NEW i \in AttemptsIn(r, s),
           \A j \in AttemptsIn(r, s) : After(r, i, j)
    PROVE  LatestIn(r, s) = i
<1> DEFINE l == LatestIn(r, s)
<1>1. l \in AttemptsIn(r, s) /\ After(r, l, i) /\ After(r, i, l)
  BY LatestIsAttempt
<1>2. i \in DOMAIN r /\ l \in DOMAIN r
  BY <1>1 DEF AttemptsIn
<1>3. i \in Nat /\ l \in Nat /\ r[i].attempt \in Nat /\ r[l].attempt \in Nat
  BY <1>2, RecordFields
<1> QED
  BY <1>1, <1>3 DEF After

\* Attempts are numbered on by natural numbers.
LEMMA NextInNat ==
    ASSUME NEW r \in Seq(Record), NEW s
    PROVE  NextIn(r, s) \in Nat
<1>1. CASE AttemptsIn(r, s) = {}
  BY <1>1 DEF NextIn
<1>2. CASE AttemptsIn(r, s) # {}
  <2>1. LatestIn(r, s) \in DOMAIN r
    BY <1>2, LatestIsAttempt DEF AttemptsIn
  <2>2. r[LatestIn(r, s)].attempt \in Nat
    BY <2>1, RecordFields
  <2> QED
    BY <1>2, <2>2 DEF NextIn
<1> QED
  BY <1>1, <1>2

\* A record of another sample changes nothing.
LEMMA AppendOther ==
    ASSUME NEW r \in Seq(Record), NEW rec \in Record, NEW s, rec.id # s
    PROVE  LET q == Append(r, rec)
           IN  /\ AttemptsIn(q, s) = AttemptsIn(r, s)
               /\ ResolvedIn(q, s) <=> ResolvedIn(r, s)
               /\ NextIn(q, s) = NextIn(r, s)
<1> DEFINE q == Append(r, rec)
<1>1. /\ q \in Seq(Record)
      /\ DOMAIN r = 1 .. Len(r) /\ DOMAIN q = 1 .. Len(r) + 1 /\ Len(r) \in Nat
      /\ \A i \in DOMAIN r : q[i] = r[i]
      /\ q[Len(r) + 1] = rec
  OBVIOUS
<1> HIDE DEF q
<1>2. AttemptsIn(q, s) = AttemptsIn(r, s)
  BY <1>1 DEF AttemptsIn
<1>3. CASE AttemptsIn(r, s) = {}
  BY <1>2, <1>3 DEF ResolvedIn, NextIn, q
<1>4. CASE AttemptsIn(r, s) # {}
  <2> DEFINE l == LatestIn(r, s)
  <2>1. l \in AttemptsIn(r, s) /\ \A j \in AttemptsIn(r, s) : After(r, l, j)
    BY <1>4, LatestIsAttempt
  <2>2. \A j \in AttemptsIn(r, s) : q[j] = r[j]
    BY <1>1 DEF AttemptsIn
  <2>3. l \in AttemptsIn(q, s) /\ \A j \in AttemptsIn(q, s) : After(q, l, j)
    BY <1>2, <2>1, <2>2 DEF After
  <2>4. LatestIn(q, s) = l
    BY <1>1, <2>3, LatestIs
  <2> QED
    BY <1>2, <2>1, <2>2, <2>4 DEF ResolvedIn, NextIn, q
<1> QED
  BY <1>3, <1>4

\* A record with the next attempt number, or a higher one, is the latest.
LEMMA AppendOwn ==
    ASSUME NEW r \in Seq(Record), NEW rec \in Record, rec.attempt >= NextIn(r, rec.id)
    PROVE  LET q == Append(r, rec)
           IN  /\ AttemptsIn(q, rec.id) # {}
               /\ NextIn(q, rec.id) = rec.attempt + 1
<1> DEFINE q == Append(r, rec)
           s == rec.id
           n == Len(r) + 1
<1>1. /\ q \in Seq(Record)
      /\ DOMAIN r = 1 .. Len(r) /\ DOMAIN q = 1 .. n /\ Len(r) \in Nat
      /\ \A i \in DOMAIN r : q[i] = r[i]
      /\ q[n] = rec /\ rec.attempt \in Nat
  BY DEF Record
<1> HIDE DEF q
<1>2. n \in AttemptsIn(q, s)
  BY <1>1 DEF AttemptsIn
<1>3. ASSUME NEW j \in AttemptsIn(q, s)
      PROVE  After(q, n, j)
  <2>1. CASE j = n
    BY <1>1, <2>1 DEF After
  <2>2. CASE j # n
    <3> DEFINE l == LatestIn(r, s)
    <3>1. j \in AttemptsIn(r, s) /\ j \in DOMAIN r /\ q[j] = r[j]
      BY <1>1, <1>3, <2>2 DEF AttemptsIn
    <3>2. l \in DOMAIN r /\ After(r, l, j)
      BY <3>1, LatestIsAttempt DEF AttemptsIn
    <3>3. r[l].attempt \in Nat /\ r[j].attempt \in Nat
      BY <3>1, <3>2, RecordFields
    <3>4. NextIn(r, s) = r[l].attempt + 1
      BY <3>1 DEF NextIn
    <3>5. r[j].attempt <= r[l].attempt
      BY <3>2, <3>3 DEF After
    <3>6. r[j].attempt < rec.attempt
      BY <1>1, <3>3, <3>4, <3>5
    <3> QED
      BY <1>1, <3>1, <3>6 DEF After
  <2> QED
    BY <2>1, <2>2
<1>4. LatestIn(q, s) = n
  BY <1>1, <1>2, <1>3, LatestIs
<1> QED
  BY <1>1, <1>2, <1>4 DEF NextIn, q

-----------------------------------------------------------------------------
(* The inductive invariant.                                                *)

\* A session runs with the identity that the manifest states.
Held == pc # "idle" => session.made = manifest /\ manifest \in Identity

\* A job runs an unresolved sample under the number after its latest attempt.
JobsCurrent ==
    pc = "run" =>
        /\ session.round > 0
        /\ \A k \in Kinds : \A job \in jobs[k] :
              job.attempt = NextAttempt(k, job.id) /\ ~Resolved(k, job.id)

\* A sample was run in each of n rounds, or until its attempts were used up.
Tried(k, s, n) ==
    /\ n > 0 => Attempts(k, s) # {}
    /\ NextAttempt(k, s) >= n \/ NextAttempt(k, s) >= MaxAttempts

UsedUp(k, s) == Attempts(k, s) # {} /\ NextAttempt(k, s) >= MaxAttempts

HasJob(k, s) == \E job \in jobs[k] : job.id = s

\* A sample that is neither resolved nor lost was run in every round that was
\* begun, or is about to be.
Progress(k, s) ==
    \/ Resolved(k, s)
    \/ <<k, s>> \in lost
    \/ pc = "run" /\ HasJob(k, s) /\ Tried(k, s, session.round - 1)
    \/ pc \in {"plan", "run"} /\ Tried(k, s, session.round)
    \/ pc = "audit" /\ UsedUp(k, s)

AllProgress == pc # "idle" => \A k \in Kinds, s \in Samples : Progress(k, s)

RInv ==
    /\ RoundsTypeOK
    /\ OneIdentity
    /\ Held
    /\ JobsCurrent
    /\ AllProgress

Live == [made : Identity, retry : BOOLEAN, round : 0 .. MaxAttempts + 1]

\* What the invariant says of types, and of a session under way.
LEMMA Facts ==
    ASSUME RInv
    PROVE  /\ \A k \in Kinds : records[k] \in Seq(Record)
           /\ records \in [Kinds -> Seq(Record)]
           /\ jobs \in [Kinds -> SUBSET Job]
           /\ pc # "idle" => /\ session \in Live
                             /\ session.made = manifest /\ manifest \in Identity
                             /\ session.round \in Nat
           /\ MaxAttempts \in Nat \ {0} /\ MaxSessions \in Nat /\ Planned \in Nat \ {0}
           /\ Resubmissions \in Nat
  BY RoundsAssumption DEF RInv, RoundsTypeOK, Held, Live

\* The same of the records of a state.
LEMMA NextAttemptInNat ==
    ASSUME RInv, NEW k \in Kinds, NEW s
    PROVE  NextAttempt(k, s) \in Nat
  BY Facts, InRecords, NextInNat

\* Having no manifest is no identity.
LEMMA NoManifestIsNone == NoManifest \notin Identity
<1> SUFFICES ASSUME NoManifest \in Identity PROVE FALSE
  OBVIOUS
<1>1. DOMAIN NoManifest = {"settings", "root"}
  BY DEF Identity
<1>2. DOMAIN NoManifest = {"settings"}
  BY DEF NoManifest
<1> QED
  BY <1>1, <1>2

\* Planned samples are told from records without a sample id.
LEMMA SampleHasId == \A s \in Samples : s \in Nat /\ s # NoId
  BY RoundsAssumption DEF Samples, NoId

\* The next job is one of the jobs.
LEMMA NextJobIn ==
    ASSUME NEW k, jobs[k] \subseteq Job, jobs[k] # {}
    PROVE  NextJob(k) \in jobs[k] /\ NextJob(k) \in Job
<1> DEFINE T == {job.id : job \in jobs[k]}
<1>1. T \subseteq Nat /\ T # {}
  BY SampleHasId DEF Job
<1>2. PICK n \in T : \A m \in T : n <= m
  BY <1>1, Smallest
<1>3. \E job \in jobs[k] : \A other \in jobs[k] : job.id <= other.id
  BY <1>2
<1> QED
  BY <1>3 DEF NextJob

\* Without a new record what the records say stays.
LEMMA SameRecords ==
    ASSUME NEW k, NEW s, records'[k] = records[k]
    PROVE  /\ Attempts(k, s)' = Attempts(k, s)
           /\ Resolved(k, s)' <=> Resolved(k, s)
           /\ NextAttempt(k, s)' = NextAttempt(k, s)
  BY InRecords, InRecordsNext

\* A record that is made by the session, or has no sample id, keeps the
\* records of one identity.
LEMMA AppendIdentity ==
    ASSUME RInv, NEW k \in Kinds, NEW rec \in Record,
           rec.id # NoId => rec.made = manifest, manifest' = manifest,
           records' = [records EXCEPT ![k] = Append(@, rec)]
    PROVE  /\ records' \in [Kinds -> Seq(Record)]
           /\ OneIdentity'
<1>1. records \in [Kinds -> Seq(Record)] /\ records[k] \in Seq(Record)
  BY Facts
<1>2. Append(records[k], rec) \in Seq(Record)
  BY <1>1
<1>3. /\ records'[k] = Append(records[k], rec)
      /\ \A l \in Kinds : l # k => records'[l] = records[l]
  BY <1>1
<1>4. ASSUME NEW l \in Kinds, NEW i \in DOMAIN records'[l], records'[l][i].id # NoId
      PROVE  records'[l][i].made = manifest'
  <2>1. CASE l # k
    BY <1>3, <1>4, <2>1 DEF RInv, OneIdentity
  <2>2. CASE l = k
    <3>1. (i \in DOMAIN records[k] /\ records'[k][i] = records[k][i]) \/ records'[k][i] = rec
      BY <1>1, <1>3, <1>4, <2>2
    <3> QED
      BY <1>4, <2>2, <3>1 DEF RInv, OneIdentity
  <2> QED
    BY <2>1, <2>2
<1>5. OneIdentity'
  BY <1>4 DEF OneIdentity
<1> QED
  BY <1>1, <1>2, <1>5

-----------------------------------------------------------------------------
(* The steps.                                                              *)

\* The invariant holds in the beginning.
LEMMA InitRInv == Init => RInv
<1> SUFFICES ASSUME Init PROVE RInv
  OBVIOUS
<1>1. RoundsTypeOK
  BY RoundsAssumption DEF Init, RoundsTypeOK, NoJobs, Samples
<1>2. OneIdentity /\ Held /\ JobsCurrent /\ AllProgress
  BY DEF Init, OneIdentity, Held, JobsCurrent, AllProgress
<1> QED
  BY <1>1, <1>2 DEF RInv

\* A session ends.
LEMMA LeaveRInv ==
    ASSUME RInv, Leave, UNCHANGED <<manifest, sessions>>,
           records' \in [Kinds -> Seq(Record)], OneIdentity',
           tail' \in [Kinds -> {"clean", "open", "torn"}],
           comparison' \in {"none", "complete", "incomplete", "other"}
    PROVE  RInv'
<1>1. RoundsTypeOK'
  BY DEF RInv, RoundsTypeOK, Leave, NoJobs
<1>2. Held' /\ JobsCurrent' /\ AllProgress'
  BY DEF Leave, Held, JobsCurrent, AllProgress
<1> QED
  BY <1>1, <1>2 DEF RInv

\* A session that begins holds the manifest it found or wrote.
LEMMA BeginRInv == ASSUME RInv, Begin PROVE RInv'
<1>1. PICK settings \in Settings, given \in Roots \cup {"none"}, retry \in BOOLEAN :
         \E root \in RootFor(given) :
            LET identity == [settings |-> settings, root |-> root]
            IN  /\ Matches(identity)
                /\ manifest' = IF manifest = NoManifest THEN identity ELSE manifest
                /\ session' = [made |-> identity, retry |-> retry, round |-> 0]
  BY DEF Begin
<1>2. PICK root \in RootFor(given) :
         LET identity == [settings |-> settings, root |-> root]
         IN  /\ Matches(identity)
             /\ manifest' = IF manifest = NoManifest THEN identity ELSE manifest
             /\ session' = [made |-> identity, retry |-> retry, round |-> 0]
  BY <1>1
<1> DEFINE identity == [settings |-> settings, root |-> root]
<1>3. /\ pc' = "plan" /\ UNCHANGED <<records, tail, comparison, jobs, lost>>
      /\ sessions < MaxSessions /\ sessions' = sessions + 1
  BY DEF Begin
<1>4. root \in Roots
  <2>1. manifest \in Identity \cup {NoManifest}
    BY DEF RInv, RoundsTypeOK
  <2>2. manifest # NoManifest => manifest.root \in Roots
    BY <2>1 DEF Identity
  <2> QED
    BY <1>2, <2>2 DEF RootFor
<1>5. identity \in Identity /\ manifest' = identity
  BY <1>2, <1>4 DEF Identity, Matches
<1>6. session' \in Live /\ session'.made = manifest' /\ session'.round = 0
  BY <1>2, <1>5, RoundsAssumption DEF Live
<1>7. RoundsTypeOK'
  <2>1. sessions' \in 0 .. MaxSessions
    BY <1>3, RoundsAssumption DEF RInv, RoundsTypeOK
  <2> QED
    BY <1>3, <1>5, <1>6, <2>1 DEF RInv, RoundsTypeOK, Live
<1>8. OneIdentity'
  <2> SUFFICES ASSUME NEW k \in Kinds, NEW i \in DOMAIN records[k], records[k][i].id # NoId
               PROVE  records[k][i].made = manifest'
    BY <1>3 DEF OneIdentity
  <2>1. records[k][i].made = manifest
    BY DEF RInv, OneIdentity
  <2>2. records[k][i].made \in Identity
    BY Facts, RecordFields DEF Record
  <2> QED
    BY <1>2, <2>1, <2>2, NoManifestIsNone
<1>9. Held' /\ JobsCurrent'
  BY <1>3, <1>5, <1>6 DEF Held, JobsCurrent
<1>10. AllProgress'
  <2> SUFFICES ASSUME NEW k \in Kinds, NEW s \in Samples PROVE Progress(k, s)'
    BY DEF AllProgress
  <2>1. NextAttempt(k, s)' \in Nat
    BY <1>3, SameRecords, NextAttemptInNat
  <2>2. Tried(k, s, session.round)'
    BY <1>6, <2>1 DEF Tried
  <2> QED
    BY <1>3, <2>2 DEF Progress
<1> QED
  BY <1>7, <1>8, <1>9, <1>10 DEF RInv

\* A round has one job for each sample it still needs, with its next number.
LEMMA PlanRoundRInv == ASSUME RInv, PlanRound PROVE RInv'
<1>1. /\ pc = "plan" /\ RoundsLeft
      /\ jobs' = [k \in Kinds |-> JobsOf(k)]
      /\ UNCHANGED <<manifest, records, tail, comparison, lost, sessions>>
  BY DEF PlanRound, files
<1>2. \/ jobs' = NoJobs /\ pc' = "audit" /\ session' = session
      \/ pc' = "run" /\ session' = [session EXCEPT !.round = @ + 1]
  BY DEF PlanRound
<1>3. /\ session \in Live /\ session.round \in Nat /\ session.round < RoundLimit
      /\ RoundLimit \in Nat /\ RoundLimit <= MaxAttempts + 1 /\ MaxAttempts \in Nat \ {0}
      /\ session.made = manifest /\ manifest \in Identity
  <2>1. session \in Live /\ session.round \in Nat /\ session.made = manifest
           /\ manifest \in Identity /\ MaxAttempts \in Nat \ {0}
    BY <1>1, Facts
  <2> QED
    BY <1>1, <2>1 DEF RoundsLeft, RoundLimit, Live
<1>4. ASSUME pc' = "run", session' = [session EXCEPT !.round = @ + 1]
      PROVE  session' \in Live /\ session'.round = session.round + 1
                /\ session'.made = manifest
  <2>1. session.round + 1 \in 0 .. MaxAttempts + 1
    BY <1>3
  <2> QED
    BY <1>3, <1>4, <2>1 DEF Live
<1>5. \A k \in Kinds : JobsOf(k) \subseteq Job
  BY NextAttemptInNat DEF JobsOf, Job
<1>6. RoundsTypeOK'
  <2>1. session' \in Live /\ pc' \in {"run", "audit"}
    BY <1>2, <1>3, <1>4
  <2>2. jobs' \in [Kinds -> SUBSET Job]
    BY <1>1, <1>5
  <2> QED
    BY <1>1, <2>1, <2>2 DEF RInv, RoundsTypeOK, Live
<1>7. OneIdentity'
  BY <1>1 DEF RInv, OneIdentity
<1>8. Held'
  BY <1>1, <1>2, <1>3, <1>4 DEF Held
<1>9. JobsCurrent'
  <2> SUFFICES ASSUME pc' = "run"
               PROVE  /\ session'.round > 0
                      /\ \A k \in Kinds : \A job \in jobs'[k] :
                            job.attempt = NextAttempt(k, job.id)' /\ ~Resolved(k, job.id)'
    BY DEF JobsCurrent
  <2>1. session'.round > 0
    BY <1>2, <1>3, <1>4
  <2>2. ASSUME NEW k \in Kinds, NEW job \in jobs'[k]
        PROVE  job.attempt = NextAttempt(k, job.id)' /\ ~Resolved(k, job.id)'
    <3>1. job \in JobsOf(k)
      BY <1>1, <2>2
    <3>2. job.attempt = NextAttempt(k, job.id) /\ ~Resolved(k, job.id)
      BY <3>1 DEF JobsOf, Runs
    <3> QED
      BY <1>1, <3>2, SameRecords
  <2> QED
    BY <2>1, <2>2
<1>10. ASSUME NEW k \in Kinds, NEW s \in Samples
       PROVE  Progress(k, s)'
  <2>1. /\ Attempts(k, s)' = Attempts(k, s)
        /\ Resolved(k, s)' <=> Resolved(k, s)
        /\ NextAttempt(k, s)' = NextAttempt(k, s)
    BY <1>1, SameRecords
  <2>2. NextAttempt(k, s) \in Nat
    BY NextAttemptInNat
  <2>3. Resolved(k, s) \/ <<k, s>> \in lost \/ Tried(k, s, session.round)
    BY <1>1 DEF RInv, AllProgress, Progress
  <2>4. CASE Resolved(k, s) \/ <<k, s>> \in lost
    BY <1>1, <2>1, <2>4 DEF Progress
  <2>5. CASE Runs(k, s) /\ Tried(k, s, session.round)
    <3>1. [id |-> s, attempt |-> NextAttempt(k, s)] \in jobs'[k]
      BY <1>1, <2>5 DEF JobsOf
    <3>2. HasJob(k, s)'
      BY <3>1 DEF HasJob
    <3>3. jobs' # NoJobs
      BY <3>1 DEF NoJobs
    <3>4. pc' = "run" /\ session'.round - 1 = session.round
      BY <1>2, <1>3, <1>4, <3>3
    <3>5. Tried(k, s, session.round - 1)'
      BY <2>1, <2>5, <3>4 DEF Tried
    <3> QED
      BY <3>2, <3>4, <3>5 DEF Progress
  <2>6. CASE ~Runs(k, s) /\ ~Resolved(k, s)
    <3>1. UsedUp(k, s)'
      BY <1>3, <2>1, <2>2, <2>6 DEF Runs, UsedUp
    <3>2. Tried(k, s, session.round)'
      BY <3>1 DEF UsedUp, Tried
    <3> QED
      BY <1>2, <3>1, <3>2 DEF Progress
  <2> QED
    BY <2>3, <2>4, <2>5, <2>6
<1>11. AllProgress'
  BY <1>10 DEF AllProgress
<1> QED
  BY <1>6, <1>7, <1>8, <1>9, <1>11 DEF RInv

\* A step that starts no round and adds no record.
LEMMA SessionStep ==
    ASSUME RInv, UNCHANGED <<manifest, records, tail, comparison, session, sessions>>,
           pc # "idle", pc' \in {"plan", "run", "audit"},
           jobs' \in [Kinds -> SUBSET Job], lost' \in SUBSET (Kinds \X Samples),
           JobsCurrent', \A k \in Kinds, s \in Samples : Progress(k, s)'
    PROVE  RInv'
<1>1. RoundsTypeOK'
  BY DEF RInv, RoundsTypeOK
<1>2. OneIdentity' /\ Held' /\ AllProgress'
  BY DEF RInv, OneIdentity, Held, AllProgress
<1> QED
  BY <1>1, <1>2 DEF RInv

\* When the rounds are over, nothing of the invariant was about them.
LEMMA RoundsOverRInv == ASSUME RInv, RoundsOver PROVE RInv'
<1>1. /\ pc = "plan" /\ pc' = "audit" /\ ~RoundsLeft
      /\ UNCHANGED <<manifest, records, tail, comparison, session, jobs, lost, sessions>>
  BY DEF RoundsOver, files
<1>2. /\ session.round \in Nat /\ session.round >= MaxAttempts
      /\ MaxAttempts \in Nat \ {0}
  <2>1. session \in Live /\ session.round \in Nat /\ MaxAttempts \in Nat \ {0}
    BY <1>1, Facts
  <2> QED
    BY <1>1, <2>1 DEF RoundsLeft, RoundLimit, Live
<1>3. JobsCurrent'
  BY <1>1 DEF JobsCurrent
<1>4. ASSUME NEW k \in Kinds, NEW s \in Samples
      PROVE  Progress(k, s)'
  <2>1. /\ Attempts(k, s)' = Attempts(k, s)
        /\ Resolved(k, s)' <=> Resolved(k, s)
        /\ NextAttempt(k, s)' = NextAttempt(k, s)
    BY <1>1, SameRecords
  <2>2. NextAttempt(k, s) \in Nat
    BY NextAttemptInNat
  <2>3. Resolved(k, s) \/ <<k, s>> \in lost \/ Tried(k, s, session.round)
    BY <1>1 DEF RInv, AllProgress, Progress
  <2>4. Tried(k, s, session.round) => UsedUp(k, s)'
    BY <1>2, <2>1, <2>2 DEF Tried, UsedUp
  <2> QED
    BY <1>1, <2>1, <2>3, <2>4 DEF Progress
<1>5. jobs' \in [Kinds -> SUBSET Job] /\ lost' \in SUBSET (Kinds \X Samples)
  BY <1>1 DEF RInv, RoundsTypeOK
<1> QED
  BY <1>1, <1>3, <1>4, <1>5, SessionStep

\* A round that is done has run all of its jobs.
LEMMA RoundDoneRInv == ASSUME RInv, RoundDone PROVE RInv'
<1>1. /\ pc = "run" /\ pc' = "plan" /\ jobs = NoJobs
      /\ UNCHANGED <<manifest, records, tail, comparison, session, jobs, lost, sessions>>
  BY DEF RoundDone, files
<1>2. JobsCurrent'
  BY <1>1 DEF JobsCurrent
<1>3. ASSUME NEW k \in Kinds, NEW s \in Samples
      PROVE  Progress(k, s)'
  <2>1. /\ Attempts(k, s)' = Attempts(k, s)
        /\ Resolved(k, s)' <=> Resolved(k, s)
        /\ NextAttempt(k, s)' = NextAttempt(k, s)
    BY <1>1, SameRecords
  <2>2. ~HasJob(k, s)
    BY <1>1 DEF HasJob, NoJobs
  <2>3. Resolved(k, s) \/ <<k, s>> \in lost \/ Tried(k, s, session.round)
    BY <1>1, <2>2 DEF RInv, AllProgress, Progress
  <2>4. Tried(k, s, session.round) => Tried(k, s, session.round)'
    BY <1>1, <2>1 DEF Tried
  <2> QED
    BY <1>1, <2>1, <2>3, <2>4 DEF Progress
<1>4. jobs' \in [Kinds -> SUBSET Job] /\ lost' \in SUBSET (Kinds \X Samples)
  BY <1>1 DEF RInv, RoundsTypeOK
<1> QED
  BY <1>1, <1>2, <1>3, <1>4, SessionStep

\* A job is done; no other job of the round is of its sample.
LEMMA DoneJob ==
    ASSUME RInv, pc = "run", NEW k \in Kinds, jobs[k] # {}, JobDone(k)
    PROVE  /\ NextJob(k) \in Job /\ NextJob(k) \in jobs[k]
           /\ jobs' \in [Kinds -> SUBSET Job]
           /\ \A l \in Kinds : \A other \in jobs'[l] :
                 other \in jobs[l] /\ (l = k => other.id # NextJob(k).id)
           /\ \A l \in Kinds, s \in Samples :
                 HasJob(l, s) /\ ~(l = k /\ s = NextJob(k).id) => HasJob(l, s)'
<1> DEFINE job == NextJob(k)
<1>1. jobs \in [Kinds -> SUBSET Job]
  BY Facts
<1>2. job \in jobs[k] /\ job \in Job
  BY <1>1, NextJobIn
<1>3. /\ jobs'[k] = jobs[k] \ {job}
      /\ \A l \in Kinds : l # k => jobs'[l] = jobs[l]
      /\ jobs' \in [Kinds -> SUBSET Job]
  BY <1>1 DEF JobDone
<1>4. ASSUME NEW other \in jobs[k], other.id = job.id
      PROVE  other = job
  <2>1. other \in Job /\ other.attempt = job.attempt
    BY <1>1, <1>2, <1>4 DEF RInv, JobsCurrent
  <2> QED
    BY <1>2, <1>4, <2>1 DEF Job
<1>5. ASSUME NEW l \in Kinds, NEW other \in jobs'[l]
      PROVE  other \in jobs[l] /\ (l = k => other.id # job.id)
  BY <1>3, <1>4, <1>5
<1>6. ASSUME NEW l \in Kinds, NEW s \in Samples, HasJob(l, s), ~(l = k /\ s = job.id)
      PROVE  HasJob(l, s)'
  BY <1>3, <1>6 DEF HasJob
<1> QED
  BY <1>2, <1>3, <1>5, <1>6

\* A job that is lost leaves its sample among the lost ones.
LEMMA LoseNextRInv == ASSUME RInv, NEW k \in Kinds, LoseNext(k) PROVE RInv'
<1>1. /\ pc = "run" /\ jobs[k] # {} /\ JobDone(k)
      /\ lost' = lost \cup {<<k, NextJob(k).id>>}
      /\ UNCHANGED <<manifest, records, tail, comparison, pc, session, sessions>>
  BY DEF LoseNext, files
<1>2. /\ NextJob(k) \in Job /\ jobs' \in [Kinds -> SUBSET Job]
      /\ \A l \in Kinds : jobs'[l] \subseteq jobs[l]
      /\ \A l \in Kinds, s \in Samples :
            HasJob(l, s) /\ ~(l = k /\ s = NextJob(k).id) => HasJob(l, s)'
  BY <1>1, DoneJob
<1>3. lost' \in SUBSET (Kinds \X Samples)
  BY <1>1, <1>2 DEF RInv, RoundsTypeOK, Job
<1>4. JobsCurrent'
  <2> SUFFICES ASSUME NEW l \in Kinds, NEW other \in jobs'[l]
               PROVE  other.attempt = NextAttempt(l, other.id)' /\ ~Resolved(l, other.id)'
    BY <1>1 DEF RInv, JobsCurrent
  <2>1. other.attempt = NextAttempt(l, other.id) /\ ~Resolved(l, other.id)
    BY <1>1, <1>2 DEF RInv, JobsCurrent
  <2> QED
    BY <1>1, <2>1, SameRecords
<1>5. ASSUME NEW l \in Kinds, NEW s \in Samples
      PROVE  Progress(l, s)'
  <2>1. /\ Attempts(l, s)' = Attempts(l, s)
        /\ Resolved(l, s)' <=> Resolved(l, s)
        /\ NextAttempt(l, s)' = NextAttempt(l, s)
    BY <1>1, SameRecords
  <2>2. CASE l = k /\ s = NextJob(k).id
    BY <1>1, <2>2 DEF Progress
  <2>3. CASE ~(l = k /\ s = NextJob(k).id)
    <3>1. HasJob(l, s) => HasJob(l, s)'
      BY <1>2, <2>3
    <3>2. \/ Resolved(l, s)
          \/ <<l, s>> \in lost
          \/ HasJob(l, s) /\ Tried(l, s, session.round - 1)
          \/ Tried(l, s, session.round)
      BY <1>1 DEF RInv, AllProgress, Progress
    <3>3. \/ Resolved(l, s)'
          \/ <<l, s>> \in lost'
          \/ HasJob(l, s)' /\ Tried(l, s, session.round - 1)'
          \/ Tried(l, s, session.round)'
      <4>1. Tried(l, s, session.round - 1) => Tried(l, s, session.round - 1)'
        BY <1>1, <2>1 DEF Tried
      <4>2. Tried(l, s, session.round) => Tried(l, s, session.round)'
        BY <1>1, <2>1 DEF Tried
      <4> QED
        BY <1>1, <2>1, <3>1, <3>2, <4>1, <4>2
    <3> QED
      BY <1>1, <3>3 DEF Progress
  <2> QED
    BY <2>2, <2>3
<1> QED
  BY <1>1, <1>2, <1>3, <1>4, <1>5, SessionStep

\* A job that is stored becomes its sample's latest attempt and nobody else's.
LEMMA StoreNextRInv == ASSUME RInv, NEW k \in Kinds, StoreNext(k) PROVE RInv'
<1>0. PICK job : job = NextJob(k)
  OBVIOUS
<1>1. PICK result \in Results, again \in 0 .. Resubmissions :
         AppendRecord(k, RecordOf(job, again, result))
  BY <1>0 DEF StoreNext
<1> DEFINE rec == RecordOf(job, again, result)
<1>2. /\ pc = "run" /\ jobs[k] # {} /\ JobDone(k)
      /\ UNCHANGED <<manifest, comparison, pc, session, lost, sessions>>
      /\ records' = [records EXCEPT ![k] = Append(@, rec)]
      /\ tail' = [tail EXCEPT ![k] = IF @ = "clean" THEN "clean" ELSE "torn"]
  BY <1>1 DEF StoreNext, AppendRecord
<1>3. /\ job \in Job /\ job \in jobs[k] /\ jobs' \in [Kinds -> SUBSET Job]
      /\ \A l \in Kinds : \A other \in jobs'[l] :
            other \in jobs[l] /\ (l = k => other.id # job.id)
      /\ \A l \in Kinds, s \in Samples :
            HasJob(l, s) /\ ~(l = k /\ s = job.id) => HasJob(l, s)'
  BY <1>0, <1>2, DoneJob
<1>4. /\ records \in [Kinds -> Seq(Record)] /\ records[k] \in Seq(Record)
      /\ session \in Live /\ session.made = manifest /\ manifest \in Identity
      /\ session.round \in Nat /\ session.round > 0 /\ Resubmissions \in Nat
  BY <1>2, Facts DEF RInv, JobsCurrent
<1>5. /\ job.id \in Samples /\ job.attempt \in Nat
      /\ job.attempt = NextAttempt(k, job.id) /\ ~Resolved(k, job.id)
  BY <1>2, <1>3 DEF RInv, JobsCurrent, Job
<1>6. /\ rec \in Record /\ rec.id = job.id /\ rec.made = manifest
      /\ rec.attempt \in Nat /\ rec.attempt >= job.attempt
  <2>1. again \in Nat /\ job.attempt + again \in Nat /\ job.attempt + again >= job.attempt
    BY <1>4, <1>5
  <2> QED
    BY <1>4, <1>5, <2>1 DEF RecordOf, Record
<1> HIDE DEF rec
<1>7. records' \in [Kinds -> Seq(Record)] /\ OneIdentity'
  BY <1>2, <1>6, AppendIdentity
<1>8. /\ records'[k] = Append(records[k], rec)
      /\ \A l \in Kinds : l # k => records'[l] = records[l]
  BY <1>2, <1>4
<1>9. tail' \in [Kinds -> {"clean", "open", "torn"}]
  BY <1>2 DEF RInv, RoundsTypeOK
<1>10. RoundsTypeOK'
  BY <1>2, <1>3, <1>7, <1>9 DEF RInv, RoundsTypeOK
<1>11. Held'
  BY <1>2 DEF RInv, Held
<1>12. ASSUME NEW l \in Kinds, NEW s \in Samples, ~(l = k /\ s = job.id)
       PROVE  /\ Attempts(l, s)' = Attempts(l, s)
              /\ Resolved(l, s)' <=> Resolved(l, s)
              /\ NextAttempt(l, s)' = NextAttempt(l, s)
  <2>1. CASE l # k
    BY <1>8, <2>1, SameRecords
  <2>2. CASE l = k
    <3>1. rec.id # s
      BY <1>6, <1>12, <2>2
    <3>2. /\ AttemptsIn(Append(records[k], rec), s) = AttemptsIn(records[k], s)
          /\ ResolvedIn(Append(records[k], rec), s) <=> ResolvedIn(records[k], s)
          /\ NextIn(Append(records[k], rec), s) = NextIn(records[k], s)
      BY <1>4, <1>6, <3>1, AppendOther
    <3> QED
      BY <1>8, <2>2, <3>2, InRecords, InRecordsNext
  <2> QED
    BY <2>1, <2>2
<1>13. /\ Attempts(k, job.id)' # {}
       /\ NextAttempt(k, job.id)' = rec.attempt + 1
  <2>1. rec.attempt >= NextIn(records[k], rec.id)
    BY <1>5, <1>6, InRecords
  <2>2. /\ AttemptsIn(Append(records[k], rec), rec.id) # {}
        /\ NextIn(Append(records[k], rec), rec.id) = rec.attempt + 1
    BY <1>4, <1>6, <2>1, AppendOwn
  <2> QED
    BY <1>6, <1>8, <2>2, InRecordsNext
<1>14. JobsCurrent'
  <2> SUFFICES ASSUME NEW l \in Kinds, NEW other \in jobs'[l]
               PROVE  other.attempt = NextAttempt(l, other.id)' /\ ~Resolved(l, other.id)'
    BY <1>2, <1>4 DEF JobsCurrent
  <2>1. /\ other \in jobs[l] /\ ~(l = k /\ other.id = job.id)
        /\ other.id \in Samples
    BY <1>3, Facts DEF Job
  <2>2. other.attempt = NextAttempt(l, other.id) /\ ~Resolved(l, other.id)
    BY <1>2, <2>1 DEF RInv, JobsCurrent
  <2> QED
    BY <1>12, <2>1, <2>2
<1>15. ASSUME NEW l \in Kinds, NEW s \in Samples
       PROVE  Progress(l, s)'
  <2>1. \/ Resolved(l, s)
        \/ <<l, s>> \in lost
        \/ HasJob(l, s) /\ Tried(l, s, session.round - 1)
        \/ Tried(l, s, session.round)
    BY <1>2 DEF RInv, AllProgress, Progress
  <2>2. CASE ~(l = k /\ s = job.id)
    <3>1. HasJob(l, s) => HasJob(l, s)'
      BY <1>3, <2>2
    <3>2. /\ Attempts(l, s)' = Attempts(l, s)
          /\ Resolved(l, s)' <=> Resolved(l, s)
          /\ NextAttempt(l, s)' = NextAttempt(l, s)
      BY <1>12, <2>2
    <3>3. Tried(l, s, session.round - 1) => Tried(l, s, session.round - 1)'
      BY <1>2, <3>2 DEF Tried
    <3>4. Tried(l, s, session.round) => Tried(l, s, session.round)'
      BY <1>2, <3>2 DEF Tried
    <3>5. \/ Resolved(l, s)'
          \/ <<l, s>> \in lost'
          \/ HasJob(l, s)' /\ Tried(l, s, session.round - 1)'
          \/ Tried(l, s, session.round)'
      BY <1>2, <2>1, <3>1, <3>2, <3>3, <3>4
    <3> QED
      BY <1>2, <3>5 DEF Progress
  <2>3. CASE l = k /\ s = job.id
    <3>1. <<l, s>> \in lost \/ Tried(l, s, session.round - 1) \/ Tried(l, s, session.round)
      BY <1>5, <2>1, <2>3
    <3>2. CASE <<l, s>> \in lost
      BY <1>2, <3>2 DEF Progress
    <3>3. CASE Tried(l, s, session.round - 1) \/ Tried(l, s, session.round)
      <4>1. \/ job.attempt >= session.round - 1
            \/ job.attempt >= session.round
            \/ job.attempt >= MaxAttempts
        BY <1>5, <2>3, <3>3 DEF Tried
      <4>2. MaxAttempts \in Nat
        BY RoundsAssumption
      <4>3. \/ rec.attempt + 1 >= session.round
            \/ rec.attempt + 1 >= MaxAttempts
        BY <1>4, <1>5, <1>6, <4>1, <4>2
      <4>4. Tried(l, s, session.round)'
        BY <1>2, <1>13, <2>3, <4>3 DEF Tried
      <4> QED
        BY <1>2, <4>4 DEF Progress
    <3> QED
      BY <3>1, <3>2, <3>3
  <2> QED
    BY <2>2, <2>3
<1>16. AllProgress'
  BY <1>15 DEF AllProgress
<1> QED
  BY <1>7, <1>10, <1>11, <1>14, <1>16 DEF RInv

\* A kill in the middle of an append ends the session, with or without the
\* record.
LEMMA KillInAppendRInv == ASSUME RInv, NEW k \in Kinds, KillInAppend(k) PROVE RInv'
<1>1. /\ pc = "run" /\ jobs[k] # {} /\ Leave
      /\ UNCHANGED <<manifest, comparison, sessions>>
  BY DEF KillInAppend
<1>2. /\ records \in [Kinds -> Seq(Record)] /\ jobs[k] \subseteq Job
      /\ session \in Live /\ session.made = manifest /\ manifest \in Identity
  BY <1>1, Facts
<1>3. NextJob(k) \in Job
  BY <1>1, <1>2, NextJobIn
<1>4. CASE tail' = [tail EXCEPT ![k] = "torn"] /\ UNCHANGED records
  <2>1. /\ tail' \in [Kinds -> {"clean", "open", "torn"}]
        /\ records' \in [Kinds -> Seq(Record)] /\ OneIdentity'
        /\ comparison' \in {"none", "complete", "incomplete", "other"}
    BY <1>1, <1>2, <1>4 DEF RInv, RoundsTypeOK, OneIdentity
  <2> QED
    BY <1>1, <2>1, LeaveRInv
<1>5. ASSUME NEW result \in Results,
             records' = [records EXCEPT ![k] = Append(@, RecordOf(NextJob(k), 0, result))],
             tail' = [tail EXCEPT ![k] = "open"]
      PROVE  RInv'
  <2> DEFINE rec == RecordOf(NextJob(k), 0, result)
  <2>1. rec \in Record /\ rec.made = manifest
    BY <1>2, <1>3 DEF RecordOf, Record, Job
  <2>2. records' \in [Kinds -> Seq(Record)] /\ OneIdentity'
    <3> HIDE DEF rec
    <3>1. records' = [records EXCEPT ![k] = Append(@, rec)]
      BY <1>5 DEF rec
    <3> QED
      BY <1>1, <2>1, <3>1, AppendIdentity
  <2>3. /\ tail' \in [Kinds -> {"clean", "open", "torn"}]
        /\ comparison' \in {"none", "complete", "incomplete", "other"}
    BY <1>1, <1>5 DEF RInv, RoundsTypeOK
  <2> QED
    BY <1>1, <2>2, <2>3, LeaveRInv
<1> QED
  BY <1>4, <1>5 DEF KillInAppend

\* A sequential run appends records that belong to no sample.
LEMMA RunUntilStopRInv == ASSUME RInv, RunUntilStop PROVE RInv'
<1>1. PICK made \in Identity, result \in Results :
         AppendRecord("importance", [id |-> NoId, attempt |-> 0,
                                     result |-> result, made |-> made])
  BY DEF RunUntilStop
<1> DEFINE rec == [id |-> NoId, attempt |-> 0, result |-> result, made |-> made]
<1>2. /\ pc = "idle" /\ UNCHANGED <<manifest, pc, session, jobs, lost>>
      /\ sessions < MaxSessions /\ sessions' = sessions + 1
      /\ comparison' \in {comparison, "other"}
      /\ records' = [records EXCEPT !["importance"] = Append(@, rec)]
      /\ tail' = [tail EXCEPT !["importance"] = IF @ = "clean" THEN "clean" ELSE "torn"]
  BY <1>1 DEF RunUntilStop, AppendRecord, memory
<1>3. rec \in Record /\ rec.id = NoId /\ "importance" \in Kinds
  BY DEF Record, Kinds
<1> HIDE DEF rec
<1>4. records' \in [Kinds -> Seq(Record)] /\ OneIdentity'
  BY <1>2, <1>3, AppendIdentity
<1>5. sessions' \in 0 .. MaxSessions
  BY <1>2, RoundsAssumption DEF RInv, RoundsTypeOK
<1>6. tail' \in [Kinds -> {"clean", "open", "torn"}]
  BY <1>2 DEF RInv, RoundsTypeOK
<1>7. RoundsTypeOK'
  BY <1>2, <1>4, <1>5, <1>6 DEF RInv, RoundsTypeOK
<1>8. Held' /\ JobsCurrent' /\ AllProgress'
  BY <1>2 DEF Held, JobsCurrent, AllProgress
<1> QED
  BY <1>4, <1>7, <1>8 DEF RInv

\* Every step keeps the invariant.
LEMMA NextRInv == RInv /\ [Next]_vars => RInv'
<1> SUFFICES ASSUME RInv, [Next]_vars PROVE RInv'
  OBVIOUS
<1>1. CASE Audit \/ Raise \/ Kill
  <2>1. /\ Leave /\ UNCHANGED <<manifest, records, tail, sessions>>
        /\ comparison' \in {comparison, "complete", "incomplete"}
    BY <1>1 DEF Audit, Raise, Kill, files
  <2>2. /\ records' \in [Kinds -> Seq(Record)] /\ OneIdentity'
        /\ tail' \in [Kinds -> {"clean", "open", "torn"}]
        /\ comparison' \in {"none", "complete", "incomplete", "other"}
    BY <2>1 DEF RInv, RoundsTypeOK, OneIdentity
  <2> QED
    BY <2>1, <2>2, LeaveRInv
<1>2. CASE UNCHANGED vars
  <2>1. UNCHANGED <<manifest, records, tail, comparison, pc, session, jobs, lost, sessions>>
    BY <1>2 DEF vars, files, memory
  <2>2. RoundsTypeOK' /\ OneIdentity' /\ Held'
    BY <2>1 DEF RInv, RoundsTypeOK, OneIdentity, Held
  <2>3. JobsCurrent'
    BY <2>1 DEF RInv, JobsCurrent, NextAttempt, Resolved, Attempts, Latest
  <2>4. AllProgress'
    <3>1. ASSUME NEW k \in Kinds, NEW s \in Samples
          PROVE  Progress(k, s)' <=> Progress(k, s)
      <4>1. /\ Attempts(k, s)' = Attempts(k, s)
            /\ Resolved(k, s)' <=> Resolved(k, s)
            /\ NextAttempt(k, s)' = NextAttempt(k, s)
        BY <2>1, SameRecords
      <4>2. /\ Tried(k, s, session.round)' <=> Tried(k, s, session.round)
            /\ Tried(k, s, session.round - 1)' <=> Tried(k, s, session.round - 1)
        BY <2>1, <4>1 DEF Tried
      <4>3. (HasJob(k, s)' <=> HasJob(k, s)) /\ (UsedUp(k, s)' <=> UsedUp(k, s))
        BY <2>1, <4>1 DEF HasJob, UsedUp
      <4> QED
        BY <2>1, <4>1, <4>2, <4>3 DEF Progress
    <3> QED
      BY <2>1, <3>1 DEF RInv, AllProgress
  <2> QED
    BY <2>2, <2>3, <2>4 DEF RInv
<1> QED
  BY <1>1, <1>2, BeginRInv, PlanRoundRInv, RoundsOverRInv, RoundDoneRInv, StoreNextRInv,
     LoseNextRInv, KillInAppendRInv, RunUntilStopRInv DEF Next, Session

\* Every behaviour of the experiment keeps the invariant.
LEMMA RInvAlways == Spec => []RInv
  BY InitRInv, NextRInv, PTL DEF Spec

-----------------------------------------------------------------------------
(* The theorems.                                                           *)

\* The variables keep their types; no session begins more rounds than the
\* attempts allow (fixed_importance_sampling.py:117).
THEOREM RoundsTypeCorrect == Spec => []RoundsTypeOK
<1>1. RInv => RoundsTypeOK
  BY DEF RInv
<1> QED
  BY <1>1, RInvAlways, PTL

\* The records of an experiment were made with the settings and the root of
\* its manifest (importance_experiment_manifest.py save_or_verify_manifest).
THEOREM OneIdentityCorrect == Spec => []OneIdentity
<1>1. RInv => OneIdentity
  BY DEF RInv
<1> QED
  BY <1>1, RInvAlways, PTL

\* A session that ends by itself has resolved every sample or used up its
\* attempts (fixed_importance_sampling.py: rounds up to max_attempts).
THEOREM AttemptsUsedUpCorrect == Spec => []AttemptsUsedUp
<1>1. RInv => AttemptsUsedUp
  BY DEF RInv, AllProgress, Progress, UsedUp, AttemptsUsedUp
<1> QED
  BY <1>1, RInvAlways, PTL

\* A run that is called complete has one success of each sample in its records,
\* all of its own identity (importance_sampling_audit.py
\* audit_fixed_sample_run).
THEOREM CompleteIsPureCorrect == Spec => CompleteIsPure
<1>1. ASSUME RInv, Audit, comparison' = "complete"
      PROVE  \A k \in Kinds :
                /\ \A i \in DOMAIN records[k] : records[k][i].made = manifest
                /\ \A s \in Samples : Cardinality(Succeeded(k, s)) = 1
  <2>1. Complete
    BY <1>1 DEF Audit
  <2>2. ASSUME NEW k \in Kinds, NEW i \in DOMAIN records[k]
        PROVE  records[k][i].made = manifest
    BY <1>1, <2>1, <2>2 DEF Complete, Attempts, RInv, OneIdentity
  <2>3. ASSUME NEW k \in Kinds, NEW s \in Samples
        PROVE  Cardinality(Succeeded(k, s)) = 1
    <3>1. Resolved(k, s) /\ Cardinality(Succeeded(k, s)) <= 1
      BY <2>1, <2>3 DEF Complete
    <3>2. records[k] \in Seq(Record)
      BY <1>1, Facts
    <3>3. Latest(k, s) \in Attempts(k, s)
      BY <3>1, <3>2, InRecords, LatestIsAttempt DEF Resolved
    <3>4. Latest(k, s) \in Succeeded(k, s)
      BY <3>1, <3>3 DEF Resolved, Succeeded
    <3>5. Succeeded(k, s) \subseteq 1 .. Len(records[k]) /\ Len(records[k]) \in Nat
      BY <3>2 DEF Succeeded, Attempts
    <3>6. IsFiniteSet(Succeeded(k, s))
      <4>1. 1 \in Int /\ Len(records[k]) \in Int
        BY <3>5
      <4>2. IsFiniteSet(1 .. Len(records[k]))
        BY <4>1, FS_Interval
      <4> QED
        BY <3>5, <4>2, FS_Subset
    <3>7. Cardinality(Succeeded(k, s)) \in Nat /\ Cardinality(Succeeded(k, s)) # 0
      BY <3>4, <3>6, FS_CardinalityType, FS_EmptySet
    <3> QED
      BY <3>1, <3>7
  <2> QED
    BY <2>2, <2>3
<1>2. RInv /\ [Next]_vars =>
         [Audit /\ comparison' = "complete" =>
             \A k \in Kinds :
                /\ \A i \in DOMAIN records[k] : records[k][i].made = manifest
                /\ \A s \in Samples : Cardinality(Succeeded(k, s)) = 1]_vars
  BY <1>1
<1> QED
  BY <1>2, RInvAlways, PTL DEF Spec, CompleteIsPure
=============================================================================
