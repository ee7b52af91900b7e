-------------------------- MODULE ClusterRunProofs --------------------------
(***************************************************************************)
(* Proofs about TaskQueue and ClusterRun, for every number of workers,     *)
(* samples, attempts and crashes.                                          *)
(*                                                                         *)
(* The first part is about the queue alone: no loop number and no sample   *)
(* is lost or counted twice.  The second is about the run around it: the   *)
(* orchestrator and the workers call the queue only as TaskQueue allows    *)
(* (RunSpec implements its Spec), so what is proved of the queue holds in  *)
(* a run, and a run that ends leaves a quiet queue.  The third is about    *)
(* the dataset: what a statistical rule has seen stays, and no sample is   *)
(* forgotten before the strategy stops.                                    *)
(***************************************************************************)
EXTENDS ClusterRun, StatisticalSampleProofs

-----------------------------------------------------------------------------
(* The queue.                                                              *)

\* The samples the queue knows are among those the strategy added.
KnownSamples ==
    /\ \A i \in DOMAIN queue : queue[i].sample <= added
    /\ \A l \in DOMAIN inFlight : inFlight[l].sample <= added
    /\ \A t \in abandoned : t.sample <= added

\* The inductive invariant.
IInv ==
    /\ TypeOK
    /\ Accounting
    /\ startCount <= dispatchedCount
    /\ KnownSamples
    /\ OneCopy
    /\ RetriesFirst
    /\ GivenUpAfterLastAttempt

-----------------------------------------------------------------------------
(* Lemmas about the helpers.                                               *)

\* The next attempt of a case that has one left is a case of the same sample.
LEMMA NextAttemptType ==
    ASSUME NEW t \in Task, AttemptLeft(t)
    PROVE  /\ NextAttempt(t) \in Task
           /\ NextAttempt(t).sample = t.sample
           /\ NextAttempt(t).attempt > 0
BY MaxAttemptsAssumption DEF Task, NextAttempt, AttemptLeft, Samples

\* The parts of a case have the types the invariants compare.
LEMMA CaseTypes ==
    ASSUME TypeOK
    PROVE  /\ queue \in Seq(Task)
           /\ Len(queue) \in Nat
           /\ DOMAIN queue = 1 .. Len(queue)
           /\ added \in Nat
           /\ \A i \in DOMAIN queue : queue[i] \in Task
           /\ \A l \in DOMAIN inFlight : l \in Nat /\ inFlight[l] \in Task
           /\ \A t \in Task : t.sample \in Nat /\ t.attempt \in Nat
           /\ \A t \in abandoned : t \in Task
<1>1. /\ queue \in Seq(Task)
      /\ Len(queue) \in Nat
      /\ DOMAIN queue = 1 .. Len(queue)
  BY DEF TypeOK
<1>2. \A i \in DOMAIN queue : queue[i] \in Task
  BY <1>1, ElementOfSeq
<1>3. \A l \in DOMAIN inFlight : l \in Nat /\ inFlight[l] \in Task
  BY DEF TypeOK
<1>4. \A t \in Task : t.sample \in Nat /\ t.attempt \in Nat
  BY MaxSamplesAssumption, MaxAttemptsAssumption DEF Task, Samples
<1>5. added \in Nat /\ \A t \in abandoned : t \in Task
  BY MaxSamplesAssumption DEF TypeOK
<1> QED
  BY <1>1, <1>2, <1>3, <1>4, <1>5

\* The loops in flight are finitely many.
LEMMA FiniteLoops ==
    ASSUME TypeOK, Accounting
    PROVE  /\ IsFiniteSet(completedLoops)
           /\ IsFiniteSet(DOMAIN inFlight)
           /\ Cardinality(completedLoops) \in Nat
           /\ Cardinality(DOMAIN inFlight) \in Nat
<1>1. IsFiniteSet(startCount + 1 .. dispatchedCount)
  <2>1. startCount + 1 \in Int /\ dispatchedCount \in Int
    BY DEF TypeOK
  <2> QED
    BY <2>1, FS_Interval
<1>2. /\ completedLoops \in SUBSET (startCount + 1 .. dispatchedCount)
      /\ DOMAIN inFlight \in SUBSET (startCount + 1 .. dispatchedCount)
  BY DEF Accounting, HandedOut
<1>3. IsFiniteSet(completedLoops) /\ IsFiniteSet(DOMAIN inFlight)
  BY <1>1, <1>2, FS_Subset
<1> QED
  BY <1>3, FS_CardinalityType

\* What RetryOrAbandon does to the queue: n cases, each the next attempt of
\* another of the loops, are put before what was there.
LEMMA RetryOrAbandonEffect ==
    ASSUME TypeOK, NEW loops \in SUBSET DOMAIN inFlight, IsFiniteSet(loops),
           RetryOrAbandon(loops)
    PROVE  /\ \E n \in Nat : \E back \in [1 .. n -> loops] :
                /\ \A i \in 1 .. n : AttemptLeft(inFlight[back[i]])
                /\ \A i, j \in 1 .. n : i # j => back[i] # back[j]
                /\ queue' \in Seq(Task)
                /\ Len(queue') = n + Len(queue)
                /\ \A i \in 1 .. n :
                      queue'[i] = NextAttempt(inFlight[back[i]])
                /\ \A i \in n + 1 .. n + Len(queue) : queue'[i] = queue[i - n]
           /\ abandoned' \in SUBSET Task
           /\ retriedCount' \in Nat
           /\ abandoned' = abandoned \cup
                {inFlight[l] : l \in {k \in loops : ~AttemptLeft(inFlight[k])}}
<1> DEFINE again == {l \in loops : AttemptLeft(inFlight[l])}
           n == Cardinality(again)
<1>1. IsFiniteSet(again) /\ n \in Nat
  BY FS_Subset, FS_CardinalityType
<1>2. PICK back \in NewestFirst(again) :
         queue' = PutBack([i \in 1 .. n |-> NextAttempt(inFlight[back[i]])])
  BY DEF RetryOrAbandon
<1>3. /\ back \in [1 .. n -> again]
      /\ \A i, j \in 1 .. n : i < j => back[i] > back[j]
  BY <1>2 DEF NewestFirst
<1>4. \A l \in loops : l \in Nat /\ inFlight[l] \in Task
  BY DEF TypeOK
<1> DEFINE front == [i \in 1 .. n |-> NextAttempt(inFlight[back[i]])]
<1>5. \A i \in 1 .. n : back[i] \in loops /\ AttemptLeft(inFlight[back[i]])
  BY <1>3
<1>6. \A i \in 1 .. n : NextAttempt(inFlight[back[i]]) \in Task
  BY <1>4, <1>5, NextAttemptType
<1>7. front \in Seq(Task) /\ Len(front) = n
  BY <1>1, <1>6, IsASeq
<1>8. queue' = front \o queue
  BY <1>2 DEF PutBack
<1>9. /\ queue' \in Seq(Task)
      /\ Len(queue') = n + Len(queue)
      /\ \A i \in 1 .. n + Len(queue) :
            queue'[i] = IF i <= n THEN front[i] ELSE queue[i - n]
  <2> HIDE DEF front, n
  <2> queue \in Seq(Task)
    BY DEF TypeOK
  <2> QED
    BY <1>7, <1>8, ConcatProperties
<1>10. \A i, j \in 1 .. n : i # j => back[i] # back[j]
  <2> SUFFICES ASSUME NEW i \in 1 .. n, NEW j \in 1 .. n, i # j
               PROVE  back[i] # back[j]
    OBVIOUS
  <2>1. i < j \/ j < i
    BY <1>1
  <2>2. back[i] \in Nat /\ back[j] \in Nat
    BY <1>4, <1>5
  <2> QED
    BY <1>3, <2>1, <2>2
<1>11. \A i \in 1 .. n : queue'[i] = NextAttempt(inFlight[back[i]])
  BY <1>1, <1>9, Len(queue) \in Nat DEF TypeOK
<1>12. \A i \in n + 1 .. n + Len(queue) : queue'[i] = queue[i - n]
  BY <1>1, <1>9, Len(queue) \in Nat DEF TypeOK
<1>13. /\ abandoned' \in SUBSET Task
       /\ abandoned' = abandoned \cup
            {inFlight[l] : l \in {k \in loops : ~AttemptLeft(inFlight[k])}}
  <2>1. abandoned' = abandoned \cup {inFlight[l] : l \in loops \ again}
    BY DEF RetryOrAbandon
  <2>2. loops \ again = {k \in loops : ~AttemptLeft(inFlight[k])}
    OBVIOUS
  <2> QED
    BY <1>4, <2>1, <2>2 DEF TypeOK
<1>14. retriedCount' \in Nat
  BY <1>1 DEF RetryOrAbandon, TypeOK
<1> QED
  <2> HIDE DEF n
  <2>1. back \in [1 .. n -> loops]
    BY <1>3
  <2> QED
    BY <1>1, <1>5, <1>9, <1>10, <1>11, <1>12, <1>13, <1>14, <2>1

\* Whatever is put back is the next attempt of one of the loops, none of the
\* loops' samples is lost without being given up, and none that waited is.
LEMMA RetryOrAbandonKeeps ==
    ASSUME TypeOK, NEW loops \in SUBSET DOMAIN inFlight, IsFiniteSet(loops),
           RetryOrAbandon(loops)
    PROVE  /\ \A i \in DOMAIN queue' :
                 \/ \E j \in DOMAIN queue : queue'[i] = queue[j]
                 \/ \E l \in loops :
                       /\ queue'[i].sample = inFlight[l].sample
                       /\ queue'[i].attempt = inFlight[l].attempt + 1
           /\ \A j \in DOMAIN queue :
                 \E i \in DOMAIN queue' : queue'[i] = queue[j]
           /\ \A l \in loops :
                 \/ \E i \in DOMAIN queue' :
                       queue'[i].sample = inFlight[l].sample
                 \/ inFlight[l] \in abandoned'
           /\ abandoned \subseteq abandoned'
<1> DEFINE again == {l \in loops : AttemptLeft(inFlight[l])}
           n == Cardinality(again)
<1>1. IsFiniteSet(again) /\ n \in Nat
  BY FS_Subset, FS_CardinalityType
<1>2. PICK back \in NewestFirst(again) :
         queue' = PutBack([i \in 1 .. n |-> NextAttempt(inFlight[back[i]])])
  BY DEF RetryOrAbandon
<1>3. /\ back \in [1 .. n -> again]
      /\ \A i, j \in 1 .. n : i < j => back[i] > back[j]
  BY <1>2 DEF NewestFirst
<1>4. \A l \in loops : l \in Nat /\ inFlight[l] \in Task
  BY DEF TypeOK
<1>5. back \in Surjection(1 .. n, again)
  <2>1. \A i, j \in 1 .. n : back[i] = back[j] => i = j
    <3> SUFFICES ASSUME NEW i \in 1 .. n, NEW j \in 1 .. n, i # j
                 PROVE  back[i] # back[j]
      OBVIOUS
    <3>1. i < j \/ j < i
      BY <1>1
    <3>2. back[i] \in Nat /\ back[j] \in Nat
      BY <1>3, <1>4
    <3> QED
      BY <1>3, <3>1, <3>2
  <2> HIDE DEF again
  <2>2. back \in Injection(1 .. n, again)
    <3> HIDE DEF n
    <3> QED
      BY <1>3, <2>1 DEF Injection, IsInjective
  <2>3. Cardinality(1 .. n) = n
    <3>1. 1 \in Int /\ n \in Int
      BY <1>1
    <3>2. Cardinality(1 .. n) = IF 1 > n THEN 0 ELSE n - 1 + 1
      BY <3>1, FS_Interval
    <3> HIDE DEF n
    <3> QED
      BY <1>1, <3>2
  <2> QED
    BY <1>1, <2>2, <2>3, FS_Injection
<1> DEFINE front == [i \in 1 .. n |-> NextAttempt(inFlight[back[i]])]
<1>6. \A i \in 1 .. n : /\ back[i] \in loops
                        /\ AttemptLeft(inFlight[back[i]])
                        /\ inFlight[back[i]] \in Task
  BY <1>3, <1>4
<1>7. front \in Seq(Task) /\ Len(front) = n
  <2>1. \A i \in 1 .. n : NextAttempt(inFlight[back[i]]) \in Task
    BY <1>6, NextAttemptType
  <2> QED
    BY <1>1, <2>1, IsASeq
<1>8. queue \in Seq(Task) /\ Len(queue) \in Nat /\ DOMAIN queue = 1 .. Len(queue)
  BY CaseTypes
<1>9. /\ queue' \in Seq(Task) /\ Len(queue') = n + Len(queue)
      /\ \A i \in 1 .. n + Len(queue) :
            queue'[i] = IF i <= n THEN front[i] ELSE queue[i - n]
  <2>1. queue' = front \o queue
    BY <1>2 DEF PutBack
  <2> HIDE DEF front, n
  <2> QED
    BY <1>7, <1>8, <2>1, ConcatProperties
<1>10. DOMAIN queue' = 1 .. n + Len(queue)
  BY <1>9, LenProperties
<1>11. \A i \in 1 .. n :
          /\ i \in DOMAIN queue'
          /\ queue'[i].sample = inFlight[back[i]].sample
          /\ queue'[i].attempt = inFlight[back[i]].attempt + 1
  <2> SUFFICES ASSUME NEW i \in 1 .. n
               PROVE  /\ i \in DOMAIN queue'
                      /\ queue'[i].sample = inFlight[back[i]].sample
                      /\ queue'[i].attempt = inFlight[back[i]].attempt + 1
    OBVIOUS
  <2>1. i \in 1 .. n + Len(queue) /\ i <= n
    <3> HIDE DEF n
    <3> QED
      BY <1>1, <1>8
  <2>2. queue'[i] = NextAttempt(inFlight[back[i]])
    BY <1>9, <2>1
  <2>3. inFlight[back[i]] \in Task
    BY <1>6
  <2> DEFINE t == inFlight[back[i]]
  <2>4. t \in Task /\ queue'[i] = NextAttempt(t)
    BY <2>2, <2>3
  <2> HIDE DEF t
  <2>5. NextAttempt(t).sample = t.sample /\ NextAttempt(t).attempt = t.attempt + 1
    BY <2>4 DEF NextAttempt, Task
  <2>6. queue'[i].sample = t.sample /\ queue'[i].attempt = t.attempt + 1
    BY <2>4, <2>5
  <2> QED
    BY <1>10, <2>1, <2>6 DEF t
<1>12. \A l \in loops : AttemptLeft(inFlight[l]) =>
          \E i \in DOMAIN queue' : queue'[i].sample = inFlight[l].sample
  <2> SUFFICES ASSUME NEW l \in again
               PROVE  \E i \in DOMAIN queue' :
                         queue'[i].sample = inFlight[l].sample
    OBVIOUS
  <2>1. PICK i \in 1 .. n : back[i] = l
    <3> HIDE DEF n, again
    <3> QED
      BY <1>5 DEF Surjection
  <2> QED
    BY <1>11, <2>1
<1>13. /\ abandoned \subseteq abandoned'
       /\ \A l \in loops : ~AttemptLeft(inFlight[l]) => inFlight[l] \in abandoned'
  BY DEF RetryOrAbandon
<1>14. \A i \in DOMAIN queue' :
          \/ \E j \in DOMAIN queue : queue'[i] = queue[j]
          \/ i \in 1 .. n
  <2> SUFFICES ASSUME NEW i \in DOMAIN queue', i \notin 1 .. n
               PROVE  \E j \in DOMAIN queue : queue'[i] = queue[j]
    OBVIOUS
  <2> HIDE DEF n
  <2>1. i \in 1 .. n + Len(queue) /\ ~(i <= n) /\ i - n \in 1 .. Len(queue)
    BY <1>1, <1>8, <1>10
  <2>2. queue'[i] = queue[i - n]
    BY <1>9, <2>1
  <2> QED
    BY <1>8, <2>1, <2>2
<1>15. \A j \in DOMAIN queue : \E i \in DOMAIN queue' : queue'[i] = queue[j]
  <2> SUFFICES ASSUME NEW j \in 1 .. Len(queue)
               PROVE  \E i \in DOMAIN queue' : queue'[i] = queue[j]
    BY <1>8
  <2> HIDE DEF n
  <2>1. \E k \in 1 .. n + Len(queue) : ~(k <= n) /\ k - n = j
    <3>1. j + n \in 1 .. n + Len(queue) /\ ~(j + n <= n) /\ (j + n) - n = j
      BY <1>1, <1>8
    <3> QED
      BY <3>1
  <2>2. PICK k \in 1 .. n + Len(queue) : ~(k <= n) /\ k - n = j
    BY <2>1
  <2>3. queue'[k] = queue[j]
    BY <1>9, <2>2
  <2> QED
    BY <1>10, <2>3
<1> HIDE DEF n
<1> QED
  BY <1>6, <1>11, <1>12, <1>13, <1>14, <1>15

\* A worker takes the first case of the queue.
LEMMA GetNextTaskEffect ==
    ASSUME TypeOK, GetNextTask
    PROVE  /\ queue' \in Seq(Task)
           /\ Len(queue) > 0
           /\ Len(queue') = Len(queue) - 1
           /\ \A i \in 1 .. Len(queue') : queue'[i] = queue[i + 1]
           /\ DOMAIN inFlight' = DOMAIN inFlight \cup {dispatchedCount + 1}
           /\ inFlight'[dispatchedCount + 1] = queue[1]
           /\ \A l \in DOMAIN inFlight :
                 l # dispatchedCount + 1 => inFlight'[l] = inFlight[l]
           /\ inFlight' \in [DOMAIN inFlight' -> Task]
<1>1. queue \in Seq(Task) /\ queue # <<>>
  BY DEF TypeOK, GetNextTask
<1>2. /\ Head(queue) = queue[1]
      /\ Len(queue) > 0
      /\ Tail(queue) \in Seq(Task)
      /\ Len(Tail(queue)) = Len(queue) - 1
      /\ \A i \in 1 .. Len(Tail(queue)) : Tail(queue)[i] = queue[i + 1]
  BY <1>1, HeadTailProperties
<1>3. queue[1] \in Task
  BY <1>1, <1>2
<1>4. inFlight' = [l \in DOMAIN inFlight \cup {dispatchedCount + 1} |->
                    IF l = dispatchedCount + 1 THEN queue[1]
                    ELSE inFlight[l]]
  BY <1>2 DEF GetNextTask
<1>5. \A l \in DOMAIN inFlight : inFlight[l] \in Task
  BY DEF TypeOK
<1> QED
  BY <1>1, <1>2, <1>3, <1>4, <1>5 DEF GetNextTask

-----------------------------------------------------------------------------
(* The invariant holds initially and every method preserves it.            *)

\* The invariant holds in the beginning.
LEMMA InitIInv == Init => IInv
<1> SUFFICES ASSUME Init PROVE IInv
  OBVIOUS
<1> USE DEF Init
<1>1. DOMAIN inFlight = {} /\ DOMAIN queue = {}
  OBVIOUS
<1>2. TypeOK
  <2>1. queue \in Seq(Task)
    OBVIOUS
  <2>2. inFlight \in [DOMAIN inFlight -> Task]
    <3>1. inFlight = [l \in {} |-> {}]
      OBVIOUS
    <3> QED
      BY <3>1
  <2>3. 0 \in 0 .. MaxSamples /\ DOMAIN inFlight \in SUBSET Nat
    BY <1>1, MaxSamplesAssumption
  <2> HIDE DEF Init
  <2> QED
    BY <2>1, <2>2, <2>3 DEF TypeOK, Init
<1>3. Accounting
  BY <1>1, FS_EmptySet DEF Accounting, HandedOut
<1>4. KnownSamples /\ OneCopy /\ RetriesFirst /\ GivenUpAfterLastAttempt
  BY <1>1 DEF KnownSamples, OneCopy, RetriesFirst, GivenUpAfterLastAttempt
<1> QED
  BY <1>2, <1>3, <1>4 DEF IInv, Init

\* Start numbers are set before any loop number is handed out.
LEMMA SetStartCountsIInv ==
    ASSUME IInv, NEW count \in 1 .. MaxStart, SetStartCounts(count)
    PROVE  IInv'
<1> USE DEF SetStartCounts
<1>1. count \in Nat
  BY MaxStartAssumption
<1>2. TypeOK'
  BY <1>1 DEF IInv, TypeOK
<1>3. Accounting'
  <2>1. startCount + 1 .. dispatchedCount = {}
    BY DEF IInv, TypeOK
  <2>2. DOMAIN inFlight = {} /\ completedLoops = {}
    BY <2>1 DEF IInv, Accounting, HandedOut
  <2>3. count + 1 .. count = {}
    BY <1>1
  <2> QED
    BY <1>1, <2>2, <2>3, FS_EmptySet DEF Accounting, HandedOut
<1>4. (KnownSamples /\ OneCopy /\ RetriesFirst /\ GivenUpAfterLastAttempt)'
  BY DEF IInv, KnownSamples, OneCopy, RetriesFirst, GivenUpAfterLastAttempt
<1>5. (startCount <= dispatchedCount)'
  BY <1>1
<1> QED
  BY <1>2, <1>3, <1>4, <1>5 DEF IInv

\* A new sample is in no other place yet.
LEMMA AddTaskIInv ==
    ASSUME IInv, AddTask
    PROVE  IInv'
<1> DEFINE new == [sample |-> added + 1, attempt |-> 0]
<1>1. /\ TypeOK /\ Accounting /\ startCount <= dispatchedCount
      /\ KnownSamples /\ OneCopy /\ RetriesFirst /\ GivenUpAfterLastAttempt
  BY DEF IInv
<1>2. new \in Task /\ added + 1 \in 0 .. MaxSamples
  BY <1>1, MaxSamplesAssumption, MaxAttemptsAssumption
  DEF AddTask, TypeOK, Task, Samples
<1>3. /\ queue' \in Seq(Task)
      /\ Len(queue') = Len(queue) + 1
      /\ \A i \in 1 .. Len(queue) : queue'[i] = queue[i]
      /\ queue'[Len(queue) + 1] = new
  BY <1>1, <1>2, AppendProperties DEF AddTask, TypeOK
<1>4. TypeOK'
  BY <1>1, <1>2, <1>3 DEF AddTask, TypeOK
<1>5. Accounting'
  BY <1>1 DEF AddTask, Accounting, HandedOut
<1>6. /\ queue \in Seq(Task) /\ Len(queue) \in Nat
      /\ DOMAIN queue = 1 .. Len(queue)
      /\ DOMAIN queue' = 1 .. Len(queue) + 1
      /\ added \in Nat
      /\ \A i \in DOMAIN queue :
            queue[i].sample \in Nat /\ queue[i].attempt \in Nat
      /\ \A l \in DOMAIN inFlight : inFlight[l].sample \in Nat
      /\ \A t \in abandoned : t.sample \in Nat
  BY <1>1, <1>3, CaseTypes
<1>7. KnownSamples'
  BY <1>1, <1>3, <1>6 DEF AddTask, KnownSamples
<1>8. OneCopy'
  BY <1>1, <1>3, <1>6 DEF AddTask, OneCopy, KnownSamples
<1>9. RetriesFirst'
  BY <1>1, <1>3, <1>6 DEF AddTask, RetriesFirst, KnownSamples
<1>10. GivenUpAfterLastAttempt'
  BY <1>1 DEF AddTask, GivenUpAfterLastAttempt
<1> QED
  BY <1>1, <1>4, <1>5, <1>7, <1>8, <1>9, <1>10 DEF IInv, AddTask

\* A case that is taken gets a loop number nothing has had before.
LEMMA GetNextTaskIInv ==
    ASSUME IInv, GetNextTask
    PROVE  IInv'
<1>1. /\ TypeOK /\ Accounting /\ startCount <= dispatchedCount
      /\ KnownSamples /\ OneCopy /\ RetriesFirst /\ GivenUpAfterLastAttempt
  BY DEF IInv
<1> DEFINE next == dispatchedCount + 1
<1>2. /\ queue' \in Seq(Task)
      /\ Len(queue) > 0
      /\ Len(queue') = Len(queue) - 1
      /\ \A i \in 1 .. Len(queue') : queue'[i] = queue[i + 1]
      /\ DOMAIN inFlight' = DOMAIN inFlight \cup {next}
      /\ inFlight'[next] = queue[1]
      /\ \A l \in DOMAIN inFlight : l # next => inFlight'[l] = inFlight[l]
      /\ inFlight' \in [DOMAIN inFlight' -> Task]
  BY <1>1, GetNextTaskEffect
<1>3. dispatchedCount \in Nat /\ startCount \in Nat /\ next \in Nat
  BY <1>1 DEF TypeOK
<1>4. next \notin DOMAIN inFlight /\ next \notin completedLoops
  <2>1. \A l \in HandedOut : l \in startCount + 1 .. dispatchedCount
    BY <1>1 DEF Accounting
  <2>2. next \notin HandedOut
    BY <1>3, <2>1
  <2> QED
    BY <2>2 DEF HandedOut
<1>5. \A l \in DOMAIN inFlight : inFlight'[l] = inFlight[l]
  BY <1>2, <1>4
<1>6. TypeOK'
  BY <1>1, <1>2, <1>3 DEF TypeOK, GetNextTask
<1>7. Accounting'
  <2>1. startCount + 1 .. next = (startCount + 1 .. dispatchedCount) \cup {next}
    BY <1>1, <1>3
  <2> QED
    BY <1>1, <1>2, <1>4, <2>1 DEF Accounting, HandedOut, GetNextTask
<1>8. /\ Len(queue) \in Nat
      /\ DOMAIN queue = 1 .. Len(queue)
      /\ DOMAIN queue' = 1 .. Len(queue')
      /\ Len(queue') \in Nat
  BY <1>1, <1>2, CaseTypes
<1>9. \A i \in DOMAIN queue' : i + 1 \in DOMAIN queue /\ i + 1 # 1
  BY <1>2, <1>8
<1>10. 1 \in DOMAIN queue
  BY <1>2, <1>8
<1>11. KnownSamples'
  BY <1>1, <1>2, <1>5, <1>8, <1>9, <1>10 DEF KnownSamples, GetNextTask
<1>12. OneCopy'
  <2>1. \A i, j \in DOMAIN queue' :
           queue'[i].sample = queue'[j].sample => i = j
    BY <1>1, <1>2, <1>8, <1>9 DEF OneCopy
  <2>2. \A i \in DOMAIN queue' : queue'[i].sample # queue[1].sample
    BY <1>1, <1>2, <1>8, <1>9, <1>10 DEF OneCopy
  <2>3. \A l \in DOMAIN inFlight : inFlight[l].sample # queue[1].sample
    BY <1>1, <1>10 DEF OneCopy
  <2>4. \A k, l \in DOMAIN inFlight' :
           inFlight'[k].sample = inFlight'[l].sample => k = l
    BY <1>1, <1>2, <1>5, <2>3 DEF OneCopy
  <2>5. \A i \in DOMAIN queue', l \in DOMAIN inFlight' :
           queue'[i].sample # inFlight'[l].sample
    BY <1>1, <1>2, <1>5, <1>8, <1>9, <2>2 DEF OneCopy
  <2>6. \A t \in abandoned :
           /\ \A i \in DOMAIN queue' : queue'[i].sample # t.sample
           /\ \A l \in DOMAIN inFlight' : inFlight'[l].sample # t.sample
           /\ \A u \in abandoned : u.sample = t.sample => u = t
    BY <1>1, <1>2, <1>5, <1>8, <1>9, <1>10 DEF OneCopy
  <2> QED
    BY <2>1, <2>4, <2>5, <2>6 DEF OneCopy, GetNextTask
<1>13. RetriesFirst'
  <2> SUFFICES ASSUME NEW i \in DOMAIN queue', NEW j \in DOMAIN queue', i < j
               PROVE  \/ queue'[i].attempt > 0
                      \/ /\ queue'[j].attempt = 0
                         /\ queue'[i].sample < queue'[j].sample
    BY DEF RetriesFirst
  <2>1. /\ i + 1 \in DOMAIN queue /\ j + 1 \in DOMAIN queue /\ i + 1 < j + 1
        /\ queue'[i] = queue[i + 1] /\ queue'[j] = queue[j + 1]
    BY <1>2, <1>8, <1>9
  <2> QED
    BY <1>1, <2>1 DEF RetriesFirst
<1>14. GivenUpAfterLastAttempt' /\ (startCount <= dispatchedCount)'
  BY <1>1, <1>3 DEF GivenUpAfterLastAttempt, GetNextTask
<1> QED
  BY <1>6, <1>7, <1>11, <1>12, <1>13, <1>14 DEF IInv

\* Loops that leave the cases in flight and are counted, and whose cases are
\* then retried or given up, or simply done.
FinishLoops(loops) ==
    /\ completedLoops' = completedLoops \cup loops
    /\ inFlight' = Restrict(inFlight, DOMAIN inFlight \ loops)
    /\ completedCount' = completedCount + Cardinality(loops)
    /\ \/ RetryOrAbandon(loops)
       \/ UNCHANGED <<queue, retriedCount, abandoned>>
    /\ UNCHANGED <<startCount, dispatchedCount, stopSignal, added>>

\* Finishing loops keeps the invariant, whether their cases are retried or done.
LEMMA FinishLoopsIInv ==
    ASSUME IInv, NEW loops \in SUBSET DOMAIN inFlight, FinishLoops(loops)
    PROVE  IInv'
<1>1. /\ TypeOK /\ Accounting /\ startCount <= dispatchedCount
      /\ KnownSamples /\ OneCopy /\ RetriesFirst /\ GivenUpAfterLastAttempt
  BY DEF IInv
<1>2. IsFiniteSet(loops) /\ Cardinality(loops) \in Nat
  BY <1>1, FiniteLoops, FS_Subset, FS_CardinalityType
<1>3. /\ DOMAIN inFlight' = DOMAIN inFlight \ loops
      /\ \A l \in DOMAIN inFlight' : inFlight'[l] = inFlight[l]
      /\ inFlight' \in [DOMAIN inFlight' -> Task]
  BY <1>1 DEF FinishLoops, Restrict, TypeOK
<1>a. /\ completedLoops' \in SUBSET Nat
      /\ completedCount' \in Nat
      /\ DOMAIN inFlight' \in SUBSET Nat
      /\ startCount' = startCount /\ dispatchedCount' = dispatchedCount
      /\ stopSignal' = stopSignal /\ added' = added
  <2>1. DOMAIN inFlight \in SUBSET Nat /\ completedLoops \in SUBSET Nat
    BY <1>1 DEF TypeOK
  <2>2. completedCount + Cardinality(loops) \in Nat
    BY <1>1, <1>2 DEF TypeOK
  <2> QED
    BY <1>3, <2>1, <2>2 DEF FinishLoops
<1>4. Accounting'
  <2>1. completedLoops \cap loops = {}
    BY <1>1 DEF Accounting
  <2>2. Cardinality(completedLoops') =
          Cardinality(completedLoops) + Cardinality(loops)
    <3>1. /\ IsFiniteSet(completedLoops)
          /\ Cardinality(completedLoops) \in Nat
      BY <1>1, FiniteLoops
    <3>2. Cardinality(completedLoops \cup loops) =
            Cardinality(completedLoops) + Cardinality(loops)
              - Cardinality(completedLoops \cap loops)
      BY <1>2, <3>1, FS_Union
    <3>3. Cardinality(completedLoops \cap loops) = 0
      BY <2>1, FS_EmptySet
    <3> QED
      BY <1>2, <3>1, <3>2, <3>3 DEF FinishLoops
  <2>3. HandedOut' = HandedOut
    BY <1>3 DEF HandedOut, FinishLoops
  <2>4. DOMAIN inFlight' \cap completedLoops' = {}
    BY <1>1, <1>3 DEF Accounting, FinishLoops
  <2>5. completedCount' = startCount' + Cardinality(completedLoops')
    BY <1>1, <1>2, <2>2, FiniteLoops DEF Accounting, FinishLoops, TypeOK
  <2> QED
    BY <1>1, <2>3, <2>4, <2>5 DEF Accounting, FinishLoops
<1>5. ASSUME UNCHANGED <<queue, retriedCount, abandoned>>
      PROVE  IInv'
  <2>1. TypeOK'
    BY <1>1, <1>3, <1>a, <1>5 DEF TypeOK
  <2>2. KnownSamples'
    BY <1>1, <1>3, <1>a, <1>5 DEF KnownSamples
  <2>3. OneCopy'
    BY <1>1, <1>3, <1>5 DEF OneCopy
  <2>4. RetriesFirst' /\ GivenUpAfterLastAttempt'
    BY <1>1, <1>5 DEF RetriesFirst, GivenUpAfterLastAttempt
  <2> QED
    BY <1>1, <1>a, <1>4, <2>1, <2>2, <2>3, <2>4 DEF IInv
<1>6. ASSUME RetryOrAbandon(loops)
      PROVE  IInv'
  <2>1. /\ abandoned' \in SUBSET Task
        /\ retriedCount' \in Nat
        /\ abandoned' = abandoned \cup
             {inFlight[l] : l \in {k \in loops : ~AttemptLeft(inFlight[k])}}
    BY <1>1, <1>2, <1>6, RetryOrAbandonEffect
  <2> DEFINE Prepended(n, back) ==
           /\ \A i \in 1 .. n : AttemptLeft(inFlight[back[i]])
           /\ \A i, j \in 1 .. n : i # j => back[i] # back[j]
           /\ queue' \in Seq(Task)
           /\ Len(queue') = n + Len(queue)
           /\ \A i \in 1 .. n : queue'[i] = NextAttempt(inFlight[back[i]])
           /\ \A i \in n + 1 .. n + Len(queue) : queue'[i] = queue[i - n]
  <2>a. PICK n \in Nat : \E back \in [1 .. n -> loops] : Prepended(n, back)
    BY <1>1, <1>2, <1>6, RetryOrAbandonEffect
  <2>2. PICK back \in [1 .. n -> loops] : Prepended(n, back)
    BY <2>a
  <2>3. TypeOK'
    BY <1>1, <1>3, <1>a, <2>1, <2>2 DEF TypeOK
  <2>4. /\ Len(queue) \in Nat
        /\ DOMAIN queue = 1 .. Len(queue)
        /\ DOMAIN queue' = 1 .. n + Len(queue)
    BY <1>1, <2>2, CaseTypes
  <2>5. \A i \in 1 .. n :
           /\ back[i] \in loops
           /\ back[i] \in DOMAIN inFlight
           /\ queue'[i].sample = inFlight[back[i]].sample
           /\ queue'[i].attempt > 0
    BY <1>1, <2>2, CaseTypes, NextAttemptType
  <2>6. \A i \in DOMAIN queue' \ 1 .. n :
           i - n \in DOMAIN queue /\ queue'[i] = queue[i - n]
    BY <2>2, <2>4
  <2>7. KnownSamples'
    <3>1. \A i \in DOMAIN queue' : queue'[i].sample <= added
      BY <1>1, <2>4, <2>5, <2>6 DEF KnownSamples
    <3>2. \A t \in abandoned' : t.sample <= added
      BY <1>1, <2>1 DEF KnownSamples
    <3> QED
      BY <1>1, <1>3, <3>1, <3>2 DEF KnownSamples, FinishLoops
  <2>8. OneCopy'
    <3>1. \A i \in 1 .. n, l \in DOMAIN inFlight :
             queue'[i].sample = inFlight[l].sample => l = back[i]
      BY <1>1, <2>5 DEF OneCopy
    <3>2. \A i, j \in 1 .. n : queue'[i].sample = queue'[j].sample => i = j
      BY <2>2, <2>5, <3>1
    <3>3. \A i \in 1 .. n, j \in DOMAIN queue :
             queue'[i].sample # queue[j].sample
      BY <1>1, <2>5 DEF OneCopy
    <3>4. \A i, j \in DOMAIN queue' :
             queue'[i].sample = queue'[j].sample => i = j
      <4> SUFFICES ASSUME NEW i \in DOMAIN queue', NEW j \in DOMAIN queue',
                          queue'[i].sample = queue'[j].sample
                   PROVE  i = j
        OBVIOUS
      <4>1. CASE i \in 1 .. n /\ j \in 1 .. n
        BY <4>1, <3>2
      <4>2. CASE i \in 1 .. n /\ j \notin 1 .. n
        BY <4>2, <2>6, <3>3
      <4>3. CASE i \notin 1 .. n /\ j \in 1 .. n
        BY <4>3, <2>6, <3>3
      <4>4. CASE i \notin 1 .. n /\ j \notin 1 .. n
        <5>1. i - n = j - n
          BY <1>1, <4>4, <2>6 DEF OneCopy
        <5> QED
          BY <5>1, <2>4
      <4> QED
        BY <4>1, <4>2, <4>3, <4>4
    <3>5. \A k, l \in DOMAIN inFlight' :
             inFlight'[k].sample = inFlight'[l].sample => k = l
      BY <1>1, <1>3 DEF OneCopy
    <3>6. \A i \in DOMAIN queue', l \in DOMAIN inFlight' :
             queue'[i].sample # inFlight'[l].sample
      <4> SUFFICES ASSUME NEW i \in DOMAIN queue', NEW l \in DOMAIN inFlight'
                   PROVE  queue'[i].sample # inFlight[l].sample
        BY <1>3
      <4>1. CASE i \in 1 .. n
        BY <4>1, <1>3, <2>5, <3>1
      <4>2. CASE i \notin 1 .. n
        BY <4>2, <1>1, <1>3, <2>6 DEF OneCopy
      <4> QED
        BY <4>1, <4>2
    <3>7. ASSUME NEW t \in abandoned'
          PROVE  /\ \A i \in DOMAIN queue' : queue'[i].sample # t.sample
                 /\ \A l \in DOMAIN inFlight' : inFlight'[l].sample # t.sample
                 /\ \A u \in abandoned' : u.sample = t.sample => u = t
      <4>1. CASE t \in abandoned
        <5>1. \A i \in DOMAIN queue' : queue'[i].sample # t.sample
          BY <4>1, <1>1, <2>5, <2>6 DEF OneCopy
        <5>2. \A l \in DOMAIN inFlight : inFlight[l].sample # t.sample
          BY <4>1, <1>1 DEF OneCopy
        <5>3. \A u \in abandoned' : u.sample = t.sample => u = t
          BY <4>1, <1>1, <2>1, <5>2 DEF OneCopy
        <5> QED
          BY <1>3, <5>1, <5>2, <5>3
      <4>2. CASE t \notin abandoned
        <5>1. PICK k \in loops : ~AttemptLeft(inFlight[k]) /\ t = inFlight[k]
          BY <4>2, <2>1
        <5>2. \A i \in DOMAIN queue' : queue'[i].sample # t.sample
          <6> SUFFICES ASSUME NEW i \in DOMAIN queue'
                       PROVE  queue'[i].sample # t.sample
            OBVIOUS
          <6>1. CASE i \in 1 .. n
            <7>1. back[i] # k
              BY <6>1, <5>1, <2>2
            <7> QED
              BY <6>1, <7>1, <5>1, <3>1
          <6>2. CASE i \notin 1 .. n
            BY <6>2, <5>1, <1>1, <2>6 DEF OneCopy
          <6> QED
            BY <6>1, <6>2
        <5>3. \A l \in DOMAIN inFlight' : inFlight'[l].sample # t.sample
          BY <5>1, <1>1, <1>3 DEF OneCopy
        <5>4. \A u \in abandoned' : u.sample = t.sample => u = t
          BY <5>1, <1>1, <2>1 DEF OneCopy
        <5> QED
          BY <5>2, <5>3, <5>4
      <4> QED
        BY <4>1, <4>2
    <3> QED
      BY <3>4, <3>5, <3>6, <3>7 DEF OneCopy
  <2>9. RetriesFirst'
    <3> SUFFICES ASSUME NEW i \in DOMAIN queue', NEW j \in DOMAIN queue',
                        i < j
                 PROVE  \/ queue'[i].attempt > 0
                        \/ /\ queue'[j].attempt = 0
                           /\ queue'[i].sample < queue'[j].sample
      BY DEF RetriesFirst
    <3>1. CASE i \in 1 .. n
      BY <3>1, <2>5
    <3>2. CASE i \notin 1 .. n
      <4>1. j \notin 1 .. n /\ i - n < j - n
        BY <3>2, <2>4
      <4> QED
        BY <3>2, <4>1, <1>1, <2>6 DEF RetriesFirst
    <3> QED
      BY <3>1, <3>2
  <2>10. GivenUpAfterLastAttempt'
    <3> SUFFICES ASSUME NEW t \in abandoned' PROVE t.attempt + 1 = MaxAttempts
      BY DEF GivenUpAfterLastAttempt
    <3>1. CASE t \in abandoned
      BY <3>1, <1>1 DEF GivenUpAfterLastAttempt
    <3>2. CASE t \notin abandoned
      <4>1. t \in Task /\ ~AttemptLeft(t)
        BY <3>2, <2>1
      <4> QED
        BY <4>1, MaxAttemptsAssumption DEF Task, AttemptLeft
    <3> QED
      BY <3>1, <3>2
  <2> QED
    BY <1>1, <1>4, <2>3, <2>7, <2>8, <2>9, <2>10 DEF IInv, FinishLoops
<1> QED
  BY <1>5, <1>6 DEF FinishLoops

\* Every step preserves the invariant.
LEMMA NextIInv == IInv /\ [Next]_qvars => IInv'
<1> SUFFICES ASSUME IInv, [Next]_qvars PROVE IInv'
  OBVIOUS
<1>1. CASE \E count \in 1 .. MaxStart : SetStartCounts(count)
  BY <1>1, SetStartCountsIInv
<1>2. CASE AddTask
  BY <1>2, AddTaskIInv
<1>3. CASE GetNextTask
  BY <1>3, GetNextTaskIInv
<1>4. ASSUME NEW loop \in HandedOut, NEW success \in BOOLEAN,
             ReportCompletion(loop, success)
      PROVE  IInv'
  <2>1. loop \in DOMAIN inFlight
    BY <1>4 DEF HandedOut, ReportCompletion, NotCounted
  <2>2. Cardinality({loop}) = 1
    BY FS_Singleton
  <2>3. FinishLoops({loop})
    BY <1>4, <2>2 DEF ReportCompletion, FinishLoops
  <2> QED
    BY <2>1, <2>3, FinishLoopsIInv
<1>5. ASSUME NEW late \in 1 .. dispatchedCount, RequeueStale(late)
      PROVE  IInv'
  <2>1. FinishLoops({l \in DOMAIN inFlight : l <= late})
    BY <1>5 DEF RequeueStale, WithoutStale, StaleCounted, FinishLoops
  <2> QED
    BY <2>1, FinishLoopsIInv
<1>6. CASE SetStopSignal
  <2>1. TypeOK'
    BY <1>6 DEF IInv, TypeOK, SetStopSignal
  <2> QED
    BY <1>6, <2>1 DEF IInv, Accounting, HandedOut, KnownSamples, OneCopy,
       RetriesFirst, GivenUpAfterLastAttempt, SetStopSignal
<1>7. CASE CancelPending
  <2>1. TypeOK'
    BY <1>7, EmptySeq DEF IInv, TypeOK, CancelPending
  <2>2. DOMAIN queue' = {}
    BY <1>7 DEF CancelPending
  <2> QED
    BY <1>7, <2>1, <2>2 DEF IInv, Accounting, HandedOut, KnownSamples, OneCopy,
       RetriesFirst, GivenUpAfterLastAttempt, CancelPending
<1>8. CASE UNCHANGED qvars
  BY <1>8 DEF IInv, TypeOK, Accounting, HandedOut, KnownSamples, OneCopy,
     RetriesFirst, GivenUpAfterLastAttempt, qvars
<1> QED
  BY <1>1, <1>2, <1>3, <1>4, <1>5, <1>6, <1>7, <1>8 DEF Next

\* Every behaviour of the queue keeps the invariant.
THEOREM InductiveInvariant == Spec => []IInv
<1> QED
  BY InitIInv, NextIInv, PTL DEF Spec

\* When as many cases are counted as were handed out, none is in flight.
LEMMA AllCounted ==
    ASSUME IInv, completedCount >= dispatchedCount
    PROVE  DOMAIN inFlight = {}
<1>1. /\ TypeOK /\ Accounting /\ startCount <= dispatchedCount
  BY DEF IInv
<1>2. /\ IsFiniteSet(completedLoops) /\ IsFiniteSet(DOMAIN inFlight)
      /\ Cardinality(completedLoops) \in Nat
      /\ Cardinality(DOMAIN inFlight) \in Nat
  BY <1>1, FiniteLoops
<1>3. Cardinality(HandedOut) = dispatchedCount - startCount
  <2>1. startCount + 1 \in Int /\ dispatchedCount \in Int /\ startCount \in Int
    BY <1>1 DEF TypeOK
  <2>2. Cardinality(startCount + 1 .. dispatchedCount) =
          IF startCount + 1 > dispatchedCount THEN 0
          ELSE dispatchedCount - (startCount + 1) + 1
    BY <2>1, FS_Interval
  <2> QED
    BY <1>1, <2>1, <2>2 DEF Accounting
<1>4. Cardinality(HandedOut) =
        Cardinality(DOMAIN inFlight) + Cardinality(completedLoops)
          - Cardinality(DOMAIN inFlight \cap completedLoops)
  BY <1>2, FS_Union DEF HandedOut
<1>5. Cardinality(DOMAIN inFlight \cap completedLoops) = 0
  BY <1>1, FS_EmptySet DEF Accounting
<1>6. Cardinality(DOMAIN inFlight) = 0
  BY <1>1, <1>2, <1>3, <1>4, <1>5 DEF Accounting, TypeOK
<1> QED
  BY <1>2, <1>6, FS_EmptySet

-----------------------------------------------------------------------------
(* The promises of the queue, for every number of samples and attempts.    *)

\* The state of the queue keeps its types; in particular no case is ever
\* given an attempt beyond --max-attempts (ray_queue.py, _retry_or_abandon).
THEOREM TypeCorrect == Spec => []TypeOK
<1>1. IInv => TypeOK
  BY DEF IInv
<1> QED
  BY <1>1, InductiveInvariant, PTL

\* Every loop number given out is in flight or counted, exactly once, whatever
\* reports and losses race with each other (report_completion,
\* requeue_stale_tasks).
THEOREM AccountingCorrect == Spec => []Accounting
<1>1. IInv => Accounting
  BY DEF IInv
<1> QED
  BY <1>1, InductiveInvariant, PTL

\* The condition on which the orchestrator ends the run (orchestrator.py,
\* _should_finish_external_loop) says that no worker holds a case.
THEOREM FinishedMeansNothingInFlight ==
    Spec => [](completedCount >= dispatchedCount => DOMAIN inFlight = {})
<1>1. IInv => (completedCount >= dispatchedCount => DOMAIN inFlight = {})
  BY AllCounted
<1> QED
  BY <1>1, InductiveInvariant, PTL

\* A sample waits, runs or is given up, in one copy only, although failures,
\* losses and late reports all put cases back.
THEOREM OneCopyCorrect == Spec => []OneCopy
<1>1. IInv => OneCopy
  BY DEF IInv
<1> QED
  BY <1>1, InductiveInvariant, PTL

\* Retries run before fresh cases, and fresh cases in sample order
\* (queue.insert(0, ...) in _retry_or_abandon).
THEOREM RetriesFirstCorrect == Spec => []RetriesFirst
<1>1. IInv => RetriesFirst
  BY DEF IInv
<1> QED
  BY <1>1, InductiveInvariant, PTL

\* Only a sample whose last attempt failed is given up.
THEOREM GivenUpCorrect == Spec => []GivenUpAfterLastAttempt
<1>1. IInv => GivenUpAfterLastAttempt
  BY DEF IInv
<1> QED
  BY <1>1, InductiveInvariant, PTL

-----------------------------------------------------------------------------
(* The run around the queue.                                               *)

\* A worker holds only loop numbers the queue has handed out.
HeldLoops ==
    \A w \in Workers :
        worker[w].st \in {"running", "saved"} => worker[w].loop \in HandedOut

\* With a stop reason the orchestrator is not about to ask the strategy.
StopIssuesNothing == stopReason => pc \notin {"start", "firstIssue", "issue"}

\* The inductive invariant of a run.
RInv ==
    /\ IInv
    /\ RunTypeOK
    /\ overdue <= dispatchedCount
    /\ HeldLoops
    /\ StopIssuesNothing
    /\ pc = "signalled" => stopSignal
    /\ EndIsQuiet

-----------------------------------------------------------------------------
(* Every step of a run is a step of the queue, or none.                    *)

\* The orchestrator's requeue, a step of the queue only if a case is overdue.
LEMMA RequeueSimulates ==
    ASSUME RInv, Requeue
    PROVE  [Next]_qvars
<1>1. CASE HasTimeout /\ \E l \in DOMAIN inFlight : l <= overdue
  <2>1. PICK l \in DOMAIN inFlight : l <= overdue
    BY <1>1
  <2>2. l \in startCount + 1 .. dispatchedCount /\ startCount \in Nat
    BY <2>1 DEF RInv, IInv, TypeOK, Accounting, HandedOut
  <2>3. overdue \in 1 .. dispatchedCount
    BY <2>1, <2>2 DEF RInv, IInv, TypeOK, RunTypeOK
  <2> QED
    BY <1>1, <2>3 DEF Requeue, Next
<1>2. CASE ~(HasTimeout /\ \E l \in DOMAIN inFlight : l <= overdue)
  BY <1>2 DEF Requeue, qvars
<1> QED
  BY <1>1, <1>2

\* A report for a loop the worker holds is one the queue expects.
LEMMA HeldReport ==
    ASSUME RInv, NEW w \in Workers, worker[w].st \in {"running", "saved"},
           NEW success \in BOOLEAN,
           IF worker[w].loop \in completedLoops
           THEN UNCHANGED qvars
           ELSE ReportCompletion(worker[w].loop, success)
    PROVE  [Next]_qvars
<1>1. worker[w].loop \in HandedOut
  BY DEF RInv, HeldLoops
<1> QED
  BY <1>1 DEF Next

\* The detailed run implements the queue's specification, step by step.
LEMMA Simulation ==
    ASSUME RInv, [RunNext]_rvars
    PROVE  [Next]_qvars
<1>1. CASE Start
  BY <1>1 DEF Start, Next
<1>2. CASE Issue
  BY <1>2 DEF Issue, StrategyIssues, Next
<1>3. CASE Requeue
  BY <1>3, RequeueSimulates
<1>4. CASE ReadSnapshot \/ ReadDrain \/ ReadCancelled \/ ReadStalledCancelled
           \/ ReadSignalled
  BY <1>4 DEF ReadSnapshot, ReadDrain, ReadCancelled, ReadStalledCancelled,
     ReadSignalled
<1>5. CASE SignalTarget \/ Signal
  BY <1>5 DEF SignalTarget, Signal, Next
<1>6. CASE Cancel \/ CancelStalled
  BY <1>6 DEF Cancel, CancelStalled, Next
<1>7. CASE CaseTimePasses \/ StallTimePasses
  BY <1>7 DEF CaseTimePasses, StallTimePasses
<1>8. ASSUME NEW w \in Workers, Fetch(w)
      PROVE  [Next]_qvars
  BY <1>8 DEF Fetch, Next
<1>9. ASSUME NEW w \in Workers, Report(w)
      PROVE  [Next]_qvars
  <2>1. worker[w].success \in BOOLEAN
    BY <1>9 DEF RInv, RunTypeOK, WorkerState, Report, Gone
  <2> QED
    BY <1>9, <2>1, HeldReport DEF Report
<1>10. ASSUME NEW w \in Workers, Refuse(w)
       PROVE  [Next]_qvars
  BY <1>10, HeldReport DEF Refuse
<1>11. ASSUME NEW w \in Workers,
              \/ \E success \in BOOLEAN : Save(w, success)
              \/ Leave(w) \/ Crash(w) \/ Restart(w)
       PROVE  [Next]_qvars
  BY <1>11 DEF Save, Leave, Crash, Restart
<1>12. CASE UNCHANGED rvars
  BY <1>12 DEF rvars
<1> QED
  BY <1>1, <1>2, <1>3, <1>4, <1>5, <1>6, <1>7, <1>8, <1>9, <1>10, <1>11, <1>12
  DEF RunNext, Orchestrator, Work

\* What no step of the queue undoes: loop numbers stay handed out, and the
\* stop signal stays set.
LEMMA QueueGrows ==
    ASSUME IInv, [Next]_qvars
    PROVE  /\ IInv'
           /\ dispatchedCount <= dispatchedCount'
           /\ HandedOut \subseteq HandedOut'
           /\ stopSignal => stopSignal'
<1>1. IInv'
  BY NextIInv
<1>2. /\ dispatchedCount \in Nat /\ startCount \in Nat
      /\ dispatchedCount' \in Nat /\ startCount' \in Nat
      /\ HandedOut = startCount + 1 .. dispatchedCount
      /\ HandedOut' = startCount' + 1 .. dispatchedCount'
  BY <1>1 DEF IInv, TypeOK, Accounting
<1>3. \/ dispatchedCount = 0
      \/ /\ startCount' = startCount
         /\ dispatchedCount' \in {dispatchedCount, dispatchedCount + 1}
  BY DEF Next, SetStartCounts, AddTask, GetNextTask, ReportCompletion,
     RequeueStale, SetStopSignal, CancelPending, qvars
<1>4. dispatchedCount <= dispatchedCount'
  BY <1>2, <1>3
<1>5. ASSUME NEW l \in startCount + 1 .. dispatchedCount
      PROVE  l \in startCount' + 1 .. dispatchedCount'
  <2>1. l \in Int /\ startCount + 1 <= l /\ l <= dispatchedCount
    BY <1>2
  <2>2. startCount' = startCount /\ dispatchedCount <= dispatchedCount'
    BY <1>2, <1>3, <1>4, <2>1
  <2> QED
    BY <1>2, <2>1, <2>2
<1>6. ASSUME NEW l \in HandedOut
      PROVE  l \in HandedOut'
  <2>1. l \in startCount + 1 .. dispatchedCount
    BY <1>2
  <2>2. l \in startCount' + 1 .. dispatchedCount'
    BY <1>5, <2>1
  <2> QED
    BY <1>2, <2>2
<1>7. stopSignal => stopSignal'
  BY DEF Next, SetStartCounts, AddTask, GetNextTask, ReportCompletion,
     RequeueStale, SetStopSignal, CancelPending, qvars
<1> QED
  BY <1>1, <1>4, <1>6, <1>7

-----------------------------------------------------------------------------
(* Every step of a run preserves the invariant.                            *)

\* The orchestrator's variables keep their types.
LEMMA OrchestratorTypes ==
    ASSUME RInv, IInv', Orchestrator
    PROVE  RunTypeOK'
<1>1. /\ RunTypeOK /\ TypeOK'
      /\ Len(queue) \in Nat /\ Len(queue') \in Nat
      /\ HighWater \in Nat
      /\ {t.sample : t \in abandoned} \subseteq Samples
  BY CaseTypes, WaterAssumption DEF RInv, IInv, TypeOK, Task
<1> USE <1>1 DEF RunTypeOK
<1>2. CASE Start
  BY <1>2 DEF Start, Learn, wvars
<1>3. CASE Issue
  <2>1. pc' \in {"firstIssue", "requeue", "issue", "drain"}
    BY <1>3 DEF Issue
  <2>2. room' \in 0 .. HighWater
    BY <1>3 DEF Issue
  <2>3. stopReason' \in BOOLEAN
    BY <1>3 DEF Issue
  <2> QED
    BY <1>3, <2>1, <2>2, <2>3 DEF Issue, wvars
<1>4. CASE Requeue
  BY <1>4 DEF Requeue, wvars
<1>5. CASE ReadSnapshot
  BY <1>5 DEF ReadSnapshot, Learn, wvars
<1>6. CASE SignalTarget \/ Cancel \/ CancelStalled \/ Signal \/ ReadSignalled
  BY <1>6 DEF SignalTarget, Cancel, CancelStalled, Signal, ReadSignalled, wvars
<1>7. CASE ReadDrain \/ ReadCancelled \/ ReadStalledCancelled
  BY <1>7 DEF ReadDrain, ReadCancelled, ReadStalledCancelled, TrackDrain,
     Conclude, qvars, wvars
<1> QED
  BY <1>2, <1>3, <1>4, <1>5, <1>6, <1>7 DEF Orchestrator

\* So do those of the clocks and the workers.
LEMMA WorkerTypes ==
    ASSUME RInv, IInv', NEW w \in Workers,
           \/ Work(w) \/ Refuse(w) \/ Leave(w) \/ Crash(w) \/ Restart(w)
    PROVE  RunTypeOK'
<1>1. RunTypeOK /\ TypeOK /\ TypeOK'
  BY DEF RInv, IInv
<1>2. /\ worker \in [Workers -> WorkerState] /\ worker[w] \in WorkerState
      /\ rows \in [Samples -> Seq(BOOLEAN)]
  BY <1>1 DEF RunTypeOK
<1>3. ASSUME worker' \in [Workers -> WorkerState],
             rows' \in [Samples -> Seq(BOOLEAN)],
             crashes' \in 0 .. MaxCrashes,
             UNCHANGED <<ovars, overdue>>
      PROVE  RunTypeOK'
  BY <1>1, <1>3 DEF RunTypeOK, ovars
<1>4. ASSUME NEW st \in {"idle"} \cup Gone,
             worker' = [worker EXCEPT ![w] = [st |-> st]]
      PROVE  worker' \in [Workers -> WorkerState]
  <2>1. [st |-> st] \in WorkerState
    BY DEF WorkerState
  <2> QED
    BY <1>2, <1>4, <2>1
<1>5. CASE Fetch(w)
  <2>1. CASE GetNextTask
    <3>1. queue[1] \in Task /\ dispatchedCount + 1 \in Nat
      <4>1. Len(queue) > 0
        BY <1>1, <2>1, GetNextTaskEffect
      <4> QED
        BY <1>1, <4>1, CaseTypes DEF TypeOK
    <3> DEFINE held == [st |-> "running", loop |-> dispatchedCount + 1,
                        sample |-> Head(queue).sample]
    <3>2. held \in WorkerState
      BY <3>1 DEF WorkerState, Task
    <3>3. CASE worker' = [worker EXCEPT ![w] = held]
      BY <1>1, <1>2, <1>3, <1>5, <3>2, <3>3 DEF Fetch, RunTypeOK
    <3>4. CASE worker' = [worker EXCEPT ![w] = [st |-> "stopped"]]
      BY <1>1, <1>2, <1>3, <1>4, <1>5, <3>4 DEF Fetch, RunTypeOK, Gone
    <3> QED
      BY <1>5, <3>3, <3>4 DEF Fetch
  <2>2. CASE ~GetNextTask
    BY <1>1, <1>2, <1>3, <1>4, <1>5, <2>2 DEF Fetch, RunTypeOK, Gone
  <2> QED
    BY <2>1, <2>2
<1>6. ASSUME NEW success \in BOOLEAN, Save(w, success)
      PROVE  RunTypeOK'
  <2>1. worker[w].loop \in Nat /\ worker[w].sample \in Samples
    BY <1>2, <1>6 DEF Save, WorkerState, Gone
  <2>2. [st |-> "saved", loop |-> worker[w].loop, success |-> success]
          \in WorkerState
    BY <2>1 DEF WorkerState
  <2>3. worker' \in [Workers -> WorkerState]
    BY <1>2, <1>6, <2>2 DEF Save
  <2>4. rows' \in [Samples -> Seq(BOOLEAN)]
    <3>1. Append(rows[worker[w].sample], success) \in Seq(BOOLEAN)
      BY <1>2, <2>1
    <3> QED
      BY <1>2, <1>6, <2>1, <3>1 DEF Save
  <2> QED
    BY <1>1, <1>3, <1>6, <2>3, <2>4 DEF Save, RunTypeOK
<1>7. CASE Report(w)
  BY <1>1, <1>2, <1>3, <1>4, <1>7 DEF Report, RunTypeOK, Idle
<1>8. CASE Refuse(w) \/ Leave(w) \/ Restart(w)
  BY <1>1, <1>2, <1>3, <1>4, <1>8 DEF Refuse, Leave, Restart, RunTypeOK, Idle,
     Gone
<1>9. CASE Crash(w)
  <2>1. crashes' \in 0 .. MaxCrashes
    BY <1>1, <1>9, CountAssumption DEF Crash, RunTypeOK
  <2> QED
    BY <1>2, <1>3, <1>4, <1>9, <2>1 DEF Crash, Gone
<1> QED
  BY <1>5, <1>6, <1>7, <1>8, <1>9 DEF Work

\* A clock changes one variable of the orchestrator's bookkeeping.
LEMMA ClockTypes ==
    ASSUME RInv, CaseTimePasses \/ StallTimePasses \/ UNCHANGED rvars
    PROVE  RunTypeOK'
<1>1. RunTypeOK /\ TypeOK /\ UNCHANGED qvars
  BY DEF RInv, IInv, CaseTimePasses, StallTimePasses, rvars
<1>2. TypeOK'
  BY <1>1 DEF TypeOK, qvars
<1>3. overdue' \in Nat
  <2>1. overdue' \in {overdue, overdue + 1}
    BY DEF CaseTimePasses, StallTimePasses, rvars
  <2> QED
    BY <1>1, <2>1 DEF RunTypeOK
<1>4. UNCHANGED <<pc, stopReason, room, known, stalledSize, worker, rows, crashes>>
  BY DEF CaseTimePasses, StallTimePasses, rvars, ovars, wvars
<1>5. stalledLong' \in BOOLEAN
  <2>1. stalledLong' \in {stalledLong, TRUE}
    BY DEF CaseTimePasses, StallTimePasses, rvars, ovars
  <2> QED
    BY <1>1, <2>1 DEF RunTypeOK
<1> QED
  BY <1>1, <1>2, <1>3, <1>4, <1>5 DEF RunTypeOK

\* Cases are overdue only after they were taken.
LEMMA OverdueStep ==
    ASSUME RInv, [RunNext]_rvars, dispatchedCount <= dispatchedCount', IInv'
    PROVE  overdue' <= dispatchedCount'
<1>1. /\ overdue \in Nat /\ dispatchedCount \in Nat /\ dispatchedCount' \in Nat
      /\ overdue <= dispatchedCount
  BY DEF RInv, RunTypeOK, IInv, TypeOK
<1>2. CASE CaseTimePasses
  BY <1>1, <1>2 DEF CaseTimePasses, qvars
<1>3. CASE UNCHANGED overdue
  BY <1>1, <1>3
<1>4. CaseTimePasses \/ UNCHANGED overdue
  BY DEF RunNext, Orchestrator, Work, Start, Issue, Requeue, ReadSnapshot,
     SignalTarget, ReadDrain, Cancel, ReadCancelled, CancelStalled,
     ReadStalledCancelled, Signal, ReadSignalled, StallTimePasses, Fetch, Leave,
     Refuse, Save, Report, Crash, Restart, rvars
<1> QED
  BY <1>2, <1>3, <1>4

\* What a worker takes the queue has handed out, and what it holds stays
\* handed out, whatever the queue counts as lost.
LEMMA HeldStep ==
    ASSUME RInv, [RunNext]_rvars, HandedOut \subseteq HandedOut'
    PROVE  HeldLoops'
<1>1. worker \in [Workers -> WorkerState] /\ HeldLoops
  BY DEF RInv, RunTypeOK
<1>2. CASE UNCHANGED worker
  BY <1>1, <1>2 DEF HeldLoops
<1>3. ASSUME NEW w \in Workers,
             NEW new, worker' = [worker EXCEPT ![w] = new],
             new.st \in {"running", "saved"} => new.loop \in HandedOut'
      PROVE  HeldLoops'
  BY <1>1, <1>3 DEF HeldLoops
<1>4. ASSUME NEW w \in Workers, Fetch(w)
      PROVE  HeldLoops'
  <2> DEFINE new == [st |-> "running", loop |-> dispatchedCount + 1,
                     sample |-> Head(queue).sample]
  <2>1. CASE GetNextTask /\ worker' = [worker EXCEPT ![w] = new]
    <3>1. dispatchedCount + 1 \in DOMAIN inFlight'
      BY <2>1 DEF GetNextTask
    <3>2. new.loop \in HandedOut'
      BY <3>1 DEF HandedOut
    <3> QED
      BY <1>3, <2>1, <3>2
  <2>2. CASE worker' = [worker EXCEPT ![w] = [st |-> "stopped"]]
    BY <1>3, <2>2
  <2> QED
    BY <1>4, <2>1, <2>2 DEF Fetch
<1>5. ASSUME NEW w \in Workers, NEW success \in BOOLEAN, Save(w, success)
      PROVE  HeldLoops'
  <2>1. worker[w].loop \in HandedOut'
    BY <1>1, <1>5 DEF HeldLoops, Save
  <2> QED
    BY <1>3, <1>5, <2>1 DEF Save
<1>6. ASSUME NEW w \in Workers,
             Report(w) \/ Refuse(w) \/ Leave(w) \/ Crash(w) \/ Restart(w)
      PROVE  HeldLoops'
  BY <1>3, <1>6 DEF Report, Refuse, Leave, Crash, Restart, Idle
<1>7. CASE Orchestrator
  BY <1>2, <1>7 DEF Orchestrator, Start, Issue, Requeue, ReadSnapshot,
     SignalTarget, ReadDrain, Cancel, ReadCancelled, CancelStalled,
     ReadStalledCancelled, Signal, ReadSignalled, wvars
<1>8. CASE CaseTimePasses \/ StallTimePasses \/ UNCHANGED rvars
  BY <1>2, <1>8 DEF CaseTimePasses, StallTimePasses, wvars, rvars
<1> QED
  BY <1>4, <1>5, <1>6, <1>7, <1>8 DEF RunNext, Work

\* The orchestrator turns to the strategy only without a stop reason, and goes
\* on elsewhere as soon as it has one.
LEMMA StopIssuesNothingStep ==
    ASSUME RInv, [RunNext]_rvars
    PROVE  StopIssuesNothing'
<1>1. StopIssuesNothing
  BY DEF RInv
<1>2. CASE UNCHANGED <<pc, stopReason>>
  BY <1>1, <1>2 DEF StopIssuesNothing
<1>3. CASE Start \/ Issue
  BY <1>1, <1>3 DEF StopIssuesNothing, Start, Issue
<1>4. CASE ReadSnapshot
  BY <1>1, <1>4 DEF StopIssuesNothing, ReadSnapshot, MayRefill
<1>5. CASE Requeue \/ SignalTarget \/ Cancel \/ CancelStalled \/ Signal
           \/ ReadSignalled
  BY <1>5 DEF StopIssuesNothing, Requeue, SignalTarget, Cancel, CancelStalled,
     Signal, ReadSignalled
<1>6. CASE ReadDrain \/ ReadCancelled \/ ReadStalledCancelled
  BY <1>6 DEF StopIssuesNothing, ReadDrain, ReadCancelled,
     ReadStalledCancelled, TrackDrain, Conclude
<1>7. CASE CaseTimePasses \/ StallTimePasses \/ UNCHANGED rvars
  BY <1>2, <1>7 DEF CaseTimePasses, StallTimePasses, ovars, rvars
<1>8. ASSUME NEW w \in Workers,
             Work(w) \/ Refuse(w) \/ Leave(w) \/ Crash(w) \/ Restart(w)
      PROVE  StopIssuesNothing'
  BY <1>2, <1>8 DEF Work, Fetch, Save, Report, Refuse, Leave, Crash, Restart,
     ovars
<1> QED
  BY <1>3, <1>4, <1>5, <1>6, <1>7, <1>8 DEF RunNext, Orchestrator

\* The orchestrator decides that the run is over from a snapshot in which
\* nothing waits and as many cases are counted as were handed out, and only
\* with the stop signal set: the snapshot is the state of the queue.
LEMMA FinishedIsQuiet ==
    ASSUME RInv, Finished, stopSignal
    PROVE  queue = <<>> /\ DOMAIN inFlight = {} /\ stopSignal
BY AllCounted DEF RInv, Finished

\* The run ends quietly, and stays so: a worker that asks is told to stop, and
\* every report that still comes is for a loop already counted.
LEMMA EndIsQuietStep ==
    ASSUME RInv, [RunNext]_rvars, stopSignal => stopSignal'
    PROVE  EndIsQuiet' /\ (pc = "signalled" => stopSignal)'
<1>1. EndIsQuiet /\ (pc = "signalled" => stopSignal) /\ HeldLoops
  BY DEF RInv
<1>2. CASE UNCHANGED <<pc, queue, inFlight, stopSignal>>
  BY <1>1, <1>2 DEF EndIsQuiet
<1>3. CASE Start \/ Issue \/ Requeue \/ ReadSnapshot \/ SignalTarget \/ Cancel
           \/ CancelStalled
  BY <1>3 DEF EndIsQuiet, Start, Issue, Requeue, ReadSnapshot, SignalTarget,
     Cancel, CancelStalled
<1>4. CASE Signal
  BY <1>4 DEF EndIsQuiet, Signal, SetStopSignal
<1>5. CASE ReadSignalled
  BY <1>1, <1>5, FinishedIsQuiet DEF EndIsQuiet, ReadSignalled, qvars
<1>6. ASSUME Conclude, UNCHANGED qvars
      PROVE  EndIsQuiet' /\ (pc = "signalled" => stopSignal)'
  <2>1. CASE pc' = "done"
    <3>1. Finished /\ stopSignal
      BY <1>6, <2>1 DEF Conclude, Finished
    <3> QED
      BY <1>6, <2>1, <3>1, FinishedIsQuiet DEF EndIsQuiet, qvars
  <2>2. CASE pc' # "done"
    BY <1>6, <2>2 DEF Conclude, EndIsQuiet
  <2> QED
    BY <2>1, <2>2
<1>7. CASE ReadDrain \/ ReadCancelled \/ ReadStalledCancelled
  <2>1. UNCHANGED qvars
    BY <1>7 DEF ReadDrain, ReadCancelled, ReadStalledCancelled
  <2>2. Conclude \/ pc' \in {"requeue", "stalled", "cancel"}
    BY <1>7 DEF ReadDrain, ReadCancelled, ReadStalledCancelled, TrackDrain
  <2> QED
    BY <1>6, <2>1, <2>2 DEF EndIsQuiet
<1>8. CASE CaseTimePasses \/ StallTimePasses \/ UNCHANGED rvars
  BY <1>2, <1>8 DEF CaseTimePasses, StallTimePasses, ovars, qvars, rvars
<1>9. ASSUME NEW w \in Workers,
             Work(w) \/ Refuse(w) \/ Leave(w) \/ Crash(w) \/ Restart(w)
      PROVE  EndIsQuiet' /\ (pc = "signalled" => stopSignal)'
  <2>1. UNCHANGED pc
    BY <1>9 DEF Work, Fetch, Save, Report, Refuse, Leave, Crash, Restart, ovars
  <2>2. CASE pc # "done"
    BY <1>1, <2>1, <2>2 DEF EndIsQuiet
  <2>3. CASE pc = "done"
    <3>1. stopSignal /\ DOMAIN inFlight = {}
      BY <1>1, <2>3 DEF EndIsQuiet
    <3>2. worker[w].st \in {"running", "saved"}
             => worker[w].loop \in completedLoops
      BY <1>1, <3>1 DEF HeldLoops, HandedOut
    <3>3. ~GetNextTask
      BY <3>1 DEF GetNextTask
    <3>4. UNCHANGED qvars
      BY <1>9, <3>2, <3>3 DEF Work, Fetch, Save, Report, Refuse, Leave, Crash,
         Restart
    <3> QED
      BY <1>2, <2>1, <3>4 DEF qvars
  <2> QED
    BY <2>2, <2>3
<1> QED
  BY <1>3, <1>4, <1>5, <1>7, <1>8, <1>9 DEF RunNext, Orchestrator

\* The invariant holds in the beginning.
LEMMA InitRInv == RunInit => RInv
<1> SUFFICES ASSUME RunInit PROVE RInv
  OBVIOUS
<1>1. IInv
  BY InitIInv DEF RunInit
<1>2. RunTypeOK
  <2>1. Idle \in WorkerState
    BY DEF Idle, WorkerState
  <2>2. rows \in [Samples -> Seq(BOOLEAN)]
    BY EmptySeq DEF RunInit
  <2>3. room \in 0 .. HighWater /\ crashes \in 0 .. MaxCrashes
    BY WaterAssumption, CountAssumption DEF RunInit
  <2> QED
    BY <1>1, <2>1, <2>2, <2>3 DEF RunInit, RunTypeOK, IInv
<1> QED
  BY <1>1, <1>2 DEF RunInit, Init, RInv, HeldLoops, Idle, StopIssuesNothing,
     EndIsQuiet, IInv, TypeOK

\* Every step of a run preserves the invariant.
LEMMA NextRInv == RInv /\ [RunNext]_rvars => RInv'
<1> SUFFICES ASSUME RInv, [RunNext]_rvars PROVE RInv'
  OBVIOUS
<1>1. /\ IInv'
      /\ dispatchedCount <= dispatchedCount'
      /\ HandedOut \subseteq HandedOut'
      /\ stopSignal => stopSignal'
  BY Simulation, QueueGrows DEF RInv
<1>2. RunTypeOK'
  BY <1>1, OrchestratorTypes, WorkerTypes, ClockTypes DEF RunNext
<1> QED
  BY <1>1, <1>2, OverdueStep, HeldStep, StopIssuesNothingStep, EndIsQuietStep
  DEF RInv

-----------------------------------------------------------------------------
(* The promises of a run.                                                  *)

\* Every behaviour of a run keeps the invariant.
THEOREM RunInvariant == RunSpec => []RInv
<1> QED
  BY InitRInv, NextRInv, PTL DEF RunSpec

\* A run calls the queue only as the queue's specification allows: worker_loop
\* and orchestrator never report a loop that was not handed out, never set
\* start numbers late, and declare only cases in flight lost.
THEOREM RunImplementsQueue == RunSpec => ImplementsQueue
<1>1. RunInit => Init
  BY DEF RunInit
<1>2. RInv /\ [RunNext]_rvars => [Next]_qvars
  BY Simulation
<1> QED
  BY <1>1, <1>2, RunInvariant, PTL DEF RunSpec, Spec, ImplementsQueue

\* The state of a run keeps its types.
THEOREM RunTypeCorrect == RunSpec => []RunTypeOK
<1>1. RInv => RunTypeOK
  BY DEF RInv
<1> QED
  BY <1>1, RunInvariant, PTL

\* In a run too every loop number is in flight or counted, exactly once.
THEOREM RunAccounting == RunSpec => []Accounting
<1> QED
  BY RunImplementsQueue, AccountingCorrect, PTL DEF ImplementsQueue

\* In a run too a sample exists in one copy.
THEOREM RunOneCopy == RunSpec => []OneCopy
<1> QED
  BY RunImplementsQueue, OneCopyCorrect, PTL DEF ImplementsQueue

\* Whatever number of workers crash, hang or report late, the orchestrator
\* leaves its loop (orchestrator.py, _should_finish_external_loop) only when
\* no case waits, none is in the hands of a worker, and workers are told to
\* stop.
THEOREM EndIsQuietCorrect == RunSpec => []EndIsQuiet
<1>1. RInv => EndIsQuiet
  BY DEF RInv
<1> QED
  BY <1>1, RunInvariant, PTL

\* No case is issued once there is a stop reason (orchestrator.py, "Once
\* stopping, issue nothing more").
THEOREM IssuesNothingCorrect == RunSpec => IssuesNothingAfterStop
<1>1. ASSUME RInv, [RunNext]_rvars
      PROVE  [stopReason => added' = added]_rvars
  <2> SUFFICES ASSUME RunNext, stopReason PROVE added' = added
    BY <1>1
  <2>1. ~Start /\ ~Issue
    BY <1>1 DEF RInv, StopIssuesNothing, Start, Issue
  <2> QED
    BY <2>1 DEF RunNext, Orchestrator, Work, Requeue, ReadSnapshot,
       SignalTarget, ReadDrain, Cancel, ReadCancelled, CancelStalled,
       ReadStalledCancelled, Signal, ReadSignalled, CaseTimePasses,
       StallTimePasses, Fetch, Leave, Refuse, Save, Report, Crash, Restart,
       SetStopSignal, RequeueStale, CancelPending, GetNextTask,
       ReportCompletion, qvars
<1> QED
  BY <1>1, RunInvariant, PTL DEF RunSpec, IssuesNothingAfterStop

-----------------------------------------------------------------------------
(* What the workers bring and what the strategy sees of it.                *)

Running(s) == {w \in Workers : worker[w].st = "running" /\ worker[w].sample = s}

\* The attempts of a sample that brought a row or may still bring one.
Used(s) == Len(rows[s]) + Cardinality(Running(s))

\* A worker runs a sample that was issued, and the one its loop stands for
\* while the queue has not counted that loop.
RunningHolds ==
    \A w \in Workers :
        worker[w].st = "running" =>
            /\ worker[w].sample <= added
            /\ worker[w].loop \in DOMAIN inFlight =>
                  inFlight[worker[w].loop].sample = worker[w].sample

KnownGivenUp == known \subseteq {t.sample : t \in abandoned}

RowsOfAdded == \A s \in Samples : rows[s] # <<>> => s <= added

\* No sample has more rows, those its workers may still bring included, than
\* attempts handed out, late workers of cases counted as lost included.
AttemptsUsed ==
    \A s \in Samples :
        /\ IsFiniteSet(Running(s))
        /\ Used(s) <= MaxAttempts
        /\ \A i \in DOMAIN queue :
              queue[i].sample = s => Used(s) <= queue[i].attempt
        /\ \A l \in DOMAIN inFlight :
              inFlight[l].sample = s => Used(s) <= inFlight[l].attempt + 1

\* The inductive invariant of the dataset.
DataInv ==
    /\ RunningHolds
    /\ KnownGivenUp
    /\ RowsOfAdded
    /\ AttemptsUsed

\* The kinds of steps of a run, as the queue, the workers and the dataset see
\* them: the workers are not involved, one takes a case, one ends a case that
\* was in flight, one stores a row, or one comes, goes or repeats itself.
Kept == UNCHANGED <<queue, inFlight, completedLoops, abandoned, added>>

Quiet ==
    /\ UNCHANGED <<worker, rows>>
    /\ \/ Kept
       \/ AddTask
       \/ RequeueStale(overdue)
       \/ (CancelPending /\ pc \in {"cancel", "stalled"})

Takes(w) ==
    /\ worker[w] = Idle
    /\ GetNextTask
    /\ worker' = [worker EXCEPT ![w] =
                     [st |-> "running", loop |-> dispatchedCount + 1,
                      sample |-> Head(queue).sample]]
    /\ UNCHANGED rows

Rests(w) ==
    \E st \in {"idle"} \cup Gone : worker' = [worker EXCEPT ![w] = [st |-> st]]

Ends(w, success) ==
    /\ \/ (worker[w].st = "saved" /\ success = worker[w].success)
       \/ (worker[w].st = "running" /\ MayMisroute /\ success = FALSE)
    /\ worker[w].loop \in DOMAIN inFlight
    /\ ReportCompletion(worker[w].loop, success)
    /\ Rests(w)
    /\ UNCHANGED rows

Learns == known' \in {known, known \cup {t.sample : t \in abandoned}}

\* Every step of a run is of one of these kinds.
LEMMA StepKinds ==
    ASSUME RInv, [RunNext]_rvars
    PROVE  /\ Learns
           /\ \/ Quiet
              \/ \E w \in Workers :
                    \/ Takes(w)
                    \/ \E success \in BOOLEAN : Ends(w, success) \/ Save(w, success)
                    \/ (Rests(w) /\ Kept /\ UNCHANGED rows)
<1>1. HeldLoops /\ RunTypeOK
  BY DEF RInv
<1>2. CASE Start
  <2>1. Learns /\ UNCHANGED <<worker, rows>>
    BY <1>2 DEF Start, Learn, Learns, wvars
  <2>2. Kept
    BY <1>2 DEF Start, SetStartCounts, Kept, qvars
  <2> QED
    BY <2>1, <2>2 DEF Quiet
<1>3. CASE Issue
  <2>1. Learns /\ UNCHANGED <<worker, rows>>
    BY <1>3 DEF Issue, Learns, wvars
  <2>2. Kept \/ AddTask
    BY <1>3 DEF Issue, StrategyIssues, Kept, qvars
  <2> QED
    BY <2>1, <2>2 DEF Quiet
<1>4. CASE Requeue
  <2>1. Learns /\ UNCHANGED <<worker, rows>>
    BY <1>4 DEF Requeue, Learns, wvars
  <2>2. Kept \/ RequeueStale(overdue)
    BY <1>4 DEF Requeue, Kept, qvars
  <2> QED
    BY <2>1, <2>2 DEF Quiet
<1>5. CASE ReadSnapshot
  <2>1. Learns
    BY <1>5 DEF ReadSnapshot, Learn, Learns
  <2>2. Kept /\ UNCHANGED <<worker, rows>>
    BY <1>5 DEF ReadSnapshot, Kept, qvars, wvars
  <2> QED
    BY <2>1, <2>2 DEF Quiet
<1>6. CASE SignalTarget \/ Signal
  <2>1. Learns /\ Kept /\ UNCHANGED <<worker, rows>>
    BY <1>6 DEF SignalTarget, Signal, SetStopSignal, Learns, Kept, wvars
  <2> QED
    BY <2>1 DEF Quiet
<1>7. CASE Cancel \/ CancelStalled
  <2>1. /\ Learns /\ UNCHANGED <<worker, rows>>
        /\ CancelPending /\ pc \in {"cancel", "stalled"}
    BY <1>7 DEF Cancel, CancelStalled, Learns, wvars
  <2> QED
    BY <2>1 DEF Quiet
<1>8. CASE ReadDrain \/ ReadCancelled \/ ReadStalledCancelled \/ ReadSignalled
  <2>1. Learns /\ Kept /\ UNCHANGED <<worker, rows>>
    BY <1>8 DEF ReadDrain, ReadCancelled, ReadStalledCancelled, ReadSignalled,
       Learns, Kept, qvars, wvars
  <2> QED
    BY <2>1 DEF Quiet
<1>9. CASE CaseTimePasses \/ StallTimePasses \/ UNCHANGED rvars
  <2>1. Learns /\ Kept /\ UNCHANGED <<worker, rows>>
    BY <1>9 DEF CaseTimePasses, StallTimePasses, Learns, Kept, rvars, qvars,
       ovars, wvars
  <2> QED
    BY <2>1 DEF Quiet
<1>10. ASSUME NEW w \in Workers, Fetch(w)
       PROVE  Learns /\ (Takes(w) \/ (Rests(w) /\ Kept /\ UNCHANGED rows))
  BY <1>10 DEF Fetch, Takes, Rests, Kept, Gone, ovars, qvars, Learns
<1>11. ASSUME NEW w \in Workers, Leave(w) \/ Crash(w) \/ Restart(w)
       PROVE  Learns /\ Rests(w) /\ Kept /\ UNCHANGED rows
  BY <1>11 DEF Leave, Crash, Restart, Rests, Kept, Gone, Idle, ovars, qvars,
     Learns
<1>12. ASSUME NEW w \in Workers, NEW success \in BOOLEAN, Save(w, success)
       PROVE  Learns
  BY <1>12 DEF Save, ovars, Learns
<1>13. ASSUME NEW w \in Workers, Report(w) \/ Refuse(w)
       PROVE  /\ Learns
              /\ \/ \E success \in BOOLEAN : Ends(w, success)
                 \/ (Rests(w) /\ Kept /\ UNCHANGED rows)
  <2>1. Learns /\ Rests(w) /\ UNCHANGED rows
    BY <1>13 DEF Report, Refuse, Rests, Gone, Idle, ovars, Learns
  <2>2. worker[w].st \in {"running", "saved"}
    BY <1>13 DEF Report, Refuse
  <2>3. worker[w].loop \in DOMAIN inFlight \/ worker[w].loop \in completedLoops
    BY <1>1, <2>2 DEF HeldLoops, HandedOut
  <2>4. CASE worker[w].loop \in completedLoops
    BY <1>13, <2>1, <2>4 DEF Report, Refuse, Kept, qvars
  <2>5. CASE worker[w].loop \notin completedLoops /\ Report(w)
    <3>1. worker[w].st = "saved" /\ ReportCompletion(worker[w].loop, worker[w].success)
      BY <2>5 DEF Report
    <3>2. worker[w].success \in BOOLEAN
      BY <1>1, <3>1 DEF RunTypeOK, WorkerState, Gone
    <3>3. Ends(w, worker[w].success)
      BY <2>1, <2>3, <2>5, <3>1 DEF Ends
    <3> QED
      BY <2>1, <3>2, <3>3
  <2>6. CASE worker[w].loop \notin completedLoops /\ Refuse(w)
    <3>1. Ends(w, FALSE)
      BY <2>1, <2>3, <2>6 DEF Ends, Refuse
    <3> QED
      BY <2>1, <3>1
  <2> QED
    BY <1>13, <2>4, <2>5, <2>6
<1> QED
  BY <1>2, <1>3, <1>4, <1>5, <1>6, <1>7, <1>8, <1>9, <1>10, <1>11, <1>12, <1>13
  DEF RunNext, Orchestrator, Work

\* The parts of a run that the invariants compare have numbers for types.
LEMMA RunTypes ==
    ASSUME RInv
    PROVE  /\ TypeOK /\ OneCopy /\ KnownSamples /\ RunTypeOK
           /\ added \in Nat /\ MaxAttempts \in Nat
           /\ worker \in [Workers -> WorkerState]
           /\ rows \in [Samples -> Seq(BOOLEAN)]
           /\ \A s \in Samples : s \in Nat
           /\ \A w \in Workers : worker[w].st = "running" =>
                 worker[w].loop \in Nat /\ worker[w].sample \in Samples
           /\ \A w \in Workers : worker[w].st = "saved" =>
                 worker[w].loop \in Nat /\ worker[w].success \in BOOLEAN
           /\ \A i \in DOMAIN queue :
                 queue[i].sample \in Samples /\ queue[i].attempt \in Nat
           /\ \A l \in DOMAIN inFlight :
                 /\ inFlight[l].sample \in Samples /\ inFlight[l].attempt \in Nat
                 /\ inFlight[l].attempt + 1 <= MaxAttempts
<1>1. /\ TypeOK /\ OneCopy /\ KnownSamples /\ RunTypeOK
      /\ added \in Nat /\ MaxAttempts \in Nat
      /\ worker \in [Workers -> WorkerState]
      /\ rows \in [Samples -> Seq(BOOLEAN)]
      /\ \A s \in Samples : s \in Nat
  BY MaxSamplesAssumption, MaxAttemptsAssumption
  DEF RInv, IInv, RunTypeOK, TypeOK, Samples
<1>2. \A w \in Workers : worker[w] \in WorkerState
  BY <1>1
<1>3. /\ \A w \in Workers : worker[w].st = "running" =>
            worker[w].loop \in Nat /\ worker[w].sample \in Samples
      /\ \A w \in Workers : worker[w].st = "saved" =>
            worker[w].loop \in Nat /\ worker[w].success \in BOOLEAN
  BY <1>2 DEF WorkerState, Gone
<1>4. \A t \in Task : /\ t.sample \in Samples /\ t.attempt \in Nat
                      /\ t.attempt + 1 <= MaxAttempts
  BY MaxAttemptsAssumption DEF Task
<1> QED
  BY <1>1, <1>3, <1>4, CaseTypes

\* The attempts of a sample are counted by a number, which is 0 before the
\* sample is issued.
LEMMA UsedIsNat ==
    ASSUME RInv, DataInv, NEW s \in Samples
    PROVE  /\ Len(rows[s]) \in Nat /\ Cardinality(Running(s)) \in Nat
           /\ Used(s) \in Nat
           /\ s > added => Used(s) = 0
<1>1. rows[s] \in Seq(BOOLEAN) /\ s \in Nat /\ added \in Nat
  BY RunTypes
<1>2. Len(rows[s]) \in Nat
  BY <1>1, LenProperties
<1>3. IsFiniteSet(Running(s)) /\ Cardinality(Running(s)) \in Nat
  BY FS_CardinalityType DEF DataInv, AttemptsUsed
<1>4. ASSUME s > added PROVE Len(rows[s]) = 0 /\ Cardinality(Running(s)) = 0
  <2>1. rows[s] = <<>>
    BY <1>1, <1>4 DEF DataInv, RowsOfAdded
  <2>2. Running(s) = {}
    <3>1. ASSUME NEW w \in Workers,
                 worker[w].st = "running", worker[w].sample = s
          PROVE  FALSE
      <4>1. s <= added
        BY <3>1 DEF DataInv, RunningHolds
      <4> QED
        BY <1>1, <1>4, <4>1
    <3> QED
      BY <3>1 DEF Running
  <2> QED
    BY <2>1, <2>2, FS_EmptySet
<1> DEFINE k == Cardinality(Running(s))
           n == Len(rows[s])
<1>5. /\ Used(s) = n + k /\ n \in Nat /\ k \in Nat
      /\ s > added => n = 0 /\ k = 0
  BY <1>2, <1>3, <1>4 DEF Used
<1> HIDE DEF k, n
<1>6. Used(s) \in Nat /\ (s > added => Used(s) = 0)
  BY <1>5
<1> QED
  BY <1>2, <1>3, <1>6

\* Steps that bring no row and give no case to a worker: what waits afterwards
\* waited before, was in flight and failed, or is new.
LEMMA NothingUsed ==
    ASSUME RInv, RInv', DataInv, Learns, UNCHANGED rows,
           \A w \in Workers : worker'[w].st = "running" => worker'[w] = worker[w],
           added <= added',
           \A i \in DOMAIN queue' :
              \/ \E j \in DOMAIN queue : queue'[i] = queue[j]
              \/ \E l \in DOMAIN inFlight :
                    /\ queue'[i].sample = inFlight[l].sample
                    /\ queue'[i].attempt = inFlight[l].attempt + 1
              \/ queue'[i].sample > added,
           \A l \in DOMAIN inFlight' :
              l \in DOMAIN inFlight /\ inFlight'[l] = inFlight[l],
           abandoned \subseteq abandoned'
    PROVE  DataInv'
<1>1. /\ added \in Nat /\ added' \in Nat /\ MaxAttempts \in Nat
      /\ \A s \in Samples : s \in Nat
      /\ \A i \in DOMAIN queue' :
            queue'[i].sample \in Samples /\ queue'[i].attempt \in Nat
      /\ \A w \in Workers : worker'[w].st = "running" =>
            worker'[w].sample \in Samples
  <2>1. added \in Nat /\ MaxAttempts \in Nat /\ \A s \in Samples : s \in Nat
    BY RunTypes
  <2>2. added' \in Nat
    BY MaxSamplesAssumption DEF RInv, IInv, TypeOK
  <2>3. \A i \in DOMAIN queue' :
            queue'[i].sample \in Samples /\ queue'[i].attempt \in Nat
    <3>1. queue' \in Seq(Task)
      BY DEF RInv, IInv, TypeOK
    <3>2. \A i \in DOMAIN queue' : queue'[i] \in Task
      BY <3>1
    <3> QED
      BY <3>2, MaxAttemptsAssumption DEF Task
  <2>4. \A w \in Workers : worker'[w].st = "running" =>
            worker'[w].sample \in Samples
    BY RunTypes
  <2> QED
    BY <2>1, <2>2, <2>3, <2>4
<1>2. RunningHolds'
  <2>1. ASSUME NEW w \in Workers, worker'[w].st = "running"
        PROVE  /\ worker'[w].sample <= added'
               /\ worker'[w].loop \in DOMAIN inFlight' =>
                     inFlight'[worker'[w].loop].sample = worker'[w].sample
    <3>1. /\ worker'[w] = worker[w] /\ worker[w].st = "running"
          /\ worker[w].sample \in Nat
      BY <1>1, <2>1
    <3>2. /\ worker[w].sample <= added
          /\ worker[w].loop \in DOMAIN inFlight =>
                inFlight[worker[w].loop].sample = worker[w].sample
      BY <3>1 DEF DataInv, RunningHolds
    <3>3. worker[w].sample <= added'
      BY <1>1, <3>1, <3>2
    <3> QED
      BY <3>1, <3>2, <3>3
  <2> QED
    BY <2>1 DEF RunningHolds
<1>3. KnownGivenUp'
  BY DEF DataInv, KnownGivenUp, Learns
<1>4. RowsOfAdded'
  <2>1. ASSUME NEW s \in Samples, rows[s] # <<>> PROVE s <= added'
    <3>1. s <= added /\ s \in Nat
      BY <1>1, <2>1 DEF DataInv, RowsOfAdded
    <3> QED
      BY <1>1, <3>1
  <2> QED
    BY <2>1 DEF RowsOfAdded
<1>5. AttemptsUsed'
  <2> SUFFICES ASSUME NEW s \in Samples
               PROVE  /\ IsFiniteSet(Running(s)')
                      /\ Used(s)' <= MaxAttempts
                      /\ \A i \in DOMAIN queue' :
                            queue'[i].sample = s => Used(s)' <= queue'[i].attempt
                      /\ \A l \in DOMAIN inFlight' :
                            inFlight'[l].sample = s =>
                               Used(s)' <= inFlight'[l].attempt + 1
    BY DEF AttemptsUsed
  <2>1. Running(s)' \in SUBSET Running(s)
    BY DEF Running
  <2>2. IsFiniteSet(Running(s)) /\ Used(s) <= MaxAttempts
    BY DEF DataInv, AttemptsUsed
  <2>3. /\ IsFiniteSet(Running(s)')
        /\ Cardinality(Running(s)') <= Cardinality(Running(s))
        /\ Cardinality(Running(s)') \in Nat
    <3> DEFINE U == Running(s)
               V == Running(s)'
    <3>1. V \in SUBSET U /\ IsFiniteSet(U)
      BY <2>1, <2>2
    <3> HIDE DEF U, V
    <3>2. IsFiniteSet(V) /\ Cardinality(V) <= Cardinality(U)
             /\ Cardinality(V) \in Nat
      BY <3>1, FS_Subset, FS_CardinalityType
    <3> QED
      BY <3>2 DEF U, V
  <2>4. Used(s)' <= Used(s) /\ Used(s)' \in Nat /\ Used(s) \in Nat
    <3> DEFINE k == Cardinality(Running(s))
               l == Cardinality(Running(s)')
               n == Len(rows[s])
    <3>1. /\ l <= k /\ l \in Nat /\ k \in Nat /\ n \in Nat
          /\ Used(s) = n + k /\ Used(s)' = n + l
      BY <2>3, UsedIsNat DEF Used
    <3> HIDE DEF k, l, n
    <3> QED
      BY <3>1
  <2> DEFINE u == Used(s)
             v == Used(s)'
  <2>5. v <= u /\ v \in Nat /\ u \in Nat /\ u <= MaxAttempts
    BY <2>2, <2>4
  <2>6. /\ \A i \in DOMAIN queue :
              queue[i].sample = s => u <= queue[i].attempt /\ queue[i].attempt \in Nat
        /\ \A l \in DOMAIN inFlight :
              inFlight[l].sample = s =>
                 u <= inFlight[l].attempt + 1 /\ inFlight[l].attempt \in Nat
    BY RunTypes DEF DataInv, AttemptsUsed
  <2>7. s > added => u = 0
    BY UsedIsNat
  <2> HIDE DEF u, v
  <2>8. v <= MaxAttempts
    BY <1>1, <2>5
  <2>9. ASSUME NEW i \in DOMAIN queue', queue'[i].sample = s
        PROVE  v <= queue'[i].attempt
    <3>1. CASE \E j \in DOMAIN queue : queue'[i] = queue[j]
      <4>1. PICK j \in DOMAIN queue : queue'[i] = queue[j]
        BY <3>1
      <4>2. u <= queue'[i].attempt /\ queue'[i].attempt \in Nat
        BY <2>6, <2>9, <4>1
      <4> QED
        BY <2>5, <4>2
    <3>2. CASE \E l \in DOMAIN inFlight :
                  /\ queue'[i].sample = inFlight[l].sample
                  /\ queue'[i].attempt = inFlight[l].attempt + 1
      <4>1. PICK l \in DOMAIN inFlight :
                  /\ queue'[i].sample = inFlight[l].sample
                  /\ queue'[i].attempt = inFlight[l].attempt + 1
        BY <3>2
      <4>2. u <= queue'[i].attempt /\ queue'[i].attempt \in Nat
        BY <2>6, <2>9, <4>1
      <4> QED
        BY <2>5, <4>2
    <3>3. CASE queue'[i].sample > added
      <4>1. u = 0 /\ queue'[i].attempt \in Nat
        BY <1>1, <2>7, <2>9, <3>3
      <4> QED
        BY <2>5, <4>1
    <3> QED
      BY <3>1, <3>2, <3>3
  <2>10. ASSUME NEW l \in DOMAIN inFlight', inFlight'[l].sample = s
         PROVE  v <= inFlight'[l].attempt + 1
    <3>1. /\ l \in DOMAIN inFlight /\ inFlight'[l] = inFlight[l]
          /\ u <= inFlight[l].attempt + 1 /\ inFlight[l].attempt \in Nat
      BY <2>6, <2>10
    <3> QED
      BY <2>5, <3>1
  <2> QED
    BY <2>3, <2>8, <2>9, <2>10 DEF v
<1> QED
  BY <1>2, <1>3, <1>4, <1>5 DEF DataInv

\* What a step of the queue without a worker taking a case does to the cases.
Moves ==
    /\ added <= added'
    /\ \A i \in DOMAIN queue' :
          \/ \E j \in DOMAIN queue : queue'[i] = queue[j]
          \/ \E l \in DOMAIN inFlight :
                /\ queue'[i].sample = inFlight[l].sample
                /\ queue'[i].attempt = inFlight[l].attempt + 1
          \/ queue'[i].sample > added
    /\ \A l \in DOMAIN inFlight' :
          l \in DOMAIN inFlight /\ inFlight'[l] = inFlight[l]
    /\ abandoned \subseteq abandoned'

\* A new sample joins the cases that wait.
LEMMA AddTaskMoves ==
    ASSUME RInv, AddTask
    PROVE  /\ Moves
           /\ \A j \in DOMAIN queue : \E i \in DOMAIN queue' : queue'[i] = queue[j]
           /\ \E i \in DOMAIN queue' : queue'[i].sample = added + 1
<1> DEFINE new == [sample |-> added + 1, attempt |-> 0]
<1>1. /\ queue \in Seq(Task) /\ added \in Nat /\ added < MaxSamples
      /\ added' = added + 1 /\ queue' = Append(queue, new)
      /\ inFlight' = inFlight /\ abandoned' = abandoned
  BY RunTypes DEF AddTask, TypeOK
<1>2. /\ Len(queue) \in Nat
      /\ DOMAIN queue = 1 .. Len(queue) /\ DOMAIN queue' = 1 .. Len(queue) + 1
      /\ \A i \in 1 .. Len(queue) : queue'[i] = queue[i]
      /\ queue'[Len(queue) + 1] = new
  <2> HIDE DEF new
  <2> QED
    BY <1>1
<1>3. \A j \in DOMAIN queue : j \in DOMAIN queue' /\ queue'[j] = queue[j]
  BY <1>2
<1>4. /\ Len(queue) + 1 \in DOMAIN queue'
      /\ queue'[Len(queue) + 1].sample = added + 1
  BY <1>2
<1>5. ASSUME NEW i \in DOMAIN queue'
      PROVE  \/ \E j \in DOMAIN queue : queue'[i] = queue[j]
             \/ queue'[i].sample > added
  <2>1. i \in 1 .. Len(queue) \/ i = Len(queue) + 1
    BY <1>2
  <2>2. added + 1 > added
    BY <1>1
  <2> QED
    BY <1>2, <1>4, <2>1, <2>2
<1>6. added <= added'
  BY <1>1
<1> QED
  BY <1>1, <1>3, <1>4, <1>5, <1>6 DEF Moves

\* The cases of some loops are finished, and put back or given up if they are
\* retried at all.
LEMMA FinishMoves ==
    ASSUME RInv, NEW loops \in SUBSET DOMAIN inFlight, FinishLoops(loops)
    PROVE  /\ Moves
           /\ DOMAIN inFlight' = DOMAIN inFlight \ loops
           /\ \A j \in DOMAIN queue : \E i \in DOMAIN queue' : queue'[i] = queue[j]
           /\ RetryOrAbandon(loops) =>
                 \A l \in loops :
                    \/ \E i \in DOMAIN queue' :
                          queue'[i].sample = inFlight[l].sample
                    \/ inFlight[l] \in abandoned'
<1>1. TypeOK /\ IsFiniteSet(loops)
  BY FiniteLoops, FS_Subset DEF RInv, IInv
<1>2. /\ DOMAIN inFlight' = DOMAIN inFlight \ loops
      /\ \A l \in DOMAIN inFlight' : l \in DOMAIN inFlight
                                        /\ inFlight'[l] = inFlight[l]
  BY <1>1 DEF FinishLoops, Restrict
<1>3. added' = added /\ added \in Nat
  BY RunTypes DEF FinishLoops
<1>4. CASE UNCHANGED <<queue, retriedCount, abandoned>> /\ ~RetryOrAbandon(loops)
  BY <1>2, <1>3, <1>4 DEF Moves
<1>5. CASE RetryOrAbandon(loops)
  <2>1. /\ \A i \in DOMAIN queue' :
              \/ \E j \in DOMAIN queue : queue'[i] = queue[j]
              \/ \E l \in loops :
                    /\ queue'[i].sample = inFlight[l].sample
                    /\ queue'[i].attempt = inFlight[l].attempt + 1
        /\ \A j \in DOMAIN queue : \E i \in DOMAIN queue' : queue'[i] = queue[j]
        /\ \A l \in loops :
              \/ \E i \in DOMAIN queue' : queue'[i].sample = inFlight[l].sample
              \/ inFlight[l] \in abandoned'
        /\ abandoned \subseteq abandoned'
    BY <1>1, <1>5, RetryOrAbandonKeeps
  <2>2. Moves
    <3>1. added <= added'
      BY <1>3
    <3> QED
      BY <1>2, <2>1, <3>1 DEF Moves
  <2> QED
    BY <1>2, <2>1, <2>2
<1> QED
  BY <1>4, <1>5 DEF FinishLoops

\* An overdue round and a report finish loops.
LEMMA Finishing ==
    ASSUME RInv
    PROVE  /\ RequeueStale(overdue) =>
                LET stale == {l \in DOMAIN inFlight : l <= overdue}
                IN  FinishLoops(stale) /\ RetryOrAbandon(stale)
           /\ \A loop \in DOMAIN inFlight, success \in BOOLEAN :
                 ReportCompletion(loop, success) =>
                    /\ FinishLoops({loop})
                    /\ ~success /\ MaxAttempts > 1 => RetryOrAbandon({loop})
<1>1. ASSUME RequeueStale(overdue)
      PROVE  LET stale == {l \in DOMAIN inFlight : l <= overdue}
             IN  FinishLoops(stale) /\ RetryOrAbandon(stale)
  BY <1>1 DEF RequeueStale, WithoutStale, StaleCounted, FinishLoops
<1>2. ASSUME NEW loop \in DOMAIN inFlight, NEW success \in BOOLEAN,
             ReportCompletion(loop, success)
      PROVE  /\ FinishLoops({loop})
             /\ ~success /\ MaxAttempts > 1 => RetryOrAbandon({loop})
  <2>1. Cardinality({loop}) = 1
    BY FS_Singleton
  <2> QED
    BY <1>2, <2>1 DEF ReportCompletion, FinishLoops
<1> QED
  BY <1>1, <1>2

\* Steps without a worker hand out no case.
LEMMA QuietMoves ==
    ASSUME RInv, Quiet
    PROVE  Moves
<1>1. CASE Kept
  <2>1. added <= added'
    BY <1>1, RunTypes DEF Kept
  <2> QED
    BY <1>1, <2>1 DEF Kept, Moves
<1>2. CASE AddTask
  BY <1>2, AddTaskMoves
<1>3. CASE RequeueStale(overdue)
  <2>1. {l \in DOMAIN inFlight : l <= overdue} \in SUBSET DOMAIN inFlight
    OBVIOUS
  <2>2. FinishLoops({l \in DOMAIN inFlight : l <= overdue})
    BY <1>3, Finishing
  <2> QED
    BY <2>1, <2>2, FinishMoves
<1>4. CASE CancelPending
  <2>1. DOMAIN queue' = {} /\ added <= added'
    BY <1>4, RunTypes DEF CancelPending
  <2> QED
    BY <1>4, <2>1 DEF CancelPending, Moves
<1> QED
  BY <1>1, <1>2, <1>3, <1>4 DEF Quiet

\* A worker that comes, goes or ends a case runs none afterwards.
LEMMA RestsRuns ==
    ASSUME RInv, NEW w \in Workers, Rests(w)
    PROVE  /\ \A v \in Workers : v # w => worker'[v] = worker[v]
           /\ worker'[w].st \notin {"running", "saved"}
<1>1. PICK st \in {"idle"} \cup Gone : worker' = [worker EXCEPT ![w] = [st |-> st]]
  BY DEF Rests
<1>2. worker \in [Workers -> WorkerState]
  BY RunTypes
<1>3. worker'[w] = [st |-> st] /\ \A v \in Workers : v # w => worker'[v] = worker[v]
  BY <1>1, <1>2
<1> QED
  BY <1>1, <1>3 DEF Gone

\* Each kind of step keeps the dataset's invariant: without a worker,
LEMMA QuietKeepsData ==
    ASSUME RInv, RInv', DataInv, Learns, Quiet
    PROVE  DataInv'
<1>1. Moves
  BY QuietMoves
<1>2. worker' = worker /\ rows' = rows
  BY DEF Quiet
<1> QED
  BY <1>1, <1>2, NothingUsed DEF Moves

\* when a worker ends a case,
LEMMA EndsKeepsData ==
    ASSUME RInv, RInv', DataInv, Learns, NEW w \in Workers,
           NEW success \in BOOLEAN, Ends(w, success)
    PROVE  DataInv'
<1> DEFINE loop == worker[w].loop
<1>1. loop \in DOMAIN inFlight /\ FinishLoops({loop})
  BY Finishing DEF Ends
<1>2. Moves
  BY <1>1, FinishMoves
<1>3. \A v \in Workers : worker'[v].st = "running" => worker'[v] = worker[v]
  BY RestsRuns DEF Ends
<1>4. rows' = rows
  BY DEF Ends
<1> QED
  BY <1>2, <1>3, <1>4, NothingUsed DEF Moves

\* comes or goes,
LEMMA RestsKeepsData ==
    ASSUME RInv, RInv', DataInv, Learns, NEW w \in Workers,
           Rests(w), Kept, UNCHANGED rows
    PROVE  DataInv'
<1>1. Moves
  <2>1. added <= added'
    BY RunTypes DEF Kept
  <2> QED
    BY <2>1 DEF Kept, Moves
<1>2. \A v \in Workers : worker'[v].st = "running" => worker'[v] = worker[v]
  BY RestsRuns
<1> QED
  BY <1>1, <1>2, NothingUsed DEF Moves

\* takes a case, which is one more attempt of its sample,
LEMMA TakesKeepsData ==
    ASSUME RInv, RInv', DataInv, Learns, NEW w \in Workers, Takes(w)
    PROVE  DataInv'
<1> DEFINE t == queue[1]
           new == dispatchedCount + 1
           held == [st |-> "running", loop |-> new, sample |-> t.sample]
<1>1. /\ Len(queue) > 0 /\ Len(queue') = Len(queue) - 1
      /\ queue' \in Seq(Task)
      /\ \A i \in 1 .. Len(queue') : queue'[i] = queue[i + 1]
      /\ DOMAIN inFlight' = DOMAIN inFlight \cup {new}
      /\ inFlight'[new] = t
      /\ \A l \in DOMAIN inFlight : l # new => inFlight'[l] = inFlight[l]
  BY RunTypes, GetNextTaskEffect DEF Takes
<1>2. /\ Len(queue) \in Nat /\ DOMAIN queue = 1 .. Len(queue)
      /\ DOMAIN queue' = 1 .. Len(queue) - 1
  <2>1. Len(queue) \in Nat /\ DOMAIN queue = 1 .. Len(queue)
    BY RunTypes, CaseTypes
  <2> QED
    BY <1>1, <2>1, LenProperties
<1>3. 1 \in DOMAIN queue /\ t.sample \in Samples /\ t.attempt \in Nat
      /\ t.attempt + 1 <= MaxAttempts /\ t.sample <= added
  <2>1. 1 \in DOMAIN queue
    BY <1>1, <1>2
  <2>2. t \in Task
    BY <2>1, RunTypes, CaseTypes
  <2>3. t.sample <= added
    BY <2>1, RunTypes DEF KnownSamples
  <2> QED
    BY <2>1, <2>2, <2>3, MaxAttemptsAssumption DEF Task
<1>4. \A i \in DOMAIN queue' :
         i + 1 \in DOMAIN queue /\ i + 1 # 1 /\ queue'[i] = queue[i + 1]
  BY <1>1, <1>2
<1>5. new \notin HandedOut
  <2>1. HandedOut = startCount + 1 .. dispatchedCount /\ dispatchedCount \in Nat
    BY DEF RInv, IInv, Accounting, TypeOK
  <2> QED
    BY <2>1
<1>6. /\ new \notin DOMAIN inFlight
      /\ \A v \in Workers : worker[v].st = "running" => worker[v].loop # new
  BY <1>5 DEF HandedOut, RInv, HeldLoops
<1>7. /\ worker'[w] = held /\ \A v \in Workers : v # w => worker'[v] = worker[v]
      /\ worker[w].st = "idle"
  <2>1. Head(queue) = t
    BY <1>1, <1>2, RunTypes DEF TypeOK
  <2>2. worker \in [Workers -> WorkerState]
    BY RunTypes
  <2> QED
    BY <2>1, <2>2 DEF Takes, Idle
<1>8. /\ rows' = rows /\ added' = added /\ abandoned' = abandoned
  BY DEF Takes, GetNextTask
<1> HIDE DEF new, t
<1>9. RunningHolds'
  <2>1. ASSUME NEW v \in Workers, worker'[v].st = "running"
        PROVE  /\ worker'[v].sample <= added'
               /\ worker'[v].loop \in DOMAIN inFlight' =>
                     inFlight'[worker'[v].loop].sample = worker'[v].sample
    <3>1. CASE v = w
      BY <1>1, <1>3, <1>7, <1>8, <3>1
    <3>2. CASE v # w
      <4>1. /\ worker'[v] = worker[v] /\ worker[v].st = "running"
            /\ worker[v].loop # new
        BY <1>6, <1>7, <2>1, <3>2
      <4>2. /\ worker[v].sample <= added
            /\ worker[v].loop \in DOMAIN inFlight =>
                  inFlight[worker[v].loop].sample = worker[v].sample
        BY <4>1 DEF DataInv, RunningHolds
      <4> QED
        BY <1>1, <1>8, <4>1, <4>2
    <3> QED
      BY <3>1, <3>2
  <2> QED
    BY <2>1 DEF RunningHolds
<1>10. KnownGivenUp' /\ RowsOfAdded'
  BY <1>8 DEF DataInv, KnownGivenUp, Learns, RowsOfAdded
<1>11. AttemptsUsed'
  <2> SUFFICES ASSUME NEW s \in Samples
               PROVE  /\ IsFiniteSet(Running(s)')
                      /\ Used(s)' <= MaxAttempts
                      /\ \A i \in DOMAIN queue' :
                            queue'[i].sample = s => Used(s)' <= queue'[i].attempt
                      /\ \A l \in DOMAIN inFlight' :
                            inFlight'[l].sample = s =>
                               Used(s)' <= inFlight'[l].attempt + 1
    BY DEF AttemptsUsed
  <2>1. /\ IsFiniteSet(Running(s)) /\ Used(s) <= MaxAttempts
        /\ \A i \in DOMAIN queue :
              queue[i].sample = s => Used(s) <= queue[i].attempt
        /\ \A l \in DOMAIN inFlight :
              inFlight[l].sample = s => Used(s) <= inFlight[l].attempt + 1
    BY DEF DataInv, AttemptsUsed
  <2>2. CASE s # t.sample
    <3>1. Running(s)' = Running(s)
      BY <1>7, <2>2 DEF Running
    <3>2. Used(s)' = Used(s)
      BY <1>8, <3>1 DEF Used
    <3> QED
      BY <1>1, <1>4, <2>1, <2>2, <3>1, <3>2
  <2>3. CASE s = t.sample
    <3>1. Running(s)' = Running(s) \cup {w} /\ w \notin Running(s)
      BY <1>7, <2>3 DEF Running
    <3>2. /\ IsFiniteSet(Running(s)')
          /\ Cardinality(Running(s)') = Cardinality(Running(s)) + 1
      <4> DEFINE U == Running(s)
                 V == Running(s)'
      <4>1. V = U \cup {w} /\ w \notin U /\ IsFiniteSet(U)
        BY <2>1, <3>1
      <4> HIDE DEF U, V
      <4>2. IsFiniteSet(V) /\ Cardinality(V) = Cardinality(U) + 1
        BY <4>1, FS_AddElement
      <4> QED
        BY <4>2 DEF U, V
    <3>3. Used(s)' = Used(s) + 1 /\ Used(s) \in Nat
      <4> DEFINE k == Cardinality(Running(s))
                 l == Cardinality(Running(s)')
                 n == Len(rows[s])
      <4>1. /\ l = k + 1 /\ k \in Nat /\ n \in Nat
            /\ Used(s) = n + k /\ Used(s)' = n + l
        BY <1>8, <3>2, UsedIsNat DEF Used
      <4> HIDE DEF k, l, n
      <4> QED
        BY <4>1
    <3>4. Used(s) <= t.attempt
      BY <1>3, <2>1, <2>3 DEF t
    <3> DEFINE u == Used(s)
               v == Used(s)'
    <3>5. u <= t.attempt /\ v = u + 1 /\ u \in Nat
      BY <3>3, <3>4
    <3>6. MaxAttempts \in Nat
      BY RunTypes
    <3> HIDE DEF u, v
    <3>7. v <= t.attempt + 1 /\ v <= MaxAttempts
      BY <1>3, <3>5, <3>6
    <3>8. \A i \in DOMAIN queue' : queue'[i].sample # s
      BY <1>3, <1>4, <2>3, RunTypes DEF OneCopy, t
    <3>9. \A l \in DOMAIN inFlight' : l # new => inFlight'[l].sample # s
      BY <1>1, <1>3, <2>3, RunTypes DEF OneCopy, t
    <3> QED
      BY <1>1, <3>2, <3>7, <3>8, <3>9 DEF v
  <2> QED
    BY <2>2, <2>3
<1> QED
  BY <1>9, <1>10, <1>11 DEF DataInv

\* What storing a row, or losing it, does.
LEMMA SaveEffect ==
    ASSUME RInv, NEW w \in Workers, NEW success \in BOOLEAN, Save(w, success)
    PROVE  /\ worker[w].st = "running" /\ worker[w].sample \in Samples
           /\ worker'[w] = [st |-> "saved", loop |-> worker[w].loop,
                            success |-> success]
           /\ \A v \in Workers : v # w => worker'[v] = worker[v]
           /\ UNCHANGED qvars
           /\ \/ MayLoseRows /\ rows' = rows
              \/ \A s \in Samples :
                    rows'[s] = IF s = worker[w].sample
                               THEN Append(rows[s], success) ELSE rows[s]
           /\ \A s \in Samples : rows'[s] \in Seq(BOOLEAN)
           /\ \A s \in Samples : rows[s] \in Seq(BOOLEAN)
<1>1. /\ worker \in [Workers -> WorkerState]
      /\ rows \in [Samples -> Seq(BOOLEAN)]
      /\ worker[w].st = "running" /\ worker[w].sample \in Samples
  BY RunTypes DEF Save
<1>2. /\ worker'[w] = [st |-> "saved", loop |-> worker[w].loop,
                       success |-> success]
      /\ \A v \in Workers : v # w => worker'[v] = worker[v]
      /\ UNCHANGED qvars
  BY <1>1 DEF Save
<1>3. \/ MayLoseRows /\ rows' = rows
      \/ \A s \in Samples :
            rows'[s] = IF s = worker[w].sample
                       THEN Append(rows[s], success) ELSE rows[s]
  BY <1>1 DEF Save
<1>4. \A s \in Samples : Append(rows[s], success) \in Seq(BOOLEAN)
  BY <1>1
<1> QED
  BY <1>1, <1>2, <1>3, <1>4

\* or stores a row, which leaves the attempts as many as they were.
LEMMA SaveKeepsData ==
    ASSUME RInv, RInv', DataInv, Learns, NEW w \in Workers,
           NEW success \in BOOLEAN, Save(w, success)
    PROVE  DataInv'
<1> DEFINE x == worker[w].sample
<1>1. /\ worker[w].st = "running" /\ x \in Samples
      /\ worker'[w].st = "saved"
      /\ \A v \in Workers : v # w => worker'[v] = worker[v]
      /\ queue' = queue /\ inFlight' = inFlight /\ abandoned' = abandoned
      /\ added' = added
      /\ \A s \in Samples : rows'[s] \in {rows[s], Append(rows[s], success)}
      /\ \A s \in Samples : s # x => rows'[s] = rows[s]
      /\ \A s \in Samples : rows[s] \in Seq(BOOLEAN)
  <2>1. /\ worker[w].st = "running" /\ x \in Samples
        /\ \A v \in Workers : v # w => worker'[v] = worker[v]
        /\ \A s \in Samples : rows[s] \in Seq(BOOLEAN)
        /\ UNCHANGED qvars
    BY SaveEffect
  <2>2. worker'[w].st = "saved"
    <3>1. worker'[w] = [st |-> "saved", loop |-> worker[w].loop,
                        success |-> success]
      BY SaveEffect
    <3> QED
      BY <3>1
  <2>3. \/ rows' = rows
        \/ \A s \in Samples :
              rows'[s] = IF s = x THEN Append(rows[s], success) ELSE rows[s]
    BY SaveEffect
  <2>4. /\ \A s \in Samples : rows'[s] \in {rows[s], Append(rows[s], success)}
        /\ \A s \in Samples : s # x => rows'[s] = rows[s]
    BY <2>3
  <2> QED
    BY <2>1, <2>2, <2>4 DEF qvars
<1>2. RunningHolds'
  BY <1>1 DEF DataInv, RunningHolds
<1>3. KnownGivenUp'
  BY <1>1 DEF DataInv, KnownGivenUp, Learns
<1>4. RowsOfAdded'
  <2>1. x <= added
    BY <1>1 DEF DataInv, RunningHolds
  <2> QED
    BY <1>1, <2>1 DEF DataInv, RowsOfAdded
<1>5. ASSUME NEW s \in Samples
      PROVE  IsFiniteSet(Running(s)') /\ Used(s)' <= Used(s)
             /\ Used(s)' \in Nat /\ Used(s) \in Nat
  <2>1. IsFiniteSet(Running(s))
    BY DEF DataInv, AttemptsUsed
  <2> DEFINE k == Cardinality(Running(s))
             l == Cardinality(Running(s)')
             n == Len(rows[s])
             m == Len(rows'[s])
  <2>2. /\ Used(s) = n + k /\ Used(s)' = m + l
        /\ k \in Nat /\ n \in Nat
    BY UsedIsNat DEF Used
  <2>3. CASE s = x
    <3>1. Running(s)' = Running(s) \ {w} /\ w \in Running(s)
      BY <1>1, <2>3 DEF Running
    <3>2. IsFiniteSet(Running(s)') /\ l = k - 1 /\ l \in Nat
      <4> DEFINE U == Running(s)
                 V == Running(s)'
      <4>1. V = U \ {w} /\ w \in U /\ IsFiniteSet(U)
        BY <2>1, <3>1
      <4> HIDE DEF U, V
      <4>2. /\ IsFiniteSet(V) /\ Cardinality(V) = Cardinality(U) - 1
            /\ Cardinality(V) \in Nat
        BY <4>1, FS_RemoveElement, FS_CardinalityType
      <4> QED
        BY <4>2 DEF U, V
    <3>3. m \in {n, n + 1}
      <4> DEFINE r == rows[s]
      <4>1. r \in Seq(BOOLEAN) /\ rows'[s] \in {r, Append(r, success)}
        BY <1>1
      <4> HIDE DEF r
      <4>2. Len(Append(r, success)) = Len(r) + 1
        BY <4>1
      <4> QED
        BY <4>1, <4>2 DEF r
    <3> HIDE DEF k, l, m, n
    <3> QED
      BY <2>2, <3>2, <3>3
  <2>4. CASE s # x
    <3>1. Running(s)' = Running(s)
      BY <1>1, <2>4 DEF Running
    <3>2. l = k /\ m = n
      BY <1>1, <2>4, <3>1
    <3> HIDE DEF k, l, m, n
    <3> QED
      BY <2>1, <2>2, <3>1, <3>2
  <2> QED
    BY <2>3, <2>4
<1>6. AttemptsUsed'
  <2> SUFFICES ASSUME NEW s \in Samples
               PROVE  /\ IsFiniteSet(Running(s)')
                      /\ Used(s)' <= MaxAttempts
                      /\ \A i \in DOMAIN queue :
                            queue[i].sample = s => Used(s)' <= queue[i].attempt
                      /\ \A l \in DOMAIN inFlight :
                            inFlight[l].sample = s =>
                               Used(s)' <= inFlight[l].attempt + 1
    BY <1>1 DEF AttemptsUsed
  <2> DEFINE u == Used(s)
             v == Used(s)'
  <2>1. IsFiniteSet(Running(s)') /\ v <= u /\ v \in Nat /\ u \in Nat
    BY <1>5
  <2>2. /\ u <= MaxAttempts
        /\ \A i \in DOMAIN queue : queue[i].sample = s =>
              u <= queue[i].attempt /\ queue[i].attempt \in Nat
        /\ \A l \in DOMAIN inFlight : inFlight[l].sample = s =>
              u <= inFlight[l].attempt + 1 /\ inFlight[l].attempt \in Nat
        /\ MaxAttempts \in Nat
    BY RunTypes DEF DataInv, AttemptsUsed
  <2> HIDE DEF u, v
  <2>3. /\ v <= MaxAttempts
        /\ \A i \in DOMAIN queue :
              queue[i].sample = s => v <= queue[i].attempt
        /\ \A l \in DOMAIN inFlight :
              inFlight[l].sample = s => v <= inFlight[l].attempt + 1
    BY <2>1, <2>2
  <2> QED
    BY <2>1, <2>3 DEF v
<1> QED
  BY <1>2, <1>3, <1>4, <1>6 DEF DataInv

\* The dataset's invariant holds in the beginning.
LEMMA InitDataInv == RunInit => DataInv
<1> SUFFICES ASSUME RunInit PROVE DataInv
  OBVIOUS
<1>1. /\ queue = <<>> /\ DOMAIN inFlight = {} /\ known = {}
      /\ worker = [w \in Workers |-> Idle]
      /\ rows = [s \in Samples |-> <<>>]
  BY DEF RunInit, Init
<1>2. \A w \in Workers : worker[w].st = "idle"
  BY <1>1 DEF Idle
<1>3. \A s \in Samples : Running(s) = {}
  BY <1>2 DEF Running
<1>4. RunningHolds /\ KnownGivenUp /\ RowsOfAdded
  BY <1>1, <1>2 DEF RunningHolds, KnownGivenUp, RowsOfAdded
<1>5. AttemptsUsed
  <2>1. \A s \in Samples : IsFiniteSet(Running(s)) /\ Used(s) = 0
    BY <1>1, <1>3, FS_EmptySet DEF Used
  <2>2. DOMAIN queue = {}
    BY <1>1
  <2> QED
    BY <1>1, <2>1, <2>2, MaxAttemptsAssumption DEF AttemptsUsed
<1> QED
  BY <1>4, <1>5 DEF DataInv

\* Every step of a run keeps it.
LEMMA NextDataInv ==
    ASSUME RInv, DataInv, [RunNext]_rvars
    PROVE  RInv' /\ DataInv'
<1>1. RInv'
  BY NextRInv
<1> QED
  BY <1>1, StepKinds, QuietKeepsData, TakesKeepsData, EndsKeepsData,
     SaveKeepsData, RestsKeepsData

\* Every behaviour of a run keeps the invariant of the dataset as well.
THEOREM DataInvariant == RunSpec => [](RInv /\ DataInv)
<1>1. RunInit => RInv /\ DataInv
  BY InitRInv, InitDataInv
<1>2. RInv /\ DataInv /\ [RunNext]_rvars => (RInv /\ DataInv)'
  BY NextDataInv
<1> QED
  BY <1>1, <1>2, PTL DEF RunSpec

-----------------------------------------------------------------------------
(* What no step of a run undoes.                                           *)

\* Some worker of the sample brings this row.
Brings(w, s, ok) ==
    /\ worker[w].st = "running" /\ worker[w].sample = s
    /\ rows'[s] = Append(rows[s], ok)
    /\ UNCHANGED qvars

\* The dataset and what is known of losses only grow, by one row at a time.
LEMMA DataGrows ==
    ASSUME RInv, DataInv, [RunNext]_rvars
    PROVE  /\ \A s \in Samples :
                 /\ rows[s] \in Seq(BOOLEAN)
                 /\ \/ rows'[s] = rows[s]
                    \/ \E w \in Workers, ok \in BOOLEAN : Brings(w, s, ok)
           /\ known \subseteq known' /\ abandoned \subseteq abandoned'
           /\ added \in Nat /\ added' \in Nat /\ added <= added'
           /\ 1 .. added \subseteq Samples /\ 1 .. added' \subseteq Samples
<1>1. RInv' /\ DataInv' /\ Learns
  BY NextDataInv, StepKinds
<1>2. /\ added \in Nat /\ added' \in Nat
      /\ 1 .. added \subseteq Samples /\ 1 .. added' \subseteq Samples
  BY <1>1, MaxSamplesAssumption DEF RInv, IInv, TypeOK, Samples
<1>3. \A s \in Samples : rows[s] \in Seq(BOOLEAN)
  BY RunTypes
<1>4. ASSUME rows' = rows
      PROVE  \A s \in Samples : rows'[s] = rows[s]
  BY <1>4
<1>5. CASE Quiet
  <2>1. Moves
    BY <1>5, QuietMoves
  <2> QED
    BY <1>1, <1>2, <1>3, <1>5, <2>1 DEF Moves, Quiet, Learns
<1>6. ASSUME NEW w \in Workers, Takes(w)
      PROVE  rows' = rows /\ abandoned' = abandoned /\ added' = added
  BY <1>6 DEF Takes, GetNextTask
<1>7. ASSUME NEW w \in Workers, NEW success \in BOOLEAN, Ends(w, success)
      PROVE  rows' = rows /\ abandoned \subseteq abandoned' /\ added' = added
  <2>1. {worker[w].loop} \in SUBSET DOMAIN inFlight
    BY <1>7 DEF Ends
  <2>2. FinishLoops({worker[w].loop})
    BY <1>7, Finishing DEF Ends
  <2>3. Moves
    BY <2>1, <2>2, FinishMoves
  <2> QED
    BY <1>7, <2>2, <2>3 DEF Moves, Ends, FinishLoops
<1>8. ASSUME NEW w \in Workers, NEW success \in BOOLEAN, Save(w, success)
      PROVE  /\ \A s \in Samples :
                   rows'[s] = rows[s] \/ Brings(w, s, success)
             /\ abandoned' = abandoned /\ added' = added
  <2>1. /\ worker[w].st = "running" /\ UNCHANGED qvars
        /\ \/ rows' = rows
           \/ \A s \in Samples :
                 rows'[s] = IF s = worker[w].sample
                            THEN Append(rows[s], success) ELSE rows[s]
    BY <1>8, SaveEffect
  <2> QED
    BY <2>1 DEF Brings, qvars
<1>9. ASSUME NEW w \in Workers, Rests(w), Kept, UNCHANGED rows
      PROVE  rows' = rows /\ abandoned' = abandoned /\ added' = added
  BY <1>9 DEF Kept
<1>10. \A s \in Samples :
          \/ rows'[s] = rows[s]
          \/ \E w \in Workers, ok \in BOOLEAN : Brings(w, s, ok)
  BY <1>4, <1>5, <1>6, <1>7, <1>8, <1>9, StepKinds DEF Quiet
<1>11. abandoned \subseteq abandoned' /\ added <= added'
  <2>1. added <= added
    BY <1>2
  <2> QED
    BY <1>5, <1>6, <1>7, <1>8, <1>9, <2>1, StepKinds
<1>12. known \subseteq known'
  BY <1>1 DEF Learns
<1> QED
  BY <1>2, <1>3, <1>10, <1>11, <1>12

\* What is known of a sample only grows.
LEMMA RowsOnlyGrow ==
    ASSUME RInv, DataInv, [RunNext]_rvars, NEW s \in Samples, NEW g, NEW h, g => h
    PROVE  /\ rows[s] # <<>> => rows'[s] # <<>>
           /\ Successes(rows[s]) # {} =>
                 /\ Successes(rows'[s]) # {}
                 /\ ChosenRow(rows'[s]) = ChosenRow(rows[s])
           /\ Resolved(rows[s], g, MaxAttempts) => Resolved(rows'[s], h, MaxAttempts)
<1>1. /\ rows[s] \in Seq(BOOLEAN) /\ MaxAttempts \in Nat
      /\ \/ rows'[s] = rows[s]
         \/ \E ok \in BOOLEAN : rows'[s] = Append(rows[s], ok)
  BY DataGrows, RunTypes DEF Brings
<1>2. \A r : Resolved(r, g, MaxAttempts) => Resolved(r, h, MaxAttempts)
  BY DEF Resolved
<1>3. CASE rows'[s] = rows[s]
  BY <1>2, <1>3
<1>4. ASSUME NEW ok \in BOOLEAN, rows'[s] = Append(rows[s], ok)
      PROVE  /\ rows'[s] # <<>>
             /\ Successes(rows[s]) # {} =>
                   /\ Successes(rows'[s]) # {}
                   /\ ChosenRow(rows'[s]) = ChosenRow(rows[s])
             /\ Resolved(rows[s], g, MaxAttempts) =>
                   Resolved(rows'[s], h, MaxAttempts)
  <2>1. rows'[s] # <<>> /\ Successes(rows[s]) \subseteq Successes(rows'[s])
    BY <1>1, <1>4, SuccessesOfMore
  <2>2. Successes(rows[s]) # {} => ChosenRow(rows'[s]) = ChosenRow(rows[s])
    BY <1>1, <1>4, ChosenStays
  <2>3. Resolved(rows[s], g, MaxAttempts) => Resolved(rows'[s], g, MaxAttempts)
    BY <1>1, <1>4, ResolvedStays
  <2> QED
    BY <1>2, <2>1, <2>2, <2>3
<1> QED
  BY <1>1, <1>3, <1>4

\* The samples seen are seen after every step.
LEMMA SeenStays ==
    ASSUME RInv, DataInv, [RunNext]_rvars
    PROVE  /\ SeenSamples \subseteq SeenSamples'
           /\ \A s \in SeenSamples :
                 s \in Samples /\ Resolved(rows[s], s \in known, MaxAttempts)
<1> DEFINE d == 1 .. added
           e == 1 .. added'
           q == rows'
           b == known'
<1>1. /\ added \in Nat /\ added' \in Nat /\ added <= added'
      /\ d \subseteq Samples /\ e \subseteq Samples /\ known \subseteq b
  BY DataGrows
<1>2. RInv' /\ DataInv'
  BY NextDataInv
<1>3. rows \in [Samples -> Seq(BOOLEAN)] /\ q \in [Samples -> Seq(BOOLEAN)]
  BY <1>2 DEF RInv, RunTypeOK
<1>4. known \subseteq d
  <2>1. ASSUME NEW t \in abandoned PROVE t.sample \in d
    <3>1. t \in Task /\ t.sample \in Nat
      BY <2>1, CaseTypes, RunTypes
    <3>2. t.sample <= added /\ t.sample >= 1
      BY <2>1, <3>1, RunTypes, MaxSamplesAssumption
      DEF KnownSamples, Task, Samples
    <3> QED
      BY <1>1, <3>1, <3>2
  <2> QED
    BY <2>1 DEF DataInv, KnownGivenUp
<1>5. b \subseteq e
  <2>1. ASSUME NEW t \in abandoned' PROVE t.sample \in e
    <3>1. t \in Task
      BY <1>2, <2>1 DEF RInv, IInv, TypeOK
    <3>2. t.sample \in Nat /\ t.sample >= 1
      BY <3>1, MaxSamplesAssumption DEF Task, Samples
    <3>3. t.sample <= added'
      BY <1>2, <2>1 DEF RInv, IInv, KnownSamples
    <3> QED
      BY <1>1, <3>2, <3>3
  <2> QED
    BY <1>2, <2>1 DEF DataInv, KnownGivenUp
<1>6. \A s \in DOMAIN rows : rows[s] # <<>> => s \in d
  <2>1. ASSUME NEW s \in Samples, rows[s] # <<>> PROVE s \in d
    <3>1. s <= added
      BY <2>1 DEF DataInv, RowsOfAdded
    <3> QED
      BY <1>1, <3>1, MaxSamplesAssumption DEF Samples
  <2> QED
    BY <1>3, <2>1
<1>7. \A s \in DOMAIN q : q[s] # <<>> => s \in e
  <2>1. ASSUME NEW s \in Samples, q[s] # <<>> PROVE s \in e
    <3>1. s <= added'
      BY <1>2, <2>1 DEF DataInv, RowsOfAdded
    <3> QED
      BY <1>1, <3>1, MaxSamplesAssumption DEF Samples
  <2> QED
    BY <1>3, <2>1
<1>8. \A s \in d : Resolved(rows[s], s \in known, MaxAttempts) =>
                      Resolved(q[s], s \in b, MaxAttempts)
  <2>1. ASSUME NEW s \in d
        PROVE  Resolved(rows[s], s \in known, MaxAttempts) =>
                  Resolved(q[s], s \in b, MaxAttempts)
    <3>1. s \in Samples /\ (s \in known => s \in b)
      BY <1>1
    <3> HIDE DEF d, b
    <3> QED
      BY <3>1, RowsOnlyGrow
  <2> QED
    BY <2>1
<1>9. d \subseteq e /\ \A s \in d : \A t \in e : t <= s => t \in d
  BY <1>1
<1>10. Prefix(rows, known, d, MaxAttempts) \subseteq Prefix(q, b, e, MaxAttempts)
  <2> HIDE DEF d, e, q, b
  <2> QED
    BY <1>4, <1>5, <1>6, <1>7, <1>8, <1>9, PrefixGrows
<1>11. ASSUME NEW s \in SeenSamples
       PROVE  /\ s \in Prefix(rows, known, d, MaxAttempts)
              /\ ~(\A t \in Samples : rows[t] = <<>>)
  BY <1>11 DEF SeenSamples
<1>12. (\E s \in SeenSamples : TRUE) =>
          SeenSamples' = Prefix(q, b, e, MaxAttempts)
  <2>1. SUFFICES ASSUME NEW s \in SeenSamples
                 PROVE  SeenSamples' = Prefix(q, b, e, MaxAttempts)
    OBVIOUS
  <2>2. PICK t \in Samples : rows[t] # <<>>
    BY <1>11
  <2>3. rows'[t] # <<>>
    BY <2>2, RowsOnlyGrow
  <2> QED
    BY <2>3 DEF SeenSamples
<1>13. ASSUME NEW s \in SeenSamples
       PROVE  s \in Samples /\ Resolved(rows[s], s \in known, MaxAttempts)
  <2>1. s \in d /\ \A t \in d : t <= s => Resolved(rows[t], t \in known, MaxAttempts)
    <3>1. Prefix(rows, known, d, MaxAttempts) =
             {u \in d : \A t \in d : t <= u =>
                           Resolved(rows[t], t \in known, MaxAttempts)}
      <4> HIDE DEF d
      <4> QED
        BY <1>4, <1>6, PrefixIs
    <3> HIDE DEF d
    <3> QED
      BY <1>11, <3>1
  <2>2. s <= s
    BY <1>1, <2>1
  <2> QED
    BY <1>1, <2>1, <2>2
<1>14. SeenSamples \subseteq SeenSamples'
  <2> HIDE DEF d, e, q, b
  <2> QED
    BY <1>10, <1>11, <1>12
<1> QED
  BY <1>13, <1>14

\* A sample that is seen and whose row changes is run by a worker whose case
\* the queue has counted already: were it still in flight, or attempts left,
\* the sample would not have been given up.
LEMMA SeenChangesLate ==
    ASSUME RInv, DataInv, [RunNext]_rvars, NEW s \in SeenSamples
    PROVE  \/ ChosenRow(rows'[s]) = ChosenRow(rows[s])
           \/ \E w \in Workers :
                 /\ worker[w].st = "running" /\ worker[w].sample = s
                 /\ worker[w].loop \in completedLoops
<1>1. s \in Samples /\ Resolved(rows[s], s \in known, MaxAttempts)
  BY SeenStays
<1>2. CASE rows'[s] = rows[s]
  BY <1>2
<1>3. CASE Successes(rows[s]) # {}
  BY <1>1, <1>3, RowsOnlyGrow
<1>4. ASSUME Successes(rows[s]) = {},
             NEW w \in Workers, NEW ok \in BOOLEAN, Brings(w, s, ok)
      PROVE  worker[w].loop \in completedLoops
  <2>1. worker[w].st = "running" /\ worker[w].sample = s
    BY <1>4 DEF Brings
  <2>2. Len(rows[s]) < MaxAttempts
    <3>1. w \in Running(s)
      BY <2>1 DEF Running
    <3>2. /\ IsFiniteSet(Running(s)) /\ Used(s) <= MaxAttempts
          /\ Len(rows[s]) \in Nat /\ MaxAttempts \in Nat
      BY <1>1, UsedIsNat, RunTypes DEF DataInv, AttemptsUsed
    <3>3. Cardinality(Running(s)) \in Nat /\ Cardinality(Running(s)) # 0
      <4> DEFINE U == Running(s)
      <4>1. IsFiniteSet(U) /\ U # {}
        BY <3>1, <3>2
      <4> HIDE DEF U
      <4>2. Cardinality(U) \in Nat /\ Cardinality(U) # 0
        BY <4>1, FS_EmptySet, FS_CardinalityType
      <4> QED
        BY <4>2 DEF U
    <3> DEFINE k == Cardinality(Running(s))
               n == Len(rows[s])
    <3>4. /\ n + k <= MaxAttempts /\ n \in Nat /\ k \in Nat /\ k # 0
          /\ MaxAttempts \in Nat
      BY <3>2, <3>3 DEF Used
    <3> HIDE DEF k, n
    <3>5. n < MaxAttempts
      BY <3>4
    <3> QED
      BY <3>5 DEF n
  <2>3. ~(Len(rows[s]) >= MaxAttempts)
    <3>1. Len(rows[s]) \in Nat /\ MaxAttempts \in Nat
      BY <1>1, UsedIsNat, RunTypes
    <3> DEFINE n == Len(rows[s])
    <3>2. n \in Nat /\ n < MaxAttempts
      BY <2>2, <3>1
    <3> HIDE DEF n
    <3>3. ~(n >= MaxAttempts)
      BY <3>1, <3>2
    <3> QED
      BY <3>3 DEF n
  <2>4. s \in known
    BY <1>1, <1>4, <2>3 DEF Resolved
  <2>5. PICK t \in abandoned : t.sample = s
    BY <2>4 DEF DataInv, KnownGivenUp
  <2>6. worker[w].loop \notin DOMAIN inFlight
    <3>1. \A l \in DOMAIN inFlight : inFlight[l].sample # s
      BY <2>5 DEF RInv, IInv, OneCopy
    <3> QED
      BY <2>1, <3>1 DEF DataInv, RunningHolds
  <2> QED
    BY <2>1, <2>6 DEF RInv, HeldLoops, HandedOut
<1> QED
  BY <1>1, <1>2, <1>3, <1>4, DataGrows DEF Brings

\* What a rule has seen it keeps seeing, and a success keeps its place
\* (statistical_sample.py takes the first success of a sample and stops at the
\* first sample that is not resolved), whatever rows arrive afterwards.
THEOREM SeenSuccessesStayCorrect == RunSpec => SeenSuccessesStay
<1>1. ASSUME RInv, DataInv, [RunNext]_rvars
      PROVE  \A s \in SeenSamples :
                /\ s \in SeenSamples'
                /\ Successes(rows[s]) # {} =>
                      ChosenRow(rows[s])' = ChosenRow(rows[s])
  <2>1. ASSUME NEW s \in SeenSamples
        PROVE  /\ s \in SeenSamples'
               /\ Successes(rows[s]) # {} =>
                     ChosenRow(rows'[s]) = ChosenRow(rows[s])
    BY <1>1, <2>1, SeenStays, RowsOnlyGrow
  <2> QED
    BY <2>1
<1> QED
  BY <1>1, DataInvariant, PTL DEF RunSpec, SeenSuccessesStay

\* The row that stands for a sample a rule has seen changes only when a worker
\* whose case the queue had counted as lost brings a row after all
\* (requeue_stale_tasks does not stop the worker).
THEOREM SeenSamplesStayCorrect == RunSpec => SeenSamplesStay
<1>1. ASSUME RInv, DataInv, [RunNext]_rvars
      PROVE  \A s \in SeenSamples :
                \/ ChosenRow(rows[s])' = ChosenRow(rows[s])
                \/ \E w \in Workers :
                      /\ worker[w].st = "running" /\ worker[w].sample = s
                      /\ worker[w].loop \in completedLoops
  <2>1. ASSUME NEW s \in SeenSamples
        PROVE  \/ ChosenRow(rows'[s]) = ChosenRow(rows[s])
               \/ \E w \in Workers :
                     /\ worker[w].st = "running" /\ worker[w].sample = s
                     /\ worker[w].loop \in completedLoops
    BY <1>1, <2>1, SeenChangesLate
  <2> QED
    BY <2>1
<1> QED
  BY <1>1, DataInvariant, PTL DEF RunSpec, SeenSamplesStay

-----------------------------------------------------------------------------
(* No sample is forgotten.                                                 *)

\* What waits is dropped only with a stop reason.
CancelsStopped ==
    pc \in {"cancel", "cancelled", "stalled", "stalledCancelled"} => stopReason

\* A worker that is about to report a case in flight has stored its row.
SavedIsStored ==
    \A w \in Workers :
        worker[w].st = "saved" /\ worker[w].loop \in DOMAIN inFlight =>
            LET r == rows[inFlight[worker[w].loop].sample]
            IN  r # <<>> /\ (worker[w].success => Successes(r) # {})

\* A stop reason is final.
LEMMA StopReasonStays ==
    ASSUME CancelsStopped, RunTypeOK, [RunNext]_rvars
    PROVE  (stopReason => stopReason') /\ CancelsStopped'
<1>1. CASE UNCHANGED <<pc, stopReason>>
  BY <1>1 DEF CancelsStopped
<1>2. CASE Start \/ Requeue \/ ReadSnapshot \/ SignalTarget \/ Signal
  BY <1>2 DEF Start, Requeue, ReadSnapshot, SignalTarget, Signal, CancelsStopped
<1>3. CASE Issue
  BY <1>3 DEF Issue, CancelsStopped
<1>4. CASE Cancel \/ CancelStalled
  BY <1>4 DEF Cancel, CancelStalled, CancelsStopped
<1>5. CASE ReadSignalled
  BY <1>5 DEF ReadSignalled, CancelsStopped
<1>6. Conclude => pc' \in {"signal", "done", "requeue"}
  BY DEF Conclude
<1>7. CASE ReadDrain \/ ReadCancelled \/ ReadStalledCancelled
  BY <1>6, <1>7 DEF ReadDrain, ReadCancelled, ReadStalledCancelled, TrackDrain,
     CancelsStopped
<1>8. CASE CaseTimePasses \/ StallTimePasses \/ UNCHANGED rvars
  BY <1>1, <1>8 DEF CaseTimePasses, StallTimePasses, ovars, rvars
<1>9. ASSUME NEW w \in Workers,
             Work(w) \/ Refuse(w) \/ Leave(w) \/ Crash(w) \/ Restart(w)
      PROVE  UNCHANGED <<pc, stopReason>>
  BY <1>9 DEF Work, Fetch, Save, Report, Refuse, Leave, Crash, Restart, ovars
<1> QED
  BY <1>1, <1>2, <1>3, <1>4, <1>5, <1>7, <1>8, <1>9 DEF RunNext, Orchestrator

\* What a sample needs it does not need again.
LEMMA SettledStays ==
    ASSUME RInv, DataInv, [RunNext]_rvars, NEW s \in Samples
    PROVE  /\ Settled(s) => Settled(s)'
           /\ (\E t \in abandoned' : t.sample = s) => Settled(s)'
<1> DEFINE g == \E t \in abandoned : t.sample = s
           h == \E t \in abandoned' : t.sample = s
<1>1. g => h
  BY DataGrows
<1>2. /\ Settled(s) <=> Resolved(rows[s], g, MaxAttempts)
      /\ Settled(s)' <=> Resolved(rows'[s], h, MaxAttempts)
  BY DEF Settled
<1>3. Resolved(rows[s], g, MaxAttempts) => Resolved(rows'[s], h, MaxAttempts)
  <2> HIDE DEF g, h
  <2> QED
    BY <1>1, RowsOnlyGrow
<1>4. h => Resolved(rows'[s], h, MaxAttempts)
  BY DEF Resolved
<1> QED
  BY <1>2, <1>3, <1>4

\* When cases are finished, those of them that are not retried have to be
\* settled.
LEMMA FinishForgetsNone ==
    ASSUME RInv, DataInv, [RunNext]_rvars,
           NEW loops \in SUBSET DOMAIN inFlight, FinishLoops(loops),
           NEW s \in Samples, Live(s),
           \/ RetryOrAbandon(loops)
           \/ (\E l \in loops : inFlight[l].sample = s) => Settled(s)'
    PROVE  Live(s)' \/ Settled(s)'
<1>1. /\ Moves
      /\ DOMAIN inFlight' = DOMAIN inFlight \ loops
      /\ \A j \in DOMAIN queue : \E i \in DOMAIN queue' : queue'[i] = queue[j]
      /\ RetryOrAbandon(loops) =>
            \A l \in loops :
               \/ \E i \in DOMAIN queue' : queue'[i].sample = inFlight[l].sample
               \/ inFlight[l] \in abandoned'
  BY FinishMoves
<1>2. CASE \E i \in DOMAIN queue : queue[i].sample = s
  BY <1>1, <1>2 DEF Live
<1>3. ASSUME NEW l \in DOMAIN inFlight, inFlight[l].sample = s, l \notin loops
      PROVE  Live(s)'
  BY <1>1, <1>3 DEF Live, Moves
<1>4. ASSUME NEW l \in loops, inFlight[l].sample = s
      PROVE  Live(s)' \/ Settled(s)'
  <2>1. CASE RetryOrAbandon(loops)
    <3>1. CASE \E i \in DOMAIN queue' : queue'[i].sample = inFlight[l].sample
      BY <1>4, <3>1 DEF Live
    <3>2. CASE inFlight[l] \in abandoned'
      BY <1>4, <3>2, SettledStays
    <3> QED
      BY <1>1, <2>1, <3>1, <3>2
  <2>2. CASE (\E k \in loops : inFlight[k].sample = s) => Settled(s)'
    BY <1>4, <2>2
  <2> QED
    BY <2>1, <2>2
<1> QED
  BY <1>2, <1>3, <1>4 DEF Live

\* Without a worker a sample is forgotten only by a cancellation, which needs a
\* stop reason.
LEMMA QuietForgetsNone ==
    ASSUME RInv, DataInv, [RunNext]_rvars, CancelsStopped, NoSampleForgotten,
           Quiet, ~stopReason, NEW s \in 1 .. added'
    PROVE  Live(s)' \/ Settled(s)'
<1>1. /\ added \in Nat /\ added' \in Nat /\ added <= added'
      /\ 1 .. added' \subseteq Samples
  BY DataGrows
<1>2. s \in Samples /\ (s \in 1 .. added => Live(s) \/ Settled(s)')
  BY <1>1, SettledStays DEF NoSampleForgotten
<1>3. CASE Kept
  <2>1. s \in 1 .. added /\ (Live(s) => Live(s)')
    BY <1>3 DEF Kept, Live
  <2> QED
    BY <1>2, <2>1
<1>4. CASE AddTask
  <2>1. /\ \A j \in DOMAIN queue : \E i \in DOMAIN queue' : queue'[i] = queue[j]
        /\ \E i \in DOMAIN queue' : queue'[i].sample = added + 1
        /\ inFlight' = inFlight /\ added' = added + 1
    BY <1>4, AddTaskMoves DEF AddTask
  <2>2. s \in 1 .. added \/ s = added + 1
    BY <1>1, <2>1
  <2>3. Live(s) => Live(s)'
    BY <2>1 DEF Live
  <2>4. s = added + 1 => Live(s)'
    BY <2>1 DEF Live
  <2> QED
    BY <1>2, <2>2, <2>3, <2>4
<1>5. CASE RequeueStale(overdue)
  <2> DEFINE stale == {l \in DOMAIN inFlight : l <= overdue}
  <2>1. FinishLoops(stale) /\ RetryOrAbandon(stale) /\ stale \in SUBSET DOMAIN inFlight
    BY <1>5, Finishing
  <2>2. added' = added
    BY <1>5 DEF RequeueStale
  <2> HIDE DEF stale
  <2>3. Live(s) => Live(s)' \/ Settled(s)'
    BY <1>2, <2>1, FinishForgetsNone
  <2> QED
    BY <1>2, <2>2, <2>3
<1>6. ~(CancelPending /\ pc \in {"cancel", "stalled"})
  BY DEF CancelsStopped
<1> QED
  BY <1>3, <1>4, <1>5, <1>6 DEF Quiet

\* A case that is taken is held by its worker.
LEMMA TakesForgetsNone ==
    ASSUME RInv, NEW w \in Workers, Takes(w), NEW s, Live(s)
    PROVE  Live(s)'
<1> DEFINE new == dispatchedCount + 1
<1>1. /\ Len(queue) > 0 /\ Len(queue') = Len(queue) - 1
      /\ queue' \in Seq(Task)
      /\ \A i \in 1 .. Len(queue') : queue'[i] = queue[i + 1]
      /\ DOMAIN inFlight' = DOMAIN inFlight \cup {new}
      /\ inFlight'[new] = queue[1]
      /\ \A l \in DOMAIN inFlight : l # new => inFlight'[l] = inFlight[l]
  BY RunTypes, GetNextTaskEffect DEF Takes
<1>2. /\ Len(queue) \in Nat /\ DOMAIN queue = 1 .. Len(queue)
      /\ DOMAIN queue' = 1 .. Len(queue) - 1
  <2>1. Len(queue) \in Nat /\ DOMAIN queue = 1 .. Len(queue)
    BY RunTypes, CaseTypes
  <2> QED
    BY <1>1, <2>1, LenProperties
<1>3. new \notin DOMAIN inFlight
  <2>1. HandedOut = startCount + 1 .. dispatchedCount /\ dispatchedCount \in Nat
    BY DEF RInv, IInv, Accounting, TypeOK
  <2>2. new \notin HandedOut
    BY <2>1
  <2> QED
    BY <2>2 DEF HandedOut
<1>4. ASSUME NEW i \in DOMAIN queue, queue[i].sample = s
      PROVE  Live(s)'
  <2>1. CASE i = 1
    <3>1. new \in DOMAIN inFlight' /\ inFlight'[new].sample = s
      BY <1>1, <1>4, <2>1
    <3> QED
      BY <3>1 DEF Live
  <2>2. CASE i # 1
    <3>1. PICK k : k = i - 1
      OBVIOUS
    <3>2. k \in DOMAIN queue' /\ i = k + 1
      BY <1>2, <2>2, <3>1
    <3>3. k \in 1 .. Len(queue')
      BY <1>1, <1>2, <3>2
    <3>4. queue'[k] = queue[i]
      BY <1>1, <3>2, <3>3
    <3> QED
      BY <1>4, <3>2, <3>4 DEF Live
  <2> QED
    BY <2>1, <2>2
<1>5. ASSUME NEW l \in DOMAIN inFlight, inFlight[l].sample = s
      PROVE  Live(s)'
  <2>1. l \in DOMAIN inFlight' /\ inFlight'[l].sample = s
    BY <1>1, <1>3, <1>5
  <2> QED
    BY <2>1 DEF Live
<1> QED
  BY <1>4, <1>5 DEF Live

\* A case is finished with a row behind it, or it is retried or given up; only
\* a refused case of a queue without retries would have neither.
LEMMA EndsForgetsNone ==
    ASSUME RInv, DataInv, [RunNext]_rvars, SavedIsStored,
           MaxAttempts > 1 \/ ~MayMisroute,
           NEW w \in Workers, NEW success \in BOOLEAN, Ends(w, success),
           NEW s \in Samples, Live(s)
    PROVE  Live(s)' \/ Settled(s)'
<1> DEFINE loop == worker[w].loop
           x == inFlight[loop].sample
<1>1. /\ loop \in DOMAIN inFlight
      /\ FinishLoops({loop})
      /\ ~success /\ MaxAttempts > 1 => RetryOrAbandon({loop})
  BY Finishing DEF Ends
<1>2. ASSUME success \/ ~(MaxAttempts > 1)
      PROVE  Settled(x)
  <2>1. worker[w].st = "saved" /\ success = worker[w].success
    BY <1>2 DEF Ends
  <2>2. rows[x] # <<>> /\ (success => Successes(rows[x]) # {})
    BY <1>1, <2>1 DEF SavedIsStored
  <2>3. CASE success
    BY <2>2, <2>3 DEF Settled, Resolved
  <2>4. CASE ~(MaxAttempts > 1)
    <3>1. x \in Samples
      BY <1>1, RunTypes
    <3>2. rows[x] \in Seq(BOOLEAN)
      BY <3>1, RunTypes
    <3>3. Len(rows[x]) \in Nat /\ Len(rows[x]) # 0
      BY <2>2, <3>2, EmptySeq, LenProperties
    <3> DEFINE n == Len(rows[x])
    <3>4. n \in Nat /\ n # 0
      BY <3>3
    <3> HIDE DEF n
    <3>5. n >= MaxAttempts
      BY <2>4, <3>4, MaxAttemptsAssumption
    <3> QED
      BY <3>5 DEF n, Settled, Resolved
  <2> QED
    BY <1>2, <2>3, <2>4
<1>3. \/ RetryOrAbandon({loop})
      \/ (\E l \in {loop} : inFlight[l].sample = s) => Settled(s)'
  <2>1. CASE ~success /\ MaxAttempts > 1
    BY <1>1, <2>1
  <2>2. ASSUME success \/ ~(MaxAttempts > 1), x = s
        PROVE  Settled(s)'
    <3>1. Settled(x)
      BY <1>2, <2>2
    <3>2. Settled(s)
      BY <2>2, <3>1
    <3> QED
      BY <3>2, SettledStays
  <2> QED
    BY <2>1, <2>2
<1>4. {loop} \in SUBSET DOMAIN inFlight
  BY <1>1
<1> HIDE DEF loop, x
<1> QED
  BY <1>1, <1>3, <1>4, FinishForgetsNone

\* A worker keeps waiting to report as long as nothing else happens to it, and
\* the loop it reports stands for the same sample.
LEMMA StillStored ==
    ASSUME RInv, DataInv, [RunNext]_rvars, SavedIsStored,
           NEW v \in Workers, worker[v].st = "saved", worker'[v] = worker[v],
           worker[v].loop \in DOMAIN inFlight' =>
              /\ worker[v].loop \in DOMAIN inFlight
              /\ inFlight'[worker[v].loop] = inFlight[worker[v].loop],
           worker'[v].loop \in DOMAIN inFlight'
    PROVE  LET r == rows'[inFlight'[worker'[v].loop].sample]
           IN  r # <<>> /\ (worker'[v].success => Successes(r) # {})
<1> DEFINE x == inFlight[worker[v].loop].sample
<1>1. /\ worker[v].loop \in DOMAIN inFlight
      /\ inFlight'[worker[v].loop] = inFlight[worker[v].loop]
  OBVIOUS
<1>2. x \in Samples
  BY <1>1, RunTypes
<1>3. rows[x] # <<>> /\ (worker[v].success => Successes(rows[x]) # {})
  BY <1>1 DEF SavedIsStored
<1>4. inFlight'[worker'[v].loop].sample = x
  BY <1>1
<1> HIDE DEF x
<1>5. /\ rows[x] # <<>> => rows'[x] # <<>>
      /\ Successes(rows[x]) # {} => Successes(rows'[x]) # {}
  BY <1>2, RowsOnlyGrow
<1> QED
  BY <1>3, <1>4, <1>5

\* With sinks that store every row, a worker never reports a case without one.
LEMMA StoredStep ==
    ASSUME RInv, DataInv, [RunNext]_rvars, SavedIsStored, ~MayLoseRows
    PROVE  SavedIsStored'
<1>1. ASSUME NEW v \in Workers, worker'[v] = worker[v], worker'[v].st = "saved",
             worker'[v].loop \in DOMAIN inFlight',
             worker[v].loop \in DOMAIN inFlight' =>
                /\ worker[v].loop \in DOMAIN inFlight
                /\ inFlight'[worker[v].loop] = inFlight[worker[v].loop]
      PROVE  LET r == rows'[inFlight'[worker'[v].loop].sample]
             IN  r # <<>> /\ (worker'[v].success => Successes(r) # {})
  BY <1>1, StillStored
<1>2. ASSUME Moves, \A v \in Workers : worker'[v].st = "saved" =>
                                          worker'[v] = worker[v]
      PROVE  SavedIsStored'
  BY <1>1, <1>2 DEF SavedIsStored, Moves
<1>3. CASE Quiet
  BY <1>2, <1>3, QuietMoves DEF Quiet
<1>4. ASSUME NEW w \in Workers, NEW success \in BOOLEAN, Ends(w, success)
      PROVE  SavedIsStored'
  <2>1. {worker[w].loop} \in SUBSET DOMAIN inFlight
           /\ FinishLoops({worker[w].loop})
    BY <1>4, Finishing DEF Ends
  <2>2. Moves
    BY <2>1, FinishMoves
  <2>3. \A v \in Workers : worker'[v].st = "saved" => worker'[v] = worker[v]
    BY <1>4, RestsRuns DEF Ends
  <2> QED
    BY <1>2, <2>2, <2>3
<1>5. ASSUME NEW w \in Workers, Rests(w), Kept, UNCHANGED rows
      PROVE  SavedIsStored'
  <2>1. Moves
    <3>1. added <= added'
      BY <1>5, RunTypes DEF Kept
    <3> QED
      BY <1>5, <3>1 DEF Kept, Moves
  <2>2. \A v \in Workers : worker'[v].st = "saved" => worker'[v] = worker[v]
    BY <1>5, RestsRuns
  <2> QED
    BY <1>2, <2>1, <2>2
<1>6. ASSUME NEW w \in Workers, Takes(w)
      PROVE  SavedIsStored'
  <2> DEFINE new == dispatchedCount + 1
  <2>1. /\ DOMAIN inFlight' = DOMAIN inFlight \cup {new}
        /\ \A l \in DOMAIN inFlight : l # new => inFlight'[l] = inFlight[l]
    BY <1>6, RunTypes, GetNextTaskEffect DEF Takes
  <2>2. new \notin HandedOut
    <3>1. HandedOut = startCount + 1 .. dispatchedCount /\ dispatchedCount \in Nat
      BY DEF RInv, IInv, Accounting, TypeOK
    <3> QED
      BY <3>1
  <2>3. \A v \in Workers : worker[v].st = "saved" => worker[v].loop # new
    BY <2>2 DEF RInv, HeldLoops
  <2>4. /\ worker'[w].st = "running"
        /\ \A v \in Workers : v # w => worker'[v] = worker[v]
    BY <1>6, RunTypes DEF Takes
  <2> HIDE DEF new
  <2>5. \A v \in Workers : worker'[v].st = "saved" =>
           /\ worker'[v] = worker[v]
           /\ worker[v].loop \in DOMAIN inFlight' =>
                 /\ worker[v].loop \in DOMAIN inFlight
                 /\ inFlight'[worker[v].loop] = inFlight[worker[v].loop]
    BY <2>1, <2>3, <2>4
  <2> QED
    BY <1>1, <2>5 DEF SavedIsStored
<1>7. ASSUME NEW w \in Workers, NEW success \in BOOLEAN, Save(w, success)
      PROVE  SavedIsStored'
  <2> DEFINE x == worker[w].sample
             loop == worker[w].loop
  <2>1. /\ worker[w].st = "running" /\ x \in Samples
        /\ worker'[w] = [st |-> "saved", loop |-> loop, success |-> success]
        /\ \A v \in Workers : v # w => worker'[v] = worker[v]
        /\ inFlight' = inFlight
        /\ rows[x] \in Seq(BOOLEAN) /\ rows'[x] = Append(rows[x], success)
    <3>1. /\ worker[w].st = "running" /\ x \in Samples
          /\ worker'[w] = [st |-> "saved", loop |-> loop, success |-> success]
          /\ \A v \in Workers : v # w => worker'[v] = worker[v]
          /\ UNCHANGED qvars
          /\ \A s \in Samples :
                rows'[s] = IF s = x THEN Append(rows[s], success) ELSE rows[s]
          /\ \A s \in Samples : rows[s] \in Seq(BOOLEAN)
      BY <1>7, SaveEffect
    <3> QED
      BY <3>1 DEF qvars
  <2>2. ASSUME loop \in DOMAIN inFlight
        PROVE  /\ rows'[inFlight[loop].sample] # <<>>
               /\ success => Successes(rows'[inFlight[loop].sample]) # {}
    <3>1. inFlight[loop].sample = x
      BY <2>1, <2>2 DEF DataInv, RunningHolds
    <3>2. /\ rows'[x] # <<>>
          /\ success => Len(rows[x]) + 1 \in Successes(rows'[x])
      BY <2>1, SuccessesOfMore
    <3> QED
      BY <3>1, <3>2
  <2>3. ASSUME NEW v \in Workers, worker'[v].st = "saved",
               worker'[v].loop \in DOMAIN inFlight'
        PROVE  LET r == rows'[inFlight'[worker'[v].loop].sample]
               IN  r # <<>> /\ (worker'[v].success => Successes(r) # {})
    <3>1. CASE v = w
      BY <2>1, <2>2, <2>3, <3>1
    <3>2. CASE v # w
      BY <1>1, <2>1, <2>3, <3>2
    <3> QED
      BY <3>1, <3>2
  <2> QED
    BY <2>3 DEF SavedIsStored
<1> QED
  BY <1>3, <1>4, <1>5, <1>6, <1>7, StepKinds

\* No step forgets a sample.
LEMMA NextForgetsNone ==
    ASSUME RInv, DataInv, [RunNext]_rvars, CancelsStopped, SavedIsStored,
           NoSampleForgotten, MaxAttempts > 1 \/ ~MayMisroute
    PROVE  NoSampleForgotten'
<1> SUFFICES ASSUME ~stopReason', NEW s \in 1 .. added'
             PROVE  Live(s)' \/ Settled(s)'
  BY DEF NoSampleForgotten
<1>1. ~stopReason
  BY StopReasonStays DEF RInv
<1>2. s \in Samples
  BY DataGrows
<1>3. added' = added => Live(s) \/ Settled(s)'
  BY <1>1, <1>2, SettledStays DEF NoSampleForgotten
<1>4. CASE Quiet
  BY <1>1, <1>4, QuietForgetsNone
<1>5. ASSUME NEW w \in Workers, Takes(w)
      PROVE  Live(s)' \/ Settled(s)'
  <2>1. added' = added
    BY <1>5 DEF Takes, GetNextTask
  <2> QED
    BY <1>3, <1>5, <2>1, TakesForgetsNone
<1>6. ASSUME NEW w \in Workers, NEW success \in BOOLEAN, Ends(w, success)
      PROVE  Live(s)' \/ Settled(s)'
  <2>1. added' = added
    BY <1>6 DEF Ends, ReportCompletion
  <2> QED
    BY <1>2, <1>3, <1>6, <2>1, EndsForgetsNone
<1>7. ASSUME Kept
      PROVE  Live(s)' \/ Settled(s)'
  BY <1>3, <1>7 DEF Kept, Live
<1>8. ASSUME NEW w \in Workers, NEW success \in BOOLEAN, Save(w, success)
      PROVE  Kept
  BY <1>8 DEF Save, qvars, Kept
<1> QED
  BY <1>4, <1>5, <1>6, <1>7, <1>8, StepKinds

\* While the strategy wants more samples, none that it issued is forgotten: it
\* waits, a worker holds it, or its rows or the queue's word settle it.  This
\* needs that the sinks store every row (worker_loop.py stores it before it
\* reports), and, in a queue that allows one attempt only, that no worker
\* refuses a case: report_completion then counts a refused case as finished
\* and does not issue it again.
THEOREM NoSampleForgottenCorrect ==
    ASSUME ~MayLoseRows, MaxAttempts > 1 \/ ~MayMisroute
    PROVE  RunSpec => []NoSampleForgotten
<1> DEFINE Stored == CancelsStopped /\ SavedIsStored /\ NoSampleForgotten
<1>1. RunInit => Stored
  <2> SUFFICES ASSUME RunInit PROVE Stored
    OBVIOUS
  <2>1. CancelsStopped
    BY DEF RunInit, CancelsStopped
  <2>2. SavedIsStored
    BY DEF RunInit, Init, SavedIsStored
  <2>3. NoSampleForgotten
    BY DEF RunInit, Init, NoSampleForgotten
  <2> QED
    BY <2>1, <2>2, <2>3
<1>2. RInv /\ DataInv /\ Stored /\ [RunNext]_rvars => Stored'
  BY StopReasonStays, StoredStep, NextForgetsNone DEF RInv
<1>3. Stored => NoSampleForgotten
  OBVIOUS
<1> QED
  BY <1>1, <1>2, <1>3, DataInvariant, PTL DEF RunSpec
=============================================================================
