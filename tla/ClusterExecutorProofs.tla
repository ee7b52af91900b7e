------------------------ MODULE ClusterExecutorProofs ------------------------
(***************************************************************************)
(* Proofs about ClusterExecutor, for every number of workers, samples and  *)
(* submissions, every limit of cases in flight, and any losses of workers  *)
(* and records: no record is used twice or forgotten, a sample waits for a *)
(* worker at most once, nothing is handed out after a stop, and the sink   *)
(* is given what CaseExecutor promises.                                    *)
(***************************************************************************)
EXTENDS ClusterExecutor, FiniteSetTheorems, SequenceTheorems, TLAPS

\* Samples are submitted in order, and only what was submitted can come back.
OnlySubmitted ==
    /\ \E n \in 0 .. MaxSamples : Submitted = 1 .. n
    /\ done \subseteq Submitted
    /\ \A s \in Samples : taken[s] # "no" => s \in Submitted
    /\ \A i \in DOMAIN log : log[i].sample \in Submitted
    /\ \A c \in inFlight : c.attempt <= submissions[c.sample]
    /\ \A w \in Workers :
          worker[w].st \in {"running", "saved"} =>
              worker[w].case.sample \in Submitted

\* What waits is the latest submission of its sample and in no worker's hands.
WaitingIsLatest ==
    /\ WaitsOnce
    /\ \A i \in DOMAIN queue :
          /\ queue[i] = Latest(queue[i].sample)
          /\ queue[i] \notin inFlight
          /\ taken[queue[i].sample] = "no"

\* Only a sequential run stops, and it cancels what waits before all else.
StopCancels ==
    /\ stopped => sequential
    /\ pc \in {"cancel", "list", "recollect", "drop"} => stopped
    /\ NothingStartsAfterStop

Given == {results[i] : i \in DOMAIN results}

\* The record a sample holds is the only one of it that is not a duplicate; it
\* is given to the sink or set aside as late when the sample is stored.
RecordPlaces ==
    /\ \A s \in Samples :
          record[s] # 0 =>
              /\ s \in done /\ log[record[s]].sample = s
              /\ s \in stored <=> record[s] \in Given \cup late
    /\ \A s \in lost : record[s] = 0
    /\ \A s \in done \ lost : record[s] = 0 => stopped /\ s \in stored
    /\ duplicates = {k \in 1 .. offset : record[log[k].sample] # k}
    /\ \A k \in Given \cup late : record[log[k].sample] = k
    /\ Given \cap late = {}
    /\ ~stopped => late = {}

\* The sink is given records in sample order.  Until a stop what is stored has
\* no gap, and a sequential run has given all of it to the sink.
InSampleOrder ==
    /\ \A i, j \in DOMAIN results :
          i < j => log[results[i]].sample < log[results[j]].sample
    /\ ~stopped =>
          \A s \in stored : \A t \in Submitted : t < s => t \in stored
    /\ sequential /\ ~stopped => stored = 1 .. Len(results)

\* A sample is given up when no submission is left; a run that returns without
\* a stop has stored every sample.
ReturnIsComplete ==
    /\ ~stopped => \A s \in lost : submissions[s] = MaxAttempts
    /\ pc = "returned" /\ ~stopped => stored = Samples

\* The inductive invariant.
EInv ==
    /\ TypeOK
    /\ OnlySubmitted
    /\ WaitingIsLatest
    /\ StopCancels
    /\ RecordPlaces
    /\ InSampleOrder
    /\ ReturnIsComplete

-----------------------------------------------------------------------------
(* What the types say of the parts of the state.                           *)

\* What the types say of the numbers and places that are compared.
LEMMA TypeFacts ==
    ASSUME TypeOK
    PROVE  /\ \A s \in Samples : s \in Nat
           /\ offset \in Nat /\ Len(log) \in Nat /\ offset <= Len(log)
           /\ DOMAIN log = 1 .. Len(log)
           /\ \A i \in DOMAIN log : log[i].sample \in Samples
           /\ Len(queue) \in Nat /\ DOMAIN queue = 1 .. Len(queue)
           /\ \A i \in DOMAIN queue : queue[i] \in Case
           /\ Len(results) \in Nat /\ DOMAIN results = 1 .. Len(results)
           /\ \A i \in DOMAIN results : results[i] \in 1 .. offset
           /\ \A s \in Samples : submissions[s] \in Nat /\ record[s] \in Nat
<1>1. \A s \in Samples : s \in Nat
  BY DEF Samples
<1>2. offset \in Nat /\ Len(log) \in Nat /\ offset <= Len(log)
      /\ DOMAIN log = 1 .. Len(log) /\ log \in Seq(Record)
  BY DEF TypeOK
<1>3. \A i \in DOMAIN log : log[i].sample \in Samples
  <2>1. \A i \in DOMAIN log : log[i] \in Record
    BY <1>2, ElementOfSeq
  <2> QED
    BY <2>1 DEF Record
<1>4. Len(queue) \in Nat /\ DOMAIN queue = 1 .. Len(queue)
      /\ queue \in Seq(Case)
  BY DEF TypeOK
<1>5. \A i \in DOMAIN queue : queue[i] \in Case
  BY <1>4, ElementOfSeq
<1>6. Len(results) \in Nat /\ DOMAIN results = 1 .. Len(results)
      /\ results \in Seq(1 .. offset)
  BY DEF TypeOK
<1>7. \A i \in DOMAIN results : results[i] \in 1 .. offset
  BY <1>6, ElementOfSeq
<1>8. \A s \in Samples : submissions[s] \in Nat /\ record[s] \in Nat
  BY <1>2, SizeAssumption DEF TypeOK
<1> QED
  BY <1>1, <1>2, <1>3, <1>4, <1>5, <1>6, <1>7, <1>8

\* A worker that has a case has a case of the run.
LEMMA HeldCase ==
    ASSUME TypeOK, NEW w \in Workers, worker[w].st \in {"running", "saved"}
    PROVE  /\ worker[w] \in [st : {"running", "saved"}, case : Case]
           /\ worker[w].case \in Case /\ worker[w].case.sample \in Samples
<1>1. worker[w] \in [st : {"idle", "crashed"}]
                      \cup [st : {"running", "saved"}, case : Case]
  BY DEF TypeOK
<1>2. worker[w] \in [st : {"running", "saved"}, case : Case]
  BY <1>1
<1> QED
  BY <1>2 DEF Case

-----------------------------------------------------------------------------
(* What the larger steps do.                                               *)

\* All new records are read: a sample that is not done takes its first one,
\* and the others are duplicates.
LEMMA CollectEffect ==
    ASSUME EInv, Collect
    PROVE  /\ offset' = Len(log)
           /\ record' \in [Samples -> 0 .. Len(log)]
           /\ done \subseteq done' /\ done' \subseteq Submitted
           /\ \A s \in done : record'[s] = record[s]
           /\ \A s \in Samples \ done :
                 /\ record[s] = 0
                 /\ s \in done' <=> record'[s] # 0
                 /\ record'[s] # 0 => /\ record'[s] > offset
                                      /\ log[record'[s]].sample = s
           /\ duplicates' = {k \in 1 .. offset' : record'[log[k].sample] # k}
<1>1. TypeOK /\ OnlySubmitted /\ RecordPlaces
  BY DEF EInv
<1>2. /\ offset \in Nat /\ Len(log) \in Nat /\ offset <= Len(log)
      /\ DOMAIN log = 1 .. Len(log)
      /\ \A i \in DOMAIN log : log[i].sample \in Samples
      /\ \A i \in DOMAIN log : log[i].sample \in Submitted
      /\ record \in [Samples -> 0 .. offset]
      /\ done \subseteq Samples /\ done \subseteq Submitted
  BY <1>1, TypeFacts DEF OnlySubmitted, TypeOK
<1>3. \A k \in FirstRecords : /\ k \in offset + 1 .. Len(log)
                              /\ k \in DOMAIN log
                              /\ log[k].sample \notin done
  BY <1>2 DEF FirstRecords
<1>4. \A k, l \in FirstRecords : log[k].sample = log[l].sample => k = l
  <2> SUFFICES ASSUME NEW k \in FirstRecords, NEW l \in FirstRecords,
                      log[k].sample = log[l].sample
               PROVE  ~(k < l)
    BY <1>2, <1>3
  <2> QED
    BY <1>2, <1>3 DEF FirstRecords
<1>5. /\ offset' = Len(log)
      /\ done' = done \cup {log[i].sample : i \in FirstRecords}
      /\ duplicates' = duplicates \cup ((offset + 1 .. Len(log)) \ FirstRecords)
      /\ record' = [s \in Samples |->
                       IF \E i \in FirstRecords : log[i].sample = s
                       THEN CHOOSE i \in FirstRecords : log[i].sample = s
                       ELSE record[s]]
  BY DEF Collect
<1>6. \A k \in FirstRecords : record'[log[k].sample] = k
  <2> TAKE k \in FirstRecords
  <2> DEFINE first == CHOOSE i \in FirstRecords : log[i].sample = log[k].sample
  <2>1. first \in FirstRecords /\ log[first].sample = log[k].sample
    OBVIOUS
  <2>2. first = k
    BY <1>4, <2>1
  <2>3. log[k].sample \in Samples
    BY <1>2, <1>3
  <2>4. record'[log[k].sample] = first
    BY <1>5, <2>3
  <2> QED
    BY <2>2, <2>4
<1>7. \A s \in Samples :
         \/ \E k \in FirstRecords : log[k].sample = s /\ record'[s] = k
         \/ /\ ~\E k \in FirstRecords : log[k].sample = s
            /\ record'[s] = record[s]
  BY <1>5, <1>6
<1>8. record' \in [Samples -> 0 .. Len(log)]
  <2>1. \A s \in Samples : record'[s] \in 0 .. Len(log)
    BY <1>2, <1>3, <1>7
  <2>2. DOMAIN record' = Samples /\ record' = [s \in Samples |-> record'[s]]
    BY <1>5
  <2> HIDE DEF Collect
  <2> QED
    BY <2>1, <2>2
<1>9. \A s \in done : record'[s] = record[s]
  BY <1>2, <1>3, <1>7
<1>10. \A s \in Samples \ done : record[s] = 0
  BY <1>1 DEF RecordPlaces
<1>11. ASSUME NEW s \in Samples \ done
       PROVE  /\ s \in done' <=> record'[s] # 0
              /\ record'[s] # 0 => /\ record'[s] > offset
                                   /\ log[record'[s]].sample = s
  BY <1>2, <1>3, <1>5, <1>7, <1>10, <1>11
<1>12. duplicates' = {k \in 1 .. Len(log) : record'[log[k].sample] # k}
  <2>1. ASSUME NEW k \in 1 .. offset
        PROVE  k \in duplicates' <=> record'[log[k].sample] # k
    <3>1. k \in duplicates <=> record[log[k].sample] # k
      BY <1>1 DEF RecordPlaces
    <3>2. k \in duplicates' <=> k \in duplicates
      BY <1>2, <1>5
    <3>3. k \in DOMAIN log /\ log[k].sample \in Samples
      BY <1>2
    <3>4. \/ record[log[k].sample] = record'[log[k].sample]
          \/ /\ record[log[k].sample] = 0
             /\ record'[log[k].sample] > offset
      BY <1>7, <1>3, <1>2, <1>10, <3>3
    <3> QED
      BY <1>2, <3>1, <3>2, <3>4
  <2>2. ASSUME NEW k \in offset + 1 .. Len(log)
        PROVE  k \in duplicates' <=> record'[log[k].sample] # k
    <3>1. k \in duplicates' <=> k \notin FirstRecords
      BY <1>1, <1>2, <1>5 DEF RecordPlaces
    <3>2. k \in DOMAIN log /\ log[k].sample \in Samples
      BY <1>2
    <3>3. k \notin FirstRecords => record'[log[k].sample] # k
      BY <1>2, <1>7, <3>2
    <3> QED
      BY <1>6, <3>1, <3>3
  <2>3. duplicates' \subseteq 1 .. Len(log)
    BY <1>1, <1>2, <1>5 DEF RecordPlaces
  <2>4. \A k \in 1 .. Len(log) : k \in 1 .. offset \/ k \in offset + 1 .. Len(log)
    BY <1>2
  <2> DEFINE newer == duplicates'
  <2>5. \A k : k \in newer <=> k \in 1 .. Len(log)
                                 /\ record'[log[k].sample] # k
    BY <2>1, <2>2, <2>3, <2>4
  <2> HIDE DEF newer
  <2>6. newer = {k \in 1 .. Len(log) : record'[log[k].sample] # k}
    BY <2>5
  <2> QED
    BY <2>6 DEF newer
<1>13. done \subseteq done' /\ done' \subseteq Submitted
  BY <1>2, <1>3, <1>5
<1> QED
  BY <1>5, <1>8, <1>9, <1>10, <1>11, <1>12, <1>13

\* The samples whose case did not come back, and those of them submitted again.
Overdue == {s \in Submitted \ done : taken[s] = "overdue"}

Again == {s \in Overdue : Reissues /\ SubmissionLeft(s)}

\* The next submissions of n samples, in some order, are put behind what waits.
PutBehind(n, order) ==
    /\ n \in Nat /\ order \in [1 .. n -> Again]
    /\ \A i, j \in 1 .. n : order[i] = order[j] => i = j
    /\ queue' \in Seq(Case)
    /\ Len(queue') = Len(queue) + n
    /\ \A i \in 1 .. Len(queue) : queue'[i] = queue[i]
    /\ \A i \in Len(queue) + 1 .. Len(queue) + n :
          queue'[i] = [sample |-> order[i - Len(queue)],
                       attempt |-> submissions[order[i - Len(queue)]] + 1]

\* Cases submitted again go behind those that wait, each of another sample.
LEMMA CheckTimeoutsEffect ==
    ASSUME TypeOK, CheckTimeouts
    PROVE  /\ \E n, order : PutBehind(n, order)
           /\ submissions' \in [Samples -> 0 .. MaxAttempts]
           /\ \A s \in Again : submissions'[s] = submissions[s] + 1
           /\ \A s \in Samples \ Again : submissions'[s] = submissions[s]
           /\ Again \subseteq Overdue /\ Overdue \subseteq Submitted \ done
           /\ done' = done \cup (Overdue \ Again)
           /\ lost' = lost \cup (Overdue \ Again)
<1> DEFINE n == Cardinality(Again)
<1>1. /\ \A s \in Samples : s \in Nat
      /\ \A s \in Samples : submissions[s] \in 0 .. MaxAttempts
      /\ Again \subseteq Overdue /\ Overdue \subseteq Submitted \ done
      /\ Submitted \subseteq Samples
      /\ queue \in Seq(Case)
      /\ MaxAttempts \in Nat
  BY TypeFacts, SizeAssumption DEF TypeOK, Again, Overdue, Submitted
<1>2. n \in Nat
  <2>1. 1 \in Int /\ MaxSamples \in Int
    BY SizeAssumption
  <2>2. IsFiniteSet(Samples)
    BY <2>1, FS_Interval DEF Samples
  <2>3. IsFiniteSet(Again)
    BY <1>1, <2>2, FS_Subset
  <2> QED
    BY <2>3, FS_CardinalityType
<1>3. \A s \in Again : submissions[s] + 1 \in 1 .. MaxAttempts
  BY <1>1 DEF Again, SubmissionLeft
<1>4. submissions' = [s \in Samples |->
                         submissions[s] + IF s \in Again THEN 1 ELSE 0]
  BY DEF CheckTimeouts, Again, Overdue
<1>5. /\ submissions' \in [Samples -> 0 .. MaxAttempts]
      /\ \A s \in Again : submissions'[s] = submissions[s] + 1
      /\ \A s \in Samples \ Again : submissions'[s] = submissions[s]
  <2>1. \A s \in Again : s \in Samples /\ submissions'[s] = submissions[s] + 1
    BY <1>1, <1>4
  <2>2. \A s \in Samples \ Again : submissions'[s] = submissions[s]
    BY <1>1, <1>4
  <2>3. \A s \in Samples : submissions'[s] \in 0 .. MaxAttempts
    BY <1>1, <1>3, <2>1, <2>2
  <2> QED
    BY <1>4, <2>1, <2>2, <2>3
<1>6. /\ done' = done \cup (Overdue \ Again)
      /\ lost' = lost \cup (Overdue \ Again)
  BY DEF CheckTimeouts, Again, Overdue
<1>7. PICK order \in InOrder(Again) :
         queue' = queue \o [i \in 1 .. n |->
                               [sample |-> order[i],
                                attempt |-> submissions[order[i]] + 1]]
  BY DEF CheckTimeouts, Again, Overdue
<1>8. /\ order \in [1 .. n -> Again]
      /\ \A i, j \in 1 .. n : i < j => order[i] < order[j]
  BY <1>7 DEF InOrder
<1>9. \A i, j \in 1 .. n : order[i] = order[j] => i = j
  <2>1. \A i \in 1 .. n : order[i] \in Nat
    BY <1>1, <1>8
  <2> HIDE DEF n
  <2> QED
    BY <1>2, <1>8, <2>1
<1> DEFINE new == [i \in 1 .. n |-> [sample |-> order[i],
                                     attempt |-> submissions[order[i]] + 1]]
<1>10. new \in Seq(Case) /\ Len(new) = n
  <2>1. \A i \in 1 .. n : [sample |-> order[i],
                           attempt |-> submissions[order[i]] + 1] \in Case
    BY <1>1, <1>3, <1>8 DEF Case
  <2> HIDE DEF n
  <2> QED
    BY <1>2, <2>1, IsASeq
<1>11. /\ queue' \in Seq(Case)
       /\ Len(queue') = Len(queue) + n
       /\ \A i \in 1 .. Len(queue) + n :
             queue'[i] = IF i <= Len(queue) THEN queue[i]
                         ELSE new[i - Len(queue)]
  <2> HIDE DEF new, n
  <2>1. queue' = queue \o new
    BY <1>7 DEF new
  <2> QED
    BY <1>1, <1>10, <2>1, ConcatProperties
<1>12. Len(queue) \in Nat
  BY <1>1
<1>13. \A i \in 1 .. Len(queue) : queue'[i] = queue[i]
  <2> HIDE DEF new, n
  <2> QED
    BY <1>2, <1>11, <1>12
<1>14. \A i \in Len(queue) + 1 .. Len(queue) + n :
          queue'[i] = [sample |-> order[i - Len(queue)],
                       attempt |-> submissions[order[i - Len(queue)]] + 1]
  <2> SUFFICES ASSUME NEW i \in Len(queue) + 1 .. Len(queue) + n
               PROVE  queue'[i] = new[i - Len(queue)] /\ i - Len(queue) \in 1 .. n
    OBVIOUS
  <2> HIDE DEF new, n
  <2> QED
    BY <1>2, <1>11, <1>12
<1> QED
  <2> HIDE DEF n
  <2>1. /\ n \in Nat /\ order \in [1 .. n -> Again]
        /\ \A i, j \in 1 .. n : order[i] = order[j] => i = j
        /\ queue' \in Seq(Case)
        /\ Len(queue') = Len(queue) + n
    BY <1>2, <1>8, <1>9, <1>11
  <2>2. PutBehind(n, order)
    BY <2>1, <1>13, <1>14 DEF PutBehind
  <2> QED
    BY <1>1, <1>5, <1>6, <2>2

\* The next sample in order is submitted.
LEMMA SubmitEffect ==
    ASSUME TypeOK, OnlySubmitted, Submit
    PROVE  \E s \in Samples :
              /\ Submitted = 1 .. s - 1 /\ submissions[s] = 0
              /\ submissions' = [submissions EXCEPT ![s] = 1]
              /\ queue' \in Seq(Case)
              /\ Len(queue') = Len(queue) + 1
              /\ \A i \in 1 .. Len(queue) : queue'[i] = queue[i]
              /\ queue'[Len(queue) + 1] = [sample |-> s, attempt |-> 1]
<1>1. PICK n \in 0 .. MaxSamples : Submitted = 1 .. n
  BY DEF OnlySubmitted
<1>2. n \in Nat /\ MaxSamples \in Nat
  BY SizeAssumption
<1>3. Cardinality(Submitted) = n
  <2>1. 1 \in Int /\ n \in Int
    BY <1>2
  <2>2. Cardinality(1 .. n) = IF 1 > n THEN 0 ELSE n - 1 + 1
    BY <2>1, FS_Interval
  <2> QED
    BY <1>1, <1>2, <2>2
<1>4. n + 1 \in Samples
  <2>1. n # MaxSamples
    BY <1>1 DEF Submit, MaySubmit, Samples
  <2> QED
    BY <1>2, <2>1 DEF Samples
<1>5. n + 1 \notin Submitted /\ submissions[n + 1] = 0
  <2>1. n + 1 \notin Submitted
    BY <1>1, <1>2
  <2>2. submissions[n + 1] \in Nat
    BY <1>4, TypeFacts
  <2> QED
    BY <1>4, <2>1, <2>2 DEF Submitted
<1>6. /\ submissions' = [submissions EXCEPT ![n + 1] = 1]
      /\ queue' = Append(queue, [sample |-> n + 1, attempt |-> 1])
  BY <1>3 DEF Submit
<1>7. [sample |-> n + 1, attempt |-> 1] \in Case
  BY <1>4, SizeAssumption DEF Case
<1>8. queue \in Seq(Case)
  BY DEF TypeOK
<1>9. /\ queue' \in Seq(Case)
      /\ Len(queue') = Len(queue) + 1
      /\ \A i \in 1 .. Len(queue) : queue'[i] = queue[i]
      /\ queue'[Len(queue) + 1] = [sample |-> n + 1, attempt |-> 1]
  BY <1>6, <1>7, <1>8, AppendProperties
<1>10. Submitted = 1 .. (n + 1) - 1
  BY <1>1, <1>2
<1> QED
  BY <1>4, <1>5, <1>6, <1>9, <1>10

\* A worker takes the first case that waits.
LEMMA FetchEffect ==
    ASSUME TypeOK, NEW w \in Workers, Fetch(w)
    PROVE  /\ Len(queue) > 0 /\ 1 \in DOMAIN queue
           /\ queue' \in Seq(Case)
           /\ Len(queue') = Len(queue) - 1
           /\ \A i \in 1 .. Len(queue') : queue'[i] = queue[i + 1]
           /\ inFlight' = inFlight \cup {queue[1]}
           /\ worker' = [worker EXCEPT ![w] =
                            [st |-> "running", case |-> queue[1]]]
<1>1. queue \in Seq(Case) /\ queue # <<>>
  BY DEF TypeOK, Fetch
<1>2. Head(queue) = queue[1] /\ Len(queue) > 0 /\ 1 \in DOMAIN queue
  BY <1>1, EmptySeq
<1>3. /\ Tail(queue) \in Seq(Case)
      /\ Len(Tail(queue)) = Len(queue) - 1
      /\ \A i \in 1 .. Len(Tail(queue)) : Tail(queue)[i] = queue[i + 1]
  BY <1>1, HeadTailProperties
<1> QED
  BY <1>2, <1>3 DEF Fetch

-----------------------------------------------------------------------------
(* Every step preserves each part of the invariant.                        *)

\* Reading records changes what is known of samples, and where the file is
\* read from.
LEMMA CollectTypes ==
    ASSUME EInv, Collect, pc' \in {"store", "drop"}
    PROVE  TypeOK'
<1>1. TypeOK
  BY DEF EInv
<1>2. /\ offset' = Len(log)
      /\ record' \in [Samples -> 0 .. offset']
      /\ done \subseteq done' /\ done' \subseteq Submitted
      /\ duplicates' \subseteq 1 .. offset'
  BY CollectEffect
<1>3. offset \in Nat /\ Len(log) \in Nat /\ offset <= Len(log)
  BY <1>1, TypeFacts
<1>4. 1 .. offset \subseteq 1 .. Len(log) /\ offset' \in 0 .. Len(log)
  BY <1>2, <1>3
<1>5. results \in Seq(1 .. Len(log))
  BY <1>1, <1>4, SeqMonotonic DEF TypeOK
<1>6. UNCHANGED <<sequential, submissions, taken, lost, stored, results, late,
                  stopped, listed, log, queue, inFlight, worker, faults>>
  BY DEF Collect, wvars
<1>7. done' \in SUBSET Samples /\ lost' \in SUBSET done'
      /\ stored' \in SUBSET done'
  BY <1>1, <1>2, <1>6 DEF TypeOK, Submitted
<1>8. /\ results' \in Seq(1 .. offset') /\ late' \in SUBSET (1 .. offset')
      /\ duplicates' \in SUBSET (1 .. offset')
      /\ offset' \in 0 .. Len(log')
  BY <1>1, <1>2, <1>4, <1>5, <1>6 DEF TypeOK
<1> QED
  BY <1>1, <1>2, <1>6, <1>7, <1>8 DEF TypeOK

\* The executor's steps keep the types.
LEMMA ExecutorTypes ==
    ASSUME EInv, Executor
    PROVE  TypeOK'
<1>1. TypeOK /\ RecordPlaces /\ OnlySubmitted
  BY DEF EInv
<1> USE DEF wvars
<1>2. CASE Submit
  <2>1. PICK s \in Samples :
           /\ submissions' = [submissions EXCEPT ![s] = 1]
           /\ queue' \in Seq(Case)
    BY <1>1, <1>2, SubmitEffect
  <2>2. 1 \in 0 .. MaxAttempts
    BY SizeAssumption
  <2>3. submissions' \in [Samples -> 0 .. MaxAttempts]
    BY <1>1, <2>1, <2>2 DEF TypeOK
  <2> QED
    BY <1>1, <1>2, <2>1, <2>3 DEF Submit, TypeOK
<1>3. CASE CollectRecords \/ Recollect
  BY <1>3, CollectTypes DEF CollectRecords, Recollect
<1>4. CASE StoreNext
  <2>1. PICK s \in done \ lost :
           /\ IsNext(s)
           /\ results' = Append(results, record[s])
           /\ stored' = stored \cup {s}
    BY <1>4 DEF StoreNext
  <2>2. record[s] # 0 /\ record[s] \in 1 .. offset
    <3>1. s \in Samples /\ s \notin stored /\ s \in done \ lost
      BY <1>1, <2>1 DEF IsNext, Submitted
    <3>2. record[s] # 0
      BY <1>1, <3>1 DEF RecordPlaces
    <3>3. record[s] \in 0 .. offset /\ offset \in Nat
      BY <1>1, <3>1, TypeFacts DEF TypeOK
    <3> QED
      BY <3>2, <3>3
  <2>3. results' \in Seq(1 .. offset)
    BY <1>1, <2>1, <2>2, AppendProperties DEF TypeOK
  <2>4. stored' \in SUBSET done /\ stopped' \in BOOLEAN
        /\ pc' \in {"cancel", "store"}
    BY <1>1, <1>4, <2>1 DEF TypeOK, StoreNext
  <2> QED
    BY <1>1, <1>4, <2>3, <2>4 DEF StoreNext, TypeOK
<1>5. CASE PassLost
  <2>1. stored' \in SUBSET done /\ pc' \in {"raised", "store"}
    BY <1>1, <1>5 DEF PassLost, TypeOK
  <2> QED
    BY <1>1, <1>5, <2>1 DEF PassLost, TypeOK
<1>6. CASE Cancel
  BY <1>1, <1>6, EmptySeq DEF Cancel, TypeOK
<1>7. CASE List
  BY <1>1, <1>7 DEF List, TypeOK
<1>8. CASE Drop
  <2>1. /\ done' \in SUBSET Samples /\ lost \in SUBSET done'
        /\ stored' \in SUBSET done'
    BY <1>1, <1>8 DEF Drop, TypeOK, Untaken, Submitted
  <2> QED
    BY <1>1, <1>8, <2>1 DEF Drop, TypeOK
<1>9. CASE Settle
  <2>1. late' \in SUBSET (1 .. offset)
    <3>1. \A s \in Samples : record[s] \in 0 .. offset /\ offset \in Nat
      BY <1>1, TypeFacts DEF TypeOK
    <3>2. {record[s] : s \in {t \in done \ stored : record[t] # 0}}
             \subseteq 1 .. offset
      BY <1>1, <3>1 DEF TypeOK
    <3> QED
      BY <1>1, <1>9, <3>2 DEF Settle, TypeOK
  <2>2. stored' \in SUBSET done /\ pc' \in {"returned", "timeouts"}
    BY <1>1, <1>9 DEF Settle, TypeOK
  <2> QED
    BY <1>1, <1>9, <2>1, <2>2 DEF Settle, TypeOK
<1>10. CASE CheckTimeouts
  <2>1. /\ submissions' \in [Samples -> 0 .. MaxAttempts]
        /\ queue' \in Seq(Case)
        /\ Overdue \subseteq Submitted \ done
        /\ done' = done \cup (Overdue \ Again)
        /\ lost' = lost \cup (Overdue \ Again)
    BY <1>1, <1>10, CheckTimeoutsEffect DEF PutBehind
  <2>2. taken' \in [Samples -> {"no", "seen", "overdue"}]
    <3> DEFINE new(s) ==
          IF s \in Again THEN "no"
          ELSE IF s \in Submitted \ done /\ taken[s] = "no" /\ IsTaken(s)
          THEN "seen" ELSE taken[s]
    <3>1. \A s \in Samples : new(s) \in {"no", "seen", "overdue"}
      BY <1>1 DEF TypeOK
    <3>2. taken' = [s \in Samples |-> new(s)]
      BY <1>10 DEF CheckTimeouts, Again, Overdue
    <3> QED
      BY <3>1, <3>2
  <2>3. /\ done' \in SUBSET Samples /\ lost' \in SUBSET done'
        /\ stored \in SUBSET done'
    BY <1>1, <2>1 DEF TypeOK, Submitted
  <2>4. UNCHANGED <<sequential, stored, record, results, duplicates, late,
                    stopped, listed, offset, log, inFlight, worker, faults>>
        /\ pc' \in {"returned", "submit"}
    BY <1>10 DEF CheckTimeouts
  <2> QED
    BY <1>1, <2>1, <2>2, <2>3, <2>4 DEF TypeOK
<1> QED
  BY <1>2, <1>3, <1>4, <1>5, <1>6, <1>7, <1>8, <1>9, <1>10 DEF Executor

\* So do those of the clocks and the workers, and stuttering.
LEMMA OtherTypes ==
    ASSUME TypeOK,
           \/ UNCHANGED vars
           \/ \E s \in Samples : TimePasses(s)
           \/ \E w \in Workers : Work(w) \/ Crash(w)
    PROVE  TypeOK'
<1> USE DEF wvars, evars
<1>1. ASSUME NEW w \in Workers,
             NEW new \in [st : {"idle", "crashed"}]
                            \cup [st : {"running", "saved"}, case : Case],
             worker' = [worker EXCEPT ![w] = new]
      PROVE  worker' \in [Workers -> [st : {"idle", "crashed"}]
                            \cup [st : {"running", "saved"}, case : Case]]
  BY <1>1 DEF TypeOK
<1>2. ASSUME NEW s \in Samples, TimePasses(s)
      PROVE  TypeOK'
  <2>1. taken' \in [Samples -> {"no", "seen", "overdue"}]
    BY <1>2 DEF TypeOK, TimePasses
  <2> QED
    BY <1>2, <2>1 DEF TypeOK, TimePasses
<1>3. ASSUME NEW w \in Workers, Fetch(w)
      PROVE  TypeOK'
  <2>1. /\ 1 \in DOMAIN queue
        /\ queue' \in Seq(Case)
        /\ inFlight' = inFlight \cup {queue[1]}
        /\ worker' = [worker EXCEPT ![w] = [st |-> "running", case |-> queue[1]]]
    BY <1>3, FetchEffect
  <2>2. queue[1] \in Case
    BY <2>1, TypeFacts
  <2>3. worker' \in [Workers -> [st : {"idle", "crashed"}]
                            \cup [st : {"running", "saved"}, case : Case]]
    BY <1>1, <2>1, <2>2
  <2> QED
    BY <1>3, <2>1, <2>2, <2>3 DEF Fetch, TypeOK
<1>4. ASSUME NEW w \in Workers, NEW ok \in BOOLEAN, Save(w, ok)
      PROVE  TypeOK'
  <2>1. worker[w].case \in Case /\ worker[w].case.sample \in Samples
    BY <1>4, HeldCase DEF Save
  <2>2. worker' \in [Workers -> [st : {"idle", "crashed"}]
                            \cup [st : {"running", "saved"}, case : Case]]
    BY <1>1, <1>4, <2>1 DEF Save
  <2>3. log' \in Seq(Record) /\ Len(log) <= Len(log') /\ Len(log') \in Nat
    <3>1. log \in Seq(Record) /\ Len(log) \in Nat
      BY DEF TypeOK
    <3>2. [sample |-> worker[w].case.sample, ok |-> ok] \in Record
      BY <2>1 DEF Record
    <3>3. CASE log' = Append(log, [sample |-> worker[w].case.sample, ok |-> ok])
      BY <3>1, <3>2, <3>3, AppendProperties
    <3> QED
      BY <1>4, <3>1, <3>3 DEF Save
  <2>4. faults' \in 0 .. MaxFaults
    BY <1>4, SizeAssumption DEF Save, TypeOK
  <2>5. offset' \in 0 .. Len(log')
    <3>1. offset' = offset
      BY <1>4 DEF Save
    <3> QED
      BY <2>3, <3>1, TypeFacts
  <2>6. UNCHANGED <<evars, queue, inFlight>>
    BY <1>4 DEF Save
  <2> QED
    BY <2>2, <2>3, <2>4, <2>5, <2>6 DEF TypeOK
<1>5. ASSUME NEW w \in Workers, Report(w)
      PROVE  TypeOK'
  BY <1>1, <1>5 DEF Report, TypeOK, Idle
<1>6. ASSUME NEW w \in Workers, Crash(w)
      PROVE  TypeOK'
  <2>1. faults' \in 0 .. MaxFaults
    BY <1>6, SizeAssumption DEF Crash, TypeOK
  <2> QED
    BY <1>1, <1>6, <2>1 DEF Crash, TypeOK
<1>7. CASE UNCHANGED vars
  BY <1>7 DEF vars, TypeOK
<1> QED
  BY <1>2, <1>3, <1>4, <1>5, <1>6, <1>7 DEF Work

\* Samples are only ever submitted more often, a new one after all others.
LEMMA SubmissionsGrow ==
    ASSUME EInv, [Next]_vars
    PROVE  /\ Submitted \subseteq Submitted'
           /\ ~Submit => Submitted' = Submitted
           /\ \E n \in 0 .. MaxSamples : Submitted' = 1 .. n
           /\ \A s \in Samples : submissions[s] <= submissions'[s]
<1>1. /\ TypeOK /\ OnlySubmitted
      /\ \A s \in Samples : submissions[s] \in Nat
      /\ submissions \in [Samples -> 0 .. MaxAttempts]
  BY TypeFacts DEF EInv, TypeOK
<1>2. PICK n \in 0 .. MaxSamples : Submitted = 1 .. n
  BY <1>1 DEF OnlySubmitted
<1>3. CASE Submit
  <2>1. PICK s \in Samples : /\ Submitted = 1 .. s - 1 /\ submissions[s] = 0
                             /\ submissions' = [submissions EXCEPT ![s] = 1]
    BY <1>1, <1>3, SubmitEffect
  <2>2. Submitted' = Submitted \cup {s}
    BY <1>1, <2>1 DEF Submitted
  <2>3. Submitted' = 1 .. s
    BY <2>1, <2>2 DEF Samples
  <2>4. s \in 0 .. MaxSamples
    BY SizeAssumption DEF Samples
  <2> QED
    BY <1>1, <1>3, <2>1, <2>2, <2>3, <2>4
<1>4. CASE CheckTimeouts
  <2>1. /\ \A s \in Again : submissions'[s] = submissions[s] + 1
        /\ \A s \in Samples \ Again : submissions'[s] = submissions[s]
        /\ Again \subseteq Submitted
    BY <1>1, <1>4, CheckTimeoutsEffect
  <2>2. \A s \in Samples : /\ submissions[s] <= submissions'[s]
                           /\ submissions'[s] > 0 <=> submissions[s] > 0
    BY <1>1, <2>1 DEF Submitted
  <2>3. Submitted' = Submitted
    BY <2>2 DEF Submitted
  <2> QED
    BY <1>2, <2>2, <2>3
<1>5. CASE UNCHANGED submissions
  <2>1. Submitted' = Submitted
    BY <1>5 DEF Submitted
  <2> QED
    BY <1>1, <1>2, <1>5, <2>1
<1>6. Submit \/ CheckTimeouts \/ UNCHANGED submissions
  BY DEF Next, Executor, CollectRecords, Recollect, Collect, StoreNext, PassLost,
     Cancel, List, Drop, Settle, TimePasses, Work, Fetch, Save, Report, Crash,
     evars, vars
<1> QED
  BY <1>3, <1>4, <1>5, <1>6 DEF Submit

\* A step brings news only of samples that were submitted.
LEMMA OnlySubmittedStep ==
    ASSUME EInv, [Next]_vars
    PROVE  OnlySubmitted'
<1>1. TypeOK /\ OnlySubmitted
  BY DEF EInv
<1>2. /\ Submitted \subseteq Submitted'
      /\ \E n \in 0 .. MaxSamples : Submitted' = 1 .. n
      /\ \A s \in Samples : submissions[s] <= submissions'[s]
      /\ ~Submit => Submitted' = Submitted
  BY SubmissionsGrow
<1> DEFINE Kept ==
      /\ done' \subseteq Submitted
      /\ \A s \in Samples : taken'[s] # "no" => s \in Submitted
      /\ \A i \in DOMAIN log' : log'[i].sample \in Submitted
      /\ \A c \in inFlight' : /\ c \in Case
                              /\ c.attempt <= submissions[c.sample]
      /\ \A w \in Workers :
            worker'[w].st \in {"running", "saved"} =>
                worker'[w].case.sample \in Submitted
<1>3. ASSUME Kept
      PROVE  OnlySubmitted'
  <2>1. \A c \in inFlight' : c.attempt <= submissions'[c.sample]
    <3> SUFFICES ASSUME NEW c \in inFlight'
                 PROVE  c.attempt <= submissions'[c.sample]
      OBVIOUS
    <3>1. /\ c.sample \in Samples /\ c.attempt \in Nat
          /\ c.attempt <= submissions[c.sample]
      BY <1>3, SizeAssumption DEF Case
    <3>2. submissions[c.sample] \in Nat /\ submissions'[c.sample] \in Nat
      <4>1. submissions'[c.sample] \in 0 .. MaxAttempts
        BY <3>1, ExecutorTypes, OtherTypes, <1>1 DEF Next, TypeOK
      <4> QED
        BY <1>1, <3>1, <4>1, TypeFacts, SizeAssumption
    <3> QED
      BY <1>2, <3>1, <3>2
  <2> QED
    BY <1>2, <1>3, <2>1 DEF OnlySubmitted
<1>4. Submitted \subseteq Samples /\ inFlight \subseteq Case
  BY <1>1 DEF Submitted, TypeOK
<1>5. CASE UNCHANGED <<done, taken, log, inFlight, worker>>
  BY <1>1, <1>3, <1>4, <1>5 DEF OnlySubmitted
<1>6. CASE CollectRecords \/ Recollect
  <2>1. done' \subseteq Submitted
    BY <1>6, CollectEffect DEF CollectRecords, Recollect
  <2>2. UNCHANGED <<taken, log, inFlight, worker>>
    BY <1>6 DEF CollectRecords, Recollect, Collect, wvars
  <2> QED
    BY <1>1, <1>3, <1>4, <2>1, <2>2 DEF OnlySubmitted
<1>7. CASE Drop
  <2>1. done' \subseteq Submitted /\ UNCHANGED <<taken, log, inFlight, worker>>
    BY <1>1, <1>7 DEF Drop, Untaken, OnlySubmitted, wvars
  <2> QED
    BY <1>1, <1>3, <1>4, <2>1 DEF OnlySubmitted
<1>8. CASE CheckTimeouts
  <2>1. done' \subseteq Submitted
    BY <1>1, <1>8, CheckTimeoutsEffect DEF OnlySubmitted
  <2>2. \A s \in Samples : taken'[s] # "no" => taken[s] # "no" \/ s \in Submitted
    BY <1>8 DEF CheckTimeouts
  <2>3. UNCHANGED <<log, inFlight, worker>>
    BY <1>8 DEF CheckTimeouts
  <2> QED
    BY <1>1, <1>3, <1>4, <2>1, <2>2, <2>3 DEF OnlySubmitted
<1>9. ASSUME NEW s \in Samples, TimePasses(s)
      PROVE  OnlySubmitted'
  <2>1. \A t \in Samples : taken'[t] # "no" => taken[t] # "no"
    BY <1>1, <1>9 DEF TimePasses, TypeOK
  <2>2. UNCHANGED <<done, log, inFlight, worker>>
    BY <1>9 DEF TimePasses, wvars
  <2> QED
    BY <1>1, <1>3, <1>4, <2>1, <2>2 DEF OnlySubmitted
<1>10. ASSUME NEW w \in Workers, Fetch(w)
       PROVE  OnlySubmitted'
  <2>1. /\ 1 \in DOMAIN queue
        /\ inFlight' = inFlight \cup {queue[1]}
        /\ worker' = [worker EXCEPT ![w] = [st |-> "running", case |-> queue[1]]]
    BY <1>1, <1>10, FetchEffect
  <2>2. queue[1] \in Case /\ queue[1] = Latest(queue[1].sample)
    BY <1>1, <2>1, TypeFacts DEF EInv, WaitingIsLatest
  <2>3. /\ queue[1].sample \in Samples
        /\ queue[1].attempt = submissions[queue[1].sample]
        /\ queue[1].attempt \in 1 .. MaxAttempts
        /\ submissions[queue[1].sample] \in Nat
    <3>1. queue[1].sample \in Samples /\ queue[1].attempt \in 1 .. MaxAttempts
      BY <2>2 DEF Case
    <3>2. Latest(queue[1].sample).attempt = submissions[queue[1].sample]
      BY DEF Latest
    <3> QED
      BY <1>1, <2>2, <3>1, <3>2, TypeFacts
  <2>4. queue[1].sample \in Submitted
    BY <2>3 DEF Submitted
  <2>5. \A v \in Workers :
           worker'[v].st \in {"running", "saved"} =>
               worker'[v].case.sample \in Submitted
    BY <1>1, <2>1, <2>4 DEF OnlySubmitted, TypeOK
  <2>6. UNCHANGED <<done, taken, log>>
    BY <1>10 DEF Fetch, evars
  <2> QED
    BY <1>1, <1>3, <1>4, <2>1, <2>2, <2>3, <2>5, <2>6 DEF OnlySubmitted
<1>11. ASSUME NEW w \in Workers, NEW ok \in BOOLEAN, Save(w, ok)
       PROVE  OnlySubmitted'
  <2>1. worker[w].case.sample \in Submitted
    BY <1>1, <1>11 DEF Save, OnlySubmitted
  <2>2. \A i \in DOMAIN log' : log'[i].sample \in Submitted
    <3> DEFINE new == [sample |-> worker[w].case.sample, ok |-> ok]
    <3>1. log \in Seq(Record) /\ new \in Record /\ new.sample \in Submitted
      BY <1>1, <1>4, <2>1 DEF TypeOK, Record
    <3>2. CASE log' = Append(log, new)
      <4> HIDE DEF new
      <4> QED
        BY <1>1, <3>1, <3>2, AppendProperties DEF OnlySubmitted
    <3> QED
      BY <1>1, <1>11, <3>2 DEF Save, OnlySubmitted
  <2>3. \A v \in Workers :
           worker'[v].st \in {"running", "saved"} =>
               worker'[v].case.sample \in Submitted
    BY <1>1, <1>11, <2>1 DEF Save, OnlySubmitted, TypeOK
  <2>4. UNCHANGED <<done, taken, inFlight>>
    BY <1>11 DEF Save, evars
  <2> QED
    BY <1>1, <1>3, <1>4, <2>2, <2>3, <2>4 DEF OnlySubmitted
<1>12. ASSUME NEW w \in Workers, Report(w) \/ Crash(w)
       PROVE  OnlySubmitted'
  <2>1. \A v \in Workers :
           worker'[v].st \in {"running", "saved"} =>
               worker'[v].case.sample \in Submitted
    <3>1. PICK st \in {"idle", "crashed"} :
             worker' = [worker EXCEPT ![w] = [st |-> st]]
      BY <1>12 DEF Report, Crash, Idle
    <3>2. worker \in [Workers -> [st : {"idle", "crashed"}]
                            \cup [st : {"running", "saved"}, case : Case]]
      BY <1>1 DEF TypeOK
    <3>3. \A v \in Workers :
             worker'[v] = IF v = w THEN [st |-> st] ELSE worker[v]
      BY <3>1, <3>2
    <3>4. [st |-> st].st \notin {"running", "saved"}
      BY <3>1
    <3> QED
      BY <1>1, <3>3, <3>4 DEF OnlySubmitted
  <2>2. inFlight' \subseteq inFlight /\ UNCHANGED <<done, taken, log>>
    BY <1>12 DEF Report, Crash, evars
  <2> QED
    BY <1>1, <1>3, <1>4, <2>1, <2>2 DEF OnlySubmitted
<1>13. CASE UNCHANGED vars
  BY <1>5, <1>13 DEF vars, evars, wvars
<1>14. CASE Submit \/ StoreNext \/ PassLost \/ Cancel \/ List \/ Settle
  BY <1>5, <1>14 DEF Submit, StoreNext, PassLost, Cancel, List, Settle, wvars
<1> QED
  BY <1>6, <1>7, <1>8, <1>9, <1>10, <1>11, <1>12, <1>13, <1>14
  DEF Next, Executor, Work

\* A sample that is taken, or was never submitted, does not wait; so neither a
\* new sample nor one that is submitted again waits twice.
LEMMA WaitingIsLatestStep ==
    ASSUME EInv, [Next]_vars, TypeOK'
    PROVE  WaitingIsLatest'
<1>1. /\ TypeOK /\ OnlySubmitted /\ WaitingIsLatest
      /\ Len(queue) \in Nat /\ DOMAIN queue = 1 .. Len(queue)
      /\ \A i \in DOMAIN queue : queue[i] \in Case
      /\ Len(queue') \in Nat /\ DOMAIN queue' = 1 .. Len(queue')
      /\ \A s \in Samples : submissions[s] \in Nat
  BY TypeFacts DEF EInv, TypeOK
<1>2. \A i \in DOMAIN queue :
         /\ queue[i].sample \in Samples /\ queue[i].sample \in Submitted
         /\ queue[i].attempt = submissions[queue[i].sample]
         /\ queue[i] \notin inFlight
         /\ taken[queue[i].sample] = "no"
  <2> SUFFICES ASSUME NEW i \in DOMAIN queue
               PROVE  /\ queue[i].sample \in Samples
                      /\ queue[i].sample \in Submitted
                      /\ queue[i].attempt = submissions[queue[i].sample]
    BY <1>1 DEF WaitingIsLatest
  <2>1. queue[i].sample \in Samples /\ queue[i].attempt \in 1 .. MaxAttempts
    BY <1>1 DEF Case
  <2>2. queue[i].attempt = submissions[queue[i].sample]
    BY <1>1 DEF WaitingIsLatest, Latest
  <2> QED
    BY <1>1, <2>1, <2>2 DEF Submitted
<1>3. \A c \in inFlight : /\ c \in Case /\ c.sample \in Samples
                          /\ c.attempt \in Nat
                          /\ c.attempt <= submissions[c.sample]
  BY <1>1, SizeAssumption DEF OnlySubmitted, TypeOK, Case
<1>4. ASSUME \A i, j \in DOMAIN queue' :
                queue'[i].sample = queue'[j].sample => i = j,
             \A i \in DOMAIN queue' :
                /\ queue'[i] = [sample |-> queue'[i].sample,
                                attempt |-> submissions'[queue'[i].sample]]
                /\ queue'[i] \notin inFlight'
                /\ taken'[queue'[i].sample] = "no"
      PROVE  WaitingIsLatest'
  BY <1>4 DEF WaitingIsLatest, WaitsOnce, Latest
<1>5. ASSUME UNCHANGED <<queue, submissions>>, inFlight' \subseteq inFlight,
             \A i \in DOMAIN queue : taken'[queue[i].sample] = "no"
      PROVE  WaitingIsLatest'
  BY <1>1, <1>4, <1>5 DEF WaitingIsLatest, WaitsOnce, Latest
<1>6. CASE Submit
  <2>1. PICK s \in Samples :
           /\ Submitted = 1 .. s - 1 /\ submissions[s] = 0
           /\ submissions' = [submissions EXCEPT ![s] = 1]
           /\ Len(queue') = Len(queue) + 1
           /\ \A i \in 1 .. Len(queue) : queue'[i] = queue[i]
           /\ queue'[Len(queue) + 1] = [sample |-> s, attempt |-> 1]
    BY <1>1, <1>6, SubmitEffect
  <2>2. s \notin Submitted /\ taken[s] = "no"
    BY <1>1, <2>1 DEF Submitted, OnlySubmitted
  <2>3. UNCHANGED <<inFlight, taken>>
    BY <1>6 DEF Submit
  <2>4. submissions'[s] = 1
        /\ \A t \in Samples : t # s => submissions'[t] = submissions[t]
    BY <1>1, <2>1 DEF TypeOK
  <2>5. [sample |-> s, attempt |-> 1] \notin inFlight
    BY <1>3, <2>1
  <2>6. \A i \in DOMAIN queue :
           /\ queue'[i] = queue[i] /\ queue[i].sample # s
           /\ queue'[i] = [sample |-> queue'[i].sample,
                           attempt |-> submissions'[queue'[i].sample]]
           /\ queue'[i] \notin inFlight'
           /\ taken'[queue'[i].sample] = "no"
    BY <1>1, <1>2, <2>1, <2>2, <2>3, <2>4 DEF Case
  <2>7. \A i \in DOMAIN queue' : i \in DOMAIN queue \/ i = Len(queue) + 1
    BY <1>1, <2>1
  <2>8. queue'[Len(queue) + 1].sample = s
    BY <2>1
  <2>9. \A i, j \in DOMAIN queue' :
           queue'[i].sample = queue'[j].sample => i = j
    BY <1>1, <2>6, <2>7, <2>8 DEF WaitingIsLatest, WaitsOnce
  <2>10. \A i \in DOMAIN queue' :
            /\ queue'[i] = [sample |-> queue'[i].sample,
                            attempt |-> submissions'[queue'[i].sample]]
            /\ queue'[i] \notin inFlight'
            /\ taken'[queue'[i].sample] = "no"
    BY <2>1, <2>2, <2>3, <2>4, <2>5, <2>6, <2>7, <2>8
  <2> QED
    BY <1>4, <2>9, <2>10
<1>7. CASE CheckTimeouts
  <2>1. PICK n, order : PutBehind(n, order)
    BY <1>1, <1>7, CheckTimeoutsEffect
  <2>2. /\ n \in Nat /\ order \in [1 .. n -> Again]
        /\ \A i, j \in 1 .. n : order[i] = order[j] => i = j
        /\ Len(queue') = Len(queue) + n
        /\ \A i \in 1 .. Len(queue) : queue'[i] = queue[i]
        /\ \A i \in Len(queue) + 1 .. Len(queue) + n :
              queue'[i] = [sample |-> order[i - Len(queue)],
                           attempt |-> submissions[order[i - Len(queue)]] + 1]
    BY <2>1 DEF PutBehind
  <2>3. /\ \A s \in Again : submissions'[s] = submissions[s] + 1
        /\ \A s \in Samples \ Again : submissions'[s] = submissions[s]
        /\ \A s \in Again : s \in Samples /\ taken[s] = "overdue"
        /\ inFlight' = inFlight
    <3>1. /\ \A s \in Again : submissions'[s] = submissions[s] + 1
          /\ \A s \in Samples \ Again : submissions'[s] = submissions[s]
      BY <1>1, <1>7, CheckTimeoutsEffect
    <3>2. \A s \in Again : s \in Samples /\ taken[s] = "overdue"
      BY DEF Again, Overdue, Submitted
    <3> QED
      BY <1>7, <3>1, <3>2 DEF CheckTimeouts
  <2>4. \A s \in Samples :
           /\ s \in Again => taken'[s] = "no"
           /\ s \notin Again /\ taken[s] = "no" /\ Latest(s) \notin inFlight
                 => taken'[s] = "no"
    BY <1>7 DEF CheckTimeouts, Again, Overdue, IsTaken
  <2>5. ASSUME NEW i \in 1 .. Len(queue)
        PROVE  /\ queue'[i] = queue[i] /\ queue[i].sample \notin Again
               /\ queue'[i] = [sample |-> queue'[i].sample,
                               attempt |-> submissions'[queue'[i].sample]]
               /\ queue'[i] \notin inFlight'
               /\ taken'[queue'[i].sample] = "no"
    <3>1. queue[i] = Latest(queue[i].sample) /\ i \in DOMAIN queue
      BY <1>1 DEF WaitingIsLatest
    <3> QED
      BY <1>1, <1>2, <2>2, <2>3, <2>4, <3>1 DEF Case
  <2>6. ASSUME NEW i \in Len(queue) + 1 .. Len(queue) + n
        PROVE  /\ i - Len(queue) \in 1 .. n
               /\ queue'[i].sample = order[i - Len(queue)]
               /\ queue'[i].sample \in Again
               /\ queue'[i] = [sample |-> queue'[i].sample,
                               attempt |-> submissions'[queue'[i].sample]]
               /\ queue'[i] \notin inFlight'
               /\ taken'[queue'[i].sample] = "no"
    <3> DEFINE s == order[i - Len(queue)]
    <3>1. i - Len(queue) \in 1 .. n
      BY <1>1, <2>2
    <3>2. s \in Again /\ s \in Samples
      BY <2>2, <2>3, <3>1
    <3> HIDE DEF s
    <3>3. queue'[i] = [sample |-> s, attempt |-> submissions[s] + 1]
      BY <2>2 DEF s
    <3>4. [sample |-> s, attempt |-> submissions[s] + 1] \notin inFlight
      BY <1>1, <1>3, <3>2
    <3> QED
      BY <2>3, <2>4, <3>1, <3>2, <3>3, <3>4 DEF s
  <2>7. \A i \in DOMAIN queue' : \/ i \in 1 .. Len(queue)
                                 \/ i \in Len(queue) + 1 .. Len(queue) + n
    BY <1>1, <2>2
  <2>8. ASSUME NEW i \in DOMAIN queue', NEW j \in DOMAIN queue',
               queue'[i].sample = queue'[j].sample
        PROVE  i = j
    <3>1. CASE i \in 1 .. Len(queue) /\ j \in 1 .. Len(queue)
      BY <1>1, <2>5, <2>8, <3>1 DEF WaitingIsLatest, WaitsOnce
    <3>2. CASE /\ i \in Len(queue) + 1 .. Len(queue) + n
               /\ j \in Len(queue) + 1 .. Len(queue) + n
      <4>1. /\ i - Len(queue) \in 1 .. n /\ j - Len(queue) \in 1 .. n
            /\ order[i - Len(queue)] = order[j - Len(queue)]
        BY <2>6, <2>8, <3>2
      <4>2. i - Len(queue) = j - Len(queue)
        BY <2>2, <4>1
      <4> QED
        BY <1>1, <2>2, <3>2, <4>2
    <3> QED
      BY <2>5, <2>6, <2>7, <2>8, <3>1, <3>2
  <2> QED
    BY <1>4, <2>5, <2>6, <2>7, <2>8
<1>8. ASSUME NEW w \in Workers, Fetch(w)
      PROVE  WaitingIsLatest'
  <2>1. /\ Len(queue) > 0 /\ 1 \in DOMAIN queue
        /\ Len(queue') = Len(queue) - 1
        /\ \A i \in 1 .. Len(queue') : queue'[i] = queue[i + 1]
        /\ inFlight' = inFlight \cup {queue[1]}
    BY <1>1, <1>8, FetchEffect
  <2>2. UNCHANGED <<submissions, taken>>
    BY <1>8 DEF Fetch, evars
  <2>3. \A i \in DOMAIN queue' : /\ i + 1 \in DOMAIN queue /\ i + 1 # 1
                                 /\ queue'[i] = queue[i + 1]
    BY <1>1, <2>1
  <2>4. \A i \in DOMAIN queue' : queue'[i] # queue[1]
    BY <1>1, <2>1, <2>3 DEF WaitingIsLatest, WaitsOnce
  <2>5. \A i, j \in DOMAIN queue' :
           queue'[i].sample = queue'[j].sample => i = j
    <3> SUFFICES ASSUME NEW i \in DOMAIN queue', NEW j \in DOMAIN queue',
                        queue'[i].sample = queue'[j].sample
                 PROVE  i = j
      OBVIOUS
    <3>1. i + 1 = j + 1
      BY <1>1, <2>3 DEF WaitingIsLatest, WaitsOnce
    <3> QED
      BY <1>1, <3>1
  <2>6. \A i \in DOMAIN queue' :
           /\ queue'[i] = [sample |-> queue'[i].sample,
                           attempt |-> submissions'[queue'[i].sample]]
           /\ taken'[queue'[i].sample] = "no"
           /\ queue'[i] \notin inFlight'
    BY <1>1, <2>1, <2>2, <2>3, <2>4 DEF WaitingIsLatest, Latest
  <2> QED
    BY <1>4, <2>5, <2>6
<1>9. CASE Cancel
  <2>1. queue' = <<>>
    BY <1>9 DEF Cancel
  <2>2. DOMAIN queue' = {}
    BY <2>1
  <2> QED
    BY <1>4, <2>2
<1>10. ASSUME NEW s \in Samples, TimePasses(s)
       PROVE  WaitingIsLatest'
  <2>1. taken[s] = "seen" /\ taken' = [taken EXCEPT ![s] = "overdue"]
    BY <1>10 DEF TimePasses
  <2>2. \A i \in DOMAIN queue : taken'[queue[i].sample] = "no"
    BY <1>1, <1>2, <2>1 DEF TypeOK
  <2>3. UNCHANGED <<queue, submissions, inFlight>>
    BY <1>10 DEF TimePasses, wvars
  <2> QED
    BY <1>5, <2>2, <2>3
<1>11. CASE \/ CollectRecords \/ Recollect \/ StoreNext \/ PassLost \/ List
            \/ Drop \/ Settle \/ UNCHANGED vars
  <2>1. UNCHANGED <<queue, submissions, inFlight, taken>>
    BY <1>11 DEF CollectRecords, Recollect, Collect, StoreNext, PassLost, List,
       Drop, Settle, wvars, evars, vars
  <2> QED
    BY <1>2, <1>5, <2>1
<1>12. ASSUME NEW w \in Workers,
              Report(w) \/ Crash(w) \/ \E ok \in BOOLEAN : Save(w, ok)
       PROVE  WaitingIsLatest'
  <2>1. /\ UNCHANGED <<queue, submissions, taken>>
        /\ inFlight' \subseteq inFlight
    BY <1>12 DEF Report, Crash, Save, evars
  <2> QED
    BY <1>2, <1>5, <2>1
<1> QED
  BY <1>6, <1>7, <1>8, <1>9, <1>10, <1>11, <1>12 DEF Next, Executor, Work

\* A stop is followed by the cancellation of what waits, and after it nothing
\* is submitted.
LEMMA StopCancelsStep ==
    ASSUME EInv, [Next]_vars
    PROVE  StopCancels'
<1>1. TypeOK /\ StopCancels /\ OnlySubmitted
  BY DEF EInv
<1>2. CASE UNCHANGED <<sequential, pc, stopped, queue>>
  BY <1>1, <1>2 DEF StopCancels, NothingStartsAfterStop
<1>3. CASE Submit
  BY <1>1, <1>3 DEF Submit, MaySubmit, StopCancels, NothingStartsAfterStop
<1>4. CASE CollectRecords \/ Recollect
  BY <1>1, <1>4 DEF CollectRecords, Recollect, Collect, wvars, StopCancels,
     NothingStartsAfterStop
<1>5. CASE StoreNext
  <2>1. /\ stopped' \in {FALSE, sequential} /\ sequential' = sequential
        /\ pc' = IF stopped' THEN "cancel" ELSE "store"
    BY <1>5 DEF StoreNext
  <2>2. stopped' => sequential' /\ pc' = "cancel"
    BY <1>1, <2>1 DEF TypeOK
  <2>3. ~stopped' => pc' = "store"
    BY <2>1
  <2> QED
    BY <2>2, <2>3 DEF StopCancels, NothingStartsAfterStop
<1>6. CASE PassLost
  <2>1. UNCHANGED <<sequential, stopped>> /\ ~stopped /\ pc' \in {"raised", "store"}
    BY <1>1, <1>6 DEF PassLost
  <2> QED
    BY <2>1 DEF StopCancels, NothingStartsAfterStop
<1>7. CASE Cancel \/ List \/ Drop \/ Settle
  BY <1>1, <1>7 DEF Cancel, List, Drop, Settle, wvars, StopCancels,
     NothingStartsAfterStop
<1>8. CASE CheckTimeouts
  <2>1. UNCHANGED <<sequential, stopped>> /\ pc' \in {"returned", "submit"}
        /\ pc = "timeouts"
    BY <1>8 DEF CheckTimeouts
  <2>2. ASSUME stopped
        PROVE  queue' = <<>>
    <3>1. Again = {}
      BY <2>2 DEF Again, Reissues
    <3>2. PICK n, order : PutBehind(n, order)
      BY <1>1, <1>8, CheckTimeoutsEffect
    <3>3. /\ n \in Nat /\ order \in [1 .. n -> Again]
          /\ queue' \in Seq(Case) /\ Len(queue') = Len(queue) + n
      BY <3>2 DEF PutBehind
    <3>4. n = 0
      <4>1. ~(1 \in 1 .. n)
        BY <3>1, <3>3
      <4> QED
        BY <3>3, <4>1
    <3>5. queue = <<>>
      BY <1>1, <2>1, <2>2 DEF StopCancels, NothingStartsAfterStop
    <3>6. Len(queue') = 0
      BY <3>3, <3>4, <3>5
    <3> QED
      BY <3>3, <3>6, EmptySeq
  <2> QED
    BY <1>1, <2>1, <2>2 DEF StopCancels, NothingStartsAfterStop
<1>9. ASSUME NEW w \in Workers, Fetch(w)
      PROVE  StopCancels'
  BY <1>1, <1>9 DEF Fetch, evars, StopCancels, NothingStartsAfterStop
<1>10. CASE \/ \E s \in Samples : TimePasses(s)
            \/ \E w \in Workers : \/ Report(w) \/ Crash(w)
                                  \/ \E ok \in BOOLEAN : Save(w, ok)
            \/ UNCHANGED vars
  <2>1. UNCHANGED <<sequential, pc, stopped, queue>>
    BY <1>10 DEF TimePasses, Report, Crash, Save, evars, wvars, vars
  <2> QED
    BY <1>2, <2>1
<1> QED
  BY <1>3, <1>4, <1>5, <1>6, <1>7, <1>8, <1>9, <1>10 DEF Next, Executor, Work

\* The file of records only grows, and what was read of it stays.
LEMMA LogGrows ==
    ASSUME TypeOK, [Next]_vars
    PROVE  \A i \in DOMAIN log : i \in DOMAIN log' /\ log'[i] = log[i]
<1>1. CASE UNCHANGED log
  BY <1>1
<1>2. ASSUME NEW w \in Workers, NEW ok \in BOOLEAN, Save(w, ok)
      PROVE  \A i \in DOMAIN log : i \in DOMAIN log' /\ log'[i] = log[i]
  <2> DEFINE new == [sample |-> worker[w].case.sample, ok |-> ok]
  <2>1. log \in Seq(Record) /\ new \in Record
    BY <1>2, HeldCase DEF TypeOK, Save, Record
  <2>2. CASE log' = Append(log, new)
    <3> HIDE DEF new
    <3> QED
      BY <2>1, <2>2, AppendProperties
  <2> QED
    BY <1>1, <1>2, <2>2 DEF Save
<1>3. UNCHANGED log \/ \E w \in Workers : \E ok \in BOOLEAN : Save(w, ok)
  BY DEF Next, Executor, Submit, CollectRecords, Recollect, Collect, StoreNext,
     PassLost, Cancel, List, Drop, Settle, CheckTimeouts, TimePasses, Work,
     Fetch, Report, Crash, evars, wvars, vars
<1> QED
  BY <1>1, <1>2, <1>3

\* What the sink has been given, and the records of samples, were read.
LEMMA RecordFacts ==
    ASSUME TypeOK
    PROVE  /\ Given \subseteq 1 .. offset /\ late \subseteq 1 .. offset
           /\ 1 .. offset \subseteq DOMAIN log
           /\ \A s \in Samples : record[s] # 0 => record[s] \in 1 .. offset
           /\ \A k \in 1 .. offset : log[k].sample \in Samples
<1>1. /\ offset \in Nat /\ Len(log) \in Nat /\ offset <= Len(log)
      /\ DOMAIN log = 1 .. Len(log)
      /\ \A i \in DOMAIN log : log[i].sample \in Samples
      /\ \A i \in DOMAIN results : results[i] \in 1 .. offset
  BY TypeFacts
<1>2. Given \subseteq 1 .. offset /\ late \subseteq 1 .. offset
  BY <1>1 DEF Given, TypeOK
<1>3. \A s \in Samples : record[s] \in 0 .. offset
  BY DEF TypeOK
<1> QED
  BY <1>1, <1>2, <1>3

\* The record the sink is given next is one that was not used.
LEMMA StoreNextEffect ==
    ASSUME EInv, StoreNext
    PROVE  /\ ~stopped
           /\ \E s \in done \ lost :
                /\ s \in Samples /\ IsNext(s) /\ s \in Submitted /\ s \notin stored
                /\ record[s] # 0 /\ log[record[s]].sample = s
                /\ results' = Append(results, record[s])
                /\ stored' = stored \cup {s}
                /\ Given' = Given \cup {record[s]}
<1>1. TypeOK /\ RecordPlaces
  BY DEF EInv
<1>2. PICK s \in done \ lost : /\ IsNext(s)
                               /\ results' = Append(results, record[s])
                               /\ stored' = stored \cup {s}
  BY DEF StoreNext
<1>3. s \in Samples /\ s \in Submitted /\ s \notin stored /\ ~stopped
  BY <1>2 DEF IsNext, StoreNext, Submitted
<1>4. record[s] # 0 /\ log[record[s]].sample = s
  BY <1>1, <1>3 DEF RecordPlaces
<1>5. Given' = Given \cup {record[s]}
  <2>1. record[s] \in 1 .. offset
    BY <1>1, <1>3, <1>4, RecordFacts
  <2>2. results \in Seq(1 .. offset)
    BY <1>1 DEF TypeOK
  <2> DEFINE r == record[s]
  <2> HIDE DEF r
  <2>3. /\ Len(results') = Len(results) + 1
        /\ \A i \in 1 .. Len(results) : results'[i] = results[i]
        /\ results'[Len(results) + 1] = r
        /\ DOMAIN results' = 1 .. Len(results')
        /\ Len(results) \in Nat /\ DOMAIN results = 1 .. Len(results)
    BY <1>2, <2>1, <2>2, AppendProperties DEF r
  <2>4. \A i : i \in DOMAIN results' <=> i \in DOMAIN results \/ i = Len(results) + 1
    BY <2>3
  <2> QED
    BY <2>3, <2>4 DEF Given, r
<1> QED
  BY <1>2, <1>3, <1>4, <1>5

\* Every step leaves each record in one place.
LEMMA RecordPlacesStep ==
    ASSUME EInv, [Next]_vars
    PROVE  RecordPlaces'
<1>1. TypeOK /\ RecordPlaces /\ StopCancels
      /\ done \subseteq Samples /\ lost \subseteq done /\ stored \subseteq done
  BY DEF EInv, TypeOK
<1>2. /\ Given \subseteq 1 .. offset /\ late \subseteq 1 .. offset
      /\ 1 .. offset \subseteq DOMAIN log
      /\ \A s \in Samples : record[s] # 0 => record[s] \in 1 .. offset
      /\ \A k \in 1 .. offset : log[k].sample \in Samples
  BY <1>1, RecordFacts
<1>3. \A i \in DOMAIN log : log'[i] = log[i]
  BY <1>1, LogGrows
<1>4. CASE UNCHANGED <<record, done, lost, stored, stopped, duplicates, offset,
                       results, late>>
  <2>1. Given' = Given
    BY <1>4 DEF Given
  <2>2. \A k \in 1 .. offset : log'[k].sample = log[k].sample
    BY <1>2, <1>3
  <2>3. {k \in 1 .. offset : record[log'[k].sample] # k}
          = {k \in 1 .. offset : record[log[k].sample] # k}
    BY <2>2
  <2> QED
    BY <1>1, <1>2, <1>4, <2>1, <2>2, <2>3 DEF RecordPlaces
<1>5. CASE CollectRecords \/ Recollect
  <2>1. /\ offset' = Len(log)
        /\ done \subseteq done'
        /\ \A s \in done : record'[s] = record[s]
        /\ \A s \in Samples \ done :
              /\ s \in done' <=> record'[s] # 0
              /\ record'[s] # 0 => /\ record'[s] > offset
                                   /\ log[record'[s]].sample = s
        /\ duplicates' = {k \in 1 .. offset' : record'[log[k].sample] # k}
        /\ done' \subseteq Samples
    BY <1>5, CollectEffect DEF CollectRecords, Recollect, Submitted
  <2>2. UNCHANGED <<log, lost, stored, stopped, results, late>>
    BY <1>5 DEF CollectRecords, Recollect, Collect, wvars
  <2>3. Given' = Given
    BY <2>2 DEF Given
  <2>4. ASSUME NEW s \in Samples, record'[s] # 0
        PROVE  /\ s \in done' /\ log[record'[s]].sample = s
               /\ s \in stored <=> record'[s] \in Given \cup late
    <3>1. CASE s \in done
      BY <1>1, <2>1, <2>4, <3>1 DEF RecordPlaces
    <3>2. CASE s \notin done
      <4>1. record'[s] > offset /\ offset \in Nat /\ record'[s] \in Nat
        <5>1. record' \in [Samples -> 0 .. Len(log)]
          BY <1>5, CollectEffect DEF CollectRecords, Recollect
        <5> QED
          BY <1>1, <2>1, <2>4, <3>2, <5>1, TypeFacts
      <4>2. record'[s] \notin Given \cup late
        BY <1>2, <4>1
      <4> QED
        BY <1>1, <2>1, <2>4, <3>2, <4>2
    <3> QED
      BY <3>1, <3>2
  <2>5. \A s \in lost : record'[s] = 0
    BY <1>1, <2>1 DEF RecordPlaces
  <2>6. \A s \in done' \ lost : record'[s] = 0 => stopped /\ s \in stored
    BY <1>1, <2>1 DEF RecordPlaces
  <2>7. \A k \in Given \cup late : record'[log[k].sample] = k
    <3> TAKE k \in Given \cup late
    <3>1. k \in 1 .. offset /\ k # 0 /\ log[k].sample \in Samples
          /\ record[log[k].sample] = k
      BY <1>1, <1>2 DEF RecordPlaces
    <3>2. log[k].sample \in done
      BY <1>1, <3>1 DEF RecordPlaces
    <3> QED
      BY <2>1, <3>1, <3>2
  <2> QED
    BY <1>1, <2>1, <2>2, <2>3, <2>4, <2>5, <2>6, <2>7 DEF RecordPlaces
<1>6. CASE StoreNext
  <2>1. PICK s \in done \ lost :
           /\ s \in Samples /\ s \notin stored
           /\ record[s] # 0 /\ log[record[s]].sample = s
           /\ stored' = stored \cup {s}
           /\ Given' = Given \cup {record[s]}
    BY <1>6, StoreNextEffect
  <2>2. UNCHANGED <<record, done, lost, duplicates, late, offset, log>> /\ ~stopped
    BY <1>6 DEF StoreNext, wvars
  <2>3. record[s] \notin Given \cup late
    BY <1>1, <2>1 DEF RecordPlaces
  <2>4. \A t \in Samples :
           record[t] # 0 => (t \in stored' <=> record[t] \in Given' \cup late)
    BY <1>1, <2>1 DEF RecordPlaces
  <2>5. \A k \in Given' \cup late : record[log[k].sample] = k
    BY <1>1, <2>1 DEF RecordPlaces
  <2>6. \A t \in done \ lost : record[t] # 0
    BY <1>1, <2>2 DEF RecordPlaces
  <2>7. late = {} /\ Given' \cap late = {}
    BY <1>1, <2>2 DEF RecordPlaces
  <2> QED
    BY <1>1, <2>1, <2>2, <2>4, <2>5, <2>6, <2>7 DEF RecordPlaces
<1>7. CASE PassLost
  <2>1. UNCHANGED <<record, done, lost, duplicates, late, offset, log, results,
                    stopped>> /\ ~stopped
    BY <1>7 DEF PassLost, wvars
  <2>2. Given' = Given
    BY <2>1 DEF Given
  <2>3. \A s \in Samples : record[s] # 0 => (s \in stored' <=> s \in stored)
    BY <1>1, <1>7 DEF PassLost, RecordPlaces
  <2> QED
    BY <1>1, <2>1, <2>2, <2>3 DEF RecordPlaces
<1>8. CASE Drop
  <2>1. /\ UNCHANGED <<record, lost, duplicates, late, offset, log, results,
                       stopped>>
        /\ done' = done \cup Untaken /\ stored' = stored \cup Untaken
        /\ stopped
    BY <1>1, <1>8 DEF Drop, wvars, StopCancels
  <2>2. Given' = Given
    BY <2>1 DEF Given
  <2>3. \A s \in Untaken : s \in Samples /\ s \notin done /\ record[s] = 0
    BY <1>1 DEF Untaken, Submitted, RecordPlaces
  <2> QED
    BY <1>1, <2>1, <2>2, <2>3 DEF RecordPlaces
<1>9. CASE Settle
  <2>1. UNCHANGED <<record, done, lost, duplicates, offset, log, results, stopped>>
    BY <1>9 DEF Settle, wvars
  <2>2. Given' = Given
    BY <2>1 DEF Given
  <2>3. CASE stopped
    <3>1. /\ late' = late \cup Held
          /\ stored' = stored \cup done
      BY <1>9, <2>3 DEF Settle, Held
    <3>2. \A k \in Held : /\ record[log[k].sample] = k
                          /\ k \notin Given
      BY <1>1 DEF Held, RecordPlaces
    <3>3. \A s \in done \ stored : record[s] # 0 => record[s] \in Held
      BY DEF Held
    <3>4. \A s \in Samples :
             record[s] # 0 => s \in stored' /\ record[s] \in Given \cup late'
      BY <1>1, <3>1, <3>3 DEF RecordPlaces
    <3>5. \A k \in Given \cup late' : record[log[k].sample] = k
      BY <1>1, <3>1, <3>2 DEF RecordPlaces
    <3>6. Given \cap late' = {}
      BY <1>1, <3>1, <3>2 DEF RecordPlaces
    <3> QED
      BY <1>1, <2>1, <2>2, <2>3, <3>1, <3>4, <3>5, <3>6 DEF RecordPlaces
  <2>4. CASE ~stopped
    <3>1. UNCHANGED <<late, stored>>
      BY <1>9, <2>4 DEF Settle
    <3> QED
      BY <1>4, <2>1, <3>1
  <2> QED
    BY <2>3, <2>4
<1>10. CASE CheckTimeouts
  <2> DEFINE Gone == Overdue \ Again
  <2>1. /\ done' = done \cup Gone /\ lost' = lost \cup Gone
        /\ \A s \in Gone : s \in Samples /\ s \notin done
    BY <1>1, <1>10, CheckTimeoutsEffect DEF Submitted
  <2>2. UNCHANGED <<record, stored, duplicates, late, offset, log, results, stopped>>
    BY <1>10 DEF CheckTimeouts
  <2> HIDE DEF Gone
  <2>3. Given' = Given
    BY <2>2 DEF Given
  <2>4. \A s \in Gone : record[s] = 0
    BY <1>1, <2>1 DEF RecordPlaces
  <2> QED
    BY <1>1, <2>1, <2>2, <2>3, <2>4 DEF RecordPlaces
<1>11. CASE \/ Submit \/ Cancel \/ List \/ UNCHANGED vars
            \/ \E s \in Samples : TimePasses(s)
            \/ \E w \in Workers : Work(w) \/ Crash(w)
  <2>1. UNCHANGED <<record, done, lost, stored, stopped, duplicates, offset,
                    results, late>>
    BY <1>11 DEF Submit, Cancel, List, vars, TimePasses, Work, Fetch, Save,
       Report, Crash, evars
  <2> QED
    BY <1>4, <2>1
<1> QED
  BY <1>5, <1>6, <1>7, <1>8, <1>9, <1>10, <1>11 DEF Next, Executor

\* The records the sink has are those of stored samples.
LEMMA GivenIsStored ==
    ASSUME TypeOK, RecordPlaces, NEW i \in DOMAIN results
    PROVE  /\ results[i] \in DOMAIN log
           /\ log[results[i]].sample \in Samples
           /\ log[results[i]].sample \in stored
           /\ record[log[results[i]].sample] = results[i]
<1>1. results[i] \in Given
  BY DEF Given
<1>2. /\ results[i] \in 1 .. offset /\ results[i] # 0
      /\ results[i] \in DOMAIN log
      /\ log[results[i]].sample \in Samples
  BY <1>1, RecordFacts
<1>3. record[log[results[i]].sample] = results[i]
  BY <1>1 DEF RecordPlaces
<1> QED
  BY <1>1, <1>2, <1>3 DEF RecordPlaces

\* The sample that is stored next comes after all the sink was given, and in a
\* sequential run is the very next.
LEMMA NextInOrder ==
    ASSUME EInv, ~stopped, NEW s \in Submitted, s \notin stored, IsNext(s)
    PROVE  /\ s \in Nat
           /\ \A i \in DOMAIN results : log[results[i]].sample < s
           /\ sequential => s = Len(results) + 1
<1>1. /\ TypeOK /\ RecordPlaces /\ InSampleOrder /\ OnlySubmitted
      /\ Submitted \subseteq Samples
      /\ \A t \in Samples : t \in Nat
      /\ Len(results) \in Nat
  BY TypeFacts DEF EInv, Submitted
<1>2. ASSUME NEW i \in DOMAIN results
      PROVE  log[results[i]].sample < s
  <2>1. /\ log[results[i]].sample \in Samples
        /\ log[results[i]].sample \in stored
    BY <1>1, GivenIsStored
  <2>2. ~(s < log[results[i]].sample)
    BY <1>1, <2>1 DEF InSampleOrder
  <2> QED
    BY <1>1, <2>1, <2>2
<1>3. ASSUME sequential
      PROVE  s = Len(results) + 1
  <2>1. stored = 1 .. Len(results)
    BY <1>1, <1>3 DEF InSampleOrder
  <2>2. PICK n \in 0 .. MaxSamples : Submitted = 1 .. n
    BY <1>1 DEF OnlySubmitted
  <2>3. s \in 1 .. n /\ n \in Nat
    BY <2>2, SizeAssumption
  <2>4. s > Len(results)
    BY <1>1, <2>1, <2>3
  <2>5. ~(Len(results) + 1 < s)
    <3>1. SUFFICES ASSUME Len(results) + 1 < s PROVE FALSE
      OBVIOUS
    <3>2. Len(results) + 1 \in Submitted
      BY <1>1, <2>2, <2>3, <3>1
    <3>3. Len(results) + 1 \in stored
      BY <3>1, <3>2 DEF IsNext
    <3> QED
      BY <1>1, <2>1, <3>3
  <2> QED
    BY <1>1, <2>3, <2>4, <2>5
<1> QED
  BY <1>1, <1>2, <1>3

\* A step stores the next record of the sequence, if it stores one.
LEMMA InSampleOrderStep ==
    ASSUME EInv, [Next]_vars
    PROVE  InSampleOrder'
<1>1. /\ TypeOK /\ RecordPlaces /\ InSampleOrder /\ OnlySubmitted /\ StopCancels
      /\ Submitted \subseteq Samples /\ stored \subseteq Submitted
      /\ \A t \in Samples : t \in Nat
      /\ Len(results) \in Nat /\ DOMAIN results = 1 .. Len(results)
  BY TypeFacts DEF EInv, TypeOK, Submitted, OnlySubmitted
<1>2. \A i \in DOMAIN log : log'[i] = log[i]
  BY <1>1, LogGrows
<1>3. \A i \in DOMAIN results : /\ results[i] \in DOMAIN log
                                /\ log[results[i]].sample \in Samples
  BY <1>1, GivenIsStored
<1>4. \A i \in DOMAIN results : log'[results[i]].sample = log[results[i]].sample
  BY <1>2, <1>3
<1>5. ~Submit => Submitted' = Submitted
  BY SubmissionsGrow
<1>6. CASE UNCHANGED <<results, stored, stopped, sequential>> /\ ~Submit
  BY <1>1, <1>4, <1>5, <1>6 DEF InSampleOrder
<1>7. CASE Submit
  <2>1. PICK s \in Samples :
           /\ Submitted = 1 .. s - 1 /\ submissions[s] = 0
           /\ submissions' = [submissions EXCEPT ![s] = 1]
    BY <1>1, <1>7, SubmitEffect
  <2>2. Submitted' = Submitted \cup {s}
    BY <1>1, <2>1 DEF Submitted, TypeOK
  <2>3. \A t \in stored : ~(s < t)
    BY <1>1, <2>1
  <2>4. UNCHANGED <<results, stored, stopped, sequential>>
    BY <1>7 DEF Submit
  <2>5. ~stopped =>
           \A u \in stored : \A t \in Submitted' : t < u => t \in stored
    BY <1>1, <2>2, <2>3 DEF InSampleOrder
  <2> QED
    BY <1>1, <1>4, <2>4, <2>5 DEF InSampleOrder
<1>8. CASE StoreNext
  <2>1. PICK s \in done \ lost :
           /\ s \in Samples /\ IsNext(s) /\ s \in Submitted /\ s \notin stored
           /\ record[s] # 0 /\ log[record[s]].sample = s
           /\ results' = Append(results, record[s])
           /\ stored' = stored \cup {s}
    BY <1>8, StoreNextEffect
  <2>2. ~stopped /\ UNCHANGED <<sequential, log>> /\ Submitted' = Submitted
    BY <1>5, <1>8 DEF StoreNext, wvars, Submit
  <2>3. /\ s \in Nat
        /\ \A i \in DOMAIN results : log[results[i]].sample < s
        /\ sequential => s = Len(results) + 1
    BY <2>1, <2>2, NextInOrder
  <2>4. /\ Len(results') = Len(results) + 1
        /\ DOMAIN results' = 1 .. Len(results) + 1
        /\ \A i \in 1 .. Len(results) : results'[i] = results[i]
        /\ results'[Len(results) + 1] = record[s]
    <3>1. results \in Seq(1 .. offset) /\ record[s] \in 1 .. offset
      BY <1>1, <2>1, RecordFacts DEF TypeOK
    <3> DEFINE r == record[s]
    <3>2. results' = Append(results, r) /\ r \in 1 .. offset
      BY <2>1, <3>1
    <3> HIDE DEF r
    <3>3. /\ Len(results') = Len(results) + 1
          /\ results' \in Seq(1 .. offset)
          /\ \A i \in 1 .. Len(results) : results'[i] = results[i]
          /\ results'[Len(results) + 1] = r
      BY <3>1, <3>2, AppendProperties
    <3> QED
      BY <3>3 DEF r
  <2>5. \A i, j \in DOMAIN results' :
           i < j => log[results'[i]].sample < log[results'[j]].sample
    <3> SUFFICES ASSUME NEW i \in DOMAIN results', NEW j \in DOMAIN results',
                        i < j
                 PROVE  log[results'[i]].sample < log[results'[j]].sample
      OBVIOUS
    <3>1. i \in DOMAIN results /\ results'[i] = results[i]
      BY <1>1, <2>4
    <3>2. CASE j \in DOMAIN results
      BY <1>1, <2>4, <3>1, <3>2 DEF InSampleOrder
    <3>3. CASE j = Len(results) + 1
      BY <2>1, <2>3, <2>4, <3>1, <3>3
    <3> QED
      BY <1>1, <2>4, <3>2, <3>3
  <2>6. \A u \in stored' : \A t \in Submitted : t < u => t \in stored'
    BY <1>1, <2>1, <2>2 DEF InSampleOrder, IsNext
  <2>7. sequential => stored' = 1 .. Len(results')
    <3> SUFFICES ASSUME sequential PROVE stored' = 1 .. Len(results')
      OBVIOUS
    <3>1. stored = 1 .. Len(results)
      BY <1>1, <2>2 DEF InSampleOrder
    <3>2. 1 .. Len(results) + 1 = (1 .. Len(results)) \cup {Len(results) + 1}
      BY <1>1
    <3> QED
      BY <2>1, <2>3, <2>4, <3>1, <3>2
  <2> QED
    BY <2>2, <2>5, <2>6, <2>7 DEF InSampleOrder
<1>9. CASE PassLost
  <2>1. UNCHANGED <<results, sequential, stopped>> /\ ~Submit /\ ~stopped
    BY <1>9 DEF PassLost, Submit, wvars
  <2>2. CASE sequential
    <3>1. UNCHANGED stored
      BY <1>9, <2>2 DEF PassLost
    <3> QED
      BY <1>6, <2>1, <3>1
  <2>3. CASE ~sequential
    <3>1. PICK s \in lost : IsNext(s) /\ stored' = stored \cup {s}
      BY <1>9, <2>3 DEF PassLost
    <3>2. \A u \in stored' : \A t \in Submitted : t < u => t \in stored'
      BY <1>1, <2>1, <3>1 DEF InSampleOrder, IsNext
    <3> QED
      BY <1>1, <1>4, <1>5, <2>1, <2>3, <3>2 DEF InSampleOrder
  <2> QED
    BY <2>2, <2>3
<1>10. CASE Drop \/ Settle
  <2>1. UNCHANGED <<results, sequential, stopped>> /\ ~Submit
    BY <1>10 DEF Drop, Settle, Submit, wvars
  <2>2. CASE stopped
    BY <1>1, <1>4, <2>1, <2>2 DEF InSampleOrder
  <2>3. CASE ~stopped
    <3>1. UNCHANGED stored
      BY <1>1, <1>10, <2>3 DEF Drop, Settle, StopCancels
    <3> QED
      BY <1>6, <2>1, <3>1
  <2> QED
    BY <2>2, <2>3
<1>11. CASE ~Submit /\ \/ CollectRecords \/ Recollect \/ Cancel \/ List
                       \/ CheckTimeouts \/ UNCHANGED vars
                       \/ \E s \in Samples : TimePasses(s)
                       \/ \E w \in Workers : Work(w) \/ Crash(w)
  <2>1. UNCHANGED <<results, stored, stopped, sequential>>
    BY <1>11 DEF CollectRecords, Recollect, Collect, Cancel, List,
       CheckTimeouts, vars, TimePasses, Work, Fetch, Save, Report, Crash, evars
  <2> QED
    BY <1>6, <1>11, <2>1
<1> QED
  BY <1>7, <1>8, <1>9, <1>10, <1>11 DEF Next, Executor

\* Nothing but a submission changes how often a sample was submitted, and
\* nothing follows the end of a run.
LEMMA ReturnIsCompleteStep ==
    ASSUME EInv, [Next]_vars
    PROVE  ReturnIsComplete'
<1>1. /\ TypeOK /\ OnlySubmitted /\ InSampleOrder /\ ReturnIsComplete
      /\ StopCancels
      /\ lost \subseteq done /\ stored \subseteq done /\ done \subseteq Submitted
      /\ Submitted \subseteq Samples
  BY DEF EInv, TypeOK, OnlySubmitted, Submitted
<1>2. CASE UNCHANGED <<pc, submissions, lost, stored, stopped>>
  BY <1>1, <1>2 DEF ReturnIsComplete
<1>3. CASE Submit
  <2>1. PICK s \in Samples :
           /\ submissions[s] = 0
           /\ submissions' = [submissions EXCEPT ![s] = 1]
    BY <1>1, <1>3, SubmitEffect
  <2>2. s \notin Submitted
    BY <2>1 DEF Submitted
  <2>3. \A t \in lost : submissions'[t] = submissions[t]
    BY <1>1, <2>1, <2>2 DEF TypeOK
  <2>4. UNCHANGED <<pc, lost, stored, stopped>> /\ pc # "returned"
    BY <1>3 DEF Submit
  <2> QED
    BY <1>1, <2>3, <2>4 DEF ReturnIsComplete
<1>4. CASE CheckTimeouts
  <2>1. /\ \A s \in Samples \ Again : submissions'[s] = submissions[s]
        /\ Again \subseteq Submitted \ done
        /\ Overdue \subseteq Samples
        /\ lost' = lost \cup (Overdue \ Again)
    BY <1>1, <1>4, CheckTimeoutsEffect
  <2>2. UNCHANGED <<stored, stopped>> /\ (pc' = "returned" => stored = Samples)
    BY <1>4 DEF CheckTimeouts
  <2>3. \A s \in lost : submissions'[s] = submissions[s]
    BY <1>1, <2>1
  <2>4. ASSUME ~stopped, NEW s \in Overdue \ Again
        PROVE  submissions'[s] = MaxAttempts
    <3>1. ~(submissions[s] < MaxAttempts) /\ submissions'[s] = submissions[s]
      BY <2>1, <2>4 DEF Again, Reissues, SubmissionLeft
    <3>2. submissions[s] \in 0 .. MaxAttempts /\ MaxAttempts \in Nat
      BY <1>1, <2>1, <2>4, SizeAssumption DEF TypeOK
    <3> QED
      BY <3>1, <3>2
  <2> QED
    BY <1>1, <2>1, <2>2, <2>3, <2>4 DEF ReturnIsComplete
<1>5. CASE Settle
  <2>1. UNCHANGED <<submissions, lost, stopped>>
    BY <1>5 DEF Settle
  <2>2. ASSUME ~stopped, pc' = "returned"
        PROVE  stored' = Samples
    <3>1. Submitted = Samples /\ Submitted \subseteq stored' /\ stored' = stored
      BY <1>5, <2>2 DEF Settle
    <3> QED
      BY <1>1, <3>1
  <2> QED
    BY <1>1, <2>1, <2>2 DEF ReturnIsComplete
<1>6. CASE \/ CollectRecords \/ Recollect \/ StoreNext \/ PassLost \/ Cancel
           \/ List \/ Drop
  <2>1. UNCHANGED <<submissions, lost>>
    BY <1>6 DEF CollectRecords, Recollect, Collect, StoreNext, PassLost, Cancel,
       List, Drop
  <2>2. pc' # "returned"
    BY <1>6 DEF CollectRecords, Recollect, StoreNext, PassLost, Cancel, List, Drop
  <2>3. ~stopped' => ~stopped
    BY <1>6 DEF CollectRecords, Recollect, Collect, StoreNext, PassLost, Cancel,
       List, Drop
  <2> QED
    BY <1>1, <2>1, <2>2, <2>3 DEF ReturnIsComplete
<1>7. CASE \/ UNCHANGED vars
           \/ \E s \in Samples : TimePasses(s)
           \/ \E w \in Workers : Work(w) \/ Crash(w)
  <2>1. UNCHANGED <<pc, submissions, lost, stored, stopped>>
    BY <1>7 DEF vars, TimePasses, Work, Fetch, Save, Report, Crash, evars
  <2> QED
    BY <1>2, <2>1
<1> QED
  BY <1>3, <1>4, <1>5, <1>6, <1>7 DEF Next, Executor

\* The invariant holds in the beginning.
LEMMA InitEInv == Init => EInv
<1> SUFFICES ASSUME Init PROVE EInv
  OBVIOUS
<1>1. TypeOK
  <2>1. /\ 0 \in 0 .. MaxAttempts /\ 0 \in 0 .. MaxFaults
        /\ log = <<>> /\ Len(log) = 0 /\ offset = 0
        /\ log \in Seq(Record) /\ queue \in Seq(Case)
        /\ results \in Seq(1 .. 0)
    BY SizeAssumption, EmptySeq DEF Init
  <2>2. Idle \in [st : {"idle", "crashed"}]
    BY DEF Idle
  <2>3. worker \in [Workers -> [st : {"idle", "crashed"}]
                            \cup [st : {"running", "saved"}, case : Case]]
    BY <2>2 DEF Init
  <2>4. /\ submissions \in [Samples -> 0 .. MaxAttempts]
        /\ taken \in [Samples -> {"no", "seen", "overdue"}]
        /\ record \in [Samples -> 0 .. offset]
    BY <2>1 DEF Init
  <2>5. /\ results \in Seq(1 .. offset)
        /\ offset \in 0 .. Len(log) /\ faults \in 0 .. MaxFaults
    BY <2>1 DEF Init
  <2> QED
    BY <2>1, <2>3, <2>4, <2>5 DEF Init, TypeOK
<1>2. Submitted = {} /\ Given = {}
  BY DEF Init, Submitted, Given
<1>3. OnlySubmitted
  <2>1. 0 \in 0 .. MaxSamples /\ 1 .. 0 = {}
    BY SizeAssumption
  <2> QED
    BY <1>2, <2>1 DEF Init, OnlySubmitted, Idle
<1>4. WaitingIsLatest /\ StopCancels
  BY DEF Init, WaitingIsLatest, WaitsOnce, StopCancels, NothingStartsAfterStop
<1>5. RecordPlaces
  BY <1>2 DEF Init, RecordPlaces
<1>6. InSampleOrder
  BY <1>2, EmptySeq DEF Init, InSampleOrder
<1>7. ReturnIsComplete
  BY DEF Init, ReturnIsComplete
<1> QED
  BY <1>1, <1>3, <1>4, <1>5, <1>6, <1>7 DEF EInv

\* Every step of the executor, its workers and its clocks keeps the invariant.
LEMMA NextEInv == EInv /\ [Next]_vars => EInv'
<1> SUFFICES ASSUME EInv, [Next]_vars PROVE EInv'
  OBVIOUS
<1>1. TypeOK'
  BY ExecutorTypes, OtherTypes DEF EInv, Next
<1> QED
  BY <1>1, OnlySubmittedStep, WaitingIsLatestStep, StopCancelsStep,
     RecordPlacesStep, InSampleOrderStep, ReturnIsCompleteStep DEF EInv

-----------------------------------------------------------------------------
(* What holds in every run.                                                *)

\* Every behaviour of the executor keeps the invariant.
THEOREM ExecutorInvariant == Spec => []EInv
<1> QED
  BY InitEInv, NextEInv, PTL DEF Spec

\* The state of the executor, the queue and the workers keeps its types.
THEOREM ExecutorTypeCorrect == Spec => []TypeOK
<1>1. EInv => TypeOK
  BY DEF EInv
<1> QED
  BY <1>1, ExecutorInvariant, PTL

\* A record that was read is a duplicate unless its sample holds it; then it is
\* held back until the sample is stored, and given to the sink or late after.
LEMMA RecordsArePartitioned == EInv => EveryRecordKept
<1> SUFFICES ASSUME EInv PROVE EveryRecordKept
  OBVIOUS
<1>1. /\ TypeOK /\ RecordPlaces /\ InSampleOrder
      /\ done \subseteq Samples /\ duplicates \subseteq 1 .. offset
      /\ Len(results) \in Nat /\ DOMAIN results = 1 .. Len(results)
  BY TypeFacts DEF EInv, TypeOK
<1>2. /\ Given \subseteq 1 .. offset /\ late \subseteq 1 .. offset
      /\ \A s \in Samples : record[s] # 0 => record[s] \in 1 .. offset
      /\ \A k \in 1 .. offset : log[k].sample \in Samples
  BY <1>1, RecordFacts
<1>3. \A k \in Held : /\ k \in 1 .. offset
                      /\ record[log[k].sample] = k
                      /\ k \notin Given \cup late
  BY <1>1, <1>2 DEF Held, RecordPlaces
<1>4. \A k \in Given \cup late : record[log[k].sample] = k
  BY <1>1 DEF RecordPlaces
<1>5. \A k \in duplicates : record[log[k].sample] # k
  BY <1>1 DEF RecordPlaces
<1>6. ASSUME NEW k \in 1 .. offset
      PROVE  k \in Held \cup Given \cup duplicates \cup late
  <2>1. CASE record[log[k].sample] # k
    BY <1>1, <2>1 DEF RecordPlaces
  <2>2. CASE record[log[k].sample] = k
    <3>1. log[k].sample \in Samples /\ record[log[k].sample] # 0
      BY <1>2, <2>2
    <3>2. log[k].sample \in done
      BY <1>1, <3>1 DEF RecordPlaces
    <3>3. CASE log[k].sample \in stored
      BY <1>1, <2>2, <3>1, <3>3 DEF RecordPlaces
    <3>4. CASE log[k].sample \notin stored
      BY <2>2, <3>1, <3>2, <3>4 DEF Held
    <3> QED
      BY <3>3, <3>4
  <2> QED
    BY <2>1, <2>2
<1>7. 1 .. offset = Held \cup Given \cup duplicates \cup late
  BY <1>1, <1>2, <1>3, <1>6
<1>8. ASSUME NEW i \in DOMAIN results, NEW j \in DOMAIN results,
             results[i] = results[j]
      PROVE  i = j
  <2>1. log[results[i]].sample \in Samples /\ log[results[j]].sample \in Samples
    BY <1>1, GivenIsStored
  <2>2. ~(log[results[i]].sample < log[results[j]].sample)
        /\ ~(log[results[j]].sample < log[results[i]].sample)
    BY <1>8, <2>1, TypeFacts, <1>1
  <2>3. ~(i < j) /\ ~(j < i)
    BY <1>1, <2>2 DEF InSampleOrder
  <2> QED
    BY <1>1, <2>3
<1>9. Given \cap late = {}
  BY <1>1 DEF RecordPlaces
<1>10. /\ Held \cap (Given \cup duplicates \cup late) = {}
       /\ Given \cap (duplicates \cup late) = {}
       /\ duplicates \cap late = {}
  BY <1>3, <1>4, <1>5, <1>9
<1> QED
  BY <1>7, <1>8, <1>10 DEF EveryRecordKept, Given

\* However workers finish, are lost or lose records, and whenever a sequential
\* run stops, cluster_executor.py neither drops a record that it read nor uses
\* one twice (_collect, _store_ready).
THEOREM EveryRecordKeptCorrect == Spec => []EveryRecordKept
<1> QED
  BY RecordsArePartitioned, ExecutorInvariant, PTL

\* Only cases that a worker took can time out (_check_timeouts), so no sample is
\* ever twice in the queue.
THEOREM WaitsOnceCorrect == Spec => []WaitsOnce
<1>1. EInv => WaitsOnce
  BY DEF EInv, WaitingIsLatest
<1> QED
  BY <1>1, ExecutorInvariant, PTL

\* Once a stopped run has cancelled what waits, no case is handed out any more.
THEOREM NothingStartsAfterStopCorrect == Spec => []NothingStartsAfterStop
<1>1. EInv => NothingStartsAfterStop
  BY DEF EInv, StopCancels
<1> QED
  BY <1>1, ExecutorInvariant, PTL

\* A run that returns without a stop has given every sample to the sink, or
\* submitted it as often as allowed before it was reported lost.
THEOREM NothingSkippedCorrect == Spec => []NothingSkipped
<1>1. EInv => NothingSkipped
  <2> SUFFICES ASSUME EInv, pc = "returned", ~stopped, NEW s \in Samples
               PROVE  \/ \E i \in DOMAIN results : log[results[i]].sample = s
                      \/ s \in lost /\ submissions[s] = MaxAttempts
    BY DEF NothingSkipped
  <2>1. /\ stored = Samples /\ stored \subseteq done
        /\ \A t \in lost : submissions[t] = MaxAttempts
    BY DEF EInv, ReturnIsComplete, TypeOK
  <2>2. CASE s \notin lost
    <3>1. record[s] # 0 /\ s \in stored
      BY <2>1, <2>2 DEF EInv, RecordPlaces
    <3>2. record[s] \in Given /\ log[record[s]].sample = s
      BY <3>1 DEF EInv, RecordPlaces
    <3> QED
      BY <3>2 DEF Given
  <2> QED
    BY <2>1, <2>2
<1> QED
  BY <1>1, ExecutorInvariant, PTL

-----------------------------------------------------------------------------
(* The executor on a cluster keeps the promise of one on a machine.        *)

\* The promise's variables, as ClusterExecutor instantiates them.
Delivered == [i \in DOMAIN results |-> log[results[i]].sample]

Outcome == IF Ended THEN pc ELSE "running"

\* As long as nothing is stored and the run goes on, the promise stutters.
LEMMA PromiseStutters ==
    ASSUME EInv, [Next]_vars, UNCHANGED <<sequential, results, stopped, Outcome>>
    PROVE  UNCHANGED <<sequential, Delivered, stopped, Outcome>>
<1>1. \A i \in DOMAIN results : log'[results[i]] = log[results[i]]
  BY LogGrows, GivenIsStored DEF EInv
<1>2. Delivered' = Delivered
  BY <1>1 DEF Delivered
<1> QED
  BY <1>2

\* The record that is stored is delivered.
LEMMA StoreDelivers ==
    ASSUME EInv, StoreNext
    PROVE  /\ Outcome = "running" /\ ~stopped
           /\ \E s \in Samples :
                /\ Delivered' = Append(Delivered, s)
                /\ sequential => s = Len(Delivered) + 1
                /\ \A i \in DOMAIN Delivered : Delivered[i] < s
           /\ stopped' \in {FALSE, sequential}
           /\ UNCHANGED <<sequential, Outcome>>
<1>1. PICK s \in done \ lost :
         /\ s \in Samples /\ IsNext(s) /\ s \in Submitted /\ s \notin stored
         /\ record[s] # 0 /\ log[record[s]].sample = s
         /\ results' = Append(results, record[s])
  BY StoreNextEffect
<1>2. ~stopped /\ stopped' \in {FALSE, sequential}
      /\ UNCHANGED <<sequential, log>>
  BY DEF StoreNext, wvars
<1>3. /\ \A i \in DOMAIN results : log[results[i]].sample < s
      /\ sequential => s = Len(results) + 1
  BY <1>1, <1>2, NextInOrder
<1>4. /\ TypeOK /\ record[s] \in 1 .. offset /\ results \in Seq(1 .. offset)
      /\ Len(results) \in Nat /\ DOMAIN results = 1 .. Len(results)
      /\ \A i \in DOMAIN results : log[results[i]].sample \in Samples
  BY <1>1, RecordFacts, TypeFacts, GivenIsStored DEF EInv, TypeOK
<1> DEFINE r == record[s]
<1>5. /\ results' = Append(results, r) /\ r \in 1 .. offset
      /\ log[r].sample = s
  BY <1>1, <1>4
<1> HIDE DEF r
<1>6. /\ DOMAIN results' = 1 .. Len(results) + 1
      /\ \A i \in 1 .. Len(results) : results'[i] = results[i]
      /\ results'[Len(results) + 1] = r
  <2>1. /\ Len(results') = Len(results) + 1
        /\ results' \in Seq(1 .. offset)
        /\ \A i \in 1 .. Len(results) : results'[i] = results[i]
        /\ results'[Len(results) + 1] = r
    BY <1>4, <1>5, AppendProperties
  <2> QED
    BY <2>1
<1>7. /\ Delivered = [i \in 1 .. Len(results) |-> log[results[i]].sample]
      /\ Delivered \in Seq(Samples) /\ Len(Delivered) = Len(results)
  <2>1. Delivered = [i \in 1 .. Len(results) |-> log[results[i]].sample]
    BY <1>4 DEF Delivered
  <2>2. \A i \in 1 .. Len(results) : log[results[i]].sample \in Samples
    BY <1>4
  <2> QED
    BY <1>4, <2>1, <2>2, IsASeq
<1>8. Delivered' = [i \in 1 .. Len(results) + 1 |-> log[results'[i]].sample]
  BY <1>2, <1>6 DEF Delivered
<1>9. Delivered' = Append(Delivered, s)
  <2> DEFINE now == [i \in 1 .. Len(results) + 1 |-> log[results'[i]].sample]
  <2>1. \A i \in 1 .. Len(results) + 1 :
           log[results'[i]].sample = IF i = Len(results) + 1 THEN s
                                     ELSE log[results[i]].sample
    BY <1>4, <1>5, <1>6
  <2>2. Append(Delivered, s) =
           [i \in 1 .. Len(results) + 1 |->
               IF i = Len(results) + 1 THEN s ELSE Delivered[i]]
    BY <1>4, <1>7
  <2> QED
    BY <1>7, <1>8, <2>1, <2>2
<1>10. /\ sequential => s = Len(Delivered) + 1
       /\ \A i \in DOMAIN Delivered : Delivered[i] < s
  BY <1>3, <1>4, <1>7
<1>11. Outcome = "running" /\ Outcome' = "running"
  BY DEF StoreNext, Outcome, Ended
<1> QED
  BY <1>1, <1>2, <1>9, <1>10, <1>11

\* A sequential run fails at a sample that was not delivered.
LEMMA LostRaises ==
    ASSUME EInv, PassLost, Outcome' # Outcome
    PROVE  /\ Outcome = "running" /\ Outcome' = "raised"
           /\ sequential /\ ~stopped /\ Len(Delivered) < MaxSamples
           /\ UNCHANGED <<sequential, results, log, stopped>>
<1>1. PICK s \in lost : IsNext(s) /\ IF sequential THEN pc' = "raised"
                                     ELSE UNCHANGED pc
  BY DEF PassLost
<1>2. ~stopped /\ pc = "store" /\ UNCHANGED <<sequential, results, log, stopped>>
  BY DEF PassLost, wvars
<1>3. sequential /\ pc' = "raised"
  BY <1>1 DEF Outcome, Ended
<1>4. Outcome = "running" /\ Outcome' = "raised"
  BY <1>2, <1>3 DEF Outcome, Ended
<1>5. s \in Submitted /\ s \notin stored /\ s \in 1 .. MaxSamples
  BY <1>1 DEF IsNext, Submitted, Samples
<1>6. s = Len(results) + 1
  BY <1>1, <1>2, <1>3, <1>5, NextInOrder
<1>7. Len(Delivered) = Len(results) /\ Len(results) \in Nat
  BY TypeFacts DEF EInv, Delivered
<1> QED
  BY <1>2, <1>3, <1>4, <1>5, <1>6, <1>7, SizeAssumption

\* A run returns when the rule is content or all was delivered, or when it is
\* not a sequential one.
LEMMA ReturnKeepsPromise ==
    ASSUME EInv, Settle \/ CheckTimeouts, Outcome' # Outcome
    PROVE  /\ Outcome = "running" /\ Outcome' = "returned"
           /\ sequential => stopped \/ Len(Delivered) = MaxSamples
           /\ UNCHANGED <<sequential, results, log, stopped>>
<1>1. /\ pc \in {"store", "timeouts"}
      /\ pc' \in {"returned", "timeouts", "submit"}
      /\ UNCHANGED <<sequential, results, log, stopped>>
  BY DEF Settle, CheckTimeouts, wvars
<1>2. pc' = "returned"
  BY <1>1 DEF Outcome, Ended
<1>3. Outcome = "running" /\ Outcome' = "returned"
  BY <1>1, <1>2 DEF Outcome, Ended
<1>4. ASSUME sequential, ~stopped
      PROVE  Len(Delivered) = MaxSamples
  <2>1. Settle
    BY <1>2, <1>4 DEF CheckTimeouts
  <2>2. Submitted = Samples /\ Submitted \subseteq stored' /\ stored' = stored
    BY <1>2, <1>4, <2>1 DEF Settle
  <2>3. stored = 1 .. Len(results) /\ stored \subseteq Samples
    BY <1>4 DEF EInv, InSampleOrder, TypeOK
  <2>4. 1 .. Len(results) = 1 .. MaxSamples
    BY <2>2, <2>3 DEF Samples
  <2>5. Len(Delivered) = Len(results) /\ Len(results) \in Nat
    BY TypeFacts DEF EInv, Delivered
  <2>6. MaxSamples \in Nat
    BY SizeAssumption
  <2>7. ~(Len(results) < MaxSamples) /\ ~(MaxSamples < Len(results))
    <3>1. \A k \in Nat : k \in 1 .. Len(results) <=> k \in 1 .. MaxSamples
      BY <2>4
    <3> QED
      BY <2>5, <2>6, <3>1
  <2> QED
    BY <2>5, <2>6, <2>7
<1> QED
  BY <1>1, <1>3, <1>4

\* No other step stores, stops or ends anything.
LEMMA OthersPromiseNothing ==
    ASSUME [Next]_vars
    PROVE  \/ StoreNext
           \/ /\ UNCHANGED <<sequential, results, stopped>>
              /\ \/ UNCHANGED Outcome \/ PassLost
                 \/ Settle \/ CheckTimeouts
<1>1. CASE CollectRecords \/ Recollect
  BY <1>1 DEF CollectRecords, Recollect, Collect, Outcome, Ended
<1>2. CASE Cancel \/ List \/ Drop
  BY <1>2 DEF Cancel, List, Drop, Outcome, Ended
<1>3. CASE PassLost \/ Settle \/ CheckTimeouts
  BY <1>3 DEF PassLost, Settle, CheckTimeouts
<1>4. CASE \/ Submit \/ UNCHANGED vars
           \/ \E s \in Samples : TimePasses(s)
           \/ \E w \in Workers : Work(w) \/ Crash(w)
  <2>1. UNCHANGED <<sequential, results, stopped, pc>>
    BY <1>4 DEF Submit, vars, TimePasses, Work, Fetch, Save, Report, Crash, evars
  <2> QED
    BY <2>1 DEF Outcome, Ended
<1> QED
  BY <1>1, <1>2, <1>3, <1>4 DEF Next, Executor

\* Every step is a step of the promise, or one it does not see.
LEMMA PromiseStep ==
    ASSUME EInv, [Next]_vars
    PROVE  [Promise!Next]_(Promise!cvars)
<1>1. CASE StoreNext
  <2>1. PICK s \in Samples :
           /\ Delivered' = Append(Delivered, s)
           /\ sequential => s = Len(Delivered) + 1
           /\ \A i \in DOMAIN Delivered : Delivered[i] < s
    BY <1>1, StoreDelivers
  <2>2. /\ Outcome = "running" /\ ~stopped
        /\ stopped' \in {FALSE, sequential}
        /\ UNCHANGED <<sequential, Outcome>>
    BY <1>1, StoreDelivers
  <2>3. Promise!Deliver(s)
    BY <2>1, <2>2 DEF Promise!Deliver, Delivered, Outcome
  <2>4. s \in Promise!Samples
    BY <2>1 DEF Promise!Samples, Samples
  <2> QED
    BY <2>3, <2>4 DEF Promise!Next
<1>2. ASSUME UNCHANGED <<sequential, results, stopped, Outcome>>
      PROVE  [Promise!Next]_(Promise!cvars)
  <2>1. UNCHANGED <<sequential, Delivered, stopped, Outcome>>
    BY <1>2, PromiseStutters
  <2> QED
    BY <2>1 DEF Promise!cvars, Delivered, Outcome
<1>3. CASE PassLost /\ Outcome' # Outcome
  <2>1. /\ Outcome = "running" /\ Outcome' = "raised"
        /\ sequential /\ ~stopped /\ Len(Delivered) < MaxSamples
        /\ UNCHANGED <<sequential, results, log, stopped>>
    BY <1>3, LostRaises
  <2>2. Delivered' = Delivered
    BY <2>1 DEF Delivered
  <2>3. Promise!Raise
    BY <2>1, <2>2 DEF Promise!Raise, Delivered, Outcome
  <2> QED
    BY <2>3 DEF Promise!Next
<1>4. CASE (Settle \/ CheckTimeouts) /\ Outcome' # Outcome
  <2>1. /\ Outcome = "running" /\ Outcome' = "returned"
        /\ sequential => stopped \/ Len(Delivered) = MaxSamples
        /\ UNCHANGED <<sequential, results, log, stopped>>
    BY <1>4, ReturnKeepsPromise
  <2>2. Delivered' = Delivered
    BY <2>1 DEF Delivered
  <2>3. Promise!Return
    BY <2>1, <2>2 DEF Promise!Return, Delivered, Outcome
  <2> QED
    BY <2>3 DEF Promise!Next
<1> QED
  BY <1>1, <1>2, <1>3, <1>4, OthersPromiseNothing

\* The cluster gives the sink what one machine gives it, in the same order: the
\* executor implements CaseExecutor, whatever its workers do.
THEOREM ExecutorKeepsPromise == Spec => ImplementsCaseExecutor
<1>1. Init => Promise!Init
  <2> SUFFICES ASSUME Init PROVE Promise!Init
    OBVIOUS
  <2>1. Delivered = <<>>
    BY DEF Init, Delivered
  <2>2. Outcome = "running" /\ sequential \in BOOLEAN /\ stopped = FALSE
    BY DEF Init, Outcome, Ended
  <2> QED
    BY <2>1, <2>2 DEF Promise!Init, Delivered, Outcome
<1>2. EInv /\ [Next]_vars => [Promise!Next]_(Promise!cvars)
  BY PromiseStep
<1> QED
  BY <1>1, <1>2, ExecutorInvariant, PTL DEF Spec, ImplementsCaseExecutor,
     Promise!Spec
=============================================================================
