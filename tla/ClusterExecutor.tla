--------------------------- MODULE ClusterExecutor ---------------------------
(***************************************************************************)
(* Importance sampling on a cluster                                        *)
(* (orchestration/importance/cluster_executor.py): the executor submits    *)
(* cases to the queue, follows the file the workers' records are appended  *)
(* to, hands the records on in sample order, submits cases again that were *)
(* taken but did not come back, and stops a sequential run.                *)
(*                                                                         *)
(* A case is a sample and the number of its submission.  A record is       *)
(* referred to by its position in the file.  One stream of jobs is         *)
(* modelled; two streams only share MaxInFlight.  The queue does what      *)
(* TaskQueue says with a single attempt and no timeout of its own.         *)
(***************************************************************************)
EXTENDS Integers, Sequences, FiniteSets, SequencesExt

CONSTANTS
    Workers,
    MaxSamples,     \* max_index
    MaxAttempts,    \* max_attempts, submissions of one sample
    MaxInFlight,    \* max_in_flight
    MayFail,        \* a case may end with a status other than success
    MayLoseRecords, \* the record of a finished case may not be stored
    MaxFaults       \* bound on lost workers and records

ASSUME SizeAssumption ==
    /\ MaxSamples \in Nat
    /\ MaxAttempts \in Nat \ {0}
    /\ MaxInFlight \in Nat \ {0}
    /\ MaxFaults \in Nat
ASSUME SwitchAssumption ==
    {MayFail, MayLoseRecords} \subseteq BOOLEAN

Samples == 1 .. MaxSamples
Case == [sample : Samples, attempt : 1 .. MaxAttempts]
Record == [sample : Samples, ok : BOOLEAN]

VARIABLES
    sequential,     \* run_sequential rather than run
    pc,             \* the executor's next step
    submissions,    \* sample -> how often it was submitted
    taken,          \* sample -> what is known of its latest submission
    done, lost, stored,     \* samples with these flags set
    record,         \* sample -> its record, or 0
    results,        \* the records the sink was given
    duplicates, late,       \* the records kept aside
    stopped,
    listed,         \* the cases the queue said were in flight
    offset,         \* the records read
    log,            \* the file of records
    queue, inFlight,
    worker,
    faults

evars == <<sequential, pc, submissions, taken, done, lost, stored, record,
           results, duplicates, late, stopped, listed, offset>>
wvars == <<log, queue, inFlight, worker, faults>>
vars == <<evars, wvars>>

Idle == [st |-> "idle"]

TypeOK ==
    /\ sequential \in BOOLEAN
    /\ pc \in {"submit", "store", "cancel", "list", "recollect", "drop",
               "timeouts", "returned", "raised"}
    /\ submissions \in [Samples -> 0 .. MaxAttempts]
    /\ taken \in [Samples -> {"no", "seen", "overdue"}]
    /\ done \in SUBSET Samples
    /\ lost \in SUBSET done
    /\ stored \in SUBSET done
    /\ record \in [Samples -> 0 .. offset]
    /\ results \in Seq(1 .. offset)
    /\ duplicates \in SUBSET (1 .. offset)
    /\ late \in SUBSET (1 .. offset)
    /\ stopped \in BOOLEAN
    /\ listed \in SUBSET Case
    /\ offset \in 0 .. Len(log)
    /\ log \in Seq(Record)
    /\ queue \in Seq(Case)
    /\ inFlight \in SUBSET Case
    /\ worker \in [Workers -> [st : {"idle", "crashed"}]
                                \cup [st : {"running", "saved"}, case : Case]]
    /\ faults \in 0 .. MaxFaults

Init ==
    /\ sequential \in BOOLEAN
    /\ pc = "submit"
    /\ submissions = [s \in Samples |-> 0]
    /\ taken = [s \in Samples |-> "no"]
    /\ done = {} /\ lost = {} /\ stored = {}
    /\ record = [s \in Samples |-> 0]
    /\ results = <<>>
    /\ duplicates = {} /\ late = {}
    /\ stopped = FALSE
    /\ listed = {}
    /\ offset = 0
    /\ log = <<>>
    /\ queue = <<>> /\ inFlight = {}
    /\ worker = [w \in Workers |-> Idle]
    /\ faults = 0

-----------------------------------------------------------------------------
(* The members of a run, and the steps both kinds of run share.            *)

Submitted == {s \in Samples : submissions[s] > 0}

Latest(s) == [sample |-> s, attempt |-> submissions[s]]

MaySubmit ==
    /\ ~stopped
    /\ Submitted # Samples
    /\ Cardinality(Submitted \ done) < MaxInFlight

\* The next sample that was not submitted yet.
Submit ==
    /\ pc = "submit"
    /\ MaySubmit
    /\ LET s == Cardinality(Submitted) + 1
       IN  /\ submissions' = [submissions EXCEPT ![s] = 1]
           /\ queue' = Append(queue, [sample |-> s, attempt |-> 1])
    /\ UNCHANGED <<sequential, pc, taken, done, lost, stored, record,
                   results, duplicates, late, stopped, listed, offset, log,
                   inFlight, worker, faults>>

\* The unread records that are the first of a sample that is not done.
RecordsOfOpenSamples == {i \in offset + 1 .. Len(log) : log[i].sample \notin done}

FirstRecords ==
    {i \in offset + 1 .. Len(log) :
        /\ log[i].sample \notin done
        /\ \A j \in offset + 1 .. i - 1 : log[j].sample # log[i].sample}

\* All new records of the file are read.  One finishes its sample, the others
\* are set aside.
Collect ==
    /\ record' = [s \in Samples |->
                     IF \E i \in FirstRecords : log[i].sample = s
                     THEN CHOOSE i \in FirstRecords : log[i].sample = s
                     ELSE record[s]]
    /\ done' = done \cup {log[i].sample : i \in FirstRecords}
    /\ duplicates' =
          duplicates \cup ((offset + 1 .. Len(log)) \ FirstRecords)
    /\ offset' = Len(log)
    /\ UNCHANGED <<sequential, submissions, taken, lost, stored, results,
                   late, stopped, listed, wvars>>

CollectRecords ==
    /\ pc = "submit" /\ ~MaySubmit
    /\ Collect
    /\ pc' = "store"

\* The first submitted sample that is not stored.
IsAnyone(s) == s \in Submitted \ stored

IsNext(s) ==
    /\ s \in Submitted \ stored
    /\ \A t \in Submitted : t < s => t \in stored

\* Its record goes to the sink.  A sequential run asks the rule each time; any
\* answer is possible.
StoreNext ==
    /\ pc = "store" /\ ~stopped
    /\ \E s \in done \ lost :
          /\ IsNext(s)
          /\ results' = Append(results, record[s])
          /\ stored' = stored \cup {s}
    /\ stopped' \in {FALSE, sequential}
    /\ pc' = IF stopped' THEN "cancel" ELSE "store"
    /\ UNCHANGED <<sequential, submissions, taken, done, lost, record,
                   duplicates, late, listed, offset, wvars>>

\* A lost sample ends a sequential run with an error; others go on without it.
PassLost ==
    /\ pc = "store" /\ ~stopped
    /\ \E s \in lost :
          /\ IsNext(s)
          /\ IF sequential
             THEN pc' = "raised" /\ UNCHANGED stored
             ELSE stored' = stored \cup {s} /\ UNCHANGED pc
    /\ UNCHANGED <<sequential, submissions, taken, done, lost, record,
                   results, duplicates, late, stopped, listed, offset, wvars>>

-----------------------------------------------------------------------------
(* A sequential stop.  Between the three calls workers take, save and       *)
(* report cases.                                                            *)

\* Cases no worker has taken are dropped from the queue ...
Cancel ==
    /\ pc = "cancel"
    /\ queue' = <<>>
    /\ pc' = "list"
    /\ UNCHANGED <<sequential, submissions, taken, done, lost, stored,
                   record, results, duplicates, late, stopped, listed,
                   offset, log, inFlight, worker, faults>>

\* ... the taken ones are listed ...
List ==
    /\ pc = "list"
    /\ listed' = inFlight
    /\ pc' = "recollect"
    /\ UNCHANGED <<sequential, submissions, taken, done, lost, stored,
                   record, results, duplicates, late, stopped, offset, wvars>>

\* ... those that have come back in the meantime are read ...
Recollect ==
    /\ pc = "recollect"
    /\ Collect
    /\ pc' = "drop"

\* ... and what is neither taken nor back will never come.
NothingUntaken == {}

Untaken == {s \in Submitted \ done : Latest(s) \notin listed}

Drop ==
    /\ pc = "drop"
    /\ done' = done \cup Untaken
    /\ stored' = stored \cup Untaken
    /\ listed' = {}
    /\ pc' = "store"
    /\ UNCHANGED <<sequential, submissions, taken, lost, record, results,
                   duplicates, late, stopped, offset, wvars>>

\* Nothing is left to store.  After a stop, records that come in are kept
\* aside, and a sequential run returns when no sample is open.
Settle ==
    /\ pc = "store"
    /\ stopped \/ ~\E s \in done : IsNext(s)
    /\ IF stopped
       THEN /\ late' = late \cup {record[s] : s \in {t \in done \ stored :
                                                      record[t] # 0}}
            /\ stored' = stored \cup done
       ELSE UNCHANGED <<late, stored>>
    /\ pc' = IF /\ sequential
                /\ stopped \/ Submitted = Samples
                /\ Submitted \subseteq stored'
             THEN "returned" ELSE "timeouts"
    /\ UNCHANGED <<sequential, submissions, taken, done, lost, record,
                   results, duplicates, stopped, listed, offset, wvars>>

-----------------------------------------------------------------------------
(* Cases that do not come back.                                            *)

\* The members of S in increasing order (the set has exactly one member).
InOrder(S) ==
    { s \in [1 .. Cardinality(S) -> S] :
        \A i, j \in 1 .. Cardinality(S) : i < j => s[i] < s[j] }

\* Another submission of the sample is allowed.
OneSubmissionTooMany(s) == submissions[s] <= MaxAttempts

OneSubmissionTooFew(s) == submissions[s] + 1 < MaxAttempts

SubmissionLeft(s) == submissions[s] < MaxAttempts

\* After a stop nothing is submitted again.
AlwaysReissues == TRUE

Reissues == ~stopped

\* A worker has the latest submission of the sample, as the poll sees it.
WasSubmitted(s) == TRUE

IsTaken(s) == Latest(s) \in inFlight

\* The clock of a case starts when a poll finds it in a worker's hands.  This
\* ends a poll, and a run of a fixed number when all is stored.
CheckTimeouts ==
    LET open == Submitted \ done
        missed == {s \in open : taken[s] = "overdue"}
        again == {s \in missed : Reissues /\ SubmissionLeft(s)}
    IN  /\ pc = "timeouts"
        /\ submissions' = [s \in Samples |->
              submissions[s] + IF s \in again THEN 1 ELSE 0]
        /\ \E order \in InOrder(again) :
              queue' = queue \o [i \in 1 .. Cardinality(again) |->
                                    [sample |-> order[i],
                                     attempt |-> submissions[order[i]] + 1]]
        /\ taken' = [s \in Samples |->
              IF s \in again THEN "no"
              ELSE IF s \in open /\ taken[s] = "no" /\ IsTaken(s)
              THEN "seen" ELSE taken[s]]
        /\ done' = done \cup (missed \ again)
        /\ lost' = lost \cup (missed \ again)
        /\ pc' = IF ~sequential /\ stored = Samples THEN "returned"
                 ELSE "submit"
        /\ UNCHANGED <<sequential, stored, record, results, duplicates, late,
                       stopped, listed, offset, log, inFlight, worker,
                       faults>>

Ended == pc \in {"returned", "raised"}

Executor ==
    \/ Submit \/ CollectRecords
    \/ StoreNext \/ PassLost
    \/ Cancel \/ List \/ Recollect \/ Drop
    \/ Settle \/ CheckTimeouts

\* case_timeout_sec have passed since the sample was seen taken.
TimePasses(s) ==
    /\ ~Ended
    /\ s \notin done
    /\ taken[s] = "seen"
    /\ taken' = [taken EXCEPT ![s] = "overdue"]
    /\ UNCHANGED <<sequential, pc, submissions, done, lost, stored, record,
                   results, duplicates, late, stopped, listed, offset, wvars>>

-----------------------------------------------------------------------------
(* The workers.                                                            *)

\* When the executor has ended the queue tells workers to stop.
Fetch(w) ==
    /\ ~Ended
    /\ worker[w] = Idle
    /\ queue # <<>>
    /\ worker' = [worker EXCEPT ![w] = [st |-> "running", case |-> Head(queue)]]
    /\ inFlight' = inFlight \cup {Head(queue)}
    /\ queue' = Tail(queue)
    /\ UNCHANGED <<evars, log, faults>>

\* The record is appended to the file before the case is reported.
Save(w, ok) ==
    /\ worker[w].st = "running"
    /\ ok \/ MayFail
    /\ \/ /\ log' = Append(log, [sample |-> worker[w].case.sample, ok |-> ok])
          /\ UNCHANGED faults
       \/ /\ MayLoseRecords /\ faults < MaxFaults
          /\ faults' = faults + 1
          /\ UNCHANGED log
    /\ worker' = [worker EXCEPT ![w] = [st |-> "saved", case |-> worker[w].case]]
    /\ UNCHANGED <<evars, queue, inFlight>>

Report(w) ==
    /\ worker[w].st = "saved"
    /\ inFlight' = inFlight \ {worker[w].case}
    /\ worker' = [worker EXCEPT ![w] = Idle]
    /\ UNCHANGED <<evars, log, queue, faults>>

\* A worker is lost; its case stays in flight.
Crash(w) ==
    /\ faults < MaxFaults
    /\ worker[w].st # "crashed"
    /\ faults' = faults + 1
    /\ worker' = [worker EXCEPT ![w] = [st |-> "crashed"]]
    /\ UNCHANGED <<evars, log, queue, inFlight>>

Work(w) == Fetch(w) \/ Report(w) \/ \E ok \in BOOLEAN : Save(w, ok)

Next ==
    \/ Executor
    \/ \E s \in Samples : TimePasses(s)
    \/ \E w \in Workers : Work(w) \/ Crash(w)

Spec == Init /\ [][Next]_vars

\* The executor polls, time passes, and workers that are alive work.
FairSpec ==
    /\ Spec
    /\ WF_vars(Executor)
    /\ \A s \in Samples : WF_vars(TimePasses(s))
    /\ \A w \in Workers : WF_vars(Work(w))

-----------------------------------------------------------------------------
(* What the executor promises.                                             *)

\* The cluster gives the sink what a run on one machine gives it: the records
\* in sample order, and in a sequential run none left out and none after the
\* one that made the rule content, whatever order workers finish in.
Promise == INSTANCE CaseExecutor WITH
    delivered <- [i \in DOMAIN results |-> log[results[i]].sample],
    content <- stopped,
    outcome <- IF Ended THEN pc ELSE "running"

ImplementsCaseExecutor == Promise!Spec

\* The records a sample holds until the ones before it are stored.
Held == {record[s] : s \in {t \in done \ stored : record[t] # 0}}

\* Every record that was read is in exactly one place: given to the sink, held
\* back for it, or set aside as a duplicate or as late.
EveryRecordKept ==
    LET used == {results[i] : i \in DOMAIN results}
    IN  /\ 1 .. offset = Held \cup used \cup duplicates \cup late
        /\ \A i, j \in DOMAIN results : results[i] = results[j] => i = j
        /\ Held \cap (used \cup duplicates \cup late) = {}
        /\ used \cap (duplicates \cup late) = {}
        /\ duplicates \cap late = {}

\* A sample waits for a worker at most once: it is submitted again only after
\* its last submission was taken.  Otherwise a backlog would time out and be
\* submitted again and again.
WaitsOnce ==
    \A i, j \in DOMAIN queue : queue[i].sample = queue[j].sample => i = j

\* When a run returns without a stop, every sample reached the sink or was
\* reported lost after as many submissions as are allowed.
NothingSkipped ==
    pc = "returned" /\ ~stopped =>
        \A s \in Samples :
            \/ \E i \in DOMAIN results : log[results[i]].sample = s
            \/ s \in lost /\ submissions[s] = MaxAttempts

\* Once a sequential run has stopped and cancelled what waited, no case is
\* handed to a worker any more, although cases go on timing out.
NothingStartsAfterStop ==
    stopped /\ pc # "cancel" => queue = <<>>

\* Every run ends: each sample is stored, or timed out and reported lost.
RunEnds == <>Ended
=============================================================================
