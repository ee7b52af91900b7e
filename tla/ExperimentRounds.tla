--------------------------- MODULE ExperimentRounds ---------------------------
(***************************************************************************)
(* A fixed-number importance-sampling experiment in its output directory   *)
(* (orchestration/fixed_importance_sampling.py, orchestration/importance/  *)
(* runner.py): sessions come one after the other, may be killed, and are   *)
(* resumed by sample id.  Each checks the manifest, runs the samples       *)
(* without a usable record in rounds, and audits the records.              *)
(*                                                                         *)
(* An executor is what its protocol says (CaseExecutor): jobs of one kind  *)
(* are stored in their order.  It may submit a case again by itself, which *)
(* raises the attempt number, and on a cluster it may lose one.            *)
(***************************************************************************)
EXTENDS Integers, Sequences, FiniteSets

CONSTANTS
    Settings,         \* P, Q, numerics, metric and planned number of a plan
    Roots,            \* random roots
    Planned,          \* planned_samples
    MaxAttempts,      \* max_attempts
    Resubmissions,    \* how often an executor may submit a case again
    MayLose,          \* an executor may lose a case
    MaxSessions       \* bound on the sessions

ASSUME RoundsAssumption ==
    /\ {Planned, MaxAttempts} \subseteq Nat \ {0}
    /\ {Resubmissions, MaxSessions} \subseteq Nat
    /\ MayLose \in BOOLEAN

Kinds == {"ordinary", "importance"}

Samples == 1 .. Planned

\* What must match when an experiment is resumed.
Identity == [settings : Settings, root : Roots]

NoManifest == [settings |-> "none"]

\* A record of a run outside the experiment has no sample id.
NoId == 0

\* A case fails, or succeeds without a usable value or weight, or resolves its
\* sample.
Results == {"failed", "unjudged", "resolved"}

Record == [id : Samples \cup {NoId}, attempt : Nat, result : Results,
           made : Identity]

Job == [id : Samples, attempt : Nat]

VARIABLES
    manifest,   \* manifest.json
    records,    \* kind -> records.jsonl
    tail,       \* kind -> how records.jsonl ends: "clean", "open" (without a
                \* newline), or "torn", so that it cannot be read
    comparison, \* comparison.json: "none", "complete", "incomplete", "other"
    pc,         \* the session's next step
    session,    \* its identity, retry_failed and the rounds it has begun
    jobs,       \* kind -> the jobs of this round still to be stored
    lost,       \* history: the samples that lost an attempt in this session
    sessions    \* sessions begun

files == <<manifest, records, tail, comparison>>
memory == <<pc, session, jobs, lost>>
vars == <<files, memory, sessions>>

NoJobs == [k \in Kinds |-> {}]

NoSession == [retry |-> FALSE, round |-> 0]

Init ==
    /\ manifest = NoManifest
    /\ records = [k \in Kinds |-> <<>>]
    /\ tail = [k \in Kinds |-> "clean"]
    /\ comparison = "none"
    /\ pc = "idle" /\ session = NoSession /\ jobs = NoJobs /\ lost = {}
    /\ sessions = 0

-----------------------------------------------------------------------------
(* What the records say.                                                   *)

Readable == \A k \in Kinds : tail[k] # "torn"

Attempts(k, s) == {i \in DOMAIN records[k] : records[k][i].id = s}

\* The largest attempt number decides, then the later record.
Latest(k, s) ==
    CHOOSE i \in Attempts(k, s) : \A j \in Attempts(k, s) :
        \/ records[k][j].attempt < records[k][i].attempt
        \/ records[k][j].attempt = records[k][i].attempt /\ j <= i

Resolved(k, s) ==
    /\ Attempts(k, s) # {}
    /\ records[k][Latest(k, s)].result = "resolved"

NextAttempt(k, s) ==
    IF Attempts(k, s) = {} THEN 0 ELSE records[k][Latest(k, s)].attempt + 1

Succeeded(k, s) == {i \in Attempts(k, s) : records[k][i].result # "failed"}

CompleteIfResolved == \A k \in Kinds, s \in Samples : Resolved(k, s)

\* The audit: every planned sample is resolved, and nothing is in the way.
Complete ==
    \A k \in Kinds :
        /\ Attempts(k, NoId) = {}
        /\ \A s \in Samples : Resolved(k, s) /\ Cardinality(Succeeded(k, s)) <= 1

-----------------------------------------------------------------------------
(* A session.                                                              *)

\* A root that is not given is that of the manifest, or drawn.
RootFor(given) ==
    IF given # "none" THEN {given}
    ELSE IF manifest # NoManifest THEN {manifest.root} ELSE Roots

MatchesSettings(identity) ==
    manifest = NoManifest \/ manifest.settings = identity.settings

\* The stored settings must be those of the session.
Matches(identity) == manifest \in {NoManifest, identity}

\* The manifest is written before the first sample.
Begin ==
    /\ pc = "idle"
    /\ sessions < MaxSessions /\ sessions' = sessions + 1
    /\ \E settings \in Settings, given \in Roots \cup {"none"}, retry \in BOOLEAN :
       \E root \in RootFor(given) :
          LET identity == [settings |-> settings, root |-> root]
          IN  /\ Matches(identity)
              /\ manifest' = IF manifest = NoManifest THEN identity ELSE manifest
              /\ session' = [made |-> identity, retry |-> retry, round |-> 0]
    /\ pc' = "plan"
    /\ UNCHANGED <<records, tail, comparison, jobs, lost>>

\* A sample is run (again) with the number after its latest attempt.
Runs(k, s) ==
    /\ ~Resolved(k, s)
    /\ \/ NextAttempt(k, s) < MaxAttempts
       \/ Attempts(k, s) = {}
       \/ session.round = 0 /\ session.retry

JobsOf(k) ==
    {[id |-> s, attempt |-> NextAttempt(k, s)] : s \in {t \in Samples : Runs(k, t)}}

\* The jobs of one kind are stored in the order of their samples.
NextJob(k) == CHOOSE job \in jobs[k] : \A other \in jobs[k] : job.id <= other.id

JobDone(k) == jobs' = [jobs EXCEPT ![k] = @ \ {NextJob(k)}]

RoundLimit == MaxAttempts + (IF session.retry THEN 1 ELSE 0)

RoundsLeftOneFewer == session.round + 1 < RoundLimit

RoundsUnbounded == TRUE

RoundsLeft == session.round < RoundLimit

PlanRound ==
    /\ pc = "plan"
    /\ RoundsLeft
    /\ Readable
    /\ jobs' = [k \in Kinds |-> JobsOf(k)]
    /\ IF jobs' = NoJobs
       THEN pc' = "audit" /\ UNCHANGED session
       ELSE pc' = "run" /\ session' = [session EXCEPT !.round = @ + 1]
    /\ UNCHANGED <<files, lost, sessions>>

RoundsOver ==
    /\ pc = "plan"
    /\ ~RoundsLeft
    /\ pc' = "audit"
    /\ UNCHANGED <<files, session, jobs, lost, sessions>>

\* A line after one without a newline makes both unreadable.
AppendRecord(k, record) ==
    /\ records' = [records EXCEPT ![k] = Append(@, record)]
    /\ tail' = [tail EXCEPT ![k] = IF @ = "clean" THEN "clean" ELSE "torn"]

RecordOf(job, again, result) ==
    [id |-> job.id, attempt |-> job.attempt + again, result |-> result,
     made |-> session.made]

StoreNext(k) ==
    /\ pc = "run" /\ jobs[k] # {}
    /\ \E result \in Results, again \in 0 .. Resubmissions :
          AppendRecord(k, RecordOf(NextJob(k), again, result))
    /\ JobDone(k)
    /\ UNCHANGED <<manifest, comparison, pc, session, lost, sessions>>

LoseNext(k) ==
    /\ MayLose
    /\ pc = "run" /\ jobs[k] # {}
    /\ lost' = lost \cup {<<k, NextJob(k).id>>}
    /\ JobDone(k)
    /\ UNCHANGED <<files, pc, session, sessions>>

RoundDone ==
    /\ pc = "run" /\ jobs = NoJobs
    /\ pc' = "plan"
    /\ UNCHANGED <<files, session, jobs, lost, sessions>>

Leave == pc' = "idle" /\ session' = NoSession /\ jobs' = NoJobs /\ lost' = {}

Audit ==
    /\ pc = "audit"
    /\ Readable
    /\ comparison' = IF Complete THEN "complete" ELSE "incomplete"
    /\ Leave
    /\ UNCHANGED <<manifest, records, tail, sessions>>

\* Records that cannot be read stop the session with an error.
Raise ==
    /\ pc \in {"plan", "audit"}
    /\ ~Readable
    /\ Leave
    /\ UNCHANGED <<files, sessions>>

Session ==
    \/ PlanRound \/ RoundsOver \/ RoundDone \/ Audit \/ Raise
    \/ \E k \in Kinds : StoreNext(k) \/ LoseNext(k)

-----------------------------------------------------------------------------
(* What may come in between.                                               *)

Kill ==
    /\ pc # "idle"
    /\ Leave
    /\ UNCHANGED <<files, sessions>>

\* Killed within an append: the line is cut off, or lacks only its newline.
KillInAppend(k) ==
    /\ pc = "run" /\ jobs[k] # {}
    /\ \/ /\ tail' = [tail EXCEPT ![k] = "torn"]
          /\ UNCHANGED records
       \/ \E result \in Results :
             /\ tail[k] = "clean"
             /\ records' = [records EXCEPT ![k] =
                               Append(@, RecordOf(NextJob(k), 0, result))]
             /\ tail' = [tail EXCEPT ![k] = "open"]
    /\ Leave
    /\ UNCHANGED <<manifest, comparison, sessions>>

\* A sequential run in the same directory, one record at a time: it neither
\* looks at the manifest nor gives its records a sample id.
RunUntilStop ==
    /\ pc = "idle"
    /\ sessions < MaxSessions /\ sessions' = sessions + 1
    /\ tail["importance"] # "torn"
    /\ \E made \in Identity, result \in Results :
          AppendRecord("importance", [id |-> NoId, attempt |-> 0,
                                      result |-> result, made |-> made])
    /\ comparison' \in {comparison, "other"}
    /\ UNCHANGED <<manifest, memory>>

Next ==
    \/ Begin \/ Session \/ Kill \/ RunUntilStop
    \/ \E k \in Kinds : KillInAppend(k)

Spec == Init /\ [][Next]_vars

-----------------------------------------------------------------------------
RoundsTypeOK ==
    /\ manifest \in Identity \cup {NoManifest}
    /\ records \in [Kinds -> Seq(Record)]
    /\ tail \in [Kinds -> {"clean", "open", "torn"}]
    /\ comparison \in {"none", "complete", "incomplete", "other"}
    /\ pc \in {"idle", "plan", "run", "audit"}
    /\ IF pc = "idle"
       THEN session = NoSession
       ELSE session \in [made : Identity, retry : BOOLEAN, round : 0 .. MaxAttempts + 1]
    /\ jobs \in [Kinds -> SUBSET Job]
    /\ lost \in SUBSET (Kinds \X Samples)
    /\ sessions \in 0 .. MaxSessions

\* All records of the experiment were made with the settings and the random
\* root of its manifest, whatever sessions were tried and killed in between
\* (importance_experiment_manifest.py: results "are never mixed").
OneIdentity ==
    \A k \in Kinds : \A i \in DOMAIN records[k] :
        records[k][i].id # NoId => records[k][i].made = manifest

\* An experiment is called complete only when the evaluated records are one
\* successful one per planned sample, all of its own identity: none of another
\* run in the same directory, and none that was drawn twice.
CompleteIsPure ==
    [][ Audit /\ comparison' = "complete" =>
          \A k \in Kinds :
             /\ \A i \in DOMAIN records[k] : records[k][i].made = manifest
             /\ \A s \in Samples : Cardinality(Succeeded(k, s)) = 1 ]_vars

\* A session that ends by itself has resolved every sample or used up its
\* attempts, unless an attempt of it was lost without a record.
AttemptsUsedUp ==
    pc = "audit" /\ Readable =>
        \A k \in Kinds, s \in Samples :
            \/ Resolved(k, s)
            \/ Attempts(k, s) # {} /\ NextAttempt(k, s) >= MaxAttempts
            \/ <<k, s>> \in lost
=============================================================================
