----------------------------- MODULE ClusterRun -----------------------------
(***************************************************************************)
(* A sampling run on a cluster: the orchestrator's external-worker loop    *)
(* (orchestration/orchestrator.py, run), the sampling strategy it asks for *)
(* cases (orchestration/fixed_parameter_sampling.py), the workers          *)
(* (orchestration/worker_loop.py) and the dataset they write, around the   *)
(* queue actor of TaskQueue.                                               *)
(*                                                                         *)
(* The orchestrator makes one call to the actor per step, so anything a    *)
(* worker does may fall between what it reads and what it does with it.    *)
(* pc names the call it makes next.  A statistical rule is reduced to      *)
(* whether it is content with the samples it sees, a worker's case to      *)
(* whether it succeeds, and the dataset to the rows of every sample.       *)
(***************************************************************************)
EXTENDS TaskQueue, StatisticalSample

CONSTANTS
    Workers,
    LowWater, HighWater,  \* queue_low_water, queue_high_water
    TargetTotal,    \* target_total, counted from the start number, or 0
    MayConverge,    \* the statistical rule may be content before max_samples
    MayFail,        \* a case may end with a status other than success
    MayLoseRows,    \* the optional sink may fail to store a row
    MayMisroute,    \* a worker of another run may take cases from this queue
    MayLeave,       \* a worker may give up waiting at an empty queue
    AutoRestart,    \* the watchdog restarts workers that are gone
    PromptWorkers,  \* a live worker takes a waiting case before it is stalled
    MaxCrashes      \* bound on worker crashes

ASSUME WaterAssumption ==
    LowWater \in Nat /\ HighWater \in Nat \ {0}
ASSUME SwitchAssumption ==
    {MayConverge, MayFail, MayLoseRows, MayMisroute, MayLeave,
     AutoRestart, PromptWorkers} \subseteq BOOLEAN
ASSUME CountAssumption == TargetTotal \in Nat /\ MaxCrashes \in Nat

VARIABLES
    pc,             \* the orchestrator's next call
    stopReason,     \* a stop reason was found
    room,           \* cases the current refill may still add
    known,          \* the strategy's abandoned_sample_indexes
    stalledSize,    \* pending cases when stalled-drain tracking began, or -1
    stalledLong,    \* that was _STALLED_DRAIN_TIMEOUT_SEC ago
    overdue,        \* cases up to this loop were taken case_timeout_sec ago
    worker,         \* what each worker is doing
    rows,           \* sample -> its dataset rows, TRUE for a success
    crashes

ovars == <<pc, stopReason, room, known, stalledSize, stalledLong>>
wvars == <<worker, rows, crashes>>
rvars == <<qvars, ovars, overdue, wvars>>

Idle == [st |-> "idle"]
Gone == {"crashed", "left", "stopped"}

WorkerState ==
    [st : {"idle"} \cup Gone]
        \cup [st : {"running"}, loop : Nat, sample : Samples]
        \cup [st : {"saved"}, loop : Nat, success : BOOLEAN]

RunTypeOK ==
    /\ TypeOK
    /\ pc \in {"start", "firstIssue", "requeue", "snapshot", "target", "issue",
               "drain", "cancel", "cancelled", "stalled", "stalledCancelled",
               "signal", "signalled", "done"}
    /\ stopReason \in BOOLEAN
    /\ room \in 0 .. HighWater
    /\ known \in SUBSET Samples
    /\ stalledSize \in Nat \cup {-1}
    /\ stalledLong \in BOOLEAN
    /\ overdue \in Nat
    /\ worker \in [Workers -> WorkerState]
    /\ rows \in [Samples -> Seq(BOOLEAN)]
    /\ crashes \in 0 .. MaxCrashes

RunInit ==
    /\ Init
    /\ pc = "start"
    /\ stopReason = FALSE
    /\ room = 0
    /\ known = {}
    /\ stalledSize = -1
    /\ stalledLong = FALSE
    /\ overdue = 0
    /\ worker = [w \in Workers |-> Idle]
    /\ rows = [s \in Samples |-> <<>>]
    /\ crashes = 0

-----------------------------------------------------------------------------
(* The strategy.                                                           *)

\* The samples the statistical rule sees at this moment: none before the first
\* row, whatever was given up.
SeenSamples ==
    IF \A s \in Samples : rows[s] = <<>> THEN {}
    ELSE Prefix(rows, known, 1 .. added, MaxAttempts)

\* What the strategy learns from a snapshot before it is asked for cases.
Learn == known' = known \cup {t.sample : t \in abandoned}

\* next_test_case while the rule wants more and max_samples is not reached.
StrategyIssues ==
    /\ added < MaxSamples
    /\ AddTask

\* next_test_case finds a stop reason.
StrategyStops ==
    \/ MayConverge /\ SeenSamples # {}
    \/ added = MaxSamples

-----------------------------------------------------------------------------
(* The orchestrator.                                                       *)

\* The start numbers are set and the first snapshot is read, of a queue that
\* is still empty, so no worker can come in between.
Start ==
    /\ pc = "start"
    /\ \/ UNCHANGED qvars
       \/ \E count \in 1 .. MaxStart : SetStartCounts(count)
    /\ pc' = "firstIssue"
    /\ room' = HighWater
    /\ Learn
    /\ UNCHANGED <<stopReason, stalledSize, stalledLong, overdue, wvars>>

\* _refill_queue asks the strategy for one case after the other until the
\* queue, as the snapshot showed it, is full.
Issue ==
    /\ pc \in {"firstIssue", "issue"}
    /\ LET after == IF pc = "firstIssue" THEN "requeue" ELSE "drain"
       IN  \/ /\ room > 0
              /\ StrategyIssues
              /\ room' = room - 1
              /\ UNCHANGED <<pc, stopReason>>
           \/ /\ room > 0
              /\ StrategyStops
              /\ stopReason' = TRUE
              /\ room' = 0
              /\ pc' = after
              /\ UNCHANGED qvars
           \/ /\ room = 0
              /\ pc' = after
              /\ UNCHANGED <<qvars, stopReason, room>>
    /\ UNCHANGED <<known, stalledSize, stalledLong, overdue, wvars>>

\* Each poll begins with the cases that are overdue.
Requeue ==
    /\ pc = "requeue"
    /\ pc' = "snapshot"
    /\ IF HasTimeout /\ \E l \in DOMAIN inFlight : l <= overdue
       THEN RequeueStale(overdue)
       ELSE UNCHANGED qvars
    /\ UNCHANGED <<stopReason, room, known, stalledSize, stalledLong, overdue,
                   wvars>>

TargetReached ==
    TargetTotal # 0 /\ completedCount >= startCount + TargetTotal

\* Once there is a stop reason nothing more is issued.
RefillsAlways == TRUE

MayRefill == ~stopReason /\ ~stopSignal

\* The snapshot of a poll: the total may be reached, or the queue may be low.
ReadSnapshot ==
    /\ pc = "snapshot"
    /\ \/ /\ TargetReached /\ ~stopSignal
          /\ pc' = "target"
          /\ UNCHANGED <<room, known>>
       \/ /\ ~(TargetReached /\ ~stopSignal)
          /\ MayRefill /\ Len(queue) <= LowWater
          /\ pc' = "issue"
          /\ room' = IF Len(queue) < HighWater THEN HighWater - Len(queue) ELSE 0
          /\ Learn
       \/ /\ ~(TargetReached /\ ~stopSignal)
          /\ ~(MayRefill /\ Len(queue) <= LowWater)
          /\ pc' = "drain"
          /\ UNCHANGED <<room, known>>
    /\ UNCHANGED <<qvars, stopReason, stalledSize, stalledLong, overdue, wvars>>

\* "Target Reached": the signal is set and the snapshot is read again.
SignalTarget ==
    /\ pc = "target"
    /\ stopReason' = TRUE
    /\ SetStopSignal
    /\ pc' = "snapshot"
    /\ UNCHANGED <<room, known, stalledSize, stalledLong, overdue, wvars>>

\* The run is over: nothing waits and no worker holds a case.
FinishedEarly == (stopSignal \/ stopReason) /\ queue = <<>>

Finished ==
    /\ stopSignal \/ stopReason
    /\ queue = <<>>
    /\ completedCount >= dispatchedCount

\* The end of a poll, given a fresh snapshot.
Conclude ==
    pc' = IF queue = <<>> /\ stopReason /\ ~stopSignal THEN "signal"
          ELSE IF Finished THEN "done" ELSE "requeue"

\* Cases wait although the strategy has stopped: they are tracked, and after
\* a long time without change given up.
TrackDrainAnew ==
    IF stopReason /\ queue # <<>>
    THEN /\ stalledSize' = Len(queue)
         /\ stalledLong' = FALSE
         /\ pc' = "requeue"
    ELSE /\ stalledSize' = -1
         /\ stalledLong' = FALSE
         /\ Conclude

TrackDrain ==
    IF stopReason /\ queue # <<>>
    THEN IF Len(queue) # stalledSize
         THEN /\ stalledSize' = Len(queue)
              /\ stalledLong' = FALSE
              /\ pc' = "requeue"
         ELSE /\ pc' = IF stalledLong THEN "stalled" ELSE "requeue"
              /\ UNCHANGED <<stalledSize, stalledLong>>
    ELSE /\ stalledSize' = -1
         /\ stalledLong' = FALSE
         /\ Conclude

\* The snapshot after the refill.
ReadDrain ==
    /\ pc = "drain"
    /\ IF stopReason /\ queue # <<>> /\ stopSignal
       THEN /\ pc' = "cancel"
            /\ UNCHANGED <<stalledSize, stalledLong>>
       ELSE TrackDrain
    /\ UNCHANGED <<qvars, stopReason, room, known, overdue, wvars>>

\* With the stop signal set no worker will take what is left.
Cancel ==
    /\ pc = "cancel"
    /\ CancelPending
    /\ pc' = "cancelled"
    /\ UNCHANGED <<stopReason, room, known, stalledSize, stalledLong, overdue,
                   wvars>>

ReadCancelled ==
    /\ pc = "cancelled"
    /\ TrackDrain
    /\ UNCHANGED <<qvars, stopReason, room, known, overdue, wvars>>

CancelStalled ==
    /\ pc = "stalled"
    /\ CancelPending
    /\ pc' = "stalledCancelled"
    /\ UNCHANGED <<stopReason, room, known, stalledSize, stalledLong, overdue,
                   wvars>>

ReadStalledCancelled ==
    /\ pc = "stalledCancelled"
    /\ stalledSize' = -1
    /\ stalledLong' = FALSE
    /\ Conclude
    /\ UNCHANGED <<qvars, stopReason, room, known, overdue, wvars>>

\* The queue has run dry after a stop reason: workers are told to stop.
Signal ==
    /\ pc = "signal"
    /\ SetStopSignal
    /\ pc' = "signalled"
    /\ UNCHANGED <<stopReason, room, known, stalledSize, stalledLong, overdue,
                   wvars>>

ReadSignalled ==
    /\ pc = "signalled"
    /\ pc' = IF Finished THEN "done" ELSE "requeue"
    /\ UNCHANGED <<qvars, stopReason, room, known, stalledSize, stalledLong,
                   overdue, wvars>>

Orchestrator ==
    \/ Start \/ Issue
    \/ Requeue \/ ReadSnapshot \/ SignalTarget
    \/ ReadDrain \/ Cancel \/ ReadCancelled
    \/ CancelStalled \/ ReadStalledCancelled
    \/ Signal \/ ReadSignalled

-----------------------------------------------------------------------------
(* The clocks.                                                             *)

CaseTimePasses ==
    /\ HasTimeout
    /\ overdue < dispatchedCount
    /\ overdue' = overdue + 1
    /\ UNCHANGED <<qvars, ovars, wvars>>

StallTimePasses ==
    /\ stalledSize # -1
    /\ ~stalledLong
    /\ PromptWorkers => \A w \in Workers : worker[w].st \in Gone
    /\ stalledLong' = TRUE
    /\ UNCHANGED <<qvars, pc, stopReason, room, known, stalledSize, overdue,
                   wvars>>

-----------------------------------------------------------------------------
(* The workers.                                                            *)

\* A worker asks for a case: it gets the first one, or is told to stop.  With
\* an empty queue it asks again later.
Fetch(w) ==
    /\ worker[w] = Idle
    /\ \/ /\ GetNextTask
          /\ worker' = [worker EXCEPT ![w] =
                           [st |-> "running", loop |-> dispatchedCount + 1,
                            sample |-> Head(queue).sample]]
       \/ /\ stopSignal
          /\ worker' = [worker EXCEPT ![w] = [st |-> "stopped"]]
          /\ UNCHANGED qvars
    /\ UNCHANGED <<ovars, overdue, rows, crashes>>

\* The worker has waited for --queue-empty-wait-timeout and exits.
Leave(w) ==
    /\ MayLeave
    /\ worker[w] = Idle
    /\ queue = <<>> /\ ~stopSignal
    /\ worker' = [worker EXCEPT ![w] = [st |-> "left"]]
    /\ UNCHANGED <<qvars, ovars, overdue, rows, crashes>>

\* A worker that belongs to another run finds the case's target is not its
\* own: it hands the case back, without a row, and stops.
Refuse(w) ==
    /\ MayMisroute
    /\ worker[w].st = "running"
    /\ IF worker[w].loop \in completedLoops
       THEN UNCHANGED qvars
       ELSE ReportCompletion(worker[w].loop, FALSE)
    /\ worker' = [worker EXCEPT ![w] = [st |-> "stopped"]]
    /\ UNCHANGED <<ovars, overdue, rows, crashes>>

\* The case has run.  Its row is stored before anything is reported; a store
\* that fails is only warned about.
Save(w, success) ==
    /\ worker[w].st = "running"
    /\ success \/ MayFail
    /\ \/ rows' = [rows EXCEPT ![worker[w].sample] = Append(@, success)]
       \/ MayLoseRows /\ UNCHANGED rows
    /\ worker' = [worker EXCEPT ![w] =
                     [st |-> "saved", loop |-> worker[w].loop,
                      success |-> success]]
    /\ UNCHANGED <<qvars, ovars, overdue, crashes>>

\* The queue is told how the case ended, which it ignores when it has counted
\* the loop already.
ReportOtherLoop(w) ==
    /\ worker[w].st = "saved"
    /\ IF worker[w].loop + 1 \in completedLoops
       THEN UNCHANGED qvars
       ELSE ReportCompletion(worker[w].loop + 1, worker[w].success)
    /\ worker' = [worker EXCEPT ![w] = Idle]
    /\ UNCHANGED <<ovars, overdue, rows, crashes>>

Report(w) ==
    /\ worker[w].st = "saved"
    /\ IF worker[w].loop \in completedLoops
       THEN UNCHANGED qvars
       ELSE ReportCompletion(worker[w].loop, worker[w].success)
    /\ worker' = [worker EXCEPT ![w] = Idle]
    /\ UNCHANGED <<ovars, overdue, rows, crashes>>

\* The worker's process, container or control plane is lost.
Crash(w) ==
    /\ crashes < MaxCrashes
    /\ worker[w].st \notin Gone
    /\ crashes' = crashes + 1
    /\ worker' = [worker EXCEPT ![w] = [st |-> "crashed"]]
    /\ UNCHANGED <<qvars, ovars, overdue, rows>>

\* The watchdog starts a worker in the place of one whose container has
\* stopped, for whatever reason, while the orchestrator polls.  It looks only
\* when the poll's snapshot, which may be old, shows work.
Restart(w) ==
    /\ AutoRestart
    /\ pc \notin {"start", "done"}
    /\ worker[w].st \in Gone
    /\ worker' = [worker EXCEPT ![w] = Idle]
    /\ UNCHANGED <<qvars, ovars, overdue, rows, crashes>>

WorkRemains == queue # <<>> \/ DOMAIN inFlight # {}

Work(w) == Fetch(w) \/ Report(w) \/ \E success \in BOOLEAN : Save(w, success)

RunNext ==
    \/ Orchestrator
    \/ CaseTimePasses
    \/ StallTimePasses
    \/ \E w \in Workers :
          Work(w) \/ Refuse(w) \/ Leave(w) \/ Crash(w) \/ Restart(w)

RunSpec == RunInit /\ [][RunNext]_rvars

\* The orchestrator polls and clocks run.  Nothing is assumed of the workers:
\* they may be slow, silent or gone.
PollingSpec ==
    /\ RunSpec
    /\ WF_rvars(Orchestrator)
    /\ WF_rvars(CaseTimePasses)
    /\ WF_rvars(StallTimePasses)

\* Workers that are alive work, and missing ones are replaced while there is
\* work for them.
WorkersWork ==
    \A w \in Workers :
        WF_rvars(Work(w)) /\ WF_rvars(WorkRemains /\ Restart(w))

-----------------------------------------------------------------------------
(* What a run promises.                                                    *)

\* The sample waits for a worker or is held by one.
Live(s) ==
    \/ \E i \in DOMAIN queue : queue[i].sample = s
    \/ \E l \in DOMAIN inFlight : inFlight[l].sample = s

\* The sample has what the statistics wait for: a success, as many failures as
\* attempts are allowed, or the queue's word that it is lost.
Settled(s) ==
    Resolved(rows[s], \E t \in abandoned : t.sample = s, MaxAttempts)

\* The orchestrator and the workers call the queue only as TaskQueue allows:
\* no worker reports a loop that was never handed out, which would count a
\* case that is still running as finished, and start numbers come first.
ImplementsQueue == Spec

\* While the strategy still wants samples, none that it issued is forgotten:
\* one that no worker will bring is settled.  An unsettled sample that nobody
\* works on would cut the prefix there for ever, and the rule would never see
\* a sample behind it.
NoSampleForgotten ==
    ~stopReason => \A s \in 1 .. added : Live(s) \/ Settled(s)

\* The orchestrator leaves a quiet queue: nothing waits, no case is in the
\* hands of a worker whose report could put it back, and every worker that
\* asks again is told to stop.
EndIsQuiet ==
    pc = "done" => queue = <<>> /\ DOMAIN inFlight = {} /\ stopSignal

\* Once a stop reason is known nothing is issued any more, although the
\* snapshot a refill works from was read earlier (orchestrator.py: "Once
\* stopping, issue nothing more").
IssuesNothingAfterStop == [][stopReason => added' = added]_rvars

\* A sample the statistical rule has seen stays seen, and one that it has seen
\* succeed keeps its value, even when a worker whose case was counted as lost
\* brings another row for it.
SeenSuccessesStay ==
    [][ \A s \in SeenSamples :
          /\ s \in SeenSamples'
          /\ Successes(rows[s]) # {} =>
               ChosenRow(rows[s])' = ChosenRow(rows[s]) ]_rvars

\* What the statistical rule has seen of a sample changes at all only by the
\* row of a worker whose case had been counted as lost.
SeenSamplesStay ==
    [][ \A s \in SeenSamples :
          \/ ChosenRow(rows[s])' = ChosenRow(rows[s])
          \/ \E w \in Workers :
                /\ worker[w].st = "running" /\ worker[w].sample = s
                /\ worker[w].loop \in completedLoops ]_rvars

\* Once there is a stop reason the run ends, even if every worker is gone or
\* hangs: overdue cases are counted and what nobody takes is cancelled.
StopEndsRun == stopReason ~> pc = "done"

\* A run whose workers work ends, whatever crashes and failures it meets.
RunEnds == WorkersWork => <>(pc = "done")
=============================================================================
