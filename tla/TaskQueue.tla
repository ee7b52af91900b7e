------------------------------ MODULE TaskQueue ------------------------------
(***************************************************************************)
(* The queue actor every worker of a cluster run takes its cases from      *)
(* (runtime/cluster/ray_queue.py).  Ray runs the methods of an actor one   *)
(* at a time, so each method that changes state is one action.             *)
(*                                                                         *)
(* A case is its sample number and the number of the attempt; the payload  *)
(* is the same for every attempt and is left out.  Time is left out too:   *)
(* the cases taken longest ago are those with the smallest loop numbers,   *)
(* so RequeueStale is given the largest loop number that is overdue.       *)
(***************************************************************************)
EXTENDS Integers, Sequences, FiniteSets, Functions

CONSTANTS
    MaxSamples,     \* samples the strategy may add (its max_samples)
    MaxAttempts,    \* max_attempts, --max-attempts
    HasTimeout,     \* a case_timeout_sec is set
    MaxStart        \* bound on the loop number a resumed run starts from

ASSUME MaxSamplesAssumption == MaxSamples \in Nat
ASSUME MaxAttemptsAssumption == MaxAttempts \in Nat \ {0}
ASSUME HasTimeoutAssumption == HasTimeout \in BOOLEAN
ASSUME MaxStartAssumption == MaxStart \in Nat

Samples == 1 .. MaxSamples
Task == [sample : Samples, attempt : 0 .. MaxAttempts - 1]

VARIABLES
    queue,            \* cases waiting, the next one first
    inFlight,         \* loop number -> case, for the cases workers hold
    completedLoops,   \* loop numbers counted as finished
    startCount,       \* the loop number the run was started from
    dispatchedCount,
    completedCount,
    stopSignal,
    abandoned,        \* cases given up after their last attempt
    retriedCount,
    added             \* samples the strategy has put into the queue

qvars == <<queue, inFlight, completedLoops, startCount, dispatchedCount,
           completedCount, stopSignal, abandoned, retriedCount, added>>

TypeOK ==
    /\ queue \in Seq(Task)
    /\ DOMAIN inFlight \in SUBSET Nat
    /\ inFlight \in [DOMAIN inFlight -> Task]
    /\ completedLoops \in SUBSET Nat
    /\ startCount \in Nat
    /\ dispatchedCount \in Nat
    /\ completedCount \in Nat
    /\ stopSignal \in BOOLEAN
    /\ abandoned \in SUBSET Task
    /\ retriedCount \in Nat
    /\ added \in 0 .. MaxSamples

Init ==
    /\ queue = <<>>
    /\ inFlight = <<>>
    /\ completedLoops = {}
    /\ startCount = 0
    /\ dispatchedCount = 0
    /\ completedCount = 0
    /\ stopSignal = FALSE
    /\ abandoned = {}
    /\ retriedCount = 0
    /\ added = 0

-----------------------------------------------------------------------------
(* Helpers.                                                                *)

\* The loop numbers the queue has given out in this run.
HandedOut == DOMAIN inFlight \cup completedLoops

\* The same case, one attempt later.
NextAttempt(task) == [task EXCEPT !.attempt = @ + 1]

\* The loop numbers of S in decreasing order: the order in which repeated
\* insertions at the front leave them (the set has exactly one member).
NewestFirst(S) ==
    { s \in [1 .. Cardinality(S) -> S] :
        \A i, j \in 1 .. Cardinality(S) : i < j => s[i] > s[j] }

\* Another attempt is allowed after this one.
OneAttemptTooMany(task) == task.attempt + 1 <= MaxAttempts
OneAttemptTooFew(task) == task.attempt + 2 < MaxAttempts

AttemptLeft(task) == task.attempt + 1 < MaxAttempts

\* Cases that failed go before the cases that have not run yet.
PutAtBack(cases) == queue \o cases

RetryForgotten(cases) == queue

PutBack(cases) == cases \o queue

\* The cases of these loops go back to the front of the queue while they have
\* an attempt left, and are given up otherwise.
RetryOrAbandon(loops) ==
    LET again == {l \in loops : AttemptLeft(inFlight[l])}
    IN  /\ \E back \in NewestFirst(again) :
             queue' = PutBack([i \in 1 .. Cardinality(again) |->
                                  NextAttempt(inFlight[back[i]])])
        /\ retriedCount' = retriedCount + Cardinality(again)
        /\ abandoned' = abandoned \cup {inFlight[l] : l \in loops \ again}

-----------------------------------------------------------------------------
(* The methods of the actor.                                               *)

\* A resumed run continues the loop numbers of the run before it.  The
\* orchestrator calls this before the strategy has issued anything.
SetStartCounts(count) ==
    /\ added = 0
    /\ dispatchedCount = 0
    /\ startCount' = count
    /\ dispatchedCount' = count
    /\ completedCount' = count
    /\ UNCHANGED <<queue, inFlight, completedLoops, stopSignal, abandoned,
                   retriedCount, added>>

\* The strategy numbers the samples it issues one after the other.
AddTask ==
    /\ added < MaxSamples
    /\ added' = added + 1
    /\ queue' = Append(queue, [sample |-> added + 1, attempt |-> 0])
    /\ UNCHANGED <<inFlight, completedLoops, startCount, dispatchedCount,
                   completedCount, stopSignal, abandoned, retriedCount>>

\* A worker takes the first case.  With the stop signal set the method answers
\* "stop", with an empty queue None, and neither answer changes the queue.
GetNextTask ==
    /\ ~stopSignal
    /\ queue # <<>>
    /\ queue' = Tail(queue)
    /\ dispatchedCount' = dispatchedCount + 1
    /\ inFlight' = [l \in DOMAIN inFlight \cup {dispatchedCount + 1} |->
                       IF l = dispatchedCount + 1 THEN Head(queue)
                       ELSE inFlight[l]]
    /\ UNCHANGED <<completedLoops, startCount, completedCount, stopSignal,
                   abandoned, retriedCount, added>>

\* A worker reports how its case ended.  A loop that is already counted (a
\* second report, or one after the case was counted as lost) is ignored.
CountedAgain(loop) == TRUE

NotCounted(loop) == loop \notin completedLoops

ReportCompletion(loop, success) ==
    /\ NotCounted(loop)
    /\ completedLoops' = completedLoops \cup {loop}
    /\ inFlight' = Restrict(inFlight, DOMAIN inFlight \ {loop})
    /\ completedCount' = completedCount + 1
    /\ IF loop \in DOMAIN inFlight /\ ~success /\ MaxAttempts > 1
       THEN RetryOrAbandon({loop})
       ELSE UNCHANGED <<queue, retriedCount, abandoned>>
    /\ UNCHANGED <<startCount, dispatchedCount, stopSignal, added>>

\* The cases that are overdue count as lost and finished; each is queued
\* again or given up.  This happens even when only one attempt is allowed.
StaleStaysInFlight(stale) == inFlight

WithoutStale(stale) == Restrict(inFlight, DOMAIN inFlight \ stale)

StaleNotCounted(stale) == completedCount

StaleCounted(stale) == completedCount + Cardinality(stale)

RequeueStale(overdue) ==
    LET stale == {l \in DOMAIN inFlight : l <= overdue}
    IN  /\ HasTimeout
        /\ stale # {}
        /\ inFlight' = WithoutStale(stale)
        /\ completedLoops' = completedLoops \cup stale
        /\ completedCount' = StaleCounted(stale)
        /\ RetryOrAbandon(stale)
        /\ UNCHANGED <<startCount, dispatchedCount, stopSignal, added>>

SetStopSignal ==
    /\ stopSignal' = TRUE
    /\ UNCHANGED <<queue, inFlight, completedLoops, startCount,
                   dispatchedCount, completedCount, abandoned, retriedCount,
                   added>>

\* Cases that no worker has taken are dropped; those in flight stay.
CancelPending ==
    /\ queue' = <<>>
    /\ UNCHANGED <<inFlight, completedLoops, startCount, dispatchedCount,
                   completedCount, stopSignal, abandoned, retriedCount, added>>

Next ==
    \/ \E count \in 1 .. MaxStart : SetStartCounts(count)
    \/ AddTask
    \/ GetNextTask
    \/ \E loop \in HandedOut, success \in BOOLEAN :
          ReportCompletion(loop, success)
    \/ \E overdue \in 1 .. dispatchedCount : RequeueStale(overdue)
    \/ SetStopSignal
    \/ CancelPending

Spec == Init /\ [][Next]_qvars

-----------------------------------------------------------------------------
(* What the queue promises.                                                *)

\* The orchestrator ends a run when completed_count >= dispatched_count: that
\* must say that no worker holds a case any more.  Every loop number given out
\* is either in flight or counted, once, however late and however often
\* workers report and however often the queue declares a case lost.
Accounting ==
    /\ DOMAIN inFlight \cap completedLoops = {}
    /\ HandedOut = startCount + 1 .. dispatchedCount
    /\ completedCount = startCount + Cardinality(completedLoops)

\* A sample exists in one copy: it waits once, or is held by one loop, or was
\* given up, and never two of these, although failures, losses and late
\* reports race to put it back.
OneCopy ==
    /\ \A i, j \in DOMAIN queue :
          queue[i].sample = queue[j].sample => i = j
    /\ \A k, l \in DOMAIN inFlight :
          inFlight[k].sample = inFlight[l].sample => k = l
    /\ \A i \in DOMAIN queue, l \in DOMAIN inFlight :
          queue[i].sample # inFlight[l].sample
    /\ \A t \in abandoned :
          /\ \A i \in DOMAIN queue : queue[i].sample # t.sample
          /\ \A l \in DOMAIN inFlight : inFlight[l].sample # t.sample
          /\ \A u \in abandoned : u.sample = t.sample => u = t

\* The samples after a failed one wait for it, so its next attempt is taken
\* before any case that has not run yet, and those are taken in sample order.
RetriesFirst ==
    \A i, j \in DOMAIN queue :
        i < j => \/ queue[i].attempt > 0
                 \/ /\ queue[j].attempt = 0
                    /\ queue[i].sample < queue[j].sample

\* What the strategy is told to leave out of its sample was really given all
\* its attempts.
GivenUpAfterLastAttempt ==
    \A t \in abandoned : t.attempt + 1 = MaxAttempts
=============================================================================
