------------------------------- MODULE DkwStages -------------------------------
(***************************************************************************)
(* The sequential DKW rule (orchestration/dkw_mode.py) as the strategy of  *)
(* fixed-point sampling asks it (orchestration/fixed_parameter_dkw.py).    *)
(* Stage s is evaluated once, on the first Base * s^2 samples, at the      *)
(* error share delta / 2^s, so the shares of all stages together stay      *)
(* below delta; while a stage lacks results, samples go on being issued.   *)
(*                                                                         *)
(* The orchestrator asks again and again; results arrive in any order      *)
(* between two calls.  The rows a rule sees are those of StatisticalSample *)
(* and an evaluation is reduced to whether it is content.                  *)
(***************************************************************************)
EXTENDS StatisticalSample

CONSTANTS
    BaseSamples,    \* base_samples
    MaxSamples,     \* max_samples
    MaxAttempts,    \* attempts a sample may take
    MaxRows,        \* bound on the rows of one sample
    MaxLost         \* bound on the samples given up

ASSUME DkwAssumption ==
    /\ {BaseSamples, MaxSamples, MaxAttempts} \subseteq Nat \ {0}
    /\ {MaxRows, MaxLost} \subseteq Nat

VARIABLES
    rows,       \* sample -> its dataset rows, TRUE for a success
    issued,     \* issued_sample_indexes
    abandoned,  \* abandoned_sample_indexes
    stage,      \* DKWModeState.stage
    dispatched, \* DKWModeState.dispatched_task_count, and random_index
    final,      \* DKWModeState.final: "none", or why the run stops
    looks       \* the evaluations made, as the history records them

data == <<rows, issued, abandoned>>
state == <<stage, dispatched, final, looks>>
vars == <<data, state>>

\* A sample number is the length of the dataset plus the draws made so far.
SampleIndexes == 0 .. 2 * (MaxSamples - 1)

Init ==
    /\ rows = [s \in SampleIndexes |-> <<>>]
    /\ issued = {}
    /\ abandoned = {}
    /\ stage = 1
    /\ dispatched = 0
    /\ final = "none"
    /\ looks = <<>>

-----------------------------------------------------------------------------
(* The dataset.                                                            *)

RowArrives(s) ==
    /\ s \in issued
    /\ Len(rows[s]) < MaxRows
    /\ \E ok \in BOOLEAN : rows' = [rows EXCEPT ![s] = Append(@, ok)]
    /\ UNCHANGED <<issued, abandoned, state>>

\* The queue gives up a sample whose worker is lost.
GiveUp(s) ==
    /\ s \in issued \ abandoned
    /\ Cardinality(abandoned) < MaxLost
    /\ abandoned' = abandoned \cup {s}
    /\ UNCHANGED <<rows, issued, state>>

Settled(s) == Resolved(rows[s], s \in abandoned, MaxAttempts)

\* The samples up to the first one without a final result, and those of them
\* that have a row.
SeenWithHoles == {s \in issued : Settled(s)}

Seen == Prefix(rows, abandoned, issued, MaxAttempts)

Frame == {s \in Seen : rows[s] # <<>>}

PendingWithoutRow == {s \in issued : rows[s] = <<>>}

\* _pending_samples: the issued samples from that first one on.  Of an empty
\* frame nothing is known to be settled.
Pending == IF Frame = {} THEN issued ELSE issued \ Seen

\* The rows a stage may use, in sample order.
Usable == InOrder({s \in Frame : Successes(rows[s]) # {}})

-----------------------------------------------------------------------------
(* The schedule.                                                           *)

Size(s) ==
    IF BaseSamples * s * s < MaxSamples THEN BaseSamples * s * s ELSE MaxSamples

IsLast(s) == Size(s) = MaxSamples

LastStage == CHOOSE s \in 1 .. MaxSamples :
                IsLast(s) /\ \A t \in 1 .. s - 1 : ~IsLast(t)

-----------------------------------------------------------------------------
(* The rule.                                                               *)

ExhaustedOneLate == dispatched > MaxSamples

Exhausted == dispatched >= MaxSamples

\* Once every sample is issued, the last evaluation waits for the results.
Waits == Exhausted /\ Pending # {}

Ready(s) == Frame # {} /\ (Len(Usable) >= Size(s) \/ Exhausted)

GoesOnToLast(s) == ~IsLast(s) /\ Ready(s + 1)

\* One call evaluates every stage that has its results.  When no more samples
\* can be issued, only one more stage is, with what there is.
GoesOn(s) == ~IsLast(s) /\ ~Exhausted /\ Ready(s + 1)

\* The stages an unsuccessful call evaluates.
Evaluable ==
    {s \in stage .. LastStage + 1 :
        Ready(s) /\ \A t \in stage .. s - 1 : GoesOn(t)}

LookAt(s) ==
    [stage |-> s,
     samples |-> IF Len(Usable) < Size(s) THEN Usable ELSE SubSeq(Usable, 1, Size(s))]

\* Evaluates the stages from the current one up to s.
Evaluate(s) ==
    /\ looks' = looks \o [i \in 1 .. s - stage + 1 |-> LookAt(stage + i - 1)]
    /\ stage' = s + 1

NumberAfterWaiting == Cardinality(issued \ Frame)

\* The next sample gets a number of its own.
NextNumber == IF issued = {} THEN 0 ELSE Cardinality(Frame) + dispatched

IssueSample ==
    /\ issued' = issued \cup {NextNumber}
    /\ dispatched' = dispatched + 1
    /\ UNCHANGED <<rows, abandoned>>

DecidedAgain == FALSE

\* A decision to stop is kept: later calls answer it without evaluating.
Decided == final # "none"

\* A stage was content (or failed with an error, which stops the run as well).
StopContent ==
    /\ ~Decided /\ ~Waits
    /\ \E s \in Evaluable : Evaluate(s)
    /\ final' = "complete"
    /\ UNCHANGED <<data, dispatched>>

\* None of the stages that could be evaluated was content.
EvaluateAll ==
    IF Evaluable = {} THEN UNCHANGED <<looks, stage>>
    ELSE Evaluate(CHOOSE s \in Evaluable : \A t \in Evaluable : t <= s)

StopExhausted ==
    /\ ~Decided /\ ~Waits
    /\ EvaluateAll
    /\ Exhausted \/ (stage' > 1 /\ IsLast(stage' - 1))
    /\ final' = "exhausted"
    /\ UNCHANGED <<data, dispatched>>

IssueNext ==
    /\ ~Decided /\ ~Waits
    /\ EvaluateAll
    /\ ~(Exhausted \/ (stage' > 1 /\ IsLast(stage' - 1)))
    /\ IssueSample
    /\ UNCHANGED final

Ask == StopContent \/ StopExhausted \/ IssueNext

Next ==
    \/ Ask
    \/ \E s \in SampleIndexes : RowArrives(s) \/ GiveUp(s)

\* The orchestrator asks as long as it has no stop reason, and the queue
\* brings a result of every sample or gives it up.
Settle(s) == ~Settled(s) /\ (RowArrives(s) \/ GiveUp(s))

Spec ==
    /\ Init /\ [][Next]_vars
    /\ WF_vars(Ask)
    /\ \A s \in SampleIndexes : WF_vars(Settle(s))

-----------------------------------------------------------------------------
DkwTypeOK ==
    /\ rows \in [SampleIndexes -> Seq(BOOLEAN)]
    /\ issued \in SUBSET SampleIndexes
    /\ abandoned \in SUBSET issued
    /\ stage \in 1 .. LastStage + 1
    /\ dispatched \in 0 .. MaxSamples
    /\ final \in {"none", "complete", "exhausted"}
    /\ looks \in Seq([stage : 1 .. LastStage, samples : Seq(SampleIndexes)])

\* Every stage's share of the error is spent at most once and in order: the
\* i-th evaluation is that of stage i, and all but the last one use exactly
\* the samples of their stage.  (dkw_mode.py: "each stage s is evaluated
\* exactly once, on the first base * s^2 uniform samples".)
StagesInOrder ==
    \A i \in DOMAIN looks :
        /\ looks[i].stage = i
        /\ i < Len(looks) => Len(looks[i].samples) = Size(i)

\* A decision to stop stands: no later call evaluates another stage, at a
\* smaller share of the error, or issues a sample.
DecisionKept == [][final # "none" => UNCHANGED state]_vars

\* No stage is evaluated on samples that overtook others: when it is, every
\* sample issued before the last one it uses has its final result.
NoneOvertaken ==
    [][ \A i \in DOMAIN looks' \ DOMAIN looks :
          \A s \in issued : \A j \in DOMAIN looks'[i].samples :
             s <= looks'[i].samples[j] => Settled(s) ]_vars

\* A sample is issued under a number above all earlier ones, although the
\* number depends on how much of the dataset is there.  A number used twice
\* would merge two samples, and one below others would hide those again.
NumbersIncrease ==
    [][ dispatched' # dispatched =>
          \E s \in issued' \ issued : \A t \in issued : t < s ]_vars

\* The rule comes to a decision once results come back, as soon as there is
\* any row at all.
Decides == <>(final # "none" \/ [](\A s \in SampleIndexes : rows[s] = <<>>))
=============================================================================
