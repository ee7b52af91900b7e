# Formal models of AWSIM_launch

TLA+ models of the parts of AWSIM_launch that decide *which* simulation cases
run, *how often*, and *which results a statistical rule gets to see*. TLC checks
them on small instances, TLAPS proves the main safety properties for every value
of the constants.

## The system

An experiment draws samples (parameter vectors with seeds), runs each as a
simulation case on one of many workers, collects one row per case in a dataset
and lets a statistical rule look at the rows until it is content.

| Component | State | Operations | Talks to |
|---|---|---|---|
| Task queue (`runtime/cluster/ray_queue.py`), a Ray actor | pending cases, cases in flight by loop number, counted loops, dispatched and completed counts, stop signal, given-up cases | add, take, report, requeue stale, set start counts, set stop signal, cancel pending, snapshot | called by orchestrator, executors and workers |
| Orchestrator (`orchestration/orchestrator.py`) | stop reason, stalled-drain tracking | poll: requeue stale, snapshot, refill, cancel, signal, end | queue, strategy, watchdog |
| Sampling strategies (`orchestration/fixed_parameter_sampling.py`, `region_sampling.py`, `dkw_mode.py`, `exploration/`) | samples issued, samples given up | next case or stop | dataset, statistical rules |
| Statistical sample (`evaluation/statistical_sample.py`) | none (pure) | dataset to ordered prefix | used by every rule |
| Worker loop (`orchestration/worker_loop.py`) | the case in hand | fetch, run, save, report, refuse, leave | queue, result sinks, backend |
| Result sinks and shared store (`runtime/cluster/result_sink.py`, `runtime/repository/shared_store.py`) | buffered inputs, dataset, records | buffer, merge, flush | workers |
| Worker watchdog (`runtime/cluster/worker_watchdog.py`) | restart counts and times, GPU failures, quarantine, workers given up | check on each poll: GPU round, silent workers, missing workers | queue snapshot, cluster manager (docker over ssh) |
| Sequential DKW (`orchestration/dkw_mode.py`, `fixed_parameter_dkw.py`) | stage, draws, final decision, history | next case, wait or stop | statistical sample, strategies |
| Importance-sampling executors (`orchestration/importance/`) | submissions, records, stored prefix | submit, collect, store, time out, cancel | queue, record file |
| Experiments (`orchestration/fixed_importance_sampling.py`, `importance/runner.py`, `importance_experiment_manifest.py`) | manifest, records, comparison | sessions, rounds of attempts, audit, resume | executors, record files |
| Supervised processes (`runtime/container/supervised_process/`) | registry of children | spawn, run, poll, signal, release, shutdown | backends |
| Proposal updates (`orchestration/proposal_updates.py`) | state of a proposed plan | propose, approve, apply | history file |

What makes it hard: every worker acts between any two calls of the orchestrator;
cases fail, are lost with their worker, or come back after they were counted as
lost; rows arrive in the order in which workers finish, and that order depends
on the result (a collision ends a run early); the run has to end although
workers may not; and a sample that silently disappears cuts off everything the
statistics would use after it. `PROJECT.json` lists these hazards at their lines.

What should hold, per component:

* queue: each loop number is counted exactly once, a sample never exists twice,
  retries come first, nothing is given up early;
* orchestrator: it uses the queue as the queue expects, issues nothing once it
  is stopping, leaves only when nothing waits or runs, and does leave;
* statistical sample: independent of arrival order, a prefix, stable once seen;
* run as a whole: no sample is forgotten; every sample issued is settled;
* executors: same results as a run on one machine, whatever the workers do;
* sequential DKW: each stage evaluated once, in order, on samples nothing
  overtook; a decision is kept, and is reached;
* watchdog: it brings workers back, but not within their cooldown, not beyond
  their budget and never once given up, and spares running cases;
* experiments: records of one identity, attempts used up, and "complete" only
  for one success per sample;
* supervisor: no child outlives it, and none it answered for is out of reach.

## Modules

| Module | Models |
|---|---|
| `TaskQueue` | the queue actor; one action per method |
| `StatisticalSample` | which rows a rule sees: as a set (`Prefix`) and as the code's pass (`PreparedSample`) |
| `StatisticalSampleProofs` | lemmas: numbers in order; what is seen stays seen as rows come |
| `SampleFeed` | a dataset that fills in any order, around `StatisticalSample` |
| `SampleFeedProofs` | the pass gives the prefix; the order of arrival does not matter |
| `ClusterRun` | orchestrator, strategy, workers, watchdog and dataset around `TaskQueue` |
| `ClusterRunProofs` | the queue's invariant; `ClusterRun` implements `TaskQueue`; what holds at the end of a run; what a rule has seen stays; no sample is forgotten |
| `CaseExecutor` | what an importance-sampling executor promises, and all the local one does |
| `ClusterExecutor` | the executor on a cluster, its workers and the record file |
| `ClusterExecutorProofs` | every record is accounted for, none is skipped; it implements `CaseExecutor` |
| `DkwStages` | the stages of the sequential DKW rule, around `StatisticalSample` |
| `DkwStagesProofs` | each stage once and in order, on samples nothing overtook; new numbers |
| `WorkerWatchdog` | the watchdog's check, call by call, with workers, faults and clocks |
| `WorkerWatchdogProofs` | its invariant; no one is restarted too early or after being given up |
| `ExperimentRounds` | sessions and rounds of a fixed-number importance-sampling experiment and its files |
| `ExperimentRoundsProofs` | one identity, attempts used up, complete runs |
| `ProcessSupervisor` | the supervisor of a worker container and its connection threads |
| `ProcessSupervisorProofs` | what is stopped, and what stays within reach |
| `MC*` | instances for TLC |

An operator written just before another one with the same parameters and used
nowhere is a *mutated form* of it: a plausible mistake in that piece of code.
`PROJECT.json` lists, for every property, a mutated form that violates it.

### TaskQueue

Ray runs an actor's methods one at a time, so each method is one action. A case
is `[sample, attempt]`; payload, tags and time stamps are left out. Loop numbers
are given out in order, so cases taken longest ago have the smallest numbers and
`RequeueStale(overdue)` takes the largest overdue loop number in the place of a
clock. `requeue_stale_tasks` inserts one case after another at the front, which
leaves them newest first (`NewestFirst`). `startCount` remembers what
`set_start_counts` was given and `added` how many samples the strategy issued.
`Next` lets workers report any loop that was handed out, at any time, any number
of times. `update_worker_status` only stores heartbeats; it is part of
`WorkerWatchdog`.

### StatisticalSample and SampleFeed

`PreparedSample` follows `prepare_statistical_sample`: the numbers of all known
samples in order (`InOrder`), one `Turn` per number, ending at the first that is
not resolved; `Turns` is a recursive function, the state after each turn.
`Prefix` states the same without a loop. A row is its sample number
and whether its status is `success`. `SampleFeed` appends rows of issued samples
in any order and gives samples up at any time.

### ClusterRun

`pc` names the orchestrator's next call to the queue actor. Between two of its
calls any worker may make any number of calls, so what the orchestrator decides
rests on snapshots as old as in the code. A snapshot and the decision taken on
it are one step, since nothing that others change is read in between.

| `pc` | Code in `Orchestrator.run` |
|---|---|
| `start`, `firstIssue` | start counts, first snapshot, first refill |
| `requeue` | `_requeue_stale_tasks` |
| `snapshot`, `target` | poll snapshot, target total reached |
| `issue` | `_refill_queue`, one case per step |
| `drain`, `cancel`, `cancelled` | snapshot after the refill, cancel with the stop signal set |
| `stalled`, `stalledCancelled` | the stalled drain |
| `signal`, `signalled` | stop signal once the queue is empty |
| `done` | `_should_finish_external_loop` held |

`overdue` and `stalledLong` are the two clocks: `case_timeout_sec` for loops up
to `overdue`, and `_STALLED_DRAIN_TIMEOUT_SEC`. A worker is idle, running a
case, has saved its row, or is gone (crashed, left, stopped). `rows` is the
dataset by sample. The rule is reduced to "may be content with a non-empty
prefix" (`MayConverge`).

Constants switch single behaviours off where a run asks a question that does not
need them: `MayFail`, `MayLoseRows` (the optional sink fails), `MayMisroute` (a
worker of another run), `MayLeave` (a worker gives up at an empty queue),
`AutoRestart` (the watchdog), `PromptWorkers` (a live worker takes a waiting
case before the stalled-drain timeout), `HasTimeout`. `TargetTotal = 0` stands
for a strategy that ends a run by itself. With one attempt per sample a refused
case is only counted (`ray_queue.py:97`), although the comment at
`worker_loop.py:333-335` says the queue issues it again; so `MayMisroute` is on
only with retries, where it does.

Abstractions: the stages of one case are one step (`Save` holds every outcome);
the watchdog has no budget and restarts in one step (`WorkerWatchdog` has both);
strategies that make the orchestrator wait for
results (model checking, importance sampling), `max_strategy_cases`, the inline
worker and fixtures are left out.

### CaseExecutor and ClusterExecutor

`CaseExecutor` is the executor on one machine (`executors.py`): records reach
the sink in sample order, and a sequential run ends with the first one that makes
the rule content. `ClusterExecutor` (`cluster_executor.py`) is shown to implement
it: `delivered` is the samples of `results`, `content` is `stopped`, `outcome`
follows from `pc`. Which of the two kinds of run it is and when the rule is
content are left open. A run of
a fixed number may leave out lost samples; a sequential run may only end with an
error (`CaseLost`) in that case.

| `pc` | Code in `ClusterExecutor` |
|---|---|
| `submit` | the submit loop, one case per step, then `_collect` |
| `store` | `_store_next` and the rule, one record per step, then what follows a stop and the return of `run_sequential` |
| `cancel`, `list`, `recollect`, `drop` | the calls of `_cancel_untaken`, in order |
| `timeouts` | `_check_timeouts`, then the end of `run`'s loop |
| `returned`, `raised` | return, `CaseLost` |

The fields of `_Job` become functions and sets over samples: `submissions`,
`taken` (`taken_at`), `record`, `done`, `lost`, `stored`. A sample's clock is `no`
(not seen in flight), `seen` or `overdue`, and `TimePasses` moves it from `seen`
to `overdue`. `log` is the record file, `offset` how much of it was read, and a
record is referred to by its position, so that `EveryRecordKept` can say that each
one read is in exactly one place. `_check_timeouts` reads the cases in flight once
and then only changes the executor's own state and the end of the queue, which
makes it one step. The queue is the one of `TaskQueue` as the command line sets
it up for such a run: one attempt, no timeout of its own. A worker that is lost
leaves its case in flight; the watchdog would only add an idle one.

Left out: two streams in one run (they share only the limit of cases in flight),
records of unknown cases (a new file per run has none), a missing case timeout
(the command line always sets one).

### DkwStages

`Ask` is one call of the strategy's `next_test_case`, split by what it answers:
the rule is content (`StopContent`), nothing is left to evaluate
(`StopExhausted`), or another sample (`IssueNext`); while it waits for results
it answers nothing and no action is enabled. Between two calls `RowArrives` and
`GiveUp` change the dataset. Which rows count is `Prefix` of `StatisticalSample`,
so the pass that `SampleFeed` checks is the one used here. One call evaluates as
many stages as have their results (`Evaluable`), and any of them may be content:
the bound itself is numerical. `looks` is the history the rule writes.
`NextNumber` keeps the code's computation, the length of the filtered dataset
plus the draws made, because the question is whether it ever repeats. Left out:
the fixed-N mode, regions and exploration rows.

### WorkerWatchdog

`Check` reads snapshot and clock once (`snap`); then `todo` and `pc` walk through
the three rounds, one remote call per step: `gpu` (inspect and probe),
`gpuRemove`, `gpuRestart`, `gpuVerify`, `stale`, `missing`. Workers, faults and
clocks act between any two calls, so a decision is as old as in the code.

| Variable | Code |
|---|---|
| `cooling`, `restarts` | `last_restart_at` against the cooldown, `restart_counts` |
| `attempts`, `failures`, `healthy` | the GPU round's 24-hour attempts, consecutive failures, healthy since |
| `quarantined`, `terminal` | `gpu_quarantined`, `gpu_terminal_quarantine` |
| `cont`, `proc`, `gpu` | the container with its exit code, the worker in it, what it sees |
| `status`, `stale`, `queue`, `lost` | what the queue's snapshot shows |

A duration is a flag that a clock action sets. Inspecting and probing one
container is one step, removing a container succeeds, the events for the summary
are left out. A launch that fails at once looks like a container that is still
what it was.

### ExperimentRounds

`Begin` is the session up to the check of the manifest; `PlanRound`, `StoreNext`,
`LoseNext`, `RoundDone` and `RoundsOver` are the rounds; `Audit` ends it. `Kill`
and `KillInAppend` may end it anywhere. A file is its sequence of records plus
how it ends: a line that was cut off, or that lacks its newline so that the next
append joins it, cannot be read (`tail`). The latest attempt is the one with the
largest number, then the later line. A settings value stands for all identity
fields but the root. The executor is its protocol: jobs of a kind are stored in
order, and it may raise attempt numbers or, on a cluster, lose a case.
`RunUntilStop` is the sequential mode in the same directory, which neither reads
the manifest nor tags its records. Two sessions at once are not modelled: they
would need a lock the code does not have.

### ProcessSupervisor

`main` follows `serve`; each request has a thread (`step`). What the registry's
lock covers is one step, everything else is split: the process exists before it
is registered, a released child leaves the registry before it is killed,
`stop_all` signals a copy of the children and kills after its grace period, and
`serve` joins each thread for a second only (`gaveUp`). Children may end at any
time. Only the leaders of the process groups are followed.

## Runs

| Run | Instance | Question |
|---|---|---|
| `Queue` | 3 samples, 3 attempts, start at 0 or 1 | Do the promises of the queue hold under every order of calls? |
| `SampleFeed` | 3 samples, 2 attempts, 4 rows | Is what a rule sees an ordered prefix, whatever order rows come in? |
| `RunSafety` | 2 workers, 2 samples, 2 attempts, 1 crash, start at 0 or 1, target of 4 cases; no restarts, no lost rows | Does the composed run use the queue properly, forget no sample, end quietly, and keep what a rule has seen? |
| `RunEnds` | 2 workers, 2 samples, 2 attempts, 1 crash, restarts | Does a stopping run end although workers hang, and every run if they work? |
| `ExecSafety` | 2 workers, 3 samples, 2 submissions, 2 in flight, 1 fault (a lost worker or record) | Does the cluster give the rule what a run on one machine gives it, submit cases again properly, skip no sample and account for every record? |
| `ExecEnds` | 2 workers, 2 samples, 2 submissions, 1 lost worker, fair | Do both kinds of run end? |
| `Dkw` | base 1, 5 samples (3 stages), 1 attempt, 1 row and 2 given-up samples | Is each stage evaluated once, in order, on samples nothing overtook, is a decision kept, is there one, and is no number used twice? |
| `Watchdog` | 1 worker, 1 case, 1 restart, 2 GPU restarts, 2 failures, 3 faults, fair | Do the three rounds respect cooldown and giving up, and does a stopped worker come back? |
| `Rounds` | 1 sample of either kind, 2 attempts, 1 resubmission, 2 roots, 3 sessions | Do sessions, kills and lost attempts leave records of one identity, and is "complete" what it says? |
| `Supervisor` | 3 requests, 1 startup process | Does the shutdown stop what threads start and release while it runs? |
| `RunLostRow` | 2 samples, 2 attempts, lost rows | Finding 1 |
| `WatchdogKillsCase` | as `Watchdog` | Finding 2 |

Why the bounds are enough. Two workers give every race of the queue: two cases
in flight, a late report against a second copy, a worker that acts while the
other's case is put back; a third worker would repeat one of these roles. Two
attempts reach both branches of every retry (again, given up) and three attempts
in `Queue` the middle one. Two samples put a retried sample before and behind
another; three are used where order matters. One crash leaves a case in flight
with a live worker beside it; with two of two workers gone nothing would be left
but the clocks, which `RunEnds` covers: `StopEndsRun` requires nobody to move.
A start at 1 rather than 0 tells counters that count loops of this run from
those that count all. `MaxRows = 4` with three samples leaves room for a
duplicate and for a row after the sample was given up.

`TargetTotal = 4` is what two samples with two attempts can reach, so a target
ends a run without hiding its retries.

In the executor's runs, three samples leave, when the rule is content after the
second, one that is cancelled, in a worker's hands or already back; two in flight
make the limit bind. `MaxFaults` bounds lost workers and lost records together.
A status other than success changes nothing in the executor, so `MayFail` is on
only where the property speaks of it.

In `Dkw` the stages have one, four and five samples, so the last one is cut off
by `MaxSamples`, and a call may evaluate one or two stages. A second attempt or
row changes only when a sample is resolved, which `SampleFeed` covers. In
`Watchdog` one worker is enough for its properties: workers meet only in the
snapshot and the order of the rounds, and the proofs cover any number. Three
faults reach giving up (two failures, after the one that brought the GPU
down) with either kind of restart before it. In `Rounds` a session, one killed,
and one in between with other settings or in sequential mode; samples do not
interact, so one of either kind is enough for TLC, and the proofs cover any
number. In `Supervisor` three requests are a start, a release of it and a
shutdown, or two starts against one of these.

The bounds that are not parameters of the program are `MaxCrashes`, `MaxStart`,
`MaxRows`, `MaxSamples` of the queue, `MaxFaults`, `MaxLost`, `Resubmissions` and
`MaxSessions`. Nothing else grows without limit.

Deadlock is not checked where a run may really stop: `ClusterRun` after `done`
with every worker stopped, `SampleFeed` when the dataset is full, `ClusterExecutor`
after it has returned and every worker is done or lost, the queue never;
`DkwStages` after its decision, or when a bound on rows is reached; `WorkerWatchdog`
when no work is left or nothing works; `ExperimentRounds` after `MaxSessions`;
`ProcessSupervisor` after `returned`.

### Fairness

`PollingSpec` is fair to the orchestrator, which polls in a loop that waits for
nobody but the actor, and to its clocks, which advance by themselves. Nothing is
assumed of workers, and under it `StopEndsRun` holds. `WorkersWork`, the premise
of `RunEnds`, says that a live worker goes on working (its calls return, its cases
end, by the backend's own time limits) and that the watchdog restarts a stopped
worker while work remains; with one crash the restart budget
(`max_restart_count`, 2 by default) is not used up, which is why workers do not
leave in that run. Weak fairness is enough: each of these stays enabled until it
happens.

`FairSpec` of `ClusterExecutor` is fair to the executor's polling loop, to the
clocks, and to workers that are alive, which go on as above. With two workers and
one crash one stays alive; a case lost in a crash is brought back by the clock.

`Spec` of `DkwStages` is fair to the orchestrator, which asks until it has a
stop reason, and to each sample being settled: that is what the queue promises
(`RunEnds`). `Decides` excepts the run in which no sample ever has a row.
`Spec` of `WorkerWatchdog` is fair to the check (made at every poll), to the
workers, to the queue that puts overdue cases back, and to the two clocks that
a restart waits for. Nothing is assumed of the GPU.

### Findings

1. *A row lost in the optional sink is lost for good.* The worker warns and
   reports success (`result_sink.py:250-262`), the queue forgets the case, and the
   sample is never resolved, re-issued or reported missing, so the prefix ends
   before it. `docs/statistical_modes_hardening_plan.md:57-58` promises a re-issue
   or a report.
2. *The GPU round may end a running case.* A worker whose container cannot be
   inspected counts as stopped in the GPU round (`worker_watchdog.py:251`,
   `cluster_manager.py:652-660`); if it was isolated before, and still reports
   `running`, its container is removed with the case (`worker_watchdog.py:284-285`).
   The other two rounds look at `inspect_error` first.
   `docs/cluster_operations.md:514-516` says that while a case runs the container
   is only marked. `WatchdogKillsCase` shows the steps.

Smaller observations, each at its hazard in `PROJECT.json`:

* A case put back after the stop signal is cancelled by the next poll although it
  has attempts left (`orchestrator.py:526`, against `ray_queue.py:19-22`).
* A case that is taken and reported between two polls of the executor has no
  clock; if its record is lost too, the run polls for ever
  (`cluster_executor.py:279-290`, against `cluster_executor.py:10-12`). Setting
  `MayLoseRecords = TRUE` in `MCExecEnds.cfg` shows it.
* Of two submissions the first record counts, not the first success
  (`cluster_executor.py:246`, against `docs/cluster_importance_sampling_plan.md:81`).
* Once all samples of the DKW rule are issued, the current stage is decided with
  the samples there are, later ones are skipped; and if no sample ever has a row,
  it waits for ever, since an empty frame leaves every sample pending.
* A record line that was cut off makes the next session of an experiment stop
  with an error until the file is mended by hand.

## Proofs

`ClusterRunProofs`, the queue. The properties of the queue are not inductive by themselves.
`IInv` joins them with two facts they lean on: every sample that appears anywhere
was issued (`KnownSamples`: otherwise a new sample could be a second copy), and
`startCount <= dispatchedCount`. Loop numbers that are handed out form an
interval, so the next number is new, so `inFlight` grows by one; the number of
counted loops grows by what left `inFlight`, which keeps the counter equal to a
cardinality. `RetryOrAbandon` has lemmas of its own, used for a report (one loop)
and for stale cases (any finite set). From the accounting follows
`FinishedMeansNothingInFlight`: the orchestrator's test
`completed_count >= dispatched_count` says exactly that no worker holds a case.

`ClusterRunProofs`, the run. `RunImplementsQueue` proves that every step of the
composition is a step of `TaskQueue!Next` or leaves the queue alone: the only
thing to show is that workers report loops that were handed out (`HeldLoops`),
that start numbers are set first, and that `overdue` is in range. So every
theorem of the queue holds in every run (`RunAccounting`, `RunOneCopy`).
`EndIsQuiet` follows from the accounting with `StopIssuesNothing` (with a stop
reason no refill is under way) and from the fact that the stop signal is set
before the orchestrator leaves; `IssuesNothingAfterStop` from `StopIssuesNothing`.

`ClusterRunProofs`, the dataset. A worker that was counted as lost may still
bring a row, so the rows of a sample are not bounded by what is in flight. What
bounds them is `AttemptsUsed`: its rows and the workers that still run it are no
more than the attempts handed out, so a waiting case of attempt `a` (from 0)
means at most `a` of them, and one in flight at most `a + 1`. With
`RunningHolds` (who runs a case in flight runs that case's sample),
`KnownGivenUp` and `RowsOfAdded` this is `DataInv`. Every step is of one of five
kinds (`StepKinds`), and only three matter to it: `Takes`, `Ends` and `Save`.
`SeenSuccessesStay` follows since `DataGrows` and `SeenStays` (a lemma about
`Prefix`): rows are appended, and a first success stays the first.
`SeenSamplesStay` follows because a row for a sample that is already settled
can only come from a worker whose case was counted.
`NoSampleForgottenCorrect` follows with `SavedIsStored` (whoever reports a case
in flight has stored its row) and `CancelsStopped` (what waits is dropped only
once there is a stop reason). It has two hypotheses, and each is needed:
`~MayLoseRows`, without which `RunLostRow` is the counterexample, and
`MaxAttempts > 1 \/ ~MayMisroute`, since a queue with one attempt counts a
refused case as finished (`ray_queue.py:97`).

`StatisticalSampleProofs`. `InOrderFacts` and `EnumerationIsInOrder` say that
`InOrder` lists a finite set of numbers and is the only list to do so;
`PrefixGrows`, `ChosenStays` and `ResolvedStays` what another row leaves alone.

`SampleFeedProofs`. `Turns` is defined by recursion, and the induction theorems
cannot be instantiated here. That its recurrence has a solution (`TurnsFacts`),
and that the pass has state `After` once it has been through the first `n`
numbers (`TurnsReach`), are each shown by a smallest counterexample instead:
`TurnAdvances` is the step. `PassIsPrefix` is `After` for all the numbers.
`ArrivalOrderIrrelevant` swaps two neighbouring rows of different samples: the
positions of one sample's rows move, but keep their order (`InOrderMaps`), so
`RowsOf` is the same for every sample (`SwapKeepsRows`). `FeedInv` only says
that numbers are issued before rows of them arrive.

`ClusterExecutorProofs`. `EInv` has one part per question.
`OnlySubmitted`: samples are submitted in order, and whatever waits, runs or is
recorded was submitted. `WaitingIsLatest`: a case that waits is the latest
submission of its sample, waits once, and is in nobody's hands.
`StopCancels`: after a stop nothing starts.
`RecordPlaces`: the record a sample holds is the only one of it that is not a
duplicate, and is given or set aside exactly when the sample is stored;
`EveryRecordKept` follows (`RecordsArePartitioned`). `InSampleOrder`: results
are in sample order, and before a stop whatever is stored leaves no gap below it.
`ReturnIsComplete`: a sample is lost only with its submissions used up, and a
run that returns has stored all. `ExecutorKeepsPromise` then shows step by step
that storing a record is `CaseExecutor`'s delivery, that the return and
`CaseLost` are its endings, and that every other step stutters. The orders in
which a poll meets records and overdue cases have lemmas (`CollectEffect`,
`CheckTimeoutsEffect`).

`DkwStagesProofs`. The next number is the length of the frame plus the draws
made. `NumbersBelowNext` says that every number issued is below it; it stays so
because rows and samples given up can only lengthen the frame (`FrameGrows`),
and `NumbersIncrease` follows. `StagesDone` says that the
evaluations are those of the stages below the current one, and that all but one
that ended the run had their full size. `NoneOvertaken` follows from the
definition of the prefix; `LastStageExists` and `SizeGrows` are the arithmetic
of the schedule `base * s^2`.

`WorkerWatchdogProofs`. That a given-up worker stays down and that nobody is
restarted twice within a cooldown depends on how old the check's knowledge is.
`WInv` says what stays true of it between the calls: whoever the snapshot took
for cooled down still is (`CooledNow`: clocks only help, and a restart takes its
worker out of `cooled`), a worker given up is isolated, the one being recovered is
not given up (`GivenUpIsolated`), and a restart under way has an attempt left
(`AttemptThere`). `CreatedByRestart` shows that only three steps make a container,
each for the worker in turn; both theorems follow from it. Workers are numbers,
so that a round has a smallest one.

`ExperimentRoundsProofs`. The latest attempt is chosen by a pair of numbers; that
it exists is shown by a smallest counterexample over the prefixes of the file
(`LatestExists`), that it is unique makes the appended record the latest one
(`AppendOwn`) and leaves other samples alone (`AppendOther`). `RInv` adds to the
properties: a session holds the manifest's identity (`Held`); a job has the number
after the latest attempt of its unresolved sample, so no two jobs share a sample
(`JobsCurrent`); and a sample that is neither resolved nor lost was run in every
round begun, or used up its attempts, or has its job yet to be stored
(`Progress`). `AttemptsUsedUp` follows from the number of rounds.

`ProcessSupervisorProofs`. `SInv` relates each child to the thread that started
it and the registry: a running child is registered, or its thread is between two
steps with it. When the second `stop_all` runs, the threads that are still at work
are those that were given up on.

Assumptions: the constants have their types (`ASSUME`s of the modules) and
`Workers` is any set (of numbers in `WorkerWatchdog`, finite). Nothing else.

Only model-checked: liveness (`StopEndsRun`, `RunEnds` of both modules, `Decides`,
`StoppedWorkerReturns`), since fairness and `ENABLED` are out of the provers'
reach. Every invariant and every other action property or refinement that a
passing run checks is proved as well. The two runs that find a violation
(`RunLostRow`, `WatchdogKillsCase`) have nothing to prove.

## Not modelled

Most of the repository's lines do not decide anything a model of this kind can
speak of, so the share of lines the modules translate stays small:

* numerical statistics (intervals, tests, densities, region splitting, active
  learning): floating point, and functions of one dataset;
* targets, scenario builders, point extractors, FT4D evaluation: pure functions
  of one case, or programs outside the repository;
* `cluster_manager.py`, `host_worker.py`, container launch and clean-up: they
  compose docker and ssh commands; what the watchdog calls of them is modelled;
* command lines, plots, offline tools, dataset and record formats;
* the scripts of the earlier program (`redis_cluster/`, `master_orchestrator.py`,
  `strategist.py`), which the cluster run does not use.

Protocols that are left for later: the parameter buffer of the shared store
(two calls of a worker, expiry and clean-up), the life of a proposed sampling
plan, resuming a run from its dataset. `PROJECT.json` has the whole list.

## Plan

Done: queue, run, sample feed, executors, DKW stages, watchdog, experiments,
supervisor, each with its instances, and the proofs above. Next: the parameter
buffer of `SharedStore` and `ProposalUpdates`, within the runs that touch them.
