---------------------------- MODULE WorkerWatchdog ----------------------------
(***************************************************************************)
(* The watchdog that a cluster's orchestrator runs at its polls            *)
(* (runtime/cluster/worker_watchdog.py), with the worker containers it     *)
(* looks after and the queue statuses it reads.                            *)
(*                                                                         *)
(* A check reads the queue's snapshot and the clock once and then calls    *)
(* the nodes one by one: first every node for its GPU, then for a worker   *)
(* that went silent, then for one that never reported.  Workers, faults    *)
(* and clocks go on between the calls.  A duration is reduced to whether   *)
(* it has passed, an exit code to those the watchdog tells apart.          *)
(***************************************************************************)
EXTENDS Integers, FiniteSets

CONSTANTS
    Workers,            \* the nodes' workers, numbered in their sorted order
    RestartStale,       \* policy.enabled
    RestartMissing,     \* policy.restart_missing_workers
    RestartGpu,         \* policy.restart_gpu_workers
    MaxRestarts,        \* max_restart_count
    GpuMaxRestarts,     \* gpu_max_restarts_per_24h
    GpuMaxFailures,     \* gpu_max_consecutive_failures
    Cases,              \* cases the queue starts with
    MayLoseInspection,  \* docker inspect over ssh may fail
    MaxFaults           \* bound on crashes, GPU and inspection failures

ASSUME WatchdogAssumption ==
    /\ GpuMaxFailures > 0
    /\ Workers \subseteq Nat /\ Workers # {} /\ IsFiniteSet(Workers)
    /\ {RestartStale, RestartMissing, RestartGpu, MayLoseInspection} \subseteq BOOLEAN
    /\ {MaxRestarts, GpuMaxRestarts, GpuMaxFailures, Cases, MaxFaults} \subseteq Nat

VARIABLES
    pc,             \* where the check is
    todo,           \* the workers this round of the check has still to visit
    snap,           \* what the check read at its start
    seen,           \* what it has just seen of a container
    cooling,        \* last_restart_at is less than restart_cooldown_sec ago
    restarts,       \* restart_counts
    attempts,       \* gpu_restart_attempts of the last 24 hours
    failures,       \* gpu_consecutive_failures
    healthy,        \* gpu_healthy_since: not set, set, or a long time ago
    quarantined,    \* gpu_quarantined
    terminal,       \* gpu_terminal_quarantine
    cont,           \* the container of each worker
    proc,           \* how far the worker in it is
    gpu,            \* the GPU can be seen from the container
    hostGpu,        \* the GPU can be seen on the workers' hosts
    status,         \* worker_statuses in the queue
    stale,          \* worker_status_updated_at is stale_timeout_sec ago
    queue, lost,    \* cases that wait, and in-flight cases whose worker is gone
    faults

check == <<pc, todo, snap, seen>>
books == <<cooling, restarts, attempts, failures, healthy, quarantined, terminal>>
nodes == <<cont, proc, gpu, hostGpu, status, stale, queue, lost, faults>>
vars == <<check, books, nodes>>

Containers == {"running", "none", "exit0", "exit1", "exit75"}

\* A container as docker inspect shows it; an inspection that fails counts as
\* a container that exists and does not run.
Exited == {"exit0", "exit1", "exit75"}
States == Containers \cup {"error"}

Statuses == {"none", "waiting", "running", "done", "gpu_unavailable"}

NoSnap == [status |-> [w \in Workers |-> "none"],
           stale |-> [w \in Workers |-> FALSE], cooled |-> {}]

Init ==
    /\ pc = "idle" /\ todo = {} /\ snap = NoSnap /\ seen = "none"
    /\ cooling = [w \in Workers |-> FALSE]
    /\ restarts = [w \in Workers |-> 0]
    /\ attempts = [w \in Workers |-> 0]
    /\ failures = [w \in Workers |-> 0]
    /\ healthy = [w \in Workers |-> "no"]
    /\ quarantined = {} /\ terminal = {}
    /\ cont = [w \in Workers |-> "running"]
    /\ proc = [w \in Workers |-> "between"]
    /\ gpu = [w \in Workers |-> TRUE]
    /\ hostGpu = TRUE
    /\ status = [w \in Workers |-> "none"]
    /\ stale = [w \in Workers |-> FALSE]
    /\ queue = Cases /\ lost = 0
    /\ faults = 0

-----------------------------------------------------------------------------
(* The workers.                                                            *)

\* The worker holds a case of the queue.
Holds(w) == proc[w] \in {"holding", "running"}

Report(w, text) ==
    /\ status' = [status EXCEPT ![w] = text]
    /\ stale' = [stale EXCEPT ![w] = FALSE]

\* The container of w ends up in state c, with the worker and its case gone.
End(w, c) ==
    /\ cont' = [cont EXCEPT ![w] = c]
    /\ proc' = [proc EXCEPT ![w] = "none"]
    /\ lost' = IF Holds(w) THEN lost + 1 ELSE lost

\* Before it asks for a case the worker looks for its GPU.
LookForGpu(w) ==
    /\ proc[w] = "between"
    /\ IF gpu[w]
       THEN /\ proc' = [proc EXCEPT ![w] = "asking"]
            /\ Report(w, "waiting")
            /\ UNCHANGED <<cont, lost>>
       ELSE /\ Report(w, "gpu_unavailable")
            /\ End(w, "exit75")
    /\ UNCHANGED <<check, books, gpu, hostGpu, queue, faults>>

Fetch(w) ==
    /\ proc[w] = "asking"
    /\ IF queue > 0
       THEN queue' = queue - 1 /\ proc' = [proc EXCEPT ![w] = "holding"]
       ELSE queue' = queue /\ proc' = [proc EXCEPT ![w] = "between"]
    /\ UNCHANGED <<check, books, cont, gpu, hostGpu, status, stale, lost, faults>>

Begin(w) ==
    /\ proc[w] = "holding"
    /\ proc' = [proc EXCEPT ![w] = "running"]
    /\ Report(w, "running")
    /\ UNCHANGED <<check, books, cont, gpu, hostGpu, queue, lost, faults>>

Finish(w) ==
    /\ proc[w] = "running"
    /\ proc' = [proc EXCEPT ![w] = "between"]
    /\ Report(w, "done")
    /\ UNCHANGED <<check, books, cont, gpu, hostGpu, queue, lost, faults>>

Work(w) == LookForGpu(w) \/ Fetch(w) \/ Begin(w) \/ Finish(w)

\* A worker gives up at an empty queue.
Leave(w) ==
    /\ proc[w] = "asking" /\ queue = 0
    /\ End(w, "exit0")
    /\ UNCHANGED <<check, books, gpu, hostGpu, status, stale, queue, faults>>

-----------------------------------------------------------------------------
(* Faults and clocks.                                                      *)

Fault == faults < MaxFaults /\ faults' = faults + 1

Crash(w) ==
    /\ Fault
    /\ cont[w] = "running"
    /\ End(w, "exit1")
    /\ UNCHANGED <<check, books, gpu, hostGpu, status, stale, queue>>

GpuVanishes(w) ==
    /\ Fault
    /\ cont[w] = "running" /\ gpu[w]
    /\ gpu' = [gpu EXCEPT ![w] = FALSE]
    /\ UNCHANGED <<check, books, cont, proc, hostGpu, status, stale, queue, lost>>

\* A probe that had failed may succeed again.
GpuReappears(w) ==
    /\ cont[w] = "running" /\ ~gpu[w] /\ hostGpu
    /\ gpu' = [gpu EXCEPT ![w] = TRUE]
    /\ UNCHANGED <<check, books, cont, proc, hostGpu, status, stale, queue, lost, faults>>

HostGpuVanishes ==
    /\ Fault
    /\ hostGpu
    /\ hostGpu' = FALSE
    /\ gpu' = [w \in Workers |-> FALSE]
    /\ UNCHANGED <<check, books, cont, proc, status, stale, queue, lost>>

HostGpuReturns ==
    /\ ~hostGpu
    /\ hostGpu' = TRUE
    /\ UNCHANGED <<check, books, cont, proc, gpu, status, stale, queue, lost, faults>>

\* The queue puts an overdue case back.
Requeue ==
    /\ lost > 0
    /\ lost' = lost - 1 /\ queue' = queue + 1
    /\ UNCHANGED <<check, books, cont, proc, gpu, hostGpu, status, stale, faults>>

StatusAges(w) ==
    /\ status[w] # "none" /\ ~stale[w]
    /\ stale' = [stale EXCEPT ![w] = TRUE]
    /\ UNCHANGED <<check, books, cont, proc, gpu, hostGpu, status, queue, lost, faults>>

CooldownEnds(w) ==
    /\ cooling[w]
    /\ cooling' = [cooling EXCEPT ![w] = FALSE]
    /\ UNCHANGED <<check, nodes, restarts, attempts, failures, healthy,
                   quarantined, terminal>>

AttemptExpires(w) ==
    /\ attempts[w] > 0
    /\ attempts' = [attempts EXCEPT ![w] = @ - 1]
    /\ UNCHANGED <<check, nodes, cooling, restarts, failures, healthy,
                   quarantined, terminal>>

StableTimePasses(w) ==
    /\ healthy[w] = "recent"
    /\ healthy' = [healthy EXCEPT ![w] = "stable"]
    /\ UNCHANGED <<check, nodes, cooling, restarts, attempts, failures,
                   quarantined, terminal>>

-----------------------------------------------------------------------------
(* The check.                                                              *)

WorkRemains == queue > 0 \/ lost > 0 \/ \E w \in Workers : Holds(w)

\* The snapshot shows work, so the check goes through its rounds.
Check ==
    /\ pc = "idle"
    /\ WorkRemains
    /\ pc' = "gpu" /\ todo' = Workers
    /\ snap' = [status |-> status, stale |-> stale,
                cooled |-> {w \in Workers : ~cooling[w]}]
    /\ UNCHANGED <<seen, books, nodes>>

Turn == CHOOSE w \in todo : \A v \in todo : w <= v

Round == [gpu |-> "stale", stale |-> "missing", missing |-> "idle"]

\* The check goes on to the next worker of this round, or to the next round,
\* with this snapshot, and forgets it after the last one.
AdvanceWith(round, s) ==
    /\ IF todo # {Turn}
       THEN pc' = round /\ todo' = todo \ {Turn} /\ snap' = s
       ELSE /\ pc' = Round[round]
            /\ IF round = "missing"
               THEN todo' = {} /\ snap' = NoSnap
               ELSE todo' = Workers /\ snap' = s
    /\ seen' = "none"

Advance(round) == AdvanceWith(round, snap)

\* What inspecting the container of w may show.
Inspect(w, s) ==
    \/ s = cont[w] /\ UNCHANGED faults
    \/ MayLoseInspection /\ s = "error" /\ Fault

\* A container is created in the place of whatever was there, and the time is
\* noted.  Its worker sees the GPU if the host does.
Create(w) ==
    /\ cont' = [cont EXCEPT ![w] = "running"]
    /\ proc' = [proc EXCEPT ![w] = "between"]
    /\ lost' = IF Holds(w) THEN lost + 1 ELSE lost
    /\ gpu' = [gpu EXCEPT ![w] = hostGpu]

NoteTime(w) == cooling' = [cooling EXCEPT ![w] = TRUE]

SnapBefore(w) == snap

SnapAfter(w) == [snap EXCEPT !.cooled = @ \ {w}]

\* The worker's status does not say that it runs a case.
AtBoundary(w) == snap.status[w] # "running"

\* A healthy GPU; after a long healthy time earlier failures are forgotten.
GpuHealthy ==
    /\ pc = "gpu" /\ RestartGpu
    /\ Turn \notin terminal
    /\ cont[Turn] = "running" /\ gpu[Turn]
    /\ healthy' = [healthy EXCEPT ![Turn] = IF @ = "no" THEN "recent" ELSE @]
    /\ failures' = [failures EXCEPT ![Turn] =
                       IF healthy[Turn] = "stable" THEN 0 ELSE @]
    /\ Advance("gpu")
    /\ UNCHANGED <<cooling, restarts, attempts, quarantined, terminal, nodes>>

\* A stopped container that has nothing to do with the GPU.
GpuNoConcern(w, s) ==
    /\ s # "running"
    /\ snap.status[w] # "gpu_unavailable" /\ s # "exit75"
    /\ w \notin quarantined

GpuPass ==
    /\ pc = "gpu"
    /\ \/ ~RestartGpu /\ UNCHANGED faults
       \/ Turn \in terminal /\ UNCHANGED faults
       \/ \E s \in States :
             Turn \notin terminal /\ Inspect(Turn, s) /\ GpuNoConcern(Turn, s)
    /\ Advance("gpu")
    /\ UNCHANGED <<books, cont, proc, gpu, hostGpu, status, stale, queue, lost>>

\* An unhealthy one is isolated.  A worker that runs a case is left alone: it
\* will look for its GPU itself before the next case.
GpuIsolate ==
    /\ pc = "gpu" /\ RestartGpu
    /\ Turn \notin terminal
    /\ \E s \in States :
          /\ Inspect(Turn, s)
          /\ ~(s = "running" /\ gpu[Turn])
          /\ ~GpuNoConcern(Turn, s)
          /\ IF s = "running" /\ ~AtBoundary(Turn)
             THEN Advance("gpu")
             ELSE pc' = "gpuRemove" /\ seen' = s /\ UNCHANGED <<todo, snap>>
    /\ quarantined' = quarantined \cup {Turn}
    /\ UNCHANGED <<cooling, restarts, attempts, failures, healthy, terminal>>
    /\ UNCHANGED <<cont, proc, gpu, hostGpu, status, stale, queue, lost>>

\* A running container is removed at once, a stopped one when the cooldown is
\* over; then, if there are attempts left, it is made anew.
GpuRemove ==
    /\ pc = "gpuRemove"
    /\ LET over == Turn \in snap.cooled
       IN  /\ IF seen = "running" \/ over
              THEN End(Turn, "none") ELSE UNCHANGED <<cont, proc, lost>>
           /\ IF over /\ attempts[Turn] < GpuMaxRestarts
              THEN pc' = "gpuRestart" /\ UNCHANGED <<todo, snap, seen, terminal>>
              ELSE /\ Advance("gpu")
                   /\ terminal' = IF over THEN terminal \cup {Turn} ELSE terminal
    /\ UNCHANGED <<cooling, restarts, attempts, failures, healthy, quarantined>>
    /\ UNCHANGED <<gpu, hostGpu, status, stale, queue, faults>>

FailedUncounted(w, noMore) ==
    /\ healthy' = [healthy EXCEPT ![w] = "no"]
    /\ terminal' = IF noMore THEN terminal \cup {w} ELSE terminal
    /\ UNCHANGED failures

\* A failure, after which the worker may be given up.
Failed(w, noMore) ==
    /\ failures' = [failures EXCEPT ![w] = @ + 1]
    /\ healthy' = [healthy EXCEPT ![w] = "no"]
    /\ terminal' = IF failures[w] + 1 >= GpuMaxFailures \/ noMore
                     THEN terminal \cup {w} ELSE terminal

GpuHostFails ==
    /\ pc = "gpuRestart" /\ ~hostGpu
    /\ NoteTime(Turn)
    /\ Failed(Turn, FALSE)
    /\ AdvanceWith("gpu", SnapAfter(Turn))
    /\ UNCHANGED <<restarts, attempts, quarantined, nodes>>

\* Launching it may fail, which shows when its GPU is waited for.
GpuRestart ==
    /\ pc = "gpuRestart" /\ hostGpu
    /\ NoteTime(Turn)
    /\ attempts' = [attempts EXCEPT ![Turn] = @ + 1]
    /\ \/ Create(Turn) /\ UNCHANGED faults
       \/ Fault /\ UNCHANGED <<cont, proc, lost, gpu>>
    /\ pc' = "gpuVerify" /\ snap' = SnapAfter(Turn)
    /\ UNCHANGED <<todo, seen, restarts, failures, healthy, quarantined, terminal>>
    /\ UNCHANGED <<hostGpu, status, stale, queue>>

\* The worker is let back in only when its new container sees the GPU.
GpuRecovered ==
    /\ pc = "gpuVerify"
    /\ cont[Turn] = "running" /\ gpu[Turn]
    /\ quarantined' = quarantined \ {Turn}
    /\ healthy' = [healthy EXCEPT ![Turn] = "recent"]
    /\ Advance("gpu")
    /\ UNCHANGED <<cooling, restarts, attempts, failures, terminal, nodes>>

GpuNotRecovered ==
    /\ pc = "gpuVerify"
    /\ ~(cont[Turn] = "running" /\ gpu[Turn])
    /\ End(Turn, "none")
    /\ Failed(Turn, attempts[Turn] >= GpuMaxRestarts)
    /\ Advance("gpu")
    /\ UNCHANGED <<cooling, restarts, attempts, quarantined>>
    /\ UNCHANGED <<gpu, hostGpu, status, stale, queue, faults>>

AvailableAlthoughGivenUp(w) ==
    w \in snap.cooled /\ restarts[w] < MaxRestarts

OneRestartTooMany(w) ==
    w \notin quarantined /\ w \in snap.cooled /\ restarts[w] <= MaxRestarts

\* A worker is restarted by either of the ordinary rounds.
Available(w) ==
    /\ w \notin quarantined
    /\ w \in snap.cooled
    /\ restarts[w] < MaxRestarts

Silent(w) == RestartStale /\ snap.status[w] # "none" /\ snap.stale[w]

Missing(w) == RestartMissing /\ snap.status[w] = "none"

Restart(round) ==
    /\ Create(Turn)
    /\ NoteTime(Turn)
    /\ restarts' = [restarts EXCEPT ![Turn] = @ + 1]
    /\ AdvanceWith(round, SnapAfter(Turn))
    /\ UNCHANGED <<attempts, failures, healthy, quarantined, terminal>>
    /\ UNCHANGED <<hostGpu, status, stale, queue, faults>>

Skip(round) ==
    /\ Advance(round)
    /\ UNCHANGED <<books, cont, proc, gpu, hostGpu, status, stale, queue, lost>>

\* A worker whose status is old is restarted if its container does not run.
StaleRestart ==
    /\ pc = "stale"
    /\ Silent(Turn) /\ Available(Turn)
    /\ cont[Turn] # "running"
    /\ Restart("stale")

StaleSkip ==
    /\ pc = "stale"
    /\ \/ ~(Silent(Turn) /\ Available(Turn)) /\ UNCHANGED faults
       \/ \E s \in {"running", "error"} :
             Silent(Turn) /\ Available(Turn) /\ Inspect(Turn, s)
    /\ Skip("stale")

\* A worker that never reported is restarted if its container failed.
MissingRestart ==
    /\ pc = "missing"
    /\ Missing(Turn) /\ Available(Turn)
    /\ cont[Turn] = "exit1"
    /\ Restart("missing")

MissingSkip ==
    /\ pc = "missing"
    /\ \/ ~(Missing(Turn) /\ Available(Turn)) /\ UNCHANGED faults
       \/ \E s \in States \ {"exit1"} :
             Missing(Turn) /\ Available(Turn) /\ Inspect(Turn, s)
    /\ Skip("missing")

Watchdog ==
    \/ Check
    \/ GpuHealthy \/ GpuPass \/ GpuIsolate \/ GpuRemove
    \/ GpuHostFails \/ GpuRestart \/ GpuRecovered \/ GpuNotRecovered
    \/ StaleRestart \/ StaleSkip \/ MissingRestart \/ MissingSkip

Environment(w) ==
    \/ Leave(w) \/ Crash(w) \/ GpuVanishes(w) \/ GpuReappears(w)
    \/ StatusAges(w) \/ CooldownEnds(w) \/ AttemptExpires(w) \/ StableTimePasses(w)

Next ==
    \/ Watchdog
    \/ \E w \in Workers : Work(w) \/ Environment(w)
    \/ HostGpuVanishes \/ HostGpuReturns \/ Requeue

\* The orchestrator polls, workers work, clocks run and the queue requeues
\* overdue cases.  A GPU need never come back.
Spec ==
    /\ Init /\ [][Next]_vars
    /\ WF_vars(Watchdog)
    /\ WF_vars(Requeue)
    /\ \A w \in Workers :
          WF_vars(Work(w)) /\ WF_vars(StatusAges(w)) /\ WF_vars(CooldownEnds(w))
-----------------------------------------------------------------------------
WatchdogTypeOK ==
    /\ pc \in {"idle", "gpu", "gpuRemove", "gpuRestart", "gpuVerify", "stale",
               "missing"}
    /\ todo \in SUBSET Workers
    /\ pc # "idle" => todo # {}
    /\ snap \in [status : [Workers -> Statuses], stale : [Workers -> BOOLEAN],
                 cooled : SUBSET Workers]
    /\ seen \in States
    /\ cooling \in [Workers -> BOOLEAN]
    /\ restarts \in [Workers -> 0 .. MaxRestarts]
    /\ attempts \in [Workers -> 0 .. GpuMaxRestarts]
    /\ failures \in [Workers -> Nat]
    /\ healthy \in [Workers -> {"no", "recent", "stable"}]
    /\ quarantined \in SUBSET Workers
    /\ terminal \in SUBSET Workers
    /\ cont \in [Workers -> Containers]
    /\ proc \in [Workers -> {"none", "between", "asking", "holding", "running"}]
    /\ gpu \in [Workers -> BOOLEAN]
    /\ hostGpu \in BOOLEAN
    /\ status \in [Workers -> Statuses]
    /\ stale \in [Workers -> BOOLEAN]
    /\ {queue, lost, faults} \subseteq Nat

\* The container of w is created.
Created(w) == cont[w] # "running" /\ cont'[w] = "running"

\* A worker given up for good is never brought back, whichever round of the
\* check might find it silent or missing (docs/cluster_operations.md: "the node
\* is isolated permanently").
TerminalIsFinal ==
    [][\A w \in terminal : w \in terminal' /\ ~Created(w)]_vars

\* No worker is restarted twice within a cooldown, although three rounds of one
\* check restart workers by rules of their own, with a clock and statuses read
\* before the first of them.
CooldownKept ==
    [][ \A w \in Workers : Created(w) => ~cooling[w] /\ cooling'[w] ]_vars

\* A worker that stopped comes back while there is work, or has used up what
\* it may be restarted.  (One that never reported counts as missing only if
\* its container failed.)
StoppedWorkerReturns ==
    \A w \in Workers :
        \/ []<>(cont[w] = "running" \/ ~WorkRemains)
        \/ <>[](w \in terminal)
        \/ <>[](restarts[w] = MaxRestarts)

\* The watchdog does not end the case of a worker that, when the check began,
\* reported to run it (docs/cluster_operations.md: "while running the container
\* is only marked for isolation").
ReportedCasesSpared ==
    [][ \A w \in Workers :
          pc = "gpuRemove" /\ snap.status[w] = "running" /\ proc[w] = "running"
             => proc'[w] = "running" ]_vars
=============================================================================
