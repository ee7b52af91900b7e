------------------------- MODULE WorkerWatchdogProofs -------------------------
(***************************************************************************)
(* Proofs about WorkerWatchdog, for any number of workers, faults and any  *)
(* limits: a worker that was given up stays so, and no worker is started   *)
(* again within its cooldown.                                              *)
(***************************************************************************)
EXTENDS WorkerWatchdog, TLAPS, WellFoundedInduction

\* The check is busy with the GPU of one worker.
Recovering == pc \in {"gpuRemove", "gpuRestart", "gpuVerify"}

\* A worker that is given up is isolated, and is not being recovered.
GivenUpIsolated ==
    /\ terminal \subseteq quarantined
    /\ Recovering => Turn \in quarantined /\ Turn \notin terminal

\* What the check took for cooled down still is.
CooledNow == \A w \in snap.cooled : ~cooling[w]

\* The check is about to use up an attempt that there is.
AttemptThere ==
    pc = "gpuRestart" => Turn \in snap.cooled /\ attempts[Turn] < GpuMaxRestarts

\* The inductive invariant.
WInv ==
    /\ WatchdogTypeOK
    /\ GivenUpIsolated
    /\ CooledNow
    /\ AttemptThere

Snaps == [status : [Workers -> Statuses], stale : [Workers -> BOOLEAN],
          cooled : SUBSET Workers]

Steps == {"idle", "gpu", "gpuRemove", "gpuRestart", "gpuVerify", "stale", "missing"}

\* The types of the check's variables, of the watchdog's, and of the nodes'.
CheckTypes ==
    /\ pc \in Steps
    /\ todo \in SUBSET Workers
    /\ pc # "idle" => todo # {}
    /\ snap \in Snaps
    /\ seen \in States

BookTypes ==
    /\ cooling \in [Workers -> BOOLEAN]
    /\ restarts \in [Workers -> 0 .. MaxRestarts]
    /\ attempts \in [Workers -> 0 .. GpuMaxRestarts]
    /\ failures \in [Workers -> Nat]
    /\ healthy \in [Workers -> {"no", "recent", "stable"}]
    /\ quarantined \in SUBSET Workers
    /\ terminal \in SUBSET Workers

NodeTypes ==
    /\ cont \in [Workers -> Containers]
    /\ proc \in [Workers -> {"none", "between", "asking", "holding", "running"}]
    /\ gpu \in [Workers -> BOOLEAN]
    /\ hostGpu \in BOOLEAN
    /\ status \in [Workers -> Statuses]
    /\ stale \in [Workers -> BOOLEAN]
    /\ queue \in Nat /\ lost \in Nat /\ faults \in Nat

\* The type invariant in three parts.
LEMMA Types == WatchdogTypeOK <=> CheckTypes /\ BookTypes /\ NodeTypes
<1>1. {queue, lost, faults} \subseteq Nat <=> queue \in Nat /\ lost \in Nat /\ faults \in Nat
  OBVIOUS
<1> QED
  BY <1>1 DEF WatchdogTypeOK, CheckTypes, BookTypes, NodeTypes, Snaps, Steps

\* The smallest worker of a round is one of it.
LEMMA SmallestIn ==
    ASSUME NEW T, T \subseteq Workers, T # {}
    PROVE  \E w \in T : \A v \in T : w <= v
<1>1. T \subseteq Nat
  BY WatchdogAssumption
<1>2. PICK w \in T : \A v \in T : <<v, w>> \notin OpToRel(<, Nat)
  BY <1>1, NatLessThanWellFounded, WFMin, Zenon
<1>3. ASSUME NEW v \in T PROVE w <= v
  <2>1. v \in Nat /\ w \in Nat /\ ~(v < w)
    BY <1>1, <1>2 DEF OpToRel
  <2> QED
    BY <2>1
<1> QED
  BY <1>3

\* The worker in turn is one of those the round has yet to look at.
LEMMA TurnIn ==
    ASSUME CheckTypes, pc # "idle"
    PROVE  Turn \in todo /\ Turn \in Workers
<1>1. \E w \in todo : \A v \in todo : w <= v
  BY SmallestIn DEF CheckTypes
<1>2. Turn \in todo
  BY <1>1 DEF Turn
<1> QED
  BY <1>2 DEF CheckTypes

\* Going on leaves the check in order.
LEMMA AdvanceTypes ==
    ASSUME CheckTypes, pc # "idle", NEW round \in {"gpu", "stale", "missing"},
           NEW s \in Snaps, AdvanceWith(round, s)
    PROVE  /\ CheckTypes'
           /\ pc' \in {"idle", "gpu", "stale", "missing"}
           /\ snap'.cooled \subseteq s.cooled
<1>1. Turn \in todo /\ Turn \in Workers /\ todo \subseteq Workers
  BY TurnIn DEF CheckTypes
<1>2. Workers # {}
  BY <1>1
<1>3. NoSnap \in Snaps /\ NoSnap.cooled = {} /\ "none" \in States
  BY DEF NoSnap, Snaps, Statuses, States, Containers
<1>4. CASE todo # {Turn}
  BY <1>1, <1>3, <1>4 DEF AdvanceWith, CheckTypes, Steps
<1>5. CASE todo = {Turn}
  BY <1>1, <1>2, <1>3, <1>5 DEF AdvanceWith, Round, CheckTypes, Steps
<1> QED
  BY <1>4, <1>5

-----------------------------------------------------------------------------
(* Steps of the workers, the faults and the clocks.                        *)

\* The end of a worker keeps the nodes' types.
LEMMA EndTypes ==
    ASSUME NodeTypes, NEW w \in Workers, NEW c \in Containers, End(w, c)
    PROVE  /\ cont' \in [Workers -> Containers]
           /\ proc' \in [Workers -> {"none", "between", "asking", "holding", "running"}]
           /\ lost' \in Nat
<1>1. lost' \in Nat
  BY DEF End, NodeTypes
<1> QED
  BY <1>1 DEF End, NodeTypes

\* A step that leaves the watchdog alone.
LEMMA NodeStep ==
    ASSUME WInv, UNCHANGED <<check, books>>, NodeTypes'
    PROVE  WInv'
<1>1. WatchdogTypeOK'
  <2>1. CheckTypes /\ BookTypes
    BY Types DEF WInv
  <2>2. CheckTypes' /\ BookTypes'
    BY <2>1 DEF CheckTypes, BookTypes, check, books
  <2> QED
    BY <2>2, Types DEF WatchdogTypeOK, CheckTypes, BookTypes, NodeTypes, Snaps, Steps
<1>2. GivenUpIsolated' /\ CooledNow' /\ AttemptThere'
  BY DEF WInv, GivenUpIsolated, CooledNow, AttemptThere, Recovering, Turn, check, books
<1> QED
  BY <1>1, <1>2 DEF WInv

\* The worker's own steps keep the invariant,
LEMMA WorkWInv ==
    ASSUME WInv, NEW w \in Workers, Work(w)
    PROVE  WInv'
<1>1. NodeTypes
  BY Types DEF WInv
<1>2. UNCHANGED <<check, books>>
  BY DEF Work, LookForGpu, Fetch, Begin, Finish
<1>3. "exit75" \in Containers
  BY DEF Containers
<1>4. ASSUME LookForGpu(w)
      PROVE  NodeTypes'
  <2>1. CASE gpu[w]
    BY <1>1, <1>4, <2>1 DEF LookForGpu, Report, NodeTypes, Statuses
  <2>2. CASE ~gpu[w]
    <3>1. /\ End(w, "exit75") /\ Report(w, "gpu_unavailable")
          /\ UNCHANGED <<gpu, hostGpu, queue, faults>>
      BY <1>4, <2>2 DEF LookForGpu
    <3> QED
      BY <1>1, <1>3, <3>1, EndTypes DEF Report, NodeTypes, Statuses
  <2> QED
    BY <2>1, <2>2
<1>5. ASSUME Fetch(w)
      PROVE  NodeTypes'
  BY <1>1, <1>5 DEF Fetch, NodeTypes
<1>6. ASSUME Begin(w) \/ Finish(w)
      PROVE  NodeTypes'
  BY <1>1, <1>6 DEF Begin, Finish, Report, NodeTypes, Statuses
<1>7. NodeTypes'
  BY <1>4, <1>5, <1>6 DEF Work
<1> QED
  BY <1>2, <1>7, NodeStep

\* faults do,
LEMMA FaultWInv ==
    ASSUME WInv,
           \/ \E w \in Workers : Leave(w) \/ Crash(w) \/ GpuVanishes(w)
                                    \/ GpuReappears(w) \/ StatusAges(w)
           \/ HostGpuVanishes \/ HostGpuReturns \/ Requeue
    PROVE  WInv'
<1>1. NodeTypes
  BY Types DEF WInv
<1>2. UNCHANGED <<check, books>>
  BY DEF Leave, Crash, GpuVanishes, GpuReappears, StatusAges, HostGpuVanishes,
     HostGpuReturns, Requeue
<1>3. ASSUME NEW w \in Workers, Leave(w) \/ Crash(w)
      PROVE  NodeTypes'
  <2>1. "exit0" \in Containers /\ "exit1" \in Containers
    BY DEF Containers
  <2>2. /\ End(w, "exit0") \/ End(w, "exit1")
        /\ UNCHANGED <<gpu, hostGpu, status, stale, queue>>
        /\ faults' \in {faults, faults + 1}
    BY <1>3 DEF Leave, Crash, Fault
  <2>3. /\ cont' \in [Workers -> Containers]
        /\ proc' \in [Workers -> {"none", "between", "asking", "holding", "running"}]
        /\ lost' \in Nat
    BY <1>1, <2>1, <2>2, EndTypes
  <2> QED
    BY <1>1, <2>2, <2>3 DEF NodeTypes
<1>4. ASSUME NEW w \in Workers, GpuVanishes(w) \/ GpuReappears(w) \/ StatusAges(w)
      PROVE  NodeTypes'
  <2>1. /\ UNCHANGED <<cont, proc, hostGpu, status, queue, lost>>
        /\ faults' \in {faults, faults + 1}
        /\ gpu' \in [Workers -> BOOLEAN] /\ stale' \in [Workers -> BOOLEAN]
    BY <1>1, <1>4 DEF GpuVanishes, GpuReappears, StatusAges, Fault, NodeTypes
  <2> QED
    BY <1>1, <2>1 DEF NodeTypes
<1>5. ASSUME HostGpuVanishes \/ HostGpuReturns
      PROVE  NodeTypes'
  <2>1. /\ UNCHANGED <<cont, proc, status, stale, queue, lost>>
        /\ faults' \in {faults, faults + 1}
        /\ gpu' \in [Workers -> BOOLEAN] /\ hostGpu' \in BOOLEAN
    BY <1>1, <1>5 DEF HostGpuVanishes, HostGpuReturns, Fault, NodeTypes
  <2> QED
    BY <1>1, <2>1 DEF NodeTypes
<1>6. ASSUME Requeue
      PROVE  NodeTypes'
  BY <1>1, <1>6 DEF Requeue, NodeTypes
<1>7. NodeTypes'
  BY <1>3, <1>4, <1>5, <1>6
<1> QED
  BY <1>2, <1>7, NodeStep

\* and so do the clocks, which only make more restarts allowed.
LEMMA ClockWInv ==
    ASSUME WInv, NEW w \in Workers,
           CooldownEnds(w) \/ AttemptExpires(w) \/ StableTimePasses(w)
    PROVE  WInv'
<1>1. CheckTypes /\ BookTypes /\ NodeTypes
  BY Types DEF WInv
<1>2. UNCHANGED <<check, nodes, restarts, failures, quarantined, terminal>>
  BY DEF CooldownEnds, AttemptExpires, StableTimePasses
<1>3. CheckTypes' /\ NodeTypes'
  BY <1>1, <1>2 DEF CheckTypes, NodeTypes, check, nodes
<1>4. /\ attempts' \in [Workers -> 0 .. GpuMaxRestarts]
      /\ \A v \in Workers : attempts'[v] <= attempts[v]
  <2>1. CASE AttemptExpires(w)
    BY <1>1, <2>1, WatchdogAssumption DEF AttemptExpires, BookTypes
  <2>2. CASE CooldownEnds(w) \/ StableTimePasses(w)
    BY <1>1, <2>2, WatchdogAssumption DEF CooldownEnds, StableTimePasses, BookTypes
  <2> QED
    BY <2>1, <2>2
<1>5. BookTypes' /\ \A v \in Workers : cooling'[v] => cooling[v]
  BY <1>1, <1>2, <1>4 DEF CooldownEnds, AttemptExpires, StableTimePasses, BookTypes
<1>6. WatchdogTypeOK'
  BY <1>3, <1>5 DEF WatchdogTypeOK, CheckTypes, BookTypes, NodeTypes, Snaps, Steps
<1>7. GivenUpIsolated' /\ CooledNow'
  BY <1>1, <1>2, <1>5 DEF WInv, GivenUpIsolated, CooledNow, Recovering, Turn, check,
     CheckTypes, Snaps
<1>8. AttemptThere'
  <2>1. SUFFICES ASSUME pc = "gpuRestart" PROVE AttemptThere'
    BY <1>2 DEF AttemptThere, check
  <2>2. Turn \in Workers /\ Turn' = Turn
    BY <1>1, <1>2, <2>1, TurnIn DEF Turn, check
  <2>3. attempts[Turn] \in Int /\ attempts'[Turn] \in Int /\ GpuMaxRestarts \in Int
    BY <1>1, <1>4, <2>2, WatchdogAssumption DEF BookTypes
  <2> QED
    BY <1>2, <1>4, <2>1, <2>2, <2>3 DEF WInv, AttemptThere, check
<1> QED
  BY <1>6, <1>7, <1>8 DEF WInv

-----------------------------------------------------------------------------
(* Steps of the check.                                                     *)

\* A step after which the check goes on to the next worker.
LEMMA AdvanceWInv ==
    ASSUME WInv, pc # "idle", NEW round \in {"gpu", "stale", "missing"},
           NEW s \in Snaps, AdvanceWith(round, s),
           BookTypes', NodeTypes', terminal' \subseteq quarantined',
           \A w \in s.cooled : ~cooling'[w]
    PROVE  WInv'
<1>1. CheckTypes
  BY Types DEF WInv
<1>2. /\ CheckTypes'
      /\ pc' \in {"idle", "gpu", "stale", "missing"}
      /\ snap'.cooled \subseteq s.cooled
  BY <1>1, AdvanceTypes
<1>3. WatchdogTypeOK'
  BY <1>2 DEF WatchdogTypeOK, CheckTypes, BookTypes, NodeTypes, Snaps, Steps
<1>4. GivenUpIsolated' /\ CooledNow' /\ AttemptThere'
  BY <1>2 DEF GivenUpIsolated, CooledNow, AttemptThere, Recovering
<1> QED
  BY <1>3, <1>4 DEF WInv

\* What the steps of the check may use.
LEMMA CheckFacts ==
    ASSUME WInv
    PROVE  /\ CheckTypes /\ BookTypes /\ NodeTypes
           /\ pc # "idle" => Turn \in todo /\ Turn \in Workers
           /\ terminal \subseteq quarantined
           /\ snap \in Snaps
           /\ \A w \in snap.cooled : ~cooling[w]
           /\ GpuMaxRestarts \in Nat /\ MaxRestarts \in Nat /\ GpuMaxFailures \in Nat
<1>1. CheckTypes /\ BookTypes /\ NodeTypes
  BY Types DEF WInv
<1> QED
  BY <1>1, TurnIn, WatchdogAssumption DEF WInv, GivenUpIsolated, CooledNow, CheckTypes

\* A check begins with knowledge that is still new.
LEMMA CheckWInv == ASSUME WInv, Check PROVE WInv'
<1>1. /\ CheckTypes /\ BookTypes /\ NodeTypes
      /\ terminal \subseteq quarantined
  BY CheckFacts
<1>2. snap' \in Snaps /\ \A w \in snap'.cooled : ~cooling[w]
  BY <1>1 DEF Check, Snaps, NodeTypes
<1>3. CheckTypes' /\ pc' = "gpu"
  BY <1>1, <1>2, WatchdogAssumption DEF Check, CheckTypes, Steps
<1>4. BookTypes' /\ NodeTypes' /\ UNCHANGED <<cooling, terminal, quarantined>>
  BY <1>1 DEF Check, BookTypes, NodeTypes, books, nodes
<1>5. WatchdogTypeOK'
  BY <1>3, <1>4 DEF WatchdogTypeOK, CheckTypes, BookTypes, NodeTypes, Snaps, Steps
<1>6. GivenUpIsolated' /\ CooledNow' /\ AttemptThere'
  BY <1>1, <1>2, <1>3, <1>4 DEF GivenUpIsolated, CooledNow, AttemptThere, Recovering
<1> QED
  BY <1>5, <1>6 DEF WInv

\* A GPU that is seen only lets earlier failures be forgotten.
LEMMA GpuHealthyWInv == ASSUME WInv, GpuHealthy PROVE WInv'
<1>1. /\ CheckTypes /\ BookTypes /\ NodeTypes /\ snap \in Snaps
      /\ terminal \subseteq quarantined
      /\ \A w \in snap.cooled : ~cooling[w]
  BY CheckFacts
<1>2. BookTypes' /\ UNCHANGED <<cooling, terminal, quarantined>>
  BY <1>1 DEF GpuHealthy, BookTypes
<1>3. NodeTypes'
  BY <1>1 DEF GpuHealthy, NodeTypes, nodes
<1>4. pc = "gpu" /\ AdvanceWith("gpu", snap)
  BY DEF GpuHealthy, Advance
<1> QED
  BY <1>1, <1>2, <1>3, <1>4, AdvanceWInv

\* A step that only passes a worker, having inspected its container or not.
LEMMA PassWInv ==
    ASSUME WInv, pc # "idle", NEW round \in {"gpu", "stale", "missing"},
           Advance(round), faults' \in {faults, faults + 1},
           UNCHANGED <<books, cont, proc, gpu, hostGpu, status, stale, queue, lost>>
    PROVE  WInv'
<1>1. /\ CheckTypes /\ BookTypes /\ NodeTypes /\ snap \in Snaps
      /\ terminal \subseteq quarantined
      /\ \A w \in snap.cooled : ~cooling[w]
  BY CheckFacts
<1>2. BookTypes' /\ NodeTypes' /\ UNCHANGED <<cooling, terminal, quarantined>>
  BY <1>1 DEF BookTypes, NodeTypes, books
<1> QED
  BY <1>1, <1>2, AdvanceWInv DEF Advance

\* The steps that pass a worker over leave the books alone: in the GPU round,
LEMMA GpuPassWInv == ASSUME WInv, GpuPass PROVE WInv'
<1>1. faults' \in {faults, faults + 1}
  BY DEF GpuPass, Inspect, Fault
<1> QED
  BY <1>1, PassWInv DEF GpuPass

\* in the round of silent workers,
LEMMA StaleSkipWInv == ASSUME WInv, StaleSkip PROVE WInv'
<1>1. faults' \in {faults, faults + 1}
  BY DEF StaleSkip, Inspect, Fault
<1> QED
  BY <1>1, PassWInv DEF StaleSkip, Skip

\* and in the round of missing ones.
LEMMA MissingSkipWInv == ASSUME WInv, MissingSkip PROVE WInv'
<1>1. faults' \in {faults, faults + 1}
  BY DEF MissingSkip, Inspect, Fault
<1> QED
  BY <1>1, PassWInv DEF MissingSkip, Skip

\* Noting the time of a worker and taking it out of those cooled down.
LEMMA Noted ==
    ASSUME CheckTypes, BookTypes, NEW w \in Workers, NoteTime(w),
           \A v \in snap.cooled : ~cooling[v]
    PROVE  /\ SnapAfter(w) \in Snaps
           /\ SnapAfter(w).cooled \subseteq Workers
           /\ cooling' \in [Workers -> BOOLEAN]
           /\ \A v \in SnapAfter(w).cooled : ~cooling'[v]
<1>1. /\ SnapAfter(w) \in Snaps
      /\ SnapAfter(w).cooled = snap.cooled \ {w}
      /\ snap.cooled \subseteq Workers
  BY DEF SnapAfter, Snaps, CheckTypes
<1>2. cooling' = [cooling EXCEPT ![w] = TRUE] /\ cooling \in [Workers -> BOOLEAN]
  BY DEF NoteTime, BookTypes
<1> QED
  BY <1>1, <1>2

\* A failure keeps the books' types.
LEMMA FailedTypes ==
    ASSUME BookTypes, NEW w \in Workers, NEW noMore, Failed(w, noMore)
    PROVE  /\ failures' \in [Workers -> Nat]
           /\ healthy' \in [Workers -> {"no", "recent", "stable"}]
           /\ terminal' \in SUBSET Workers
           /\ terminal' \subseteq terminal \cup {w}
<1>1. failures' \in [Workers -> Nat] /\ healthy' \in [Workers -> {"no", "recent", "stable"}]
  BY DEF Failed, BookTypes
<1>2. terminal' \subseteq terminal \cup {w} /\ terminal \subseteq Workers
  BY DEF Failed, BookTypes
<1> QED
  BY <1>1, <1>2

\* A step that goes on with the recovery of the worker in turn.
LEMMA RecoveringWInv ==
    ASSUME WInv, pc # "idle", UNCHANGED todo, NodeTypes', BookTypes',
           pc' \in {"gpuRemove", "gpuRestart", "gpuVerify"}, snap' \in Snaps,
           seen' \in States, terminal' \subseteq quarantined',
           Turn \in quarantined', Turn \notin terminal',
           \A w \in snap'.cooled : ~cooling'[w],
           pc' = "gpuRestart" => Turn \in snap'.cooled /\ attempts'[Turn] < GpuMaxRestarts
    PROVE  WInv'
<1>1. CheckTypes'
  BY CheckFacts DEF CheckTypes, Steps
<1>2. WatchdogTypeOK'
  BY <1>1 DEF WatchdogTypeOK, CheckTypes, BookTypes, NodeTypes, Snaps, Steps
<1>3. GivenUpIsolated' /\ CooledNow' /\ AttemptThere'
  BY DEF GivenUpIsolated, CooledNow, AttemptThere, Recovering, Turn
<1> QED
  BY <1>2, <1>3 DEF WInv

\* Isolating a worker restarts nobody.
LEMMA GpuIsolateWInv == ASSUME WInv, GpuIsolate PROVE WInv'
<1>1. /\ CheckTypes /\ BookTypes /\ NodeTypes /\ snap \in Snaps
      /\ Turn \in Workers /\ pc # "idle"
      /\ terminal \subseteq quarantined
      /\ \A w \in snap.cooled : ~cooling[w]
  BY CheckFacts DEF GpuIsolate
<1>2. PICK s \in States :
         /\ Inspect(Turn, s)
         /\ IF s = "running" /\ ~AtBoundary(Turn)
            THEN Advance("gpu")
            ELSE pc' = "gpuRemove" /\ seen' = s /\ UNCHANGED <<todo, snap>>
  BY DEF GpuIsolate
<1>3. /\ quarantined' = quarantined \cup {Turn} /\ Turn \notin terminal
      /\ UNCHANGED <<cooling, restarts, attempts, failures, healthy, terminal>>
      /\ UNCHANGED <<cont, proc, gpu, hostGpu, status, stale, queue, lost>>
  BY DEF GpuIsolate
<1>4. faults' \in Nat
  BY <1>1, <1>2 DEF Inspect, Fault, NodeTypes
<1>5. BookTypes'
  BY <1>1, <1>3 DEF BookTypes
<1>6. NodeTypes'
  BY <1>1, <1>3, <1>4 DEF NodeTypes
<1>7. CASE Advance("gpu")
  BY <1>1, <1>3, <1>5, <1>6, <1>7, AdvanceWInv DEF Advance
<1>8. CASE pc' = "gpuRemove" /\ seen' = s /\ UNCHANGED <<todo, snap>>
  BY <1>1, <1>3, <1>5, <1>6, <1>8, RecoveringWInv
<1> QED
  BY <1>2, <1>7, <1>8

\* A container is removed for a restart that has an attempt left.
LEMMA GpuRemoveWInv == ASSUME WInv, GpuRemove PROVE WInv'
<1>1. /\ CheckTypes /\ BookTypes /\ NodeTypes /\ snap \in Snaps
      /\ Turn \in Workers /\ pc # "idle"
      /\ terminal \subseteq quarantined
      /\ \A w \in snap.cooled : ~cooling[w]
  BY CheckFacts DEF GpuRemove
<1>2. Turn \in quarantined /\ Turn \notin terminal
  BY DEF WInv, GivenUpIsolated, Recovering, GpuRemove
<1>3. /\ UNCHANGED <<cooling, restarts, attempts, failures, healthy, quarantined>>
      /\ UNCHANGED <<gpu, hostGpu, status, stale, queue, faults>>
      /\ End(Turn, "none") \/ UNCHANGED <<cont, proc, lost>>
      /\ \/ /\ Turn \in snap.cooled /\ attempts[Turn] < GpuMaxRestarts
            /\ pc' = "gpuRestart" /\ UNCHANGED <<todo, snap, seen, terminal>>
         \/ Advance("gpu") /\ terminal' \in {terminal, terminal \cup {Turn}}
  BY DEF GpuRemove
<1>4. NodeTypes'
  <2>1. "none" \in Containers
    BY DEF Containers
  <2>2. /\ cont' \in [Workers -> Containers]
        /\ proc' \in [Workers -> {"none", "between", "asking", "holding", "running"}]
        /\ lost' \in Nat
    <3>1. CASE End(Turn, "none")
      BY <1>1, <2>1, <3>1, EndTypes
    <3>2. CASE UNCHANGED <<cont, proc, lost>>
      BY <1>1, <3>2 DEF NodeTypes
    <3> QED
      BY <1>3, <3>1, <3>2
  <2> QED
    BY <1>1, <1>3, <2>2 DEF NodeTypes
<1>5. terminal' \in {terminal, terminal \cup {Turn}} /\ terminal' \subseteq quarantined'
  BY <1>1, <1>2, <1>3
<1>6. BookTypes'
  BY <1>1, <1>3, <1>5 DEF BookTypes
<1>7. CASE Advance("gpu")
  BY <1>1, <1>3, <1>4, <1>5, <1>6, <1>7, AdvanceWInv DEF Advance
<1>8. CASE /\ Turn \in snap.cooled /\ attempts[Turn] < GpuMaxRestarts
           /\ pc' = "gpuRestart" /\ UNCHANGED <<todo, snap, seen, terminal>>
  <2>1. seen' \in States
    BY <1>1, <1>8 DEF CheckTypes
  <2> QED
    BY <1>1, <1>2, <1>3, <1>4, <1>5, <1>6, <1>8, <2>1, RecoveringWInv
<1> QED
  BY <1>3, <1>7, <1>8

\* A failing host counts against the worker, and may give it up.
LEMMA GpuHostFailsWInv == ASSUME WInv, GpuHostFails PROVE WInv'
<1>1. /\ CheckTypes /\ BookTypes /\ NodeTypes /\ snap \in Snaps
      /\ Turn \in Workers /\ pc # "idle"
      /\ terminal \subseteq quarantined
      /\ \A w \in snap.cooled : ~cooling[w]
  BY CheckFacts DEF GpuHostFails
<1>2. Turn \in quarantined
  BY DEF WInv, GivenUpIsolated, Recovering, GpuHostFails
<1>3. /\ NoteTime(Turn) /\ Failed(Turn, FALSE)
      /\ AdvanceWith("gpu", SnapAfter(Turn))
      /\ UNCHANGED <<restarts, attempts, quarantined, nodes>>
  BY DEF GpuHostFails
<1>4. /\ SnapAfter(Turn) \in Snaps
      /\ cooling' \in [Workers -> BOOLEAN]
      /\ \A v \in SnapAfter(Turn).cooled : ~cooling'[v]
  BY <1>1, <1>3, Noted
<1>5. /\ failures' \in [Workers -> Nat]
      /\ healthy' \in [Workers -> {"no", "recent", "stable"}]
      /\ terminal' \in SUBSET Workers
      /\ terminal' \subseteq terminal \cup {Turn}
  BY <1>1, <1>3, FailedTypes
<1>6. BookTypes'
  BY <1>1, <1>3, <1>4, <1>5 DEF BookTypes
<1>7. NodeTypes'
  BY <1>1, <1>3 DEF NodeTypes, nodes
<1>8. terminal' \subseteq quarantined'
  BY <1>1, <1>2, <1>3, <1>5
<1> QED
  BY <1>1, <1>3, <1>4, <1>6, <1>7, <1>8, AdvanceWInv

\* Making a container keeps the nodes' types.
LEMMA CreateTypes ==
    ASSUME NodeTypes, NEW w \in Workers, Create(w)
    PROVE  /\ cont' \in [Workers -> Containers]
           /\ proc' \in [Workers -> {"none", "between", "asking", "holding", "running"}]
           /\ lost' \in Nat
           /\ gpu' \in [Workers -> BOOLEAN]
<1>1. lost' \in Nat
  BY DEF Create, NodeTypes
<1>2. cont' \in [Workers -> Containers]
  BY DEF Create, NodeTypes, Containers
<1> QED
  BY <1>1, <1>2 DEF Create, NodeTypes

\* A restart of the GPU round uses an attempt and starts the cooldown.
LEMMA GpuRestartWInv == ASSUME WInv, GpuRestart PROVE WInv'
<1>1. /\ CheckTypes /\ BookTypes /\ NodeTypes /\ snap \in Snaps
      /\ Turn \in Workers /\ pc # "idle" /\ GpuMaxRestarts \in Nat
      /\ terminal \subseteq quarantined
      /\ \A w \in snap.cooled : ~cooling[w]
  BY CheckFacts DEF GpuRestart
<1>2. Turn \in quarantined /\ Turn \notin terminal /\ attempts[Turn] < GpuMaxRestarts
  BY DEF WInv, GivenUpIsolated, AttemptThere, Recovering, GpuRestart
<1>3. /\ NoteTime(Turn)
      /\ attempts' = [attempts EXCEPT ![Turn] = @ + 1]
      /\ pc' = "gpuVerify" /\ snap' = SnapAfter(Turn)
      /\ UNCHANGED <<todo, seen, restarts, failures, healthy, quarantined, terminal>>
      /\ UNCHANGED <<hostGpu, status, stale, queue>>
      /\ \/ Create(Turn) /\ UNCHANGED faults
         \/ Fault /\ UNCHANGED <<cont, proc, lost, gpu>>
  BY DEF GpuRestart
<1>4. /\ SnapAfter(Turn) \in Snaps
      /\ cooling' \in [Workers -> BOOLEAN]
      /\ \A v \in SnapAfter(Turn).cooled : ~cooling'[v]
  BY <1>1, <1>3, Noted
<1>5. attempts' \in [Workers -> 0 .. GpuMaxRestarts]
  <2>1. attempts \in [Workers -> 0 .. GpuMaxRestarts]
    BY <1>1 DEF BookTypes
  <2>2. attempts[Turn] + 1 \in 0 .. GpuMaxRestarts
    BY <1>1, <1>2, <2>1
  <2> QED
    BY <1>3, <2>1, <2>2
<1>6. BookTypes'
  BY <1>1, <1>3, <1>4, <1>5 DEF BookTypes
<1>7. NodeTypes'
  <2>1. CASE Create(Turn) /\ UNCHANGED faults
    BY <1>1, <1>3, <2>1, CreateTypes DEF NodeTypes
  <2>2. CASE Fault /\ UNCHANGED <<cont, proc, lost, gpu>>
    BY <1>1, <1>3, <2>2 DEF NodeTypes, Fault
  <2> QED
    BY <1>3, <2>1, <2>2
<1>8. seen' \in States
  BY <1>1, <1>3 DEF CheckTypes
<1> QED
  BY <1>1, <1>2, <1>3, <1>4, <1>6, <1>7, <1>8, RecoveringWInv

\* A worker that recovered is no longer isolated.
LEMMA GpuRecoveredWInv == ASSUME WInv, GpuRecovered PROVE WInv'
<1>1. /\ CheckTypes /\ BookTypes /\ NodeTypes /\ snap \in Snaps
      /\ Turn \in Workers /\ pc # "idle"
      /\ terminal \subseteq quarantined
      /\ \A w \in snap.cooled : ~cooling[w]
  BY CheckFacts DEF GpuRecovered
<1>2. Turn \notin terminal
  BY DEF WInv, GivenUpIsolated, Recovering, GpuRecovered
<1>3. /\ quarantined' = quarantined \ {Turn}
      /\ healthy' = [healthy EXCEPT ![Turn] = "recent"]
      /\ Advance("gpu")
      /\ UNCHANGED <<cooling, restarts, attempts, failures, terminal, nodes>>
  BY DEF GpuRecovered
<1>4. BookTypes'
  BY <1>1, <1>3 DEF BookTypes
<1>5. NodeTypes'
  BY <1>1, <1>3 DEF NodeTypes, nodes
<1> QED
  BY <1>1, <1>2, <1>3, <1>4, <1>5, AdvanceWInv DEF Advance

\* One that did not is removed again, and given up after its last attempt.
LEMMA GpuNotRecoveredWInv == ASSUME WInv, GpuNotRecovered PROVE WInv'
<1>1. /\ CheckTypes /\ BookTypes /\ NodeTypes /\ snap \in Snaps
      /\ Turn \in Workers /\ pc # "idle"
      /\ terminal \subseteq quarantined
      /\ \A w \in snap.cooled : ~cooling[w]
  BY CheckFacts DEF GpuNotRecovered
<1>2. Turn \in quarantined
  BY DEF WInv, GivenUpIsolated, Recovering, GpuNotRecovered
<1>3. /\ End(Turn, "none")
      /\ Failed(Turn, attempts[Turn] >= GpuMaxRestarts)
      /\ Advance("gpu")
      /\ UNCHANGED <<cooling, restarts, attempts, quarantined>>
      /\ UNCHANGED <<gpu, hostGpu, status, stale, queue, faults>>
  BY DEF GpuNotRecovered
<1>4. /\ failures' \in [Workers -> Nat]
      /\ healthy' \in [Workers -> {"no", "recent", "stable"}]
      /\ terminal' \in SUBSET Workers
      /\ terminal' \subseteq terminal \cup {Turn}
  BY <1>1, <1>3, FailedTypes
<1>5. "none" \in Containers
  BY DEF Containers
<1>6. NodeTypes'
  BY <1>1, <1>3, <1>5, EndTypes DEF NodeTypes
<1>7. BookTypes'
  BY <1>1, <1>3, <1>4 DEF BookTypes
<1>8. terminal' \subseteq quarantined'
  BY <1>1, <1>2, <1>3, <1>4
<1> QED
  BY <1>1, <1>3, <1>6, <1>7, <1>8, AdvanceWInv DEF Advance

\* A restart by one of the two ordinary rounds.
LEMMA RestartWInv ==
    ASSUME WInv, pc # "idle", NEW round \in {"stale", "missing"},
           Available(Turn), Restart(round)
    PROVE  WInv'
<1>1. /\ CheckTypes /\ BookTypes /\ NodeTypes /\ snap \in Snaps
      /\ Turn \in Workers /\ MaxRestarts \in Nat
      /\ terminal \subseteq quarantined
      /\ \A w \in snap.cooled : ~cooling[w]
  BY CheckFacts
<1>2. /\ Create(Turn) /\ NoteTime(Turn)
      /\ restarts' = [restarts EXCEPT ![Turn] = @ + 1]
      /\ AdvanceWith(round, SnapAfter(Turn))
      /\ UNCHANGED <<attempts, failures, healthy, quarantined, terminal>>
      /\ UNCHANGED <<hostGpu, status, stale, queue, faults>>
  BY DEF Restart
<1>3. /\ SnapAfter(Turn) \in Snaps
      /\ cooling' \in [Workers -> BOOLEAN]
      /\ \A v \in SnapAfter(Turn).cooled : ~cooling'[v]
  BY <1>1, <1>2, Noted
<1>4. restarts' \in [Workers -> 0 .. MaxRestarts]
  <2>1. restarts \in [Workers -> 0 .. MaxRestarts]
    BY <1>1 DEF BookTypes
  <2>2. restarts[Turn] < MaxRestarts
    BY DEF Available
  <2>3. restarts[Turn] + 1 \in 0 .. MaxRestarts
    BY <1>1, <2>1, <2>2
  <2> QED
    BY <1>2, <2>1, <2>3
<1>5. BookTypes'
  BY <1>1, <1>2, <1>3, <1>4 DEF BookTypes
<1>6. NodeTypes'
  BY <1>1, <1>2, CreateTypes DEF NodeTypes
<1> QED
  BY <1>1, <1>2, <1>3, <1>5, <1>6, AdvanceWInv

-----------------------------------------------------------------------------
(* The invariant.                                                          *)

\* The invariant holds in the beginning.
LEMMA InitWInv == Init => WInv
<1> SUFFICES ASSUME Init PROVE WInv
  OBVIOUS
<1>1. NoSnap \in Snaps /\ NoSnap.cooled = {}
  BY DEF NoSnap, Snaps, Statuses
<1>2. CheckTypes
  BY <1>1 DEF Init, CheckTypes, Steps, States, Containers
<1>3. BookTypes
  BY WatchdogAssumption DEF Init, BookTypes
<1>4. NodeTypes
  BY WatchdogAssumption DEF Init, NodeTypes, Containers, Statuses
<1>5. GivenUpIsolated /\ CooledNow /\ AttemptThere
  BY <1>1 DEF Init, GivenUpIsolated, CooledNow, AttemptThere, Recovering
<1> QED
  BY <1>2, <1>3, <1>4, <1>5, Types DEF WInv

\* Every step keeps the invariant.
LEMMA NextWInv == WInv /\ [Next]_vars => WInv'
<1> SUFFICES ASSUME WInv, [Next]_vars PROVE WInv'
  OBVIOUS
<1>1. CASE Watchdog
  <2>1. CASE StaleRestart
    BY <2>1, RestartWInv DEF StaleRestart
  <2>2. CASE MissingRestart
    BY <2>2, RestartWInv DEF MissingRestart
  <2> QED
    BY <1>1, <2>1, <2>2, CheckWInv, GpuHealthyWInv, GpuPassWInv, GpuIsolateWInv,
       GpuRemoveWInv, GpuHostFailsWInv, GpuRestartWInv, GpuRecoveredWInv,
       GpuNotRecoveredWInv, StaleSkipWInv, MissingSkipWInv DEF Watchdog
<1>2. CASE \E w \in Workers : Work(w) \/ Environment(w)
  BY <1>2, WorkWInv, FaultWInv, ClockWInv DEF Environment
<1>3. CASE HostGpuVanishes \/ HostGpuReturns \/ Requeue
  BY <1>3, FaultWInv
<1>4. CASE UNCHANGED vars
  <2>1. UNCHANGED <<check, books>> /\ UNCHANGED nodes
    BY <1>4 DEF vars
  <2>2. NodeTypes'
    BY <2>1, CheckFacts DEF NodeTypes, nodes
  <2> QED
    BY <2>1, <2>2, NodeStep
<1> QED
  BY <1>1, <1>2, <1>3, <1>4 DEF Next

\* Every behaviour of the watchdog keeps the invariant.
LEMMA WInvAlways == Spec => []WInv
  BY InitWInv, NextWInv, PTL DEF Spec

-----------------------------------------------------------------------------
(* The theorems.                                                           *)

\* The variables keep their types; no worker is restarted more often than it
\* may be (worker_watchdog.py _restart_count_available).
THEOREM WatchdogTypeCorrect == Spec => []WatchdogTypeOK
<1>1. WInv => WatchdogTypeOK
  BY DEF WInv
<1> QED
  BY <1>1, WInvAlways, PTL

\* A container is made only by a restart of the worker in turn, which the check
\* found cooled down and has not given up.
LEMMA CreatedByRestart ==
    ASSUME WInv, [Next]_vars, NEW w \in Workers, Created(w)
    PROVE  w = Turn /\ w \in snap.cooled /\ w \notin terminal /\ NoteTime(w)
<1>1. CheckTypes /\ BookTypes /\ NodeTypes /\ terminal \subseteq quarantined
  BY CheckFacts
<1>2. cont \in [Workers -> Containers]
  BY <1>1 DEF NodeTypes
<1>3. ~UNCHANGED cont
  BY DEF Created
<1>4. ASSUME NEW v \in Workers, NEW c \in {"none", "exit0", "exit1", "exit75"}, End(v, c)
      PROVE  FALSE
  BY <1>2, <1>4 DEF End, Created
<1>5. ASSUME NEW v \in Workers, Create(v)
      PROVE  w = v
  BY <1>2, <1>5 DEF Create, Created
<1>6. ~GpuIsolate /\ ~Check /\ ~GpuHealthy /\ ~GpuPass /\ ~GpuHostFails
         /\ ~GpuRecovered /\ ~StaleSkip /\ ~MissingSkip /\ ~UNCHANGED vars
  BY <1>3 DEF GpuIsolate, Check, GpuHealthy, GpuPass, GpuHostFails, GpuRecovered,
     StaleSkip, MissingSkip, Skip, nodes, vars
<1>7. ~GpuRemove /\ ~GpuNotRecovered
  <2>1. pc # "idle" => Turn \in Workers
    BY CheckFacts
  <2>2. GpuRemove => Turn \in Workers /\ End(Turn, "none")
    BY <1>3, <2>1 DEF GpuRemove
  <2>3. GpuNotRecovered => Turn \in Workers /\ End(Turn, "none")
    BY <2>1 DEF GpuNotRecovered
  <2> QED
    BY <1>4, <2>2, <2>3
<1>8. ~\E v \in Workers : Work(v) \/ Environment(v)
  <2> SUFFICES ASSUME NEW v \in Workers, Work(v) \/ Environment(v) PROVE FALSE
    OBVIOUS
  <2>1. \/ UNCHANGED cont
        \/ End(v, "exit75") \/ End(v, "exit0") \/ End(v, "exit1")
    <3>1. Work(v) => UNCHANGED cont \/ End(v, "exit75")
      BY DEF Work, LookForGpu, Fetch, Begin, Finish
    <3>2. Environment(v) => UNCHANGED cont \/ End(v, "exit0") \/ End(v, "exit1")
      BY DEF Environment, Leave, Crash, GpuVanishes, GpuReappears, StatusAges,
         CooldownEnds, AttemptExpires, StableTimePasses, nodes
    <3> QED
      BY <3>1, <3>2
  <2> QED
    BY <1>3, <1>4, <2>1
<1>9. ~HostGpuVanishes /\ ~HostGpuReturns /\ ~Requeue
  BY <1>3 DEF HostGpuVanishes, HostGpuReturns, Requeue
<1>10. CASE GpuRestart
  <2>1. Turn \in Workers
    BY <1>10, CheckFacts DEF GpuRestart
  <2>2. Create(Turn) /\ NoteTime(Turn)
    BY <1>3, <1>10 DEF GpuRestart
  <2>3. Turn \in snap.cooled /\ Turn \notin terminal
    BY <1>10 DEF WInv, AttemptThere, GivenUpIsolated, Recovering, GpuRestart
  <2> QED
    BY <1>5, <2>1, <2>2, <2>3
<1>11. CASE StaleRestart \/ MissingRestart
  <2>1. Turn \in Workers
    BY <1>11, CheckFacts DEF StaleRestart, MissingRestart
  <2>2. Create(Turn) /\ NoteTime(Turn) /\ Available(Turn)
    BY <1>11 DEF StaleRestart, MissingRestart, Restart
  <2>3. Turn \in snap.cooled /\ Turn \notin terminal
    BY <1>1, <2>2 DEF Available
  <2> QED
    BY <1>5, <2>1, <2>2, <2>3
<1> QED
  BY <1>6, <1>7, <1>8, <1>9, <1>10, <1>11 DEF Next, Watchdog

\* No step takes a worker out of those given up.
LEMMA TerminalGrows ==
    ASSUME [Next]_vars
    PROVE  terminal \subseteq terminal'
<1>1. CASE Watchdog
  <2>1. CASE GpuRemove
    BY <2>1 DEF GpuRemove
  <2>2. CASE GpuHostFails \/ GpuNotRecovered
    BY <2>2 DEF GpuHostFails, GpuNotRecovered, Failed
  <2>3. CASE GpuHealthy \/ GpuPass \/ GpuIsolate \/ GpuRestart \/ GpuRecovered
    BY <2>3 DEF GpuHealthy, GpuPass, GpuIsolate, GpuRestart, GpuRecovered, books
  <2>4. CASE StaleRestart \/ StaleSkip \/ MissingRestart \/ MissingSkip \/ Check
    BY <2>4 DEF StaleRestart, StaleSkip, MissingRestart, MissingSkip, Check, Restart,
       Skip, books
  <2> QED
    BY <1>1, <2>1, <2>2, <2>3, <2>4 DEF Watchdog
<1>2. CASE \E w \in Workers : Work(w) \/ Environment(w)
  BY <1>2 DEF Work, LookForGpu, Fetch, Begin, Finish, Environment, Leave, Crash,
     GpuVanishes, GpuReappears, StatusAges, CooldownEnds, AttemptExpires,
     StableTimePasses, books
<1>3. CASE HostGpuVanishes \/ HostGpuReturns \/ Requeue \/ UNCHANGED vars
  BY <1>3 DEF HostGpuVanishes, HostGpuReturns, Requeue, vars, books
<1> QED
  BY <1>1, <1>2, <1>3 DEF Next

\* A worker given up is never brought back by any round of the check
\* (docs/cluster_operations.md: "the node is isolated permanently").
THEOREM TerminalIsFinalCorrect == Spec => TerminalIsFinal
<1>1. ASSUME WInv, [Next]_vars
      PROVE  [\A w \in terminal : w \in terminal' /\ ~Created(w)]_vars
  <2>1. terminal \subseteq Workers
    BY <1>1, CheckFacts DEF BookTypes
  <2>2. ASSUME NEW w \in terminal
        PROVE  w \in terminal' /\ ~Created(w)
    BY <1>1, <2>1, TerminalGrows, CreatedByRestart
  <2> QED
    BY <2>2
<1> QED
  BY <1>1, WInvAlways, PTL DEF Spec, TerminalIsFinal

\* No worker is restarted within the cooldown of its last restart, and every
\* restart begins one (worker_watchdog.py _cooldown_elapsed, _mark_restarted).
THEOREM CooldownKeptCorrect == Spec => CooldownKept
<1>1. ASSUME WInv, [Next]_vars
      PROVE  [\A w \in Workers : Created(w) => ~cooling[w] /\ cooling'[w]]_vars
  <2>1. ASSUME NEW w \in Workers, Created(w)
        PROVE  ~cooling[w] /\ cooling'[w]
    <3>1. w \in snap.cooled /\ NoteTime(w)
      BY <1>1, <2>1, CreatedByRestart
    <3>2. cooling \in [Workers -> BOOLEAN] /\ ~cooling[w]
      BY <1>1, <3>1, CheckFacts DEF BookTypes
    <3> QED
      BY <3>1, <3>2 DEF NoteTime
  <2> QED
    BY <2>1
<1> QED
  BY <1>1, WInvAlways, PTL DEF Spec, CooldownKept
=============================================================================
