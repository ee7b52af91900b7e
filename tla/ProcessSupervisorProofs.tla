------------------------ MODULE ProcessSupervisorProofs ------------------------
(***************************************************************************)
(* Proofs about ProcessSupervisor, for any number of requests and startup  *)
(* processes: whatever the connection threads do while the supervisor      *)
(* stops, only a child in the hands of a thread that was not joined in     *)
(* time can outlive it.                                                    *)
(***************************************************************************)
EXTENDS ProcessSupervisor, TLAPS

\* Threads that were accepted and have not ended.
Busy(r) == step[r] \notin {"none", "waiting", "done"}

\* A running child is in the registry, or a thread is about to put it there,
\* or one that took it out is about to kill it.
WithinReach ==
    \A c \in Children : Running(c) =>
        \/ c \in registered
        \/ c \in Requests /\ step[c] = "started"
        \/ \E r \in Requests : step[r] = "released" /\ target[r] = c

\* Before the worker runs there are no requests.
NoEarlyRequests ==
    /\ main \in {"starting", "warming"} => worker = "none"
    /\ worker = "none" => \A r \in Requests : step[r] = "none"
    /\ main = "starting" => registered = {}

\* A step of a thread fits its operation.
StepsFit ==
    \A r \in Requests :
        /\ step[r] = "started" => child[r] # "none"
        /\ step[r] = "released" => op[r] = "release"
        /\ r \in toJoin \cup gaveUp => step[r] # "none"

\* serve has joined every thread it accepted, or given up on it.
ThreadsAccounted ==
    /\ main = "joining" =>
          \A r \in Requests : Busy(r) => r \in toJoin \cup gaveUp
    /\ main \in {"stoppingWorker", "returned"} =>
          \A r \in Requests : Busy(r) => r \in gaveUp

\* After the last sweep, who is to blame for a child that runs.
Swept ==
    main \in {"stoppingWorker", "returned"} =>
        \A c \in Children : Running(c) =>
            \E r \in gaveUp : r = c \/ (target[r] = c /\ op[r] = "release")

\* The inductive invariant.
SInv ==
    /\ SupervisorTypeOK
    /\ WithinReach
    /\ NoEarlyRequests
    /\ StepsFit
    /\ ThreadsAccounted
    /\ Swept

\* The invariant holds in the beginning.
LEMMA InitSInv == Init => SInv
<1> SUFFICES ASSUME Init PROVE SInv
  OBVIOUS
<1> USE DEF Init, None, Running, Busy
<1>1. SupervisorTypeOK
  BY DEF SupervisorTypeOK
<1>2. WithinReach /\ NoEarlyRequests /\ StepsFit /\ ThreadsAccounted /\ Swept
  BY DEF WithinReach, NoEarlyRequests, StepsFit, ThreadsAccounted, Swept
<1> QED
  BY <1>1, <1>2 DEF SInv

\* The worker sends a request.
LEMMA ConnectSInv ==
    ASSUME SInv, NEW r \in Requests, Connect(r)
    PROVE  SInv'
<1> USE DEF SInv
<1>1. /\ step' = [step EXCEPT ![r] = "waiting"]
      /\ step[r] = "none" /\ worker = "running"
      /\ UNCHANGED <<serve, stopRequested, child, registered>>
      /\ op' \in [Requests -> Operations \cup {None}]
      /\ target' \in [Requests -> Requests \cup {None}]
      /\ \A q \in Requests \ {r} : op'[q] = op[q] /\ target'[q] = target[q]
  BY DEF Connect, SupervisorTypeOK
<1> USE <1>1 DEF serve
<1>2. SupervisorTypeOK'
  BY DEF SupervisorTypeOK
<1>3. /\ step \in [Requests -> {"none", "waiting", "begun", "started",
                                "communicating", "released", "done"}]
      /\ gaveUp \in SUBSET Requests /\ gaveUp' = gaveUp
  BY DEF SupervisorTypeOK
<1>4. WithinReach'
  BY <1>3 DEF WithinReach, Running
<1>5. NoEarlyRequests' /\ StepsFit' /\ ThreadsAccounted'
  BY <1>3 DEF NoEarlyRequests, StepsFit, ThreadsAccounted, Busy
<1>6. r \notin gaveUp
  BY DEF StepsFit
<1>7. Swept'
  BY <1>3, <1>6 DEF Swept, Running
<1> QED
  BY <1>2, <1>4, <1>5, <1>7

\* A connection's thread takes a step.
LEMMA ThreadSInv ==
    ASSUME SInv, NEW r \in Requests, Thread(r)
    PROVE  SInv'
<1> USE DEF SInv
<1>1. /\ step \in [Requests -> {"none", "waiting", "begun", "started",
                                "communicating", "released", "done"}]
      /\ child \in [Children -> {"none", "running", "dead"}]
      /\ r \in Children
      /\ gaveUp \in SUBSET Requests
  BY DEF SupervisorTypeOK, Children
<1>2. /\ Busy(r)
      /\ UNCHANGED <<serve, op, target>>
      /\ \A q \in Requests \ {r} : step'[q] = step[q]
      /\ step'[r] \notin {"none", "waiting"}
  BY <1>1 DEF Thread, StartProcess, Register, RunEnds, Signal, Release,
     KillReleased, Shutdown, Goto, AfterStart, AfterPop, Busy
<1>3. worker # "none" /\ main # "starting"
  BY <1>1, <1>2 DEF NoEarlyRequests, Busy
<1>4. SupervisorTypeOK'
  <2>1. CASE StartProcess(r)
    BY <2>1, <1>1 DEF StartProcess, Goto, AfterStart, SupervisorTypeOK, serve
  <2>2. CASE Register(r)
    BY <2>2, <1>1 DEF Register, Goto, SupervisorTypeOK, StepsFit, serve
  <2>3. CASE RunEnds(r)
    BY <2>3, <1>1 DEF RunEnds, Goto, SupervisorTypeOK, serve
  <2>4. CASE Signal(r)
    BY <2>4, <1>1 DEF Signal, Goto, SupervisorTypeOK, serve
  <2>5. CASE Release(r)
    BY <2>5, <1>1 DEF Release, Goto, AfterPop, SupervisorTypeOK, serve
  <2>6. CASE KillReleased(r)
    BY <2>6, <1>1 DEF KillReleased, Goto, SupervisorTypeOK, serve
  <2>7. CASE Shutdown(r)
    BY <2>7, <1>1 DEF Shutdown, Goto, SupervisorTypeOK, serve
  <2> QED
    BY <2>1, <2>2, <2>3, <2>4, <2>5, <2>6, <2>7 DEF Thread
<1>5. WithinReach'
  <2>1. CASE StartProcess(r)
    BY <2>1, <1>1 DEF StartProcess, Goto, AfterStart, WithinReach, Running
  <2>2. CASE Register(r)
    BY <2>2, <1>1 DEF Register, Goto, WithinReach, Running
  <2>3. CASE RunEnds(r)
    BY <2>3, <1>1 DEF RunEnds, Goto, WithinReach, Running
  <2>4. CASE Signal(r)
    BY <2>4, <1>1 DEF Signal, Goto, WithinReach, Running
  <2>5. CASE Release(r)
    BY <2>5, <1>1 DEF Release, Goto, AfterPop, WithinReach, Running
  <2>6. CASE KillReleased(r)
    BY <2>6, <1>1 DEF KillReleased, Goto, WithinReach, Running
  <2>7. CASE Shutdown(r)
    BY <2>7, <1>1 DEF Shutdown, Goto, WithinReach, Running
  <2> QED
    BY <2>1, <2>2, <2>3, <2>4, <2>5, <2>6, <2>7 DEF Thread
<1>6. NoEarlyRequests'
  BY <1>2, <1>3 DEF NoEarlyRequests, serve
<1>7. StepsFit'
  <2>1. step'[r] = "started" => child'[r] # "none"
    BY <1>1 DEF Thread, StartProcess, Register, RunEnds, Signal, Release,
       KillReleased, Shutdown, Goto, AfterStart, AfterPop
  <2>2. step'[r] = "released" => op'[r] = "release"
    BY <1>1 DEF Thread, StartProcess, Register, RunEnds, Signal, Release,
       KillReleased, Shutdown, Goto, AfterStart, AfterPop
  <2>3. \A q \in Requests : child[q] # "none" => child'[q] # "none"
    BY <1>1 DEF Thread, StartProcess, Register, RunEnds, Signal, Release,
       KillReleased, Shutdown, Children
  <2> QED
    BY <1>2, <2>1, <2>2, <2>3 DEF StepsFit, serve
<1>8. ThreadsAccounted'
  BY <1>2 DEF ThreadsAccounted, Busy, serve
<1>9. Swept'
  <2>1. \A c \in Children : Running(c)' => Running(c) \/ c = r
    BY <1>1 DEF Thread, StartProcess, Register, RunEnds, Signal, Release,
       KillReleased, Shutdown, Running
  <2>2. main \in {"stoppingWorker", "returned"} => r \in gaveUp
    BY <1>2 DEF ThreadsAccounted
  <2> QED
    BY <1>2, <2>1, <2>2 DEF Swept, serve
<1> QED
  BY <1>4, <1>5, <1>6, <1>7, <1>8, <1>9

\* serve takes a step.
LEMMA ServeSInv ==
    ASSUME SInv, Serve
    PROVE  SInv'
<1> USE DEF SInv
<1>1. /\ step \in [Requests -> {"none", "waiting", "begun", "started",
                                "communicating", "released", "done"}]
      /\ child \in [Children -> {"none", "running", "dead"}]
      /\ registered \in SUBSET Children
      /\ Requests \subseteq Children /\ Startup \subseteq Children
      /\ \A s \in Startup : s \notin Requests
  BY SupervisorAssumption DEF SupervisorTypeOK, Children
<1>2. CASE StartUp
  <2>1. PICK started \in SUBSET Startup :
          /\ child' = [c \in Children |-> IF c \in started THEN "running" ELSE child[c]]
          /\ registered' = started
          /\ main' \in {"warming", "stopping"}
          /\ main = "starting"
          /\ UNCHANGED <<worker, active, toJoin, gaveUp, stopRequested, requests>>
    BY <1>2 DEF StartUp
  <2>2. worker = "none" /\ \A r \in Requests : step[r] = "none"
    BY <2>1 DEF NoEarlyRequests
  <2>3. \A c \in Children : ~Running(c)
    BY <2>1, <2>2 DEF WithinReach, NoEarlyRequests
  <2>4. SupervisorTypeOK'
    BY <1>1, <2>1 DEF SupervisorTypeOK, requests
  <2>5. WithinReach'
    BY <1>1, <2>1, <2>3 DEF WithinReach, Running
  <2>6. NoEarlyRequests' /\ StepsFit' /\ ThreadsAccounted' /\ Swept'
    BY <1>1, <2>1, <2>2
    DEF NoEarlyRequests, StepsFit, ThreadsAccounted, Swept, requests
  <2> QED
    BY <2>4, <2>5, <2>6
<1>3. CASE WarmUp
  <2>1. SupervisorTypeOK'
    BY <1>3 DEF WarmUp, SupervisorTypeOK, requests
  <2>2. WithinReach' /\ NoEarlyRequests' /\ StepsFit' /\ ThreadsAccounted' /\ Swept'
    BY <1>3 DEF WarmUp, WithinReach, NoEarlyRequests, StepsFit,
       ThreadsAccounted, Swept, Running, requests
  <2> QED
    BY <2>1, <2>2
<1>4. CASE Check \/ StopAll \/ StopWorker
  <2>1. SupervisorTypeOK'
    BY <1>1, <1>4 DEF Check, StopAll, StopWorker, SupervisorTypeOK, requests
  <2>2. UNCHANGED <<requests, child, registered, toJoin, gaveUp>>
    BY <1>4 DEF Check, StopAll, StopWorker
  <2>3. WithinReach' /\ StepsFit'
    BY <2>2 DEF WithinReach, StepsFit, Running, requests
  <2>4. NoEarlyRequests' /\ ThreadsAccounted' /\ Swept'
    BY <1>4, <2>2 DEF Check, StopAll, StopWorker, NoEarlyRequests,
       ThreadsAccounted, Swept, Busy, Running, requests
  <2> QED
    BY <2>1, <2>3, <2>4
<1>5. CASE Accept
  <2>1. SupervisorTypeOK'
    BY <1>5 DEF Accept, Goto, SupervisorTypeOK
  <2>2. WithinReach'
    BY <1>1, <1>5 DEF Accept, Goto, WithinReach, Running
  <2>3. StepsFit'
    BY <1>1, <1>5 DEF Accept, Goto, StepsFit
  <2>4. NoEarlyRequests'
    BY <1>1, <1>5 DEF Accept, Goto, NoEarlyRequests
  <2>5. ThreadsAccounted' /\ Swept'
    BY <1>5 DEF Accept, ThreadsAccounted, Swept
  <2> QED
    BY <2>1, <2>2, <2>3, <2>4, <2>5
<1>6. CASE GraceEnds
  <2>1. SupervisorTypeOK'
    BY <1>1, <1>6 DEF GraceEnds, KillAll, Running, SupervisorTypeOK, requests
  <2>2. /\ \A c \in Children : Running(c)' => Running(c)
        /\ \A c \in Children : child[c] # "none" => child'[c] # "none"
    BY <1>1, <1>6 DEF GraceEnds, KillAll, Running
  <2>3. WithinReach'
    BY <1>6, <2>2 DEF GraceEnds, WithinReach, requests
  <2>4. toJoin' = {r \in Requests : Busy(r)}
    BY <1>6 DEF GraceEnds, Busy
  <2>5. NoEarlyRequests' /\ StepsFit' /\ ThreadsAccounted' /\ Swept'
    BY <1>1, <1>6, <2>2, <2>4 DEF GraceEnds, NoEarlyRequests, StepsFit,
       ThreadsAccounted, Swept, Busy, requests
  <2> QED
    BY <2>1, <2>3, <2>5
<1>7. CASE \E r \in Requests : Join(r)
  <2>1. SupervisorTypeOK'
    BY <1>7 DEF Join, SupervisorTypeOK, requests
  <2>2. WithinReach' /\ NoEarlyRequests' /\ StepsFit' /\ ThreadsAccounted' /\ Swept'
    BY <1>7 DEF Join, WithinReach, NoEarlyRequests, StepsFit, ThreadsAccounted,
       Swept, Running, Busy, Answered, requests
  <2> QED
    BY <2>1, <2>2
<1>8. CASE StopAllAgain
  <2>1. SupervisorTypeOK'
    BY <1>1, <1>8 DEF StopAllAgain, Sweep, KillAll, Running, SupervisorTypeOK,
       requests
  <2>2. /\ \A c \in Children : Running(c)' => Running(c) /\ c \notin registered
        /\ \A c \in Children : child[c] # "none" => child'[c] # "none"
    BY <1>1, <1>8 DEF StopAllAgain, Sweep, KillAll, Running
  <2>3. WithinReach'
    BY <1>8, <2>2 DEF StopAllAgain, WithinReach, requests
  <2>4. \A r \in Requests : Busy(r) => r \in gaveUp
    BY <1>8 DEF StopAllAgain, ThreadsAccounted
  <2>5. NoEarlyRequests' /\ StepsFit' /\ ThreadsAccounted'
    BY <1>1, <1>8, <2>2, <2>4 DEF StopAllAgain, NoEarlyRequests, StepsFit,
       ThreadsAccounted, Busy, requests
  <2>6. Swept'
    BY <1>8, <2>2, <2>4 DEF StopAllAgain, Swept, WithinReach, StepsFit, Busy,
       requests
  <2> QED
    BY <2>1, <2>3, <2>5, <2>6
<1> QED
  BY <1>2, <1>3, <1>4, <1>5, <1>6, <1>7, <1>8 DEF Serve

\* Every step preserves the invariant.
LEMMA NextSInv == SInv /\ [Next]_vars => SInv'
<1> SUFFICES ASSUME SInv, [Next]_vars PROVE SInv'
  OBVIOUS
<1>1. CASE Serve
  BY <1>1, ServeSInv
<1>2. ASSUME NEW r \in Requests, Connect(r)
      PROVE  SInv'
  BY <1>2, ConnectSInv
<1>3. ASSUME NEW r \in Requests, Thread(r)
      PROVE  SInv'
  BY <1>3, ThreadSInv
<1>4. CASE StopSignal \/ WorkerExits \/ UNCHANGED vars
  <2> USE DEF SInv
  <2>1. SupervisorTypeOK'
    BY <1>4 DEF StopSignal, WorkerExits, vars, serve, requests, SupervisorTypeOK
  <2>2. WithinReach' /\ StepsFit' /\ ThreadsAccounted' /\ Swept'
    BY <1>4 DEF StopSignal, WorkerExits, vars, serve, requests, WithinReach,
       StepsFit, ThreadsAccounted, Swept, Running, Busy
  <2>3. NoEarlyRequests'
    BY <1>4 DEF StopSignal, WorkerExits, vars, serve, requests, NoEarlyRequests
  <2> QED
    BY <2>1, <2>2, <2>3
<1>5. ASSUME NEW c \in Children, ChildEnds(c)
      PROVE  SInv'
  <2> USE DEF SInv
  <2>1. SupervisorTypeOK'
    BY <1>5 DEF ChildEnds, SupervisorTypeOK, serve, requests
  <2>2. /\ child \in [Children -> {"none", "running", "dead"}]
        /\ Requests \subseteq Children
    BY DEF SupervisorTypeOK, Children
  <2>3. /\ \A d \in Children : Running(d)' => Running(d)
        /\ \A d \in Children : child[d] # "none" => child'[d] # "none"
    BY <1>5, <2>2 DEF ChildEnds, Running
  <2>4. WithinReach' /\ Swept'
    BY <1>5, <2>3 DEF ChildEnds, WithinReach, Swept, serve, requests
  <2>5. StepsFit' /\ ThreadsAccounted' /\ NoEarlyRequests'
    BY <1>5, <2>2, <2>3 DEF ChildEnds, StepsFit, ThreadsAccounted,
       NoEarlyRequests, Busy, serve, requests
  <2> QED
    BY <2>1, <2>4, <2>5
<1> QED
  BY <1>1, <1>2, <1>3, <1>4, <1>5 DEF Next

\* Every behaviour of the supervisor keeps the invariant.
LEMMA SInvAlways == Spec => []SInv
  BY InitSInv, NextSInv, PTL DEF Spec

-----------------------------------------------------------------------------
\* The supervisor's variables keep their types.
THEOREM SupervisorTypeCorrect == Spec => []SupervisorTypeOK
<1>1. SInv => SupervisorTypeOK
  BY DEF SInv
<1> QED
  BY <1>1, SInvAlways, PTL

\* No child outlives serve, but those a thread that was not joined in time
\* was starting or releasing.
THEOREM ChildrenStoppedCorrect == Spec => []ChildrenStopped
<1>1. SInv => ChildrenStopped
  BY DEF SInv, Swept, ChildrenStopped
<1> QED
  BY <1>1, SInvAlways, PTL

\* A child whose start was answered is within the supervisor's reach.
THEOREM AnsweredWithinReachCorrect == Spec => []AnsweredWithinReach
<1>1. SInv => AnsweredWithinReach
  BY DEF SInv, WithinReach, AnsweredWithinReach, Answered, Children
<1> QED
  BY <1>1, SInvAlways, PTL
=============================================================================
