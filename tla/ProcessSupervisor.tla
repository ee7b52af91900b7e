--------------------------- MODULE ProcessSupervisor ---------------------------
(***************************************************************************)
(* The process supervisor of a worker container                            *)
(* (runtime/container/supervised_process/server.py): it starts the startup *)
(* processes and the worker, serves each of the worker's requests in a     *)
(* thread of its own, and stops the children when the worker exits or a    *)
(* stop is asked for.                                                      *)
(*                                                                         *)
(* A request is named for the child it starts, if it starts one.  A child  *)
(* may end at any time, which is also all that a SIGINT does to it.  Only  *)
(* the processes that the supervisor started are modelled, not those that  *)
(* they start in turn.                                                     *)
(***************************************************************************)
EXTENDS FiniteSets

CONSTANTS
    Requests,   \* requests the worker may send
    Startup     \* startup commands

ASSUME SupervisorAssumption == Requests \cap Startup = {}

Children == Requests \cup Startup

Operations == {"spawn", "run", "poll", "signal", "release", "shutdown"}

None == "none"

VARIABLES
    main,           \* where serve is
    stopRequested,  \* stop_requested
    worker,         \* the worker process
    op, target,     \* what a request asks for, and of which child
    step,           \* how far the request's thread is
    child,          \* the processes
    registered,     \* ProcessRegistry.children
    active,         \* the children stop_all is waiting for
    toJoin,         \* the threads serve has still to join
    gaveUp          \* history: the threads not joined in time

requests == <<op, target, step>>
serve == <<main, worker, active, toJoin, gaveUp>>
vars == <<serve, stopRequested, requests, child, registered>>

Init ==
    /\ main = "starting" /\ stopRequested = FALSE /\ worker = "none"
    /\ op = [r \in Requests |-> None]
    /\ target = [r \in Requests |-> None]
    /\ step = [r \in Requests |-> "none"]
    /\ child = [c \in Children |-> "none"]
    /\ registered = {}
    /\ active = {} /\ toJoin = {} /\ gaveUp = {}

Running(c) == child[c] = "running"

-----------------------------------------------------------------------------
(* The worker's requests.                                                  *)

Answered(r) == step[r] = "done"

\* The client knows of a child from the answer to its spawn.
Connect(r) ==
    /\ worker = "running" /\ step[r] = "none"
    /\ \E o \in Operations :
          /\ op' = [op EXCEPT ![r] = o]
          /\ IF o \in {"poll", "signal", "release"}
             THEN \E c \in Requests :
                     /\ op[c] = "spawn" /\ Answered(c)
                     /\ target' = [target EXCEPT ![r] = c]
             ELSE UNCHANGED target
    /\ step' = [step EXCEPT ![r] = "waiting"]
    /\ UNCHANGED <<serve, stopRequested, child, registered>>

Goto(r, s) == step' = [step EXCEPT ![r] = s]

Started(pid) == "started"

\* A command that cannot be started is answered with the error.
AfterStart(pid) == IF pid THEN "started" ELSE "done"

\* The process of a spawn or run exists before the registry knows of it.
StartProcess(r) ==
    /\ step[r] = "begun" /\ op[r] \in {"spawn", "run"}
    /\ \E pid \in BOOLEAN :
          /\ child' = IF pid THEN [child EXCEPT ![r] = "running"] ELSE child
          /\ Goto(r, AfterStart(pid))
    /\ UNCHANGED <<serve, stopRequested, op, target, registered>>

Register(r) ==
    /\ step[r] = "started"
    /\ registered' = registered \cup {r}
    /\ Goto(r, IF op[r] = "run" THEN "communicating" ELSE "done")
    /\ UNCHANGED <<serve, stopRequested, op, target, child>>

\* A command has ended, or is killed at its time limit.
RunEnds(r) ==
    /\ step[r] = "communicating"
    /\ child' = [child EXCEPT ![r] = "dead"]
    /\ registered' = registered \ {r}
    /\ Goto(r, "done")
    /\ UNCHANGED <<serve, stopRequested, op, target>>

\* Answered as well when the child is not known any more.
Signal(r) ==
    /\ step[r] = "begun" /\ op[r] \in {"poll", "signal"}
    /\ \/ UNCHANGED child
       \/ /\ op[r] = "signal" /\ target[r] \in registered
          /\ child' = [child EXCEPT ![target[r]] = "dead"]
    /\ Goto(r, "done")
    /\ UNCHANGED <<serve, stopRequested, op, target, registered>>

DoneAfterPop(c) == "done"

AfterPop(c) == IF c \in registered THEN "released" ELSE "done"

\* A released child leaves the registry first and is killed then.
Release(r) ==
    /\ step[r] = "begun" /\ op[r] = "release"
    /\ registered' = registered \ {target[r]}
    /\ Goto(r, AfterPop(target[r]))
    /\ UNCHANGED <<serve, stopRequested, op, target, child>>

KillReleased(r) ==
    /\ step[r] = "released"
    /\ child' = [child EXCEPT ![target[r]] = "dead"]
    /\ Goto(r, "done")
    /\ UNCHANGED <<serve, stopRequested, op, target, registered>>

Shutdown(r) ==
    /\ step[r] = "begun" /\ op[r] = "shutdown"
    /\ stopRequested' = TRUE
    /\ Goto(r, "done")
    /\ UNCHANGED <<serve, op, target, child, registered>>

Thread(r) ==
    \/ StartProcess(r) \/ Register(r) \/ RunEnds(r) \/ Signal(r)
    \/ Release(r) \/ KillReleased(r) \/ Shutdown(r)

ChildEnds(c) ==
    /\ Running(c)
    /\ child' = [child EXCEPT ![c] = "dead"]
    /\ UNCHANGED <<serve, stopRequested, requests, registered>>

-----------------------------------------------------------------------------
(* serve.                                                                  *)

\* The container is stopped.
StopSignal ==
    /\ ~stopRequested
    /\ stopRequested' = TRUE
    /\ UNCHANGED <<serve, requests, child, registered>>

WorkerExits ==
    /\ worker = "running"
    /\ worker' = "exited"
    /\ UNCHANGED <<main, active, toJoin, gaveUp, stopRequested, requests, child,
                   registered>>

\* One of the startup processes may not start, which ends serve.
StartUp ==
    /\ main = "starting"
    /\ \E started \in SUBSET Startup :
          /\ child' = [c \in Children |-> IF c \in started THEN "running" ELSE child[c]]
          /\ registered' = started
          /\ main' = IF started = Startup THEN "warming" ELSE "stopping"
    /\ UNCHANGED <<worker, active, toJoin, gaveUp, stopRequested, requests>>

\* None of them may have ended when the worker is started.
WarmUp ==
    /\ main = "warming"
    /\ IF \A c \in Startup : Running(c)
       THEN main' = "checking" /\ worker' = "running"
       ELSE main' = "stopping" /\ UNCHANGED worker
    /\ UNCHANGED <<active, toJoin, gaveUp, stopRequested, requests, child, registered>>

Check ==
    /\ main = "checking"
    /\ main' = IF stopRequested \/ worker = "exited" THEN "stopping" ELSE "accepting"
    /\ UNCHANGED <<worker, active, toJoin, gaveUp, stopRequested, requests, child,
                   registered>>

\* A thread is started for a connection, also if a stop was asked for since
\* the check.
Accept ==
    /\ main = "accepting"
    /\ main' = "checking"
    /\ \/ UNCHANGED step
       \/ \E r \in Requests : step[r] = "waiting" /\ Goto(r, "begun")
    /\ UNCHANGED <<worker, active, toJoin, gaveUp, stopRequested, op, target, child,
                   registered>>

\* The registered children that run are asked to end.
StopAll ==
    /\ main = "stopping"
    /\ active' = {c \in registered : Running(c)}
    /\ main' = "grace"
    /\ UNCHANGED <<worker, toJoin, gaveUp, stopRequested, requests, child, registered>>

KillAll(children) ==
    child' = [c \in Children |->
                 IF c \in children /\ Running(c) THEN "dead" ELSE child[c]]

\* Those that still run after the grace period are killed.
GraceEnds ==
    /\ main = "grace"
    /\ KillAll(active)
    /\ active' = {}
    /\ toJoin' = {r \in Requests : step[r] \notin {"none", "waiting", "done"}}
    /\ main' = "joining"
    /\ UNCHANGED <<worker, gaveUp, stopRequested, requests, registered>>

\* Each connection's thread has one second to end.
Join(r) ==
    /\ main = "joining" /\ r \in toJoin
    /\ toJoin' = toJoin \ {r}
    /\ gaveUp' = IF Answered(r) THEN gaveUp ELSE gaveUp \cup {r}
    /\ UNCHANGED <<main, worker, active, stopRequested, requests, child, registered>>

NoSweep == UNCHANGED child

\* The children registered in the meantime are stopped without a grace period.
Sweep == KillAll(registered)

StopAllAgain ==
    /\ main = "joining" /\ toJoin = {}
    /\ Sweep
    /\ main' = "stoppingWorker"
    /\ UNCHANGED <<worker, active, toJoin, gaveUp, stopRequested, requests, registered>>

StopWorker ==
    /\ main = "stoppingWorker"
    /\ worker' = IF worker = "running" THEN "exited" ELSE worker
    /\ main' = "returned"
    /\ UNCHANGED <<active, toJoin, gaveUp, stopRequested, requests, child, registered>>

Serve ==
    \/ StartUp \/ WarmUp \/ Check \/ Accept \/ StopAll \/ GraceEnds
    \/ StopAllAgain \/ StopWorker
    \/ \E r \in Requests : Join(r)

Next ==
    \/ Serve \/ StopSignal \/ WorkerExits
    \/ \E r \in Requests : Connect(r) \/ Thread(r)
    \/ \E c \in Children : ChildEnds(c)

Spec == Init /\ [][Next]_vars

-----------------------------------------------------------------------------
SupervisorTypeOK ==
    /\ main \in {"starting", "warming", "checking", "accepting", "stopping",
                 "grace", "joining", "stoppingWorker", "returned"}
    /\ stopRequested \in BOOLEAN
    /\ worker \in {"none", "running", "exited"}
    /\ op \in [Requests -> Operations \cup {None}]
    /\ target \in [Requests -> Requests \cup {None}]
    /\ step \in [Requests -> {"none", "waiting", "begun", "started",
                              "communicating", "released", "done"}]
    /\ child \in [Children -> {"none", "running", "dead"}]
    /\ registered \in SUBSET {c \in Children : child[c] # "none"}
    /\ active \in SUBSET Children
    /\ toJoin \in SUBSET Requests
    /\ gaveUp \in SUBSET Requests

\* No child outlives serve, although threads start and release children while
\* it stops them: unless a thread did not end in the second it was given, and
\* was at work on that child (docs/cluster_operations.md: "when the supervisor
\* exits, it stops the process groups it manages").
ChildrenStopped ==
    main = "returned" =>
        \A c \in Children : Running(c) =>
            \E r \in gaveUp : r = c \/ (target[r] = c /\ op[r] = "release")

\* A child whose start was answered stays within the supervisor's reach as
\* long as it runs: in the registry, or in the hands of a thread about to kill
\* it.
AnsweredWithinReach ==
    \A c \in Requests : Answered(c) /\ Running(c) =>
        c \in registered \/ \E r \in Requests : step[r] = "released" /\ target[r] = c
=============================================================================
