--------------------------- MODULE MCWorkerWatchdog ---------------------------
(***************************************************************************)
(* Instances of WorkerWatchdog for TLC.                                    *)
(***************************************************************************)
EXTENDS WorkerWatchdog
=============================================================================
