----------------------------- MODULE MCTaskQueue -----------------------------
(***************************************************************************)
(* Instance of TaskQueue for TLC: three samples with up to three attempts  *)
(* each, a case timeout, and runs that start afresh or resume.             *)
(***************************************************************************)
EXTENDS TaskQueue
=============================================================================
