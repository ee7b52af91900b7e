----------------------------- MODULE MCSampleFeed -----------------------------
(***************************************************************************)
(* Instance of SampleFeed for TLC: three samples, two attempts each, and   *)
(* datasets of up to four rows, so that retries, duplicates, lost samples  *)
(* and rows after a sample was given up all occur.                         *)
(***************************************************************************)
EXTENDS SampleFeed
=============================================================================
