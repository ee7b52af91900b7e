----------------------------- MODULE CaseExecutor -----------------------------
(***************************************************************************)
(* What an executor of importance-sampling cases promises                  *)
(* (orchestration/importance/executors.py): the records reach the sink in  *)
(* sample order, and a sequential run ends with the first record after     *)
(* which the rule is content.  An executor on one machine does just that;  *)
(* ClusterExecutor does it with many workers.                              *)
(***************************************************************************)
EXTENDS Integers, Sequences

CONSTANT MaxSamples     \* max_index

VARIABLES
    sequential,     \* run_sequential rather than run
    delivered,      \* the samples whose records the sink was given
    content,        \* should_stop() was true
    outcome

cvars == <<sequential, delivered, content, outcome>>

Samples == 1 .. MaxSamples

Init ==
    /\ sequential \in BOOLEAN
    /\ delivered = <<>>
    /\ content = FALSE
    /\ outcome = "running"

\* A sequential run leaves no sample out and asks the rule after each record.
\* A run of a fixed number may have to do without a lost sample.
Deliver(s) ==
    /\ outcome = "running" /\ ~content
    /\ IF sequential THEN s = Len(delivered) + 1
       ELSE \A i \in DOMAIN delivered : delivered[i] < s
    /\ delivered' = Append(delivered, s)
    /\ content' \in {FALSE, sequential}
    /\ UNCHANGED <<sequential, outcome>>

Return ==
    /\ outcome = "running"
    /\ sequential => content \/ Len(delivered) = MaxSamples
    /\ outcome' = "returned"
    /\ UNCHANGED <<sequential, delivered, content>>

\* A case of a sequential run that cannot be brought ends it with an error.
Raise ==
    /\ outcome = "running"
    /\ sequential /\ ~content /\ Len(delivered) < MaxSamples
    /\ outcome' = "raised"
    /\ UNCHANGED <<sequential, delivered, content>>

Next == Return \/ Raise \/ \E s \in Samples : Deliver(s)

Spec == Init /\ [][Next]_cvars
=============================================================================
