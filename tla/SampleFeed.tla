------------------------------ MODULE SampleFeed ------------------------------
(***************************************************************************)
(* A dataset as the workers of a run fill it, and what a statistical rule  *)
(* sees of it after every row (evaluation/statistical_sample.py).  Nothing *)
(* is assumed of the workers: rows of any issued sample arrive in any      *)
(* order and number, and a sample may be given up at any time.             *)
(***************************************************************************)
EXTENDS StatisticalSample

CONSTANTS
    MaxSamples,     \* samples issued
    MaxAttempts,    \* attempts a sample may take
    MaxRows         \* bound on the rows of the dataset

ASSUME FeedAssumption ==
    /\ MaxSamples \in Nat
    /\ MaxAttempts \in Nat \ {0}
    /\ MaxRows \in Nat

VARIABLES
    data,       \* the rows, in arrival order
    issued,     \* issued_sample_indexes
    abandoned   \* abandoned_sample_indexes

vars == <<data, issued, abandoned>>

Init == data = <<>> /\ issued = {} /\ abandoned = {}

\* The strategy hands out the next number, up to max_samples.
Issue ==
    /\ Cardinality(issued) < MaxSamples
    /\ issued' = issued \cup {Cardinality(issued) + 1}
    /\ UNCHANGED <<data, abandoned>>

\* A worker's row for an issued sample is appended to the dataset.
RowArrives(s, ok) ==
    /\ Len(data) < MaxRows
    /\ data' = Append(data, [sample |-> s, ok |-> ok])
    /\ UNCHANGED <<issued, abandoned>>

\* The orchestrator tells the strategy that the queue gave a sample up.
GiveUp(s) ==
    /\ s \notin abandoned
    /\ abandoned' = abandoned \cup {s}
    /\ UNCHANGED <<data, issued>>

Next ==
    \/ Issue
    \/ \E s \in issued : GiveUp(s) \/ \E ok \in BOOLEAN : RowArrives(s, ok)

Spec == Init /\ [][Next]_vars

-----------------------------------------------------------------------------
Prepared(rows) == PreparedSample(rows, abandoned, issued, MaxAttempts)

PrefixNow ==
    Prefix([s \in issued |-> RowsOf(data, s)], abandoned, issued, MaxAttempts)

\* Once there is a row, a rule sees the samples up to the first unresolved
\* one, every one of them once and by the row that stands for it, and nothing
\* after it.
PassIsPrefix ==
    LET pass == Prepared(data)
        seen == InOrder({s \in PrefixNow : RowsOf(data, s) # <<>>})
    IN  data # <<>> =>
        /\ pass.lost = Cardinality({s \in PrefixNow : RowsOf(data, s) = <<>>})
        /\ pass.chosen =
             [i \in DOMAIN seen |-> <<seen[i], ChosenRow(RowsOf(data, seen[i]))>>]

\* Which worker finished first does not matter: exchanging two rows of
\* different samples that arrived one after the other changes nothing.
\* (Arrival order would let short runs decide a sequential test.)
ArrivalOrderIrrelevant ==
    \A i \in 1 .. Len(data) - 1 :
        data[i].sample # data[i + 1].sample =>
            Prepared([data EXCEPT ![i] = data[i + 1], ![i + 1] = data[i]])
                = Prepared(data)
=============================================================================
