-------------------------- MODULE StatisticalSample --------------------------
(***************************************************************************)
(* evaluation/statistical_sample.py: which rows of a dataset a statistical *)
(* rule gets to see.  Rules assume the samples come in the order they were *)
(* drawn, while the rows arrive in the order workers finish, some samples  *)
(* more than once and some never.  The function takes one row per sample,  *)
(* in sample order, and stops at the first sample that is not resolved.    *)
(*                                                                         *)
(* A row is reduced to its sample number and whether it is a success.      *)
(* Issued numbers are always given, as every sampling strategy does.       *)
(***************************************************************************)
EXTENDS Integers, Sequences, FiniteSets

\* The positions, in a sequence of rows, of the successes.
Successes(rows) == {i \in DOMAIN rows : rows[i]}

\* A sample with these rows has nothing left to wait for.
ResolvedByAnyRow(rows, givenUp, maxAttempts) == rows # <<>> \/ givenUp

Resolved(rows, givenUp, maxAttempts) ==
    \/ Successes(rows) # {}
    \/ Len(rows) >= maxAttempts
    \/ givenUp

\* Which of the rows of a resolved sample stands for it: the first success, or
\* else the last failure, or none (0) when the sample was lost.
LastSuccess(rows) ==
    IF Successes(rows) = {} THEN Len(rows)
    ELSE CHOOSE i \in Successes(rows) : \A j \in Successes(rows) : j <= i

ChosenRow(rows) ==
    IF Successes(rows) = {} THEN Len(rows)
    ELSE CHOOSE i \in Successes(rows) : \A j \in Successes(rows) : i <= j

\* The samples there is any trace of.
Known(rows, abandoned, issued) ==
    {s \in DOMAIN rows : rows[s] # <<>>} \cup abandoned \cup issued

\* The samples a rule sees: those with no unresolved sample up to them.
\* rows maps every sample to its rows, in the order they arrived.
Prefix(rows, abandoned, issued, maxAttempts) ==
    LET known == Known(rows, abandoned, issued)
    IN  {s \in known :
            \A t \in known :
                t <= s => Resolved(rows[t], t \in abandoned, maxAttempts)}

-----------------------------------------------------------------------------
(* The same as the code does it: one pass over the numbers in order.       *)

\* The members of a set of numbers in increasing order.
InOrder(S) ==
    [i \in 1 .. Cardinality(S) |->
        CHOOSE s \in S : Cardinality({t \in S : t < s}) = i - 1]

\* The rows of one sample, out of a dataset in arrival order.
RowsOf(data, s) ==
    LET own == InOrder({i \in DOMAIN data : data[i].sample = s})
    IN  [j \in DOMAIN own |-> data[own[j]].ok]

\* One turn of the loop: chosen holds <<sample, row>> pairs, lost counts the
\* samples without a row, and cut says that the loop has ended.
Turn(pass, s, rows, givenUp, maxAttempts) ==
    IF pass.cut THEN pass
    ELSE IF Successes(rows) # {}
           THEN [pass EXCEPT !.chosen = Append(@, <<s, ChosenRow(rows)>>)]
    ELSE IF rows # <<>> /\ (Len(rows) >= maxAttempts \/ givenUp)
           THEN [pass EXCEPT !.chosen = Append(@, <<s, Len(rows)>>)]
    ELSE IF rows = <<>> /\ givenUp
           THEN [pass EXCEPT !.lost = @ + 1]
    ELSE [pass EXCEPT !.cut = TRUE]

NothingYet == [chosen |-> <<>>, lost |-> 0, cut |-> FALSE]

\* All the numbers of interest.
Numbers(data, abandoned, issued) ==
    {data[i].sample : i \in DOMAIN data} \cup abandoned \cup issued

\* The pass over them in a given order, after each of its turns.
Turns(rows, order, abandoned, maxAttempts) ==
    LET after[n \in 0 .. Len(order)] ==
          IF n = 0 THEN NothingYet
          ELSE Turn(after[n - 1], order[n], rows[order[n]],
                    order[n] \in abandoned, maxAttempts)
    IN  after

Pass(data, order, abandoned, maxAttempts) ==
    LET rows == [s \in {order[n] : n \in DOMAIN order} |-> RowsOf(data, s)]
    IN  Turns(rows, order, abandoned, maxAttempts)[Len(order)]

\* The numbers are taken in the order their rows arrived.
PreparedInArrivalOrder(data, abandoned, issued, maxAttempts) ==
    LET first == InOrder({i \in DOMAIN data :
                             \A j \in 1 .. i - 1 : data[j].sample # data[i].sample})
    IN  Pass(data, [n \in DOMAIN first |-> data[first[n]].sample],
             abandoned, maxAttempts)

\* The pass does not end at an unresolved sample but leaves it out.
PreparedWithHoles(data, abandoned, issued, maxAttempts) ==
    Pass(data,
         InOrder({s \in Numbers(data, abandoned, issued) :
                     Resolved(RowsOf(data, s), s \in abandoned, maxAttempts)}),
         abandoned, maxAttempts)

\* Without a single row the data is passed on as it is: no sample counts as
\* lost then.
PreparedSample(data, abandoned, issued, maxAttempts) ==
    IF data = <<>> THEN NothingYet
    ELSE Pass(data, InOrder(Numbers(data, abandoned, issued)),
              abandoned, maxAttempts)
=============================================================================
