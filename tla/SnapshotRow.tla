----------------------------- MODULE SnapshotRow -----------------------------
(***************************************************************************)
(* What the store promises of one (user, date) snapshot row: the jobs keep *)
(* every manual bucket and replace the others, an override remembers the   *)
(* job's value it first replaced, and only a forced delete takes a bucket  *)
(* the job has written.  Each of these happens in one step.                *)
(***************************************************************************)
EXTENDS SnapshotBuckets

VARIABLE row

JobWrites ==
    \E amounts \in [Currencies -> Amounts] :
        row' = [buckets |-> Merged(row.buckets, CronBuckets(amounts)), backed |-> TRUE]

UserAdds ==
    /\ row = NoRow
    /\ \E amounts \in Forms : row' = [buckets |-> ManualBuckets(amounts), backed |-> FALSE]

UserOverrides ==
    /\ row # NoRow
    /\ \E amounts \in Forms : row' = [row EXCEPT !.buckets = Overridden(row.buckets, amounts)]

Deletes == row # NoRow /\ row' = NoRow

Next == JobWrites \/ UserAdds \/ UserOverrides \/ Deletes

Init == row \in RowType

Spec == Init /\ [][Next]_row
==============================================================================
