---------------------------- MODULE SnapshotBuckets ----------------------------
(***************************************************************************)
(* What a stored snapshot row carries and how a job, a form and an         *)
(* override combine with it, as operators on values.                       *)
(***************************************************************************)
EXTENDS FiniteSets

CONSTANTS Currencies, \* the tracked buckets
          Legacy,     \* buckets only rows of earlier versions carry
          Amounts     \* a bucket's invested and current value

None == "none"
Keys == Currencies \cup Legacy

Bucket ==
    [source : {"cron", "manual"}, amount : Amounts, anchor : Amounts \cup {None}]
NoBucket == [source |-> None, amount |-> None, anchor |-> None]

\* A row's buckets, and whether it stores the per-stock lines of a job.
NoRow == [buckets |-> [k \in Keys |-> NoBucket], backed |-> FALSE]
RowType ==
    {NoRow} \cup
    {row \in [buckets : [Keys -> Bucket \cup {NoBucket}], backed : BOOLEAN] :
        \E k \in Keys : row.buckets[k] # NoBucket}

Cron(amount) == [source |-> "cron", amount |-> amount, anchor |-> None]
Manual(amount, anchor) == [source |-> "manual", amount |-> amount, anchor |-> anchor]

IsManual(bucket) == bucket.source = "manual"
IsCron(bucket) == bucket.source = "cron"
HasCron(row) == \E k \in Keys : IsCron(row.buckets[k])

\* A total (partial) assignment of amounts as the buckets of a job (of a user).
CronBuckets(amounts) ==
    [k \in Keys |-> IF k \in Currencies THEN Cron(amounts[k]) ELSE NoBucket]
ManualBuckets(amounts) ==
    [k \in Keys |-> IF k \in DOMAIN amounts THEN Manual(amounts[k], None) ELSE NoBucket]

\* Manual buckets stay; every other one gives way to the incoming set.
Merged(old, new) == [k \in Keys |-> IF IsManual(old[k]) THEN old[k] ELSE new[k]]

\* The amounts of the job that an override of the bucket would replace.
OriginalCron(bucket) == IF IsCron(bucket) THEN bucket.amount ELSE bucket.anchor

Overridden(old, amounts) ==
    [k \in Keys |-> IF k \in DOMAIN amounts
                    THEN Manual(amounts[k], OriginalCron(old[k]))
                    ELSE old[k]]

\* What a user's form may carry: amounts for some of the tracked currencies.
Forms == UNION {[S -> Amounts] : S \in (SUBSET Currencies) \ {{}}}
================================================================================
