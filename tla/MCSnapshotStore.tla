--------------------------- MODULE MCSnapshotStore ---------------------------
(***************************************************************************)
(* Instances of SnapshotStore for TLC: one (user, date) row with the two   *)
(* tracked currencies and the USD bucket only older rows carry.            *)
(***************************************************************************)
EXTENDS SnapshotStore, TLC

CONSTANTS c1, c2, INR, EUR, USD, low, high

MCClients == {c1, c2}
MCCurrencies == {INR, EUR}
MCLegacy == {USD}
MCAmounts == {low, high}

\* Rows written before per-stock lines were stored, with the USD bucket of their job.
OldRows ==
    {[buckets |-> [k \in Keys |-> IF k = EUR THEN NoBucket ELSE Cron(job)], backed |-> FALSE] :
        job \in Amounts}

FreshOrOld == {NoRow} \cup OldRows
FreshOnly == {NoRow}

NoLegacy == {}
OneAmount == {low}
CronAndOverride == {"cron", "override"}

ClientSymmetry == Permutations(MCClients)
RowSymmetry == ClientSymmetry \cup Permutations(MCAmounts)
==============================================================================
