---------------------------- MODULE MCHistoryPage ----------------------------
(***************************************************************************)
(* Gold: two rows over three days; the table may start with a purchase and *)
(* its full return, stored in the order opposite to their dates.           *)
(* Rows: two users over three days, the third outside the month; the rows  *)
(* of one of them are edited beside the job.                               *)
(***************************************************************************)
EXTENDS HistoryPage, TLC

CONSTANTS c1, c2, INR, low, high

MCClients == {c1, c2}
ClientSymmetry == Permutations(MCClients)

TwoIds == {1, 2}
Lots == {[grams |-> 2, paid |-> 9], [grams |-> 1, paid |-> 0]}
NoRows == [id \in {} |-> 0]
Returned == [id \in TwoIds |->
                IF id = 1 THEN [id |-> 0, date |-> 1, grams |-> -2, paid |-> -9]
                          ELSE [id |-> 0, date |-> 0, grams |-> 2, paid |-> 9]]
Ledgers == {NoRows, Returned}

TwoUsers == {1, 2}
OneEditor == {1}
TwoDays == 0..1
MCCurrencies == {INR}
NoLegacy == {}
MCAmounts == {low, high}
JobFinds == {high}

Pays(amount) == [k \in MCCurrencies |-> amount]
High == {Pays(high)}
Of(day, amounts) == [date |-> day, amounts |-> amounts]

\* A paste of two days, of one day twice, of a day outside the month, and of a
\* day without amounts.
Pastes ==
    {<<Of(0, Pays(low)), Of(1, Pays(low))>>, <<Of(0, Pays(low)), Of(0, Pays(high))>>,
     <<Of(2, Pays(low)), Of(0, Pays(low))>>, <<Of(0, <<>>), Of(1, Pays(low))>>}

\* Nothing, a row of the job on the first day, or one that was overridden since.
EmptySnaps == [user \in TwoUsers |-> [day \in Days |-> NoRow]]
With(bucket) ==
    [EmptySnaps EXCEPT ![1][0] = [buckets |-> [k \in Keys |-> bucket], backed |-> TRUE]]
Snaps == {EmptySnaps, With(Cron(low)), With(Manual(high, low))}
=============================================================================
