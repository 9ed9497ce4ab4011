------------------------ MODULE MCTransactionsService ------------------------
(***************************************************************************)
(* One holding with up to three events over three days; today is day 2.    *)
(* The inputs include the events whose writes are refused (sells that need *)
(* an earlier buy), whose edits move a day either way, and a dividend.     *)
(***************************************************************************)
EXTENDS TransactionsService

CONSTANTS c1, c2

Txn(type, date, quantity, amount) ==
    [type |-> type, date |-> date, quantity |-> quantity, amount |-> amount,
     ratio |-> Zero, seed |-> 0, openingDate |-> Undated]

Buy(day, n)  == Txn("buy", StartOf(day), n, 3 * n)
SellOf(day, n) == Txn("sell", StartOf(day), n, 5 * n)
OpeningOf(day, n) == Txn("opening", StartOf(day), n, 2 * n)
Dividend(day) == Txn("dividend", StartOf(day), 0, 1)
Dated(txn) == [txn EXCEPT !.openingDate = DayOf(txn.date)]

MCIds == 1..3
Two == 1..2
OneClient == {c1}
TwoClients == {c1, c2}
PastRows == {0, 1}
NoRows == {}

ClientSymmetry == Permutations(Clients)

LedgerOf(events) ==
    [i \in Ids |-> IF i \in DOMAIN events THEN events[i] ELSE NoEvent]

\* One client: the ledger starts empty or with a declared opening and a sell.
SoloInputs == {Buy(0, 2), SellOf(1, 2), OpeningOf(1, 2), OpeningOf(0, 1), Dividend(0)}
SoloLedgers == {LedgerOf(<<Dated(OpeningOf(0, 2)), SellOf(1, 2)>>)}

\* Two clients.
PairInputs == {Buy(0, 2), SellOf(0, 2)}
PairLedgers == {LedgerOf(<<Buy(0, 2)>>), LedgerOf(<<>>)}
==============================================================================
