------------------------------ MODULE MCImports ------------------------------
(***************************************************************************)
(* Two clients, four days of which the last is today, and four holdings:   *)
(* h1 starts from an opening and a buy, h2 is empty, h3 and h4 are still   *)
(* to come.  The sheets repeat a saved row, sell what only an earlier one   *)
(* can have bought, create a holding, give an alias of h1 to h2, and reach *)
(* into the opening's days.                                                *)
(***************************************************************************)
EXTENDS Imports

CONSTANTS c1, c2, h1, h2, h3, h4

Txn(type, day, quantity, amount) ==
    [type |-> type, date |-> StartOf(day), quantity |-> quantity, amount |-> amount,
     ratio |-> Zero, seed |-> 0, openingDate |-> Undated]
Buy(day) == Txn("buy", day, 2, 6)
OneMore(day) == Txn("buy", day, 1, 3)
SellOf(day, quantity) == Txn("sell", day, quantity, 9)
DividendOn(day) == Txn("dividend", day, 0, 1)
OpeningOn(day) == [Txn("opening", day, 1, 2) EXCEPT !.openingDate = day]

Row(name, txn) == [name |-> name, label |-> name, txn |-> txn]

Sheet(kind, rows, mappings, create) ==
    [kind |-> kind, currency |-> "INR", rows |-> rows, mappings |-> mappings, create |-> create]

NoAnswers == <<>>
Doc(symbol) == [symbol |-> symbol, script |-> symbol, currency |-> "INR", aliases |-> {}]

Portfolio(events) ==
    [status |-> [h \in {h3, h4} |-> "unborn"] @@ [h \in Holdings |-> "held"],
     doc    |-> (h1 :> [Doc("A") EXCEPT !.aliases = {"X"}]) @@ [h \in Holdings |-> Doc("B")],
     ledger |-> (h1 :> events) @@ [h \in Holdings |-> <<>>]]

TwoClients == {c1, c2}
Four == {h1, h2, h3, h4}

MergeInputs ==
    {Sheet("trades", <<Row("A", Buy(0)), Row("A", Buy(1)), Row("A", Buy(1)), Row("A", OneMore(1))>>, NoAnswers, {}),
     Sheet("trades", <<Row("A", SellOf(2, 6)), Row("C", Buy(3)), Row("C", SellOf(3, 2))>>, NoAnswers, {"C"}),
     Sheet("dividends", <<Row("X", DividendOn(1)), Row("A", DividendOn(1))>>, "X" :> h2, {}),
     [kind |-> "clear", currency |-> "INR"],
     [kind |-> "drop", holding |-> h1]}

MergeBooks == {Portfolio(<<OpeningOn(0), Buy(1)>>)}

PastRows == {0, 1, 2}
==============================================================================
