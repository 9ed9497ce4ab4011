--------------------------- MODULE MCLedgerReplay ---------------------------
(***************************************************************************)
(* Ledgers of up to four events over two days of two instants each.        *)
(***************************************************************************)
EXTENDS LedgerReplay

MCIds == 1..4

Txn(type, date, quantity, amount, ratio) ==
    [type |-> type, date |-> date, quantity |-> quantity, amount |-> amount,
     ratio |-> ratio, seed |-> 0, openingDate |-> Undated]

MCInputs ==
    {Txn("buy", date, 2, 6, Zero) : date \in {0, 1, 2}}
    \cup {Txn("buy", 2, 1, 7, Zero)}
    \cup {Txn("sell", date, 1, 5, Zero) : date \in {0, 2, 3}}
    \cup {Txn("sell", date, 2, 5, Zero) : date \in {0, 2}}
    \cup {[Txn("opening", 2, 1, 4, Zero) EXCEPT !.seed = -3],
          [Txn("opening", 2, 2, 4, Zero) EXCEPT !.openingDate = 1],
          Txn("opening", 0, 0, 9, Zero)}
    \cup {Txn("split", 1, 0, 0, Whole(2)), Txn("bonus", 2, 0, 0, <<1, 2>>),
          Txn("merger", 2, 0, 0, Zero), Txn("dividend", 0, 0, 3, Zero)}
==============================================================================
