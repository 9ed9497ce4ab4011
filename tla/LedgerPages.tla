----------------------------- MODULE LedgerPages -----------------------------
(***************************************************************************)
(* The pages that are computed from the ledgers each time they are asked   *)
(* for: the ledger page (services/transactions.go), the dividends tab        *)
(* (services/dividend_view.go), the dividends shown on the rows of the     *)
(* History page (services/dividend_history.go) and the monthly investment  *)
(* delta (services/investment_delta.go).  Pure operators on a portfolio    *)
(* db: per holding a status, a document with its symbol and currency, and  *)
(* a ledger.                                                               *)
(*                                                                         *)
(* The tab and the overlay walk the dividend events in order of their      *)
(* dates; the positions and the rows they sit beside come from the replay. *)
(*                                                                         *)
(* A month has DaysPerMonth days and a year MonthsPerYear months; day 0 is *)
(* the last of month 0, which is the last of year 0.                       *)
(***************************************************************************)
EXTENDS Ledger, FiniteSets

DaysPerMonth == 2
MonthsPerYear == 2
LastDayOf(month) == month * DaysPerMonth
MonthOf(day) == (day + DaysPerMonth - 1) \div DaysPerMonth

HeldIn(db) == {h \in DOMAIN db.status : db.status[h] = "held"}

SumAll(amount(_), seq) == FoldLeft(LAMBDA sum, entry : sum + amount(entry), 0, seq)

\* The symbol of a holding that has gone is not known any more.
NoSymbol == "no symbol"
SymbolOf(db, h) == IF db.status[h] = "held" THEN db.doc[h].symbol ELSE NoSymbol

------------------------------------------------------------------------------
(***************************************************************************)
(* The ledger pages: every event of the account, newest first, beside the  *)
(* symbol of its holding if it is still there; and the events of a holding *)
(* that is.                                                                *)
(***************************************************************************)
\* By date, then by creation; across holdings ties are left open.
Older(db, a, b) ==
    LET date(x) == db.ledger[x[1]][x[2]].date
    IN  date(a) < date(b) \/ (date(a) = date(b) /\ a[2] < b[2])

ListedOf(db, hs) ==
    SortSeq(FoldSet(LAMBDA h, list : list \o [k \in DOMAIN db.ledger[h] |-> <<h, k>>], <<>>, hs),
            LAMBDA a, b : Older(db, a, b))

ListAll(db) ==
    LET list == Reverse(ListedOf(db, DOMAIN db.ledger))
    IN  [i \in DOMAIN list |-> [holding |-> list[i][1], symbol |-> SymbolOf(db, list[i][1]),
                                event |-> db.ledger[list[i][1]][list[i][2]]]]

List(db, h) ==
    LET list == ListedOf(db, {h} \cap HeldIn(db))
    IN  [i \in DOMAIN list |-> db.ledger[h][list[i][2]]]

------------------------------------------------------------------------------
(***************************************************************************)
(* Dividends.  The events of a holding that has gone are still listed.     *)
(***************************************************************************)
DividendsOf(db, h) == {k \in DOMAIN db.ledger[h] : db.ledger[h][k].type = "dividend"}

\* By date; the order within a day, in which they were entered, is left open.
ListDividends(db, currencies) ==
    LET listed == UNION {{<<h, k>> : k \in DividendsOf(db, h)} :
                            h \in {g \in DOMAIN db.ledger : db.doc[g].currency \in currencies}}
        order  == SetToSortSeq(listed, LAMBDA a, b :
                      db.ledger[a[1]][a[2]].date < db.ledger[b[1]][b[2]].date)
        row(x) == [holding |-> x[1], amount |-> db.ledger[x[1]][x[2]].amount,
                   day |-> DayOf(db.ledger[x[1]][x[2]].date), currency |-> db.doc[x[1]].currency]
    IN  [i \in DOMAIN order |-> row(order[i])]

\* The tab of a currency: each dividend with the total so far, of all and of its
\* holding, and the totals by holding and by month.
DividendView(db, currency) ==
    LET list == ListDividends(db, {currency})
        amount(row) == row.amount
        Of(h) == SelectSeq(list, LAMBDA row : row.holding = h)
        In(month) == SelectSeq(list, LAMBDA row : MonthOf(row.day) = month)
        first(i) == SubSeq(list, 1, i)
    IN  [rows |-> [i \in DOMAIN list |->
                      [total |-> SumAll(amount, first(i)),
                       ofHolding |-> SumAll(amount, SelectSeq(first(i), LAMBDA row :
                                                        row.holding = list[i].holding))]],
         total |-> SumAll(amount, list),
         byHolding |-> [h \in {list[i].holding : i \in DOMAIN list} |-> SumAll(amount, Of(h))],
         byMonth |-> [month \in {MonthOf(list[i].day) : i \in DOMAIN list} |->
                         SumAll(amount, In(month))]]

StockKey(db, row) == <<row.currency, SymbolOf(db, row.holding)>>

Added(sums, key, amount) ==
    (key :> amount + (IF key \in DOMAIN sums THEN sums[key] ELSE 0)) @@ sums
Noted(sums, key) == IF key \in DOMAIN sums THEN sums[key] ELSE 0

\* Faulty variant: a dividend shows from the day after it was received.
Due_NextDay(row, day) == row.day < day

Due(row, day) == row.day <= day

\* The rows from the oldest on, with one pointer into the list: each takes the
\* dividends that have come due since the row before it.
DividendOverlay(db, days) ==
    LET list == ListDividends(db, {db.doc[h].currency : h \in DOMAIN db.doc})
        Next(walk, day) ==
            LET stop == Min({i \in DOMAIN walk.left : ~Due(walk.left[i], day)}
                                \cup {Len(walk.left) + 1})
                due  == SubSeq(walk.left, 1, stop - 1)
                upTo == FoldLeft(LAMBDA sums, row : Added(sums, row.currency, row.amount),
                                 walk.toDate, due)
                stocks == FoldLeft(LAMBDA sums, row : Added(sums, StockKey(db, row), row.amount),
                                   walk.byStock, due)
                onDay == FoldLeft(LAMBDA sums, row :
                                      IF row.day = day THEN Added(sums, row.currency, row.amount) ELSE sums,
                                  <<>>, due)
            IN  [left |-> SubSeq(walk.left, stop, Len(walk.left)),
                 toDate |-> upTo, byStock |-> stocks,
                 out |-> (day :> [toDate |-> upTo, onDay |-> onDay, byStock |-> stocks]) @@ walk.out]
    IN  FoldLeft(Next, [left |-> list, toDate |-> <<>>, byStock |-> <<>>, out |-> <<>>],
                 SetToSortSeq(days, LAMBDA a, b : a < b)).out

\* What the History page writes beside a stock line of a row.
LineDividends(db, overlay, day, h) ==
    Noted(overlay[day].byStock, <<db.doc[h].currency, db.doc[h].symbol>>)

------------------------------------------------------------------------------
(***************************************************************************)
(* The investment delta: the cost basis at the end of each month, and its  *)
(* change from the month before.                                           *)
(***************************************************************************)
\* The last day of the year before, then of each month that has begun; the month
\* that is running ends today.
monthEnds(year, today) ==
    LET before == (year - 1) * MonthsPerYear
        begun  == {i \in 1..MonthsPerYear : LastDayOf(before + i - 1) + 1 <= today}
    IN  <<LastDayOf(before)>> \o [i \in 1..Cardinality(begun) |->
            IF LastDayOf(before + i) > today THEN today ELSE LastDayOf(before + i)]

CostBasis(position) == Times(position.stocksOwned, position.avgCostPrice)

SumOfFractions(amounts, S) ==
    FoldSet(LAMBDA h, sum : Plus(sum, amounts[h]), Zero, S)

\* Faulty variant: the events of the day itself are left out.
investedOn_DayBefore(db, currency, day) ==
    LET basis == [h \in HeldIn(db) |-> CostBasis(RecomputePosition(AsOfLedger(db.ledger[h], day - 1)))]
    IN  SumOfFractions(basis, {h \in HeldIn(db) : db.doc[h].currency = currency})

investedOn(db, currency, day) ==
    LET basis == [h \in HeldIn(db) |-> CostBasis(RecomputePosition(AsOfLedger(db.ledger[h], day)))]
    IN  SumOfFractions(basis, {h \in HeldIn(db) : db.doc[h].currency = currency})

\* Faulty variant: a column shows only if money is invested at some month end.
hasActivity_Invested(values) == \E i \in 2..Len(values) : Positive(values[i])

hasActivity(values) ==
    \E i \in 2..Len(values) : Positive(values[i]) \/ Minus(values[i], values[i - 1]) # Zero

Figures(db, currency, year, today) ==
    LET days == monthEnds(year, today)
    IN  [i \in DOMAIN days |-> investedOn(db, currency, days[i])]

\* The chart of a year: per shown column, each month's invested amount and delta.
deltaColumns(figures) ==
    [column \in {c \in DOMAIN figures : hasActivity(figures[c])} |->
        [i \in 1..Len(figures[column]) - 1 |->
            [invested |-> figures[column][i + 1],
             delta |-> Minus(figures[column][i + 1], figures[column][i])]]]

InvestmentDelta(db, currencies, year, today) ==
    deltaColumns([currency \in currencies |-> Figures(db, currency, year, today)])
==============================================================================
