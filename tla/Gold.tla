-------------------------------- MODULE Gold --------------------------------
(***************************************************************************)
(* What the gold pages derive from the purchases and the daily prices: the *)
(* overlay of the history rows, the days that owe a price and the metrics. *)
(* A ledger maps the ids of the stored rows to purchases; a return (a row  *)
(* of negative grams and cash) may be stored, but not entered in a form.   *)
(* Days are numbers, amounts and prices are whole.                         *)
(***************************************************************************)
EXTENDS Integers, Sequences, SequencesExt

\* The members of S in the order Before puts them in.
Sorted(S, Before(_, _)) ==
    [place \in 1..Cardinality(S) |->
        CHOOSE x \in S : Cardinality({y \in S : Before(y, x)}) = place - 1]

\* Reads of the two tables, in the order of their queries.
Row(ledger, id) == [ledger[id] EXCEPT !.id = id]

\* Faulty variant: ordered by id alone.
ListTransactions_ById(ledger) ==
    Sorted({Row(ledger, id) : id \in DOMAIN ledger}, LAMBDA a, b : a.id < b.id)

ListTransactions(ledger) ==
    Sorted({Row(ledger, id) : id \in DOMAIN ledger},
           LAMBDA a, b : a.date < b.date \/ (a.date = b.date /\ a.id < b.id))

ListPrices(prices, from, to) ==
    Sorted({[date |-> day, pricePerGram |-> prices[day]] :
               day \in {d \in DOMAIN prices : from <= d /\ d <= to}},
           LAMBDA a, b : a.date < b.date)

FirstTransactionDate(ledger) == Min({ledger[id].date : id \in DOMAIN ledger})

Unpriced == 0

LatestPriceOnOrBefore(prices, day) ==
    LET earlier == {d \in DOMAIN prices : d <= day}
    IN  IF earlier = {} THEN Unpriced ELSE prices[Max(earlier)]

-----------------------------------------------------------------------------
\* goldOverlay walks rows and prices along the dates, each once.  Reached is
\* where the walk over rows from their k-th stops at a day.
Reached(rows, k, day) ==
    Min({j \in k..Len(rows) : rows[j].date > day} \cup {Len(rows) + 1})

\* Of the rows at some places.
TotalPaid(rows, places) == MapThenSumSet(LAMBDA k : rows[k].paid, places)
TotalGrams(rows, places) == MapThenSumSet(LAMBDA k : rows[k].grams, places)

NoOverlay == [day \in {} |-> 0]

Visit(txns, prices, walk, day) ==
    LET ti == Reached(txns, walk.ti, day)
        pi == Reached(prices, walk.pi, day)
        bought == walk.ti..(ti - 1)
        invested == walk.invested + TotalPaid(txns, bought)
        grams == walk.grams + TotalGrams(txns, bought)
        price == IF pi > walk.pi THEN prices[pi - 1].pricePerGram ELSE walk.price
        moved == [walk EXCEPT !.ti = ti, !.pi = pi, !.invested = invested,
                              !.grams = grams, !.price = price]
        point == [invested |-> invested, current |-> grams * price, before |-> walk.before]
    IN  IF (grams = 0 /\ invested = 0) \/ price = Unpriced
        THEN moved
        ELSE [moved EXCEPT !.before = point.current,
                           !.overlay = [d \in DOMAIN walk.overlay \cup {day} |->
                                           IF d = day THEN point ELSE walk.overlay[d]]]

\* "before" is the value that the volatility of a row is taken against.
goldOverlay(txns, prices, dates) ==
    FoldLeft(LAMBDA walk, day : Visit(txns, prices, walk, day),
             [ti |-> 1, pi |-> 1, invested |-> 0, grams |-> 0, price |-> Unpriced,
              before |-> 0, overlay |-> NoOverlay],
             dates).overlay

Dated(txns, day) == {k \in DOMAIN txns : txns[k].date <= day}

goldInvestedOn(txns, day) == TotalPaid(txns, Dated(txns, day))

\* Faulty variant: today is not asked for.
missingDates_BeforeToday(first, have, today) ==
    {day \in first..(today - 1) : \A k \in DOMAIN have : have[k].date # day}

missingDates(first, have, today) ==
    {day \in first..today : \A k \in DOMAIN have : have[k].date # day}

\* The averages and the XIRR are left out: they divide what is here.
buildMetrics(txns, latest) ==
    [invested |-> TotalPaid(txns, DOMAIN txns), grams |-> TotalGrams(txns, DOMAIN txns),
     latestPrice |-> latest, current |-> TotalGrams(txns, DOMAIN txns) * latest]
==============================================================================
