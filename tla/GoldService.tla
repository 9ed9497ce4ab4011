----------------------------- MODULE GoldService -----------------------------
(***************************************************************************)
(* The gold of one user: purchases and daily prices in two tables, edited  *)
(* one statement at a time, and pages that read the one table and then the *)
(* other while edits and days go by.                                       *)
(***************************************************************************)
EXTENDS Gold

CONSTANTS Ids,             \* ids of the rows, handed out in order
          Entered,         \* the grams and cash a form may enter
          InitialLedgers,  \* what the table may hold at the start
          Prices,          \* prices per gram
          LastDay          \* bound on the calendar

ASSUME IdsAreOrdered == Ids \subseteq Nat \ {0}
ASSUME FormsAreWhole == Entered \subseteq [grams : Int, paid : Int]
ASSUME PricesArePositive == Prices \subseteq Nat \ {0} /\ LastDay \in Nat

Days == 0..LastDay

ASSUME LedgersAreOfPurchases ==
    \A ledger \in InitialLedgers :
        /\ DOMAIN ledger \subseteq Ids
        /\ IsFiniteSet(DOMAIN ledger)
        /\ \A id \in DOMAIN ledger :
              ledger[id] \in [id : {0}, date : Days, grams : Int, paid : Int]

VARIABLES today,   \* the Indian calendar day
          txns,    \* the purchases table
          prices,  \* the prices table, keyed by day
          unused,  \* ids not handed out yet
          page     \* the page being built

goldVars == <<today, txns, prices, unused, page>>

NoPage == [pc |-> "idle", dates |-> <<>>, txns |-> <<>>]

GoldInit ==
    /\ today = 0
    /\ txns \in InitialLedgers
    /\ prices = [day \in {} |-> Unpriced]
    /\ unused = Ids \ DOMAIN txns
    /\ page = NoPage

\* A form may date a purchase after today.
Purchases == {[id |-> 0, date |-> day, grams |-> form.grams, paid |-> form.paid] :
                 day \in Days, form \in Entered}

validateGoldInput(input) == input.grams > 0 /\ input.paid >= 0

CreateTransaction ==
    /\ \E id \in unused, input \in Purchases :
        /\ \A j \in unused : id <= j
        /\ validateGoldInput(input)
        /\ unused' = unused \ {id}
        /\ txns' = [k \in DOMAIN txns \cup {id} |-> IF k = id THEN input ELSE txns[k]]
    /\ UNCHANGED <<today, prices, page>>

UpdateTransaction ==
    /\ \E id \in DOMAIN txns, input \in Purchases :
        /\ validateGoldInput(input)
        /\ txns' = [txns EXCEPT ![id] = input]
    /\ UNCHANGED <<today, prices, unused, page>>

DeleteTransaction ==
    /\ \E id \in DOMAIN txns : txns' = Restrict(txns, DOMAIN txns \ {id})
    /\ UNCHANGED <<today, prices, unused, page>>

\* A batch goes in as one transaction; a day that has a price gets the new one.
UpsertPrices(batch) ==
    prices' = [d \in DOMAIN prices \cup DOMAIN batch |->
                  IF d \in DOMAIN batch THEN batch[d] ELSE prices[d]]

\* None of the days in the future and none twice.
PutPrices ==
    /\ \E days \in (SUBSET (0..today)) \ {{}} : \E batch \in [days -> Prices] : UpsertPrices(batch)
    /\ UNCHANGED <<today, txns, unused, page>>

\* The account is deleted: both tables in one transaction.
DeleteAllByUser ==
    /\ txns' = [id \in {} |-> 0]
    /\ prices' = [day \in {} |-> Unpriced]
    /\ UNCHANGED <<today, unused, page>>

DayPasses ==
    /\ today < LastDay
    /\ today' = today + 1
    /\ UNCHANGED <<txns, prices, unused, page>>

-----------------------------------------------------------------------------
\* HistoryOverlay: the ledger, then the prices up to the last of the dates.
ReadLedger ==
    /\ page.pc = "idle"
    /\ DOMAIN txns # {}
    /\ \E days \in (SUBSET (0..today)) \ {{}} :
        page' = [pc |-> "prices", dates |-> Sorted(days, LAMBDA a, b : a < b),
                 txns |-> ListTransactions(txns)]
    /\ UNCHANGED <<today, txns, prices, unused>>

PricesRead == ListPrices(prices, 0, Last(page.dates))
Answer == goldOverlay(page.txns, PricesRead, page.dates)

ReadPrices ==
    /\ page.pc = "prices"
    /\ page' = NoPage
    /\ UNCHANGED <<today, txns, prices, unused>>

Edit ==
    CreateTransaction \/ UpdateTransaction \/ DeleteTransaction \/ PutPrices \/ DeleteAllByUser

GoldNext == Edit \/ DayPasses \/ ReadLedger \/ ReadPrices

\* MissingDates and Metrics of a moment between edits.
MissingDates ==
    IF DOMAIN txns = {} \/ FirstTransactionDate(txns) > today THEN {}
    ELSE LET first == FirstTransactionDate(txns)
         IN  missingDates(first, ListPrices(prices, first, today), today)

Metrics == buildMetrics(ListTransactions(txns), LatestPriceOnOrBefore(prices, today))

Overlay(days) ==
    goldOverlay(ListTransactions(txns), ListPrices(prices, 0, Max(days)),
                Sorted(days, LAMBDA a, b : a < b))

-----------------------------------------------------------------------------
\* "A pure as-of walk" (gold_history.go:11-16): whatever is edited between its
\* two reads, each row of an overlay has the cash and the grams bought by its day
\* in the ledger it read, at the nearest earlier price it read, and is compared
\* with the row of the overlay before it.  Days without position or price have none.
AsOf(rows, have, dates) ==
    LET price == [day \in Days |->
            LET earlier == {k \in DOMAIN have : have[k].date <= day}
            IN  IF earlier = {} THEN Unpriced ELSE have[Max(earlier)].pricePerGram]
        grams == [day \in Days |-> TotalGrams(rows, Dated(rows, day))]
        overlaid == {day \in dates : /\ price[day] # Unpriced
                                     /\ grams[day] # 0 \/ goldInvestedOn(rows, day) # 0}
    IN  [day \in overlaid |->
            LET earlier == {d \in overlaid : d < day}
                Value(d) == grams[d] * price[d]
            IN  [invested |-> goldInvestedOn(rows, day), current |-> Value(day),
                 before |-> IF earlier = {} THEN 0 ELSE Value(Max(earlier))]]

OverlayIsAsOf ==
    [][page.pc = "prices" /\ page'.pc = "idle" =>
          Answer = AsOf(page.txns, PricesRead, ToSet(page.dates))]_goldVars

\* The prompt for missing days is what keeps the pages whole (PRD-003 section 7).
\* When it asks for nothing, every day of a position from the first purchase on
\* is overlaid at its own price, and the metrics are the overlay of today, but
\* for purchases a form dated after today, which only the metrics count.
GaplessMeansWhole ==
    MissingDates = {} /\ DOMAIN txns # {} =>
        LET rows == ListTransactions(txns)
            first == FirstTransactionDate(txns)
            overlay == Overlay(0..today)
            later == DOMAIN rows \ Dated(rows, today)
            Grams(day) == TotalGrams(rows, Dated(rows, day))
        IN  /\ \A day \in first..today :
                 IF Grams(day) = 0 /\ goldInvestedOn(rows, day) = 0
                 THEN day \notin DOMAIN overlay
                 ELSE day \in DOMAIN overlay /\ overlay[day].current = Grams(day) * prices[day]
            /\ Metrics.invested = goldInvestedOn(rows, today) + TotalPaid(rows, later)
            /\ today \in DOMAIN overlay =>
                 Metrics.current - TotalGrams(rows, later) * Metrics.latestPrice
                    = overlay[today].current
==============================================================================
