------------------------------ MODULE Valuation ------------------------------
(***************************************************************************)
(* What a portfolio is worth at given prices: the rows of the holdings     *)
(* table, the totals above it, the change since the previous close and the *)
(* daily snapshot.  A portfolio is a sequence of holdings, "price" gives   *)
(* the price of each (0 where none could be had) and eurInr is the inverse *)
(* of the INR to EUR rate, as Yahoo quotes it.                             *)
(*                                                                         *)
(* Amounts are whole, so rounding to cents changes none of them.  The EUR  *)
(* columns are the INR ones at the same rate and are left out, but for the *)
(* realized gains, of which a row sends the holding's own.                 *)
(***************************************************************************)
EXTENDS Integers, Sequences, FiniteSetsExt

NoSymbol == "none"
AllCurrencies == {"INR", "EUR"}
BucketKeys == AllCurrencies \cup {"USD"}      \* USD only in documents of old

Cost(holding) == holding.stocksOwned * holding.avgCostPrice

\* Anything but EUR counts as base.
InBase(holding, amount, eurInr) ==
    IF holding.currency = "EUR" THEN amount * eurInr ELSE amount

\* One row of the table.  A holding without a symbol has no market columns.  The
\* realized gains are sent as stored, in the currency of the holding, beside their
\* worth in EUR, which is counted here in units of 1/eurInr EUR: one such unit is
\* one INR.
HoldingWithPrice(holding, price, eurInr) ==
    LET value == holding.stocksOwned * price
    IN  [costPrice      |-> InBase(holding, Cost(holding), eurInr),
         realizedPnl    |-> holding.realizedPnL,
         realizedPnlEur |-> InBase(holding, holding.realizedPnL, eurInr),
         priced         |-> holding.symbol # NoSymbol,
         currentValue   |-> InBase(holding, value, eurInr),
         unrealizedPnl  |-> InBase(holding, value - Cost(holding), eurInr)]

-----------------------------------------------------------------------------
(* The totals. *)

TotalOf(amounts, items) == MapThenSumSet(LAMBDA i : amounts[i], items)

Active(portfolio) == {i \in DOMAIN portfolio : portfolio[i].stocksOwned > 0}

\* Faulty variant: a holding whose price failed is left out of the totals.
Valued_WithAPrice(portfolio, price) ==
    {i \in Active(portfolio) : portfolio[i].symbol # NoSymbol /\ price[i] > 0}

Valued(portfolio, price) ==
    {i \in Active(portfolio) : portfolio[i].symbol # NoSymbol}

currencyOf(currency) == IF currency = "" THEN "INR" ELSE currency

Native(holding, price) == IF price > 0 THEN holding.stocksOwned * price ELSE 0

Summary(portfolio, price, eurInr) ==
    LET all == DOMAIN portfolio
        valued == Valued(portfolio, price)
        cost == [i \in all |-> InBase(portfolio[i], Cost(portfolio[i]), eurInr)]
        realized == [i \in all |-> InBase(portfolio[i], portfolio[i].realizedPnL, eurInr)]
        native == [i \in all |-> Native(portfolio[i], price[i])]
        value == [i \in all |-> InBase(portfolio[i], native[i], eurInr)]
        gain == [i \in all |-> value[i] - cost[i]]
    IN  [totalCost |-> TotalOf(cost, all),
         totalRealized |-> TotalOf(realized, all),
         totalCurrentValue |-> TotalOf(value, valued),
         totalUnrealized |-> TotalOf(gain, valued),
         nativeCurrent |->
             [ccy \in BucketKeys |->
                 TotalOf(native, {i \in valued : currencyOf(portfolio[i].currency) = ccy})]]

\* The change since the buckets of the last snapshot.  Money that an old row
\* has under USD is the INR money of today.
prevNative(buckets, ccy) ==
    buckets[ccy] + (IF ccy = "INR" THEN buckets["USD"] ELSE 0)

PreviousClose(summary, buckets, eurInr) ==
    LET base == prevNative(buckets, "INR") + prevNative(buckets, "EUR") * eurInr
        now == summary.nativeCurrent
    IN  [previousCloseValue |-> base,
         changeValue |-> summary.totalCurrentValue - base,
         perCurrency |->
             [ccy \in {k \in AllCurrencies : now[k] # 0 \/ prevNative(buckets, k) # 0}
                  |-> now[ccy] - prevNative(buckets, ccy)]]

-----------------------------------------------------------------------------
(* The daily snapshot.  Its lines are indexed as the holdings are. *)

CurrencyOf(holding) ==
    CASE holding.currency \in AllCurrencies -> holding.currency
      [] holding.currency = ""              -> "INR"
      [] OTHER                              -> "unknown"

\* The prior row's price of the symbol: of several lines the last one counts.
PriorClose(prior, symbol) ==
    prior[Max({i \in DOMAIN prior : prior[i].symbol = symbol})].closePrice

\* Faulty variant: a carried zero is fetched again.
priceFor_Refetched(holding, price, prior) ==
    IF \E i \in DOMAIN prior : prior[i].symbol = holding.symbol /\ prior[i].closePrice > 0
    THEN PriorClose(prior, holding.symbol)
    ELSE IF price > 0 THEN price ELSE 0

priceFor(holding, price, prior) ==
    IF \E i \in DOMAIN prior : prior[i].symbol = holding.symbol
    THEN PriorClose(prior, holding.symbol)
    ELSE IF price > 0 THEN price ELSE 0

\* On a trading day nothing is carried: prior has no line.
NoLines == <<>>

Lines(portfolio, price, prior) ==
    [i \in {k \in DOMAIN portfolio : CurrencyOf(portfolio[k]) # "unknown"} |->
        LET holding == portfolio[i]
            close == priceFor(holding, price[i], prior)
        IN  [symbol |-> holding.symbol,
             currency |-> CurrencyOf(holding),
             closePrice |-> close,
             invested |-> Cost(holding),
             current |-> IF close > 0 THEN holding.stocksOwned * close ELSE 0]]

BucketsFromLines(lines) ==
    LET invested == [i \in DOMAIN lines |-> lines[i].invested]
        current == [i \in DOMAIN lines |-> lines[i].current]
        Of(ccy) == {i \in DOMAIN lines : lines[i].currency = ccy}
    IN  [ccy \in AllCurrencies |->
            [invested |-> TotalOf(invested, Of(ccy)),
             current |-> TotalOf(current, Of(ccy))]]
==============================================================================
