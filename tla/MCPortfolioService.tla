-------------------------- MODULE MCPortfolioService --------------------------
(***************************************************************************)
(* Two pages at once over a market of one ticker and the rate, whose       *)
(* quotes all change with time; the ticker once quotes zero.               *)
(***************************************************************************)
EXTENDS PortfolioService

CONSTANTS r1, r2, tcs, eurinr

TwoReaders == {r1, r2}
Tickers == {tcs, eurinr}
SummaryAndPrices == [r \in TwoReaders |-> IF r = r1 THEN {"summary"} ELSE {"prices"}]
ReaderTickers == TwoReaders \X Tickers

Quotes ==
    [s \in Tickers |-> [t \in 0..MaxClock |->
        CASE s = tcs    -> IF t = 1 THEN 0 ELSE 10 + t
          [] s = eurinr -> 90 + t]]

Holding(symbol, currency, owned, cost, realized) ==
    [symbol |-> symbol, currency |-> currency, stocksOwned |-> owned,
     avgCostPrice |-> cost, realizedPnL |-> realized]

\* A ticker held in both currencies, a holding without one; one with the blank
\* currency, one sold out and one in the currency of old documents.
SomePortfolios ==
    {<<Holding(tcs, "INR", 3, 7, 2), Holding(tcs, "EUR", 2, 15, 1), Holding(NoSymbol, "EUR", 4, 3, 0)>>,
     <<Holding(tcs, "", 1, 12, 0), Holding(tcs, "INR", 0, 0, 5), Holding(tcs, "USD", 1, 9, 0)>>}

SomeCloses == {[INR |-> 30, EUR |-> 41, USD |-> 8]}
===============================================================================
