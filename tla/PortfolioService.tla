--------------------------- MODULE PortfolioService ---------------------------
(***************************************************************************)
(* The /summary and /prices pages of one user: the exchange rate first,    *)
(* then the prices of all holdings at once to warm the cache, then the     *)
(* holdings one after the other, each asking the cache again.  Every step  *)
(* of a page may overlap those of another page and the passing of time.    *)
(***************************************************************************)
EXTENDS PriceCache, Valuation

CONSTANTS Readers,        \* pages being built at once
          Offers,         \* which of the two pages each may build
          Pair,           \* the ticker of the INR to EUR rate
          Market,         \* the quote of each ticker at each instant
          Portfolios,     \* the portfolios the user may have
          PreviousCloses, \* the buckets of the last snapshot
          fallbackInr     \* INR per EUR when no rate can be had

ASSUME OneGoroutinePerTicker == Callers = Readers \X Symbols
ASSUME PairIsATicker == Pair \in Symbols
ASSUME QuotesAreWhole == Market \in [Symbols -> [0..MaxClock -> Nat]]
ASSUME PortfoliosAreHoldings ==
    Portfolios \subseteq Seq([symbol : Symbols \cup {NoSymbol}, currency : BucketKeys \cup {""},
                             stocksOwned : Nat, avgCostPrice : Nat, realizedPnL : Int])
ASSUME ClosesAreBuckets == PreviousCloses \subseteq [BucketKeys -> Int]
ASSUME FallbackIsARate == fallbackInr \in Nat \ {0}

VARIABLES portfolio, previous,
          view        \* the page each reader builds

portfolioVars == <<now, cache, call, portfolio, previous, view>>

NoView ==
    [op |-> "none",
     pc |-> "idle",     \* then "rate", "warm", "price" and "done"
     asked |-> FALSE,   \* GetPrice has been called for what pc stands at
     inr |-> 0,         \* INR per EUR
     left |-> {},       \* tickers not prefetched yet
     price |-> <<>>]    \* of the holdings gone through so far

PortfolioInit ==
    /\ CacheInit
    /\ portfolio \in Portfolios
    /\ previous \in PreviousCloses
    /\ view = [r \in Readers |-> NoView]

ViewAt(r, pc) == view[r].pc = pc
Move(r, fields) == view' = [view EXCEPT ![r] = fields]

\* Calls of a page: GetPrice in the page's own goroutine, and its end.
Ask(r, s) ==
    /\ ~view[r].asked
    /\ GetPrice(<<r, s>>, s)
    /\ Move(r, [view[r] EXCEPT !.asked = TRUE])

Told(r, s) == view[r].asked /\ ~Fetching(<<r, s>>)

\* The price of an answered call; zero stands for an error.
PriceOf(c) ==
    IF call[c].pc = "served" THEN Market[call[c].symbol][call[c].quotedAt] ELSE 0

Load(r, op) ==
    /\ ViewAt(r, "idle")
    /\ op \in Offers[r]
    /\ Move(r, [NoView EXCEPT !.op = op, !.pc = "rate"])
    /\ UNCHANGED <<cacheVars, portfolio, previous>>

AskRate(r) ==
    /\ ViewAt(r, "rate")
    /\ Ask(r, Pair)
    /\ UNCHANGED <<portfolio, previous>>

\* Summary prefetches the holdings it will price, Prices those with a ticker.
Prefetched(op) ==
    {portfolio[i].symbol : i \in IF op = "summary" THEN Active(portfolio)
                                                   ELSE DOMAIN portfolio} \ {NoSymbol}

\* GetForexRate refuses a zero quote; Summary falls back, Prices fails.
RateKnown(r) ==
    LET inr == PriceOf(<<r, Pair>>) IN
    /\ ViewAt(r, "rate")
    /\ Told(r, Pair)
    /\ inr # 0 \/ view[r].op = "summary"
    /\ Move(r, [view[r] EXCEPT !.pc = "warm", !.asked = FALSE,
                               !.inr = IF inr # 0 THEN inr ELSE fallbackInr,
                               !.left = Prefetched(view[r].op)])
    /\ Return({<<r, Pair>>})
    /\ UNCHANGED <<portfolio, previous>>

RateMissing(r) ==
    /\ ViewAt(r, "rate")
    /\ Told(r, Pair)
    /\ PriceOf(<<r, Pair>>) = 0 /\ view[r].op = "prices"
    /\ Return({<<r, Pair>>})
    /\ Move(r, NoView)
    /\ UNCHANGED <<portfolio, previous>>

\* prefetchPrices: one goroutine for each ticker; what they get is not looked at,
\* and all of them have ended when the loop begins.
Prefetch(r, s) ==
    /\ ViewAt(r, "warm")
    /\ s \in view[r].left
    /\ GetPrice(<<r, s>>, s)
    /\ Move(r, [view[r] EXCEPT !.left = @ \ {s}])
    /\ UNCHANGED <<portfolio, previous>>

\* Faulty variant: a goroutine whose fetch failed never reports.
Warmed_AllServed(r) ==
    /\ ViewAt(r, "warm")
    /\ view[r].left = {}
    /\ \A s \in Prefetched(view[r].op) : call[<<r, s>>].pc = "served"
    /\ Move(r, [view[r] EXCEPT !.pc = "price"])
    /\ Return({r} \X Symbols)
    /\ UNCHANGED <<portfolio, previous>>

Warmed(r) ==
    /\ ViewAt(r, "warm")
    /\ view[r].left = {}
    /\ Move(r, [view[r] EXCEPT !.pc = "price"])
    /\ Return({r} \X Symbols)
    /\ UNCHANGED <<portfolio, previous>>

\* The loop over the holdings.
Current(r) == Len(view[r].price) + 1
Remaining(r) == ViewAt(r, "price") /\ Current(r) \in DOMAIN portfolio

IsPriced(op, holding) ==
    holding.symbol # NoSymbol /\ (op = "summary" => holding.stocksOwned > 0)

SkipHolding(r) ==
    /\ Remaining(r)
    /\ ~IsPriced(view[r].op, portfolio[Current(r)])
    /\ Move(r, [view[r] EXCEPT !.price = Append(@, 0)])
    /\ UNCHANGED <<cacheVars, portfolio, previous>>

AskHolding(r) ==
    /\ Remaining(r)
    /\ LET holding == portfolio[Current(r)]
       IN  IsPriced(view[r].op, holding) /\ Ask(r, holding.symbol)
    /\ UNCHANGED <<portfolio, previous>>

PriceHolding(r) ==
    /\ Remaining(r)
    /\ LET holding == portfolio[Current(r)]
           symbol == holding.symbol
       IN  /\ IsPriced(view[r].op, holding)
           /\ Told(r, symbol)
           /\ Return({<<r, symbol>>})
           /\ Move(r, [view[r] EXCEPT !.asked = FALSE,
                                      !.price = Append(@, PriceOf(<<r, symbol>>))])
    /\ UNCHANGED <<portfolio, previous>>

Compute(r) ==
    /\ ViewAt(r, "price")
    /\ Current(r) \notin DOMAIN portfolio
    /\ Move(r, [view[r] EXCEPT !.pc = "done"])
    /\ UNCHANGED <<cacheVars, portfolio, previous>>

Respond(r) ==
    /\ ViewAt(r, "done")
    /\ Move(r, NoView)
    /\ UNCHANGED <<cacheVars, portfolio, previous>>

-------------------------------------------------------------------------------
PageStep(r) ==
    \/ AskRate(r) \/ RateKnown(r) \/ RateMissing(r)
    \/ (\E s \in Symbols : Prefetch(r, s)) \/ Warmed(r)
    \/ SkipHolding(r) \/ AskHolding(r) \/ PriceHolding(r) \/ Compute(r) \/ Respond(r)

FetchStep(c) == Fetch(c) /\ UNCHANGED <<portfolio, previous, view>>

Serve(r) == PageStep(r) \/ \E s \in Symbols : FetchStep(<<r, s>>)

Pass == Tick /\ UNCHANGED <<portfolio, previous, view>>

PortfolioNext ==
    \/ Pass
    \/ \E r \in Readers : Serve(r) \/ \E op \in {"summary", "prices"} : Load(r, op)

PortfolioSpec == PortfolioInit /\ [][PortfolioNext]_portfolioVars

\* The server runs the goroutines of a page, and the client's timeout ends every
\* fetch.
Fairness == \A r \in Readers : WF_portfolioVars(Serve(r))

FairSpec == PortfolioSpec /\ Fairness

-------------------------------------------------------------------------------
\* "Errors are ignored here" (portfolio.go:55), "per-symbol price failures are
\* surfaced inline" (portfolio.go:82), the rate has a fallback or fails the call:
\* whatever fails or expires while a page is built, the page is answered.
EveryPageIsAnswered == \A r \in Readers : ~ViewAt(r, "idle") ~> ViewAt(r, "idle")

\* The two pages are built by different code from different quotes.  At the
\* quotes of either, the totals of the summary are the sums of the table's rows:
\* "the numbers match the cron snapshot and summary totals" (mapper.go:148-151).
\* That "all monetary values are normalised to INR" (mapper.go:102) is not so of
\* the realized gains, which a row sends in its own currency (mapper.go:134): it is
\* their EUR column that adds up to the total, and of the other column what the
\* rows in EUR show has to be converted first.
HeadlineIsItsRows ==
    \A r \in Readers : ViewAt(r, "done") =>
        LET price == view[r].price
            rows == [i \in DOMAIN portfolio |->
                        HoldingWithPrice(portfolio[i], price[i], view[r].inr)]
            priced == {i \in DOMAIN rows : rows[i].priced}
            totals == Summary(portfolio, price, view[r].inr)
        IN  /\ totals.totalCost = TotalOf([i \in DOMAIN rows |-> rows[i].costPrice], DOMAIN rows)
            /\ totals.totalRealized
                 = TotalOf([i \in DOMAIN rows |-> rows[i].realizedPnlEur], DOMAIN rows)
            /\ totals.totalRealized
                 = TotalOf([i \in DOMAIN rows |->
                              InBase(portfolio[i], rows[i].realizedPnl, view[r].inr)], DOMAIN rows)
            /\ totals.totalCurrentValue
                 = TotalOf([i \in DOMAIN rows |-> rows[i].currentValue], priced)
            /\ totals.totalUnrealized
                 = TotalOf([i \in DOMAIN rows |-> rows[i].unrealizedPnl], priced)

\* "Keeps the dashboard in lock-step with the cron snapshot" (portfolio.go:160):
\* the snapshot taken at the summary's quotes has its values, the change since
\* the previous close is the sum of the strip's changes, and the weekend's
\* snapshot, whatever the market quotes then, is Friday's.  Only a holding in a
\* currency of old documents counts in the headline and in no bucket.
HeadlineIsTheSnapshot ==
    \A r \in Readers : ViewAt(r, "done") /\ view[r].op = "summary" =>
        LET price == view[r].price
            inr == view[r].inr
            totals == Summary(portfolio, price, inr)
            lines == Lines(portfolio, price, NoLines)
            buckets == BucketsFromLines(lines)
            uncounted == totals.nativeCurrent["USD"]
            change == PreviousClose(totals, previous, inr)
            Changed(ccy) == LET strip == change.perCurrency
                            IN  IF ccy \notin DOMAIN strip THEN 0
                                ELSE IF ccy = "EUR" THEN strip[ccy] * inr ELSE strip[ccy]
            steady == \A i, j \in DOMAIN lines :
                          lines[i].symbol = lines[j].symbol =>
                              lines[i].closePrice = lines[j].closePrice
            weekend == [i \in DOMAIN portfolio |-> IF price[i] = 0 THEN 1 ELSE 0]
        IN  /\ \A ccy \in AllCurrencies : totals.nativeCurrent[ccy] = buckets[ccy].current
            /\ totals.totalCurrentValue
                 = buckets["INR"].current + buckets["EUR"].current * inr + uncounted
            /\ change.changeValue = Changed("INR") + Changed("EUR") + uncounted
            /\ steady => BucketsFromLines(Lines(portfolio, weekend, lines)) = buckets
===============================================================================
