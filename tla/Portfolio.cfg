\* Two pages at once while quotes expire, fail and change.
SPECIFICATION FairSpec
CONSTANTS
    r1 = r1
    r2 = r2
    tcs = tcs
    eurinr = eurinr
    Readers <- TwoReaders
    Offers <- SummaryAndPrices
    Symbols <- Tickers
    Callers <- ReaderTickers
    Pair = eurinr
    Market <- Quotes
    Portfolios <- SomePortfolios
    PreviousCloses <- SomeCloses
    fallbackInr = 91
    cacheTTL = 1
    Timeout = 1
    MaxClock = 2
INVARIANTS
    HeadlineIsItsRows
    HeadlineIsTheSnapshot
PROPERTIES
    QuotesAreFresh
    EveryPageIsAnswered
CHECK_DEADLOCK FALSE
