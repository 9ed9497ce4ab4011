SPECIFICATION FairSpec
CONSTANTS
    c1 = c1
    c2 = c2
    h1 = h1
    h2 = h2
    h3 = h3
    h4 = h4
    Clients <- TwoClients
    Holdings <- Four
    Inputs <- MergeInputs
    InitialBooks <- MergeBooks
    Rows <- PastRows
    Today = 3
INVARIANTS
    PositionsCommitWithTheLedger
    HistoryCommitsWithTheLedger
    PagesAgree
PROPERTIES
    TwinsComeFromOverlap
    ImplementsMergedLedger
    EveryRequestIsAnswered
