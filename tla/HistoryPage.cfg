\* Edits of the gold beside one page of two reads; or the rows beside the job.
SPECIFICATION Spec
CONSTANTS
    c1 = c1
    c2 = c2
    INR = INR
    low = low
    high = high
    Ids <- TwoIds
    Entered <- Lots
    InitialLedgers <- Ledgers
    Prices = {5, 7}
    LastDay = 2
    Clients <- MCClients
    Users <- TwoUsers
    Editors <- OneEditor
    Month <- TwoDays
    Pasted <- Pastes
    Currencies <- MCCurrencies
    Legacy <- NoLegacy
    Amounts <- MCAmounts
    FormAmounts <- High
    JobAmounts <- JobFinds
    InitialSnaps <- Snaps
    MaxRequests = 2
SYMMETRY ClientSymmetry
INVARIANTS
    ReportsAreTrue
    RowsAreNeverAhead
    PagingIsInvisible
    GaplessMeansWhole
PROPERTY
    OverlayIsAsOf
CHECK_DEADLOCK FALSE
