SPECIFICATION StoreSpec
CONSTANTS
    c1 = c1
    c2 = c2
    INR = INR
    EUR = EUR
    USD = USD
    low = low
    high = high
    Clients <- MCClients
    Currencies <- MCCurrencies
    Legacy <- NoLegacy
    Amounts <- MCAmounts
    InitialRows <- FreshOnly
    Operations <- CronAndOverride
SYMMETRY ClientSymmetry
PROPERTY NoOverrideLost
