\* One client at a time, every operation, every kind of failure.
SPECIFICATION Spec
CONSTANTS
    c1 = c1
    c2 = c2
    Clients <- OneClient
    Ids <- Two
    Inputs <- SoloInputs
    InitialLedgers <- SoloLedgers
    Rows <- PastRows
    Today = 2
    OpeningDays = {1}
    Operations = {"create", "update", "delete", "newHolding", "redate", "drop"}
    Faults = {"transient", "answer", "rollback", "abort"}
    MaxFaults = 1
INVARIANTS
    ProjectionIsExact
    HistoryMatchesLedger
PROPERTIES
    RedatesMissOnlyRowsBetween
    ImplementsAtomicLedger
CHECK_DEADLOCK FALSE
