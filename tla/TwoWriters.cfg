\* Two clients at once on the same holding; any one call may fail for good.
SPECIFICATION Spec
CONSTANTS
    c1 = c1
    c2 = c2
    Clients <- TwoClients
    Ids <- Two
    Inputs <- PairInputs
    InitialLedgers <- PairLedgers
    Rows <- NoRows
    Today = 1
    OpeningDays = {1}
    Operations = {"create", "update", "delete", "drop"}
    Faults = {"transient", "answer", "rollback", "abort"}
    MaxFaults = 1
SYMMETRY ClientSymmetry
INVARIANT
    SoloSuccessIsExact
PROPERTIES
    SoloCompensationIsExact
    DamageComesFromOverlap
CHECK_DEADLOCK FALSE
