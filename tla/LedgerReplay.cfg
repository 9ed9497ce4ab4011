\* Every ledger of up to four events.
SPECIFICATION RecordSpec
CONSTANTS
    RecordIds <- MCIds
    Recordable <- MCInputs
INVARIANTS
    OversellIsDayEndShortfall
    CostIsConserved
    WaitingOnlyHelps
    RedatingAnOpeningIsNeutral
    AsOfNeverOversells
CHECK_DEADLOCK FALSE
