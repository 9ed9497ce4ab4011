\* One account that stores a snapshot and is then deleted.
SPECIFICATION Spec
CONSTANTS
    c1 = c1
    c2 = c2
    s1 = s1
    s2 = s2
    Clients <- OneClient
    SessionIds <- OneSession
    recoveryMaxFailures = 3
    Operations = {"signup", "snapshots", "delete"}
    MaxEpoch = 0
    MaxFaults = 0
INVARIANTS
    DeletedLeavesNoSnapshot
CHECK_DEADLOCK FALSE
