\* Two requests at a time, one of them given up.
SPECIFICATION Spec
CONSTANTS
    c1 = c1
    c2 = c2
    s1 = s1
    s2 = s2
    Clients <- MCClients
    SessionIds <- MCSessions
    recoveryMaxFailures = 3
    Operations = {"signup", "login", "logout", "change", "recover", "hide", "admin", "delete", "gold"}
    MaxEpoch = 1
    MaxFaults = 1
SYMMETRY Renaming
INVARIANTS
    GuessesAreCapped
    SignedOutUnlessLate
    DeletedLeavesOnlyStrays
PROPERTIES
    EndedStaysEnded
CHECK_DEADLOCK FALSE
