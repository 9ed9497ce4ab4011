SPECIFICATION Spec
CONSTANTS
    i1 = i1
    i2 = i2
    i3 = i3
    r1 = r1
    r2 = r2
    Instances <- MCInstances
    Files <- MCFiles
    MaxFailures = 2
    Ids <- MCIds
    Users <- MCUsers
    Admin = "admin"
    Source <- MCSource
    InitialHeld <- MCHeld
    Runs <- MCRuns
    Commands <- MCCommands
    MaxBegins = 3
    MaxStops = 1
    MaxTrades = 1
SYMMETRY Renaming
INVARIANTS
    SchemaIsWhole
    PositionsAreExplained
PROPERTIES
    SuccessfulCommandsAreDone
CHECK_DEADLOCK FALSE
