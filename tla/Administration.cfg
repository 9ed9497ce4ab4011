\* Two replicas boot while accounts sign up and administrators act on them.
SPECIFICATION Spec
CONSTANTS
    c1 = c1
    c2 = c2
    v1 = v1
    v2 = v2
    i1 = i1
    i2 = i2
    i3 = i3
    ann = ann
    bob = bob
    india = india
    europe = europe
    Clients <- MCClients
    Servers <- MCServers
    Ids <- MCIds
    Names <- MCNames
    Regions <- MCRegions
    Operations <- MCOperations
SYMMETRY Renaming
CONSTRAINT Followed
INVARIANTS
    OneOwner
    OwnerStands
    WritesStayInScope
CHECK_DEADLOCK FALSE
