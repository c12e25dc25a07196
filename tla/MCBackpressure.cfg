SPECIFICATION FairSpec
CONSTANTS
    Client = {1, 2, 3}
    Roles <- MCRoles
    UpRoom = 1
    DownRoom = 1
    MaxPublishes = 2
    MaxFaults = 1
INVARIANTS
    IInv
    SameOrder
PROPERTIES
    AllDelivered
CHECK_DEADLOCK FALSE
