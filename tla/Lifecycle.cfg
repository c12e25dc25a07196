SPECIFICATION FairSpec
CONSTANTS
    MaxSessions = 2
    MaxNested = 3
    MaxMessages = 2
INVARIANTS
    IInv
    SessionApart
PROPERTIES
    InitWaitsForThread
    InitEnds
    EndReported
