SPECIFICATION FairSpec
CONSTANTS
    Process = {1, 2, 3, 4}
    MaxSignals = 1
    Scenarios <- MCScenarios
INVARIANTS
    OneServer
    PrintedInOrder
PROPERTIES
    PubStored
    ListenPrintsLast
    ShowEnds
    KillEnds
    SignalEndsListen
CHECK_DEADLOCK FALSE
