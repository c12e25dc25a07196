SPECIFICATION FairSpec
CONSTANTS
    SizeLen = 2
    Sizes = {1, 2}
    KillSize = 1
    Tries = 2
    Faults = TRUE
    Garbage = {0, 3}
    MaxSignals = 1
    MaxMessages = 1
INVARIANTS
    TypeOK
PROPERTIES
    EndSeen
    SendEnds
CHECK_DEADLOCK FALSE
