SPECIFICATION FairSpec
CONSTANTS
    SizeLen = 4
    Sizes = {1, 3}
    KillSize = 1
    Tries = 2
    Faults = FALSE
    Garbage = {}
    MaxSignals = 0
    MaxMessages = 3
INVARIANTS
    InStep
PROPERTIES
    ImplementsFifo
CHECK_DEADLOCK FALSE
