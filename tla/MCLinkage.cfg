SPECIFICATION Spec
CONSTANTS
    MaxName = 128
    Beyond <- MCBeyond
    Programs <- MCPrograms
    Floats <- MCFloats
    Strings <- MCStrings
    Others <- MCOthers
    PySequences <- MCPySequences
    MaxItems = 1
    MaxPublishes = 2
    MaxInits = 2
    MaxQueue = 1
INVARIANTS
    FetchedAsPublished
    SizesAgree
PROPERTIES
    PublishesItsSequence
CHECK_DEADLOCK FALSE
