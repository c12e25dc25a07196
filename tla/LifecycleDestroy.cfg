SPECIFICATION FairSpec
CONSTANTS
    MaxSessions = 1
    MaxNested = 2
    MaxMessages = 1
PROPERTIES
    DestroyDoesItsJob
