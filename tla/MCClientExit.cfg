SPECIFICATION FairSpec
CONSTANTS
    t1 = t1
    t2 = t2
    Thread = {t1}
    Object = {1, 2, 3}
    MaxNotices = 1
    MaxVersion = 1
    MaxAsked = 1
    Names = {"a", "topics", "stats", "version"}
    PubNames = {}
    SubNames = {"a"}
    Values = {}
PROPERTIES
    ServerExitEndsWait
CHECK_DEADLOCK FALSE
