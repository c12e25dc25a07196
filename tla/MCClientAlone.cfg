SPECIFICATION FairSpec
CONSTANTS
    t1 = t1
    t2 = t2
    Thread = {t1}
    Object = {1, 2}
    MaxNotices = 2
    MaxVersion = 2
    MaxAsked = 1
    Names = {"a", "b", "topics", "stats", "version"}
    PubNames = {}
    SubNames = {"a", "b"}
    Values = {}
PROPERTIES
    NotifyWakesWaiters
    NoticeEndsWait
    KillEndsWait
CHECK_DEADLOCK FALSE
