SPECIFICATION Spec
CONSTANTS
    c1 = c1
    c2 = c2
    c3 = c3
    v1 = v1
    v2 = v2
    Conn = {c1, c2}
    Fd = {4, 5}
    ListenFd = 3
    Signals = {"SIGINT"}
    MaxRequests = 3
    Names = {"a", "topics", "stats", "version"}
    PubNames = {"a", "topics"}
    SubNames = {"a", "topics", "stats"}
    Values = {v1, v2}
SYMMETRY ConnSymmetry
INVARIANTS
    StreamInv
    RoundIsFresh
    KillEndsTheStream
    SubscriptionsMirror
    SubscribersUpToDate
    OnlyWhatWasAsked
    TopicListComplete
PROPERTIES
    ImplementsPubSub
CHECK_DEADLOCK FALSE
