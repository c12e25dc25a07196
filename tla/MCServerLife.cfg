SPECIFICATION FairSpec
CONSTANTS
    c1 = c1
    c2 = c2
    c3 = c3
    v1 = v1
    v2 = v2
    Conn = {c1, c2, c3}
    Fd = {4, 5}
    ListenFd = 3
    Signals = {"SIGINT", "SIGQUIT"}
    MaxRequests = 2
    Names = {"a", "topics", "stats", "version"}
    PubNames = {}
    SubNames = {}
    Values = {v1}
INVARIANTS
    IInv
PROPERTIES
    RequestsServed
    KillStopsServer
CHECK_DEADLOCK FALSE
