SPECIFICATION Spec
CONSTANTS
    t1 = t1
    t2 = t2
    Thread = {t1, t2}
    Object = {1, 2}
    MaxNotices = 2
    MaxVersion = 2
    MaxAsked = 1
    Names = {"a", "topics", "stats", "version"}
    PubNames = {}
    SubNames = {"a"}
    Values = {}
SYMMETRY ThreadSymmetry
INVARIANTS
    IInv
    ConnectedWhileUp
PROPERTIES
    ReadsAdvance
CHECK_DEADLOCK FALSE
