SPECIFICATION FairSpec
CHECK_DEADLOCK FALSE
CONSTANTS
    p1 = p1
    p2 = p2
    a1 = a1
    a2 = a2
    NoEntry = NoEntry
    NoCall = NoCall
    Nobody = Nobody
    Process = {p1}
    Approval = {a1}
    Torn = FALSE
    MaxMeddling = 2
INVARIANTS NothingLost
PROPERTIES Settles
