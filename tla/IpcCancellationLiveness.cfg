SPECIFICATION FairSpec
CONSTANTS
    r1 = r1
    r2 = r2
    a1 = a1
    a2 = a2
    b1 = b1
    Request = {r1}
    Cancel = {a1, a2}
    TargetOf <- OneTarget
    NoCancel = NoCancel
    Slots = 2
    MaxPending = 1
PROPERTIES EveryConnectionCloses ShutdownCompletes
CHECK_DEADLOCK FALSE
