SPECIFICATION RollbackSpec
CHECK_DEADLOCK FALSE
CONSTANTS
    a1 = a1
    a2 = a2
    r1 = r1
    r2 = r2
    r3 = r3
    c1 = c1
    c2 = c2
    Approval = {a1, a2}
    Call = {c1, c2}
    Revision = {r1, r2, r3}
    MaxCommits = 2
    MaxCommands = 1
    Engineer = Engineer
    Wrapper = Wrapper
    NoReceipt = NoReceipt
    NoAttempt = NoAttempt
    Idle = Idle
SYMMETRY Symmetry
INVARIANTS OnlyNewest OneExecution FenceHolds SparesOthers RolledBackIsTrue
PROPERTY RolledBackOnce
