SPECIFICATION Spec
CONSTANTS
    r1 = r1
    r2 = r2
    a1 = a1
    a2 = a2
    b1 = b1
    Request = {r1, r2}
    Cancel = {a1, a2, b1}
    TargetOf <- MCTargetOf
    NoCancel = NoCancel
    Slots = 2
    MaxPending = 1
SYMMETRY Attempts
INVARIANTS ConfirmedIsOver OnlyTheTargetIsCancelled SlotsAreConserved HostOutlivesHandlers
CHECK_DEADLOCK FALSE
