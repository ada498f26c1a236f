SPECIFICATION Spec
CHECK_DEADLOCK FALSE
CONSTANTS
    p1 = p1
    p2 = p2
    a1 = a1
    a2 = a2
    NoEntry = NoEntry
    NoCall = NoCall
    Nobody = Nobody
    Process = {p1, p2}
    Approval = {a1, a2}
    Torn = TRUE
    MaxMeddling = 0
SYMMETRY Symmetry
INVARIANTS OneRestore ConsumedIsRestored BegunBeforeReplaced
PROPERTIES AnswersTrue OnlyForward
