CONSTANTS
    p1 = p1
    p2 = p2
    c1 = c1
    c2 = c2
    f1 = f1
    f2 = f2
    d1 = d1
    Process = {p1, p2}
    Checkpoint = {c1, c2}
    File = {f1, f2}
    Content = {d1}
    NoFile = NoFile
    Malformed = Malformed
    NoRecord = NoRecord
    NoWork = NoWork
SYMMETRY Symmetry
SPECIFICATION Spec
CHECK_DEADLOCK FALSE
INVARIANTS AnswersHold ArtifactsAreUnshared
PROPERTY KeepsLedger
