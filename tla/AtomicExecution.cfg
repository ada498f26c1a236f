\* One commit of three operations; every step may throw.
SPECIFICATION Spec
CONSTANTS
    Operations = 3
INVARIANTS
    AnswerMatchesDrawing
    DisposedOnce
    EvidenceKept
\* A commit ends: the last state has no successor.
CHECK_DEADLOCK FALSE
