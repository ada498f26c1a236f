SPECIFICATION Spec
CONSTANTS
    j1 = j1
    p1 = p1
    p2 = p2
    c1 = c1
    c2 = c2
    e1 = e1
    k1 = k1
    k2 = k2
    Job = {j1}
    Plan = {p1, p2}
    Call = {c1, c2}
    IdKey = {k1}
    Editor = {e1}
    JobOf <- MCJobOf
    h1 = h1
    h2 = h2
    Handwork = {h1}
    MaxSpecs = 2
    NoPlan = NoPlan
    NoJob = NoJob
    NoCall = NoCall
    NoScope = NoScope
    NoKey = NoKey
SYMMETRY Symmetry
INVARIANTS OnlyReviewedPlans FailureIsProven SuccessIsTrue
CHECK_DEADLOCK FALSE
