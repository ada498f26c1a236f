SPECIFICATION Spec
CONSTANTS
    p1 = p1
    p2 = p2
    r1 = r1
    r2 = r2
    r3 = r3
    r4 = r4
    k1 = k1
    k2 = k2
    d1 = d1
    d2 = d2
    Process = {p1, p2}
    Request = {r1, r2, r3, r4}
    Key = {k1, k2}
    Digest = {d1, d2}
    KeyOf <- MCKeyOf
    DigestOf <- MCDigestOf
    NoRecord = NoRecord
SYMMETRY Symmetry
INVARIANTS AtMostOnce TruthfulAnswers EveryChangeIsJournaled
PROPERTIES LiveReservationIsKept OnceOnly
CHECK_DEADLOCK FALSE
