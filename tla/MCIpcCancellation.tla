------------------------- MODULE MCIpcCancellation -------------------------
EXTENDS IpcCancellation, TLC

CONSTANTS r1, r2, a1, a2, b1

\* The first request may be cancelled twice, the second once.
MCTargetOf == [c \in Cancel |-> IF c = b1 THEN r2 ELSE r1]

\* One request, which may be cancelled twice.
OneTarget == (a1 :> r1) @@ (a2 :> r1)

Attempts == Permutations({a1, a2})
=============================================================================
