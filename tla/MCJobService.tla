---------------------------- MODULE MCJobService ----------------------------
EXTENDS JobService, TLC

CONSTANTS j1, p1, p2, c1, c2, k1, k2, e1, h1, h2

\* The calls are for one job.
MCJobOf == [c \in Call |-> j1]

\* Plans, calls, keys and editors may be swapped.
Symmetry == UNION {Permutations(S) : S \in {Plan, Call, IdKey, Editor}}
=============================================================================
