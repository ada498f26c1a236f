---------------------------- MODULE MCJobRollback ----------------------------
(* Revisions, approvals and calls are interchangeable.                      *)
EXTENDS JobRollback, TLC

CONSTANTS a1, a2, r1, r2, r3, c1, c2

Symmetry == Permutations({a1, a2}) \cup Permutations({r1, r2, r3})
            \cup Permutations({c1, c2})
=============================================================================
