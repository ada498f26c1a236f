--------------------------- MODULE MCCommitJournal ---------------------------
EXTENDS CommitJournal, TLC

CONSTANTS p1, p2, r1, r2, r3, r4, k1, k2, d1, d2

\* Two requests repeat each other, a third reuses their key for other
\* content, a fourth has a key of its own.
MCKeyOf == (r1 :> k1) @@ (r2 :> k1) @@ (r3 :> k1) @@ (r4 :> k2)
MCDigestOf == (r1 :> d1) @@ (r2 :> d1) @@ (r3 :> d2) @@ (r4 :> d1)

Symmetry == Permutations({p1, p2}) \cup Permutations({r1, r2})
=============================================================================
