-------------------------- MODULE MCCheckpointCatalog --------------------------
(* Two processes, and two checkpoints that may ask for the same file name.  *)
EXTENDS CheckpointCatalog, TLC

CONSTANTS p1, p2, c1, c2, f1, f2, d1

Symmetry == UNION {Permutations(S) : S \in {Process, Checkpoint, File}}
=============================================================================
