-------------------------- MODULE MCCheckpointRestore --------------------------
(* One or two AutoCAD processes and one or two approvals for one checkpoint. *)
EXTENDS CheckpointRestore, TLC

CONSTANTS p1, p2, a1, a2

Symmetry == Permutations(Process) \cup Permutations(Approval)
=============================================================================
