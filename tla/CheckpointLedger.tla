--------------------------- MODULE CheckpointLedger ---------------------------
(***************************************************************************)
(* What DurableCheckpointCatalog.cs promises its callers: one status per   *)
(* checkpoint, changed one atomic move at a time, and never again once the *)
(* checkpoint is consumed, quarantined or expired.  The ledger may become  *)
(* unusable, and then it stands still for ever.                            *)
(***************************************************************************)
CONSTANT Checkpoint

VARIABLES
    status,  \* status[c]: where the checkpoint c stands
    usable   \* the ledger can still be read and changed

ledger == <<status, usable>>

Active == {"available", "restoring"}
Final == {"consumed", "quarantined", "expired"}
Status == {"absent"} \cup Active \cup Final

Init ==
    /\ status = [c \in Checkpoint |-> "absent"]
    /\ usable = TRUE

\* The moves of one checkpoint that a caller may ask for.
Moves == {<<"absent", "available">>,
          <<"available", "restoring">>, <<"restoring", "available">>,
          <<"restoring", "consumed">>, <<"available", "expired">>,
          <<"available", "quarantined">>, <<"restoring", "quarantined">>}

Move(c, from, to) ==
    /\ status[c] = from
    /\ <<from, to>> \in Moves
    /\ status' = [status EXCEPT ![c] = to]

\* Checkpoints whose artifacts were lost or altered leave use together.
Withdraw(Q) ==
    /\ \A c \in Q : status[c] \in Active
    /\ status' = [c \in Checkpoint |-> IF c \in Q THEN "quarantined" ELSE status[c]]

Next ==
    /\ usable
    /\ usable' \in BOOLEAN
    /\ \/ \E c \in Checkpoint, m \in Moves : Move(c, m[1], m[2])
       \/ \E Q \in SUBSET Checkpoint : Withdraw(Q)

Spec == Init /\ [][Next]_ledger
=============================================================================
