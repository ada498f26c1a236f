--------------------------- MODULE OnceOnlyCommit ---------------------------
(***************************************************************************)
(* What the bridge promises a client that names a commit by an idempotency *)
(* key: the change behind a key reaches the drawing at most once, a key    *)
(* whose outcome is in doubt is never tried again, and nobody is told that *)
(* the change was made unless it was.  This is the abstract specification  *)
(* that CommitJournal (the journal, its coordinator, several AutoCAD       *)
(* processes and their crashes) implements.                                *)
(***************************************************************************)
CONSTANT Key

VARIABLES
    status,    \* status[k]: what is known of the commit named by k
    applied,   \* the keys whose change is in the drawing
    confirmed  \* the keys some client was told are committed

vars == <<status, applied, confirmed>>

Status == {"free", "claimed", "done", "doubtful"}

TypeOK ==
    /\ status \in [Key -> Status]
    /\ applied \subseteq Key
    /\ confirmed \subseteq Key

Init ==
    /\ status = [k \in Key |-> "free"]
    /\ applied = {}
    /\ confirmed = {}

\* One attempt gets the exclusive right to make the change.
Claim(k) ==
    /\ status[k] = "free"
    /\ status' = [status EXCEPT ![k] = "claimed"]
    /\ UNCHANGED <<applied, confirmed>>

\* The change reaches the drawing: only while claimed, and only once.
Apply(k) ==
    /\ status[k] = "claimed"
    /\ k \notin applied
    /\ applied' = applied \cup {k}
    /\ UNCHANGED <<status, confirmed>>

\* The right is given back only when the change certainly was not made.
Release(k) ==
    /\ status[k] = "claimed"
    /\ k \notin applied
    /\ status' = [status EXCEPT ![k] = "free"]
    /\ UNCHANGED <<applied, confirmed>>

\* The outcome is recorded as made, and may be told to the claimant at once.
Settle(k) ==
    /\ status[k] = "claimed"
    /\ k \in applied
    /\ status' = [status EXCEPT ![k] = "done"]
    /\ confirmed' \in {confirmed, confirmed \cup {k}}
    /\ UNCHANGED applied

\* The outcome of some claims can no longer be learnt.
Doubt(K) ==
    /\ \A k \in K : status[k] = "claimed"
    /\ status' = [k \in Key |-> IF k \in K THEN "doubtful" ELSE status[k]]
    /\ UNCHANGED <<applied, confirmed>>

Confirm(k) ==
    /\ status[k] = "done"
    /\ confirmed' = confirmed \cup {k}
    /\ UNCHANGED <<status, applied>>

Next ==
    \/ \E k \in Key :
         Claim(k) \/ Apply(k) \/ Release(k) \/ Settle(k) \/ Confirm(k)
    \/ \E K \in SUBSET Key : Doubt(K)

Spec == Init /\ [][Next]_vars
=============================================================================
