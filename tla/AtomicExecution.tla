---------------------------- MODULE AtomicExecution ----------------------------
(***************************************************************************)
(* AtomicJobExecutor.cs and CommitOnceAsync of AutoCadBridgeHost.cs: one   *)
(* commit inside AutoCAD, under one document lock, one undo group and one  *)
(* transaction, every step of which may throw.                             *)
(*                                                                         *)
(* Only Commit changes the drawing.  When it throws, nobody knows whether  *)
(* it did.  The checkpoint is a file and a record in the catalog.          *)
(*                                                                         *)
(* Abstracted: token, plan and unit checks (one way of failing), the       *)
(* geometry of an operation, traces and diagnostics; cancellation is one   *)
(* of the exceptions a step may throw.                                     *)
(***************************************************************************)
EXTENDS Naturals

CONSTANTS Operations   \* how many operations the plan has

ASSUME OperationsNat == Operations \in Nat

VARIABLES
    at,          \* the step to come
    scope,       \* the lock, undo group and transaction, in the order taken
    disposals,   \* how often each of them was disposed
    dispatched,  \* OperationsDispatched
    started,     \* CommitStarted
    thrown,      \* an exception is on its way through the finally blocks
    stale,       \* the drawing was found at another revision
    drawing,     \* "before" or "after" the change
    record,      \* the checkpoint in the catalog
    file,        \* the checkpoint file exists
    held,        \* checkpointArtifact: the host knows of the checkpoint
    result,      \* AtomicExecutionOutcome
    answer       \* BridgeHostOutcome of CommitOnceAsync

scopes == <<scope, disposals>>
checkpoint == <<record, file, held>>
vars == <<at, scopes, dispatched, started, thrown, stale, drawing, checkpoint,
          result, answer>>

Scope == {"lock", "group", "transaction"}
BeforeCommit == {"context", "lock", "validate", "group", "transaction", "dispatch",
                 "check", "commit"}
Unwinding == {"abort", "rollback", "disposeTransaction", "disposeGroup", "disposeLock"}
Step == BeforeCommit \cup {"observe", "complete"} \cup Unwinding
          \cup {"leave", "report", "retire", "done"}

TypeOK ==
    /\ at \in Step
    /\ scope \in [Scope -> {"none", "open", "closed"}]
    /\ disposals \in [Scope -> 0..1]
    /\ dispatched \in 0..Operations
    /\ started \in BOOLEAN
    /\ thrown \in BOOLEAN
    /\ stale \in BOOLEAN
    /\ drawing \in {"before", "after"}
    /\ record \in {"none", "available", "expired", "quarantined"}
    /\ file \in BOOLEAN
    /\ held \in BOOLEAN
    /\ result \in {"none", "committed", "failed", "unknown"}
    /\ answer \in {"none", "ok", "failed", "stale", "unknown", "threw"}

Init ==
    /\ at = "context"
    /\ scope = [s \in Scope |-> "none"]
    /\ disposals = [s \in Scope |-> 0]
    /\ dispatched = 0
    /\ started = FALSE
    /\ thrown = FALSE
    /\ stale = FALSE
    /\ drawing = "before"
    /\ record = "none"
    /\ file = FALSE
    /\ held = FALSE
    /\ result = "none"
    /\ answer = "none"

-----------------------------------------------------------------------------
Taken(s) == scope[s] # "none"
Set(s, state) == scope' = [scope EXCEPT ![s] = state]

\* ExecuteAsync: the command context cannot be entered.
ContextFails ==
    /\ at = "context"
    /\ thrown' = TRUE
    /\ at' = "leave"
    /\ UNCHANGED <<scopes, dispatched, started, stale, drawing, checkpoint, result, answer>>

EnterContext ==
    /\ at = "context"
    /\ at' = "lock"
    /\ UNCHANGED <<scopes, dispatched, started, thrown, stale, drawing, checkpoint,
                   result, answer>>

\* AcquireDocumentLock, BeginUndoGroup, BeginTransaction
Take(s, next) ==
    /\ at = s
    /\ Set(s, "open")
    /\ at' = next
    /\ UNCHANGED <<disposals, dispatched, started, thrown, stale, drawing, checkpoint,
                   result, answer>>

\* Under the lock: the revision, then the checkpoint if the request wants one.
Validate ==
    /\ at = "validate"
    /\ at' = "group"
    /\ \/ record' = "available" /\ file' = TRUE /\ held' = TRUE
       \/ UNCHANGED checkpoint
    /\ UNCHANGED <<scopes, dispatched, started, thrown, stale, drawing, result, answer>>

Remaining == dispatched < Operations

Dispatch ==
    /\ at = "dispatch" /\ Remaining
    /\ dispatched' = dispatched + 1
    /\ UNCHANGED <<at, scopes, started, thrown, stale, drawing, checkpoint, result, answer>>

Check ==
    /\ at = "dispatch" /\ ~Remaining
    /\ at' = "check"
    /\ UNCHANGED <<scopes, dispatched, started, thrown, stale, drawing, checkpoint,
                   result, answer>>

\* The last moment at which the caller can cancel.
Checked ==
    /\ at = "check"
    /\ at' = "commit"
    /\ UNCHANGED <<scopes, dispatched, started, thrown, stale, drawing, checkpoint,
                   result, answer>>

\* CommitStarted is set before Commit is called, which may throw.
Commit(ok) ==
    /\ at = "commit"
    /\ started' = TRUE
    /\ \/ ok /\ drawing' = "after" /\ Set("transaction", "closed") /\ at' = "observe"
          /\ UNCHANGED result
       \/ ~ok /\ drawing' \in {"before", "after"} /\ UNCHANGED scope
          /\ at' = "disposeTransaction" /\ result' = "unknown"
    /\ UNCHANGED <<disposals, dispatched, thrown, stale, checkpoint, answer>>

\* The committed drawing is read under the same lock.
Observe ==
    /\ at = "observe"
    /\ at' = "complete"
    /\ UNCHANGED <<scopes, dispatched, started, thrown, stale, drawing, checkpoint,
                   result, answer>>

Complete ==
    /\ at = "complete"
    /\ Set("group", "closed")
    /\ result' = "committed"
    /\ at' = "disposeTransaction"
    /\ UNCHANGED <<disposals, dispatched, started, thrown, stale, drawing, checkpoint,
                   answer>>

\* After the commit: neither Abort nor Undo.
FailsAfterCommit ==
    /\ at \in {"observe", "complete"}
    /\ result' = "unknown"
    /\ at' = "disposeTransaction"
    /\ UNCHANGED <<scopes, dispatched, started, thrown, stale, drawing, checkpoint, answer>>

-----------------------------------------------------------------------------
(* Failing before the commit.                                              *)

\* What an interrupted CreateCheckpoint leaves behind: the file is deleted
\* if possible; RegisterCheckpoint may have written the record nevertheless.
Validation ==
    \/ stale' = TRUE /\ UNCHANGED checkpoint
    \/ /\ file' \in BOOLEAN /\ record' \in {"none", "available"}
       /\ UNCHANGED <<stale, held>>

Fails ==
    /\ at \in BeforeCommit \ {"context", "commit"}
    /\ at' = "abort"
    /\ IF at = "validate" THEN Validation ELSE UNCHANGED <<stale, checkpoint>>
    /\ UNCHANGED <<scopes, dispatched, started, thrown, drawing, result, answer>>

\* RollBackBeforeCommit goes on when either of its steps throws.
Abort ==
    /\ at = "abort"
    /\ IF Taken("transaction")
       THEN Set("transaction", "closed") \/ UNCHANGED scope
       ELSE UNCHANGED scope
    /\ at' = "rollback"
    /\ UNCHANGED <<disposals, dispatched, started, thrown, stale, drawing, checkpoint,
                   result, answer>>

Rollback ==
    /\ at = "rollback"
    /\ IF Taken("group")
       THEN Set("group", "closed") \/ UNCHANGED scope
       ELSE UNCHANGED scope
    /\ result' = "failed"
    /\ at' = "disposeTransaction"
    /\ UNCHANGED <<disposals, dispatched, started, thrown, stale, drawing, checkpoint,
                   answer>>

-----------------------------------------------------------------------------
(* Leaving.                                                                *)

\* Faulty variant: the first failing Dispose skips the others.
SkipOnFailure(next) == IF thrown' THEN "leave" ELSE next

\* The finally blocks are nested: a failing Dispose skips none of the others.
After(next) == next

Dispose(step, s, next) ==
    /\ at = step
    /\ IF Taken(s)
       THEN /\ disposals' = [disposals EXCEPT ![s] = @ + 1]
            /\ \/ Set(s, "closed") /\ UNCHANGED thrown
               \/ UNCHANGED scope /\ thrown' = TRUE
       ELSE UNCHANGED <<scopes, thrown>>
    /\ at' = After(next)
    /\ UNCHANGED <<dispatched, started, stale, drawing, checkpoint, result, answer>>

\* Faulty variant: what is thrown on the way out counts as a failure.
FailedWhenThrown == "failed"

ResultWhenThrown == IF started THEN "unknown" ELSE "failed"

\* The command context may throw when the callback is through.
Leave ==
    /\ at = "leave"
    /\ thrown' \in {thrown, TRUE}
    /\ result' = IF thrown' THEN ResultWhenThrown ELSE result
    /\ at' = "report"
    /\ UNCHANGED <<scopes, dispatched, started, stale, drawing, checkpoint, answer>>

\* CommitOnceAsync: only a proven failure retires the checkpoint; composing the
\* answer to a success may throw.
Report ==
    /\ at = "report"
    /\ \/ stale /\ answer' = "stale" /\ at' = "done"
       \/ ~stale /\ result = "unknown" /\ answer' = "unknown" /\ at' = "done"
       \/ ~stale /\ result = "failed" /\ answer' = "failed" /\ at' = "retire"
       \/ ~stale /\ result = "committed" /\ answer' \in {"ok", "threw"} /\ at' = "done"
    /\ UNCHANGED <<scopes, dispatched, started, thrown, stale, drawing, checkpoint, result>>

\* Faulty variant: the file goes whether or not the record did.
FileGoesAnyway == file' = FALSE

\* The file goes only when the record is retired, and may stay then.
FileGoes ==
    \/ UNCHANGED file
    \/ record' \in {"expired", "quarantined"} /\ file' = FALSE

\* RetireCheckpointAfterProvenPreCommitFailure
Retire ==
    /\ at = "retire"
    /\ at' = "done"
    /\ IF held
       THEN record' \in {record, "expired", "quarantined"} /\ FileGoes
       ELSE UNCHANGED <<record, file>>
    /\ UNCHANGED <<scopes, dispatched, started, thrown, stale, drawing, held, result, answer>>

Next ==
    \/ ContextFails \/ EnterContext
    \/ Take("lock", "validate") \/ Take("group", "transaction")
    \/ Take("transaction", "dispatch")
    \/ Validate \/ Dispatch \/ Check \/ Checked
    \/ Commit(TRUE) \/ Commit(FALSE) \/ Observe \/ Complete
    \/ FailsAfterCommit \/ Fails \/ Abort \/ Rollback
    \/ Dispose("disposeTransaction", "transaction", "disposeGroup")
    \/ Dispose("disposeGroup", "group", "disposeLock")
    \/ Dispose("disposeLock", "lock", "leave")
    \/ Leave \/ Report \/ Retire

Spec == Init /\ [][Next]_vars
-----------------------------------------------------------------------------
(* Properties.                                                             *)

(***************************************************************************)
(* The answer tells the truth about the drawing whatever threw on the way: *)
(* "failed" and "stale" mean that nothing was changed, "ok" that the       *)
(* change is there; when neither is known it is "unknown", and the         *)
(* coordinator treats an exception like that (the catch clauses of         *)
(* ExecuteAsync and ExecuteInCommandContextAsync).                         *)
(***************************************************************************)
AnswerMatchesDrawing ==
    /\ answer \in {"failed", "stale"} => drawing = "before"
    /\ answer \in {"ok", "threw"} => drawing = "after"

(***************************************************************************)
(* "Nested finally blocks guarantee every successfully acquired host scope *)
(* is disposed exactly once even when an earlier Dispose implementation    *)
(* itself fails": on leaving, what was taken was disposed once and what    *)
(* was not taken never; the lock goes last, and what is left of the commit *)
(* happens under it.                                                       *)
(***************************************************************************)
DisposedOnce ==
    /\ at \in {"leave", "report", "retire", "done"} =>
          \A s \in Scope : disposals[s] = IF Taken(s) THEN 1 ELSE 0
    /\ disposals["lock"] = 1 =>
          /\ at \in {"leave", "report", "retire", "done"}
          /\ \A s \in Scope : Taken(s) => disposals[s] = 1

(***************************************************************************)
(* Once the drawing has changed, the checkpoint that can bring it back is  *)
(* not retired, however the execution ends; and a checkpoint the catalog   *)
(* offers has its file, so the file is only deleted after the record is    *)
(* retired (RetireCheckpointAfterProvenPreCommitFailure).                  *)
(***************************************************************************)
EvidenceKept ==
    held => /\ drawing = "after" => record = "available"
            /\ record = "available" => file
=============================================================================
