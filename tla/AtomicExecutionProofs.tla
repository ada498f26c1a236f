------------------------- MODULE AtomicExecutionProofs -------------------------
(***************************************************************************)
(* Proofs about AtomicExecution, for any number of operations.             *)
(***************************************************************************)
EXTENDS AtomicExecution, TLAPS

\* The steps that come after a scope was disposed.
Out == {"leave", "report", "retire", "done"}
Past(s) == \/ at \in Out
           \/ s \in {"transaction", "group"} /\ at = "disposeLock"
           \/ s = "transaction" /\ at = "disposeGroup"

\* Where the execution stands decides what has happened to the drawing.
Progress ==
    /\ ~started => drawing = "before"
    /\ at \in BeforeCommit => ~started /\ ~stale
    /\ at \in {"observe", "complete"} => started /\ drawing = "after" /\ ~stale
    /\ at \in {"abort", "rollback"} => ~started
    /\ stale => ~started

\* The result agrees with the point at which the execution was left.
Verdict ==
    /\ result = "committed" => started /\ drawing = "after"
    /\ result = "failed" => ~started
    /\ at \in BeforeCommit => result = "none"
    /\ at \in {"disposeTransaction", "disposeGroup", "disposeLock", "report", "retire",
              "done"} => result # "none"
    /\ at = "leave" => thrown \/ result # "none"
    /\ answer # "none" => at \in {"retire", "done"}
    /\ at = "retire" => answer = "failed"
    /\ answer = "failed" => result = "failed"
    /\ answer = "stale" => stale
    /\ answer \in {"ok", "threw"} => result = "committed"

Disposed ==
    /\ at = "context" => \A s \in Scope : ~Taken(s)
    /\ \A s \in Scope : disposals[s] = IF Past(s) /\ Taken(s) THEN 1 ELSE 0

Evidence ==
    /\ at \in {"context", "lock", "validate"} => ~held
    /\ held => \/ record = "available" /\ file
               \/ answer = "failed" /\ (record = "available" => file)

IInv == TypeOK /\ Progress /\ Verdict /\ Disposed /\ Evidence

-----------------------------------------------------------------------------
LEMMA InitEstablishes == Init => IInv
<1> SUFFICES ASSUME Init PROVE IInv
  OBVIOUS
<1> USE DEF Init
<1>1. TypeOK
  <2>1. /\ at \in Step /\ scope \in [Scope -> {"none", "open", "closed"}]
        /\ disposals \in [Scope -> 0..1] /\ dispatched \in 0..Operations
    BY OperationsNat DEF Step, BeforeCommit, Unwinding
  <2>2. /\ started \in BOOLEAN /\ thrown \in BOOLEAN /\ stale \in BOOLEAN
        /\ file \in BOOLEAN /\ held \in BOOLEAN
    OBVIOUS
  <2>3. /\ drawing \in {"before", "after"}
        /\ record \in {"none", "available", "expired", "quarantined"}
        /\ result \in {"none", "committed", "failed", "unknown"}
        /\ answer \in {"none", "ok", "failed", "stale", "unknown", "threw"}
    OBVIOUS
  <2> QED BY <2>1, <2>2, <2>3 DEF TypeOK
<1>2. Progress /\ Verdict /\ Evidence
  BY DEF Progress, Verdict, Evidence, BeforeCommit
<1>3. Disposed
  BY DEF Disposed, Past, Out, Taken, Scope
<1> QED BY <1>1, <1>2, <1>3 DEF IInv

LEMMA TakePreserves ==
    ASSUME IInv, NEW s \in Scope, NEW next \in {"validate", "transaction", "dispatch"},
           s \in BeforeCommit, Take(s, next),
           s = "lock" => next = "validate", s = "group" => next = "transaction",
           s = "transaction" => next = "dispatch"
    PROVE  IInv'
<1> USE DEF IInv, Take, Set, checkpoint
<1>1. TypeOK'
  BY DEF TypeOK, Scope, Step, BeforeCommit, Unwinding
<1>2. Progress' /\ Verdict' /\ Evidence'
  BY DEF Progress, Verdict, Evidence, Scope, BeforeCommit
<1>3. Disposed'
  BY DEF Disposed, TypeOK, Scope, Past, Out, Taken
<1> QED BY <1>1, <1>2, <1>3

LEMMA DisposePreserves ==
    ASSUME IInv, NEW step, NEW s, NEW next,
           <<step, s, next>> \in {<<"disposeTransaction", "transaction", "disposeGroup">>,
                                  <<"disposeGroup", "group", "disposeLock">>,
                                  <<"disposeLock", "lock", "leave">>},
           Dispose(step, s, next)
    PROVE  IInv'
<1> USE DEF IInv, Dispose, After, Set, scopes, checkpoint
<1>0. s \in Scope /\ disposals[s] = 0
  BY DEF Disposed, Scope, Past, Out, TypeOK
<1>1. TypeOK'
  <2>1. disposals' \in [Scope -> 0..1]
    BY <1>0 DEF TypeOK
  <2>2. scope' \in [Scope -> {"none", "open", "closed"}] /\ at' \in Step
    BY <1>0 DEF TypeOK, Step, BeforeCommit, Unwinding
  <2>3. thrown' \in BOOLEAN
    BY DEF TypeOK
  <2> QED BY <2>1, <2>2, <2>3 DEF TypeOK
<1>2. Progress' /\ Verdict' /\ Evidence'
  BY DEF Progress, Verdict, Evidence, BeforeCommit
<1>3. Disposed'
  BY DEF Disposed, TypeOK, Scope, Past, Out, Taken
<1> QED BY <1>1, <1>2, <1>3

LEMMA ValidatePreserves == IInv /\ Validate => IInv'
<1> SUFFICES ASSUME IInv, Validate PROVE IInv'
  OBVIOUS
<1> USE DEF IInv, Validate, scopes, checkpoint
<1>1. TypeOK'
  <2>1. /\ at' \in Step /\ scope' \in [Scope -> {"none", "open", "closed"}]
        /\ disposals' \in [Scope -> 0..1] /\ dispatched' \in 0..Operations
    BY DEF TypeOK, Step, BeforeCommit, Unwinding
  <2>2. /\ started' \in BOOLEAN /\ thrown' \in BOOLEAN /\ stale' \in BOOLEAN
        /\ file' \in BOOLEAN /\ held' \in BOOLEAN
    BY DEF TypeOK
  <2>3. /\ drawing' \in {"before", "after"}
        /\ record' \in {"none", "available", "expired", "quarantined"}
        /\ result' \in {"none", "committed", "failed", "unknown"}
        /\ answer' \in {"none", "ok", "failed", "stale", "unknown", "threw"}
    BY DEF TypeOK
  <2> QED BY <2>1, <2>2, <2>3 DEF TypeOK
<1>2. Progress'
  BY DEF Progress, BeforeCommit
<1>3. Verdict'
  BY DEF Verdict, Progress, BeforeCommit
<1>4. Disposed'
  BY DEF Disposed, TypeOK, Scope, Past, Out, Taken
<1>5. Evidence'
  BY DEF Evidence, Verdict
<1> QED BY <1>1, <1>2, <1>3, <1>4, <1>5

LEMMA CommitPreserves == IInv /\ Commit(TRUE) => IInv'
<1> SUFFICES ASSUME IInv, Commit(TRUE) PROVE IInv'
  OBVIOUS
<1> USE DEF IInv, Commit, Set, checkpoint
<1>1. TypeOK'
  <2>1. /\ at' \in Step /\ scope' \in [Scope -> {"none", "open", "closed"}]
        /\ disposals' \in [Scope -> 0..1] /\ dispatched' \in 0..Operations
    BY DEF TypeOK, Step, BeforeCommit, Unwinding
  <2>2. /\ started' \in BOOLEAN /\ thrown' \in BOOLEAN /\ stale' \in BOOLEAN
        /\ file' \in BOOLEAN /\ held' \in BOOLEAN
    BY DEF TypeOK
  <2>3. /\ drawing' \in {"before", "after"}
        /\ record' \in {"none", "available", "expired", "quarantined"}
        /\ result' \in {"none", "committed", "failed", "unknown"}
        /\ answer' \in {"none", "ok", "failed", "stale", "unknown", "threw"}
    BY DEF TypeOK
  <2> QED BY <2>1, <2>2, <2>3 DEF TypeOK
<1>2. Progress'
  BY DEF Progress, BeforeCommit
<1>3. Verdict'
  BY DEF Verdict, Progress, BeforeCommit
<1>4. Disposed'
  BY DEF Disposed, TypeOK, Scope, Past, Out, Taken
<1>5. Evidence'
  BY DEF Evidence, Verdict
<1> QED BY <1>1, <1>2, <1>3, <1>4, <1>5

LEMMA RetirePreserves == IInv /\ Retire => IInv'
<1> SUFFICES ASSUME IInv, Retire PROVE IInv'
  OBVIOUS
<1> USE DEF IInv, Retire, FileGoes, scopes
<1>1. TypeOK'
  <2>1. /\ at' \in Step /\ scope' \in [Scope -> {"none", "open", "closed"}]
        /\ disposals' \in [Scope -> 0..1] /\ dispatched' \in 0..Operations
    BY DEF TypeOK, Step, BeforeCommit, Unwinding
  <2>2. /\ started' \in BOOLEAN /\ thrown' \in BOOLEAN /\ stale' \in BOOLEAN
        /\ file' \in BOOLEAN /\ held' \in BOOLEAN
    BY DEF TypeOK
  <2>3. /\ drawing' \in {"before", "after"}
        /\ record' \in {"none", "available", "expired", "quarantined"}
        /\ result' \in {"none", "committed", "failed", "unknown"}
        /\ answer' \in {"none", "ok", "failed", "stale", "unknown", "threw"}
    BY DEF TypeOK
  <2> QED BY <2>1, <2>2, <2>3 DEF TypeOK
<1>2. Progress'
  BY DEF Progress, BeforeCommit
<1>3. Verdict'
  BY DEF Verdict, Progress, BeforeCommit
<1>4. Disposed'
  BY DEF Disposed, TypeOK, Scope, Past, Out, Taken
<1>5. Evidence'
  BY DEF Evidence, Verdict
<1> QED BY <1>1, <1>2, <1>3, <1>4, <1>5

LEMMA LeavePreserves == IInv /\ Leave => IInv'
<1> SUFFICES ASSUME IInv, Leave PROVE IInv'
  OBVIOUS
<1> USE DEF IInv, Leave, ResultWhenThrown, scopes, checkpoint
<1>1. TypeOK'
  <2>1. /\ at' \in Step /\ scope' \in [Scope -> {"none", "open", "closed"}]
        /\ disposals' \in [Scope -> 0..1] /\ dispatched' \in 0..Operations
    BY DEF TypeOK, Step, BeforeCommit, Unwinding
  <2>2. /\ started' \in BOOLEAN /\ thrown' \in BOOLEAN /\ stale' \in BOOLEAN
        /\ file' \in BOOLEAN /\ held' \in BOOLEAN
    BY DEF TypeOK
  <2>3. /\ drawing' \in {"before", "after"}
        /\ record' \in {"none", "available", "expired", "quarantined"}
        /\ result' \in {"none", "committed", "failed", "unknown"}
        /\ answer' \in {"none", "ok", "failed", "stale", "unknown", "threw"}
    BY DEF TypeOK
  <2> QED BY <2>1, <2>2, <2>3 DEF TypeOK
<1>2. Progress'
  BY DEF Progress, BeforeCommit
<1>3. Verdict'
  BY DEF Verdict, Progress, BeforeCommit
<1>4. Disposed'
  BY DEF Disposed, TypeOK, Scope, Past, Out, Taken
<1>5. Evidence'
  BY DEF Evidence, Verdict
<1> QED BY <1>1, <1>2, <1>3, <1>4, <1>5

LEMMA NextPreserves == IInv /\ [Next]_vars => IInv'
<1> SUFFICES ASSUME IInv, [Next]_vars PROVE IInv'
  OBVIOUS
<1> USE DEF IInv, TypeOK, Progress, Verdict, Disposed, Evidence, Scope, Step,
        BeforeCommit, Unwinding, Past, Out, Taken, Set
<1>1. CASE ContextFails
  BY <1>1 DEF ContextFails, scopes, checkpoint
<1>2. CASE EnterContext
  BY <1>2 DEF EnterContext, scopes, checkpoint
<1>3. CASE \/ Take("lock", "validate") \/ Take("group", "transaction")
           \/ Take("transaction", "dispatch")
  BY <1>3, TakePreserves
<1>4. CASE Validate
  BY <1>4, ValidatePreserves
<1>5. CASE Dispatch
  BY <1>5, OperationsNat DEF Dispatch, Remaining, scopes, checkpoint
<1>6. CASE Check \/ Checked
  BY <1>6 DEF Check, Checked, scopes, checkpoint
<1>7. CASE Commit(TRUE)
  BY <1>7, CommitPreserves
<1>8. CASE Commit(FALSE)
  BY <1>8 DEF Commit, checkpoint
<1>9. CASE Observe
  BY <1>9 DEF Observe, scopes, checkpoint
<1>10. CASE Complete
  BY <1>10 DEF Complete, checkpoint
<1>11. CASE FailsAfterCommit
  BY <1>11 DEF FailsAfterCommit, scopes, checkpoint
<1>12. CASE Fails
  BY <1>12 DEF Fails, Validation, scopes, checkpoint
<1>13. CASE Abort
  BY <1>13 DEF Abort, checkpoint
<1>14. CASE Rollback
  BY <1>14 DEF Rollback, checkpoint
<1>15. CASE \/ Dispose("disposeTransaction", "transaction", "disposeGroup")
            \/ Dispose("disposeGroup", "group", "disposeLock")
            \/ Dispose("disposeLock", "lock", "leave")
  BY <1>15, DisposePreserves
<1>16. CASE Leave
  BY <1>16, LeavePreserves
<1>17. CASE Report
  BY <1>17 DEF Report, scopes, checkpoint
<1>18. CASE Retire
  BY <1>18, RetirePreserves
<1>19. CASE UNCHANGED vars
  BY <1>19 DEF vars, scopes, checkpoint
<1> QED
  BY <1>1, <1>2, <1>3, <1>4, <1>5, <1>6, <1>7, <1>8, <1>9, <1>10, <1>11, <1>12, <1>13,
     <1>14, <1>15, <1>16, <1>17, <1>18, <1>19 DEF Next

-----------------------------------------------------------------------------
\* What the invariant says in every reachable state.
THEOREM Invariant == Spec => []IInv
BY InitEstablishes, NextPreserves, PTL DEF Spec

(***************************************************************************)
(* Every reachable state of an execution is well typed.                    *)
(***************************************************************************)
THEOREM TypeCorrect == Spec => []TypeOK
<1>1. IInv => TypeOK
  BY DEF IInv
<1> QED BY <1>1, Invariant, PTL

(***************************************************************************)
(* The outcome that CommitOnceAsync reports is true of the drawing,        *)
(* whatever threw in the executor, its clean-up or its scopes.             *)
(***************************************************************************)
THEOREM ReportsTheTruth == Spec => []AnswerMatchesDrawing
<1>1. IInv => AnswerMatchesDrawing
  BY DEF IInv, Progress, Verdict, AnswerMatchesDrawing
<1> QED BY <1>1, Invariant, PTL

(***************************************************************************)
(* The finally blocks dispose every scope that was taken exactly once, and *)
(* the document lock last.                                                 *)
(***************************************************************************)
THEOREM EveryScopeIsDisposedOnce == Spec => []DisposedOnce
<1>1. IInv => DisposedOnce
  BY DEF IInv, TypeOK, Disposed, DisposedOnce, Scope, Past, Out, Taken, Step,
     BeforeCommit, Unwinding
<1> QED BY <1>1, Invariant, PTL

(***************************************************************************)
(* The checkpoint of a drawing that has changed stays available, and an    *)
(* available checkpoint keeps its file.                                    *)
(***************************************************************************)
THEOREM CheckpointIsKept == Spec => []EvidenceKept
<1>1. IInv => EvidenceKept
  BY DEF IInv, Progress, Verdict, Evidence, EvidenceKept
<1> QED BY <1>1, Invariant, PTL
=============================================================================
