----------------------------- MODULE UndoRollback -----------------------------
(***************************************************************************)
(* UndoRollbackRegistry.cs, and how AutoCadBridgeHost.cs uses it: undoing  *)
(* the last commit with AutoCAD's own undo stack, fenced by the receipts   *)
(* that live in the memory of the AutoCAD process.                         *)
(*                                                                         *)
(* One drawing.  The n-th commit owns receipt n.  An entry of the undo     *)
(* stack says who made it, a commit, the engineer or one of the command    *)
(* wrappers, and at which revision the drawing was before.  A revision is  *)
(* what the bridge can see of a drawing; a commit changes it, a command of *)
(* the engineer may leave it as it was.                                    *)
(* AutoCAD runs one thing at a time on the drawing: the callbacks of a     *)
(* commit and of a rollback are one step each, and what the registry does  *)
(* before and after them is not protected from the engineer.               *)
(*                                                                         *)
(* Abstracted: token checks, identities other than the receipt's number    *)
(* and the approval, answers that change nothing (replay, conflict,        *)
(* rejected), and CancelBeforeCommand, which the host never calls.         *)
(***************************************************************************)
EXTENDS Naturals, Sequences

CONSTANTS
    Approval,     \* rollback approvals
    Revision,     \* what a drawing may look like to the bridge
    MaxCommits,   \* bound: commits
    MaxCommands,  \* bound: commands of the engineer and questions to the bridge
    Engineer, Wrapper,  \* who but a commit makes entries of the undo stack
    NoReceipt, NoAttempt, Idle

Commit == 1..MaxCommits

Op == [kind : {"commit"}, at : {"applied", "registered"}, n : Commit,
       previous : Revision, new : Revision]
      \cup [kind : {"rollback"}, at : {"begun", "restored"}, n : Commit,
            approval : Approval]
Receipt == [state : {"available", "executing", "consumed", "quarantined", "superseded"},
            previous : Revision, new : Revision]
Attempt == [n : Commit, done : BOOLEAN]
Author == Commit \cup {Engineer, Wrapper}

ASSUME BoundsAreNaturals == MaxCommits \in Nat /\ MaxCommands \in Nat
ASSUME NoValuesDiffer ==
    /\ NoReceipt \notin Receipt /\ NoAttempt \notin Attempt /\ Idle \notin Op
    /\ Engineer \notin Commit /\ Wrapper \notin Commit /\ Engineer # Wrapper

VARIABLES
    revision,  \* the drawing
    undo,      \* AutoCAD's undo stack, the oldest entry first
    receipt,   \* _entriesByReceipt
    active,    \* _activeReceiptByDocument, 0 for none
    attempt,   \* _attemptByApprovalId
    tracked,   \* the host listens to CommandWillStart
    op,        \* what holds _commitGate, or Idle
    commits,   \* how many commits there were
    commands,  \* how many commands and questions there were
    fenced,    \* (history) receipts a command was run over
    slipped,   \* (history) receipts whose own call a command ran into
    undone     \* (history) undone[n]: whose entries rollback n has undone

drawing == <<revision, undo>>
registry == <<receipt, active, attempt>>
history == <<fenced, slipped, undone>>
vars == <<drawing, registry, tracked, op, commits, commands, history>>

TypeOK ==
    /\ revision \in Revision
    /\ undo \in Seq([by : Author, before : Revision])
    /\ receipt \in [Commit -> Receipt \cup {NoReceipt}]
    /\ active \in Commit \cup {0}
    /\ attempt \in [Approval -> Attempt \cup {NoAttempt}]
    /\ tracked \in BOOLEAN
    /\ op \in Op \cup {Idle}
    /\ commits \in 0..MaxCommits
    /\ commands \in 0..MaxCommands
    /\ fenced \subseteq Commit
    /\ slipped \subseteq Commit
    /\ undone \in [Commit -> SUBSET Author]

Init ==
    /\ revision \in Revision
    /\ undo = <<>>
    /\ receipt = [n \in Commit |-> NoReceipt]
    /\ active = 0
    /\ attempt = [a \in Approval |-> NoAttempt]
    /\ tracked = FALSE
    /\ op = Idle
    /\ commits = 0
    /\ commands = 0
    /\ fenced = {}
    /\ slipped = {}
    /\ undone = [n \in Commit |-> {}]

-----------------------------------------------------------------------------
InState(n, state) == receipt[n] # NoReceipt /\ receipt[n].state = state
SetState(n, state) == receipt' = [receipt EXCEPT ![n].state = state]

\* InvalidateAvailableForDocument: an executing receipt is left untouched.
Invalidate ==
    IF active # 0 /\ InState(active, "available")
    THEN SetState(active, "superseded")
    ELSE UNCHANGED receipt

\* Faulty variant: the event reaches nobody.
NobodyListens == UNCHANGED receipt

\* OnTrackedDocumentCommandWillStart
CommandWillStart == IF tracked THEN Invalidate ELSE UNCHANGED receipt

Push(s, by) == Append(s, [by |-> by, before |-> revision])

\* Every callback on the drawing runs in a command of AutoCAD, which may put
\* an empty entry on top of the undo stack.
Wrapped(s, r) == {s, Append(s, [by |-> Wrapper, before |-> r])}

-----------------------------------------------------------------------------
(* CommitAsync: the change in the drawing, whose UNDO Begin is a command   *)
(* like any other, then the receipt, then the subscription.                *)

CommitApplied ==
    /\ op = Idle /\ commits < MaxCommits
    /\ commits' = commits + 1
    /\ CommandWillStart
    /\ revision' \in Revision \ {revision}
    /\ undo' \in Wrapped(Push(undo, commits'), revision')
    /\ op' = [kind |-> "commit", at |-> "applied", n |-> commits',
              previous |-> revision, new |-> revision']
    /\ UNCHANGED <<active, attempt, tracked, commands, history>>

\* Rolled back, with an empty undo group left behind; or committed without
\* anybody knowing.
CommitFails ==
    /\ op = Idle /\ commits < MaxCommits
    /\ commits' = commits + 1
    /\ CommandWillStart
    /\ \/ UNCHANGED revision /\ undo' \in Wrapped(undo, revision)
       \/ /\ revision' \in Revision \ {revision}
          /\ undo' \in Wrapped(Push(undo, commits'), revision')
    /\ UNCHANGED <<active, attempt, tracked, op, commands, history>>

\* Register supersedes the preceding receipt, whatever has become of it.
Superseded ==
    [n \in Commit |->
        IF n = active /\ receipt[n] # NoReceipt
        THEN [receipt[n] EXCEPT !.state = "superseded"] ELSE receipt[n]]

Register ==
    /\ op # Idle /\ op.at = "applied"
    /\ receipt' = [Superseded EXCEPT ![op.n] =
                     [state |-> "available", previous |-> op.previous, new |-> op.new]]
    /\ active' = op.n
    /\ op' = [op EXCEPT !.at = "registered"]
    /\ UNCHANGED <<drawing, attempt, tracked, commits, commands, history>>

\* TryRegisterUndoRollback finds the result incomplete, or throws.
RegisterFails ==
    /\ op # Idle /\ op.at = "applied"
    /\ UNCHANGED receipt \/ Invalidate
    /\ op' = Idle
    /\ UNCHANGED <<drawing, active, attempt, tracked, commits, commands, history>>

Track ==
    /\ op # Idle /\ op.at = "registered"
    /\ tracked' = TRUE
    /\ op' = Idle
    /\ UNCHANGED <<drawing, registry, commits, commands, history>>

\* Faulty variant: a receipt nobody watches over stays available.
UnwatchedReceipt == UNCHANGED receipt

\* InvalidateRollbackForRequest
InvalidateRollback == Invalidate

TrackFails ==
    /\ op # Idle /\ op.at = "registered"
    /\ ~tracked
    /\ InvalidateRollback
    /\ op' = Idle
    /\ UNCHANGED <<drawing, active, attempt, tracked, commits, commands, history>>

-----------------------------------------------------------------------------
(* RollbackAsync.                                                          *)

\* Faulty variant: a receipt can be executed for every approval.
NotGone(n) == receipt[n] # NoReceipt /\ receipt[n].state # "superseded"

Available(n) == InState(n, "available")

Begin(a, n) ==
    /\ op = Idle
    /\ attempt[a] = NoAttempt
    /\ Available(n)
    /\ SetState(n, "executing")
    /\ attempt' = [attempt EXCEPT ![a] = [n |-> n, done |-> FALSE]]
    /\ op' = [kind |-> "rollback", at |-> "begun", n |-> n, approval |-> a]
    /\ UNCHANGED <<drawing, active, tracked, commits, commands, history>>

Pop(s) == IF s = <<>> THEN s ELSE SubSeq(s, 1, Len(s) - 1)
Top(s) == s[Len(s)]

\* The drawing after one and after two commands UNDO 1 on the stack s, and
\* whose entries k commands undo.
Once(s) == IF s = <<>> THEN revision ELSE Top(s).before
Twice(s) == IF Pop(s) = <<>> THEN Once(s) ELSE Top(Pop(s)).before
Undoes(s, k) == {s[i].by : i \in {j \in DOMAIN s : j + k > Len(s)}}

\* The precheck under the document lock.
Fits(n) == revision = receipt[n].new

\* UndoRollbackRevisionFence.Decide: a second command only when the first
\* has changed nothing.
Retry(n, s) == Once(s) # receipt[n].previous /\ Once(s) = receipt[n].new

\* ExecuteUndoRollbackAsync: one callback on the drawing.
Undo ==
    /\ op # Idle /\ op.at = "begun"
    /\ Fits(op.n)
    /\ \E s \in Wrapped(undo, revision) :
         LET again == Retry(op.n, s) IN
         /\ revision' = IF again THEN Twice(s) ELSE Once(s)
         /\ undo' = IF again THEN Pop(Pop(s)) ELSE Pop(s)
         /\ undone' = [undone EXCEPT ![op.n] = @ \cup Undoes(s, IF again THEN 2 ELSE 1)]
    /\ IF revision' = receipt[op.n].previous
       THEN op' = [op EXCEPT !.at = "restored"] /\ UNCHANGED receipt
       ELSE op' = Idle /\ SetState(op.n, "quarantined")
    /\ UNCHANGED <<active, attempt, tracked, commits, commands, fenced, slipped>>

\* Faulty variant: a failure leaves the receipt as it is.
LeftExecuting ==
    /\ op # Idle /\ op.at \in {"begun", "restored"}
    /\ op' = Idle
    /\ UNCHANGED <<drawing, registry, tracked, commits, commands, history>>

\* The drawing is stale, not there, or the call is cancelled; and a call can
\* be cut off when the command has already done its work.
Quarantine ==
    /\ op # Idle /\ op.at \in {"begun", "restored"}
    /\ SetState(op.n, "quarantined")
    /\ op' = Idle
    /\ UNCHANGED <<drawing, active, attempt, tracked, commits, commands, history>>

CompleteSuccess ==
    /\ op # Idle /\ op.at = "restored"
    /\ SetState(op.n, "consumed")
    /\ attempt' = [attempt EXCEPT ![op.approval].done = TRUE]
    /\ op' = Idle
    /\ UNCHANGED <<drawing, active, tracked, commits, commands, history>>

-----------------------------------------------------------------------------
(* The engineer, other calls of the bridge, and AutoCAD starting again.    *)

\* A command is noticed unless a commit or a rollback is under way.
Noticed ==
    /\ CommandWillStart
    /\ fenced' = IF op = Idle
                 THEN fenced \cup {n \in Commit : InState(n, "available")} ELSE fenced
    /\ slipped' = IF op # Idle THEN slipped \cup {op.n} ELSE slipped
    /\ UNCHANGED <<active, attempt, tracked, op, commits, undone>>

Command ==
    /\ commands < MaxCommands
    /\ commands' = commands + 1
    /\ \/ revision' \in Revision /\ undo' = Push(undo, Engineer)
       \/ revision' = Once(undo) /\ undo' = Pop(undo)
    /\ Noticed

\* A question to the bridge runs in a command as well.
Inspect ==
    /\ commands < MaxCommands
    /\ commands' = commands + 1
    /\ undo' \in Wrapped(undo, revision)
    /\ UNCHANGED revision
    /\ Noticed

Restart ==
    /\ undo' = <<>>
    /\ receipt' = [n \in Commit |-> NoReceipt]
    /\ active' = 0
    /\ attempt' = [a \in Approval |-> NoAttempt]
    /\ tracked' = FALSE
    /\ op' = Idle
    /\ UNCHANGED <<revision, commits, commands, history>>

Next ==
    \/ CommitApplied \/ CommitFails \/ Register \/ RegisterFails
    \/ Track \/ TrackFails
    \/ \E a \in Approval, n \in Commit : Begin(a, n)
    \/ Undo \/ Quarantine \/ CompleteSuccess
    \/ Command \/ Inspect \/ Restart

Spec == Init /\ [][Next]_vars

-----------------------------------------------------------------------------
(***************************************************************************)
(* Only the newest receipt can still be used: whatever commits succeed,    *)
(* fail or lose their registration, and whatever the engineer does in      *)
(* between, every older receipt has been superseded or is over; and a      *)
(* receipt is being executed exactly while its rollback holds the gate.    *)
(***************************************************************************)
OnlyNewest ==
    \A n \in Commit :
        /\ InState(n, "available") \/ InState(n, "executing") => n = active
        /\ InState(n, "executing") <=> op # Idle /\ op.kind = "rollback" /\ op.n = n

(***************************************************************************)
(* An undo group is executed for one approval at most, and never becomes   *)
(* available again; an approval that was told of success (a replay answers *)
(* it without another command) has no receipt that may still be executed,  *)
(* although Register also marks consumed and quarantined receipts as       *)
(* superseded.                                                             *)
(***************************************************************************)
OneExecution ==
    \A a \in Approval : attempt[a] # NoAttempt =>
        /\ \A b \in Approval \ {a} : attempt[b] # NoAttempt => attempt[b].n # attempt[a].n
        /\ ~InState(attempt[a].n, "available")
        /\ attempt[a].done => ~InState(attempt[a].n, "executing")

(***************************************************************************)
(* Once the commit call is over, any command ends the rollback: no receipt *)
(* that was available then ever undoes anything, also when the             *)
(* subscription to CommandWillStart failed.                                *)
(***************************************************************************)
FenceHolds == \A n \in fenced : undone[n] = {}

(***************************************************************************)
(* A rollback undoes its own commit and empty wrapper entries and nothing  *)
(* else, although UNDO 1 takes whatever is on top of the stack and may be  *)
(* sent twice, unless a command ran into the commit's or the rollback's    *)
(* own call, where the fence does not reach.                               *)
(***************************************************************************)
SparesOthers == \A n \in Commit \ slipped : undone[n] \subseteq {n, Wrapper}
=============================================================================
