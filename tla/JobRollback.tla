----------------------------- MODULE JobRollback -----------------------------
(***************************************************************************)
(* The service's rollback of a job by AutoCAD's undo (rollback_scope,      *)
(* approve_rollback and rollback of harness_service.py, and                *)
(* rollback_approval.py), over the registry and the drawing of             *)
(* UndoRollback.                                                           *)
(*                                                                         *)
(* The n-th commit is the one of job n.  A job counts as proven when it is *)
(* COMMITTED, or FAILED by the validation after its commit, and names its  *)
(* checkpoint.  The service keeps the undo group of a commit in memory     *)
(* only.  A request it has sent waits for the bridge's gate, and the       *)
(* bridge goes on with it when the caller has given up.                    *)
(*                                                                         *)
(* Abstracted: an approval is the job it is signed for, as checkpoint and  *)
(* revision are the job's own; its expiry is a call that is not made.  The *)
(* lease is left out: it may lapse under a call, so nothing rests on it.   *)
(* A job whose undo group is not known is restored from its checkpoint     *)
(* file: that is CheckpointRestore.                                        *)
(***************************************************************************)
EXTENDS UndoRollback

CONSTANT Call  \* calls of rollback, with the request each sends

Request == [approval : Approval, n : Commit, heard : BOOLEAN,
            at : {"sent", "executing", "restored"}]

VARIABLES
    job,    \* the row of each job
    known,  \* _undo_rollback_receipts
    scope,  \* the job each approval is signed for, 0 when not issued
    call    \* the request of each call, or Idle

serviceVars == <<job, known, scope, call>>
rollbackVars == <<vars, serviceVars>>

RollbackTypeOK ==
    /\ TypeOK
    /\ job \in [Commit -> {"OPEN", "COMMITTING", "PROVEN", "UNPROVEN", "ROLLED_BACK"}]
    /\ known \subseteq Commit
    /\ scope \in [Approval -> Commit \cup {0}]
    /\ call \in [Call -> Request \cup {Idle}]

RollbackInit ==
    /\ Init
    /\ job = [n \in Commit |-> "OPEN"]
    /\ known = {}
    /\ scope = [a \in Approval |-> 0]
    /\ call = [c \in Call |-> Idle]

At(c, stage) == call[c] # Idle /\ call[c].at = stage
Moved(c, stage) == [call EXCEPT ![c].at = stage]

-----------------------------------------------------------------------------
(* The end of commit n at the service.                                     *)

Commits ==
    /\ \/ CommitApplied /\ job' = [job EXCEPT ![commits'] = "COMMITTING"]
       \/ CommitFails /\ job' = [job EXCEPT ![commits'] = "UNPROVEN"]
    /\ UNCHANGED <<known, scope, call>>

\* The answer, or a replay of it, is stored with the job, and its undo group
\* is kept; or the answer or its storing is lost.
Committed(n) ==
    /\ job[n] = "COMMITTING"
    /\ op # Idle => op.n # n
    /\ \/ job' = [job EXCEPT ![n] = "PROVEN"] /\ known' = known \cup {n}
       \/ job' = [job EXCEPT ![n] = "UNPROVEN"] /\ UNCHANGED known
    /\ UNCHANGED <<vars, scope, call>>

-----------------------------------------------------------------------------
(* Approval and call.                                                      *)

\* Only this state gives a scope (rollback_scope), and lets a call pass.
MayRollBack(n) == job[n] = "PROVEN" /\ n \in known

\* approve_rollback: no question to AutoCAD, which would end the undo group.
Approve(a, n) ==
    /\ scope[a] = 0 /\ MayRollBack(n)
    /\ scope' = [scope EXCEPT ![a] = n]
    /\ UNCHANGED <<vars, job, known, call>>

Ask(c, a) ==
    /\ call[c] = Idle
    /\ scope[a] # 0 /\ MayRollBack(scope[a])
    /\ call' = [call EXCEPT ![c] = [approval |-> a, n |-> scope[a],
                                    heard |-> TRUE, at |-> "sent"]]
    /\ UNCHANGED <<vars, job, known, scope>>

Silent(r) == [r EXCEPT !.heard = FALSE]

\* The deadline passes, or the pipe breaks: no answer is awaited any more.
GiveUp(c) ==
    /\ call[c] # Idle
    /\ call' = [call EXCEPT ![c] = IF @.at = "restored" THEN Idle ELSE Silent(@)]
    /\ UNCHANGED <<vars, job, known, scope>>

\* The job as it was read when the call began is saved.
Finish(c) ==
    /\ At(c, "restored")
    /\ job' = [job EXCEPT ![call[c].n] = "ROLLED_BACK"]
    /\ known' = known \ {call[c].n}
    /\ call' = [call EXCEPT ![c] = Idle]
    /\ UNCHANGED <<vars, scope>>

ServiceDies ==
    /\ known' = {}
    /\ call' = [c \in Call |-> IF call[c] = Idle \/ call[c].at = "restored"
                               THEN Idle ELSE Silent(call[c])]
    /\ UNCHANGED <<vars, job, scope>>

-----------------------------------------------------------------------------
(* The request at the bridge (RollbackAsync, ExecuteSessionRollbackAsync).  *)

Begins(c) ==
    /\ At(c, "sent")
    /\ Begin(call[c].approval, call[c].n)
    /\ call' = Moved(c, "executing")
    /\ UNCHANGED <<job, known, scope>>

\* Faulty variant: an attempt that has not ended well is replayed as well.
AnyAttempt(a, n) == attempt[a] # NoAttempt /\ attempt[a].n = n

Replayable(a, n) == attempt[a] # NoAttempt /\ attempt[a].n = n /\ attempt[a].done

\* Success goes to a caller who still waits; an error leaves the job as it is.
Answered(c, stage) ==
    IF stage = "restored" /\ call[c].heard
    THEN [call[c] EXCEPT !.at = stage] ELSE Idle

Replay(c) ==
    /\ At(c, "sent") /\ op = Idle
    /\ Replayable(call[c].approval, call[c].n)
    /\ call' = [call EXCEPT ![c] = Answered(c, "restored")]
    /\ UNCHANGED <<vars, job, known, scope>>

\* The registry rejects it, or it was cancelled while it waited for the gate.
Refuse(c) ==
    /\ At(c, "sent")
    /\ \/ op = Idle /\ ~Replayable(call[c].approval, call[c].n)
          /\ (attempt[call[c].approval] = NoAttempt => ~Available(call[c].n))
       \/ ~call[c].heard
    /\ call' = [call EXCEPT ![c] = Idle]
    /\ UNCHANGED <<vars, job, known, scope>>

Ends(stage) ==
    call' = [c \in Call |-> IF At(c, "executing") THEN Answered(c, stage) ELSE call[c]]

Executes ==
    /\ \/ Undo /\ IF op' = Idle THEN Ends("failed") ELSE UNCHANGED call
       \/ Quarantine /\ Ends("failed")
       \/ CompleteSuccess /\ Ends("restored")
    /\ UNCHANGED <<job, known, scope>>

Others ==
    /\ Register \/ RegisterFails \/ Track \/ TrackFails \/ Command \/ Inspect
    /\ UNCHANGED serviceVars

\* AutoCAD ends: the pipes of all requests without an answer break.
RestartsAutoCad ==
    /\ Restart
    /\ call' = [c \in Call |-> IF At(c, "restored") THEN call[c] ELSE Idle]
    /\ UNCHANGED <<job, known, scope>>

RollbackNext ==
    \/ Commits \/ Others \/ Executes \/ RestartsAutoCad \/ ServiceDies
    \/ \E n \in Commit : Committed(n)
    \/ \E a \in Approval, n \in Commit : Approve(a, n)
    \/ \E c \in Call, a \in Approval : Ask(c, a)
    \/ \E c \in Call : \/ GiveUp(c) \/ Finish(c)
                       \/ Begins(c) \/ Replay(c) \/ Refuse(c)

RollbackSpec == RollbackInit /\ [][RollbackNext]_rollbackVars

-----------------------------------------------------------------------------
(***************************************************************************)
(* A job that is ROLLED_BACK has been undone: its own entry has left the   *)
(* drawing, whatever answers were lost, replayed or given to a retry,      *)
(* unless a command ran into the commit's or the rollback's own call.      *)
(***************************************************************************)
RolledBackIsTrue ==
    \A n \in Commit \ slipped : job[n] = "ROLLED_BACK" => n \in undone[n]

(***************************************************************************)
(* Once a job is ROLLED_BACK nothing more is undone for it: not by the     *)
(* request of a call that was given up, not by a retry, not for another    *)
(* approval of the same job.                                               *)
(***************************************************************************)
RolledBackOnce ==
    [][\A n \in Commit : job[n] = "ROLLED_BACK" => undone'[n] = undone[n]]_rollbackVars
=============================================================================
