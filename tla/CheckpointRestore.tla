--------------------------- MODULE CheckpointRestore ---------------------------
(***************************************************************************)
(* DurableCheckpointRestoreCoordinator.cs: replacing a whole drawing by    *)
(* its checkpoint, resumable after a crash, with the durable rollback path *)
(* of AutoCadBridgeHost.cs around it.                                      *)
(*                                                                         *)
(* There is one drawing and one checkpoint of it; an Approval is one       *)
(* rollback approval for that checkpoint, which names its own journal      *)
(* entry, stage file and backup file.  A Process is an AutoCAD process; it *)
(* holds no state of its own, so a crash loses its call, its lock and the  *)
(* drawing it has open, and nothing else.                                  *)
(*                                                                         *)
(* A drawing file or an open drawing is one of three contents: "pre" (the  *)
(* checkpoint), "post" (the revision the approval was given for) or        *)
(* "other".  The catalog is cut down to one checkpoint; its operations     *)
(* appear as what a call of them returns, changes or leaves after a throw. *)
(*                                                                         *)
(* Abstracted: path, reparse-point, HMAC and locator checks; a request     *)
(* whose scope is not the recorded one (ScopeConflict) and the read-only   *)
(* questions of the host, which change nothing; approvals are valid.       *)
(***************************************************************************)
EXTENDS Naturals

CONSTANTS
    Process, Approval, NoEntry, NoCall, Nobody,
    Torn,        \* File.Replace may be cut off between its two renames
    MaxMeddling  \* how often somebody else touches the drawing or checkpoint

ASSUME Flags == Torn \in BOOLEAN /\ MaxMeddling \in Nat

VARIABLES
    status,    \* the checkpoint's state in the catalog
    usable,    \* the catalog can be read and written
    artifact,  \* the checkpoint file is "pre" or was "altered"
    target,    \* the drawing file
    stage,     \* stage[a]: the copy of the checkpoint next to the drawing
    backup,    \* backup[a]: where File.Replace put the replaced drawing
    doc,       \* the open drawing: who has it open and its content
    journal,   \* journal[a]: the restore journal entry of a, or NoEntry
    lock,      \* who holds the execution lock
    call,      \* call[p]: the RestoreAsync that p is in, or NoCall
    calm,      \* nothing fails or interferes any more
    latest,    \* (history) the content last put into the drawing on purpose
    meddled    \* (history) how often somebody else touched them

catalog == <<status, usable>>
files == <<artifact, target, stage, backup>>
history == <<latest, meddled>>
vars == <<catalog, files, doc, journal, lock, call, calm, history>>

Content == {"pre", "post", "other"}
Phase == {"prepared", "replaced", "verified", "committed", "quarantined"}
Entry == [phase : Phase, post : Content]

Outcome == {"completed", "replayed", "cancelled", "rejected", "recovery",
            "quarantined", "failed"}
Locked == {"prepare", "reserve", "begin", "resume", "enter", "inspect", "close",
           "replace", "markReplaced", "reopen", "markVerified", "verified",
           "complete", "markCommitted", "cleanup", "replay"}

\* seen: the checkpoint's state when the call read it, before the lock;
\* post: the drawing file as read before the reservation; fresh: the call made
\* the reservation itself, and handles what is thrown after it.
Call == [approval : Approval, at : Locked \cup {"waiting"} \cup Outcome,
         fresh : BOOLEAN,
         seen : {"available", "restoring", "consumed", "quarantined", "expired"},
         post : Content]

ASSUME NoValues == NoEntry \notin Entry /\ NoCall \notin Call /\ Nobody \notin Process

TypeOK ==
    /\ status \in {"available", "restoring", "consumed", "quarantined", "expired"}
    /\ usable \in BOOLEAN
    /\ artifact \in {"pre", "altered"}
    /\ target \in Content \cup {"none"}
    /\ stage \in [Approval -> {"pre", "partial", "none"}]
    /\ backup \in [Approval -> Content \cup {"none"}]
    /\ doc \in [by : Process \cup {Nobody}, content : Content]
    /\ journal \in [Approval -> Entry \cup {NoEntry}]
    /\ lock \in Process \cup {Nobody}
    /\ call \in [Process -> Call \cup {NoCall}]
    /\ calm \in BOOLEAN
    /\ latest \in Content
    /\ meddled \in 0..MaxMeddling

Init ==
    /\ status = "available" /\ usable = TRUE
    /\ artifact = "pre"
    /\ target \in {"post", "other"}    \* saved after the change, or not
    /\ stage = [a \in Approval |-> "none"]
    /\ backup = [a \in Approval |-> "none"]
    /\ doc \in [by : Process, content : {"post"}]
    /\ journal = [a \in Approval |-> NoEntry]
    /\ lock = Nobody
    /\ call = [p \in Process |-> NoCall]
    /\ calm = FALSE
    /\ latest = target
    /\ meddled = 0

-----------------------------------------------------------------------------
(* The catalog, as DurableCheckpointCatalog lets a call see and change it. *)

Active == {"available", "restoring"}

\* What a call may find: an artifact that does not match, or cannot be read
\* just now, is quarantined first.
Loaded ==
    IF status \notin Active THEN {status}
    ELSE IF artifact # "pre" THEN {"quarantined"}
    ELSE IF calm THEN {status} ELSE {status, "quarantined"}

Read(s) == usable /\ s \in Loaded /\ status' = s /\ UNCHANGED usable

Change(from, to) ==
    /\ usable
    /\ Loaded \cap {from, to} # {}
    /\ status' = to
    /\ UNCHANGED usable

\* The state does not allow the change.
Refuse(from, to) == \E s \in Loaded \ {from, to} : Read(s)

\* The call throws; a change that was begun may be on disk, and the catalog
\* may be left unusable.
Throws(from, to) ==
    \/ ~usable /\ UNCHANGED catalog
    \/ /\ usable /\ ~calm
       /\ usable' \in BOOLEAN
       /\ status' \in Loaded \cup {status} \cup (IF status = from THEN {to} ELSE {})

\* TryQuarantineCatalog swallows every failure.
TryQuarantineCatalog ==
    \/ Change("available", "quarantined")
    \/ Change("restoring", "quarantined")
    \/ \E s \in {"consumed", "expired"} : Read(s)
    \/ \E s \in Active : Throws(s, "quarantined")

-----------------------------------------------------------------------------
(* One call.                                                               *)

Idle(p) == call[p] # NoCall => call[p].at \in Outcome
At(p, step) == call[p] # NoCall /\ call[p].at = step
EntryOf(p) == journal[call[p].approval]
Go(p, step) == call' = [call EXCEPT ![p].at = step]

Return(p, outcome) ==
    /\ Go(p, outcome)
    /\ lock' = IF lock = p THEN Nobody ELSE lock

Mark(p, phase) ==
    journal' = [journal EXCEPT ![call[p].approval].phase = phase]

Unmarked == journal' = journal

\* RestoreAsync reads the checkpoint before it takes the lock.
Start(p, a) ==
    /\ Idle(p)
    /\ target # "none"
    /\ \E s \in Loaded :
         /\ Read(s)
         /\ call' = [call EXCEPT ![p] =
              [approval |-> a, at |-> "waiting", fresh |-> FALSE,
               seen |-> s, post |-> "other"]]
    /\ UNCHANGED <<files, doc, journal, lock, calm, history>>

\* The checkpoint cannot be read, or the drawing is not where it should be
\* (ValidateTargetPath): nothing else is looked at.
StartFails(p, a) ==
    /\ Idle(p)
    /\ \/ target = "none" /\ UNCHANGED catalog
       \/ Throws(status, status)
    /\ call' = [call EXCEPT ![p] =
         [approval |-> a, at |-> "failed", fresh |-> FALSE,
          seen |-> status, post |-> "other"]]
    /\ UNCHANGED <<files, doc, journal, lock, calm, history>>

\* Another process holds the execution lock.
TurnedAway(p) ==
    /\ At(p, "waiting")
    /\ lock # Nobody \/ ~calm
    /\ Go(p, "recovery")
    /\ UNCHANGED <<catalog, files, doc, journal, lock, calm, history>>

\* Under the lock the journal entry decides how to continue.
Enter(p) ==
    /\ At(p, "waiting")
    /\ lock = Nobody
    /\ \/ /\ EntryOf(p) = NoEntry
          /\ \/ call[p].seen # "available" /\ Return(p, "rejected")
             \/ call[p].seen = "available" /\ ~calm /\ Return(p, "cancelled")
             \/ call[p].seen = "available" /\ lock' = p /\ Go(p, "prepare")
          /\ UNCHANGED catalog
       \/ /\ EntryOf(p) # NoEntry
          /\ \/ EntryOf(p).phase = "committed" /\ lock' = p /\ Go(p, "replay")
                /\ UNCHANGED catalog
             \/ /\ EntryOf(p).phase = "quarantined"
                /\ TryQuarantineCatalog
                /\ Return(p, "quarantined")
             \/ /\ EntryOf(p).phase \in {"prepared", "replaced", "verified"}
                /\ lock' = p /\ Go(p, "resume")
                /\ UNCHANGED catalog
    /\ UNCHANGED <<files, doc, journal, calm, history>>

-----------------------------------------------------------------------------
(* PrepareAndRestoreAsync.                                                 *)

SetStage(p, content) == stage' = [stage EXCEPT ![call[p].approval] = content]

\* The checkpoint is read again, and does not match: quarantine.
PrepareQuarantines(p) ==
    /\ At(p, "prepare")
    /\ artifact # "pre" \/ ~calm
    /\ TryQuarantineCatalog
    /\ Return(p, "quarantined")
    /\ UNCHANGED <<files, doc, journal, calm, history>>

\* The drawing cannot be read, or the stage or backup of an earlier attempt
\* is in the way, or the copy fails: the stage is deleted again.
PrepareRejects(p) ==
    /\ At(p, "prepare")
    /\ \/ ~calm
       \/ target = "none"
       \/ stage[call[p].approval] = "partial"
       \/ backup[call[p].approval] # "none"
    /\ \/ SetStage(p, "none")
       \/ ~calm /\ stage' \in {stage, [stage EXCEPT ![call[p].approval] = "partial"]}
    /\ Return(p, "rejected")
    /\ UNCHANGED <<catalog, artifact, target, backup, doc, journal, calm, history>>

Prepare(p) ==
    /\ At(p, "prepare")
    /\ artifact = "pre" /\ target # "none"
    /\ stage[call[p].approval] # "partial"
    /\ backup[call[p].approval] = "none"
    /\ SetStage(p, "pre")
    /\ call' = [call EXCEPT ![p].at = "reserve", ![p].post = target, ![p].fresh = TRUE]
    /\ UNCHANGED <<catalog, artifact, target, backup, doc, journal, lock, calm, history>>

\* CreatePrepared; when it throws, what is on disk decides the answer.
Reserve(p) ==
    LET reserved == [journal EXCEPT ![call[p].approval] =
                       [phase |-> "prepared", post |-> call[p].post]] IN
    /\ At(p, "reserve")
    /\ \/ /\ journal' = reserved
          /\ \/ Go(p, "begin") /\ UNCHANGED lock
             \/ ~calm /\ Return(p, "recovery")
          /\ UNCHANGED stage
       \/ /\ ~calm
          /\ Unmarked
          /\ stage' \in {stage, [stage EXCEPT ![call[p].approval] = "none"]}
          /\ Return(p, "rejected")
    /\ UNCHANGED <<catalog, artifact, target, backup, doc, calm, history>>

\* BeginRestore right after the reservation, and again before anything is
\* closed; it throws when the checkpoint has meanwhile left use.
Begin(p) ==
    /\ At(p, "begin")
    /\ \/ Change("available", "restoring") /\ Go(p, "resume") /\ UNCHANGED lock
       \/ Refuse("available", "restoring") /\ Return(p, "recovery")
       \/ Throws("available", "restoring") /\ Return(p, "recovery")
    /\ UNCHANGED <<files, doc, journal, calm, history>>

-----------------------------------------------------------------------------
(* ResumeAsync.                                                            *)

\* Faulty variant: the journal is left as it is.
QuarantineCatalogOnly(p) ==
    TryQuarantineCatalog /\ Return(p, "quarantined") /\ Unmarked

\* Quarantine: the journal first, whether or not that succeeds, then the
\* catalog.
Quarantine(p) ==
    /\ \/ Mark(p, "quarantined")
       \/ ~calm /\ Unmarked
    /\ TryQuarantineCatalog
    /\ Return(p, "quarantined")

\* ClassifyPreparedEvidence.
NotReplaced(p) ==
    /\ target = EntryOf(p).post
    /\ stage[call[p].approval] = "pre"
    /\ backup[call[p].approval] = "none"

\* ReplacementFactsMatch
FactsMatch(p) ==
    /\ target = "pre"
    /\ backup[call[p].approval] = EntryOf(p).post

Replaced(p) == FactsMatch(p) /\ stage[call[p].approval] = "none"

\* Faulty variant: the files alone say how far the attempt has come.
ReachedByFilesAlone(p) == "prepared"

Reached(p) == EntryOf(p).phase

Resume(p) ==
    /\ At(p, "resume")
    /\ IF Reached(p) = "prepared"
       THEN \/ /\ Replaced(p)
               /\ Go(p, "markReplaced")
               /\ UNCHANGED <<catalog, journal, lock>>
            \/ /\ NotReplaced(p)
               /\ Go(p, "enter")
               /\ UNCHANGED <<catalog, journal, lock>>
            \/ ~Replaced(p) /\ ~NotReplaced(p) /\ Quarantine(p)
            \/ ~calm /\ Quarantine(p)     \* a file could not be read
       ELSE /\ Go(p, IF Reached(p) = "replaced" THEN "reopen" ELSE "verified")
            /\ UNCHANGED <<catalog, journal, lock>>
    /\ UNCHANGED <<files, doc, calm, history>>

\* An exception leaves ResumeAsync; for a resumed call the host answers it,
\* and quarantines the checkpoint when a file was invalid.
Thrown(p) ==
    \/ call[p].fresh /\ Return(p, "recovery") /\ UNCHANGED catalog
    \/ ~call[p].fresh /\ Return(p, "failed") /\ UNCHANGED catalog
    \/ ~call[p].fresh /\ ~calm /\ Return(p, "failed") /\ TryQuarantineCatalog

\* Faulty variant: the reservation is taken to have begun the restore.
EnterReplacementAsBegun(p) ==
    /\ At(p, "enter")
    /\ \/ call[p].seen \notin Active /\ Quarantine(p)
       \/ call[p].seen \in Active /\ Go(p, "inspect") /\ UNCHANGED <<catalog, journal, lock>>
    /\ UNCHANGED <<files, doc, calm, history>>

EnterReplacement(p) ==
    /\ At(p, "enter")
    /\ \/ call[p].seen \notin Active /\ Quarantine(p)
       \/ /\ call[p].seen \in Active
          /\ \/ Change("available", "restoring") /\ Go(p, "inspect") /\ UNCHANGED lock
             \/ /\ Refuse("available", "restoring") \/ Throws("available", "restoring")
                /\ Return(p, IF call[p].fresh THEN "recovery" ELSE "failed")
          /\ UNCHANGED journal
    /\ UNCHANGED <<files, doc, calm, history>>

\* Reopen opens the drawing from its file unless it is open here already; it
\* cannot be written while another process has it open.
Opened(p) == IF doc.by = p THEN doc ELSE [by |-> p, content |-> target]
CanOpen(p) == doc.by = p \/ (doc.by = Nobody /\ target # "none")

\* The open drawing is at the approved revision, the file is as recorded.
Fit(p) == Opened(p).content = "post" /\ target = EntryOf(p).post

\* Before anything is closed; the caller may still cancel.
Inspect(p) ==
    /\ At(p, "inspect")
    /\ \/ /\ CanOpen(p)
          /\ doc' = Opened(p)
          /\ \/ Fit(p) /\ Go(p, "close") /\ UNCHANGED <<catalog, journal, lock, stage>>
             \/ ~calm /\ Return(p, "cancelled") /\ UNCHANGED <<catalog, journal, stage>>
             \/ ~calm /\ Thrown(p) /\ UNCHANGED <<journal, stage>>
             \/ /\ ~Fit(p)
                /\ \/ /\ Mark(p, "quarantined")
                      /\ TryQuarantineCatalog
                      /\ \/ SetStage(p, "none")
                         \/ ~calm /\ UNCHANGED stage
                      /\ Return(p, "quarantined")
                   \/ /\ ~calm
                      /\ Unmarked \/ Mark(p, "quarantined")
                      /\ Return(p, "recovery")
                      /\ UNCHANGED <<catalog, stage>>
       \/ /\ ~CanOpen(p) \/ ~calm
          /\ Return(p, "recovery")
          /\ UNCHANGED <<catalog, journal, stage, doc>>
    /\ UNCHANGED <<artifact, target, backup, calm, history>>

\* Everything from here on runs without observing cancellation.
Close(p) ==
    /\ At(p, "close")
    /\ doc.by = p
    /\ doc' = [doc EXCEPT !.by = Nobody]
    /\ Go(p, "replace")
    /\ UNCHANGED <<catalog, files, journal, lock, calm, latest, meddled>>

\* CloseWithoutSaveAsync or ReplaceDurably threw: the evidence decides.
AfterFailure(p) ==
    \/ NotReplaced(p) /\ Return(p, "recovery") /\ UNCHANGED <<catalog, journal>>
    \/ ~NotReplaced(p) /\ Quarantine(p)

CloseFails(p) ==
    /\ At(p, "close")
    /\ doc.by # p \/ ~calm
    /\ AfterFailure(p)
    /\ UNCHANGED <<files, doc, calm, history>>

\* Faulty variant: the replaced drawing is not kept.
BackupDropped(p) == backup

BackupTaken(p) == [backup EXCEPT ![call[p].approval] = target]

\* Windows lets nobody replace a drawing that AutoCAD has open.
CanReplace(p) ==
    /\ backup[call[p].approval] = "none"
    /\ target # "none" /\ stage[call[p].approval] = "pre"
    /\ doc.by = Nobody

\* File.Replace: the drawing becomes the backup, the stage the drawing.
Replace(p) ==
    /\ At(p, "replace")
    /\ CanReplace(p)
    /\ target' = "pre"
    /\ backup' = BackupTaken(p)
    /\ SetStage(p, "none")
    /\ Go(p, "markReplaced")
    /\ UNCHANGED <<catalog, artifact, doc, journal, lock, calm, history>>

\* It fails without effect.
ReplaceFails(p) ==
    /\ At(p, "replace")
    /\ \/ ~calm
       \/ ~CanReplace(p)
    /\ AfterFailure(p)
    /\ UNCHANGED <<files, doc, calm, history>>

\* It stops between its two renames; the process notices, or dies with it.
ReplaceTears(p) ==
    /\ Torn /\ ~calm
    /\ At(p, "replace")
    /\ CanReplace(p)
    /\ target' = "none"
    /\ backup' = BackupTaken(p)
    /\ \/ Quarantine(p) /\ UNCHANGED stage
       \/ /\ call' = [call EXCEPT ![p] = NoCall]
          /\ lock' = Nobody
          /\ UNCHANGED <<catalog, journal, stage>>
    /\ UNCHANGED <<artifact, doc, calm, history>>

\* Faulty variant: a failed journal write is passed over.
AdvanceRegardless(p, step, phase, next) ==
    /\ At(p, step)
    /\ Mark(p, phase) \/ (~calm /\ Unmarked)
    /\ Go(p, next)
    /\ UNCHANGED lock

\* A journal transition; when it throws it may be on disk.
Advance(p, step, phase, next) ==
    /\ At(p, step)
    /\ \/ Mark(p, phase) /\ Go(p, next) /\ UNCHANGED lock
       \/ ~calm /\ (Unmarked \/ Mark(p, phase)) /\ Return(p, "recovery")

MarkReplaced(p) ==
    /\ Advance(p, "markReplaced", "replaced", "reopen")
    /\ UNCHANGED <<catalog, files, doc, calm, history>>

ReopenedRight(p) == FactsMatch(p) /\ Opened(p).content = "pre"

Reopen(p) ==
    /\ At(p, "reopen")
    /\ \/ ~FactsMatch(p) /\ Quarantine(p) /\ UNCHANGED doc
       \/ ~calm /\ Quarantine(p) /\ UNCHANGED doc
       \/ /\ FactsMatch(p) /\ CanOpen(p)
          /\ doc' = Opened(p)
          /\ \/ ReopenedRight(p) /\ Go(p, "markVerified")
                /\ UNCHANGED <<catalog, journal, lock>>
             \/ ~ReopenedRight(p) /\ Quarantine(p)
       \/ /\ FactsMatch(p)
          /\ ~CanOpen(p) \/ ~calm
          /\ Return(p, "recovery")
          /\ UNCHANGED <<catalog, journal, doc>>
    /\ UNCHANGED <<files, calm, history>>

MarkVerified(p) ==
    /\ Advance(p, "markVerified", "verified", "verified")
    /\ UNCHANGED <<catalog, files, doc, calm, history>>

\* The drawing is inspected, not reopened.
Shown(p) == doc.by = p /\ doc.content = "pre"

Verified(p) ==
    /\ At(p, "verified")
    /\ \/ target = "pre" /\ Shown(p) /\ Go(p, "complete")
          /\ UNCHANGED <<catalog, journal, lock>>
       \/ (target # "pre" \/ ~Shown(p)) /\ Quarantine(p)
       \/ ~calm /\ Return(p, "recovery") /\ UNCHANGED <<catalog, journal>>
       \/ ~calm /\ Thrown(p) /\ UNCHANGED journal
    /\ UNCHANGED <<files, doc, calm, history>>

\* Faulty variant: only the journal is completed.
CompleteJournalOnly(p) ==
    /\ At(p, "complete")
    /\ Go(p, "markCommitted")
    /\ UNCHANGED <<catalog, journal, lock, files, doc, calm, history>>

\* The catalog is completed before the journal.
Complete(p) ==
    /\ At(p, "complete")
    /\ \/ /\ Change("restoring", "consumed")
          /\ Go(p, "markCommitted")
          /\ UNCHANGED <<journal, lock>>
       \/ /\ usable /\ Loaded \ {"restoring", "consumed"} # {}
          /\ Quarantine(p)
       \/ Throws("restoring", "consumed") /\ Return(p, "recovery") /\ UNCHANGED journal
    /\ UNCHANGED <<files, doc, calm, history>>

MarkCommitted(p) ==
    /\ Advance(p, "markCommitted", "committed", "cleanup")
    /\ latest' = IF journal' # journal /\ target = "pre" THEN "pre" ELSE latest
    /\ UNCHANGED <<catalog, files, doc, calm, meddled>>

\* TryCleanupCommittedArtifacts, for a new success and for a replayed one.
CleanUp(p, step, outcome) ==
    LET a == call[p].approval IN
    /\ At(p, step)
    /\ \/ /\ stage' = [stage EXCEPT ![a] = "none"]
          /\ backup' = [backup EXCEPT ![a] = "none"]
          /\ Return(p, outcome)
       \/ /\ ~calm
          /\ stage' \in {stage, [stage EXCEPT ![a] = "none"]}
          /\ UNCHANGED backup
          /\ Return(p, "recovery")
    /\ UNCHANGED <<catalog, artifact, target, doc, journal, calm, history>>

ReplayCommitted(p) == CleanUp(p, "replay", "replayed")
Cleanup(p) == CleanUp(p, "cleanup", "completed")

-----------------------------------------------------------------------------
(* What happens around the coordinator, until it is calm.                  *)

Closed == [by |-> Nobody, content |-> "other"]

Crash(p) ==
    /\ ~calm
    /\ call[p] # NoCall \/ doc.by = p
    /\ call' = [call EXCEPT ![p] = NoCall]
    /\ lock' = IF lock = p THEN Nobody ELSE lock
    /\ doc' = IF doc.by = p THEN Closed ELSE doc
    /\ UNCHANGED <<catalog, files, journal, calm, history>>

Meddle ==
    /\ ~calm
    /\ meddled < MaxMeddling
    /\ meddled' = meddled + 1

\* The engineer opens, edits (undo and redo included), saves and closes the drawing.
UserOpens(p) ==
    /\ ~calm /\ doc.by = Nobody /\ target # "none"
    /\ doc' = [by |-> p, content |-> target]
    /\ UNCHANGED <<catalog, files, journal, lock, call, calm, history>>

UserEdits ==
    /\ doc.by # Nobody
    /\ \E c \in Content \ {doc.content} : doc' = [doc EXCEPT !.content = c]
    /\ Meddle
    /\ UNCHANGED <<catalog, files, journal, lock, call, calm, latest>>

\* A saved drawing is never byte for byte a file there was before.
UserSaves ==
    /\ doc.by # Nobody
    /\ target' = "other"
    /\ latest' = "other"
    /\ Meddle
    /\ UNCHANGED <<catalog, artifact, stage, backup, doc, journal, lock, call, calm>>

UserCloses ==
    /\ doc.by # Nobody
    /\ doc' = Closed
    /\ Meddle
    /\ UNCHANGED <<catalog, files, journal, lock, call, calm, latest>>

Damage ==
    /\ artifact = "pre"
    /\ artifact' = "altered"
    /\ Meddle
    /\ UNCHANGED <<catalog, target, stage, backup, doc, journal, lock, call, calm,
                   latest>>

CalmDown ==
    /\ ~calm
    /\ calm' = TRUE
    /\ UNCHANGED <<catalog, files, doc, journal, lock, call, history>>

Step(p) ==
    \/ TurnedAway(p) \/ Enter(p)
    \/ PrepareQuarantines(p) \/ PrepareRejects(p) \/ Prepare(p)
    \/ Reserve(p) \/ Begin(p)
    \/ Resume(p) \/ EnterReplacement(p) \/ Inspect(p)
    \/ Close(p) \/ CloseFails(p)
    \/ Replace(p) \/ ReplaceFails(p) \/ ReplaceTears(p)
    \/ MarkReplaced(p) \/ Reopen(p) \/ MarkVerified(p)
    \/ Verified(p) \/ Complete(p) \/ MarkCommitted(p)
    \/ Cleanup(p) \/ ReplayCommitted(p)

Retry(p, a) == Start(p, a) \/ StartFails(p, a)

Next ==
    \/ \E p \in Process : Step(p) \/ Crash(p) \/ UserOpens(p)
    \/ \E p \in Process, a \in Approval : Retry(p, a)
    \/ UserEdits \/ UserSaves \/ UserCloses \/ Damage

Spec == Init /\ [][Next]_vars

\* The coordinator runs to an answer, the caller asks again with the same
\* approval until the restore is over, and the trouble ends.
FairSpec ==
    /\ Init /\ [][Next \/ CalmDown]_vars
    /\ WF_vars(CalmDown)
    /\ \A p \in Process : WF_vars(Step(p))
    /\ \A p \in Process, a \in Approval : WF_vars(Retry(p, a))

-----------------------------------------------------------------------------
Phased(a, phase) == journal[a] # NoEntry /\ journal[a].phase = phase

(***************************************************************************)
(* What was last saved into the drawing on purpose is in the drawing file  *)
(* or in a backup next to it, whoever saved, edited or crashed when;       *)
(* ReplaceDurably keeps the drawing it replaces and only a committed       *)
(* restore, whose purpose it was to be rid of it, deletes the backup.      *)
(***************************************************************************)
NothingLost == latest \in {target} \cup {backup[a] : a \in Approval}

(***************************************************************************)
(* One checkpoint is restored for one approval at most, and a restore that *)
(* is committed in the journal has used the checkpoint up in the catalog:  *)
(* two approvals race between GetRequired and the execution lock, and the  *)
(* catalog and the journal are two files.  Only when somebody has brought  *)
(* the drawing back to the approved revision meanwhile can both restores   *)
(* be committed: BeginRestore and Complete do not ask for whom.            *)
(***************************************************************************)
OneRestore ==
    /\ \A a, b \in Approval :
         Phased(a, "committed") /\ Phased(b, "committed") /\ meddled = 0 => a = b
    /\ \A a \in Approval : Phased(a, "committed") => status = "consumed"

(***************************************************************************)
(* And no checkpoint is used up for nothing: a consumed one was put into   *)
(* the drawing by a restore that is verified or committed in the journal,  *)
(* or, when it was quarantined afterwards, has its backup to go by.        *)
(***************************************************************************)
ConsumedIsRestored ==
    status = "consumed" =>
        \E a \in Approval : \/ Phased(a, "verified") \/ Phased(a, "committed")
                            \/ Phased(a, "quarantined") /\ backup[a] # "none"

(***************************************************************************)
(* A drawing that a restore has replaced, completely or not, is known to   *)
(* the catalog: as long as the backup is there, the checkpoint is no       *)
(* longer offered as available.  The reservation is in the journal before  *)
(* the first BeginRestore, so a crash or a failed write between the two    *)
(* leaves an attempt that the second one, in ResumeAsync, has to catch.    *)
(***************************************************************************)
BegunBeforeReplaced == \A a \in Approval : backup[a] # "none" => status # "available"

(***************************************************************************)
(* The restore is over: a journal entry neither leaves "committed" nor     *)
(* "quarantined", its phases are never run backwards, and a committed      *)
(* restore is not done again when its approval is presented again.         *)
(***************************************************************************)
Rank(phase) == CASE phase = "prepared" -> 1 [] phase = "replaced" -> 2
                 [] phase = "verified" -> 3 [] OTHER -> 4

OnlyForward ==
    [][\A a \in Approval : journal[a] # NoEntry /\ journal'[a] # journal[a] =>
         /\ journal'[a] # NoEntry
         /\ journal'[a].post = journal[a].post
         /\ Rank(journal'[a].phase) > Rank(journal[a].phase)]_vars

(***************************************************************************)
(* The caller is told the truth: a restore is reported done only when it   *)
(* is committed, and "rejected" and "cancelled" are said only of a restore *)
(* that has not replaced the drawing.                                      *)
(***************************************************************************)
Truthful(p) ==
    /\ call[p].at \in {"completed", "replayed"} => Phased(call[p].approval, "committed")
    /\ call[p].at = "rejected" => EntryOf(p) = NoEntry
    /\ call[p].at = "cancelled" =>
         /\ EntryOf(p) # NoEntry => EntryOf(p).phase = "prepared"
         /\ backup[call[p].approval] = "none"

AnswersTrue ==
    [][\A p \in Process : (call'[p] # call[p] /\ call'[p] # NoCall) => Truthful(p)']_vars

(***************************************************************************)
(* A restore that was begun comes to an end, restored or quarantined, once *)
(* nothing fails any more and the caller keeps asking; unless the catalog  *)
(* itself has become unusable.                                             *)
(***************************************************************************)
Settles ==
    \A a \in Approval : journal[a] # NoEntry ~>
        Phased(a, "committed") \/ Phased(a, "quarantined") \/ ~usable
=============================================================================
