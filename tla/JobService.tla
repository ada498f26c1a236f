----------------------------- MODULE JobService -----------------------------
(***************************************************************************)
(* harness_service.py over its job store, its writer lease and the bridge: *)
(* how the jobs on one drawing are specified, previewed, validated,        *)
(* approved and committed by several processes that share the database.    *)
(*                                                                         *)
(* An Editor is one client surface (AI tool server, engineer desktop) that *)
(* runs one call at a time; a Call is one call of HarnessService.commit,   *)
(* for the job JobOf and an idempotency key of the client's choice.  Each  *)
(* transaction that writes the store is a step of its own, and what a      *)
(* method read in an earlier one is kept in the snapshot of the editor or  *)
(* of the call.                                                            *)
(* Consecutive reads are one step, and so is the validation that approve   *)
(* and commit repeat for themselves (validate itself is two).              *)
(*                                                                         *)
(* The bridge is the one that CommitJournal shows to implement             *)
(* OnceOnlyCommit; its keys are the pairs of job and idempotency key.      *)
(*                                                                         *)
(* Abstracted: a plan is named by its hash, an approval and its token by   *)
(* the scope they are signed for.  Whatever a method refuses for reasons   *)
(* outside this state (validation findings, an expired approval, an        *)
(* incompatible writer, a database error before the write) is Refuse or    *)
(* GiveUp.  A revision is a hash of the drawing's content, so it comes     *)
(* back when a change is taken back; here it is the content: which changes *)
(* of calls are in the drawing, and what was made by hand.  Remediation    *)
(* jobs are not part of this module; of a rollback, which undoes a change  *)
(* as the engineer may, only that is (EditDrawing).                        *)
(***************************************************************************)
EXTENDS Naturals

CONSTANTS Job, Plan, Call, IdKey, Editor, Handwork, JobOf, MaxSpecs,
          NoPlan, NoJob, NoCall, NoScope, NoKey

ASSUME JobOfType == JobOf \in [Call -> Job]
ASSUME BoundsType == MaxSpecs \in Nat
ASSUME SetsType == Job # {} /\ Handwork # {}

VARIABLES
    row,        \* row[j]: the job's row, or NoJob before it is created
    specs,      \* specs[j]: how many versions of its specification are stored
    plan,       \* plan[j]: the newest compiled plan of j
    approvals,  \* approvals[j]: the unrevoked approvals of j
    tokens,     \* the approval tokens handed out
    displayed,  \* what an engineer was shown and then approved
    executions, \* the receipts stored by finalize_commit
    lease,      \* the writer lease of the drawing
    edit,       \* edit[e]: what editor e is doing, with what it read
    stage,      \* stage[c]: how far call c is
    seen,       \* seen[c]: what the client asked and what c read
    status,     \* status[k]: what the bridge's journal knows of key k
    request,    \* request[c]: how far the bridge is with c's request
    reply,      \* reply[c]: what the bridge answered
    drawing,    \* the calls whose change was made in the drawing
    revision    \* the drawing's current revision

approvalVars == <<approvals, tokens, displayed>>
callVars == <<stage, seen>>
drawingVars == <<drawing, revision>>
bridgeVars == <<status, request, reply, drawingVars>>
vars == <<row, specs, plan, approvalVars, executions, lease, edit, callVars,
          bridgeVars>>

JobState == {"CREATED", "SPEC_ACCEPTED", "PLANNED", "PREVIEWED", "VALIDATED",
             "APPROVED", "COMMITTING", "COMMITTED", "UNKNOWN_COMMIT_STATE",
             "FAILED"}

\* ALLOWED_TRANSITIONS, without those to ROLLED_BACK and CANCELLED.
Allowed(s) ==
    CASE s = "CREATED" -> {"SPEC_ACCEPTED"}
      [] s = "SPEC_ACCEPTED" -> {"PLANNED"}
      [] s = "PLANNED" -> {"PREVIEWED", "SPEC_ACCEPTED"}
      [] s = "PREVIEWED" -> {"VALIDATED", "SPEC_ACCEPTED"}
      [] s = "VALIDATED" -> {"APPROVED", "SPEC_ACCEPTED"}
      [] s = "APPROVED" -> {"COMMITTING", "SPEC_ACCEPTED"}
      [] s = "COMMITTING" -> {"COMMITTED", "FAILED", "UNKNOWN_COMMIT_STATE"}
      [] s = "FAILED" -> {"PLANNED"}
      [] OTHER -> {}

Revision == [made : SUBSET Call, hand : Handwork]
Key == Job \X IdKey

PlanOrNone == Plan \cup {NoPlan}
Row == [state : JobState, plan : PlanOrNone, rev : Revision]
Scope == [job : Job, plan : Plan, rev : Revision]
Seen == [asked : Scope, key : IdKey, row : Row, approval : Scope \cup {NoScope}]

ASSUME NoJobIsNoRow == NoJob \notin Row

\* Faulty variant: the request is made from the plan that is the newest now.
AskedAnew(c) == [seen[c].asked EXCEPT !.plan = plan[JobOf[c]]]

Asked(c) == seen[c].asked
KeyOf(c) == <<JobOf[c], seen[c].key>>

Bridge == INSTANCE OnceOnlyCommit WITH
    applied <- {KeyOf(c) : c \in drawing},
    confirmed <- {KeyOf(c) : c \in {d \in Call : reply[d] = "ok"}}

EditStage == {"idle", "revoke", "accept", "compile", "plan", "preview",
              "validate", "display", "approve", "issue", "grant"}
\* "failed", "cut" and "mismatch" all leave the job FAILED: after an answer
\* of the bridge, a broken pipe, or a wrong readback of what was committed.
Ended == {"refused", "replayed", "committed", "failed", "cut", "mismatch",
          "unknown", "raised", "crashed"}
\* Inside "with lease_service.hold": the heartbeat thread is running.
Holding == {"leased", "sent", "ok", "cleared", "error", "broken", "doubt"}
Stage == {"idle", "job", "authorized", "checked"} \cup Holding \cup Ended

Blank == [made |-> {}, hand |-> CHOOSE h \in Handwork : TRUE]
Start == [state |-> "CREATED", plan |-> NoPlan, rev |-> Blank]
Nothing(j) == [at |-> "idle", job |-> j, row |-> Start, plan |-> NoPlan]
Unread == [asked |-> NoScope, key |-> NoKey, row |-> Start, approval |-> NoScope]
NoLease == [holder |-> NoCall, life |-> "lapsed"]
AnyJob == CHOOSE j \in Job : TRUE

TypeOK ==
    /\ row \in [Job -> Row \cup {NoJob}]
    /\ specs \in [Job -> Nat]
    /\ plan \in [Job -> PlanOrNone]
    /\ approvals \in [Job -> SUBSET Scope]
    /\ tokens \subseteq Scope
    /\ displayed \subseteq Job \X Plan
    /\ executions \subseteq [key : Key, asked : Scope]
    /\ lease \in [holder : Call \cup {NoCall},
                  life : {"renewed", "unrenewed", "lapsed"}]
    /\ edit \in [Editor -> [at : EditStage, job : Job, row : Row,
                            plan : PlanOrNone]]
    /\ stage \in [Call -> Stage]
    /\ seen \in [Call -> Seen \cup {Unread}]
    /\ status \in [Key -> Bridge!Status]
    /\ request \in [Call -> {"none", "queued", "claimed", "drawn", "replied"}]
    /\ reply \in [Call -> {"none", "ok", "refused", "unknown"}]
    /\ drawing \subseteq Call
    /\ revision \in Revision

Init ==
    /\ row = [j \in Job |-> NoJob]
    /\ specs = [j \in Job |-> 0]
    /\ plan = [j \in Job |-> NoPlan]
    /\ approvals = [j \in Job |-> {}]
    /\ tokens = {}
    /\ displayed = {}
    /\ executions = {}
    /\ lease = NoLease
    /\ edit = [e \in Editor |-> Nothing(AnyJob)]
    /\ stage = [c \in Call |-> "idle"]
    /\ seen = [c \in Call |-> Unread]
    /\ status = [k \in Key |-> "free"]
    /\ request = [c \in Call |-> "none"]
    /\ reply = [c \in Call |-> "none"]
    /\ drawing = {}
    /\ revision = Blank

-----------------------------------------------------------------------------
(* What an editor does: create, submit, preview, validate, approve.        *)

Exists(j) == row[j] # NoJob
SaveJob(j, r) == row' = [row EXCEPT ![j] = r]

\* _require_plan: the newest plan is the one the job's row names.
PlanIsCurrent(j) == Exists(j) /\ plan[j] # NoPlan /\ plan[j] = row[j].plan

EditorOnly == UNCHANGED <<callVars, bridgeVars, executions, lease>>

At(e, where) == edit' = [edit EXCEPT ![e].at = where]
Done(e) == edit' = [edit EXCEPT ![e] = Nothing(AnyJob)]
Read(e, j, where) ==
    /\ edit[e].at = "idle"
    /\ edit' = [edit EXCEPT ![e] = [at |-> where, job |-> j, row |-> row[j],
                                    plan |-> plan[j]]]
    /\ UNCHANGED <<row, specs, plan, approvalVars>>

\* create_job pins the revision that the inspection found.
Create(j) ==
    /\ row[j] = NoJob
    /\ SaveJob(j, [Start EXCEPT !.rev = revision])
    /\ UNCHANGED <<specs, plan, approvalVars, edit>>
    /\ EditorOnly

SubmitSpec(e, j) ==
    /\ Exists(j)
    /\ specs[j] < MaxSpecs
    /\ LET s == row[j].state IN
         \/ /\ s \in {"CREATED", "SPEC_ACCEPTED"}
            /\ Read(e, j, "accept")
         \/ /\ s \notin {"CREATED", "SPEC_ACCEPTED"}
            /\ "SPEC_ACCEPTED" \in Allowed(s)
            /\ Read(e, j, "revoke")
    /\ EditorOnly

Revoke(e) ==
    /\ edit[e].at = "revoke"
    /\ approvals' = [approvals EXCEPT ![edit[e].job] = {}]
    /\ At(e, "accept")
    /\ UNCHANGED <<row, specs, plan, tokens, displayed>>
    /\ EditorOnly

Accept(e) ==
    /\ edit[e].at = "accept"
    /\ SaveJob(edit[e].job, [edit[e].row EXCEPT !.state = "SPEC_ACCEPTED"])
    /\ specs' = [specs EXCEPT ![edit[e].job] = @ + 1]
    /\ At(e, "compile")
    /\ UNCHANGED <<plan, approvalVars>>
    /\ EditorOnly

Compile(e) ==
    /\ edit[e].at = "compile"
    /\ \E p \in Plan :
         /\ plan' = [plan EXCEPT ![edit[e].job] = p]
         /\ edit' = [edit EXCEPT ![e].at = "plan", ![e].plan = p]
    /\ UNCHANGED <<row, specs, approvalVars>>
    /\ EditorOnly

Planned(e) ==
    /\ edit[e].at = "plan"
    /\ SaveJob(edit[e].job, [edit[e].row EXCEPT !.state = "PLANNED",
                                                !.plan = edit[e].plan])
    /\ Done(e)
    /\ UNCHANGED <<specs, plan, approvalVars>>
    /\ EditorOnly

\* Rendering happens between the read and the save.
Preview(e, j) ==
    /\ PlanIsCurrent(j)
    /\ row[j].state = "PLANNED"
    /\ Read(e, j, "preview")
    /\ EditorOnly

Previewed(e) ==
    /\ edit[e].at = "preview"
    /\ SaveJob(edit[e].job, [edit[e].row EXCEPT !.state = "PREVIEWED"])
    /\ Done(e)
    /\ UNCHANGED <<specs, plan, approvalVars>>
    /\ EditorOnly

Validate(e, j) ==
    /\ PlanIsCurrent(j)
    /\ row[j].state = "PREVIEWED"
    /\ Read(e, j, "validate")
    /\ EditorOnly

Validated(e) ==
    /\ edit[e].at = "validate"
    /\ SaveJob(edit[e].job, [edit[e].row EXCEPT !.state = "VALIDATED"])
    /\ Done(e)
    /\ UNCHANGED <<specs, plan, approvalVars>>
    /\ EditorOnly

\* The desktop shows the engineer the newest plan ...
Display(e, j) ==
    /\ PlanIsCurrent(j)
    /\ row[j].state \in {"PREVIEWED", "VALIDATED"}
    /\ Read(e, j, "display")
    /\ EditorOnly

Reviewed(e) == plan[edit[e].job] = edit[e].plan

\* ... and approve requires that it and the drawing are still the same.
Approve(e) ==
    LET j == edit[e].job IN
    /\ edit[e].at = "display"
    /\ PlanIsCurrent(j)
    /\ Reviewed(e)
    /\ row[j].rev = revision
    /\ row[j].state # "APPROVED"
    /\ displayed' = displayed \cup {<<j, edit[e].plan>>}
    /\ edit' = [edit EXCEPT ![e].at = "approve", ![e].row = row[j],
                            ![e].plan = plan[j]]
    /\ UNCHANGED <<row, specs, plan, approvals, tokens>>
    /\ EditorOnly

\* The fresh validation reads the job again, and must be of the same plan.
ApproveValidate(e) ==
    LET j == edit[e].job IN
    /\ edit[e].at = "approve"
    /\ PlanIsCurrent(j)
    /\ plan[j] = edit[e].plan
    /\ row[j].state # "APPROVED"
    /\ IF row[j].state = "PREVIEWED"
       THEN SaveJob(j, [row[j] EXCEPT !.state = "VALIDATED"])
       ELSE UNCHANGED row
    /\ At(e, "issue")
    /\ UNCHANGED <<specs, plan, approvalVars>>
    /\ EditorOnly

ScopeOf(e) == [job |-> edit[e].job, plan |-> edit[e].plan,
               rev |-> edit[e].row.rev]

\* The approval is stored before the transition is tried.
Issue(e) ==
    /\ edit[e].at = "issue"
    /\ approvals' = [approvals EXCEPT ![edit[e].job] = @ \cup {ScopeOf(e)}]
    /\ IF edit[e].row.state = "VALIDATED" THEN At(e, "grant") ELSE Done(e)
    /\ UNCHANGED <<row, specs, plan, tokens, displayed>>
    /\ EditorOnly

Grant(e) ==
    /\ edit[e].at = "grant"
    /\ SaveJob(edit[e].job, [edit[e].row EXCEPT !.state = "APPROVED"])
    /\ tokens' = tokens \cup {ScopeOf(e)}
    /\ Done(e)
    /\ UNCHANGED <<specs, plan, approvals, displayed>>
    /\ EditorOnly

\* A needs_input answer, an error, or the end of the process.
GiveUp(e) ==
    /\ edit[e].at # "idle"
    /\ Done(e)
    /\ UNCHANGED <<row, specs, plan, approvalVars>>
    /\ EditorOnly

-----------------------------------------------------------------------------
(* commit, up to the write.                                                *)

CallOnly == UNCHANGED <<specs, plan, approvalVars, edit>>
Goto(c, where) == stage' = [stage EXCEPT ![c] = where]

\* get_job names the newest approval that is not revoked.  The order of
\* approvals is not kept, so it may be any.
Newest(j) == IF approvals[j] = {} THEN {NoScope} ELSE approvals[j]

\* A client calls with a key, a token and the scope the token is for; any other
\* combination is turned down by verify_approval_token.
ReadJob(c) ==
    LET j == JobOf[c] IN
    /\ stage[c] = "idle"
    /\ \E t \in tokens, a \in Newest(j), k \in IdKey :
         /\ t.job = j
         /\ seen' = [seen EXCEPT ![c] = [asked |-> t, key |-> k, row |-> row[j],
                                         approval |-> a]]
    /\ Goto(c, "job")
    /\ UNCHANGED <<row, executions, lease, bridgeVars>>
    /\ CallOnly

Previous(c) == {x \in executions : x.key = KeyOf(c)}

\* Faulty variant: any receipt stored under the key is good enough.
SameRequestAnyDigest(c) == TRUE

\* Step 1 of the gate: a key that was used for another request.
SameRequest(c) == \A x \in Previous(c) : x.asked = Asked(c)

StillApproved(c) == /\ seen[c].approval = Asked(c)
                    /\ seen[c].approval \in approvals[JobOf[c]]

\* Steps 1 to 3: the stored plan is exactly the submitted one, the approval
\* covers this request and is not revoked; a request that was already executed
\* is answered from its receipt.
Authorize(c) ==
    /\ stage[c] = "job"
    /\ PlanIsCurrent(JobOf[c])
    /\ SameRequest(c)
    /\ plan[JobOf[c]] = Asked(c).plan
    /\ StillApproved(c)
    /\ IF Previous(c) # {} THEN Goto(c, "replayed")
       ELSE /\ seen[c].row.state # "UNKNOWN_COMMIT_STATE"
            /\ Goto(c, "authorized")
    /\ UNCHANGED <<row, executions, lease, seen, bridgeVars>>
    /\ CallOnly

\* Steps 4 and 5: the fresh validation is of the same plan (it reads the job
\* and the plan again), and the drawing is at the approved revision.
Recheck(c) ==
    LET j == JobOf[c] IN
    /\ stage[c] = "authorized"
    /\ PlanIsCurrent(j)
    /\ plan[j] = Asked(c).plan
    /\ revision = Asked(c).rev
    /\ IF row[j].state = "PREVIEWED"
       THEN SaveJob(j, [row[j] EXCEPT !.state = "VALIDATED"])
       ELSE UNCHANGED row
    /\ Goto(c, "checked")
    /\ UNCHANGED <<executions, lease, seen, bridgeVars>>
    /\ CallOnly

\* Any of these gates, or the lease, may turn the call down.
Refuse(c) ==
    /\ stage[c] \in {"job", "authorized", "checked"}
    /\ Goto(c, "refused")
    /\ UNCHANGED <<row, executions, lease, seen, bridgeVars>>
    /\ CallOnly

\* Faulty variant: an expired lease still excludes everyone.
FreeOnlyIfReleased == lease.holder = NoCall

Free == lease.holder = NoCall \/ lease.life = "lapsed"

Acquire(c) ==
    /\ stage[c] = "checked"
    /\ Free
    /\ lease' = [holder |-> c, life |-> "renewed"]
    /\ Goto(c, "leased")
    /\ UNCHANGED <<row, executions, seen, bridgeVars>>
    /\ CallOnly

Without(c) == IF lease.holder = c THEN NoLease ELSE lease
Release(c) == lease' = Without(c)

\* The transition is checked against the job as it was read at the start;
\* the request then goes down the pipe, unless the audit of the start fails.
Send(c) ==
    /\ stage[c] = "leased"
    /\ IF "COMMITTING" \in Allowed(seen[c].row.state)
       THEN /\ SaveJob(JobOf[c], [seen[c].row EXCEPT !.state = "COMMITTING"])
            /\ \/ /\ request' = [request EXCEPT ![c] = "queued"]
                  /\ Goto(c, "sent")
                  /\ UNCHANGED lease
               \/ Goto(c, "raised") /\ Release(c) /\ UNCHANGED request
       ELSE Goto(c, "refused") /\ Release(c) /\ UNCHANGED <<row, request>>
    /\ UNCHANGED <<executions, seen, status, reply, drawingVars>>
    /\ CallOnly

-----------------------------------------------------------------------------
(* The bridge.  It goes on with a request whose client has given up.       *)

BridgeOnly ==
    /\ UNCHANGED <<row, executions, lease, callVars>>
    /\ CallOnly

Answer(c, a) ==
    /\ request' = [request EXCEPT ![c] = "replied"]
    /\ reply' = [reply EXCEPT ![c] = a]

\* The reservation; a replay, or doubt, when there is one already.
BridgeBegin(c) ==
    LET k == KeyOf(c) IN
    /\ BridgeOnly
    /\ request[c] = "queued"
    /\ UNCHANGED drawingVars
    /\ \/ /\ request' = [request EXCEPT ![c] = "claimed"]
          /\ UNCHANGED reply
          /\ Bridge!Claim(k)
       \/ /\ status[k] = "done"
          /\ \E d \in drawing : KeyOf(d) = k /\ Asked(d) = Asked(c)
          /\ Answer(c, "ok")
          /\ Bridge!Confirm(k)
       \/ /\ status[k] # "free"
          /\ \E a \in {"refused", "unknown"} : Answer(c, a)
          /\ UNCHANGED status

\* Faulty variant: the revision is not compared under the document lock.
AtAnyRevision(c) == TRUE

AtRevision(c) == revision = Asked(c).rev

\* What c's change makes of the content it was approved for.
After(c) == [Asked(c).rev EXCEPT !.made = @ \cup {c}]

\* Transaction.Commit, under the document lock.
BridgeDraw(c) ==
    /\ BridgeOnly
    /\ request[c] = "claimed"
    /\ AtRevision(c)
    /\ drawing' = drawing \cup {c}
    /\ revision' = [revision EXCEPT !.made = @ \cup {c}]
    /\ request' = [request EXCEPT ![c] = "drawn"]
    /\ UNCHANGED reply
    /\ Bridge!Apply(KeyOf(c))

\* The journal is settled before the answer; a refusal frees the key.
BridgeAnswer(c) ==
    LET k == KeyOf(c) IN
    /\ BridgeOnly
    /\ UNCHANGED drawingVars
    /\ \/ request[c] = "drawn" /\ Answer(c, "ok") /\ Bridge!Settle(k)
       \/ /\ request[c] \in {"claimed", "drawn"}
          /\ Answer(c, "unknown")
          /\ Bridge!Doubt({k})
       \/ request[c] = "claimed" /\ Answer(c, "refused") /\ Bridge!Release(k)
       \/ request[c] = "queued" /\ Answer(c, "refused") /\ UNCHANGED status

\* Someone works in the drawing: makes something by hand, or undoes, erases,
\* restores or redoes what was made, changes of calls included.
EditDrawing ==
    /\ \E h \in Handwork, m \in SUBSET drawing :
         revision' = [made |-> m, hand |-> h]
    /\ UNCHANGED <<status, request, reply, drawing>>
    /\ BridgeOnly

-----------------------------------------------------------------------------
(* commit, after the write was asked for.                                  *)

Receive(c) ==
    /\ stage[c] = "sent"
    /\ request[c] = "replied"
    /\ Goto(c, CASE reply[c] = "ok" -> "ok"
                 [] reply[c] = "refused" -> "error"
                 [] reply[c] = "unknown" -> "doubt")
    /\ UNCHANGED <<row, executions, lease, seen, bridgeVars>>
    /\ CallOnly

\* Faulty variant: a timeout is taken for a failure.
TimesOutAsError(c) ==
    /\ stage[c] = "sent"
    /\ Goto(c, "error")
    /\ UNCHANGED <<row, executions, lease, seen, bridgeVars>>
    /\ CallOnly

\* The deadline passes: the bridge never proves that it aborted, so the
\* adapter raises UnknownCommitStateError.
TimesOut(c) ==
    /\ stage[c] = "sent"
    /\ Goto(c, "doubt")
    /\ UNCHANGED <<row, executions, lease, seen, bridgeVars>>
    /\ CallOnly

\* The pipe breaks, or what came back is no valid answer: the adapter raises
\* ComCallFailedError.
PipeBreaks(c) ==
    /\ stage[c] = "sent"
    /\ Goto(c, "broken")
    /\ UNCHANGED <<row, executions, lease, seen, bridgeVars>>
    /\ CallOnly

LeaseIsValid(c) == lease.holder = c /\ lease.life = "renewed"

\* finalize_job and finalize_commit: the row, the receipt and the lease in
\* one transaction.  rev is the revision the row gets.
Finalize(c, state, rev, end) ==
    /\ SaveJob(JobOf[c], [seen[c].row EXCEPT !.state = state, !.rev = rev])
    /\ Release(c)
    /\ Goto(c, end)
    /\ UNCHANGED <<seen, bridgeVars>>
    /\ CallOnly

Unchanged(c) == seen[c].row.rev

\* commit raised: the job is UNKNOWN if the adapter says so or the lease is
\* no longer good, and FAILED otherwise.
FinishError(c) ==
    /\ stage[c] \in {"error", "broken", "doubt"}
    /\ IF stage[c] = "doubt" \/ ~LeaseIsValid(c)
       THEN Finalize(c, "UNKNOWN_COMMIT_STATE", Unchanged(c), "unknown")
       ELSE Finalize(c, "FAILED", Unchanged(c),
                     IF stage[c] = "broken" THEN "cut" ELSE "failed")
    /\ UNCHANGED executions

\* The lease is looked at before COMMITTED is written.
Clear(c) ==
    /\ stage[c] = "ok"
    /\ IF LeaseIsValid(c)
       THEN /\ Goto(c, "cleared")
            /\ UNCHANGED <<row, lease, seen, bridgeVars>>
            /\ CallOnly
       ELSE Finalize(c, "UNKNOWN_COMMIT_STATE", Unchanged(c), "unknown")
    /\ UNCHANGED executions

Receipt(c) == [key |-> KeyOf(c), asked |-> Asked(c)]

\* The result names the revision that the change of its key led to.
NewRevision(c) == After(CHOOSE d \in drawing : KeyOf(d) = KeyOf(c))

\* The receipt row is unique per job and key.
Store(c) ==
    /\ Previous(c) = {}
    /\ executions' = executions \cup {Receipt(c)}

FinishMismatch(c) ==
    /\ stage[c] = "ok"
    /\ Store(c)
    /\ Finalize(c, "FAILED", NewRevision(c), "mismatch")

FinishCommitted(c) ==
    /\ stage[c] = "cleared"
    /\ Store(c)
    /\ Finalize(c, "COMMITTED", NewRevision(c), "committed")

\* The last transaction fails (a second receipt, or the database): nothing
\* of it is stored, and the lease is given back on the way out if it can be.
FinishRaises(c) ==
    /\ stage[c] \in {"ok", "cleared", "error", "broken", "doubt"}
    /\ Release(c) \/ UNCHANGED lease
    /\ Goto(c, "raised")
    /\ UNCHANGED <<row, executions, seen, bridgeVars>>
    /\ CallOnly

\* The process running the call dies; its lease row stays.  (Before it had
\* the lease, its death is no different from Refuse.)
Crash(c) ==
    /\ stage[c] \in Holding
    /\ Goto(c, "crashed")
    /\ UNCHANGED <<row, executions, lease, seen, bridgeVars>>
    /\ CallOnly

\* The heartbeat fails or its process is gone; then the lease runs out.
RenewalStops ==
    /\ lease.life = "renewed"
    /\ lease' = [lease EXCEPT !.life = "unrenewed"]
    /\ UNCHANGED <<row, executions, callVars, bridgeVars>>
    /\ CallOnly

Lapse ==
    /\ lease.life # "lapsed"
    /\ lease' = [lease EXCEPT !.life = "lapsed"]
    /\ UNCHANGED <<row, executions, callVars, bridgeVars>>
    /\ CallOnly

EditorStep(e) ==
    \/ \E j \in Job : \/ SubmitSpec(e, j) \/ Preview(e, j) \/ Validate(e, j)
                      \/ Display(e, j)
    \/ Revoke(e) \/ Accept(e) \/ Compile(e) \/ Planned(e) \/ Previewed(e)
    \/ Validated(e) \/ Approve(e) \/ ApproveValidate(e) \/ Issue(e)
    \/ Grant(e) \/ GiveUp(e)

Finish(c) ==
    \/ FinishError(c) \/ Clear(c) \/ FinishMismatch(c) \/ FinishCommitted(c)
    \/ FinishRaises(c)

CallStep(c) ==
    \/ ReadJob(c) \/ Authorize(c) \/ Recheck(c) \/ Refuse(c) \/ Acquire(c)
    \/ Send(c) \/ Receive(c) \/ TimesOut(c) \/ PipeBreaks(c) \/ Finish(c)
    \/ Crash(c)

BridgeStep(c) == BridgeBegin(c) \/ BridgeDraw(c) \/ BridgeAnswer(c)

Next ==
    \/ \E j \in Job : Create(j)
    \/ \E e \in Editor : EditorStep(e)
    \/ \E c \in Call : CallStep(c) \/ BridgeStep(c)
    \/ EditDrawing \/ RenewalStops \/ Lapse

Spec == Init /\ [][Next]_vars

\* A call that has begun goes on, its wait for the bridge having a deadline,
\* unless its process dies; a lease that nobody renews runs out, and nobody
\* renews the lease of a dead process.
Fairness ==
    /\ \A c \in Call : WF_vars(stage[c] # "idle" /\ CallStep(c))
    /\ WF_vars((lease.holder \in Call => stage[lease.holder] \notin Holding)
               /\ RenewalStops)
    /\ WF_vars(lease.life = "unrenewed" /\ Lapse)

FairSpec == Spec /\ Fairness

-----------------------------------------------------------------------------
(* Properties.                                                             *)

\* Nothing is drawn but a plan that an engineer was shown, for that job
\* (displayed_plan_hash in approve, then the token, the approval and the plan
\* checks of commit, over every interleaving with a resubmission).
OnlyReviewedPlans == \A c \in drawing : <<JobOf[c], Asked(c).plan>> \in displayed

\* No commit draws next to another change of its job, whatever keys and
\* retries there are: the revision a job is pinned to is checked again under
\* the document lock.  (A change that was taken back is no longer there: its
\* revision is back, and an overlapping call with another key draws again.)
OneChangePerJob ==
    [][\A c \in drawing' \ drawing : \A d \in revision.made :
            JobOf[d] # JobOf[c]]_vars

\* A call that fails on an answer of the bridge has not changed the drawing,
\* and its request can no longer do so (everything less certain becomes
\* UNKNOWN_COMMIT_STATE, the broken pipe excepted).
FailureIsProven == \A c \in Call : stage[c] = "failed" => c \notin drawing

\* What a caller is told was committed, also from a stored receipt, was drawn,
\* by a commit of the same key and the same plan; so was every receipt in the
\* store, and a change of every job that the store has as COMMITTED.
SuccessIsTrue ==
    /\ \A c \in Call : stage[c] \in {"committed", "mismatch", "replayed"} =>
         \E d \in drawing : KeyOf(d) = KeyOf(c) /\ Asked(d) = Asked(c)
    /\ \A x \in executions : \E d \in drawing : KeyOf(d) = x.key /\ Asked(d) = x.asked
    /\ \A j \in Job : Exists(j) /\ row[j].state = "COMMITTED" =>
         \E d \in drawing : JobOf[d] = j

\* A drawing is never locked for good: whatever happens to the process that
\* holds the lease, someone else can acquire it again.
DocumentIsFreed == []<>Free

\* Architecture, retry policy: after an "IPC disconnect with unknown commit
\* outcome" the job is UNKNOWN_COMMIT_STATE; one that is FAILED instead must
\* not have been drawn.
DisconnectIsNotFailed == \A c \in Call : stage[c] = "cut" => c \notin drawing
=============================================================================
