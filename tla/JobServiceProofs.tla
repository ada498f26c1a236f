---------------------------- MODULE JobServiceProofs ----------------------------
(***************************************************************************)
(* Proofs about JobService, for any jobs, plans, calls, keys and editors.  *)
(***************************************************************************)
EXTENDS JobService, TLAPS

\* A commit of the given key and request was drawn.
InDrawing(key, asked) == \E d \in drawing : KeyOf(d) = key /\ Asked(d) = asked

\* What the drawing holds of the calls was drawn for them.
Contained == revision.made \subseteq drawing

\* A token belongs to a job that exists, and to a plan that was displayed.
Tokens ==
    \A t \in tokens : row[t.job] # NoJob /\ <<t.job, t.plan>> \in displayed

\* The plan that approve goes on with was displayed.
Approving ==
    \A e \in Editor : edit[e].at \in {"approve", "issue", "grant"} =>
        <<edit[e].job, edit[e].plan>> \in displayed

\* A call asks for what a token was issued for.
Asking ==
    \A c \in Call :
        /\ stage[c] # "idle" => /\ seen[c] \in Seen
                                /\ Asked(c) \in tokens /\ Asked(c).job = JobOf[c]
        /\ stage[c] \in {"idle", "job", "authorized", "checked", "leased"} =>
             request[c] = "none"

\* What the bridge has done for a call, and what it answered.
Answered ==
    \A c \in Call :
        /\ c \in drawing => /\ request[c] \in {"drawn", "replied"}
                            /\ c \notin Asked(c).rev.made /\ reply[c] # "refused"
        /\ request[c] = "drawn" => c \in drawing
        /\ reply[c] # "none" <=> request[c] = "replied"
        /\ reply[c] = "ok" => InDrawing(KeyOf(c), Asked(c))

\* What a call makes of the answer.
Concluded ==
    /\ \A c \in Call :
         /\ stage[c] \in {"error", "failed"} => reply[c] = "refused"
         /\ stage[c] \in {"ok", "cleared", "committed", "mismatch"} => reply[c] = "ok"
         /\ stage[c] = "replayed" => InDrawing(KeyOf(c), Asked(c))
    /\ \A x \in executions : InDrawing(x.key, x.asked)

\* Until a job has its result, whatever was read of it names one revision.
Settled == {"COMMITTED", "FAILED"}
NamesRevision(j, r) ==
    /\ row[j] # NoJob /\ row[j].state \notin Settled => row[j].rev = r
    /\ \A e \in Editor :
         edit[e].at # "idle" /\ edit[e].job = j /\ edit[e].row.state \notin Settled =>
             edit[e].row.rev = r
    /\ \A c \in Call :
         stage[c] # "idle" /\ JobOf[c] = j /\ seen[c].row.state \notin Settled =>
             seen[c].row.rev = r
    /\ \A t \in tokens : t.job = j => t.rev = r
Pinned == \A j \in Job : \E r \in Revision : NamesRevision(j, r)

\* A step that needs a state finds it in what it read.
StateRead ==
    /\ \A e \in Editor :
         /\ edit[e].at \in {"revoke", "accept", "compile", "plan", "preview", "validate"} =>
              edit[e].row.state \notin Settled
         /\ edit[e].at = "grant" => edit[e].row.state = "VALIDATED"
         /\ edit[e].at # "idle" => row[edit[e].job] # NoJob
    /\ \A c \in Call : stage[c] \in Holding \ {"leased"} => seen[c].row.state = "APPROVED"

\* A job that the store has as COMMITTED was drawn.
Recorded == \A j \in Job : row[j] # NoJob /\ row[j].state = "COMMITTED" =>
                \E d \in drawing : JobOf[d] = j

IInv == /\ TypeOK /\ Contained /\ Tokens /\ Approving /\ Asking /\ Answered
        /\ Concluded /\ Pinned /\ StateRead /\ Recorded

-----------------------------------------------------------------------------
(* Type correctness.                                                       *)

EditType == [at : EditStage, job : Job, row : Row, plan : PlanOrNone]

LEMMA BlankIsRevision == Blank \in Revision
<1>1. (CHOOSE h \in Handwork : TRUE) \in Handwork
  BY SetsType
<1> QED BY <1>1 DEF Blank, Revision

LEMMA Shapes ==
    /\ Start \in Row /\ Start.state = "CREATED" /\ AnyJob \in Job
    /\ Nothing(AnyJob) \in EditType /\ Nothing(AnyJob).at = "idle"
    /\ \A r \in Row, s \in JobState : [r EXCEPT !.state = s] \in Row
    /\ \A r \in Row, n \in Revision : [r EXCEPT !.rev = n] \in Row
    /\ \A r \in Row, s \in JobState, p \in PlanOrNone :
         [r EXCEPT !.state = s, !.plan = p] \in Row
    /\ \A r \in Row, s \in JobState, n \in Revision :
         [r EXCEPT !.state = s, !.rev = n] \in Row
<1>1. Start \in Row /\ Start.state = "CREATED"
  BY BlankIsRevision DEF Start, Row, JobState, PlanOrNone
<1>2. AnyJob \in Job
  BY SetsType DEF AnyJob
<1>3. Nothing(AnyJob) \in EditType /\ Nothing(AnyJob).at = "idle"
  BY <1>1, <1>2 DEF Nothing, EditType, EditStage, PlanOrNone
<1> QED BY <1>1, <1>2, <1>3 DEF Row

EditorVars ==
    /\ row \in [Job -> Row \cup {NoJob}]
    /\ specs \in [Job -> Nat]
    /\ plan \in [Job -> PlanOrNone]
    /\ approvals \in [Job -> SUBSET Scope]
    /\ tokens \subseteq Scope
    /\ displayed \subseteq Job \X Plan
    /\ edit \in [Editor -> EditType]

LEMMA EditorOnlyType == TypeOK /\ EditorOnly /\ EditorVars' => TypeOK'
BY DEF TypeOK, EditorOnly, EditorVars, EditType, callVars, bridgeVars, drawingVars

LEMMA EditorType ==
    ASSUME IInv, NEW e \in Editor, EditorStep(e)
    PROVE  TypeOK'
<1>0. EditorVars
  BY DEF IInv, TypeOK, EditorVars, EditType
<1> USE DEF EditorVars, approvalVars
<1>1. ASSUME NEW j \in Job, NEW where \in EditStage, Exists(j), Read(e, j, where)
      PROVE  EditorVars'
  BY <1>0, <1>1 DEF Exists, Read, EditType
<1>2. ASSUME NEW where \in EditStage, At(e, where)
      PROVE  edit' \in [Editor -> EditType]
  BY <1>0, <1>2 DEF At, EditType
<1>3. ASSUME Done(e)
      PROVE  edit' \in [Editor -> EditType]
  BY <1>0, <1>3, Shapes DEF Done
<1>4. ASSUME NEW j \in Job, NEW r \in Row, SaveJob(j, r)
      PROVE  row' \in [Job -> Row \cup {NoJob}]
  BY <1>0, <1>4 DEF SaveJob
<1>5. edit[e] \in EditType /\ edit[e].job \in Job /\ edit[e].row \in Row
      /\ edit[e].plan \in PlanOrNone
  BY <1>0 DEF EditType
<1>s. /\ {"accept", "revoke", "compile", "plan", "preview", "validate", "display",
          "approve", "issue", "grant"} \subseteq EditStage
      /\ {"SPEC_ACCEPTED", "PLANNED", "PREVIEWED", "VALIDATED", "APPROVED"} \subseteq JobState
  BY DEF EditStage, JobState
<1>6. \A j \in Job : SubmitSpec(e, j) \/ Preview(e, j) \/ Validate(e, j) \/ Display(e, j)
        => EditorVars' /\ EditorOnly
  BY <1>1, <1>s DEF SubmitSpec, Preview, Validate, Display, PlanIsCurrent
<1>7. Revoke(e) => EditorVars' /\ EditorOnly
  BY <1>0, <1>2, <1>5, <1>s DEF Revoke
<1>8. Accept(e) => EditorVars' /\ EditorOnly
  <2> SUFFICES ASSUME Accept(e) PROVE EditorVars' /\ EditorOnly
    OBVIOUS
  <2>1. row' \in [Job -> Row \cup {NoJob}] /\ edit' \in [Editor -> EditType]
    BY <1>2, <1>4, <1>5, <1>s, Shapes DEF Accept
  <2>2. specs' \in [Job -> Nat]
    BY <1>0, <1>5 DEF Accept
  <2> QED BY <1>0, <2>1, <2>2 DEF Accept
<1>9. Compile(e) => EditorVars' /\ EditorOnly
  <2> SUFFICES ASSUME Compile(e) PROVE EditorVars' /\ EditorOnly
    OBVIOUS
  <2>1. PICK p \in Plan : /\ plan' = [plan EXCEPT ![edit[e].job] = p]
                          /\ edit' = [edit EXCEPT ![e].at = "plan", ![e].plan = p]
    BY DEF Compile
  <2>2. p \in PlanOrNone
    BY DEF PlanOrNone
  <2>3. edit' \in [Editor -> EditType]
    BY <1>0, <1>s, <2>1, <2>2 DEF EditType
  <2> QED BY <1>0, <1>5, <2>1, <2>2, <2>3 DEF Compile
<1>10. Planned(e) => EditorVars' /\ EditorOnly
  BY <1>0, <1>3, <1>4, <1>5, <1>s, Shapes DEF Planned
<1>11. Previewed(e) \/ Validated(e) => EditorVars' /\ EditorOnly
  BY <1>0, <1>3, <1>4, <1>5, <1>s, Shapes DEF Previewed, Validated
<1>12. Approve(e) => EditorVars' /\ EditorOnly
  <2> SUFFICES ASSUME Approve(e) PROVE EditorVars' /\ EditorOnly
    OBVIOUS
  <2>1. row[edit[e].job] \in Row /\ plan[edit[e].job] \in Plan
        /\ plan[edit[e].job] = edit[e].plan
    BY <1>0, <1>5 DEF Approve, PlanIsCurrent, Exists, PlanOrNone, Reviewed
  <2>2. edit' \in [Editor -> EditType]
    BY <1>0, <1>5, <1>s, <2>1 DEF Approve, EditType, PlanOrNone
  <2> QED BY <1>0, <1>5, <2>1, <2>2 DEF Approve
<1>13. ApproveValidate(e) => EditorVars' /\ EditorOnly
  BY <1>0, <1>2, <1>4, <1>5, <1>s, Shapes DEF ApproveValidate, PlanIsCurrent, Exists
<1>14. edit[e].at \in {"issue", "grant"} => ScopeOf(e) \in Scope
  <2>1. edit[e].row.rev \in Revision
    BY <1>5 DEF Row
  <2>2. edit[e].at \in {"issue", "grant"} => edit[e].plan \in Plan
    BY <1>0 DEF IInv, Approving
  <2> QED BY <1>5, <2>1, <2>2 DEF ScopeOf, Scope
<1>15. Issue(e) => EditorVars' /\ EditorOnly
  BY <1>0, <1>2, <1>3, <1>5, <1>14, <1>s DEF Issue
<1>16. Grant(e) => EditorVars' /\ EditorOnly
  BY <1>0, <1>3, <1>4, <1>5, <1>14, <1>s, Shapes DEF Grant
<1>17. GiveUp(e) => EditorVars' /\ EditorOnly
  BY <1>0, <1>3 DEF GiveUp
<1> QED BY <1>6, <1>7, <1>8, <1>9, <1>10, <1>11, <1>12, <1>13, <1>15, <1>16, <1>17,
           EditorOnlyType DEF EditorStep, IInv

CallVars ==
    /\ row \in [Job -> Row \cup {NoJob}]
    /\ executions \subseteq [key : Key, asked : Scope]
    /\ lease \in [holder : Call \cup {NoCall}, life : {"renewed", "unrenewed", "lapsed"}]
    /\ stage \in [Call -> Stage]
    /\ seen \in [Call -> Seen \cup {Unread}]

LEMMA CallOnlyType ==
    TypeOK /\ CallOnly /\ UNCHANGED <<status, reply, drawing, revision>> /\ CallVars'
    /\ request' \in [Call -> {"none", "queued", "claimed", "drawn", "replied"}] => TypeOK'
BY DEF TypeOK, CallOnly, CallVars, approvalVars

\* What a call asked for, once it has begun.
LEMMA AskedType ==
    ASSUME IInv, NEW c \in Call, stage[c] # "idle"
    PROVE  /\ Asked(c) \in Scope /\ Asked(c).rev \in Revision /\ KeyOf(c) \in Key
           /\ JobOf[c] \in Job /\ seen[c].row \in Row /\ seen[c].row.rev \in Revision
           /\ Receipt(c) \in [key : Key, asked : Scope]
<1>1. seen[c] \in Seen /\ JobOf[c] \in Job
  BY JobOfType DEF IInv, Asking
<1>2. Asked(c) \in Scope /\ KeyOf(c) \in Key /\ seen[c].row \in Row
  BY <1>1 DEF Seen, Asked, KeyOf, Key
<1> QED BY <1>1, <1>2 DEF Scope, Row, Receipt

LEMMA NewRevisionType ==
    ASSUME IInv, NEW c \in Call, stage[c] \in {"ok", "cleared"}
    PROVE  NewRevision(c) \in Revision
<1> DEFINE d == CHOOSE x \in drawing : KeyOf(x) = KeyOf(c)
<1>1. \E x \in drawing : KeyOf(x) = KeyOf(c)
  BY DEF IInv, Concluded, Answered, InDrawing
<1>2. d \in drawing
  BY <1>1
<1>3. d \in Call /\ stage[d] # "idle"
  BY <1>2 DEF IInv, TypeOK, Answered, Asking
<1>4. Asked(d).rev \in Revision
  BY <1>3, AskedType
<1>5. After(d) \in Revision
  BY <1>3, <1>4 DEF After, Revision
<1> QED BY <1>5 DEF NewRevision

LEMMA CallType ==
    ASSUME IInv, NEW c \in Call, CallStep(c)
    PROVE  TypeOK'
<1>0. CallVars /\ TypeOK
  BY DEF IInv, TypeOK, CallVars
<1> USE DEF CallVars, bridgeVars, drawingVars
<1>s. /\ {"job", "replayed", "authorized", "checked", "refused", "leased", "sent", "raised",
          "ok", "error", "doubt", "broken", "unknown", "cut", "failed", "cleared",
          "mismatch", "committed", "crashed"} \subseteq Stage
      /\ {"VALIDATED", "COMMITTING", "UNKNOWN_COMMIT_STATE", "FAILED", "COMMITTED"}
           \subseteq JobState
  BY DEF Stage, Holding, Ended, JobState
<1>1. ASSUME NEW where \in Stage, Goto(c, where)
      PROVE  stage' \in [Call -> Stage]
  BY <1>0, <1>1 DEF Goto
<1>2. ASSUME NEW r \in Row, SaveJob(JobOf[c], r)
      PROVE  row' \in [Job -> Row \cup {NoJob}]
  BY <1>0, <1>2, JobOfType DEF SaveJob
<1>3. ASSUME Release(c)
      PROVE  lease' \in [holder : Call \cup {NoCall}, life : {"renewed", "unrenewed", "lapsed"}]
  BY <1>0, <1>3 DEF Release, Without, NoLease
<1>4. ASSUME stage[c] # "idle"
      PROVE  seen[c].row \in Row /\ Receipt(c) \in [key : Key, asked : Scope]
             /\ seen[c].row.rev \in Revision
  BY <1>4, AskedType
<1>5. ASSUME stage[c] # "idle", NEW s \in JobState, NEW n \in Revision, NEW end \in Stage,
             Finalize(c, s, n, end), executions' \subseteq [key : Key, asked : Scope]
      PROVE  TypeOK'
  <2>1. row' \in [Job -> Row \cup {NoJob}]
    BY <1>2, <1>4, <1>5, Shapes DEF Finalize
  <2>2. CallVars'
    BY <1>0, <1>1, <1>3, <1>5, <2>1 DEF Finalize
  <2> QED BY <1>0, <1>5, <2>2, CallOnlyType DEF Finalize, TypeOK
<1>6. ReadJob(c) => TypeOK'
  <2> SUFFICES ASSUME ReadJob(c) PROVE TypeOK'
    OBVIOUS
  <2>1. PICK t \in tokens, a \in Newest(JobOf[c]), k \in IdKey :
         /\ t.job = JobOf[c]
         /\ seen' = [seen EXCEPT ![c] = [asked |-> t, key |-> k, row |-> row[JobOf[c]],
                                         approval |-> a]]
    BY DEF ReadJob
  <2>2. t \in Scope /\ a \in Scope \cup {NoScope} /\ row[JobOf[c]] \in Row
    BY <1>0, <2>1, JobOfType DEF TypeOK, Newest, IInv, Tokens
  <2>3. seen' \in [Call -> Seen \cup {Unread}]
    BY <1>0, <2>1, <2>2 DEF Seen
  <2>4. CallVars'
    BY <1>0, <1>1, <1>s, <2>3 DEF ReadJob
  <2> QED BY <1>0, <2>4, CallOnlyType DEF ReadJob, TypeOK
<1>7. Authorize(c) \/ Refuse(c) \/ TimesOut(c) \/ PipeBreaks(c) \/ Crash(c)
        \/ Acquire(c) => TypeOK'
  <2>1. Authorize(c) \/ Refuse(c) \/ TimesOut(c) \/ PipeBreaks(c) \/ Crash(c) => CallVars'
    BY <1>0, <1>1, <1>s DEF Authorize, Refuse, TimesOut, PipeBreaks, Crash
  <2>2. Acquire(c) => CallVars'
    BY <1>0, <1>1, <1>s DEF Acquire
  <2> QED BY <1>0, <2>1, <2>2, CallOnlyType
          DEF Authorize, Refuse, TimesOut, PipeBreaks, Crash, Acquire, TypeOK
<1>8. Recheck(c) => TypeOK'
  <2> SUFFICES ASSUME Recheck(c) PROVE TypeOK'
    OBVIOUS
  <2>1. row[JobOf[c]] \in Row
    BY <1>0, JobOfType DEF Recheck, PlanIsCurrent, Exists
  <2>2. row' \in [Job -> Row \cup {NoJob}]
    BY <1>0, <1>2, <1>s, <2>1, Shapes DEF Recheck
  <2>3. CallVars'
    BY <1>0, <1>1, <1>s, <2>2 DEF Recheck
  <2> QED BY <1>0, <2>3, CallOnlyType DEF Recheck, TypeOK
<1>9. Send(c) => TypeOK'
  <2> SUFFICES ASSUME Send(c) PROVE TypeOK'
    OBVIOUS
  <2>1. row' \in [Job -> Row \cup {NoJob}]
    BY <1>0, <1>2, <1>4, <1>s, Shapes DEF Send
  <2>2. lease' \in [holder : Call \cup {NoCall}, life : {"renewed", "unrenewed", "lapsed"}]
    BY <1>0, <1>3 DEF Send
  <2>3. stage' \in [Call -> Stage]
    BY <1>1, <1>s DEF Send
  <2>4. request' \in [Call -> {"none", "queued", "claimed", "drawn", "replied"}]
    BY <1>0 DEF Send, TypeOK
  <2>5. CallVars'
    BY <1>0, <2>1, <2>2, <2>3 DEF Send
  <2> QED BY <1>0, <2>4, <2>5, CallOnlyType DEF Send
<1>10. Receive(c) => TypeOK'
  <2> SUFFICES ASSUME Receive(c) PROVE TypeOK'
    OBVIOUS
  <2>1. reply[c] \in {"ok", "refused", "unknown"}
    BY <1>0 DEF Receive, TypeOK, IInv, Answered
  <2>2. stage' \in [Call -> Stage]
    <3>1. CASE reply[c] = "ok"
      BY <1>1, <1>s, <3>1 DEF Receive
    <3>2. CASE reply[c] = "refused"
      BY <1>1, <1>s, <3>2 DEF Receive
    <3>3. CASE reply[c] = "unknown"
      BY <1>1, <1>s, <3>3 DEF Receive
    <3> QED BY <2>1, <3>1, <3>2, <3>3
  <2>3. CallVars'
    BY <1>0, <2>2 DEF Receive
  <2> QED BY <1>0, <2>3, CallOnlyType DEF Receive, TypeOK
<1>11. FinishError(c) \/ Clear(c) => TypeOK'
  <2>1. FinishError(c) => TypeOK'
    BY <1>0, <1>4, <1>5, <1>s DEF FinishError, Unchanged
  <2>2. Clear(c) => TypeOK'
    <3> SUFFICES ASSUME Clear(c) PROVE TypeOK'
      OBVIOUS
    <3>1. CASE LeaseIsValid(c)
      <4>1. CallVars'
        BY <1>0, <1>1, <1>s, <3>1 DEF Clear
      <4> QED BY <1>0, <3>1, <4>1, CallOnlyType DEF Clear, TypeOK
    <3>2. CASE ~LeaseIsValid(c)
      BY <1>0, <1>4, <1>5, <1>s, <3>2 DEF Clear, Unchanged
    <3> QED BY <3>1, <3>2
  <2> QED BY <2>1, <2>2
<1>12. FinishMismatch(c) \/ FinishCommitted(c) => TypeOK'
  BY <1>0, <1>4, <1>5, <1>s, NewRevisionType DEF FinishMismatch, FinishCommitted, Store
<1>13. FinishRaises(c) => TypeOK'
  <2> SUFFICES ASSUME FinishRaises(c) PROVE TypeOK'
    OBVIOUS
  <2>1. CallVars'
    BY <1>0, <1>1, <1>3, <1>s DEF FinishRaises
  <2> QED BY <1>0, <2>1, CallOnlyType DEF FinishRaises, TypeOK
<1> QED BY <1>6, <1>7, <1>8, <1>9, <1>10, <1>11, <1>12, <1>13 DEF CallStep, Finish

LEMMA BridgeType ==
    ASSUME IInv, NEW c \in Call, BridgeStep(c)
    PROVE  TypeOK'
<1>0. TypeOK /\ stage[c] # "idle" /\ KeyOf(c) \in Key
  <2>1. request[c] # "none"
    BY DEF BridgeStep, BridgeBegin, BridgeDraw, BridgeAnswer
  <2> QED BY <2>1, AskedType DEF IInv, Asking
<1>1. request' \in [Call -> {"none", "queued", "claimed", "drawn", "replied"}]
  <2>1. request' = request \/ \E r \in {"claimed", "drawn", "replied"} :
                                request' = [request EXCEPT ![c] = r]
    BY DEF BridgeStep, BridgeBegin, BridgeDraw, BridgeAnswer, Answer
  <2> QED BY <1>0, <2>1 DEF TypeOK
<1>2. reply' \in [Call -> {"none", "ok", "refused", "unknown"}]
  BY <1>0 DEF BridgeStep, BridgeBegin, BridgeDraw, BridgeAnswer, Answer, TypeOK
<1>3. status' \in [Key -> Bridge!Status]
  BY <1>0 DEF BridgeStep, BridgeBegin, BridgeDraw, BridgeAnswer, TypeOK, Bridge!Claim,
              Bridge!Apply, Bridge!Release, Bridge!Settle, Bridge!Doubt, Bridge!Confirm,
              Bridge!Status
<1>4. drawing' \subseteq Call
  BY <1>0 DEF BridgeStep, BridgeBegin, BridgeDraw, BridgeAnswer, TypeOK, drawingVars
<1>5. revision' \in Revision
  <2>1. CASE BridgeDraw(c)
    BY <1>0, <2>1 DEF BridgeDraw, TypeOK, Revision
  <2>2. CASE ~BridgeDraw(c)
    BY <1>0, <2>2 DEF BridgeStep, BridgeBegin, BridgeAnswer, TypeOK, drawingVars
  <2> QED BY <2>1, <2>2
<1>6. BridgeOnly
  BY DEF BridgeStep, BridgeBegin, BridgeDraw, BridgeAnswer
<1> QED BY <1>0, <1>1, <1>2, <1>3, <1>4, <1>5, <1>6
        DEF TypeOK, BridgeOnly, CallOnly, approvalVars, callVars

LEMMA OthersType ==
    IInv /\ ((\E j \in Job : Create(j)) \/ EditDrawing \/ RenewalStops \/ Lapse
             \/ UNCHANGED vars) => TypeOK'
<1>1. ASSUME IInv, NEW j \in Job, Create(j) PROVE TypeOK'
  <2>1. [Start EXCEPT !.rev = revision] \in Row
    BY <1>1, Shapes DEF IInv, TypeOK
  <2>2. EditorVars'
    BY <1>1, <2>1 DEF Create, SaveJob, IInv, TypeOK, EditorVars, EditType, approvalVars
  <2> QED BY <1>1, <2>2, EditorOnlyType DEF IInv, Create
<1>2. ASSUME IInv, EditDrawing PROVE TypeOK'
  <2>1. revision' \in Revision
    BY <1>2 DEF EditDrawing, IInv, TypeOK, Revision
  <2> QED BY <1>2, <2>1 DEF IInv, TypeOK, EditDrawing, BridgeOnly, CallOnly, approvalVars, callVars
<1>3. ASSUME IInv, RenewalStops \/ Lapse PROVE TypeOK'
  BY <1>3 DEF IInv, TypeOK, RenewalStops, Lapse, CallOnly, approvalVars, callVars, bridgeVars, drawingVars
<1>4. ASSUME IInv, UNCHANGED vars PROVE TypeOK'
  BY <1>4 DEF IInv, TypeOK, vars, approvalVars, callVars, bridgeVars, drawingVars
<1> QED BY <1>1, <1>2, <1>3, <1>4

LEMMA TypeIsKept == IInv /\ [Next]_vars => TypeOK'
BY EditorType, CallType, BridgeType, OthersType DEF Next

-----------------------------------------------------------------------------
(* What never goes back.                                                   *)

LEMMA AllowedFrom ==
    ASSUME NEW s \in JobState
    PROVE  /\ "COMMITTING" \in Allowed(s) => s = "APPROVED"
           /\ "SPEC_ACCEPTED" \in Allowed(s) => s \notin Settled
<1>1. CASE s = "APPROVED"
  BY <1>1 DEF Settled
<1>2. CASE s = "COMMITTED"
  BY <1>2 DEF Allowed, Settled
<1>3. CASE s = "FAILED"
  BY <1>3 DEF Allowed, Settled
<1>4. CASE s \in JobState \ {"APPROVED", "COMMITTED", "FAILED"}
  <2>1. "COMMITTING" \notin Allowed(s)
    BY <1>4 DEF Allowed, JobState
  <2> QED BY <1>4, <2>1 DEF Settled
<1> QED BY <1>1, <1>2, <1>3, <1>4

Forward ==
    /\ \A j \in Job : row[j] # NoJob => row'[j] # NoJob
    /\ displayed \subseteq displayed' /\ tokens \subseteq tokens'
    /\ drawing \subseteq drawing'
    /\ \A c \in Call : stage[c] # "idle" => stage'[c] # "idle" /\ seen'[c] = seen[c]

LEMMA ForwardEditor ==
    ASSUME IInv, NEW e \in Editor, EditorStep(e)
    PROVE  Forward
<1>1. TypeOK /\ edit[e].row \in Row
  BY DEF IInv, TypeOK
<1>2. ASSUME NEW j \in Job, NEW r \in Row, SaveJob(j, r)
      PROVE  \A k \in Job : row[k] # NoJob => row'[k] # NoJob
  BY <1>1, <1>2, NoJobIsNoRow DEF SaveJob, TypeOK
<1>3. \A j \in Job : row[j] # NoJob => row'[j] # NoJob
  <2>1. edit[e].job \in Job
        /\ {"SPEC_ACCEPTED", "PLANNED", "PREVIEWED", "VALIDATED", "APPROVED"} \subseteq JobState
        /\ edit[e].plan \in PlanOrNone
    BY <1>1 DEF TypeOK, JobState
  <2>2. CASE UNCHANGED row
    BY <2>2
  <2>3. CASE Accept(e) \/ Planned(e) \/ Previewed(e) \/ Validated(e) \/ Grant(e)
    BY <1>1, <1>2, <2>1, <2>3, Shapes DEF Accept, Planned, Previewed, Validated, Grant
  <2>4. CASE ApproveValidate(e)
    <3>1. row[edit[e].job] \in Row
      BY <1>1, <2>1, <2>4 DEF ApproveValidate, PlanIsCurrent, Exists, TypeOK
    <3> QED BY <1>2, <2>1, <2>4, <3>1, Shapes DEF ApproveValidate
  <2> QED BY <2>2, <2>3, <2>4 DEF EditorStep, SubmitSpec, Preview, Validate, Display, Read,
            Revoke, Compile, Approve, Issue, GiveUp
<1>4. displayed \subseteq displayed' /\ tokens \subseteq tokens'
  BY DEF EditorStep, SubmitSpec, Preview, Validate, Display, Read, Revoke, Accept, Compile,
         Planned, Previewed, Validated, Approve, ApproveValidate, Issue, Grant, GiveUp,
         approvalVars
<1>5. EditorOnly
  BY DEF EditorStep, SubmitSpec, Preview, Validate, Display, Revoke, Accept, Compile,
         Planned, Previewed, Validated, Approve, ApproveValidate, Issue, Grant, GiveUp
<1> QED BY <1>3, <1>4, <1>5 DEF Forward, EditorOnly, callVars, bridgeVars, drawingVars

LEMMA ForwardCall ==
    ASSUME IInv, NEW c \in Call, CallStep(c)
    PROVE  Forward /\ CallOnly /\ UNCHANGED <<status, reply, drawing, revision>>
<1>1. TypeOK /\ JobOf[c] \in Job
  BY JobOfType DEF IInv, TypeOK
<1>2. CallOnly /\ UNCHANGED <<status, reply, drawing, revision>>
  BY DEF CallStep, Finish, ReadJob, Authorize, Recheck, Refuse, Acquire, Send, Receive,
         TimesOut, PipeBreaks, FinishError, Clear, FinishMismatch, FinishCommitted,
         FinishRaises, Crash, Finalize, bridgeVars, drawingVars
<1>3. \A j \in Job : row[j] # NoJob => row'[j] # NoJob
  <2>1. ASSUME NEW r \in Row, SaveJob(JobOf[c], r)
        PROVE  \A j \in Job : row[j] # NoJob => row'[j] # NoJob
    BY <1>1, <2>1, NoJobIsNoRow DEF SaveJob, TypeOK
  <2>2. CASE UNCHANGED row
    BY <2>2
  <2>3. CASE Recheck(c)
    <3>1. row[JobOf[c]] \in Row
      BY <1>1, <2>3 DEF Recheck, PlanIsCurrent, Exists, TypeOK
    <3> QED BY <2>1, <2>3, <3>1, Shapes DEF Recheck, JobState
  <2>4. CASE Send(c)
    BY <2>1, <2>4, AskedType, Shapes DEF Send, JobState
  <2>5. CASE FinishError(c) \/ Clear(c)
    BY <2>1, <2>5, AskedType, Shapes DEF FinishError, Clear, Finalize, Unchanged, JobState
  <2>6. CASE FinishMismatch(c) \/ FinishCommitted(c)
    BY <2>1, <2>6, AskedType, NewRevisionType, Shapes
       DEF FinishMismatch, FinishCommitted, Finalize, JobState
  <2> QED BY <2>2, <2>3, <2>4, <2>5, <2>6 DEF CallStep, Finish, ReadJob, Authorize, Refuse,
            Acquire, Receive, TimesOut, PipeBreaks, FinishRaises, Crash
<1>4. \A d \in Call \ {c} : stage'[d] = stage[d] /\ seen'[d] = seen[d]
  BY <1>1 DEF CallStep, Finish, ReadJob, Authorize, Recheck, Refuse, Acquire, Send, Receive,
         TimesOut, PipeBreaks, FinishError, Clear, FinishMismatch, FinishCommitted,
         FinishRaises, Crash, Finalize, Goto, TypeOK
<1>5. ReadJob(c) \/ seen' = seen
  BY DEF CallStep, Finish, Authorize, Recheck, Refuse, Acquire, Send, Receive,
         TimesOut, PipeBreaks, FinishError, Clear, FinishMismatch, FinishCommitted,
         FinishRaises, Crash, Finalize
<1>6. stage[c] # "idle" => stage'[c] # "idle" /\ seen'[c] = seen[c]
  <2>1. stage'[c] # "idle"
    <3>1. CASE Receive(c)
      <4>1. reply[c] \in {"ok", "refused", "unknown"}
        BY <1>1, <3>1 DEF Receive, TypeOK, IInv, Answered
      <4>2. stage'[c] \in {"ok", "error", "doubt"}
        <5>1. CASE reply[c] = "ok"
          BY <1>1, <3>1, <5>1 DEF Receive, Goto, TypeOK
        <5>2. CASE reply[c] = "refused"
          BY <1>1, <3>1, <5>2 DEF Receive, Goto, TypeOK
        <5>3. CASE reply[c] = "unknown"
          BY <1>1, <3>1, <5>3 DEF Receive, Goto, TypeOK
        <5> QED BY <4>1, <5>1, <5>2, <5>3
      <4> QED BY <4>2
    <3>2. CASE ~Receive(c)
      BY <1>1, <3>2 DEF CallStep, Finish, ReadJob, Authorize, Recheck, Refuse, Acquire, Send,
         TimesOut, PipeBreaks, FinishError, Clear, FinishMismatch, FinishCommitted,
         FinishRaises, Crash, Finalize, Goto, TypeOK
    <3> QED BY <3>1, <3>2
  <2> QED BY <1>5, <2>1 DEF ReadJob
<1> QED BY <1>2, <1>3, <1>4, <1>6 DEF Forward, CallOnly, approvalVars

LEMMA GoesForward == IInv /\ [Next]_vars => Forward
<1>1. ASSUME IInv, NEW c \in Call, BridgeStep(c) PROVE Forward
  BY <1>1 DEF BridgeStep, BridgeBegin, BridgeDraw, BridgeAnswer, BridgeOnly, CallOnly,
              Forward, approvalVars, callVars, drawingVars
<1>2. ASSUME IInv, NEW j \in Job, Create(j) PROVE Forward
  BY <1>2 DEF Create, EditorOnly, SaveJob, Forward, approvalVars, callVars, bridgeVars,
              drawingVars, IInv, TypeOK
<1>3. ASSUME EditDrawing \/ RenewalStops \/ Lapse \/ UNCHANGED vars PROVE Forward
  BY <1>3 DEF EditDrawing, RenewalStops, Lapse, BridgeOnly, CallOnly, vars,
              Forward, approvalVars, callVars, bridgeVars, drawingVars
<1> QED BY <1>1, <1>2, <1>3, ForwardEditor, ForwardCall DEF Next

LEMMA InDrawingKept ==
    ASSUME IInv, Forward, NEW key, NEW asked, InDrawing(key, asked)
    PROVE  InDrawing(key, asked)'
<1>1. PICK d \in drawing : KeyOf(d) = key /\ Asked(d) = asked
  BY DEF InDrawing
<1>2. d \in Call /\ stage[d] # "idle"
  BY DEF IInv, TypeOK, Answered, Asking
<1>3. d \in drawing' /\ seen'[d] = seen[d]
  BY <1>2 DEF Forward
<1> QED BY <1>1, <1>3 DEF InDrawing, KeyOf, Asked

-----------------------------------------------------------------------------
(* Every step keeps the other conjuncts.                                   *)

LEMMA ContainedKept == IInv /\ [Next]_vars => Contained'
<1> SUFFICES ASSUME IInv, [Next]_vars PROVE Contained'
  OBVIOUS
<1>1. drawing \subseteq Call /\ revision \in Revision /\ revision.made \subseteq drawing
  BY DEF IInv, TypeOK, Contained
<1>2. ASSUME NEW c \in Call, BridgeDraw(c) PROVE Contained'
  BY <1>1, <1>2 DEF BridgeDraw, Contained, Revision
<1>3. CASE EditDrawing
  BY <1>3 DEF EditDrawing, Contained
<1>4. CASE UNCHANGED <<drawing, revision>>
  BY <1>1, <1>4 DEF Contained
<1>5. ASSUME NEW c \in Call, BridgeBegin(c) \/ BridgeAnswer(c)
      PROVE  UNCHANGED <<drawing, revision>>
  BY <1>5 DEF BridgeBegin, BridgeAnswer, drawingVars
<1>6. (\E e \in Editor : EditorStep(e)) \/ (\E j \in Job : Create(j)) => EditorOnly
  BY DEF Create, EditorStep, SubmitSpec, Preview, Validate, Display, Revoke, Accept, Compile,
         Planned, Previewed, Validated, Approve, ApproveValidate, Issue, Grant, GiveUp
<1>7. EditorOnly \/ RenewalStops \/ Lapse \/ UNCHANGED vars => UNCHANGED <<drawing, revision>>
  BY DEF EditorOnly, RenewalStops, Lapse, vars, bridgeVars, drawingVars
<1> QED BY <1>2, <1>3, <1>4, <1>5, <1>6, <1>7, ForwardCall DEF Next, BridgeStep

\* Only an editor hands out tokens and moves on with its own plan and row.
LEMMA NotTheEditor ==
    ASSUME IInv, [Next]_vars, \A e \in Editor : ~EditorStep(e)
    PROVE  UNCHANGED <<tokens, displayed, edit>>
<1>1. ASSUME NEW c \in Call, BridgeStep(c) PROVE UNCHANGED <<tokens, displayed, edit>>
  BY <1>1 DEF BridgeStep, BridgeBegin, BridgeDraw, BridgeAnswer, BridgeOnly, CallOnly,
              approvalVars
<1>2. ASSUME NEW c \in Call, CallStep(c) PROVE UNCHANGED <<tokens, displayed, edit>>
  BY <1>2, ForwardCall DEF CallOnly, approvalVars
<1>3. ASSUME NEW j \in Job, Create(j) PROVE UNCHANGED <<tokens, displayed, edit>>
  BY <1>3 DEF Create, approvalVars
<1>4. EditDrawing \/ RenewalStops \/ Lapse \/ UNCHANGED vars
        => UNCHANGED <<tokens, displayed, edit>>
  BY DEF EditDrawing, RenewalStops, Lapse, BridgeOnly, CallOnly, vars, approvalVars
<1> QED BY <1>1, <1>2, <1>3, <1>4 DEF Next

LEMMA TokensKept == IInv /\ [Next]_vars => Tokens'
<1> SUFFICES ASSUME IInv, [Next]_vars PROVE Tokens'
  OBVIOUS
<1>1. Forward
  BY GoesForward
<1>2. \A t \in tokens : t \in Scope /\ t.job \in Job
  BY DEF IInv, TypeOK, Scope
<1>3. \A t \in tokens : row'[t.job] # NoJob /\ <<t.job, t.plan>> \in displayed'
  BY <1>1, <1>2 DEF IInv, Tokens, Forward
<1>4. ASSUME NEW e \in Editor, Grant(e) PROVE Tokens'
  <2>1. ScopeOf(e).job = edit[e].job /\ ScopeOf(e).plan = edit[e].plan
    BY DEF ScopeOf
  <2>2. edit[e].job \in Job /\ row[edit[e].job] # NoJob
        /\ <<edit[e].job, edit[e].plan>> \in displayed
    BY <1>4 DEF Grant, IInv, TypeOK, StateRead, Approving
  <2> QED BY <1>1, <1>3, <1>4, <2>1, <2>2 DEF Grant, Tokens, Forward
<1>5. CASE UNCHANGED tokens
  BY <1>3, <1>5 DEF Tokens
<1>6. ASSUME NEW e \in Editor, EditorStep(e) PROVE Grant(e) \/ UNCHANGED tokens
  BY <1>6 DEF EditorStep, SubmitSpec, Preview, Validate, Display, Read, Revoke, Accept,
         Compile, Planned, Previewed, Validated, Approve, ApproveValidate, Issue, GiveUp,
         approvalVars
<1> QED BY <1>4, <1>5, <1>6, NotTheEditor

\* What one step of an editor does to what it remembers.
EditorMove(e) ==
    /\ \A f \in Editor \ {e} : edit'[f] = edit[f]
    /\ edit'[e].at \in {"approve", "issue", "grant"} =>
         <<edit'[e].job, edit'[e].plan>> \in displayed'
    /\ edit'[e].at # "idle" => edit'[e].job \in Job /\ row[edit'[e].job] # NoJob
    /\ edit'[e].at \in {"revoke", "accept", "compile", "plan", "preview", "validate"} =>
         edit'[e].row.state \notin Settled
    /\ edit'[e].at = "grant" => edit'[e].row.state = "VALIDATED"
    /\ edit'[e].at # "idle" =>
         \/ /\ edit[e].at # "idle"
            /\ edit'[e].job = edit[e].job /\ edit'[e].row = edit[e].row
         \/ edit'[e].row = row[edit'[e].job]

LEMMA EditorMoves ==
    ASSUME IInv, NEW e \in Editor, EditorStep(e)
    PROVE  EditorMove(e)
<1>0. /\ TypeOK /\ edit[e].job \in Job /\ edit \in [Editor -> EditType]
      /\ edit[e].at # "idle" => row[edit[e].job] # NoJob
  BY DEF IInv, TypeOK, StateRead, EditType
<1> USE DEF EditorMove
<1>1. ASSUME NEW j \in Job, row[j] # NoJob, NEW where \in EditStage, Read(e, j, where),
             where \notin {"approve", "issue", "grant"},
             where = "display" \/ row[j].state \notin Settled
      PROVE  EditorMove(e)
  BY <1>0, <1>1 DEF Read
<1>2. ASSUME NEW j \in Job,
             SubmitSpec(e, j) \/ Preview(e, j) \/ Validate(e, j) \/ Display(e, j)
      PROVE  EditorMove(e)
  <2>1. row[j] # NoJob /\ row[j] \in Row /\ row[j].state \in JobState
    BY <1>0, <1>2 DEF SubmitSpec, Preview, Validate, Display, PlanIsCurrent, Exists, TypeOK, Row
  <2>2. CASE SubmitSpec(e, j)
    <3>1. row[j].state \notin Settled
      BY <2>1, <2>2, AllowedFrom DEF SubmitSpec, Settled
    <3> QED BY <1>1, <2>1, <2>2, <3>1 DEF SubmitSpec, EditStage
  <2>3. CASE Preview(e, j)
    BY <1>1, <2>1, <2>3 DEF Preview, Settled, EditStage
  <2>4. CASE Validate(e, j)
    BY <1>1, <2>1, <2>4 DEF Validate, Settled, EditStage
  <2>5. CASE Display(e, j)
    BY <1>1, <2>1, <2>5 DEF Display, EditStage
  <2> QED BY <1>2, <2>2, <2>3, <2>4, <2>5
<1>3. ASSUME Done(e) PROVE EditorMove(e)
  BY <1>0, <1>3, Shapes DEF Done
<1>4. Planned(e) \/ Previewed(e) \/ Validated(e) \/ Grant(e) \/ GiveUp(e) => EditorMove(e)
  BY <1>3 DEF Planned, Previewed, Validated, Grant, GiveUp
<1>5. Revoke(e) \/ Accept(e) => EditorMove(e)
  BY <1>0 DEF Revoke, Accept, At, IInv, StateRead, EditType
<1>6. Compile(e) => EditorMove(e)
  BY <1>0 DEF Compile, IInv, StateRead, EditType
<1>7. Approve(e) => EditorMove(e)
  <2> SUFFICES ASSUME Approve(e) PROVE EditorMove(e)
    OBVIOUS
  <2>1. /\ edit'[e].at = "approve" /\ edit'[e].job = edit[e].job
        /\ edit'[e].row = row[edit[e].job] /\ edit'[e].plan = plan[edit[e].job]
        /\ \A f \in Editor \ {e} : edit'[f] = edit[f]
    BY <1>0 DEF Approve, EditType
  <2>2. <<edit[e].job, plan[edit[e].job]>> \in displayed'
    BY DEF Approve, Reviewed
  <2>3. row[edit[e].job] # NoJob
    BY DEF Approve, PlanIsCurrent, Exists
  <2> QED BY <1>0, <2>1, <2>2, <2>3
<1>8. ApproveValidate(e) => EditorMove(e)
  BY <1>0 DEF ApproveValidate, At, IInv, Approving, EditType, approvalVars
<1>9. Issue(e) => EditorMove(e)
  <2> SUFFICES ASSUME Issue(e) PROVE EditorMove(e)
    OBVIOUS
  <2>1. CASE edit[e].row.state = "VALIDATED"
    BY <1>0, <2>1 DEF Issue, At, IInv, Approving, EditType
  <2>2. CASE edit[e].row.state # "VALIDATED"
    BY <1>3, <2>2 DEF Issue
  <2> QED BY <2>1, <2>2
<1> HIDE DEF EditorMove
<1> QED BY <1>2, <1>4, <1>5, <1>6, <1>7, <1>8, <1>9 DEF EditorStep

LEMMA ApprovingKept == IInv /\ [Next]_vars => Approving'
<1> SUFFICES ASSUME IInv, [Next]_vars PROVE Approving'
  OBVIOUS
<1>1. Forward
  BY GoesForward
<1>2. ASSUME NEW e \in Editor, EditorStep(e) PROVE Approving'
  BY <1>1, <1>2, EditorMoves DEF Forward, EditorMove, IInv, Approving
<1>3. CASE UNCHANGED <<displayed, edit>>
  BY <1>3 DEF IInv, Approving
<1> QED BY <1>2, <1>3, NotTheEditor

\* What one step of a call does to its own stage, from and to.
Early == {"idle", "job", "authorized", "checked"}

CallMove(c, from, to) ==
    /\ from = stage[c] /\ stage' = [stage EXCEPT ![c] = to]
    /\ from = "idle" => to = "job"
    /\ to \in Early \cup {"leased"} => from \in Early
    /\ to \in Holding \ {"leased"} => seen[c].row.state = "APPROVED"
    /\ to \in {"error", "failed"} => reply[c] = "refused"
    /\ to \in {"ok", "cleared", "committed", "mismatch"} => reply[c] = "ok"
    /\ to = "replayed" => \E x \in executions : x.key = KeyOf(c) /\ x.asked = Asked(c)
    /\ \/ request' = request
       \/ /\ from = "leased" /\ to = "sent"
          /\ request' = [request EXCEPT ![c] = "queued"]
    /\ \/ executions' = executions
       \/ to \in {"committed", "mismatch"} /\ executions' = executions \cup {Receipt(c)}

LEMMA CallMoves ==
    ASSUME IInv, NEW c \in Call, CallStep(c)
    PROVE  \E to \in Stage : CallMove(c, stage[c], to)
<1>0. /\ TypeOK /\ stage[c] \in Stage
      /\ stage[c] \in {"error", "failed"} => reply[c] = "refused"
      /\ stage[c] \in {"ok", "cleared", "committed", "mismatch"} => reply[c] = "ok"
      /\ stage[c] \in Holding \ {"leased"} => seen[c].row.state = "APPROVED"
  BY DEF IInv, TypeOK, Concluded, StateRead
<1> USE DEF CallMove, Goto, bridgeVars, drawingVars
<1>s. /\ {"job", "replayed", "authorized", "checked", "refused", "leased", "sent", "raised",
          "ok", "error", "doubt", "broken", "unknown", "cut", "failed", "cleared",
          "mismatch", "committed", "crashed"} \subseteq Stage
      /\ {"sent", "ok", "cleared", "error", "broken", "doubt"} \subseteq Holding
  BY DEF Stage, Holding, Ended
<1>1. CASE ReadJob(c)
  <2>1. CallMove(c, stage[c], "job")
    BY <1>1 DEF ReadJob, Holding, Early
  <2> QED BY <1>s, <2>1
<1>2. CASE Authorize(c)
  <2>1. CASE Previous(c) # {}
    <3>1. \E x \in executions : x.key = KeyOf(c) /\ x.asked = Asked(c)
      BY <1>2, <2>1 DEF Authorize, Previous, SameRequest
    <3>2. CallMove(c, stage[c], "replayed")
      BY <1>2, <2>1, <3>1 DEF Authorize, Holding, Early
    <3> QED BY <1>s, <3>2
  <2>2. CASE Previous(c) = {}
    <3>1. CallMove(c, stage[c], "authorized")
      BY <1>2, <2>2 DEF Authorize, Holding, Early
    <3> QED BY <1>s, <3>1
  <2> QED BY <2>1, <2>2
<1>3. CASE Recheck(c)
  <2>1. CallMove(c, stage[c], "checked")
    BY <1>3 DEF Recheck, Holding, Early
  <2> QED BY <1>s, <2>1
<1>4. CASE Refuse(c)
  <2>1. CallMove(c, stage[c], "refused")
    BY <1>4 DEF Refuse, Holding, Early
  <2> QED BY <1>s, <2>1
<1>5. CASE Acquire(c)
  <2>1. CallMove(c, stage[c], "leased")
    BY <1>5 DEF Acquire, Holding, Early
  <2> QED BY <1>s, <2>1
<1>6. CASE Send(c)
  <2>1. stage[c] = "leased"
    BY <1>6 DEF Send
  <2>2. "COMMITTING" \in Allowed(seen[c].row.state) => seen[c].row.state = "APPROVED"
    <3>1. seen[c].row.state \in JobState
      BY <2>1, AskedType DEF Row
    <3> QED BY <3>1, AllowedFrom
  <2>3. CallMove(c, stage[c], "sent") \/ CallMove(c, stage[c], "raised")
          \/ CallMove(c, stage[c], "refused")
    BY <1>6, <2>1, <2>2 DEF Send, Holding, Early
  <2> QED BY <1>s, <2>3
<1>7. CASE Receive(c)
  <2>1. reply[c] \in {"ok", "refused", "unknown"} /\ stage[c] = "sent"
        /\ executions' = executions /\ request' = request
    BY <1>0, <1>7 DEF Receive, IInv, Answered, TypeOK
  <2>2. CASE reply[c] = "ok"
    <3>1. Goto(c, "ok")
      BY <1>7, <2>2 DEF Receive
    <3>2. CallMove(c, stage[c], "ok")
      BY <1>0, <1>s, <2>1, <2>2, <3>1 DEF Early
    <3> QED BY <1>s, <3>2
  <2>3. CASE reply[c] = "refused"
    <3>1. Goto(c, "error")
      BY <1>7, <2>3 DEF Receive
    <3>2. CallMove(c, stage[c], "error")
      BY <1>0, <1>s, <2>1, <2>3, <3>1 DEF Early
    <3> QED BY <1>s, <3>2
  <2>4. CASE reply[c] = "unknown"
    <3>1. Goto(c, "doubt")
      BY <1>7, <2>4 DEF Receive
    <3>2. CallMove(c, stage[c], "doubt")
      BY <1>0, <1>s, <2>1, <2>4, <3>1 DEF Early
    <3> QED BY <1>s, <3>2
  <2> QED BY <2>1, <2>2, <2>3, <2>4
<1>8. CASE TimesOut(c)
  <2>1. CallMove(c, stage[c], "doubt")
    BY <1>0, <1>s, <1>8 DEF TimesOut, Early
  <2> QED BY <1>s, <2>1
<1>9. CASE PipeBreaks(c)
  <2>1. CallMove(c, stage[c], "broken")
    BY <1>0, <1>s, <1>9 DEF PipeBreaks, Early
  <2> QED BY <1>s, <2>1
<1>10. CASE Crash(c)
  <2>1. CallMove(c, stage[c], "crashed")
    BY <1>10 DEF Crash, Holding, Early
  <2> QED BY <1>s, <2>1
<1>11. CASE FinishRaises(c)
  <2>1. CallMove(c, stage[c], "raised")
    BY <1>11 DEF FinishRaises, Holding, Early
  <2> QED BY <1>s, <2>1
<1>12. CASE FinishError(c)
  <2>1. CallMove(c, stage[c], "unknown") \/ CallMove(c, stage[c], "cut")
          \/ CallMove(c, stage[c], "failed")
    <3>1. CASE stage[c] = "doubt" \/ ~LeaseIsValid(c)
      BY <1>12, <3>1 DEF FinishError, Finalize, Holding, Early
    <3>2. CASE ~(stage[c] = "doubt" \/ ~LeaseIsValid(c)) /\ stage[c] = "broken"
      BY <1>12, <3>2 DEF FinishError, Finalize, Holding, Early
    <3>3. CASE ~(stage[c] = "doubt" \/ ~LeaseIsValid(c)) /\ stage[c] # "broken"
      BY <1>0, <1>12, <3>3 DEF FinishError, Finalize, Holding, Early
    <3> QED BY <3>1, <3>2, <3>3
  <2> QED BY <1>s, <2>1
<1>13. CASE Clear(c)
  <2>1. CASE LeaseIsValid(c)
    <3>1. CallMove(c, stage[c], "cleared")
      BY <1>0, <1>s, <1>13, <2>1 DEF Clear, Early
    <3> QED BY <1>s, <3>1
  <2>2. CASE ~LeaseIsValid(c)
    <3>1. CallMove(c, stage[c], "unknown")
      BY <1>13, <2>2 DEF Clear, Finalize, Holding, Early
    <3> QED BY <1>s, <3>1
  <2> QED BY <2>1, <2>2
<1>14. CASE FinishMismatch(c)
  <2>1. CallMove(c, stage[c], "mismatch")
    BY <1>0, <1>14 DEF FinishMismatch, Store, Finalize, Holding, Early
  <2> QED BY <1>s, <2>1
<1>15. CASE FinishCommitted(c)
  <2>1. CallMove(c, stage[c], "committed")
    BY <1>0, <1>15 DEF FinishCommitted, Store, Finalize, Holding, Early
  <2> QED BY <1>s, <2>1
<1> HIDE DEF CallMove
<1> QED BY <1>1, <1>2, <1>3, <1>4, <1>5, <1>6, <1>7, <1>8, <1>9, <1>10, <1>11, <1>12, <1>13,
           <1>14, <1>15 DEF CallStep, Finish

LEMMA NotACall ==
    ASSUME [Next]_vars, \A c \in Call : ~CallStep(c)
    PROVE  UNCHANGED <<stage, seen, executions>>
<1>1. ASSUME NEW c \in Call, BridgeStep(c) PROVE UNCHANGED <<stage, seen, executions>>
  BY <1>1 DEF BridgeStep, BridgeBegin, BridgeDraw, BridgeAnswer, BridgeOnly, callVars
<1>2. (\E e \in Editor : EditorStep(e)) \/ (\E j \in Job : Create(j)) => EditorOnly
  BY DEF Create, EditorStep, SubmitSpec, Preview, Validate, Display, Revoke, Accept, Compile,
         Planned, Previewed, Validated, Approve, ApproveValidate, Issue, Grant, GiveUp
<1>3. EditorOnly \/ EditDrawing \/ RenewalStops \/ Lapse \/ UNCHANGED vars
        => UNCHANGED <<stage, seen, executions>>
  BY DEF EditorOnly, EditDrawing, RenewalStops, Lapse, BridgeOnly, vars, callVars
<1> QED BY <1>1, <1>2, <1>3 DEF Next

LEMMA StateReadKept == IInv /\ [Next]_vars => StateRead'
<1> SUFFICES ASSUME IInv, [Next]_vars PROVE StateRead'
  OBVIOUS
<1> DEFINE Edits == \A e \in Editor :
         /\ edit[e].at \in {"revoke", "accept", "compile", "plan", "preview", "validate"} =>
              edit[e].row.state \notin Settled
         /\ edit[e].at = "grant" => edit[e].row.state = "VALIDATED"
         /\ edit[e].at # "idle" => row[edit[e].job] # NoJob
           Calls == \A c \in Call :
              stage[c] \in Holding \ {"leased"} => seen[c].row.state = "APPROVED"
<1>1. Forward
  BY GoesForward
<1>2. Edits /\ Calls /\ \A e \in Editor : edit[e].job \in Job
  BY DEF IInv, StateRead, TypeOK
<1>3. Edits'
  <2>1. ASSUME NEW e \in Editor, EditorStep(e) PROVE Edits'
    <3>1. EditorMove(e)
      BY <2>1, EditorMoves
    <3>2. ASSUME NEW f \in Editor \ {e}
          PROVE  edit'[f] = edit[f] /\ edit[f].job \in Job
      BY <1>2, <3>1 DEF EditorMove
    <3>3. edit'[e].at # "idle" => row'[edit'[e].job] # NoJob
      BY <1>1, <3>1 DEF EditorMove, Forward
    <3> QED BY <1>1, <1>2, <3>1, <3>2, <3>3 DEF EditorMove, Forward
  <2>2. CASE UNCHANGED edit
    BY <1>1, <1>2, <2>2 DEF Forward
  <2> QED BY <2>1, <2>2, NotTheEditor
<1>4. Calls'
  <2>1. ASSUME NEW c \in Call, CallStep(c) PROVE Calls'
    <3>1. PICK to \in Stage : CallMove(c, stage[c], to)
      BY <2>1, CallMoves
    <3>2. /\ stage'[c] = to /\ \A d \in Call \ {c} : stage'[d] = stage[d]
          /\ stage[c] = "idle" => to = "job"
          /\ to \in Holding \ {"leased"} => seen[c].row.state = "APPROVED"
      BY <3>1 DEF CallMove, IInv, TypeOK
    <3>3. \A d \in Call : stage'[d] \in Holding \ {"leased"} => seen'[d] = seen[d]
      BY <1>1, <3>2 DEF Forward, Holding
    <3> QED BY <1>2, <3>2, <3>3
  <2>2. CASE UNCHANGED <<stage, seen>>
    BY <1>2, <2>2
  <2> QED BY <2>1, <2>2, NotACall
<1> QED BY <1>3, <1>4 DEF StateRead

\* What one step of the bridge does for a call.
BridgeMove(c) ==
    /\ \A d \in Call \ {c} : request'[d] = request[d] /\ reply'[d] = reply[d]
    /\ \/ /\ request[c] = "queued" /\ request'[c] = "claimed" /\ reply'[c] = reply[c]
          /\ UNCHANGED drawing
       \/ /\ request[c] \in {"queued", "claimed", "drawn"} /\ request'[c] = "replied"
          /\ UNCHANGED drawing
          /\ \/ reply'[c] = "unknown"
             \/ reply'[c] = "refused" /\ request[c] # "drawn"
             \/ reply'[c] = "ok" /\ InDrawing(KeyOf(c), Asked(c))
       \/ /\ request[c] = "claimed" /\ request'[c] = "drawn" /\ reply'[c] = reply[c]
          /\ drawing' = drawing \cup {c} /\ revision = Asked(c).rev

LEMMA BridgeMoves ==
    ASSUME IInv, NEW c \in Call, BridgeStep(c)
    PROVE  BridgeMove(c) /\ BridgeOnly
<1>0. /\ request \in [Call -> {"none", "queued", "claimed", "drawn", "replied"}]
      /\ reply \in [Call -> {"none", "ok", "refused", "unknown"}]
  BY DEF IInv, TypeOK
<1>1. CASE BridgeBegin(c)
  BY <1>0, <1>1 DEF BridgeBegin, Answer, BridgeMove, InDrawing, drawingVars
<1>2. CASE BridgeDraw(c)
  BY <1>0, <1>2 DEF BridgeDraw, AtRevision, BridgeMove
<1>3. CASE BridgeAnswer(c)
  <2>1. request[c] = "drawn" => InDrawing(KeyOf(c), Asked(c))
    BY DEF IInv, Answered, InDrawing
  <2> QED BY <1>0, <1>3, <2>1 DEF BridgeAnswer, Answer, BridgeMove, drawingVars
<1> QED BY <1>1, <1>2, <1>3 DEF BridgeStep

LEMMA Quiet ==
    ASSUME IInv, [Next]_vars, \A c \in Call : ~CallStep(c) /\ ~BridgeStep(c)
    PROVE  UNCHANGED <<stage, seen, executions, request, reply, drawing>>
<1>1. (\E e \in Editor : EditorStep(e)) \/ (\E j \in Job : Create(j)) => EditorOnly
  BY DEF Create, EditorStep, SubmitSpec, Preview, Validate, Display, Revoke, Accept, Compile,
         Planned, Previewed, Validated, Approve, ApproveValidate, Issue, Grant, GiveUp
<1>2. EditorOnly \/ EditDrawing \/ RenewalStops \/ Lapse \/ UNCHANGED vars
        => UNCHANGED <<stage, seen, executions, request, reply, drawing>>
  BY DEF EditorOnly, EditDrawing, RenewalStops, Lapse, BridgeOnly, vars, callVars, bridgeVars,
         drawingVars
<1> QED BY <1>1, <1>2 DEF Next

LEMMA AskingKept == IInv /\ [Next]_vars => Asking'
<1> SUFFICES ASSUME IInv, [Next]_vars PROVE Asking'
  OBVIOUS
<1>1. Forward /\ TypeOK'
  BY GoesForward, TypeIsKept
<1>2. ASSUME NEW c \in Call, CallStep(c) PROVE Asking'
  <2>1. PICK to \in Stage : CallMove(c, stage[c], to)
    BY <1>2, CallMoves
  <2>2. stage'[c] = to /\ \A d \in Call \ {c} : stage'[d] = stage[d]
    BY <2>1 DEF CallMove, IInv, TypeOK
  <2>3. \A d \in Call : stage[d] # "idle" =>
           seen'[d] \in Seen /\ seen'[d].asked \in tokens' /\ seen'[d].asked.job = JobOf[d]
    BY <1>1 DEF Forward, IInv, Asking, Asked
  <2>4. stage[c] = "idle" =>
           seen'[c] \in Seen /\ seen'[c].asked \in tokens' /\ seen'[c].asked.job = JobOf[c]
    <3> SUFFICES ASSUME stage[c] = "idle"
                 PROVE  seen'[c] \in Seen /\ seen'[c].asked \in tokens'
                        /\ seen'[c].asked.job = JobOf[c]
      OBVIOUS
    <3>1. ReadJob(c)
      BY <1>2 DEF CallStep, Finish, Authorize, Recheck, Refuse, Acquire, Send, Receive, TimesOut,
                  PipeBreaks, FinishError, Clear, FinishMismatch, FinishCommitted, FinishRaises,
                  Crash, Holding
    <3>2. PICK t \in tokens, a \in Newest(JobOf[c]), k \in IdKey :
             /\ t.job = JobOf[c]
             /\ seen' = [seen EXCEPT ![c] = [asked |-> t, key |-> k, row |-> row[JobOf[c]],
                                             approval |-> a]]
      BY <3>1 DEF ReadJob
    <3>3. t \in Scope /\ a \in Scope \cup {NoScope} /\ row[JobOf[c]] \in Row
      BY <3>2, JobOfType DEF TypeOK, Newest, IInv, Tokens
    <3>4. seen'[c] = [asked |-> t, key |-> k, row |-> row[JobOf[c]], approval |-> a]
      BY <3>2 DEF IInv, TypeOK
    <3> QED BY <1>1, <3>2, <3>3, <3>4 DEF Seen, Forward
  <2>5. ASSUME NEW d \in Call, stage'[d] \in Early \cup {"leased"} PROVE request'[d] = "none"
    <3>1. CASE d = c
      <4>1. stage[c] \in Early
        BY <2>1, <2>2, <2>5, <3>1 DEF CallMove
      <4>2. request[c] = "none" /\ request' = request
        BY <2>1, <4>1 DEF IInv, Asking, Early, CallMove
      <4> QED BY <3>1, <4>2
    <3>2. CASE d # c
      <4>1. stage[d] = stage'[d] /\ request'[d] = request[d]
        BY <2>1, <2>2, <3>2 DEF CallMove, IInv, TypeOK
      <4> QED BY <2>5, <4>1 DEF IInv, Asking, Early
    <3> QED BY <3>1, <3>2
  <2> QED BY <2>2, <2>3, <2>4, <2>5 DEF Asking, Asked, Early
<1>3. ASSUME NEW c \in Call, BridgeStep(c) PROVE Asking'
  <2>1. BridgeMove(c) /\ UNCHANGED <<stage, seen, tokens>>
    BY <1>3, BridgeMoves DEF BridgeOnly, callVars, CallOnly, approvalVars
  <2> QED BY <2>1 DEF BridgeMove, IInv, Asking, Asked
<1>4. CASE \A c \in Call : ~CallStep(c) /\ ~BridgeStep(c)
  BY <1>1, <1>4, Quiet DEF IInv, Asking, Asked, Forward
<1> QED BY <1>2, <1>3, <1>4

LEMMA AnsweredKept == IInv /\ [Next]_vars => Answered'
<1> SUFFICES ASSUME IInv, [Next]_vars PROVE Answered'
  OBVIOUS
<1>1. Forward
  BY GoesForward
\* What was asked, and found in the drawing, stays so.
<1>2. ASSUME NEW c \in Call, request[c] # "none"
      PROVE  /\ Asked(c)' = Asked(c) /\ KeyOf(c)' = KeyOf(c)
             /\ InDrawing(KeyOf(c), Asked(c)) => InDrawing(KeyOf(c), Asked(c))'
  <2>1. stage[c] # "idle"
    BY <1>2 DEF IInv, Asking
  <2>2. seen'[c] = seen[c]
    BY <1>1, <2>1 DEF Forward
  <2>3. Asked(c)' = Asked(c) /\ KeyOf(c)' = KeyOf(c)
    BY <2>2 DEF Asked, KeyOf
  <2>4. ASSUME NEW k, NEW q, InDrawing(k, q) PROVE InDrawing(k, q)'
    BY <1>1, <2>4, InDrawingKept
  <2>5. ASSUME InDrawing(KeyOf(c), Asked(c)) PROVE InDrawing(KeyOf(c), Asked(c))'
    <3>1. PICK d \in drawing : KeyOf(d) = KeyOf(c) /\ Asked(d) = Asked(c)
      BY <2>5 DEF InDrawing
    <3>2. d \in Call /\ stage[d] # "idle"
      BY DEF IInv, TypeOK, Answered, Asking
    <3>3. d \in drawing' /\ seen'[d] = seen[d]
      BY <1>1, <3>2 DEF Forward
    <3> QED BY <2>2, <3>1, <3>3 DEF InDrawing, KeyOf, Asked
  <2> QED BY <2>3, <2>5
<1>3. \A c \in drawing : c \in Call
  BY DEF IInv, TypeOK
<1>4. ASSUME NEW c \in Call, request'[c] = request[c], reply'[c] = reply[c],
             c \in drawing' <=> c \in drawing
      PROVE  /\ c \in drawing' => /\ request'[c] \in {"drawn", "replied"}
                                  /\ c \notin (Asked(c)').rev.made /\ reply'[c] # "refused"
             /\ request'[c] = "drawn" => c \in drawing'
             /\ reply'[c] # "none" <=> request'[c] = "replied"
             /\ reply'[c] = "ok" => InDrawing(KeyOf(c), Asked(c))'
  BY <1>2, <1>3, <1>4 DEF IInv, Answered
<1>5. ASSUME NEW c \in Call, CallStep(c) PROVE Answered'
  <2>1. PICK to \in Stage : CallMove(c, stage[c], to)
    BY <1>5, CallMoves
  <2>2. UNCHANGED <<reply, drawing>>
    BY <1>5, ForwardCall
  <2>3. CASE request' = request
    BY <1>3, <1>4, <2>2, <2>3 DEF Answered
  <2>4. CASE stage[c] = "leased" /\ request' = [request EXCEPT ![c] = "queued"]
    <3>1. request[c] = "none" /\ reply[c] = "none" /\ c \notin drawing
      BY <2>4 DEF IInv, Asking, Answered
    <3>2. request'[c] = "queued" /\ \A d \in Call \ {c} : request'[d] = request[d]
      BY <2>4 DEF IInv, TypeOK
    <3> QED BY <1>3, <1>4, <2>2, <3>1, <3>2 DEF Answered
  <2> QED BY <2>1, <2>3, <2>4 DEF CallMove
<1>6. ASSUME NEW c \in Call, BridgeStep(c) PROVE Answered'
  <2>1. BridgeMove(c)
    BY <1>6, BridgeMoves
  <2>2. \A d \in Call \ {c} : d \in drawing' <=> d \in drawing
    BY <1>3, <2>1 DEF BridgeMove
  <2>3. \A d \in Call \ {c} : request'[d] = request[d] /\ reply'[d] = reply[d]
    BY <2>1 DEF BridgeMove
  <2>4. /\ c \in drawing' => /\ request'[c] \in {"drawn", "replied"}
                             /\ c \notin (Asked(c)').rev.made /\ reply'[c] # "refused"
        /\ request'[c] = "drawn" => c \in drawing'
        /\ reply'[c] # "none" <=> request'[c] = "replied"
        /\ reply'[c] = "ok" => InDrawing(KeyOf(c), Asked(c))'
    <3>1. request[c] # "none" /\ request[c] # "replied" /\ reply[c] = "none"
      BY <2>1 DEF BridgeMove, IInv, Answered
    <3>2. c \in drawing => request[c] = "drawn" /\ c \notin Asked(c).rev.made
      BY <3>1 DEF IInv, Answered
    <3>3. request[c] = "drawn" => c \in drawing
      BY DEF IInv, Answered
    <3>4. request[c] = "claimed" /\ revision = Asked(c).rev => c \notin Asked(c).rev.made
      BY <3>2 DEF IInv, Contained
    <3> QED BY <1>2, <1>3, <2>1, <3>1, <3>2, <3>3, <3>4 DEF BridgeMove
  <2> QED BY <1>4, <2>2, <2>3, <2>4 DEF Answered
<1>7. CASE \A c \in Call : ~CallStep(c) /\ ~BridgeStep(c)
  BY <1>3, <1>4, <1>7, Quiet DEF Answered
<1> QED BY <1>5, <1>6, <1>7

LEMMA ConcludedKept == IInv /\ [Next]_vars => Concluded'
<1> SUFFICES ASSUME IInv, [Next]_vars PROVE Concluded'
  OBVIOUS
<1>1. Forward
  BY GoesForward
<1>2. ASSUME NEW x \in executions PROVE InDrawing(x.key, x.asked)'
  BY <1>1, <1>2, InDrawingKept DEF IInv, Concluded
<1>3. ASSUME NEW c \in Call, stage[c] # "idle", NEW k, NEW q, InDrawing(k, q),
             k = KeyOf(c), q = Asked(c)
      PROVE  InDrawing(KeyOf(c), Asked(c))'
  <2>1. KeyOf(c)' = k /\ Asked(c)' = q
    BY <1>1, <1>3 DEF Forward, KeyOf, Asked
  <2>2. InDrawing(k, q)'
    BY <1>1, <1>3, InDrawingKept
  <2> QED BY <2>1, <2>2
<1>4. ASSUME NEW c \in Call, stage[c] = "replayed" PROVE InDrawing(KeyOf(c), Asked(c))'
  BY <1>3, <1>4 DEF IInv, Concluded
<1>5. ASSUME NEW c \in Call, CallStep(c) PROVE Concluded'
  <2>1. PICK to \in Stage : CallMove(c, stage[c], to)
    BY <1>5, CallMoves
  <2>2. stage'[c] = to /\ reply' = reply /\ \A d \in Call \ {c} : stage'[d] = stage[d]
    BY <1>5, <2>1, ForwardCall DEF CallMove, IInv, TypeOK
  <2>3. to = "replayed" => InDrawing(KeyOf(c), Asked(c))'
    <3> SUFFICES ASSUME to = "replayed" PROVE InDrawing(KeyOf(c), Asked(c))'
      OBVIOUS
    <3>1. PICK x \in executions : x.key = KeyOf(c) /\ x.asked = Asked(c)
      BY <2>1 DEF CallMove
    <3>2. stage[c] # "idle" /\ InDrawing(x.key, x.asked)
      BY <2>1 DEF CallMove, IInv, Concluded
    <3> QED BY <1>3, <3>1, <3>2
  <2>4. ASSUME NEW x \in executions' PROVE InDrawing(x.key, x.asked)'
    <3>1. CASE x \in executions
      BY <1>2, <3>1
    <3>2. CASE x \notin executions
      <4>1. x = Receipt(c) /\ to \in {"committed", "mismatch"}
        BY <2>1, <2>4, <3>2 DEF CallMove
      <4>2. InDrawing(KeyOf(c), Asked(c))
        BY <2>1, <4>1 DEF CallMove, IInv, Answered
      <4>3. x.key = KeyOf(c) /\ x.asked = Asked(c)
        BY <4>1 DEF Receipt
      <4> QED BY <1>1, <4>2, <4>3, InDrawingKept
    <3> QED BY <3>1, <3>2
  <2>5. /\ to \in {"error", "failed"} => reply[c] = "refused"
        /\ to \in {"ok", "cleared", "committed", "mismatch"} => reply[c] = "ok"
    BY <2>1 DEF CallMove
  <2>6. ASSUME NEW d \in Call
        PROVE  /\ stage'[d] \in {"error", "failed"} => reply'[d] = "refused"
               /\ stage'[d] \in {"ok", "cleared", "committed", "mismatch"} => reply'[d] = "ok"
               /\ stage'[d] = "replayed" => InDrawing(KeyOf(d), Asked(d))'
    <3>1. CASE d = c
      BY <2>2, <2>3, <2>5, <3>1
    <3>2. CASE d # c
      BY <1>4, <2>2, <3>2 DEF IInv, Concluded
    <3> QED BY <3>1, <3>2
  <2> QED BY <2>4, <2>6 DEF Concluded
<1>6. ASSUME NEW c \in Call, BridgeStep(c) PROVE Concluded'
  <2>1. BridgeMove(c) /\ UNCHANGED <<stage, executions>>
    BY <1>6, BridgeMoves DEF BridgeOnly, callVars
  <2>2. reply[c] = "none"
    BY <2>1 DEF BridgeMove, IInv, Answered
  <2> QED BY <1>2, <1>4, <2>1, <2>2 DEF BridgeMove, IInv, Concluded
<1>7. CASE \A c \in Call : ~CallStep(c) /\ ~BridgeStep(c)
  BY <1>2, <1>4, <1>7, Quiet DEF IInv, Concluded
<1> QED BY <1>5, <1>6, <1>7

-----------------------------------------------------------------------------
(* The revision that a job is pinned to.                                   *)

\* A row is written from the editor's snapshot, or stays pinned as it was.
LEMMA EditorRow ==
    ASSUME IInv, NEW e \in Editor, EditorStep(e), NEW j \in Job,
           row'[j] # NoJob, row'[j].state \notin Settled
    PROVE  \/ row'[j] = row[j]
           \/ row[j] # NoJob /\ row[j].state \notin Settled /\ row'[j].rev = row[j].rev
           \/ /\ edit[e].at # "idle" /\ edit[e].job = j
              /\ edit[e].row.state \notin Settled /\ row'[j].rev = edit[e].row.rev
<1>0. TypeOK /\ edit[e].job \in Job /\ edit[e].row \in Row
  BY DEF IInv, TypeOK
<1>1. CASE UNCHANGED row
  BY <1>1
<1>2. CASE Accept(e) \/ Planned(e) \/ Previewed(e) \/ Validated(e) \/ Grant(e)
  <2>1. edit[e].at # "idle" /\ edit[e].row.state \notin Settled
    BY <1>2 DEF Accept, Planned, Previewed, Validated, Grant, IInv, StateRead, Settled
  <2>2. \E r \in Row : SaveJob(edit[e].job, r) /\ r.rev = edit[e].row.rev
    <3>1. /\ [edit[e].row EXCEPT !.state = "SPEC_ACCEPTED"] \in Row
          /\ [edit[e].row EXCEPT !.state = "PLANNED", !.plan = edit[e].plan] \in Row
          /\ [edit[e].row EXCEPT !.state = "PREVIEWED"] \in Row
          /\ [edit[e].row EXCEPT !.state = "VALIDATED"] \in Row
          /\ [edit[e].row EXCEPT !.state = "APPROVED"] \in Row
      BY <1>0, Shapes DEF JobState, TypeOK
    <3>2. /\ [edit[e].row EXCEPT !.state = "SPEC_ACCEPTED"].rev = edit[e].row.rev
          /\ [edit[e].row EXCEPT !.state = "PLANNED", !.plan = edit[e].plan].rev = edit[e].row.rev
          /\ [edit[e].row EXCEPT !.state = "PREVIEWED"].rev = edit[e].row.rev
          /\ [edit[e].row EXCEPT !.state = "VALIDATED"].rev = edit[e].row.rev
          /\ [edit[e].row EXCEPT !.state = "APPROVED"].rev = edit[e].row.rev
      BY <1>0 DEF Row
    <3> QED BY <1>2, <3>1, <3>2 DEF Accept, Planned, Previewed, Validated, Grant
  <2> QED BY <1>0, <2>1, <2>2 DEF SaveJob, TypeOK
<1>3. CASE ApproveValidate(e)
  <2>1. row[edit[e].job] \in Row /\ row[edit[e].job] # NoJob
    BY <1>0, <1>3 DEF ApproveValidate, PlanIsCurrent, Exists, TypeOK
  <2>2. CASE row[edit[e].job].state = "PREVIEWED"
    <3>1. row' = [row EXCEPT ![edit[e].job] = [row[edit[e].job] EXCEPT !.state = "VALIDATED"]]
      BY <1>3, <2>2 DEF ApproveValidate, SaveJob
    <3>2. [row[edit[e].job] EXCEPT !.state = "VALIDATED"].rev = row[edit[e].job].rev
      BY <2>1 DEF Row
    <3> QED BY <1>0, <2>1, <2>2, <3>1, <3>2 DEF TypeOK, Settled
  <2>3. CASE row[edit[e].job].state # "PREVIEWED"
    BY <1>3, <2>3 DEF ApproveValidate
  <2> QED BY <2>2, <2>3
<1> QED BY <1>1, <1>2, <1>3 DEF EditorStep, SubmitSpec, Preview, Validate, Display, Read,
          Revoke, Compile, Approve, Issue, GiveUp

LEMMA CallRow ==
    ASSUME IInv, NEW c \in Call, CallStep(c), NEW j \in Job,
           row'[j] # NoJob, row'[j].state \notin Settled
    PROVE  \/ row'[j] = row[j]
           \/ row[j] # NoJob /\ row[j].state \notin Settled /\ row'[j].rev = row[j].rev
           \/ /\ stage[c] # "idle" /\ JobOf[c] = j
              /\ seen[c].row.state \notin Settled /\ row'[j].rev = seen[c].row.rev
<1>0. TypeOK /\ JobOf[c] \in Job
  BY JobOfType DEF IInv, TypeOK
<1>1. CASE UNCHANGED row
  BY <1>1
<1>2. CASE Recheck(c)
  <2>1. row[JobOf[c]] \in Row /\ row[JobOf[c]] # NoJob
    BY <1>0, <1>2 DEF Recheck, PlanIsCurrent, Exists, TypeOK
  <2>2. CASE row[JobOf[c]].state = "PREVIEWED"
    <3>1. row' = [row EXCEPT ![JobOf[c]] = [row[JobOf[c]] EXCEPT !.state = "VALIDATED"]]
      BY <1>2, <2>2 DEF Recheck, SaveJob
    <3>2. [row[JobOf[c]] EXCEPT !.state = "VALIDATED"].rev = row[JobOf[c]].rev
      BY <2>1 DEF Row
    <3> QED BY <1>0, <2>1, <2>2, <3>1, <3>2 DEF TypeOK, Settled
  <2>3. CASE row[JobOf[c]].state # "PREVIEWED"
    BY <1>2, <2>3 DEF Recheck
  <2> QED BY <2>2, <2>3
<1>3. ASSUME stage[c] # "idle", seen[c].row.state \notin Settled, NEW s \in JobState,
             SaveJob(JobOf[c], [seen[c].row EXCEPT !.state = s])
             \/ SaveJob(JobOf[c], [seen[c].row EXCEPT !.state = s, !.rev = seen[c].row.rev])
      PROVE  \/ row'[j] = row[j]
             \/ JobOf[c] = j /\ row'[j].rev = seen[c].row.rev
  <2>1. seen[c].row \in Row /\ seen[c].row.rev \in Revision
    BY <1>3, AskedType
  <2>2. /\ [seen[c].row EXCEPT !.state = s].rev = seen[c].row.rev
        /\ [seen[c].row EXCEPT !.state = s, !.rev = seen[c].row.rev].rev = seen[c].row.rev
    BY <2>1 DEF Row
  <2> QED BY <1>0, <1>3, <2>2 DEF SaveJob, TypeOK
<1>4. stage[c] \in Holding \ {"leased"} => seen[c].row.state \notin Settled
  BY DEF IInv, StateRead, Settled
<1>5. CASE Send(c)
  <2>1. stage[c] # "idle" /\ seen[c].row.state \in JobState
    BY <1>5, AskedType DEF Send, Row
  <2>2. CASE "COMMITTING" \in Allowed(seen[c].row.state)
    <3>1. seen[c].row.state \notin Settled
      BY <2>1, <2>2, AllowedFrom DEF Settled
    <3> QED BY <1>3, <1>5, <2>1, <2>2, <3>1 DEF Send, JobState
  <2>3. CASE "COMMITTING" \notin Allowed(seen[c].row.state)
    BY <1>5, <2>3 DEF Send
  <2> QED BY <2>2, <2>3
<1>6. CASE FinishError(c) \/ Clear(c)
  <2>1. UNCHANGED row \/ \E s \in JobState :
           SaveJob(JobOf[c], [seen[c].row EXCEPT !.state = s, !.rev = seen[c].row.rev])
    BY <1>6 DEF FinishError, Clear, Finalize, Unchanged, JobState
  <2>2. stage[c] # "idle" /\ stage[c] \in Holding \ {"leased"}
    BY <1>6 DEF FinishError, Clear, Holding
  <2> QED BY <1>3, <1>4, <2>1, <2>2
<1>7. CASE FinishMismatch(c) \/ FinishCommitted(c)
  <2>1. stage[c] # "idle" /\ NewRevision(c) \in Revision /\ seen[c].row \in Row
    BY <1>7, AskedType, NewRevisionType DEF FinishMismatch, FinishCommitted
  <2>2. \A s \in JobState : [seen[c].row EXCEPT !.state = s, !.rev = NewRevision(c)].state = s
    BY <2>1 DEF Row
  <2>3. \E s \in Settled :
            SaveJob(JobOf[c], [seen[c].row EXCEPT !.state = s, !.rev = NewRevision(c)])
    BY <1>7 DEF FinishMismatch, FinishCommitted, Finalize, Settled
  <2> QED BY <1>0, <2>2, <2>3 DEF SaveJob, TypeOK, Settled, JobState
<1> QED BY <1>1, <1>2, <1>5, <1>6, <1>7 DEF CallStep, Finish, ReadJob, Authorize, Refuse,
          Acquire, Receive, TimesOut, PipeBreaks, FinishRaises, Crash

LEMMA RowKept ==
    ASSUME [Next]_vars, \A e \in Editor : ~EditorStep(e), \A c \in Call : ~CallStep(c),
           \A j \in Job : ~Create(j)
    PROVE  UNCHANGED row
<1>1. ASSUME NEW c \in Call, BridgeStep(c) PROVE UNCHANGED row
  BY <1>1 DEF BridgeStep, BridgeBegin, BridgeDraw, BridgeAnswer, BridgeOnly
<1>2. EditDrawing \/ RenewalStops \/ Lapse \/ UNCHANGED vars => UNCHANGED row
  BY DEF EditDrawing, RenewalStops, Lapse, BridgeOnly, vars
<1> QED BY <1>1, <1>2 DEF Next

\* COMMITTED is written by the last transaction of a commit only.
LEMMA EditorRecords ==
    ASSUME IInv, NEW e \in Editor, EditorStep(e), NEW j \in Job,
           row'[j] # NoJob, row'[j].state = "COMMITTED"
    PROVE  row'[j] = row[j]
<1>0. TypeOK /\ edit[e].job \in Job /\ edit[e].row \in Row
  BY DEF IInv, TypeOK
<1>1. CASE UNCHANGED row
  BY <1>1
<1>2. CASE Accept(e) \/ Planned(e) \/ Previewed(e) \/ Validated(e) \/ Grant(e)
  <2>1. \E r : SaveJob(edit[e].job, r) /\ r.state # "COMMITTED"
    <3>1. /\ [edit[e].row EXCEPT !.state = "SPEC_ACCEPTED"].state # "COMMITTED"
          /\ [edit[e].row EXCEPT !.state = "PLANNED", !.plan = edit[e].plan].state # "COMMITTED"
          /\ [edit[e].row EXCEPT !.state = "PREVIEWED"].state # "COMMITTED"
          /\ [edit[e].row EXCEPT !.state = "VALIDATED"].state # "COMMITTED"
          /\ [edit[e].row EXCEPT !.state = "APPROVED"].state # "COMMITTED"
      BY <1>0 DEF Row
    <3> QED BY <1>2, <3>1 DEF Accept, Planned, Previewed, Validated, Grant
  <2> QED BY <1>0, <2>1 DEF SaveJob, TypeOK
<1>3. CASE ApproveValidate(e)
  <2>1. row[edit[e].job] \in Row
    BY <1>0, <1>3 DEF ApproveValidate, PlanIsCurrent, Exists, TypeOK
  <2>2. [row[edit[e].job] EXCEPT !.state = "VALIDATED"].state # "COMMITTED"
    BY <2>1 DEF Row
  <2> QED BY <1>0, <1>3, <2>2 DEF ApproveValidate, SaveJob, TypeOK
<1> QED BY <1>1, <1>2, <1>3 DEF EditorStep, SubmitSpec, Preview, Validate, Display, Read,
          Revoke, Compile, Approve, Issue, GiveUp

LEMMA CallRecords ==
    ASSUME IInv, NEW c \in Call, CallStep(c), NEW j \in Job,
           row'[j] # NoJob, row'[j].state = "COMMITTED"
    PROVE  row'[j] = row[j] \/ (JobOf[c] = j /\ InDrawing(KeyOf(c), Asked(c)))
<1>0. TypeOK /\ JobOf[c] \in Job
  BY JobOfType DEF IInv, TypeOK
<1>1. CASE UNCHANGED row
  BY <1>1
<1>2. CASE Recheck(c)
  <2>1. row[JobOf[c]] \in Row
    BY <1>0, <1>2 DEF Recheck, PlanIsCurrent, Exists, TypeOK
  <2>2. [row[JobOf[c]] EXCEPT !.state = "VALIDATED"].state # "COMMITTED"
    BY <2>1 DEF Row
  <2>3. UNCHANGED row \/ SaveJob(JobOf[c], [row[JobOf[c]] EXCEPT !.state = "VALIDATED"])
    BY <1>2 DEF Recheck
  <2> QED BY <1>0, <2>2, <2>3 DEF SaveJob, TypeOK
<1>3. CASE Send(c) \/ FinishError(c) \/ Clear(c) \/ FinishMismatch(c)
  <2>1. seen[c].row \in Row
    BY <1>3, AskedType DEF Send, FinishError, Clear, FinishMismatch
  <2>2. /\ [seen[c].row EXCEPT !.state = "COMMITTING"].state # "COMMITTED"
        /\ \A n : \A s \in {"UNKNOWN_COMMIT_STATE", "FAILED"} :
             [seen[c].row EXCEPT !.state = s, !.rev = n].state # "COMMITTED"
    BY <2>1 DEF Row
  <2>3. CASE Send(c)
    <3>1. UNCHANGED row \/ SaveJob(JobOf[c], [seen[c].row EXCEPT !.state = "COMMITTING"])
      BY <2>3 DEF Send
    <3> QED BY <1>0, <2>2, <3>1 DEF SaveJob, TypeOK
  <2>4. CASE FinishError(c) \/ Clear(c) \/ FinishMismatch(c)
    <3>1. UNCHANGED row \/ \E n : \E s \in {"UNKNOWN_COMMIT_STATE", "FAILED"} :
             SaveJob(JobOf[c], [seen[c].row EXCEPT !.state = s, !.rev = n])
      BY <2>4 DEF FinishError, Clear, FinishMismatch, Finalize
    <3>2. ASSUME NEW n, NEW s \in {"UNKNOWN_COMMIT_STATE", "FAILED"},
                 SaveJob(JobOf[c], [seen[c].row EXCEPT !.state = s, !.rev = n])
          PROVE  row'[j] = row[j]
      <4>1. [seen[c].row EXCEPT !.state = s, !.rev = n].state # "COMMITTED"
        BY <2>2
      <4> QED BY <1>0, <3>2, <4>1 DEF SaveJob, TypeOK
    <3> QED BY <1>1, <3>1, <3>2
  <2> QED BY <1>3, <2>3, <2>4
<1>4. CASE FinishCommitted(c)
  <2>1. InDrawing(KeyOf(c), Asked(c))
    BY <1>4 DEF FinishCommitted, IInv, Concluded, Answered
  <2> QED BY <1>0, <1>4, <2>1 DEF FinishCommitted, Finalize, SaveJob, TypeOK
<1> QED BY <1>1, <1>2, <1>3, <1>4 DEF CallStep, Finish, ReadJob, Authorize, Refuse,
          Acquire, Receive, TimesOut, PipeBreaks, FinishRaises, Crash

LEMMA RecordedKept == IInv /\ [Next]_vars => Recorded'
<1> SUFFICES ASSUME IInv, [Next]_vars, NEW j \in Job, row'[j] # NoJob,
                    row'[j].state = "COMMITTED"
             PROVE  \E d \in drawing' : JobOf[d] = j
  BY DEF Recorded
<1>1. CASE row'[j] = row[j]
  BY <1>1, GoesForward DEF IInv, Recorded, Forward
<1>2. ASSUME NEW c \in Call, CallStep(c) PROVE \E d \in drawing' : JobOf[d] = j
  <2>1. CASE JobOf[c] = j /\ InDrawing(KeyOf(c), Asked(c))
    BY <2>1, GoesForward DEF InDrawing, KeyOf, Forward
  <2> QED BY <1>1, <1>2, <2>1, CallRecords
<1>3. ASSUME NEW k \in Job, Create(k) PROVE row'[j] = row[j]
  <2>1. [Start EXCEPT !.rev = revision].state # "COMMITTED"
    BY DEF Start
  <2> QED BY <1>3, <2>1 DEF Create, SaveJob, IInv, TypeOK
<1> QED BY <1>1, <1>2, <1>3, EditorRecords, RowKept

LEMMA PinnedKept == IInv /\ [Next]_vars => Pinned'
<1> SUFFICES ASSUME IInv, [Next]_vars, NEW j \in Job
             PROVE  \E r \in Revision : NamesRevision(j, r)'
  BY DEF Pinned
<1>1. PICK r \in Revision : NamesRevision(j, r)
  BY DEF IInv, Pinned
<1>2. Forward /\ TypeOK /\ \A f \in Editor : edit[f].job \in Job
  BY GoesForward DEF IInv, TypeOK
<1>3. ASSUME NEW e \in Editor, EditorStep(e) PROVE NamesRevision(j, r)'
  <2>1. EditorMove(e) /\ UNCHANGED <<stage, seen>>
    <3>1. EditorOnly
      BY <1>3 DEF EditorStep, SubmitSpec, Preview, Validate, Display, Revoke, Accept, Compile,
         Planned, Previewed, Validated, Approve, ApproveValidate, Issue, Grant, GiveUp
    <3> QED BY <1>3, <3>1, EditorMoves DEF EditorOnly, callVars
  <2>2. row'[j] # NoJob /\ row'[j].state \notin Settled => row'[j].rev = r
    BY <1>1, <1>3, EditorRow DEF NamesRevision
  <2>3. ASSUME NEW f \in Editor, edit'[f].at # "idle", edit'[f].job = j,
               edit'[f].row.state \notin Settled
        PROVE  edit'[f].row.rev = r
    <3>1. CASE f # e
      BY <1>1, <2>1, <2>3, <3>1 DEF NamesRevision, EditorMove
    <3>2. CASE f = e
      BY <1>1, <2>1, <2>3, <3>2 DEF NamesRevision, EditorMove
    <3> QED BY <3>1, <3>2
  <2>4. ASSUME NEW t \in tokens', t.job = j PROVE t.rev = r
    <3>1. CASE t \in tokens
      BY <1>1, <2>4, <3>1 DEF NamesRevision
    <3>2. CASE t \notin tokens
      <4>1. Grant(e)
        BY <1>3, <2>4, <3>2 DEF EditorStep, SubmitSpec, Preview, Validate, Display, Read, Revoke,
             Accept, Compile, Planned, Previewed, Validated, Approve, ApproveValidate, Issue,
             GiveUp, approvalVars
      <4>2. t = ScopeOf(e) /\ edit[e].at = "grant"
        BY <2>4, <3>2, <4>1 DEF Grant
      <4>3. t.job = edit[e].job /\ t.rev = edit[e].row.rev
        BY <4>2 DEF ScopeOf
      <4>4. edit[e].row.state \notin Settled
        BY <4>2 DEF IInv, StateRead, Settled
      <4> QED BY <1>1, <2>4, <4>2, <4>3, <4>4 DEF NamesRevision
    <3> QED BY <3>1, <3>2
  <2> QED BY <1>1, <2>1, <2>2, <2>3, <2>4 DEF NamesRevision
<1>4. ASSUME NEW c \in Call, CallStep(c) PROVE NamesRevision(j, r)'
  <2>1. UNCHANGED <<edit, tokens>>
    BY <1>4, ForwardCall DEF CallOnly, approvalVars
  <2>2. row'[j] # NoJob /\ row'[j].state \notin Settled => row'[j].rev = r
    BY <1>1, <1>4, CallRow DEF NamesRevision
  <2>3. ASSUME NEW d \in Call, stage'[d] # "idle", JobOf[d] = j,
               seen'[d].row.state \notin Settled
        PROVE  seen'[d].row.rev = r
    <3>1. CASE stage[d] # "idle"
      BY <1>1, <1>2, <2>3, <3>1 DEF NamesRevision, Forward
    <3>2. CASE stage[d] = "idle"
      <4>1. PICK to \in Stage : CallMove(c, stage[c], to)
        BY <1>4, CallMoves
      <4>2. d = c
        BY <2>3, <3>2, <4>1 DEF CallMove, IInv, TypeOK
      <4>3. ReadJob(c)
        BY <1>4, <3>2, <4>2 DEF CallStep, Finish, Authorize, Recheck, Refuse, Acquire, Send,
           Receive, TimesOut, PipeBreaks, FinishError, Clear, FinishMismatch, FinishCommitted,
           FinishRaises, Crash, Holding
      <4>4. seen'[c].row = row[j] /\ row[j] # NoJob
        <5>1. PICK t \in tokens, a \in Newest(JobOf[c]), k \in IdKey :
                 /\ t.job = JobOf[c]
                 /\ seen' = [seen EXCEPT ![c] = [asked |-> t, key |-> k,
                                                 row |-> row[JobOf[c]], approval |-> a]]
          BY <4>3 DEF ReadJob
        <5>2. seen'[c] = [asked |-> t, key |-> k, row |-> row[JobOf[c]], approval |-> a]
          BY <5>1 DEF IInv, TypeOK
        <5>3. JobOf[c] = j
          BY <2>3, <4>2
        <5>4. seen'[c].row = row[j]
          BY <5>2, <5>3
        <5>5. row[t.job] # NoJob
          BY <5>1 DEF IInv, Tokens
        <5> QED BY <5>1, <5>3, <5>4, <5>5
      <4> QED BY <1>1, <2>3, <4>2, <4>4 DEF NamesRevision
    <3> QED BY <3>1, <3>2
  <2> QED BY <1>1, <2>1, <2>2, <2>3 DEF NamesRevision
<1>5. ASSUME NEW k \in Job, Create(k) PROVE \E q \in Revision : NamesRevision(j, q)'
  <2>1. UNCHANGED <<edit, tokens, stage, seen>>
    BY <1>5 DEF Create, EditorOnly, approvalVars, callVars
  <2>2. CASE k = j
    <3>1. row[j] = NoJob /\ row' = [row EXCEPT ![j] = [Start EXCEPT !.rev = revision]]
      BY <1>5, <2>2 DEF Create, SaveJob
    <3>2. row'[j].rev = revision /\ revision \in Revision
      <4>1. revision \in Revision
        BY DEF IInv, TypeOK
      <4>2. [Start EXCEPT !.rev = revision].rev = revision
        BY DEF Start
      <4>3. row'[j] = [Start EXCEPT !.rev = revision]
        BY <3>1 DEF IInv, TypeOK
      <4> QED BY <4>1, <4>2, <4>3
    <3>3. \A e \in Editor : edit[e].at # "idle" => edit[e].job # j
      BY <3>1 DEF IInv, StateRead
    <3>4. \A t \in tokens : t.job # j
      BY <3>1 DEF IInv, Tokens
    <3>5. \A c \in Call : stage[c] # "idle" => JobOf[c] # j
      BY <3>4 DEF IInv, Asking
    <3>6. PICK q \in Revision : row'[j].rev = q
      BY <3>2
    <3>7. NamesRevision(j, q)'
      BY <2>1, <3>3, <3>4, <3>5, <3>6 DEF NamesRevision
    <3> QED BY <3>7
  <2>3. CASE k # j
    <3>1. row'[j] = row[j]
      BY <1>2, <1>5, <2>3 DEF Create, SaveJob, TypeOK
    <3> QED BY <1>1, <2>1, <3>1 DEF NamesRevision
  <2> QED BY <2>2, <2>3
<1>6. CASE /\ \A e \in Editor : ~EditorStep(e)
           /\ \A c \in Call : ~CallStep(c)
           /\ \A k \in Job : ~Create(k)
  <2>1. UNCHANGED <<row, edit, tokens, stage, seen>>
    BY <1>6, RowKept, NotTheEditor, NotACall
  <2>2. NamesRevision(j, r)'
    BY <1>1, <2>1 DEF NamesRevision
  <2> QED BY <2>2
<1> QED BY <1>3, <1>4, <1>5, <1>6

-----------------------------------------------------------------------------
(* The theorems.                                                           *)

LEMMA InitIInv == Init => IInv
<1> SUFFICES ASSUME Init PROVE IInv
  OBVIOUS
<1>1. TypeOK
  <2>1. edit \in [Editor -> EditType] /\ revision \in Revision
    BY Shapes, BlankIsRevision DEF Init
  <2>2. stage \in [Call -> Stage] /\ seen \in [Call -> Seen \cup {Unread}]
    BY DEF Init, Stage
  <2>3. status \in [Key -> Bridge!Status]
    BY DEF Init, Bridge!Status
  <2>4. lease \in [holder : Call \cup {NoCall}, life : {"renewed", "unrenewed", "lapsed"}]
    BY DEF Init, NoLease
  <2>5. plan \in [Job -> PlanOrNone]
    BY DEF Init, PlanOrNone
  <2> QED BY <2>1, <2>2, <2>3, <2>4, <2>5 DEF Init, TypeOK, EditType
<1>2. \A e \in Editor : edit[e].at = "idle"
  BY Shapes DEF Init
<1>3. \A j \in Job : row[j] = NoJob
  BY DEF Init
<1>4. Contained
  BY DEF Init, Contained, Blank
<1>5. Tokens /\ Approving /\ Asking /\ Answered /\ Concluded /\ StateRead /\ Recorded
  BY <1>2, <1>3 DEF Init, Tokens, Approving, Asking, Answered, Concluded, StateRead, Recorded,
                    Holding
<1>6. Pinned
  <2>1. \A j \in Job : NamesRevision(j, Blank)
    BY <1>2, <1>3 DEF Init, NamesRevision
  <2> QED BY <2>1, BlankIsRevision DEF Pinned
<1> QED BY <1>1, <1>4, <1>5, <1>6 DEF IInv

LEMMA Inductive == IInv /\ [Next]_vars => IInv'
BY TypeIsKept, ContainedKept, TokensKept, ApprovingKept, AskingKept, AnsweredKept,
   ConcludedKept, PinnedKept, StateReadKept, RecordedKept DEF IInv

LEMMA Invariance == Spec => []IInv
BY InitIInv, Inductive, PTL DEF Spec

(***************************************************************************)
(* Every reachable state of the job service, its store and the bridge is   *)
(* well typed; in particular the revision that a row gets from the result  *)
(* of its commit is one the drawing can have (finalize_commit).            *)
(***************************************************************************)
THEOREM JobTypeCorrect == Spec => []TypeOK
BY Invariance, PTL DEF IInv

(***************************************************************************)
(* approve binds the token to the displayed plan, and commit the request   *)
(* to the token: nothing else is drawn, however many editors resubmit,     *)
(* approve and commit at once.                                             *)
(***************************************************************************)
THEOREM ReviewedPlansOnly == Spec => []OnlyReviewedPlans
<1>1. IInv => OnlyReviewedPlans
  <2> SUFFICES ASSUME IInv, NEW c \in drawing
               PROVE  <<JobOf[c], Asked(c).plan>> \in displayed
    BY DEF OnlyReviewedPlans
  <2>1. c \in Call /\ stage[c] # "idle"
    BY DEF IInv, TypeOK, Answered, Asking
  <2> QED BY <2>1 DEF IInv, Asking, Tokens
<1> QED BY <1>1, Invariance, PTL

(***************************************************************************)
(* A job's tokens all name the revision it was created at, and the bridge  *)
(* compares it with the drawing under the document lock (BridgeDraw).      *)
(* Revisions recur: work by hand brings this one back when it takes back   *)
(* what was drawn, and only then can a second commit of the job draw.      *)
(***************************************************************************)
THEOREM OneChange == Spec => OneChangePerJob
<1> DEFINE Apart == \A c \in drawing' \ drawing : \A d \in revision.made :
                        JobOf[d] # JobOf[c]
<1>1. IInv /\ [Next]_vars => Apart
  <2> SUFFICES ASSUME IInv, [Next]_vars, NEW c \in drawing' \ drawing,
                      NEW d \in revision.made, JobOf[d] = JobOf[c]
               PROVE  FALSE
    OBVIOUS
  <2>1. PICK b \in Call : BridgeStep(b)
    BY ForwardCall, Quiet
  <2>2. c = b /\ request[c] = "claimed" /\ revision = Asked(c).rev
    BY <2>1, BridgeMoves DEF BridgeMove
  <2>3. d \in drawing /\ d \in Call
    BY DEF IInv, Contained, TypeOK
  <2>4. stage[d] # "idle" /\ stage[c] # "idle" /\ d \notin Asked(d).rev.made
    BY <2>1, <2>2, <2>3 DEF IInv, Answered, Asking
  <2>5. /\ Asked(d) \in tokens /\ Asked(c) \in tokens /\ JobOf[c] \in Job
        /\ Asked(d).job = JobOf[c] /\ Asked(c).job = JobOf[c]
    BY <2>1, <2>2, <2>3, <2>4, JobOfType DEF IInv, Asking
  <2>6. Asked(d).rev = Asked(c).rev
    BY <2>5 DEF IInv, Pinned, NamesRevision
  <2> QED BY <2>2, <2>4, <2>6
<1>2. IInv /\ [Next]_vars => [Apart]_vars
  BY <1>1
<1> QED BY <1>2, Invariance, PTL DEF Spec, OneChangePerJob

(***************************************************************************)
(* FAILED after an answer of the bridge means that nothing was drawn and   *)
(* nothing will be (_finalize_commit_error).                               *)
(***************************************************************************)
THEOREM FailuresAreProven == Spec => []FailureIsProven
<1>1. IInv => FailureIsProven
  BY DEF IInv, Concluded, Answered, FailureIsProven
<1> QED BY <1>1, Invariance, PTL

(***************************************************************************)
(* What commit reports as committed, replays included, was drawn under the *)
(* same key and for the same request; so was every receipt that            *)
(* finalize_commit stored, and a change of every job stored as COMMITTED.  *)
(***************************************************************************)
THEOREM SuccessesAreTrue == Spec => []SuccessIsTrue
<1>1. IInv => SuccessIsTrue
  BY DEF IInv, Concluded, Answered, Recorded, Exists, SuccessIsTrue, InDrawing
<1> QED BY <1>1, Invariance, PTL
-----------------------------------------------------------------------------
(* The service and the bridge that OnceOnlyCommit specifies.               *)

BridgeView == <<status, {KeyOf(d) : d \in drawing},
                {KeyOf(d) : d \in {c \in Call : reply[c] = "ok"}}>>

\* Nothing that the service does with a call changes what its key stands for
\* once the bridge knows of it.
LEMMA ViewKept ==
    ASSUME IInv, Forward, UNCHANGED <<status, reply, drawing>>
    PROVE  UNCHANGED BridgeView
<1>1. ASSUME NEW c \in Call, c \in drawing \/ reply[c] = "ok" PROVE KeyOf(c)' = KeyOf(c)
  <2>1. request[c] # "none"
    BY <1>1 DEF IInv, Answered
  <2>2. stage[c] # "idle"
    BY <2>1 DEF IInv, Asking
  <2> QED BY <2>2 DEF Forward, KeyOf
<1>2. drawing \subseteq Call
  BY DEF IInv, TypeOK
<1> QED BY <1>1, <1>2 DEF BridgeView

\* Each step of the bridge is one that OnceOnlyCommit allows, or is not seen.
LEMMA BridgeImplements ==
    ASSUME IInv, NEW c \in Call, BridgeStep(c)
    PROVE  [Bridge!Next]_(Bridge!vars)
<1>1. KeyOf(c) \in Key /\ {KeyOf(c)} \in SUBSET Key
  <2>1. request[c] # "none"
    BY DEF BridgeStep, BridgeBegin, BridgeDraw, BridgeAnswer
  <2> QED BY <2>1, AskedType DEF IInv, Asking
<1>2. ASSUME \/ Bridge!Claim(KeyOf(c)) \/ Bridge!Apply(KeyOf(c)) \/ Bridge!Release(KeyOf(c))
             \/ Bridge!Settle(KeyOf(c)) \/ Bridge!Confirm(KeyOf(c)) \/ Bridge!Doubt({KeyOf(c)})
      PROVE  Bridge!Next
  <2>1. \/ \E k \in Key : \/ Bridge!Claim(k) \/ Bridge!Apply(k) \/ Bridge!Release(k)
                          \/ Bridge!Settle(k) \/ Bridge!Confirm(k)
        \/ \E K \in SUBSET Key : Bridge!Doubt(K)
    BY <1>1, <1>2 DEF Bridge!Claim, Bridge!Apply, Bridge!Release, Bridge!Settle,
                      Bridge!Confirm, Bridge!Doubt
  <2> QED BY <2>1 DEF Bridge!Next
<1>3. ASSUME NEW a \in {"refused", "unknown"}, request[c] = "queued", Answer(c, a),
             BridgeOnly, UNCHANGED <<status, drawing>>
      PROVE  UNCHANGED Bridge!vars
  <2>1. reply[c] # "ok" /\ reply' = [reply EXCEPT ![c] = a]
    BY <1>3 DEF IInv, Answered, Answer
  <2>2. {d \in Call : reply'[d] = "ok"} = {d \in Call : reply[d] = "ok"}
    BY <2>1 DEF IInv, TypeOK
  <2>3. seen' = seen
    BY <1>3 DEF BridgeOnly, callVars
  <2> QED BY <1>3, <2>2, <2>3 DEF Bridge!vars, KeyOf
<1>4. CASE BridgeBegin(c)
  BY <1>2, <1>3, <1>4 DEF BridgeBegin, drawingVars
<1>5. CASE BridgeDraw(c)
  BY <1>2, <1>5 DEF BridgeDraw
<1>6. CASE BridgeAnswer(c)
  BY <1>2, <1>3, <1>6 DEF BridgeAnswer, drawingVars
<1> QED BY <1>4, <1>5, <1>6 DEF BridgeStep

(***************************************************************************)
(* The calls of HarnessService.commit, whatever their interleaving, their  *)
(* timeouts and the deaths of their processes, use the bridge as           *)
(* OnceOnlyCommit specifies it: what the bridge knows of a key is never    *)
(* changed by a client.  CommitJournal implements the same specification.  *)
(***************************************************************************)
THEOREM ServiceKeepsBridge == Spec => Bridge!Spec
<1>1. Init => Bridge!Init
  BY DEF Init, Bridge!Init
<1>2. IInv /\ [Next]_vars => [Bridge!Next]_(Bridge!vars)
  <2> SUFFICES ASSUME IInv, [Next]_vars PROVE [Bridge!Next]_(Bridge!vars)
    OBVIOUS
  <2>1. CASE \E c \in Call : BridgeStep(c)
    BY <2>1, BridgeImplements
  <2>2. CASE \A c \in Call : ~BridgeStep(c)
    <3>1. UNCHANGED <<status, reply, drawing>>
      <4>1. (\E e \in Editor : EditorStep(e)) \/ (\E j \in Job : Create(j)) => EditorOnly
        BY DEF Create, EditorStep, SubmitSpec, Preview, Validate, Display, Revoke, Accept,
               Compile, Planned, Previewed, Validated, Approve, ApproveValidate, Issue, Grant,
               GiveUp
      <4>2. EditorOnly \/ EditDrawing \/ RenewalStops \/ Lapse \/ UNCHANGED vars
              => UNCHANGED <<status, reply, drawing>>
        BY DEF EditorOnly, EditDrawing, RenewalStops, Lapse, vars, bridgeVars, drawingVars
      <4> QED BY <2>2, <4>1, <4>2, ForwardCall DEF Next
    <3>2. UNCHANGED BridgeView
      BY <3>1, GoesForward, ViewKept
    <3> QED BY <3>2 DEF BridgeView, Bridge!vars
  <2> QED BY <2>1, <2>2
<1> QED BY <1>1, <1>2, Invariance, PTL DEF Spec, Bridge!Spec
=============================================================================
