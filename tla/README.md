# Verification of the AutoCAD Mechanical harness

The harness lets an AI assistant specify, preview and validate changes of an
AutoCAD drawing, lets an engineer approve them, and then writes them through a
.NET bridge that runs inside AutoCAD. This directory holds TLA+ models of the
parts of it in which order, failure and concurrency decide correctness, the TLC
runs that check them on small instances, and proofs, checked by TLAPS, for every
instance. Paths are relative to the repository root; "the service" is
`src/cad_harness/application/services/harness_service.py`, "the host" is
`dotnet/AutoCADBridge/CadBridge.Plugin/AutoCadBridgeHost.cs`.

## The system

| Component | State it keeps | Operations | What makes it correct |
|---|---|---|---|
| Job service (`harness_service.py`) | undo groups and recoveries in memory; the rest is read from and saved to the job store | `create_job`, `submit_spec`, `preview`, `validate`, `approve`, `commit`, `rollback_scope`, `approve_rollback`, `rollback`, remediation, export | only an approved, displayed plan is written, once; what a caller is told, and what a job says, is true |
| Job store (`sql_job_store.py`, SQLite) | rows of jobs, specifications, plans, approvals, executions, mappings | one transaction per write; unique keys per job and idempotency key | a key is answered by one execution |
| Writer lease (`lease_service.py`, `sql_lease_store.py`) | one row per document, 30 s to live, heartbeat every 5 s | acquire, renew, release, takeover when expired | never locked for good |
| Approvals (`security/approval.py`, `rollback_approval.py`) | signed scope of job, plan or checkpoint, and revision | issue, verify, revoke | covers exactly what was shown |
| Bridge client (`dotnet_bridge.py`, `named_pipe_transport.py`) | one pipe connection per request, a deadline | request, terminal cancel | never waits for ever; "cancelled" means over |
| Isolated AutoCAD session (`autocad_com.py`) | a helper process that holds every COM proxy, an AutoCAD, the Windows job that owns both | connect, call, quit, disconnect, clean up | nothing is left behind; nobody else's AutoCAD is touched |
| Process runner (`process_runner.py`, `timeout.py`) | one-shot worker processes, a prestarted broker | run, kill at the deadline | a killed worker's outcome is unknown |
| Pipe server (`CadBridge.Ipc`) | 8 handler slots, registry of active and of early-cancelled requests | accept, read, handle, answer, cancel, drain | slots are conserved; a cancel reaches its target only |
| Bridge host (`AutoCadBridgeHost.cs`, `CadBridge.Execution`) | commit gate, document lock, undo group, transaction, checkpoint | inspect, commit, roll back | one atomic transaction at the approved revision; its answer is true |
| Commit journal (`DurableCommitJournal.cs`, `DurableCommitCoordinator.cs`) | one file per key, shared by all AutoCAD processes of a user | begin, mark, abandon, recover at start | at most one change per key across crashes |
| Checkpoint catalog (`DurableCheckpointCatalog.cs`) | authenticated catalog and watermark, shared by all AutoCAD processes of a user | open, register, get, begin, complete, cancel, expire, quarantine | no answer is taken back; a checkpoint is used once |
| Checkpoint restore (`DurableCheckpointRestoreCoordinator.cs`) | restore journal, stage and backup files | close, replace and reopen the drawing; resume after a crash | a crash leaves the old or the new drawing, and evidence of which |
| Session undo (`UndoRollbackRegistry.cs`) | receipts of the session's undo groups, attempts per approval | register, begin, complete, quarantine, invalidate | an undo group is used once, at its revision, and takes back nothing else |
| Reconciliation, remediation, retention (`application/services`) | reports | read-only comparison, planning of repairs, deletion of old artifacts | reads never write; nothing in use is deleted |
| Client surfaces (`apps/`) | what was displayed | tools, windows, commands | the displayed plan is the approved plan |
| Geometry, features, validation, plan compilation, diff, takeoff, raster | none | pure functions | numerical correctness, tested by the repository |

How they interact. The MCP server, the desktop and the CLI are separate
processes that share one SQLite database and call the same service; between two
transactions of one call, any transaction of another may run. The service calls
the adapter synchronously; the adapter sends each request on a pipe connection
of its own, and gives up at a deadline while AutoCAD may still be working. In
AutoCAD the pipe server runs handlers on the thread pool; a commit or a rollback
takes the host's gate, is then marshalled into the command context and holds
the document lock. The engineer's own commands run between any two callbacks.
Several AutoCAD processes of one user share the journal and the checkpoint
catalog, each under a named mutex. A checkpoint is taken during the commit,
retired when the commit has provably failed, and used up by a restore.

The behaviours that are hard to get right, and to test, follow from this:
snapshots that go stale between a read and a save, gates that are far from the
write they guard, a timeout that races the commit, a pipe that breaks after the
commit, retries with the same key, crashes between two files or between the
drawing and its journal, a cancel that overtakes its request, an undo after
somebody else's command, a rollback that goes on when nobody waits for it, and
processes that die while they start or end each other. `PROJECT.json` lists each
under `hazards` with its line and the properties that watch it.

## Modules

| Module | What it is |
|---|---|
| `OnceOnlyCommit` | abstract specification: what a client that names a commit by a key may rely on |
| `CommitJournal` | the journal and its coordinator in several processes; implements `OnceOnlyCommit` |
| `JobService` | the service over store, lease and bridge, with editors, commit calls, work by hand and crashes; its bridge takes steps of `OnceOnlyCommit` |
| `IpcCancellation` | client and server of the pipe: deadlines, terminal cancel, slots, shutdown |
| `AtomicExecution` | one commit inside AutoCAD: lock, undo group, transaction, checkpoint, and every way to fail |
| `CheckpointLedger` | abstract specification: one status per checkpoint, changed one legal move at a time |
| `CheckpointCatalog` | the catalog's two files under the mutex; implements `CheckpointLedger` |
| `CheckpointRestore` | replacing a drawing by its checkpoint, resumable after a crash; its catalog is that of `CheckpointLedger` |
| `UndoRollback` | the registry of undo groups, the host around it, AutoCAD's undo stack and the engineer |
| `JobRollback` | extends `UndoRollback` by the service: jobs, approvals, rollback calls, lost answers, crashes; implements `UndoRollback` |
| `OwnedSession` | an AutoCAD that the harness starts and ends through a helper and a Windows job |
| `CommitJournalProofs`, `JobServiceProofs`, `IpcCancellationProofs`, `AtomicExecutionProofs`, `CheckpointCatalogProofs`, `CheckpointRestoreProofs`, `OwnedSessionProofs` | theorems about the module of the same name |
| `JobRollbackProofs` | theorems about `UndoRollback` and `JobRollback` |
| `MC...` | values of the constants and symmetries for TLC |

How they compose. `CommitJournal` shows that the real journal implements
`OnceOnlyCommit`; `JobService` then uses `OnceOnlyCommit`'s actions
(`Bridge!Claim`, `Bridge!Apply`, ...) in place of the journal, so the two levels
compose without multiplying their states. In the same way `CheckpointCatalog`
implements `CheckpointLedger`, and `CheckpointRestore` is written with catalog
operators that are moves of the ledger by definition. `JobRollback` is `UndoRollback` with
the service around it, and its first theorem says that it adds no step to it.
`IpcCancellation` stands below the outcome "timeout" of `JobService`: it says
what the client knows when its deadline has passed. `AtomicExecution` stands
below `CommitDrawing` of `CommitJournal` and `CommitApplied` and `CommitFails`
of `UndoRollback`: it says what the callback has done when it returns or throws.

### CommitJournal

| Model | Code |
|---|---|
| `up[p]` | an AutoCAD process, named by pid and start time, so it never comes back |
| `journal[k]` | the entry file of a key: state, digest, owner, reservation id |
| `stage[r]`, `answer[r]`, `receipt[r]` | how far `ExecuteAsync` is with a request and what it returned |
| `drawing` | requests whose `Transaction.Commit` has run |
| `Start` | constructor, `LoadAndRecover` (with a failing recovery) |
| `BeginFails`, `BeginKeyReused`, `BeginReplay`, `BeginUnknown`, `BeginExecute` | the outcomes of `Begin`; `BeginFails` includes a `Persist` that throws after its file was replaced |
| `CommitDrawing`, `CallbackReturns` | the callback up to and after `Transaction.Commit` |
| `SettleCommitted`, `SettleUnknown`, `SettleRefused` | `MarkCommitted`, `TryMarkUnknown`, `TryAbandon` with their failures |
| `Receive`, `Withdraw`, `GateFree` | the host's `_commitGate`, with a cancel while waiting |
| `Probe` | liveness of another process: "dead" is never said of a living one, but access may be denied |

Abstracted: the in-memory cache (the code refreshes the key from disk under the
mutex before each use), the HMAC envelope (a read that fails it is one of
`BeginFails`), the content of receipts.

### JobService

| Model | Code |
|---|---|
| `row`, `specs`, `plan`, `approvals`, `executions` | the tables of the store that decide a commit |
| `tokens`, `displayed` | approval tokens handed out, plans an engineer was shown and approved |
| `lease` | the lease row: its holder, and whether it is renewed, no longer renewed, or expired |
| `edit[e]` | the call an editor is in, with the snapshot it read |
| `stage[c]`, `seen[c]` | a call of `commit`, with the key and scope it was asked for and what it read |
| `status`, `request`, `reply`, `drawing`, `revision` | the bridge: key status, progress of each request, the changes ever drawn, and the content of the drawing, which its revision is a hash of: the changes that it holds and the state of the work by hand |
| `Create` | `create_job` |
| `SubmitSpec`, `Revoke`, `Accept`, `Compile`, `Planned` | `submit_spec`, one step per transaction |
| `Preview`/`Previewed`, `Validate`/`Validated` | a read, then the save of that snapshot |
| `Display`, `Approve`, `ApproveValidate`, `Issue`, `Grant` | the desktop and `approve`; the approval is stored before the transition is tried |
| `ReadJob`, `Authorize`, `Recheck`, `Acquire`, `Send` | the gates of `_commit` in their order, the lease, COMMITTING |
| `BridgeBegin`, `BridgeDraw`, `BridgeAnswer` | the coordinator; the revision is compared again under the document lock |
| `Receive`, `TimesOut`, `PipeBreaks` | what the adapter makes of an answer, a deadline, a broken pipe |
| `FinishError`, `Clear`, `FinishMismatch`, `FinishCommitted`, `FinishRaises` | the terminal transactions and their failure |
| `EditDrawing` | work in AutoCAD by hand: edits, undo and redo, so that the content, and with it the revision, may be any that it was or could be |
| `Crash`, `RenewalStops`, `Lapse` | end of a process, of its heartbeat, of its lease |

Abstractions: consecutive reads are one step, and so is the validation that
`approve` and `commit` repeat inside themselves; approvals are a set, so "the
newest" may be any unrevoked one (more behaviours than the code has); whatever
a method refuses for reasons outside this state is `Refuse` or `GiveUp`. The
bridge goes on with a request its client has given up. A commit always changes
the content; what is done by hand may bring an earlier content back. A job that
is COMMITTED or FAILED is never resubmitted (`submit_spec` only leads to
SPEC_ACCEPTED, which neither allows).

### IpcCancellation

| Model | Code |
|---|---|
| `client[r]`, `attempt[r]` | a call of `NamedPipeTransport.request`, and the cancel attempt it is busy with |
| `link[c]` | the client's end of a connection: open, frame sent, hung up before (`cut`) or after it (`gone`) |
| `conn[c]`, `response[c]` | the server's task of a connection and its answer |
| `cancelled`, `pending` | tokens cancelled, and tombstones (cancels that came before their request) of the registry |
| `free`, `accept` | the semaphore of handler slots and the accept loop |
| `shutdown`, `host` | `StopServer` and the disposal of the host |
| `Deadline`, `Confirm`, `Retry`, `GraceEnds` | the deadline and `_request_terminal_cancel` |
| `Listen`, `AcceptFails`, `StopAccepting` | `RunAsync` |
| `Register`, `CancelActive`, `CancelEarly`, `CancelRefused`, `Expire`, `Complete` | the critical sections of `RequestCancellationRegistry` |
| `StartHandler`, `PassCheckpoint`, `ChangeDrawing` | the handler up to its last cancellation checkpoint, and beyond it |
| `Respond`, `Abandon`, `Malformed` | `HandleConnectionAsync` and the framing errors |
| `DisposeHost` | `StopServer` after the drain, or its continuation when the drain takes too long |

Abstractions: deadlines, the grace of two seconds and the five seconds of a
tombstone may end at any moment; frames are complete or not; the client draws a
fresh `request_id` for each request, so the refusal of an active one is left
out; a server is not started again after its stop; the prestarted broker is
left out; the cancel attempts of a call are as many as the constants allow (the
code makes at most 41).

### AtomicExecution

| Model | Code |
|---|---|
| `at` | the step that `ExecuteAsync`, `ExecuteInCommandContextAsync` or `CommitOnceAsync` takes next |
| `scope`, `disposals` | document lock, undo group, transaction, and how often each was disposed |
| `started`, `dispatched` | `CommitStarted`, `OperationsDispatched` |
| `thrown`, `result`, `answer` | an exception under way, the executor's outcome, the host's outcome |
| `record`, `file`, `held` | the checkpoint in the catalog, its file, and whether the host knows of it |
| `Take`, `Validate`, `Dispatch`, `Check`/`Checked` | acquiring the scopes, the revision and checkpoint under the lock, the operations, the last cancellation point |
| `Commit`, `Observe`, `Complete` | `Transaction.Commit`, the observation, the completion of the undo group |
| `Fails`, `FailsAfterCommit`, `Abort`, `Rollback` | the catch clauses before and after `CommitStarted` |
| `Dispose`, `Leave` | the nested finally blocks |
| `Report`, `Retire` | the answer, and `RetireCheckpointAfterProvenPreCommitFailure` |

Assumed of AutoCAD: a transaction that is not committed leaves the drawing as it
was, and a `Commit` that throws may have committed or not. Host calls return or
throw; one that hangs is a timeout at the client.

### CheckpointCatalog

| Model | Code |
|---|---|
| `catalog`, `watermark` | the two files, each the payload it holds or stamps |
| `artifact[f]` | the DWG under each name |
| `work[p]` | the call a process is in, inside the mutex: its step, the payload it loaded or wants written, and whether the answer follows |
| `told[c]` | the last state of a checkpoint that any caller was given |
| `Load`, `Create`, `LoadRefused` | `WithFreshCatalog`, `LoadAndRecoverUnderLock` with the quarantine of lost artifacts, the constructor |
| `Register`, `Get`, `ChangeState` | `RegisterCheckpoint`, `GetRequired`, `BeginRestore`, `Complete`, `CancelBeforeReplacement`, `Expire`, `Quarantine` |
| `WriteCatalog`, `WriteWatermark`, `Verify` | `PersistUnderLock`; each write may throw before or after its file is in place |
| `Stage`, `Damage` | the host saves a checkpoint file; somebody deletes, replaces or truncates one |
| `Crash` | the process dies; the mutex is abandoned |

Abstracted: the generation number (two payloads written one after the other
differ, so a watermark stamps one of them), HMAC, schema and path checks.

### CheckpointRestore

| Model | Code |
|---|---|
| `status`, `usable`, `artifact` | the checkpoint in the catalog, as `CheckpointLedger` has it, and its file |
| `target`, `stage[a]`, `backup[a]`, `doc` | the drawing file, the copy next to it, the replaced drawing, and who has the drawing open |
| `journal[a]` | the restore journal entry of an approval |
| `lock`, `call[p]` | the execution lock and the `RestoreAsync` a process is in |
| `latest`, `meddled` | (history) what was last put into the drawing on purpose, and how often somebody else touched the drawing or the checkpoint |
| `Start`, `StartFails`, `TurnedAway`, `Enter` | up to the lock, and the decision from the journal |
| `Prepare...`, `Reserve`, `Begin` | `PrepareAndRestoreAsync` |
| `Resume`, `EnterReplacement`, `Inspect`, `Close`, `Replace`, `MarkReplaced`, `Reopen`, `MarkVerified`, `Verified`, `Complete`, `MarkCommitted`, `Cleanup`, `ReplayCommitted` | `ResumeAsync`, in the order of its phases |
| `CloseFails`, `ReplaceFails`, `ReplaceTears`, `Quarantine`, `Throws`, `Crash` | what goes wrong on the way |
| `UserOpens`, `UserEdits`, `UserSaves`, `UserCloses`, `Damage` | everybody else |

`File.Replace` fails on a drawing that is open, since AutoCAD holds it without
sharing. `Torn` says whether it may be cut off between its two renames.

### UndoRollback and JobRollback

| Model | Code |
|---|---|
| `revision`, `undo` | the drawing as the bridge sees it, and AutoCAD's undo stack with the author of each entry |
| `receipt[n]`, `active`, `attempt[a]` | `_entriesByReceipt`, `_activeReceiptByDocument`, `_attemptByApprovalId` |
| `tracked` | the host listens to `CommandWillStart` |
| `op` | the commit or rollback that holds `_commitGate` |
| `CommitApplied`, `CommitFails`, `Register`, `RegisterFails`, `Track`, `TrackFails` | `CommitAsync` |
| `Begin`, `Undo`, `Quarantine`, `CompleteSuccess` | `Begin`, `ExecuteUndoRollbackAsync`, and the ends of `ExecuteSessionRollbackAsync` |
| `Command`, `Inspect` | a command of the engineer; a question to the bridge, which runs in a command too |
| `Restart` | AutoCAD ends: stack and receipts are gone |
| `fenced`, `slipped`, `undone` | (history) receipts a command was run over, receipts whose own call a command ran into, and whose entries each rollback has taken back |
| `job[n]` | the row of the job whose commit is the n-th |
| `known` | `_undo_rollback_receipts` |
| `scope[a]` | the job a rollback approval is signed for |
| `call[c]` | the request of a call of `rollback`, and whether its caller still waits |
| `Approve`, `Ask`, `Finish` | `approve_rollback`, the gates of `rollback`, the save of ROLLED_BACK |
| `GiveUp`, `ServiceDies`, `RestartsAutoCad` | deadline or broken pipe, end of the service, end of AutoCAD |
| `Begins`, `Replay`, `Refuse`, `Executes` | the request at the bridge (`RollbackAsync`, `ExecuteSessionRollbackAsync`) |

`Register` marks the preceding receipt superseded even when it was consumed or
quarantined, as the code does. `CancelBeforeCommand` has no caller and is left
out. An approval is the job it is signed for, because checkpoint and revision
are the job's own. The lease is left out of `JobRollback`: it may lapse under a
call, so nothing may rest on it. A job without a known undo group is restored
from its checkpoint, which is `CheckpointRestore`.

### OwnedSession

| Model | Code |
|---|---|
| `life[p]`, `job`, `handles`, `armed` | helper, AutoCAD, what AutoCAD started and an AutoCAD of the engineer; the members, handles and kill-on-close limit of the Windows job |
| `parent`, `helper` | what `_run_isolated_startup_boundary` and `_ComProcessOwner`, and `_isolated_autocad_startup_worker`, are doing |
| `down`, `up`, `linked` | the pipe between them |
| `asked`, `reply` | the number of the last request and of what was returned for it |
| `sure`, `told` | what a clean-up has confirmed, and what its caller was told |
| `Connects`, `HelperReady`, `AutoCADReady`, `OwnerReady`, `ConnectFails` | the handshake, as the parent sees it |
| `Arms`, `OpensJob`, `CreatesAutoCAD`, `AssignsAutoCAD`, `FindsAutoCAD`, `IsAdopted` | the same in the helper |
| `Calls`, `Returns`, `Rejected`, `TakesRequest`, `Replies` | a call and its deadline |
| `Stops`, `ReleasesProxies`, `SaysStopped` | the end of the helper: the proxies are released, then its handle of the job is closed, then its COM apartment |
| `Quits`, `Stopped`, `Joined`, `JoinFails`, `Disconnects` | `close_owned_session`, `disconnect` |
| `CleansUp`, `KillsJob`, `JobWaited`, `KillsHelper`, `HelperWaited`, `JobWaitedAgain`, `ClosesJob` | `_terminal_close`, each step of which may fail on its own |
| `Vanish`, `Exits`, `Spawns`, `EngineerStarts`, `ParentDies`, `HelperCrashes` | processes |

Abstracted: progress messages, what a call asks and returns, the registry of COM
objects, the reuse of a process id.

## Runs

| Run | What it checks | Instance |
|---|---|---|
| `commit_journal` | `AtMostOnce`, `TruthfulAnswers`, `EveryChangeIsJournaled`, `LiveReservationIsKept`, refinement `OnceOnly` | 2 processes, 4 requests: 2 equal ones, 1 that reuses their key, 1 of its own key |
| `job_commits` | `OnlyReviewedPlans`, `FailureIsProven`, `SuccessIsTrue` | 1 job, 2 plans, 2 calls, 1 key, 1 editor, 2 specifications; changes taken back and made again by hand |
| `job_lease` | `OneChangePerJob`; `DocumentIsFreed` under fairness | 1 job, 1 plan, 2 calls, 2 keys, 2 states of the work by hand |
| `job_disconnect` | finds a violation, see Findings | 1 call, 1 plan |
| `ipc_cancel` | `ConfirmedIsOver`, `OnlyTheTargetIsCancelled`, `SlotsAreConserved`, `HostOutlivesHandlers` | 2 requests, 3 cancel attempts, 2 slots, 1 tombstone |
| `ipc_liveness` | `EveryConnectionCloses`, `ShutdownCompletes` under fairness | 1 request, 2 attempts, 2 slots |
| `catalog` | `AnswersHold`, `ArtifactsAreUnshared`, refinement `KeepsLedger` | 2 processes, 2 checkpoints, 2 files |
| `restore` | `OneRestore`, `ConsumedIsRestored`, `AnswersTrue`, `OnlyForward`, `BegunBeforeReplaced` | 2 processes, 2 approvals, torn replacements, nobody else at the drawing |
| `restore_liveness` | `NothingLost`; `Settles` under fairness | 1 process, 1 approval, 2 interventions by others |
| `rollback` | `OnlyNewest`, `OneExecution`, `FenceHolds`, `SparesOthers`, `RolledBackIsTrue`, `RolledBackOnce` | 2 commits, 2 approvals, 2 calls, 1 command, 3 revisions |
| `atomic` | `AnswerMatchesDrawing`, `DisposedOnce`, `EvidenceKept` | 3 operations |
| `owned_session` | `ConfirmedMeansGone`, `OthersSpared`, `RepliesMatch`; `NothingLeftBehind` under fairness | 2 calls |

Why the bounds are enough to be interesting. Two processes are what it takes
for a stale owner and a live one; with two equal requests and a reuse of their
key, replay, doubt and conflict all happen, also after each crash point. Two
plans and two specifications let a plan be replaced once after every step of
the first; two calls, with one key (`job_commits`) or two (`job_lease`), let
every gate of one fall between every two steps of the other, and two states of
the work by hand let a revision be left and come back. With two slots and three
cancel attempts the server runs out of slots, with one tombstone the registry is
full, and two attempts for one request share a tombstone or meet on either side
of it. Two
checkpoints and two files let a name be reused and a record be shadowed; two
approvals race for one checkpoint from the read of its record to the execution
lock, and each can be retried in either process after each crash point. Two
commits give a receipt a successor and a predecessor; three revisions let a
change come back to where it started. Three operations have a first, a middle
and a last; two calls of a session let the answer of one that timed out arrive
during the next. `MaxSpecs`, `MaxMeddling`, `MaxCommits`,
`MaxCommands` and `MaxCalls` bound what may recur for ever; they are guards of
the models only, and work by hand is bounded by the states `Handwork` it can be
in, not in number. The theorems below hold for any value of these constants.

Symmetry is used only in runs without liveness. `CHECK_DEADLOCK FALSE` is set in
every run because each system may come to rest: all requests answered, all calls
ended, the host disposed, the session closed. No run checks a type invariant:
each is a theorem.

For every property of a passing run `PROJECT.json` names a mutant: an operator
marked "Faulty variant" in the module, which replaces the named definition the
way a plausible bug would (a reservation repeated for a dead owner, a timeout
taken for a failure, a watermark written first, an undo that compares no
revision) and makes TLC find a violation.

### Fairness

- `JobService!FairSpec`: a live call goes on (the code runs on without waiting
  for anyone), a call that waits for the bridge has a deadline, nobody renews
  the lease of a dead process, and a lease nobody renews expires, because its
  time to live is compared with the clock. Nothing is assumed of the bridge,
  of editors, of an engineer or of a live heartbeat.
- `IpcCancellation!FairSpec`: every wait of the client is bounded by its
  deadline or by the grace; tasks of the server run on the thread pool, timers
  fire, and a handler returns (`Complete`): AutoCAD comes back to its command
  context and no handler loops. Nothing is assumed of the accept loop before a
  shutdown, of a client before its deadline, or of the shutdown itself.
- `CheckpointRestore!FairSpec`: a `RestoreAsync` runs to an answer, because none
  of its steps waits for anybody; the caller asks again with the same approval;
  and at some time (`CalmDown`) nothing crashes or fails any more and nobody
  else touches the files. Without the last the code may be interrupted for ever.
- `OwnedSession!FairSpec`: each wait of the parent has a deadline, the helper
  runs, and a process that was terminated goes. Only a call of COM may last for
  ever, made while the helper looks for its AutoCAD, serves a request, releases
  its proxies (before it closes its handle of the job, also after a failed start)
  or closes its apartment;
  `NothingLeftBehind` leaves out exactly that case.

### What the runs show

A key changes the drawing at most once whatever crashes and retries happen; no
commit of a job, even under another key, draws next to a change of that job,
because its row pins the revision that is compared again under the document lock
(a change that was taken back by hand is the exception below); a call that
reports a proven failure changed nothing, one that reports success, fresh or
replayed, changed what it says, as did every stored receipt and every job stored as
COMMITTED; nothing is drawn that was not displayed and approved, although rows
are saved from stale snapshots; a lease is never lost for good; a confirmed
cancel is the end of its request, and only of its own. A commit that throws
anywhere says what is true of the drawing and keeps the checkpoint of a drawing
it changed. No answer of the catalog is taken back by a crash between its two
files; one checkpoint is restored for one approval at most and is not used up
without a restore, and what was last saved on purpose survives every restore
that is not committed. An undo group is used once, at its own revision and never
after a command, and a job that is ROLLED_BACK has been undone and is not undone
again. A session that is reported closed has left no process, and no AutoCAD of
the engineer is ended.

Limits seen while modelling, none of which contradicts a property:

- A job can draw its plan twice when the first change is taken back in between.
  Two calls with the same token and different keys both read APPROVED and pass
  `validate_revision` (`harness_service.py:1095`); the first commits and gives
  the lease back; the engineer types `U`, and since a revision is a hash of the
  content (`BridgeInspectionService.cs:215`), the approved one is there again;
  the second takes the lease, stores its stale snapshot as COMMITTING (`:1103`),
  and `AutoCadBridgeHost.cs:1095` finds the revision it expects. One key never
  does this: the journal replays its answer. The model has the behaviour, and
  `OneChangePerJob` speaks of the changes that the drawing holds.
- A `disconnect()` that could not confirm its clean-up raises; a second one
  returns silently (`autocad_com.py:2021`), which confirms nothing. `told` is the
  first answer.
- With all slots held by requests no cancel can connect, and the call then ends
  unconfirmed. The server does not notice that a cancelling client has hung up;
  its slot comes back when the request ends or the tombstone expires.
- An error or a crash between the save of COMMITTING and the terminal
  transaction leaves COMMITTING without a lease, and nothing leads out of it.
- A crash between catalog and watermark makes the catalog refuse every call
  until somebody repairs it (`LoadRefused`); so does one artifact that is cut
  short, because `ArtifactMatches` (`DurableCheckpointCatalog.cs:776`) does not
  catch the `InvalidDataException` of its header. Answers stay true, calls stop.
- A crash after the reopened drawing was verified and before the catalog is
  updated ends in quarantine when the drawing was saved in between
  (`DurableCheckpointRestoreCoordinator.cs:596`). A `File.Replace` cut off
  between its renames leaves no drawing under its name; the restore then neither
  commits nor quarantines by itself (`:193`), so the run of `Settles` and
  `NothingLost` has `Torn` FALSE and the safety run has `Torn` TRUE.
- `BeginRestore` and `Complete` (`DurableCheckpointCatalog.cs:262`, `:274`) ask
  for a checkpoint, not for the approval it is restored for, and both are
  idempotent. When a second approval has passed its early check (`:194`), the
  first one has replaced the drawing and crashed, and somebody brings the drawing
  back to the approved revision, both restores can be committed, one after the
  other. `OneRestore` therefore promises one approval per checkpoint as long as
  `meddled` is 0; that a committed restore has used it up holds regardless.
- Edits that are not saved, made between `Inspect` and `Close`, are discarded by
  the close (`:494`): `NothingLost` speaks of what was saved.
- A command of the engineer that gets into the call of a commit or a rollback,
  while that call waits for AutoCAD, is not noticed by the registry, because the
  host then ignores `CommandWillStart`; the revision check stops the rollback
  only if the command changed what the bridge sees, and otherwise the undo takes
  back the command's entry. `slipped` marks those receipts; `SparesOthers` and
  `RolledBackIsTrue` except them.
- When the answer of a successful undo is lost and its receipt is quarantined,
  or the service has restarted, the job stays COMMITTED and cannot become
  ROLLED_BACK any more.
- `acceptance_netload` holds the installer's lock while its helper needs the same
  lock (`autocad_com.py:1955` and `:2563`), so the call is always rejected.

## Findings

`job_disconnect` is a run that TLC ends with a counterexample: a pipe that
breaks after the bridge has committed leaves the job FAILED, where the retry
policy (`docs/AUTOCAD_MECHANICAL_HARNESS_ARCHITECTURE.en.md:901`) asks for
UNKNOWN_COMMIT_STATE.

Divergences between documents and code that the models contain as behaviour and
no run singles out:

- The approval is checked early in `_commit`; one that a resubmission revokes
  after that check does not stop the write.
- `save_job` compares nothing, so a resubmission that read the job before the
  commit overwrites COMMITTED, and UNKNOWN_COMMIT_STATE, documented as terminal
  for automation. `SuccessIsTrue` therefore says that COMMITTED is true while it
  is stored, not that it stays.
- The architecture says a job never commits without a lease; COMMITTING outlives
  its lease in the case above.
- A commit whose post-commit validation failed is answered with an error, its
  retry with the stored receipt as a success.
- The catalog calls itself restart-safe (`DurableCheckpointCatalog.cs:37`); the
  crash between its two files is the exception.

## Proofs

Eight modules hold theorems. Each proves an inductive invariant `IInv`: it holds
initially, every action keeps it, and it implies the properties; the step lemma
has one case per action. The properties alone are not inductive, and what is
added says why the code works.

- `CommitJournalProofs`, for any sets of processes, requests, keys and digests.
  That a change is journaled survives `SettleRefused`, which deletes an entry,
  only because a refused callback has not committed, and recovery only because
  an entry is about the request that reserved it. Hence
  `ExecutingHoldsReservation` (a request inside the coordinator lives in a
  living process and owns its key's entry), `ChangeFollowsStage` (a stage tells
  whether its change is drawn), `EntryMatchesRequest` and `AnswerEndsRequest`.
  `AtMostOnce` follows: two changes of one key are evidenced by one entry, which
  names one request. In the refinement a key is free, claimed, done or doubtful
  as its entry is absent, prepared, committed or unknown.
- `JobServiceProofs`, for any jobs, plans, keys, editors, calls and states of the
  work by hand. `Tokens` and `Approving` carry a displayed plan from the screen to the
  token; `Asking` carries the token into the call's request and its gates;
  `Pinned` says that the tokens, rows and snapshots of one job name one
  revision, and `Answered` that none of its changes is part of that revision, so
  that a request finds it only while no change of its job is in the drawing;
  `Answered` and `Concluded` also relate replies and stored executions to the
  drawing, `Recorded` the jobs stored as COMMITTED; `StateRead` says that a step
  which requires a state of the row found it in the snapshot it goes on with;
  `Contained` says that the drawing holds nothing of the calls that was not drawn
  for them. `ServiceKeepsBridge` closes the
  argument with `CommitJournal`: the bridge that the calls of `JobService` see
  behaves as `OnceOnlyCommit`, the specification that the journal implements.
  What a client does (time out, die, be answered twice) never changes what is
  known of a key, because a call keeps its key and request from its first step
  on (`Forward`, `ViewKept`). It is a theorem only, no run repeats it.
- `IpcCancellationProofs`, for any finite sets of requests and cancel attempts
  and any numbers of slots and tombstones. `Cancelling`: a waiting cancel waits
  for an active request, an acknowledged one names a request that is over;
  `Answering`: a cancel, a tombstone or a cancelled token exists only where that
  request's own client has given it up; `SlotsAreConserved`, by the cardinality
  theorems; `DisposedIsQuiet`.
- `AtomicExecutionProofs`, for any number of operations. `Progress` and `Verdict`
  tie the drawing and the result to the step at which the execution was left,
  `Disposed` the disposals to the scopes taken, `Evidence` the host's checkpoint
  to the catalog.
- `CheckpointCatalogProofs`, for any processes, checkpoints, files and contents.
  `Mutex`: one process at most is inside; `Fits(p)`: at every step of `p` what
  it holds in memory agrees with the two files; `ArtifactsAreUnshared` and
  `AnswersHold`. In the refinement a checkpoint has the status that the catalog
  file gives it, and the ledger is usable while the two files agree or a process
  is about to write the watermark: replacing the catalog is a move of the ledger
  (`ReplacingMoves`), every other step leaves it as it is or makes it unusable
  (`StandsStill`).
- `CheckpointRestoreProofs`, for any processes and approvals, any number of
  interventions, torn replacements included. `Data` is about what outlives a
  process: `Backed` (a drawing that was replaced and is not given up has its
  backup), `UsedUp` (a committed restore has used up the checkpoint), `Once`
  (while nobody else touches the drawing, one approval replaces it, and what is
  open afterwards is not at the approved revision, which is why a second approval
  that read "available" too early gets no further than `Inspect`), `Kept` (what
  was last saved on purpose is in place or in a backup no clean-up will delete).
  `Holder` says what the process with the execution lock knows at each step
  (`Standing`), and `Holding` that nobody else is past the lock. `ConsumedIsRestored`
  needs no more than that entries only go forward (`NextForward`), that the
  catalog reaches "consumed" from `Complete` alone (`NextConsumes`), and that a
  backup stays until its restore is committed (`BackupStays`). `Begun` says that a
  call which is about to touch the drawing has begun the restore in the catalog,
  from which `BegunBeforeReplaced` follows.
- `JobRollbackProofs`, on `UndoRollback`, for any approvals and revisions and stacks of any
  height. `Numbers`, `Progress`, `Usable`, `Attempts` and `Fenced` give
  `OnlyNewest`, `OneExecution` and `FenceHolds`; `Clean` says that what a
  rollback took back was its own entry or an empty wrapper, from which
  `SparesOthers` follows.
- `JobRollbackProofs`, on `JobRollback`, first shows `RollbackSpec => Spec` of `UndoRollback`, so
  that all of the above holds with the service around it; then `Reported`:
  whatever was restored, kept for a replay, answered or stored as rolled back is
  `Done`, that is undone and `Spent` (its receipt can never be executed again).
- `OwnedSessionProofs`, for any number of calls. `Starts` and `Serves` are the
  protocol of the pipe: what is in it at each step of either side; `Members`
  says who is in the Windows job; `Confirmed` that what a clean-up has seen stays
  true.

| Theorem | Property |
|---|---|
| `TypeCorrect`, `JobTypeCorrect`, `CatalogTypeCorrect`, `RestoreTypeCorrect`, `UndoTypeCorrect`, `RollbackTypeCorrect`, `SessionTypeCorrect` | type correctness of each detailed module |
| `CommitsAtMostOnce`, `AnswersAreTruthful`, `ChangesAreJournaled` | `AtMostOnce`, `TruthfulAnswers`, `EveryChangeIsJournaled` |
| `LiveReservations`, `ResolutionIsFinal` | `LiveReservationIsKept`, `ResolvedForever` |
| `ImplementsOnceOnly` | refinement `OnceOnly` |
| `ReviewedPlansOnly`, `OneChange`, `FailuresAreProven`, `SuccessesAreTrue` | `OnlyReviewedPlans`, `OneChangePerJob`, `FailureIsProven`, `SuccessIsTrue` |
| `ServiceKeepsBridge` | refinement of `OnceOnlyCommit` by the bridge of `JobService` |
| `ConfirmedCancelIsTerminal`, `OthersAreNotCancelled`, `SlotsNeverLeak`, `HostGoesLast` | `ConfirmedIsOver`, `OnlyTheTargetIsCancelled`, `SlotsAreConserved`, `HostOutlivesHandlers` |
| `ReportsTheTruth`, `EveryScopeIsDisposedOnce`, `CheckpointIsKept` | `AnswerMatchesDrawing`, `DisposedOnce`, `EvidenceKept` |
| `AnswersStand`, `NoSharedArtifacts` | `AnswersHold`, `ArtifactsAreUnshared` |
| `ImplementsLedger` | refinement `KeepsLedger` |
| `RestoredForOne`, `ConsumedByRestore`, `NothingIsLost` | `OneRestore`, `ConsumedIsRestored`, `NothingLost` |
| `RestoreOnlyForward`, `RestoreAnswersTrue`, `BegunFirst` | `OnlyForward`, `AnswersTrue`, `BegunBeforeReplaced` |
| `NewestReceiptOnly`, `OneExecutionPerReceipt`, `CommandsFence`, `OthersAreSpared` | `OnlyNewest`, `OneExecution`, `FenceHolds`, `SparesOthers` |
| `RollbackImplementsUndo` | refinement of `UndoRollback` |
| `RolledBackJobsAreUndone`, `NothingMoreIsUndone` | `RolledBackIsTrue`, `RolledBackOnce` |
| `ConfirmedIsGone`, `EngineerIsSpared`, `RepliesAreOwn` | `ConfirmedMeansGone`, `OthersSpared`, `RepliesMatch` |

Assumed of the constants, and evaluated by TLC in the runs: that `KeyOf`,
`DigestOf`, `JobOf` and `TargetOf` are functions of the right type, that every
request can be cancelled, that bounds are natural numbers, that `Job` and
`Handwork` are not empty, and that the values that stand for "none" are not among the
values they stand in for.

Only model-checked: liveness (`DocumentIsFreed`, `EveryConnectionCloses`,
`ShutdownCompletes`, `Settles`, `NothingLeftBehind`),
which is out of the prover's reach. Every invariant and every action property of
the runs, and every refinement, is a theorem.

## What is not modelled

- Process runner and broker (`process_runner.py`, `timeout.py`). Known of it: the
  broker's deadline is the timeout plus one second while the transport's
  terminal cancel may take two, so the broker may be terminated in the middle of
  a cancel; the client then sees a timeout, which is stored as UNKNOWN, never as
  a failure. Answers are correlated by command only, since a broker serves one
  command at a time and is discarded after a failure.
- Remediation and drawing audit: a second kind of job with transitions of its
  own over the same store and bridge.
- Retention cleanup: quota and age over a directory that others write to.
- Reconciliation only reads; its guard refuses every job that is not
  UNKNOWN_COMMIT_STATE.
- Bridge routing and authorization, bridge inspection and conversion, validation
  rules: functions of one request, which appear as a refusal. Tokens are their
  scope; signatures and encodings are not modelled.
- Geometry, features, annotation, plan compilation, comprehension, takeoff and
  raster tracing: floating-point or symbolic computation without control state;
  they appear as a choice of plan.
- The COM, DXF and fake adapters, apart from the session of the COM adapter, are
  alternatives to the bridge. Migration of stored payloads runs alone before
  anything else. User interfaces, the acceptance scripts, logging and metrics
  are left out.

Choices that bound what the runs say: `job_commits` has one editor, because the
interleavings of two do not fit a run (`ReviewedPlansOnly` covers any number);
the race of two approvals for a checkpoint is checked without an engineer at the
drawing, and the engineer with one approval (`CheckpointRestoreProofs` covers both
at once); a commit always changes the
content; files are damaged as a whole. The small files of the journal and of the
catalog, and the restore's own journal, are written by a `File.Replace` that is
taken for atomic (`DurableCommitJournal.cs:406`, `DurableCheckpointCatalog.cs:616`,
`DurableCheckpointRestoreCoordinator.cs:1541`): it may fail before or after, but
does not leave the name without a file. Only the replacement of the drawing
itself (`DurableCheckpointRestoreCoordinator.cs:1043`), with its backup, may be
torn in `CheckpointRestore`.

## Plan

1. `ProcessBroker`: the one-shot workers and the prestarted broker with their
   deadlines, below the outcomes of `IpcCancellation`.
2. Remediation as a second kind of job in `JobService`, then retention cleanup.
