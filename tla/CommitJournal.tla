---------------------------- MODULE CommitJournal ----------------------------
(***************************************************************************)
(* DurableCommitJournal.cs and DurableCommitCoordinator.cs: the restart-   *)
(* safe idempotency journal that several AutoCAD processes of one user     *)
(* share, and the coordinator that wraps one commit callback with it.      *)
(*                                                                         *)
(* A Process is one AutoCAD incarnation, named by its pid and start time,  *)
(* so a process that went down never comes back.  A Request is one commit  *)
(* request on the pipe; KeyOf is the hash of its job id and idempotency    *)
(* key and DigestOf the digest of its content.  The reservation id is a    *)
(* fresh GUID per Begin, represented by the request that called Begin.     *)
(*                                                                         *)
(* Abstracted: the in-memory record cache (RefreshRecord reloads the key   *)
(* from disk under the lock before each use), the HMAC envelope and path   *)
(* checks (a read that fails them is one of the failures of Begin), and    *)
(* the content of receipts (a receipt is named by the request it is for).  *)
(***************************************************************************)
CONSTANTS Process, Request, Key, Digest, KeyOf, DigestOf, NoRecord

ASSUME KeyOfType == KeyOf \in [Request -> Key]
ASSUME DigestOfType == DigestOf \in [Request -> Digest]

VARIABLES
    up,       \* up[p]: "new" (journal not opened yet), "up" or "down"
    journal,  \* journal[k]: the entry file of k, or NoRecord
    host,     \* host[r]: the process whose pipe r is sent to
    stage,    \* stage[r]: how far r is in ExecuteAsync
    answer,   \* answer[r]: the outcome returned for r
    receipt,  \* receipt[r]: whose commit an "ok" answer reports
    drawing   \* the requests whose change was made (saved later or not)

vars == <<up, journal, host, stage, answer, receipt, drawing>>

RecordState == {"prepared", "committed", "unknown"}
Record == [state : RecordState, digest : Digest, owner : Process, rid : Request]

ASSUME NoRecordIsNoRecord == NoRecord \notin Record

\* Between the decision Execute and the journal's answer a request is inside
\* the coordinator; "committed" means the callback has run
\* Transaction.Commit but has not returned.
Executing == {"reserved", "committed", "ok", "refused", "unknown"}
Stage == {"idle", "waiting", "done", "lost"} \cup Executing
Answer == {"none", "ok", "rejected", "failed", "reused", "unknown", "refused"}

TypeOK ==
    /\ up \in [Process -> {"new", "up", "down"}]
    /\ journal \in [Key -> Record \cup {NoRecord}]
    /\ host \in [Request -> Process]
    /\ stage \in [Request -> Stage]
    /\ answer \in [Request -> Answer]
    /\ receipt \in [Request -> Request]
    /\ drawing \subseteq Request

Init ==
    /\ up = [p \in Process |-> "new"]
    /\ journal = [k \in Key |-> NoRecord]
    /\ host \in [Request -> Process]
    /\ stage = [r \in Request |-> "idle"]
    /\ answer = [r \in Request |-> "none"]
    /\ receipt = [r \in Request |-> r]
    /\ drawing = {}

-----------------------------------------------------------------------------
(* The journal.                                                            *)

Existing(r) == journal[KeyOf[r]]

\* Faulty variant: uncertain liveness is taken for death.
ProbeTakesDoubtForDeath(p) == {"dead"}

\* SystemCommitJournalProcessProbe: access to a process may be denied, but
\* "dead" is never said of a living one.
Probe(p) ==
    IF up[p] = "down" THEN {"dead", "uncertain"} ELSE {"alive", "uncertain"}

\* The keys a process may find prepared by an owner that is proven dead.
Orphaned == {k \in Key : /\ journal[k] # NoRecord
                         /\ journal[k].state = "prepared"
                         /\ "dead" \in Probe(journal[k].owner)}

\* Faulty variant: what a dead owner left is swept away.
RecoverByDeleting(K) == [k \in Key |-> IF k \in K THEN NoRecord ELSE journal[k]]

RecoverAsUnknown(K) ==
    [k \in Key |-> IF k \in K THEN [journal[k] EXCEPT !.state = "unknown"]
                              ELSE journal[k]]

\* IsOwnedReservation on a record that is still prepared.
Owned(r) ==
    /\ Existing(r) # NoRecord
    /\ Existing(r).state = "prepared"
    /\ Existing(r).digest = DigestOf[r]
    /\ Existing(r).owner = host[r]
    /\ Existing(r).rid = r

Prepared(r) ==
    [state |-> "prepared", digest |-> DigestOf[r], owner |-> host[r], rid |-> r]

Put(r, rec) == journal' = [journal EXCEPT ![KeyOf[r]] = rec]

-----------------------------------------------------------------------------
(* One AutoCAD process.                                                    *)

\* Opening the journal: prepared entries of owners proven dead become
\* unknown.  If an entry cannot be read or written the constructor throws
\* and this process serves no commits.
Start(p) ==
    /\ up[p] = "new"
    /\ \E K \in SUBSET Orphaned :
         /\ journal' = RecoverAsUnknown(K)
         /\ up' \in {up, [up EXCEPT ![p] = "up"]}
    /\ UNCHANGED <<host, stage, answer, receipt, drawing>>

\* The process dies: what it was executing is cut off where it stands and
\* its clients see the pipe break.
Crash(p) ==
    /\ up[p] = "up"
    /\ up' = [up EXCEPT ![p] = "down"]
    /\ stage' = [r \in Request |->
                   IF host[r] = p /\ stage[r] \in Executing \cup {"waiting"}
                   THEN "lost" ELSE stage[r]]
    /\ UNCHANGED <<journal, host, answer, receipt, drawing>>

Receive(r) ==
    /\ stage[r] = "idle"
    /\ up[host[r]] = "up"
    /\ stage' = [stage EXCEPT ![r] = "waiting"]
    /\ UNCHANGED <<up, journal, host, answer, receipt, drawing>>

-----------------------------------------------------------------------------
(* ExecuteAsync.  The host's commit gate admits one request at a time.     *)

GateFree(p) == \A r \in Request : host[r] = p => stage[r] \notin Executing

Enter(r) == stage[r] = "waiting" /\ GateFree(host[r])

\* The request is cancelled while it waits for the gate.
Withdraw(r) ==
    /\ stage[r] = "waiting"
    /\ stage' = [stage EXCEPT ![r] = "lost"]
    /\ UNCHANGED <<up, journal, host, answer, receipt, drawing>>

Return(r, a) ==
    /\ stage' = [stage EXCEPT ![r] = "done"]
    /\ answer' = [answer EXCEPT ![r] = a]
    /\ UNCHANGED <<up, host, drawing>>

\* The approval does not cover this request.
Reject(r) ==
    /\ Enter(r)
    /\ Return(r, "rejected")
    /\ UNCHANGED <<journal, receipt>>

\* Faulty variant: the digest is not compared.
AnyDigest(r) == Existing(r) # NoRecord

SameDigest(r) == Existing(r) # NoRecord /\ Existing(r).digest = DigestOf[r]

\* Begin threw: the lock or the entry could not be had, or the reservation
\* or the recovery was not flushed, when its file may nevertheless be in place.
BeginFails(r) ==
    /\ Enter(r)
    /\ \/ UNCHANGED journal
       \/ Existing(r) = NoRecord /\ Put(r, Prepared(r))
       \/ /\ SameDigest(r)
          /\ KeyOf[r] \in Orphaned
          /\ journal' = RecoverAsUnknown({KeyOf[r]})
    /\ Return(r, "failed")
    /\ UNCHANGED receipt

BeginKeyReused(r) ==
    /\ Enter(r)
    /\ Existing(r) # NoRecord
    /\ Existing(r).digest # DigestOf[r]
    /\ Return(r, "reused")
    /\ UNCHANGED <<journal, receipt>>

BeginReplay(r) ==
    /\ Enter(r)
    /\ SameDigest(r)
    /\ Existing(r).state = "committed"
    /\ receipt' = [receipt EXCEPT ![r] = Existing(r).rid]
    /\ Return(r, "ok")
    /\ UNCHANGED journal

\* An unresolved attempt, recovered first if its owner is proven dead.
BeginUnknown(r) ==
    /\ Enter(r)
    /\ SameDigest(r)
    /\ Existing(r).state \in {"prepared", "unknown"}
    /\ \/ UNCHANGED journal
       \/ KeyOf[r] \in Orphaned /\ journal' = RecoverAsUnknown({KeyOf[r]})
    /\ Return(r, "unknown")
    /\ UNCHANGED receipt

\* Faulty variant: an attempt whose process died is simply tried again.
BeginExecuteAgain(r) ==
    /\ Enter(r)
    /\ Existing(r) = NoRecord \/ KeyOf[r] \in Orphaned
    /\ Put(r, Prepared(r))
    /\ stage' = [stage EXCEPT ![r] = "reserved"]
    /\ UNCHANGED <<up, host, answer, receipt, drawing>>

\* The reservation is flushed before the callback may run.
BeginExecute(r) ==
    /\ Enter(r)
    /\ Existing(r) = NoRecord
    /\ Put(r, Prepared(r))
    /\ stage' = [stage EXCEPT ![r] = "reserved"]
    /\ UNCHANGED <<up, host, answer, receipt, drawing>>

\* The callback reaches Transaction.Commit and the drawing changes.
CommitDrawing(r) ==
    /\ stage[r] = "reserved"
    /\ drawing' = drawing \cup {r}
    /\ stage' = [stage EXCEPT ![r] = "committed"]
    /\ UNCHANGED <<up, journal, host, answer, receipt>>

\* What the callback may report: success only after the commit, a refusal
\* only before it, and doubt (or an exception) either way.
Verdict(r) == IF stage[r] = "committed" THEN {"ok", "unknown"}
                                        ELSE {"refused", "unknown"}

CallbackReturns(r) ==
    /\ stage[r] \in {"reserved", "committed"}
    /\ \E v \in Verdict(r) : stage' = [stage EXCEPT ![r] = v]
    /\ UNCHANGED <<up, journal, host, answer, receipt, drawing>>

\* Transition: the record leaves "prepared" only in its owner's hands.
MarkAs(r, state) == Owned(r) /\ Put(r, [Existing(r) EXCEPT !.state = state])

\* MarkCommitted succeeded, so the receipt may be returned ...
SettleCommitted(r) ==
    /\ stage[r] = "ok"
    /\ MarkAs(r, "committed")
    /\ receipt' = [receipt EXCEPT ![r] = r]
    /\ Return(r, "ok")

\* Faulty variant: a doubtful attempt is abandoned as well.
SettleUnknownByAbandoning(r) ==
    /\ stage[r] \in {"ok", "unknown"}
    /\ Owned(r) /\ Put(r, NoRecord)
    /\ Return(r, "unknown")
    /\ UNCHANGED receipt

\* ... or it threw, before or after its file was replaced, and TryMarkUnknown
\* then did what it could.  The same for a callback that left doubt.
SettleUnknown(r) ==
    /\ \/ stage[r] = "ok" /\ MarkAs(r, "committed")
       \/ stage[r] \in {"ok", "unknown"} /\ MarkAs(r, "unknown")
       \/ stage[r] \in {"ok", "unknown"} /\ UNCHANGED journal
    /\ Return(r, "unknown")
    /\ UNCHANGED receipt

\* TryAbandon deletes the reservation, or keeps it when that fails.
SettleRefused(r) ==
    /\ stage[r] = "refused"
    /\ \/ Owned(r) /\ Put(r, NoRecord)
       \/ UNCHANGED journal
    /\ Return(r, "refused")
    /\ UNCHANGED receipt

Next ==
    \/ \E p \in Process : Start(p) \/ Crash(p)
    \/ \E r \in Request :
         \/ Receive(r) \/ Withdraw(r) \/ Reject(r)
         \/ BeginFails(r) \/ BeginKeyReused(r) \/ BeginReplay(r)
         \/ BeginUnknown(r) \/ BeginExecute(r)
         \/ CommitDrawing(r) \/ CallbackReturns(r)
         \/ SettleCommitted(r) \/ SettleUnknown(r) \/ SettleRefused(r)

Spec == Init /\ [][Next]_vars

-----------------------------------------------------------------------------
(* Properties.                                                             *)

\* However often a key is retried, by whichever process, across crashes, the
\* change it names is in the drawing at most once (Begin decides Execute only
\* without a record, and only a refused attempt deletes its record).
AtMostOnce == \A r, s \in drawing : KeyOf[r] = KeyOf[s] => r = s

\* An ok answer reports a change that is in the drawing and was asked for by
\* the same key and digest; every answer that denies the change is right
\* about its own attempt (ExecuteAsync's outcome after each journal step).
TruthfulAnswers ==
    \A r \in Request :
        /\ answer[r] = "ok" =>
             /\ receipt[r] \in drawing
             /\ KeyOf[receipt[r]] = KeyOf[r]
             /\ DigestOf[receipt[r]] = DigestOf[r]
        /\ answer[r] \in {"rejected", "failed", "reused", "refused"} =>
             r \notin drawing

\* A change in the drawing is always evidenced by the entry its own attempt
\* reserved, so that a restarted process can never miss it (Begin persists
\* before execution, Abandon only without a commit).
EveryChangeIsJournaled ==
    \A r \in drawing : /\ Existing(r) # NoRecord
                       /\ Existing(r).rid = r
                       /\ Existing(r).digest = DigestOf[r]

\* A reservation of a living process is resolved by that process alone, and
\* only after its callback returned, whatever a probe of it says.
LiveReservationIsKept ==
    [][\A k \in Key :
         (/\ journal[k] # NoRecord
          /\ journal[k].state = "prepared"
          /\ up[journal[k].owner] = "up"
          /\ stage[journal[k].rid] \in {"reserved", "committed"})
         => journal'[k] = journal[k]]_vars

\* A resolved entry, committed or unknown, is never changed or removed: not
\* by its owner, not by recovery, not by a later attempt.
ResolvedForever ==
    [][\A k \in Key :
         (journal[k] # NoRecord /\ journal[k].state # "prepared")
         => journal'[k] = journal[k]]_vars

StatusOf(rec) == CASE rec = NoRecord -> "free"
                   [] rec # NoRecord /\ rec.state = "prepared" -> "claimed"
                   [] rec # NoRecord /\ rec.state = "committed" -> "done"
                   [] rec # NoRecord /\ rec.state = "unknown" -> "doubtful"

Abstract == INSTANCE OnceOnlyCommit WITH
    status <- [k \in Key |-> StatusOf(journal[k])],
    applied <- {KeyOf[r] : r \in drawing},
    confirmed <- {KeyOf[r] : r \in {q \in Request : answer[q] = "ok"}}

\* The journal and its coordinator, over all processes and crashes, implement
\* the once-only commit.
OnceOnly == Abstract!Spec
=============================================================================
