-------------------------- MODULE IpcCancellation --------------------------
(***************************************************************************)
(* Requests over the named pipe and their terminal cancellation.           *)
(*                                                                         *)
(* A client (NamedPipeTransport) sends each request on a connection of its *)
(* own.  When the deadline passes it hangs up and asks, on further         *)
(* connections, that the request be cancelled; only an acknowledgement     *)
(* that the handler is terminal counts.  The server (NamedPipeBridgeServer *)
(* and PipeRequestProcessor) lends every accepted connection one of its    *)
(* handler slots, keeps a registry of the active requests, and remembers   *)
(* for some seconds a cancel that came before the request it names (here a *)
(* tombstone).  The end of the AutoCAD extension stops the accept loop,    *)
(* cancels every connection and disposes the host once all are closed.     *)
(*                                                                         *)
(* A step of the server is what runs under one lock or between two awaits. *)
(* Time is abstracted: a deadline, the grace of a cancel and the life of a *)
(* tombstone may end at any moment.  A second request with an active       *)
(* request_id is left out: the client draws a fresh one for each.          *)
(***************************************************************************)
EXTENDS Integers, FiniteSets

CONSTANTS
    Request,        \* requests sent by clients
    Cancel,         \* cancel attempts, each with its own connection
    TargetOf,       \* the request a cancel attempt names
    NoCancel,       \* no attempt yet
    Slots,          \* maxConcurrentHandlers
    MaxPending      \* MaximumPendingCancellations

ASSUME RequestsAndCancels == /\ Request \cap Cancel = {}
                             /\ IsFiniteSet(Request) /\ IsFiniteSet(Cancel)
                             /\ NoCancel \notin Cancel
ASSUME EveryRequestCanBeCancelled ==
    /\ TargetOf \in [Cancel -> Request]
    /\ \A r \in Request : \E c \in Cancel : TargetOf[c] = r
ASSUME Limits == Slots \in Nat /\ MaxPending \in Nat

VARIABLES
    client,     \* what the call of each request has come to
    attempt,    \* the cancel attempt a call is busy with
    link,       \* the client's end of each connection
    conn,       \* the server's task of each connection
    response,   \* what that task answers
    cancelled,  \* active requests whose token is cancelled
    pending,    \* requests with a tombstone
    changed,    \* requests whose handler has changed the drawing
    free,       \* handler slots to lend
    accept,     \* the accept loop
    shutdown,   \* the extension is stopping
    host        \* the bridge host behind the handlers

clientVars == <<client, attempt, link>>
serverVars == <<conn, response, free>>
registryVars == <<cancelled, pending>>
lifeVars == <<accept, shutdown, host>>
vars == <<clientVars, serverVars, registryVars, changed, lifeVars>>

Conn == Request \cup Cancel

ClientStage == {"idle", "asking", "cancelling",
                "answered", "failed", "confirmed", "unconfirmed"}
\* "cut" hung up before the whole frame was written, "gone" after it.
Link == {"none", "open", "sent", "cut", "gone"}
\* In the registry: between TryRegister and the end of the lease.
Active == {"registered", "running", "committing", "acted"}
Serving == {"reading", "waiting", "tombstoned", "responding"} \cup Active
Stage == {"none", "closed"} \cup Serving
\* "ok" is the handler's own answer, be it an error, or a confirmed cancel.
Answer == {"none", "ok", "cancelled", "inactive", "malformed"}

Init ==
    /\ client = [r \in Request |-> "idle"]
    /\ attempt = [r \in Request |-> NoCancel]
    /\ link = [c \in Conn |-> "none"]
    /\ conn = [c \in Conn |-> "none"]
    /\ response = [c \in Conn |-> "none"]
    /\ cancelled = {} /\ pending = {} /\ changed = {}
    /\ free = Slots
    /\ accept = "looping" /\ shutdown = FALSE /\ host = "up"

----------------------------------------------------------------------------
(* The client: NamedPipeTransport.request *)

\* The connection the client is using now.
InUse(c) == IF c \in Request THEN client[c] = "asking"
            ELSE /\ client[TargetOf[c]] = "cancelling"
                 /\ attempt[TargetOf[c]] = c

HungUp(l) == CASE l = "open" -> "cut" [] l = "sent" -> "gone" [] OTHER -> l

Ask(r) ==
    /\ client[r] = "idle"
    /\ client' = [client EXCEPT ![r] = "asking"]
    /\ UNCHANGED <<attempt, link, serverVars, registryVars, changed, lifeVars>>

\* A pipe instance is listening: the client connects and the server starts
\* the task of the connection, which keeps the slot.
Connect(c) ==
    /\ InUse(c) /\ link[c] = "none"
    /\ accept = "listening"
    /\ link' = [link EXCEPT ![c] = "open"]
    /\ conn' = [conn EXCEPT ![c] = "reading"]
    /\ accept' = "looping"
    /\ UNCHANGED <<client, attempt, response, free, registryVars, changed,
                   shutdown, host>>

Send(c) ==
    /\ InUse(c) /\ link[c] = "open"
    /\ link' = [link EXCEPT ![c] = "sent"]
    /\ UNCHANGED <<client, attempt, serverVars, registryVars, changed, lifeVars>>

\* The task of the connection is over and has, or has not, left an answer.
Answered(c) == conn[c] = "closed" /\ response[c] # "none"
Dropped(c) == conn[c] = "closed" /\ response[c] = "none"

Receive(r) ==
    /\ client[r] = "asking" /\ Answered(r)
    /\ client' = [client EXCEPT ![r] = "answered"]
    /\ UNCHANGED <<attempt, link, serverVars, registryVars, changed, lifeVars>>

\* The pipe ends without a frame: an EOFError, and no cancel.
LosePipe(r) ==
    /\ client[r] = "asking" /\ Dropped(r)
    /\ client' = [client EXCEPT ![r] = "failed"]
    /\ UNCHANGED <<attempt, link, serverVars, registryVars, changed, lifeVars>>

\* No instance of the pipe exists, so waiting for one fails at once.
CannotConnect(r) ==
    /\ client[r] = "asking" /\ link[r] = "none"
    /\ accept # "listening" /\ \A c \in Conn : conn[c] \in {"none", "closed"}
    /\ client' = [client EXCEPT ![r] = "failed"]
    /\ UNCHANGED <<attempt, link, serverVars, registryVars, changed, lifeVars>>

Untried(r) == {c \in Cancel : TargetOf[c] = r /\ link[c] = "none"}

\* NamedPipeDeadlineExceededError, wherever the call is: connecting, writing,
\* reading or even after it has read the answer.
Deadline(r) ==
    /\ client[r] = "asking"
    /\ client' = [client EXCEPT ![r] = "cancelling"]
    /\ link' = [link EXCEPT ![r] = HungUp(@)]
    /\ \E c \in Untried(r) : attempt' = [attempt EXCEPT ![r] = c]
    /\ UNCHANGED <<serverVars, registryVars, changed, lifeVars>>

\* _request_terminal_cancel: only "ok" with terminal = true confirms.
Confirm(r) ==
    /\ client[r] = "cancelling"
    /\ Answered(attempt[r]) /\ response[attempt[r]] = "ok"
    /\ client' = [client EXCEPT ![r] = "confirmed"]
    /\ UNCHANGED <<attempt, link, serverVars, registryVars, changed, lifeVars>>

Retry(r) ==
    /\ client[r] = "cancelling"
    /\ conn[attempt[r]] = "closed" /\ response[attempt[r]] # "ok"
    /\ \E c \in Untried(r) : attempt' = [attempt EXCEPT ![r] = c]
    /\ UNCHANGED <<client, link, serverVars, registryVars, changed, lifeVars>>

\* The grace of two seconds is over: TerminalCancellationUnconfirmedError.
GraceEnds(r) ==
    /\ client[r] = "cancelling"
    /\ client' = [client EXCEPT ![r] = "unconfirmed"]
    /\ link' = [link EXCEPT ![attempt[r]] = HungUp(@)]
    /\ UNCHANGED <<attempt, serverVars, registryVars, changed, lifeVars>>

----------------------------------------------------------------------------
(* The server's accept loop: NamedPipeBridgeServer.RunAsync *)

Listen ==
    /\ accept = "looping" /\ ~shutdown
    /\ free > 0
    /\ free' = free - 1
    /\ accept' = "listening"
    /\ UNCHANGED <<clientVars, conn, response, registryVars, changed, shutdown,
                   host>>

\* Faulty variant: the slot of the failed accept is not returned.
AcceptFailsWithItsSlot ==
    /\ accept = "listening"
    /\ accept' = "looping"
    /\ UNCHANGED <<clientVars, serverVars, registryVars, changed, shutdown, host>>

\* Accepting fails: the slot is returned and the loop goes on.
AcceptFails ==
    /\ accept = "listening"
    /\ free' = free + 1
    /\ accept' = "looping"
    /\ UNCHANGED <<clientVars, conn, response, registryVars, changed, shutdown,
                   host>>

\* Faulty variant: the listening instance does not see the shutdown.
StopAcceptingBetweenClients ==
    /\ shutdown /\ accept = "looping"
    /\ accept' = "stopped"
    /\ UNCHANGED <<clientVars, serverVars, registryVars, changed, shutdown, host>>

\* The loop ends, in whichever of its two awaits the shutdown finds it.
StopAccepting ==
    /\ shutdown /\ accept # "stopped"
    /\ free' = IF accept = "listening" THEN free + 1 ELSE free
    /\ accept' = "stopped"
    /\ UNCHANGED <<clientVars, conn, response, registryVars, changed, shutdown,
                   host>>

----------------------------------------------------------------------------
(* The task of one connection: HandleConnectionAsync, ProcessPayloadAsync *)

HasFrame(c) == conn[c] = "reading" /\ link[c] \in {"sent", "gone"}

\* The client hung up before the frame was complete.
Malformed(c) ==
    /\ conn[c] = "reading" /\ link[c] = "cut"
    /\ conn' = [conn EXCEPT ![c] = "responding"]
    /\ response' = [response EXCEPT ![c] = "malformed"]
    /\ UNCHANGED <<clientVars, free, registryVars, changed, lifeVars>>

\* The cancel attempts whose task is at s and which name r.
At(s, r) == {c \in Cancel : conn[c] = s /\ TargetOf[c] = r}

\* Faulty variant: any tombstone cancels whatever request comes next.
RegisterUnderAnyTombstone(r) ==
    /\ HasFrame(r)
    /\ conn' = [c \in Conn |-> IF c = r THEN "registered"
                             ELSE IF c \in At("tombstoned", r) THEN "waiting"
                             ELSE conn[c]]
    /\ cancelled' = IF pending = {} THEN cancelled ELSE cancelled \cup {r}
    /\ pending' = pending \ {r}
    /\ UNCHANGED <<clientVars, response, free, changed, lifeVars>>

\* TryRegister: a tombstone of the request is used up and cancels it, and who
\* waits at the tombstone now waits for the request.
Register(r) ==
    /\ HasFrame(r)
    /\ conn' = [c \in Conn |-> IF c = r THEN "registered"
                             ELSE IF c \in At("tombstoned", r) THEN "waiting"
                             ELSE conn[c]]
    /\ cancelled' = cancelled \cup (pending \cap {r})
    /\ pending' = pending \ {r}
    /\ UNCHANGED <<clientVars, response, free, changed, lifeVars>>

\* The token a handler sees, linked to the connection's.
TokenCancelled(r) == r \in cancelled \/ shutdown

StartHandler(r) ==
    /\ conn[r] = "registered" /\ ~TokenCancelled(r)
    /\ conn' = [conn EXCEPT ![r] = "running"]
    /\ UNCHANGED <<clientVars, response, free, registryVars, changed, lifeVars>>

\* The last checkpoint before Transaction.Commit.
PassCheckpoint(r) ==
    /\ conn[r] = "running" /\ ~TokenCancelled(r)
    /\ conn' = [conn EXCEPT ![r] = "committing"]
    /\ UNCHANGED <<clientVars, response, free, registryVars, changed, lifeVars>>

ChangeDrawing(r) ==
    /\ conn[r] = "committing"
    /\ conn' = [conn EXCEPT ![r] = "acted"]
    /\ changed' = changed \cup {r}
    /\ UNCHANGED <<clientVars, response, free, registryVars, lifeVars>>

\* A handler whose token is cancelled may still be past the last look at it.
Outcome(r) == {a \in {"ok", "cancelled"} :
    /\ a = "ok" => conn[r] # "registered"
    /\ a = "cancelled" => TokenCancelled(r)}

\* The handler has returned or thrown, or was never entered because the token
\* was cancelled first.  The lease is disposed: the request leaves the
\* registry and every cancel that waits for it is acknowledged.
Complete(r) ==
    /\ conn[r] \in Active
    /\ conn[r] = "registered" => TokenCancelled(r)
    /\ conn' = [c \in Conn |-> IF c = r \/ c \in At("waiting", r)
                             THEN "responding" ELSE conn[c]]
    /\ \E a \in Outcome(r) :
         response' = [c \in Conn |-> IF c = r THEN a
                                    ELSE IF c \in At("waiting", r) THEN "ok"
                                    ELSE response[c]]
    /\ cancelled' = cancelled \ {r}
    /\ UNCHANGED <<clientVars, free, pending, changed, lifeVars>>

\* Faulty variant: the cancel is acknowledged when the token is set, not when the handler ends.
CancelActiveAtOnce(c) ==
    /\ HasFrame(c) /\ conn[TargetOf[c]] \in Active
    /\ cancelled' = cancelled \cup {TargetOf[c]}
    /\ conn' = [conn EXCEPT ![c] = "responding"]
    /\ response' = [response EXCEPT ![c] = "ok"]
    /\ UNCHANGED <<clientVars, free, pending, changed, lifeVars>>

\* TryCancelAndWaitForTerminalAsync, the request being active ...
CancelActive(c) ==
    /\ HasFrame(c) /\ conn[TargetOf[c]] \in Active
    /\ cancelled' = cancelled \cup {TargetOf[c]}
    /\ conn' = [conn EXCEPT ![c] = "waiting"]
    /\ UNCHANGED <<clientVars, response, free, pending, changed, lifeVars>>

\* ... not yet known, or not any more ...
CancelEarly(c) ==
    /\ HasFrame(c) /\ conn[TargetOf[c]] \notin Active
    /\ TargetOf[c] \in pending \/ Cardinality(pending) < MaxPending
    /\ pending' = pending \cup {TargetOf[c]}
    /\ conn' = [conn EXCEPT ![c] = "tombstoned"]
    /\ UNCHANGED <<clientVars, response, free, cancelled, changed, lifeVars>>

\* ... or with no room for another tombstone.
CancelRefused(c) ==
    /\ HasFrame(c) /\ conn[TargetOf[c]] \notin Active
    /\ TargetOf[c] \notin pending /\ Cardinality(pending) >= MaxPending
    /\ conn' = [conn EXCEPT ![c] = "responding"]
    /\ response' = [response EXCEPT ![c] = "inactive"]
    /\ UNCHANGED <<clientVars, free, registryVars, changed, lifeVars>>

\* Faulty variant: the expired tombstone is removed without telling who waits at it.
ExpireSilently(r) ==
    /\ r \in pending
    /\ pending' = pending \ {r}
    /\ UNCHANGED <<clientVars, serverVars, cancelled, changed, lifeVars>>

\* The timer of a tombstone: who waits at it is told the target is not active.
Expire(r) ==
    /\ r \in pending
    /\ pending' = pending \ {r}
    /\ conn' = [c \in Conn |-> IF c \in At("tombstoned", r)
                             THEN "responding" ELSE conn[c]]
    /\ response' = [c \in Conn |-> IF c \in At("tombstoned", r)
                                 THEN "inactive" ELSE response[c]]
    /\ UNCHANGED <<clientVars, free, cancelled, changed, lifeVars>>

\* The answer is written, if the client still reads and the server still
\* writes; the connection is closed and its slot returned in any case.
Respond(c) ==
    /\ conn[c] = "responding"
    /\ conn' = [conn EXCEPT ![c] = "closed"]
    /\ response' = [response EXCEPT ![c] =
                        IF link[c] = "sent" /\ ~shutdown THEN @ ELSE "none"]
    /\ free' = free + 1
    /\ UNCHANGED <<clientVars, registryVars, changed, lifeVars>>

\* The shutdown ends a read or the wait of a cancel.
Abandon(c) ==
    /\ shutdown /\ conn[c] \in {"reading", "waiting", "tombstoned"}
    /\ conn' = [conn EXCEPT ![c] = "closed"]
    /\ free' = free + 1
    /\ UNCHANGED <<clientVars, response, registryVars, changed, lifeVars>>

----------------------------------------------------------------------------
(* BridgeExtensionApplication.StopServer *)

Stop ==
    /\ ~shutdown
    /\ shutdown' = TRUE
    /\ UNCHANGED <<clientVars, serverVars, registryVars, changed, accept, host>>

\* Faulty variant: the host is disposed when the drain times out, drained or not.
DrainedOrNot == TRUE

Drained == \A c \in Conn : conn[c] \notin Serving

\* After RunAsync has drained the connections, at once or, where the drain
\* took too long, as its continuation.
DisposeHost ==
    /\ host = "up" /\ accept = "stopped" /\ Drained
    /\ host' = "disposed"
    /\ UNCHANGED <<clientVars, serverVars, registryVars, changed, accept,
                   shutdown>>

Next ==
    \/ \E r \in Request :
          \/ Ask(r) \/ Receive(r) \/ LosePipe(r) \/ CannotConnect(r)
          \/ Deadline(r) \/ Confirm(r) \/ Retry(r) \/ GraceEnds(r)
          \/ Register(r) \/ StartHandler(r) \/ PassCheckpoint(r)
          \/ ChangeDrawing(r) \/ Complete(r) \/ Expire(r)
    \/ \E c \in Conn :
          Connect(c) \/ Send(c) \/ Malformed(c) \/ Respond(c) \/ Abandon(c)
    \/ \E c \in Cancel : CancelActive(c) \/ CancelEarly(c) \/ CancelRefused(c)
    \/ Listen \/ AcceptFails \/ StopAccepting \/ Stop \/ DisposeHost

Spec == Init /\ [][Next]_vars

\* Fairness.  Every wait of the client has a deadline.  The server's tasks run
\* on the thread pool, the timer of a tombstone fires, and a handler returns:
\* AutoCAD gets back to its command context, and no handler loops.  Nothing is
\* assumed of clients beyond their deadlines, and none of the shutdown.
ClientFairness == \A r \in Request : WF_vars(Deadline(r)) /\ WF_vars(GraceEnds(r))
ServerFairness ==
    /\ \A r \in Request : /\ WF_vars(Register(r)) /\ WF_vars(Complete(r))
                          /\ WF_vars(StartHandler(r)) /\ WF_vars(Expire(r))
    /\ \A c \in Conn : /\ WF_vars(Malformed(c)) /\ WF_vars(Respond(c))
                       /\ WF_vars(Abandon(c))
    /\ \A c \in Cancel :
            WF_vars(CancelActive(c) \/ CancelEarly(c) \/ CancelRefused(c))
    /\ WF_vars(StopAccepting) /\ WF_vars(DisposeHost)
FairSpec == Spec /\ ClientFairness /\ ServerFairness

----------------------------------------------------------------------------
(* Properties *)

TypeOK ==
    /\ client \in [Request -> ClientStage]
    /\ attempt \in [Request -> Cancel \cup {NoCancel}]
    /\ link \in [Conn -> Link]
    /\ conn \in [Conn -> Stage]
    /\ response \in [Conn -> Answer]
    /\ cancelled \subseteq Request /\ pending \subseteq Request
    /\ changed \subseteq Request
    /\ free \in 0..Slots
    /\ accept \in {"looping", "listening", "stopped"}
    /\ shutdown \in BOOLEAN /\ host \in {"up", "disposed"}

\* A handler that is over, and so can change nothing any more.
Over(r) == conn[r] \in {"responding", "closed"}

\* ADR-015: a client told that its cancel is terminal (IpcTimeoutError with
\* terminal_cancel_confirmed) may rely on the handler being over, however the
\* cancel and the request have overtaken each other.
ConfirmedIsOver == \A r \in Request : client[r] = "confirmed" => Over(r)

\* A request is cancelled by those who name it and by no one else: its client,
\* if it waits for the answer, gets that of the handler.
OnlyTheTargetIsCancelled ==
    \A r \in Request : client[r] = "answered" => response[r] = "ok"

\* Each slot is free, lent to the listening instance or held by one task: none
\* is lost or returned twice by the failures, hang-ups and shutdowns of
\* RunAsync and HandleConnectionAsync.
SlotsAreConserved ==
    free + Cardinality({c \in Conn : conn[c] \in Serving})
         + (IF accept = "listening" THEN 1 ELSE 0) = Slots

\* No task of a connection, and so no handler, ever runs on a disposed host.
HostOutlivesHandlers ==
    host = "disposed" => \A c \in Conn : conn[c] \notin Serving

\* Every accepted connection gives its slot back: no cancel waits for ever for
\* a request that is over or that never comes.
EveryConnectionCloses ==
    \A c \in Conn : conn[c] \in Serving ~> conn[c] = "closed"

\* A shutdown ends with the host disposed.
ShutdownCompletes == shutdown ~> host = "disposed"
=============================================================================
