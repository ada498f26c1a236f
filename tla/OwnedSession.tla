----------------------------- MODULE OwnedSession -----------------------------
(***************************************************************************)
(* autocad_com.py, the isolated session: the harness starts an AutoCAD of  *)
(* its own through a helper process that holds every COM proxy, and calls  *)
(* it over a pipe.  A Windows job that kills its members when its last     *)
(* handle closes is what ends all of it, however the three processes fail. *)
(*                                                                         *)
(* Abstracted: the helper's progress messages; what a call asks and        *)
(* returns (a request and its reply bear a number); the registry of COM    *)
(* objects; the reuse of a process id; acceptance_netload, a request that  *)
(* the helper answers or refuses like any other.  External: processes,     *)
(* jobs and the pipe are the operating system's.                           *)
(***************************************************************************)
EXTENDS Naturals, Sequences

CONSTANT MaxCalls  \* bound: requests of one session

ASSUME MaxCallsType == MaxCalls \in Nat

VARIABLES
    life,     \* life[p]: "none", "live", "dying" (terminated) or "gone"
    job,      \* the processes assigned to the session's job
    handles,  \* who holds a handle of the job
    armed,    \* the job kills its members when its last handle closes
    parent,   \* what the harness process is doing
    helper,   \* what the helper process is doing
    down, up, \* the pipe: messages to the helper, messages to the parent
    linked,   \* the parent's end of the pipe is open
    earlier,  \* the engineer's AutoCAD ran before the session was begun
    asked,    \* the number of the parent's last request
    reply,    \* the last reply that a call returned, and to which request
    sure,     \* what the clean-up in progress has confirmed
    told      \* what the caller has been told of the end of the session

vars == <<life, job, handles, armed, parent, helper, down, up, linked, earlier,
          asked, reply, sure, told>>

Proc == {"helper", "acad", "child", "other"}
Ours == Proc \ {"other"}  \* "other" is an AutoCAD that the engineer runs

Parent == {"idle", "await_helper", "await_ready", "await_owner",  \* connecting
           "open", "calling", "quitting", "stopping", "joining",   \* connected
           "kill_job", "wait_job", "kill_helper", "wait_helper",   \* cleaning up
           "rewait", "close_job", "closed", "dead"}

Helper == {"none", "ready", "arming", "open_job", "create", "assign", "find",
           "adopting", "serve", "invoke", "release", "stop", "end", "exit"}

Message == [kind : {"helper_ready", "job_assigned", "error", "ready", "adopted",
                    "owner_ready", "call", "quit", "shutdown", "result",
                    "rpc_error", "stopped"},
            of : Nat]
Msg(kind) == [kind |-> kind, of |-> 0]
Request(kind, n) == [kind |-> kind, of |-> n]

TypeOK ==
    /\ life \in [Proc -> {"none", "live", "dying", "gone"}]
    /\ job \subseteq Proc
    /\ handles \subseteq {"parent", "helper"}
    /\ armed \in BOOLEAN /\ linked \in BOOLEAN /\ earlier \in BOOLEAN
    /\ parent \in Parent
    /\ helper \in Helper
    /\ down \in Seq(Message) /\ up \in Seq(Message)
    /\ asked \in Nat
    /\ reply \in [asked : Nat, of : Nat]
    /\ sure \in [owner : BOOLEAN, job : BOOLEAN, helper : BOOLEAN]
    /\ told \in {"nothing", "gone", "unconfirmed"}

Init ==
    /\ life = [p \in Proc |-> "none"]
    /\ job = {} /\ handles = {} /\ armed = FALSE
    /\ parent = "idle" /\ helper = "none"
    /\ down = <<>> /\ up = <<>> /\ linked = FALSE
    /\ earlier = FALSE
    /\ asked = 0 /\ reply = [asked |-> 0, of |-> 0]
    /\ sure = [owner |-> FALSE, job |-> FALSE, helper |-> FALSE]
    /\ told = "nothing"

processes == <<life, job, handles, armed>>
pipe == <<down, up, linked>>
outcome == <<reply, sure, told>>

-----------------------------------------------------------------------------
(* The operating system: jobs, processes and the pipe.                     *)

Live(p) == life[p] = "live"
Over(p) == life[p] \in {"none", "gone"}

\* Faulty variant: what AutoCAD has started is not counted.
ChildrenNotCounted == \A p \in job \ {"child"} : Over(p)

\* _active_process_count() = 0.
JobEmpty == \A p \in job : Over(p)

\* Faulty variant: the limit that kills on close is not set.
NeverKills(h) == FALSE

LastHandle(h) == h = {} /\ armed

\* The handles that remain are h, the processes F end and T are terminated.
Release(h, F, T) ==
    LET killed == IF LastHandle(h) /\ handles # {} THEN T \cup job ELSE T IN
    /\ handles' = h
    /\ life' = [p \in Proc |-> IF p \in F THEN "gone"
                              ELSE IF p \in killed /\ Live(p) THEN "dying" ELSE life[p]]

\* A terminated process is gone in the end, and its handles with it.
Vanish(p) ==
    /\ life[p] = "dying"
    /\ IF p = "helper" THEN Release(handles \ {"helper"}, {p}, {})
                       ELSE life' = [life EXCEPT ![p] = "gone"] /\ UNCHANGED handles
    /\ UNCHANGED <<job, armed, parent, helper, pipe, earlier, asked, outcome>>

\* AutoCAD or what it started ends by itself; it may also go on for ever.
Exits(p) ==
    /\ p # "helper" /\ Live(p)
    /\ life' = [life EXCEPT ![p] = "gone"]
    /\ UNCHANGED <<job, handles, armed, parent, helper, pipe, earlier, asked, outcome>>

\* A process that AutoCAD starts is in the jobs that AutoCAD is in.
Spawns ==
    /\ Live("acad") /\ life["child"] = "none"
    /\ life' = [life EXCEPT !["child"] = "live"]
    /\ job' = IF "acad" \in job THEN job \cup {"child"} ELSE job
    /\ UNCHANGED <<handles, armed, parent, helper, pipe, earlier, asked, outcome>>

\* The engineer starts an AutoCAD.
EngineerStarts ==
    /\ life["other"] = "none"
    /\ life' = [life EXCEPT !["other"] = "live"]
    /\ UNCHANGED <<job, handles, armed, parent, helper, pipe, earlier, asked, outcome>>

Tell(message) == IF linked THEN Append(up, message) ELSE up
Hears(kind) == up # <<>> /\ Head(up).kind = kind

-----------------------------------------------------------------------------
(* The helper: _isolated_autocad_startup_worker and                        *)
(* _serve_isolated_com_apartment.                                          *)

At(stage) == helper = stage /\ Live("helper")

Goes(stage) ==
    /\ helper' = stage
    /\ UNCHANGED <<armed, parent, linked, earlier, asked, outcome>>

SaysReady ==
    /\ At("ready")
    /\ up' = Tell(Msg("helper_ready"))
    /\ Goes("arming")
    /\ UNCHANGED <<life, job, handles, down>>

Arms ==
    /\ At("arming")
    /\ down # <<>> /\ Head(down).kind = "job_assigned"
    /\ down' = Tail(down)
    /\ Goes("open_job")
    /\ UNCHANGED <<life, job, handles, up>>

\* The job is opened by its name, which lasts as long as a handle.
OpensJob ==
    /\ At("open_job")
    /\ handles # {}
    /\ handles' = handles \cup {"helper"}
    /\ Goes("create")
    /\ UNCHANGED <<life, job, down, up>>

\* The new process belongs to the jobs of its creator.
CreatesAutoCAD ==
    /\ At("create")
    /\ life' = [life EXCEPT !["acad"] = "live"]
    /\ job' = IF "helper" \in job THEN job \cup {"acad"} ELSE job
    /\ Goes("assign")
    /\ UNCHANGED <<handles, down, up>>

AssignsAutoCAD ==
    /\ At("assign")
    /\ Live("acad")
    /\ job' = job \cup {"acad"}
    /\ Goes("find")
    /\ UNCHANGED <<life, handles, down, up>>

\* Faulty variant: the first AutoCAD of the table will do.
AnyAutoCAD(p) == TRUE

\* _find_job_owned_application, and the identity checks before "ready".
IsOwn(p) == p \in job /\ p = "acad"

\* Which AutoCAD is offered is encoded in the message: 1 is our own.
Offer(p) == [kind |-> "ready", of |-> IF p = "acad" THEN 1 ELSE 2]
Offered(message) == IF message.of = 1 THEN "acad" ELSE "other"

FindsAutoCAD ==
    /\ At("find")
    /\ \E p \in {"acad", "other"} :
         /\ Live(p) /\ IsOwn(p)
         /\ up' = Tell(Offer(p))
    /\ Goes("adopting")
    /\ UNCHANGED <<life, job, handles, down>>

IsAdopted ==
    /\ At("adopting")
    /\ down # <<>> /\ Head(down).kind = "adopted"
    /\ down' = Tail(down)
    /\ up' = Tell(Msg("owner_ready"))
    /\ Goes("serve")
    /\ UNCHANGED <<life, job, handles>>

Starting == {"ready", "arming", "open_job", "create", "assign", "find", "adopting"}

\* Any step of the start may fail or run out of time: an AutoCAD just created
\* is terminated, if that does not fail too, and the error is reported.
StartFails ==
    /\ helper \in Starting /\ Live("helper")
    /\ up' = Tell(Msg("error"))
    /\ \E T \in SUBSET {"acad"} :
         /\ T # {} => helper = "assign"
         /\ Release(handles, {}, T)
    /\ Goes("exit")
    /\ UNCHANGED <<job, down>>

TakesRequest ==
    /\ At("serve")
    /\ down # <<>> /\ Head(down).kind \in {"call", "quit"}
    /\ Goes("invoke")
    /\ UNCHANGED <<life, job, handles, down, up>>

\* The COM call returns or fails; Quit may end AutoCAD or leave it waiting.
Replies ==
    /\ At("invoke")
    /\ down' = Tail(down)
    /\ \/ Live("acad") /\ up' = Tell(Request("result", Head(down).of))
       \/ up' = Tell(Request("rpc_error", Head(down).of))
    /\ Goes("serve")
    /\ UNCHANGED <<life, job, handles>>

\* A shutdown request or the end of the pipe.
Stops ==
    /\ At("serve")
    /\ \/ down # <<>> /\ Head(down).kind = "shutdown" /\ down' = Tail(down)
       \/ down = <<>> /\ ~linked /\ UNCHANGED down
    /\ Goes("release")
    /\ UNCHANGED <<life, job, handles, up>>

\* The job's handle is closed when every proxy has been given up.
ReleasesProxies ==
    /\ At("release")
    /\ Release(handles \ {"helper"}, {}, {})
    /\ Goes("stop")
    /\ UNCHANGED <<job, down, up>>

\* After CoUninitialize.
SaysStopped ==
    /\ At("stop")
    /\ up' = Tell(Msg("stopped"))
    /\ Goes("end")
    /\ UNCHANGED <<life, job, handles, down>>

HelperEnds ==
    /\ Live("helper")
    /\ Release(handles \ {"helper"}, {"helper"}, {})
    /\ UNCHANGED <<job, armed, parent, helper, pipe, earlier, asked, outcome>>

\* The helper may die at any time.
HelperCrashes == helper \notin {"end", "exit"} /\ HelperEnds

HelperStep ==
    \/ SaysReady \/ Arms \/ OpensJob \/ CreatesAutoCAD \/ AssignsAutoCAD
    \/ FindsAutoCAD \/ IsAdopted \/ StartFails \/ TakesRequest
    \/ Stops \/ ReleasesProxies \/ SaysStopped
    \/ helper \in {"end", "exit"} /\ HelperEnds

-----------------------------------------------------------------------------
(* The parent connects: connect_isolated, _run_isolated_startup_boundary.  *)

Parents(stage) ==
    /\ parent' = stage
    /\ UNCHANGED <<armed, helper, earlier, asked, reply, told>>

\* Clean-up begins; the owner of a session closes its pipe first.
CleansUp(owner) ==
    /\ parent' = "kill_job"
    /\ sure' = [owner |-> owner, job |-> FALSE, helper |-> FALSE]
    /\ linked' = (linked /\ ~owner)
    /\ UNCHANGED <<processes, helper, down, up, earlier, asked, reply, told>>

\* The job is made and the helper is started, which may fail.
Connects ==
    /\ parent = "idle"
    /\ handles' = {"parent"} /\ armed' = TRUE /\ linked' = TRUE
    /\ earlier' = Live("other")
    /\ \/ /\ life' = [life EXCEPT !["helper"] = "live"]
          /\ helper' = "ready" /\ parent' = "await_helper"
       \/ parent' = "kill_job" /\ UNCHANGED <<life, helper>>
    /\ UNCHANGED <<job, down, up, asked, outcome>>

\* The helper enters the job before it may create anything.
HelperReady ==
    /\ parent = "await_helper" /\ Hears("helper_ready")
    /\ Live("helper")
    /\ job' = job \cup {"helper"}
    /\ up' = Tail(up) /\ down' = Append(down, Msg("job_assigned"))
    /\ Parents("await_ready")
    /\ UNCHANGED <<life, handles, linked, sure>>

\* The offered process is alive, newer than the session, and bound to the job.
AutoCADReady ==
    /\ parent = "await_ready" /\ Hears("ready")
    /\ LET p == Offered(Head(up)) IN
       /\ Live(p)
       /\ p = "other" => ~earlier
       /\ job' = job \cup {p}
    /\ up' = Tail(up) /\ down' = Append(down, Msg("adopted"))
    /\ Parents("await_owner")
    /\ UNCHANGED <<life, handles, linked, sure>>

\* The helper owns the proxies now; what was offered is checked once more.
OwnerReady ==
    /\ parent = "await_owner" /\ Hears("owner_ready")
    /\ Live("helper")
    /\ \E p \in {"acad", "other"} \cap job : Live(p)
    /\ up' = Tail(up)
    /\ Parents("open")
    /\ UNCHANGED <<life, job, handles, down, linked, sure>>

\* A deadline, an error, a broken pipe or a failed check ends the attempt.
ConnectFails ==
    /\ parent \in {"await_helper", "await_ready", "await_owner"}
    /\ \E owner \in BOOLEAN :
         /\ owner => parent = "await_owner" /\ Hears("owner_ready")
         /\ CleansUp(owner)

-----------------------------------------------------------------------------
(* The parent calls: _ComProcessOwner.request, close_owned_session.        *)

\* The pipe is used by one request at a time.
Asks(kind) ==
    /\ asked' = asked + 1
    /\ down' = Append(down, Request(kind, asked + 1))
    /\ UNCHANGED <<processes, helper, up, linked, earlier, outcome>>

Calls ==
    /\ parent = "open" /\ asked < MaxCalls
    /\ parent' = "calling"
    /\ Asks("call")

\* close_owned_session; the call that checks the process first is one of Calls.
Quits ==
    /\ parent = "open"
    /\ parent' = "quitting"
    /\ Asks("quit")

Returns ==
    /\ parent \in {"calling", "quitting"} /\ Hears("result")
    /\ reply' = [asked |-> asked, of |-> Head(up).of]
    /\ up' = Tail(up)
    /\ \/ parent = "calling" /\ parent' = "open" /\ UNCHANGED <<asked, down>>
       \/ /\ parent = "quitting" /\ parent' = "stopping"
          /\ asked' = asked + 1
          /\ down' = Append(down, Request("shutdown", asked + 1))
    /\ UNCHANGED <<processes, helper, linked, earlier, sure, told>>

\* Faulty variant: a call that ran out of time leaves the session open.
RejectedOrForgotten ==
    \/ /\ parent \in {"calling", "quitting", "stopping"}
       /\ CleansUp(TRUE)
    \/ /\ parent = "calling" /\ Parents("open")
       /\ UNCHANGED <<life, job, handles, pipe, sure>>

\* A refusal, the deadline, a broken pipe: the session is over.
Rejected ==
    /\ parent \in {"calling", "quitting", "stopping"}
    /\ CleansUp(TRUE)

Stopped ==
    /\ parent = "stopping" /\ Hears("stopped")
    /\ up' = Tail(up)
    /\ Parents("joining")
    /\ UNCHANGED <<life, job, handles, down, linked, sure>>

\* shutdown_after_verified_quit: only an empty job is disarmed.
Joined ==
    /\ parent = "joining"
    /\ Over("helper") /\ JobEmpty
    /\ parent' = "closed" /\ told' = "gone"
    /\ armed' = FALSE /\ linked' = FALSE
    /\ handles' = handles \ {"parent"}
    /\ UNCHANGED <<life, job, helper, down, up, earlier, asked, reply, sure>>

\* AutoCAD or something it started goes on after Quit.
JoinFails ==
    /\ parent = "joining"
    /\ ~(Over("helper") /\ JobEmpty)
    /\ CleansUp(TRUE)

\* disconnect.
Disconnects ==
    /\ parent = "open"
    /\ CleansUp(TRUE)

-----------------------------------------------------------------------------
(* Clean-up: _terminal_close, or the end of a failed connect.              *)

Cleans(stage) ==
    /\ parent' = stage
    /\ UNCHANGED <<job, handles, armed, helper, pipe, earlier, asked, reply, told>>

KillsJob ==
    /\ parent = "kill_job"
    /\ \/ /\ life' = [p \in Proc |-> IF p \in job /\ Live(p) THEN "dying" ELSE life[p]]
          /\ Cleans("wait_job")
       \/ Cleans("kill_helper") /\ UNCHANGED life
    /\ UNCHANGED sure

\* Waits for the job to be empty, up to a deadline; asking may fail.
JobWaited ==
    /\ parent = "wait_job"
    /\ \E seen \in {JobEmpty, FALSE} : sure' = [sure EXCEPT !.job = seen]
    /\ Cleans("kill_helper")
    /\ UNCHANGED life

KillsHelper ==
    /\ parent = "kill_helper"
    /\ \/ life' = [life EXCEPT !["helper"] = IF @ = "live" THEN "dying" ELSE @]
       \/ UNCHANGED life
    /\ Cleans("wait_helper")
    /\ UNCHANGED sure

\* A helper that never started cannot be joined, and is not confirmed.
HelperWaited ==
    /\ parent = "wait_helper"
    /\ sure' = [sure EXCEPT !.helper = life["helper"] = "gone"]
    /\ Cleans(IF sure'.helper /\ ~sure.job /\ sure.owner THEN "rewait" ELSE "close_job")
    /\ UNCHANGED life

JobWaitedAgain ==
    /\ parent = "rewait"
    /\ \E seen \in {JobEmpty, FALSE} : sure' = [sure EXCEPT !.job = seen]
    /\ Cleans("close_job")
    /\ UNCHANGED life

ClosesJob ==
    /\ parent = "close_job"
    /\ parent' = "closed"
    /\ told' = IF sure.helper /\ sure.job THEN "gone" ELSE "unconfirmed"
    /\ linked' = FALSE
    /\ Release(handles \ {"parent"}, {}, {})
    /\ UNCHANGED <<job, armed, helper, down, up, earlier, asked, reply, sure>>

\* The harness process dies.
ParentDies ==
    /\ parent \notin {"idle", "closed", "dead"}
    /\ parent' = "dead" /\ linked' = FALSE
    /\ Release(handles \ {"parent"}, {}, {})
    /\ UNCHANGED <<job, armed, helper, down, up, earlier, asked, outcome>>

ParentStep ==
    \/ HelperReady \/ AutoCADReady \/ OwnerReady \/ ConnectFails
    \/ Returns \/ Rejected \/ Stopped \/ Joined \/ JoinFails
    \/ KillsJob \/ JobWaited \/ KillsHelper \/ HelperWaited \/ JobWaitedAgain
    \/ ClosesJob

Next ==
    \/ ParentStep \/ HelperStep \/ Replies \/ HelperCrashes
    \/ Connects \/ Calls \/ Quits \/ Disconnects \/ ParentDies
    \/ EngineerStarts \/ Spawns
    \/ \E p \in Proc : Vanish(p) \/ Exits(p)

Spec == Init /\ [][Next]_vars

\* Waits have deadlines and terminated processes go; only a call of COM may
\* last for ever: where the helper looks for AutoCAD, serves a request, gives
\* up its proxies (also when its start has failed) or closes its apartment.
InCom == {"find", "invoke", "release", "stop", "exit"}

Fairness ==
    /\ WF_vars(ParentStep)
    /\ WF_vars(HelperStep /\ helper \notin InCom)
    /\ \A p \in Proc : WF_vars(Vanish(p))

FairSpec == Spec /\ Fairness

-----------------------------------------------------------------------------
(* Properties.                                                             *)

AllGone == \A p \in Ours : Over(p)
InACall == Live("helper") /\ helper \in InCom

\* A session that is reported as cleaned up or closed has left no process
\* behind, also when its start, a call or the quit was interrupted anywhere
\* (_terminal_close, shutdown_after_verified_quit).
ConfirmedMeansGone == told = "gone" => AllGone

\* An AutoCAD that the engineer runs is never terminated, nor put where the
\* end of the session would terminate it (connect_isolated).
OthersSpared == life["other"] \in {"none", "live", "gone"} /\ "other" \notin job

\* What a call returns is the answer to that call, whatever timed out before
\* (_ComProcessOwner.request).
RepliesMatch == reply.of = reply.asked

\* When a session has ended, well or badly, or the harness has died, all its
\* processes end, unless the helper stays in a COM call for ever.
NothingLeftBehind ==
    \/ <>[]InACall
    \/ (parent \in {"closed", "dead"}) ~> AllGone
===============================================================================
