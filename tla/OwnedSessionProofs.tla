-------------------------- MODULE OwnedSessionProofs --------------------------
(***************************************************************************)
(* Proofs about OwnedSession, for any number of calls.                     *)
(***************************************************************************)
EXTENDS OwnedSession, SequenceTheorems, TLAPS

\* The pipe of a session whose start has failed.
LastWords == {Msg("helper_ready"), Offer("acad"), Msg("error")}
Failed ==
    /\ helper = "exit"
    /\ \A i \in DOMAIN up : up[i] \in LastWords

\* What may be in the pipe while the parent connects and calls: each side
\* sends its next message only when the other has read its last one.
Starts ==
    /\ parent = "idle" => helper = "none" /\ down = <<>> /\ up = <<>>
    /\ parent = "await_helper" =>
         \/ Failed /\ down = <<>>
         \/ helper = "ready" /\ up = <<>> /\ down = <<>>
         \/ helper = "arming" /\ up = <<Msg("helper_ready")>> /\ down = <<>>
    /\ parent = "await_ready" =>
         \/ Failed
         \/ helper = "arming" /\ up = <<>> /\ down = <<Msg("job_assigned")>>
         \/ helper \in {"open_job", "create", "assign", "find"} /\ up = <<>> /\ down = <<>>
         \/ helper = "adopting" /\ up = <<Offer("acad")>> /\ down = <<>>
    /\ parent = "await_owner" =>
         \/ Failed
         \/ helper = "adopting" /\ up = <<>> /\ down = <<Msg("adopted")>>
         \/ helper = "serve" /\ up = <<Msg("owner_ready")>> /\ down = <<>>

Serves ==
    /\ parent = "open" => helper = "serve" /\ up = <<>> /\ down = <<>>
    /\ parent \in {"calling", "quitting"} =>
         \/ /\ helper \in {"serve", "invoke"} /\ up = <<>>
            /\ \E k \in {"call", "quit"} : down = <<Request(k, asked)>>
         \/ /\ helper = "serve" /\ down = <<>>
            /\ \E k \in {"result", "rpc_error"} : up = <<Request(k, asked)>>
    /\ helper = "invoke" => down # <<>>

\* Who is in the job: the helper before it does anything, and all it creates.
Members ==
    /\ parent = "idle" => job = {} /\ \A p \in Ours : life[p] = "none"
    /\ (down # <<>> \/ helper \in {"open_job", "create", "assign", "find", "adopting",
                                    "serve", "invoke", "release", "stop"}) => "helper" \in job
    /\ parent \in {"await_helper", "await_ready", "await_owner", "open", "calling",
                   "quitting", "stopping"} => linked
    /\ parent \in {"await_ready", "await_owner", "open", "calling", "quitting",
                   "stopping"} => "helper" \in job
    /\ \A p \in {"acad", "child"} : life[p] # "none" => p \in job

\* What a clean-up has confirmed stays true.
Confirmed ==
    /\ sure.job => JobEmpty /\ parent \in {"wait_job", "kill_helper", "wait_helper",
                                           "rewait", "close_job", "closed", "dead"}
    /\ sure.helper => life["helper"] = "gone"
    /\ told # "nothing" => parent = "closed"
    /\ ConfirmedMeansGone

IInv == /\ TypeOK /\ Starts /\ Serves /\ Members /\ Confirmed
        /\ OthersSpared /\ RepliesMatch

-----------------------------------------------------------------------------
(* Messages.                                                               *)

LEMMA Sent ==
    ASSUME NEW s \in Seq(Message), NEW m \in Message
    PROVE  /\ Append(s, m) \in Seq(Message)
           /\ Append(s, m) # <<>>
           /\ \A i \in DOMAIN Append(s, m) :
                  Append(s, m)[i] = m \/ (i \in DOMAIN s /\ Append(s, m)[i] = s[i])
<1>1. /\ Append(s, m) \in Seq(Message)
      /\ Len(Append(s, m)) = Len(s) + 1
      /\ \A i \in 1..Len(s) : Append(s, m)[i] = s[i]
      /\ Append(s, m)[Len(s) + 1] = m
  BY AppendProperties
<1>2. Len(s) \in Nat /\ DOMAIN s = 1..Len(s) /\ DOMAIN Append(s, m) = 1..(Len(s) + 1)
  BY <1>1, LenProperties
<1>3. Append(s, m) # <<>>
  BY <1>1, <1>2, EmptySeq
<1>4. \A i \in 1..(Len(s) + 1) : i = Len(s) + 1 \/ i \in 1..Len(s)
  BY <1>2
<1>5. \A i \in DOMAIN Append(s, m) :
         Append(s, m)[i] = m \/ (i \in DOMAIN s /\ Append(s, m)[i] = s[i])
  BY <1>1, <1>2, <1>4
<1> QED BY <1>1, <1>3, <1>5

LEMMA Taken ==
    ASSUME NEW s \in Seq(Message), s # <<>>
    PROVE  /\ Head(s) \in Message /\ Tail(s) \in Seq(Message)
           /\ \A i \in DOMAIN Tail(s) : i + 1 \in DOMAIN s /\ Tail(s)[i] = s[i + 1]
<1>1. Len(s) \in Nat /\ Len(s) # 0 /\ DOMAIN s = 1..Len(s)
  BY EmptySeq, LenProperties
<1>2. /\ Head(s) \in Message /\ Tail(s) \in Seq(Message)
      /\ Len(Tail(s)) = Len(s) - 1
      /\ \A i \in 1..Len(Tail(s)) : Tail(s)[i] = s[i + 1]
  BY <1>1, HeadTailProperties
<1>3. DOMAIN Tail(s) = 1..(Len(s) - 1)
  BY <1>1, <1>2, LenProperties
<1> QED BY <1>1, <1>2, <1>3

LEMMA FirstWord ==
    ASSUME NEW s \in Seq(Message), s # <<>>
    PROVE  1 \in DOMAIN s /\ Head(s) = s[1]
BY EmptySeq, LenProperties

LEMMA Single ==
    ASSUME NEW m
    PROVE  /\ Append(<<>>, m) = <<m>> /\ Head(<<m>>) = m /\ Tail(<<m>>) = <<>>
           /\ <<m>> # <<>>
OBVIOUS

LEMMA Letters ==
    /\ \A k \in {"helper_ready", "job_assigned", "error", "adopted", "owner_ready", "stopped"} :
          Msg(k) \in Message /\ Msg(k).kind = k
    /\ \A p : Offer(p) \in Message /\ Offer(p).kind = "ready"
    /\ Offered(Offer("acad")) = "acad"
    /\ \A k \in {"call", "quit", "shutdown", "result", "rpc_error"}, n \in Nat :
          Request(k, n) \in Message /\ Request(k, n).kind = k /\ Request(k, n).of = n
BY DEF Msg, Offer, Offered, Request, Message

LEMMA TellType ==
    ASSUME TypeOK, NEW m \in Message
    PROVE  Tell(m) \in Seq(Message)
BY Sent DEF Tell, TypeOK

LEMMA HearsType ==
    ASSUME TypeOK, NEW k, Hears(k)
    PROVE  up # <<>> /\ Head(up) \in Message /\ Tail(up) \in Seq(Message) /\ Head(up).kind = k
BY Taken DEF Hears, TypeOK

-----------------------------------------------------------------------------
(* The type invariant.                                                     *)

LEMMA ReleaseType ==
    ASSUME TypeOK, NEW h \in SUBSET handles, NEW F, NEW T, Release(h, F, T)
    PROVE  /\ handles' \subseteq {"parent", "helper"}
           /\ life' \in [Proc -> {"none", "live", "dying", "gone"}]
BY DEF Release, TypeOK, Live

\* The operating system changes processes, handles and the job only.
LEMMA SystemType ==
    ASSUME TypeOK, NEW p \in Proc, Vanish(p) \/ Exits(p) \/ Spawns \/ EngineerStarts
    PROVE  TypeOK'
<1>1. UNCHANGED <<armed, linked, earlier, parent, helper, down, up, asked, reply, sure, told>>
  BY DEF Vanish, Exits, Spawns, EngineerStarts, pipe, outcome
<1>2. /\ handles' \subseteq {"parent", "helper"} /\ job' \subseteq Proc
      /\ life' \in [Proc -> {"none", "live", "dying", "gone"}]
  <2>1. CASE Vanish(p) /\ p = "helper"
    BY <2>1, ReleaseType DEF Vanish, TypeOK
  <2>2. CASE Vanish(p) /\ p # "helper"
    BY <2>2 DEF Vanish, TypeOK
  <2>3. CASE Exits(p)
    BY <2>3 DEF Exits, TypeOK
  <2>4. CASE Spawns
    BY <2>4 DEF Spawns, TypeOK, Proc
  <2>5. CASE EngineerStarts
    BY <2>5 DEF EngineerStarts, TypeOK
  <2> QED BY <2>1, <2>2, <2>3, <2>4, <2>5
<1> QED BY <1>1, <1>2 DEF TypeOK

LEMMA HelperType ==
    ASSUME TypeOK, Serves, HelperStep \/ Replies \/ HelperCrashes
    PROVE  TypeOK'
<1>1. /\ UNCHANGED <<armed, linked, earlier, parent, asked, reply, sure, told>>
      /\ helper' \in Helper
  BY DEF HelperStep, Replies, HelperCrashes, HelperEnds, SaysReady, Arms, OpensJob,
         CreatesAutoCAD, AssignsAutoCAD, FindsAutoCAD, IsAdopted, StartFails, TakesRequest,
         Stops, ReleasesProxies, SaysStopped, Goes, pipe, outcome, TypeOK, Helper
<1>2. down' \in Seq(Message)
  <2>1. down' = down \/ (down # <<>> /\ down' = Tail(down))
    <3>1. CASE Replies
      BY <3>1 DEF Replies, Serves, At
    <3>2. CASE HelperEnds
      BY <3>2 DEF HelperEnds, pipe
    <3>3. CASE Arms \/ IsAdopted \/ Stops
      BY <3>3 DEF Arms, IsAdopted, Stops
    <3>4. CASE SaysReady \/ OpensJob \/ CreatesAutoCAD \/ AssignsAutoCAD \/ FindsAutoCAD
                 \/ StartFails \/ TakesRequest \/ ReleasesProxies \/ SaysStopped
      BY <3>4 DEF SaysReady, OpensJob, CreatesAutoCAD, AssignsAutoCAD, FindsAutoCAD,
             StartFails, TakesRequest, ReleasesProxies, SaysStopped
    <3> QED BY <3>1, <3>2, <3>3, <3>4 DEF HelperStep, HelperCrashes
  <2>2. down \in Seq(Message)
    BY DEF TypeOK
  <2> QED BY <2>1, <2>2, Taken
<1>3. up' \in Seq(Message)
  <2>1. CASE Replies
    <3>1. down # <<>> /\ Head(down).of \in Nat
      <4>1. down # <<>> /\ down \in Seq(Message)
        BY <2>1 DEF Replies, Serves, At, TypeOK
      <4>2. Head(down) \in Message
        BY <4>1, Taken
      <4> QED BY <4>1, <4>2 DEF Message
    <3>2. PICK n \in Nat : n = Head(down).of
      BY <3>1
    <3>3. Request("result", n) \in Message /\ Request("rpc_error", n) \in Message
      BY Letters
    <3> QED BY <2>1, <3>2, <3>3, TellType DEF Replies
  <2>2. CASE ~Replies
    <3>1. up' = up \/ \E m \in Message : up' = Tell(m)
      BY <2>2, Letters DEF HelperStep, HelperCrashes, HelperEnds, SaysReady, Arms, OpensJob,
         CreatesAutoCAD, AssignsAutoCAD, FindsAutoCAD, IsAdopted, StartFails, TakesRequest,
         Stops, ReleasesProxies, SaysStopped, pipe
    <3> QED BY <3>1, TellType DEF TypeOK
  <2> QED BY <2>1, <2>2
<1>4. /\ handles' \subseteq {"parent", "helper"} /\ job' \subseteq Proc
      /\ life' \in [Proc -> {"none", "live", "dying", "gone"}]
  <2>1. CASE HelperEnds
    BY <2>1, ReleaseType DEF HelperEnds, TypeOK
  <2>2. CASE StartFails
    BY <2>2, ReleaseType DEF StartFails, TypeOK
  <2>3. CASE ReleasesProxies
    BY <2>3, ReleaseType DEF ReleasesProxies, TypeOK
  <2>4. CASE CreatesAutoCAD \/ AssignsAutoCAD \/ OpensJob
    BY <2>4 DEF CreatesAutoCAD, AssignsAutoCAD, OpensJob, TypeOK, Proc
  <2>5. CASE SaysReady \/ Arms \/ FindsAutoCAD \/ IsAdopted \/ TakesRequest \/ Stops
             \/ SaysStopped \/ Replies
    BY <2>5 DEF SaysReady, Arms, FindsAutoCAD, IsAdopted, TakesRequest, Stops, SaysStopped,
           Replies, TypeOK
  <2> QED BY <2>1, <2>2, <2>3, <2>4, <2>5 DEF HelperStep, HelperCrashes
<1> QED BY <1>1, <1>2, <1>3, <1>4 DEF TypeOK

LEMMA ConnectType ==
    ASSUME TypeOK, Connects \/ HelperReady \/ AutoCADReady \/ OwnerReady \/ ConnectFails
    PROVE  TypeOK'
<1>1. CASE Connects
  BY <1>1 DEF Connects, TypeOK, Parent, Helper, Proc, outcome, Live
<1>2. CASE HelperReady
  BY <1>2, HearsType, Sent, Letters DEF HelperReady, Parents, TypeOK, Parent, Proc
<1>3. CASE AutoCADReady
  BY <1>3, HearsType, Sent, Letters DEF AutoCADReady, Parents, TypeOK, Parent, Proc, Offered
<1>4. CASE OwnerReady
  BY <1>4, HearsType DEF OwnerReady, Parents, TypeOK, Parent
<1>5. CASE ConnectFails
  BY <1>5 DEF ConnectFails, CleansUp, TypeOK, Parent, processes
<1> QED BY <1>1, <1>2, <1>3, <1>4, <1>5

LEMMA CallType ==
    ASSUME TypeOK,
           Calls \/ Quits \/ Returns \/ Rejected \/ Stopped \/ Joined \/ JoinFails \/ Disconnects
    PROVE  TypeOK'
<1>1. CASE Calls \/ Quits
  <2>1. \E k \in {"call", "quit"} : Request(k, asked + 1) \in Message /\ Asks(k)
    BY <1>1, Letters DEF Calls, Quits, TypeOK
  <2> QED BY <1>1, <2>1, Sent DEF Calls, Quits, Asks, processes, outcome, TypeOK, Parent
<1>2. CASE Returns
  <2>1. up' \in Seq(Message) /\ reply' \in [asked : Nat, of : Nat]
    BY <1>2, HearsType DEF Returns, TypeOK, Message
  <2>2. down' \in Seq(Message) /\ asked' \in Nat /\ parent' \in Parent
    <3>1. asked + 1 \in Nat /\ Request("shutdown", asked + 1) \in Message
      BY Letters DEF TypeOK
    <3>2. Append(down, Request("shutdown", asked + 1)) \in Seq(Message)
      BY <3>1, Sent DEF TypeOK
    <3>3. /\ down' = down \/ down' = Append(down, Request("shutdown", asked + 1))
          /\ asked' = asked \/ asked' = asked + 1
          /\ parent' \in Parent
      BY <1>2 DEF Returns, Parent
    <3> QED BY <3>1, <3>2, <3>3 DEF TypeOK
  <2> QED BY <1>2, <2>1, <2>2 DEF Returns, processes, TypeOK
<1>3. CASE Stopped
  BY <1>3, HearsType DEF Stopped, Parents, TypeOK, Parent
<1>4. CASE Joined
  BY <1>4 DEF Joined, TypeOK, Parent
<1>5. CASE Rejected \/ JoinFails \/ Disconnects
  <2>1. CleansUp(TRUE)
    BY <1>5 DEF Rejected, JoinFails, Disconnects
  <2> QED BY <2>1 DEF CleansUp, TypeOK, Parent, processes
<1> QED BY <1>1, <1>2, <1>3, <1>4, <1>5

LEMMA CleanUpType ==
    ASSUME TypeOK,
           KillsJob \/ JobWaited \/ KillsHelper \/ HelperWaited \/ JobWaitedAgain \/ ClosesJob
             \/ ParentDies
    PROVE  TypeOK'
<1>1. CASE KillsJob
  BY <1>1 DEF KillsJob, Cleans, pipe, TypeOK, Parent, Live
<1>2. CASE JobWaited \/ JobWaitedAgain
  BY <1>2 DEF JobWaited, JobWaitedAgain, Cleans, pipe, TypeOK, Parent, JobEmpty
<1>3. CASE KillsHelper
  BY <1>3 DEF KillsHelper, Cleans, pipe, TypeOK, Parent
<1>4. CASE HelperWaited
  BY <1>4 DEF HelperWaited, Cleans, pipe, TypeOK, Parent
<1>5. CASE ClosesJob
  BY <1>5, ReleaseType DEF ClosesJob, TypeOK, Parent
<1>6. CASE ParentDies
  BY <1>6, ReleaseType DEF ParentDies, TypeOK, Parent, outcome
<1> QED BY <1>1, <1>2, <1>3, <1>4, <1>5, <1>6

LEMMA InitIInv == Init => IInv
<1> SUFFICES ASSUME Init PROVE IInv
  OBVIOUS
<1>1. TypeOK
  BY EmptySeq DEF Init, TypeOK, Parent, Helper, Proc
<1>2. Starts /\ Serves
  BY DEF Init, Starts, Serves
<1>3. Members /\ Confirmed /\ OthersSpared /\ RepliesMatch
  BY DEF Init, Members, Confirmed, ConfirmedMeansGone, OthersSpared, RepliesMatch, Ours, Proc,
         JobEmpty
<1> QED BY <1>1, <1>2, <1>3 DEF IInv

LEMMA TypeIsKept == IInv /\ [Next]_vars => TypeOK'
<1> SUFFICES ASSUME IInv, [Next]_vars PROVE TypeOK'
  OBVIOUS
<1>1. TypeOK /\ Serves
  BY DEF IInv
<1>2. CASE UNCHANGED vars
  BY <1>1, <1>2 DEF vars, TypeOK
<1>3. CASE Next
  BY <1>1, <1>3, SystemType, HelperType, ConnectType, CallType, CleanUpType
     DEF Next, ParentStep, Proc
<1> QED BY <1>2, <1>3

-----------------------------------------------------------------------------
(* The pipe.                                                               *)

Protocol == Starts /\ Serves

LEMMA StutterKeepsPipe ==
    Protocol /\ UNCHANGED <<parent, helper, down, up, asked>> => Protocol'
BY DEF Protocol, Starts, Serves, Failed

\* Once the parent cleans up, the pipe no longer matters.
LEMMA CleaningKeepsPipe ==
    ASSUME TypeOK, Protocol, UNCHANGED helper,
           parent' \notin {"idle", "await_helper", "await_ready", "await_owner", "open",
                           "calling", "quitting"},
           down' = down \/ (\E m \in Message : down' = Append(down, m))
    PROVE  Protocol'
<1>1. Starts'
  BY DEF Starts
<1>2. Serves'
  BY Sent DEF Serves, Protocol, TypeOK
<1> QED BY <1>1, <1>2 DEF Protocol

\* A start that fails: the helper is over, and its last word is an error.
LEMMA FailureKeepsPipe ==
    ASSUME TypeOK, Protocol, Members, StartFails
    PROVE  Protocol'
<1>1. /\ helper' = "exit" /\ UNCHANGED <<parent, down, asked, linked>> /\ up' = Tell(Msg("error"))
      /\ helper \in Starting
  BY DEF StartFails, Goes
<1>2. Serves'
  BY <1>1 DEF Serves, Protocol, Starting
<1>3. parent # "idle"
  BY <1>1 DEF Protocol, Starts, Starting
<1>4. ASSUME parent \in {"await_helper", "await_ready", "await_owner"}
      PROVE  Failed'
  <2>1. \A i \in DOMAIN up : up[i] \in LastWords
    <3>1. helper # "exit" /\ helper # "serve"
      BY <1>1 DEF Starting
    <3>2. \/ up = <<>> \/ up = <<Msg("helper_ready")>> \/ up = <<Offer("acad")>>
      BY <1>4, <3>1 DEF Protocol, Starts, Failed
    <3> QED BY <3>2 DEF LastWords
  <2>2. up' = Append(up, Msg("error")) /\ Msg("error") \in Message /\ Msg("error") \in LastWords
    BY <1>1, <1>4, Letters DEF Members, Tell, LastWords
  <2>3. up \in Seq(Message)
    BY DEF TypeOK
  <2> QED BY <1>1, <2>1, <2>2, <2>3, Sent DEF Failed
<1>5. Starts'
  BY <1>1, <1>3, <1>4 DEF Starts, Protocol
<1> QED BY <1>2, <1>5 DEF Protocol

LEMMA StartKeepsPipe ==
    ASSUME TypeOK, Protocol, Members,
           SaysReady \/ Arms \/ OpensJob \/ CreatesAutoCAD \/ AssignsAutoCAD \/ FindsAutoCAD
    PROVE  Protocol'
<1>1. /\ helper \in {"ready", "arming", "open_job", "create", "assign", "find"}
      /\ helper' \in {"arming", "open_job", "create", "assign", "find", "adopting"}
      /\ UNCHANGED <<parent, asked>>
  BY DEF SaysReady, Arms, OpensJob, CreatesAutoCAD, AssignsAutoCAD, FindsAutoCAD, At, Goes
<1>2. Serves'
  BY <1>1 DEF Serves, Protocol
<1>3. CASE SaysReady
  <2>1. helper = "ready" /\ helper' = "arming" /\ down' = down /\ up' = Tell(Msg("helper_ready"))
    BY <1>3 DEF SaysReady, At, Goes
  <2>2. parent = "await_helper" => up = <<>> /\ down = <<>> /\ up' = <<Msg("helper_ready")>>
    BY <2>1, Single DEF Protocol, Starts, Failed, Members, Tell
  <2>3. parent \notin {"idle", "await_ready", "await_owner"}
    BY <2>1 DEF Protocol, Starts, Failed
  <2> QED BY <1>1, <1>2, <2>1, <2>2, <2>3 DEF Protocol, Starts
<1>4. CASE Arms
  <2>1. /\ helper = "arming" /\ helper' = "open_job" /\ up' = up /\ down # <<>> /\ down' = Tail(down)
    BY <1>4 DEF Arms, At, Goes
  <2>2. parent = "await_ready" => up = <<>> /\ down' = <<>>
    BY <2>1, Single DEF Protocol, Starts, Failed
  <2>3. parent \notin {"idle", "await_helper", "await_owner"}
    BY <2>1 DEF Protocol, Starts, Failed
  <2> QED BY <1>1, <1>2, <2>1, <2>2, <2>3 DEF Protocol, Starts
<1>5. CASE OpensJob \/ CreatesAutoCAD \/ AssignsAutoCAD
  <2>1. /\ helper \in {"open_job", "create", "assign"} /\ helper' \in {"create", "assign", "find"}
        /\ up' = up /\ down' = down
    BY <1>5 DEF OpensJob, CreatesAutoCAD, AssignsAutoCAD, At, Goes
  <2> QED BY <1>1, <1>2, <2>1 DEF Protocol, Starts, Failed
<1>6. CASE FindsAutoCAD
  <2>1. /\ helper = "find" /\ helper' = "adopting" /\ down' = down /\ up' = Tell(Offer("acad"))
    BY <1>6 DEF FindsAutoCAD, At, Goes, IsOwn
  <2>2. parent = "await_ready" => up = <<>> /\ down = <<>> /\ up' = <<Offer("acad")>>
    BY <2>1, Single DEF Protocol, Starts, Failed, Members, Tell
  <2>3. parent \notin {"idle", "await_helper", "await_owner"}
    BY <2>1 DEF Protocol, Starts, Failed
  <2> QED BY <1>1, <1>2, <2>1, <2>2, <2>3 DEF Protocol, Starts
<1> QED BY <1>3, <1>4, <1>5, <1>6

LEMMA ServiceKeepsPipe ==
    ASSUME TypeOK, Protocol, Members,
           IsAdopted \/ TakesRequest \/ Replies \/ Stops \/ ReleasesProxies \/ SaysStopped
    PROVE  Protocol'
<1>1. CASE IsAdopted
  <2>1. /\ helper = "adopting" /\ helper' = "serve" /\ UNCHANGED <<parent, asked>>
        /\ down # <<>> /\ down' = Tail(down) /\ up' = Tell(Msg("owner_ready"))
    BY <1>1 DEF IsAdopted, At, Goes
  <2>2. parent = "await_owner" => down' = <<>> /\ up' = <<Msg("owner_ready")>>
    BY <2>1, Single DEF Protocol, Starts, Failed, Members, Tell
  <2>3. parent \notin {"idle", "await_helper", "await_ready", "open", "calling", "quitting"}
    BY <2>1 DEF Protocol, Starts, Serves, Failed
  <2>4. Starts'
    BY <2>1, <2>2, <2>3 DEF Starts
  <2>5. Serves'
    BY <2>1, <2>3 DEF Serves
  <2> QED BY <2>4, <2>5 DEF Protocol
<1>2. CASE TakesRequest
  <2>1. /\ helper = "serve" /\ helper' = "invoke" /\ UNCHANGED <<parent, asked, down, up>>
        /\ down # <<>> /\ Head(down).kind \in {"call", "quit"}
    BY <1>2 DEF TakesRequest, At, Goes
  <2>2. parent \notin {"idle", "await_helper", "await_ready", "await_owner", "open"}
    BY <2>1 DEF Protocol, Starts, Serves, Failed
  <2>3. Starts'
    BY <2>1, <2>2 DEF Starts
  <2>4. Serves'
    BY <2>1, <2>2 DEF Serves, Protocol
  <2> QED BY <2>3, <2>4 DEF Protocol
<1>3. CASE Replies
  <2>1. /\ helper = "invoke" /\ helper' = "serve" /\ UNCHANGED <<parent, asked>>
        /\ down' = Tail(down)
        /\ \E k \in {"result", "rpc_error"} : up' = Tell(Request(k, Head(down).of))
    BY <1>3 DEF Replies, At, Goes
  <2>2. parent \notin {"idle", "await_helper", "await_ready", "await_owner", "open"}
    BY <2>1 DEF Protocol, Starts, Serves, Failed
  <2>3. Starts'
    BY <2>1, <2>2 DEF Starts
  <2>4. ASSUME parent \in {"calling", "quitting"}
        PROVE  down' = <<>> /\ \E k \in {"result", "rpc_error"} : up' = <<Request(k, asked)>>
    <3>1. up = <<>> /\ linked
      BY <2>1, <2>4 DEF Protocol, Serves, Members
    <3>2. PICK k \in {"call", "quit"} : down = <<Request(k, asked)>>
      BY <2>1, <2>4 DEF Protocol, Serves
    <3>3. Head(down).of = asked
      BY <3>2, Single, Letters DEF TypeOK
    <3>4. down' = <<>>
      BY <2>1, <3>2, Single
    <3> QED BY <2>1, <3>1, <3>3, <3>4, Single DEF Tell
  <2>5. Serves'
    BY <2>1, <2>2, <2>4 DEF Serves
  <2> QED BY <2>3, <2>5 DEF Protocol
<1>4. CASE Stops
  <2>1. /\ helper = "serve" /\ helper' = "release" /\ UNCHANGED <<parent, asked>>
        /\ (down # <<>> /\ Head(down).kind = "shutdown") \/ (down = <<>> /\ ~linked)
    BY <1>4 DEF Stops, At, Goes
  <2>2. parent \notin {"calling", "quitting"}
    <3>1. \A k \in {"call", "quit"} : Head(<<Request(k, asked)>>).kind = k
      BY Single, Letters DEF TypeOK
    <3> QED BY <2>1, <3>1 DEF Protocol, Serves, Members
  <2>3. parent \notin {"idle", "await_helper", "await_ready", "await_owner", "open"}
    BY <2>1 DEF Protocol, Starts, Serves, Failed, Members
  <2>4. Starts' /\ Serves'
    BY <2>1, <2>2, <2>3 DEF Starts, Serves
  <2> QED BY <2>4 DEF Protocol
<1>5. CASE ReleasesProxies \/ SaysStopped
  <2>1. /\ helper \in {"release", "stop"} /\ helper' \in {"stop", "end"}
        /\ UNCHANGED <<parent, asked>>
    BY <1>5 DEF ReleasesProxies, SaysStopped, At, Goes
  <2>2. parent \notin {"idle", "await_helper", "await_ready", "await_owner", "open", "calling",
                       "quitting"}
    BY <2>1 DEF Protocol, Starts, Serves, Failed
  <2>3. Starts' /\ Serves'
    BY <2>1, <2>2 DEF Starts, Serves
  <2> QED BY <2>3 DEF Protocol
<1> QED BY <1>1, <1>2, <1>3, <1>4, <1>5

LEMMA ConnectKeepsPipe ==
    ASSUME TypeOK, Protocol, Members, Connects \/ HelperReady \/ AutoCADReady \/ OwnerReady
    PROVE  Protocol'
<1>1. CASE Connects
  BY <1>1 DEF Connects, Protocol, Starts, Serves
<1>2. CASE HelperReady
  <2>1. /\ parent = "await_helper" /\ parent' = "await_ready" /\ helper' = helper
        /\ up # <<>> /\ up' = Tail(up) /\ down' = Append(down, Msg("job_assigned"))
        /\ up \in Seq(Message) /\ down \in Seq(Message)
    BY <1>2 DEF HelperReady, Parents, Hears, TypeOK
  <2>2. CASE Failed
    <3>1. Failed'
      BY <2>1, <2>2, Taken DEF Failed
    <3>2. helper # "invoke"
      BY <2>2 DEF Failed
    <3> QED BY <2>1, <3>1, <3>2 DEF Protocol, Starts, Serves
  <2>3. CASE ~Failed
    <3>1. helper = "arming" /\ up = <<Msg("helper_ready")>> /\ down = <<>>
      BY <2>1, <2>3 DEF Protocol, Starts
    <3>2. up' = <<>> /\ down' = <<Msg("job_assigned")>>
      BY <2>1, <3>1, Single
    <3> QED BY <2>1, <3>1, <3>2 DEF Protocol, Starts, Serves
  <2> QED BY <2>2, <2>3
<1>3. CASE AutoCADReady
  <2>1. /\ parent = "await_ready" /\ parent' = "await_owner" /\ helper' = helper
        /\ up # <<>> /\ up' = Tail(up) /\ down' = Append(down, Msg("adopted"))
        /\ up \in Seq(Message)
    BY <1>3 DEF AutoCADReady, Parents, Hears, TypeOK
  <2>2. CASE Failed
    <3>1. Failed'
      BY <2>1, <2>2, Taken DEF Failed
    <3>2. helper # "invoke"
      BY <2>2 DEF Failed
    <3> QED BY <2>1, <3>1, <3>2 DEF Protocol, Starts, Serves
  <2>3. CASE ~Failed
    <3>1. helper = "adopting" /\ up = <<Offer("acad")>> /\ down = <<>>
      BY <2>1, <2>3 DEF Protocol, Starts
    <3>2. up' = <<>> /\ down' = <<Msg("adopted")>>
      BY <2>1, <3>1, Single
    <3> QED BY <2>1, <3>1, <3>2 DEF Protocol, Starts, Serves
  <2> QED BY <2>2, <2>3
<1>4. CASE OwnerReady
  <2>1. /\ parent = "await_owner" /\ parent' = "open" /\ UNCHANGED <<helper, down>>
        /\ up # <<>> /\ Head(up).kind = "owner_ready" /\ up' = Tail(up)
    BY <1>4 DEF OwnerReady, Parents, Hears
  <2>2. ~Failed
    <3>1. Failed => Head(up) \in LastWords
      BY <2>1, FirstWord DEF TypeOK, Failed
    <3> QED BY <2>1, <3>1, Letters DEF LastWords
  <2>3. helper = "serve" /\ up = <<Msg("owner_ready")>> /\ down = <<>>
    BY <2>1, <2>2 DEF Protocol, Starts
  <2>4. up' = <<>>
    BY <2>1, <2>3, Single
  <2> QED BY <2>1, <2>3, <2>4 DEF Protocol, Starts, Serves
<1> QED BY <1>1, <1>2, <1>3, <1>4

LEMMA CallKeepsPipe ==
    ASSUME TypeOK, Protocol, Calls \/ Quits \/ Returns
    PROVE  Protocol' /\ (Returns => reply'.of = reply'.asked)
<1>1. CASE Calls \/ Quits
  <2>1. /\ parent = "open" /\ parent' \in {"calling", "quitting"} /\ asked' = asked + 1
        /\ \E k \in {"call", "quit"} : down' = Append(down, Request(k, asked'))
        /\ UNCHANGED <<helper, up>>
    BY <1>1 DEF Calls, Quits, Asks
  <2>2. helper = "serve" /\ up = <<>> /\ down = <<>>
    BY <2>1 DEF Protocol, Serves
  <2>3. \E k \in {"call", "quit"} : down' = <<Request(k, asked')>>
    BY <2>1, <2>2, Single
  <2>4. Serves'
    BY <2>1, <2>2, <2>3 DEF Serves
  <2>5. Starts'
    BY <2>1 DEF Starts
  <2> QED BY <1>1, <2>4, <2>5 DEF Protocol, Calls, Quits, Returns
<1>2. CASE Returns
  <2>1. /\ parent \in {"calling", "quitting"} /\ up # <<>> /\ up' = Tail(up)
        /\ reply' = [asked |-> asked, of |-> Head(up).of] /\ UNCHANGED helper
    BY <1>2 DEF Returns, Hears
  <2>2. PICK k \in {"result", "rpc_error"} : up = <<Request(k, asked)>>
    BY <2>1 DEF Protocol, Serves
  <2>3. helper = "serve" /\ down = <<>>
    BY <2>1 DEF Protocol, Serves
  <2>4. Head(up).of = asked /\ up' = <<>>
    BY <2>1, <2>2, Single, Letters DEF TypeOK
  <2>5. \/ parent' = "open" /\ down' = down
        \/ parent' = "stopping"
    BY <1>2 DEF Returns
  <2>6. Starts' /\ Serves'
    BY <2>1, <2>3, <2>4, <2>5 DEF Starts, Serves
  <2> QED BY <2>1, <2>4, <2>6 DEF Protocol
<1> QED BY <1>1, <1>2

LEMMA PipeIsKept == IInv /\ [Next]_vars => Protocol'
<1> SUFFICES ASSUME IInv, [Next]_vars PROVE Protocol'
  OBVIOUS
<1>1. TypeOK /\ Protocol /\ Members
  BY DEF IInv, Protocol
<1>2. CASE UNCHANGED <<parent, helper, down, up, asked>>
  BY <1>1, <1>2, StutterKeepsPipe
<1>3. UNCHANGED vars \/ HelperEnds \/ EngineerStarts \/ Spawns \/ (\E p \in Proc : Vanish(p) \/ Exits(p))
      => UNCHANGED <<parent, helper, down, up, asked>>
  BY DEF vars, HelperEnds, EngineerStarts, Spawns, Vanish, Exits, pipe
<1>4. ConnectFails \/ Rejected \/ JoinFails \/ Disconnects => Protocol'
  <2>1. ConnectFails \/ Rejected \/ JoinFails \/ Disconnects
        => parent' = "kill_job" /\ UNCHANGED <<helper, down>>
    BY DEF ConnectFails, Rejected, JoinFails, Disconnects, CleansUp
  <2> QED BY <1>1, <2>1, CleaningKeepsPipe
<1>5. Stopped \/ Joined \/ KillsJob \/ JobWaited \/ KillsHelper \/ HelperWaited \/ JobWaitedAgain
        \/ ClosesJob \/ ParentDies => Protocol'
  <2>1. Stopped \/ Joined \/ KillsJob \/ JobWaited \/ KillsHelper \/ HelperWaited \/ JobWaitedAgain
          \/ ClosesJob \/ ParentDies
        => /\ parent' \in {"joining", "closed", "wait_job", "kill_helper", "wait_helper", "rewait",
                           "close_job", "dead"}
           /\ UNCHANGED <<helper, down>>
    BY DEF Stopped, Joined, KillsJob, JobWaited, KillsHelper, HelperWaited, JobWaitedAgain,
           ClosesJob, ParentDies, Parents, Cleans, pipe
  <2> QED BY <1>1, <2>1, CleaningKeepsPipe
<1>6. StartFails => Protocol'
  BY <1>1, FailureKeepsPipe
<1>7. CASE Next
  BY <1>1, <1>2, <1>3, <1>4, <1>5, <1>6, <1>7, StartKeepsPipe, ServiceKeepsPipe, ConnectKeepsPipe,
     CallKeepsPipe DEF Next, ParentStep, HelperStep, HelperCrashes
<1> QED BY <1>2, <1>3, <1>7

-----------------------------------------------------------------------------
(* The job.                                                                *)

\* Ending and terminating processes starts none.
LEMMA ReleaseSpares ==
    ASSUME TypeOK, NEW h, NEW F \in SUBSET {"helper"}, NEW T \in SUBSET {"acad"}, Release(h, F, T)
    PROVE  /\ \A p \in Proc : life[p] = "none" /\ p \notin F => life'[p] = "none"
           /\ \A p \in Proc : life[p] = "gone" => life'[p] = "gone"
           /\ \A p \in Proc : life'[p] = "none" => life[p] = "none"
           /\ \A p \in F : life'[p] = "gone"
           /\ OthersSpared => life'["other"] = life["other"]
BY DEF Release, TypeOK, Proc, Live, OthersSpared

\* What a step does to the processes and to the job.
LEMMA MembersAreKept ==
    ASSUME TypeOK, Starts, Serves, Members, OthersSpared, Next
    PROVE  Members'
<1> USE DEF Proc, Ours
<1>1. ASSUME NEW p \in Proc, Vanish(p) \/ Exits(p) \/ EngineerStarts \/ HelperEnds
      PROVE  Members'
  <2>1. UNCHANGED <<job, parent, helper, down, linked>>
    BY <1>1 DEF Vanish, Exits, EngineerStarts, HelperEnds, pipe
  <2>2. \A q \in Ours : life[q] = "none" /\ ~(q = "helper" /\ HelperEnds) => life'[q] = "none"
    <3>1. CASE Vanish(p) /\ p = "helper"
      BY <3>1, ReleaseSpares DEF Vanish
    <3>2. CASE Vanish(p) /\ p # "helper"
      BY <3>2 DEF Vanish, TypeOK
    <3>3. CASE Exits(p) \/ EngineerStarts
      BY <3>3 DEF Exits, EngineerStarts, Live, TypeOK
    <3>4. CASE HelperEnds
      BY <3>4, ReleaseSpares DEF HelperEnds
    <3> QED BY <1>1, <3>1, <3>2, <3>3, <3>4
  <2>3. HelperEnds => parent # "idle"
    BY DEF HelperEnds, Live, Members
  <2> QED BY <2>1, <2>2, <2>3 DEF Members
<1>2. CASE Spawns
  <2>1. "acad" \in job /\ parent # "idle"
    BY <1>2 DEF Spawns, Live, Members
  <2>2. /\ UNCHANGED <<parent, helper, down, linked>> /\ job' = job \cup {"child"}
        /\ \A q \in Ours \ {"child"} : life'[q] = life[q]
    BY <1>2, <2>1 DEF Spawns, pipe, TypeOK
  <2> QED BY <2>1, <2>2 DEF Members
<1>3. CASE SaysReady \/ Arms \/ OpensJob \/ FindsAutoCAD \/ IsAdopted \/ TakesRequest \/ SaysStopped
           \/ Replies
  <2>1. UNCHANGED <<life, job, parent, linked>>
    BY <1>3 DEF SaysReady, Arms, OpensJob, FindsAutoCAD, IsAdopted, TakesRequest, SaysStopped,
           Replies, Goes
  <2>2. helper # "none"
    BY <1>3 DEF SaysReady, Arms, OpensJob, FindsAutoCAD, IsAdopted, TakesRequest, SaysStopped,
           Replies, At
  <2>3. down' # <<>> \/ helper' \notin {"ready", "arming", "exit"} => "helper" \in job
    <3>1. CASE SaysReady
      BY <3>1 DEF SaysReady, Goes, Members
    <3>2. CASE Arms \/ OpensJob \/ FindsAutoCAD \/ IsAdopted \/ TakesRequest
      BY <3>2 DEF Arms, OpensJob, FindsAutoCAD, IsAdopted, TakesRequest, At, Members
    <3>3. CASE SaysStopped \/ Replies
      BY <3>3 DEF SaysStopped, Replies, At, Members
    <3> QED BY <1>3, <3>1, <3>2, <3>3
  <2>4. parent # "idle"
    BY <2>2 DEF Starts
  <2> QED BY <2>1, <2>3, <2>4 DEF Members
<1>4. CASE CreatesAutoCAD \/ AssignsAutoCAD
  <2>1. /\ helper \in {"create", "assign"} /\ helper' \in {"assign", "find"}
        /\ UNCHANGED <<parent, linked, down>> /\ job' = job \cup {"acad"}
        /\ life'["child"] = life["child"]
    BY <1>4 DEF CreatesAutoCAD, AssignsAutoCAD, At, Goes, Members, TypeOK
  <2>2. parent # "idle" /\ "helper" \in job
    BY <2>1 DEF Starts, Members
  <2> QED BY <2>1, <2>2 DEF Members
<1>5. CASE StartFails \/ Stops \/ ReleasesProxies
  <2>1. /\ helper # "none" /\ helper' \in {"exit", "release", "stop"}
        /\ UNCHANGED <<job, parent, linked>>
        /\ \A q \in Ours : life[q] = "none" => life'[q] = "none"
    <3>1. CASE StartFails \/ ReleasesProxies
      BY <3>1, ReleaseSpares DEF StartFails, ReleasesProxies, Goes, At, Starting
    <3>2. CASE Stops
      BY <3>2 DEF Stops, Goes, At
    <3> QED BY <1>5, <3>1, <3>2
  <2>2. down' # <<>> \/ helper' # "exit" => "helper" \in job
    <3>1. CASE StartFails
      BY <3>1 DEF StartFails, Goes, Members
    <3>2. CASE Stops \/ ReleasesProxies
      BY <3>2 DEF Stops, ReleasesProxies, At, Members
    <3> QED BY <1>5, <3>1, <3>2
  <2>3. parent # "idle"
    BY <2>1 DEF Starts
  <2> QED BY <2>1, <2>2, <2>3 DEF Members
<1>6. CASE Connects
  <2>1. /\ parent' \in {"await_helper", "kill_job"} /\ linked' /\ UNCHANGED <<job, down>>
        /\ helper' \in {"none", "ready"} /\ down = <<>>
        /\ life'["acad"] = "none" /\ life'["child"] = "none"
    BY <1>6 DEF Connects, Starts, Members, TypeOK
  <2> QED BY <2>1 DEF Members
<1>7. CASE HelperReady
  <2>1. /\ parent = "await_helper" /\ parent' = "await_ready" /\ linked' = linked
        /\ life' = life /\ job' = job \cup {"helper"}
    BY <1>7 DEF HelperReady, Parents
  <2> QED BY <2>1 DEF Members
<1>8. CASE AutoCADReady \/ OwnerReady \/ Calls \/ Quits \/ Returns
  <2>1. /\ parent \in {"await_ready", "await_owner", "open", "calling", "quitting"}
        /\ parent' # "idle" /\ linked' = linked /\ life' = life /\ job \subseteq job'
    BY <1>8 DEF AutoCADReady, OwnerReady, Calls, Quits, Returns, Parents, Asks, processes
  <2> QED BY <2>1 DEF Members
<1>9. CASE ConnectFails \/ Rejected \/ JoinFails \/ Disconnects
  <2>1. parent' = "kill_job" /\ UNCHANGED <<life, job, helper, down>>
    BY <1>9 DEF ConnectFails, Rejected, JoinFails, Disconnects, CleansUp, processes
  <2> QED BY <2>1 DEF Members
<1>10. CASE Stopped \/ Joined
  <2>1. parent' \in {"joining", "closed"} /\ UNCHANGED <<life, job, helper, down>>
    BY <1>10 DEF Stopped, Joined, Parents
  <2> QED BY <2>1 DEF Members
<1>11. CASE KillsJob \/ JobWaited \/ KillsHelper \/ HelperWaited \/ JobWaitedAgain
  <2>1. /\ parent' \in {"wait_job", "kill_helper", "wait_helper", "rewait", "close_job"}
        /\ UNCHANGED <<job, helper, down>>
        /\ \A q \in Proc : life[q] = "none" => life'[q] = "none"
    BY <1>11 DEF KillsJob, JobWaited, KillsHelper, HelperWaited, JobWaitedAgain, Cleans, pipe,
           TypeOK, Live
  <2> QED BY <2>1 DEF Members
<1>12. CASE ClosesJob \/ ParentDies
  <2>1. /\ parent' \in {"closed", "dead"} /\ UNCHANGED <<job, helper, down>>
        /\ \A q \in Proc : life[q] = "none" => life'[q] = "none"
    BY <1>12, ReleaseSpares DEF ClosesJob, ParentDies
  <2> QED BY <2>1 DEF Members
<1> QED BY <1>1, <1>2, <1>3, <1>4, <1>5, <1>6, <1>7, <1>8, <1>9, <1>10, <1>11, <1>12
        DEF Next, ParentStep, HelperStep, HelperCrashes

-----------------------------------------------------------------------------
(* What is over stays over.                                                *)

\* No step but these four starts a process.
LEMMA OverStays ==
    ASSUME TypeOK, Next, NEW p \in Proc, Over(p),
           p = "helper" => ~Connects, p = "acad" => ~CreatesAutoCAD,
           p = "child" => ~Spawns, p = "other" => ~EngineerStarts
    PROVE  Over(p)' /\ (life[p] = "gone" => life'[p] = "gone")
<1>1. ASSUME UNCHANGED life PROVE Over(p)' /\ (life[p] = "gone" => life'[p] = "gone")
  BY <1>1 DEF Over
<1>2. ASSUME NEW h, NEW F \in SUBSET {"helper"}, NEW T \in SUBSET {"acad"}, Release(h, F, T)
      PROVE  Over(p)' /\ (life[p] = "gone" => life'[p] = "gone")
  BY <1>2 DEF Release, Over, Live, TypeOK, Proc
<1>3. ASSUME NEW q \in Proc, Vanish(q) \/ Exits(q)
      PROVE  Over(p)' /\ (life[p] = "gone" => life'[p] = "gone")
  <2>1. CASE Vanish(q) /\ q = "helper"
    BY <2>1, <1>2 DEF Vanish
  <2>2. CASE Vanish(q) /\ q # "helper"
    BY <2>2 DEF Vanish, TypeOK, Over
  <2>3. CASE Exits(q)
    BY <2>3 DEF Exits, TypeOK, Over
  <2> QED BY <1>3, <2>1, <2>2, <2>3
<1>4. CASE Spawns \/ EngineerStarts \/ CreatesAutoCAD \/ Connects
  BY <1>4 DEF Spawns, EngineerStarts, CreatesAutoCAD, Connects, TypeOK, Over
<1>5. CASE StartFails \/ ReleasesProxies \/ HelperEnds \/ ClosesJob \/ ParentDies
  BY <1>5, <1>2 DEF StartFails, ReleasesProxies, HelperEnds, ClosesJob, ParentDies
<1>6. CASE KillsJob \/ KillsHelper
  BY <1>6 DEF KillsJob, KillsHelper, TypeOK, Over, Live
<1>7. CASE SaysReady \/ Arms \/ OpensJob \/ AssignsAutoCAD \/ FindsAutoCAD \/ IsAdopted
           \/ TakesRequest \/ Stops \/ SaysStopped \/ Replies
  BY <1>7, <1>1 DEF SaysReady, Arms, OpensJob, AssignsAutoCAD, FindsAutoCAD, IsAdopted,
         TakesRequest, Stops, SaysStopped, Replies
<1>8. CASE HelperReady \/ AutoCADReady \/ OwnerReady \/ ConnectFails \/ Calls \/ Quits \/ Returns
           \/ Rejected \/ Stopped \/ Joined \/ JoinFails \/ Disconnects \/ JobWaited \/ HelperWaited
           \/ JobWaitedAgain
  BY <1>8, <1>1 DEF HelperReady, AutoCADReady, OwnerReady, ConnectFails, Calls, Quits, Returns,
         Rejected, Stopped, Joined, JoinFails, Disconnects, JobWaited, HelperWaited,
         JobWaitedAgain, CleansUp, Asks, processes
<1> QED BY <1>3, <1>4, <1>5, <1>6, <1>7, <1>8 DEF Next, ParentStep, HelperStep, HelperCrashes

Cleaning == {"wait_job", "kill_helper", "wait_helper", "rewait", "close_job", "closed", "dead"}

\* An empty job stays empty: whoever could add to it would be in it.
LEMMA EmptyStays ==
    ASSUME TypeOK, Starts, Members, OthersSpared, JobEmpty, parent \in Cleaning, Next
    PROVE  JobEmpty'
<1>1. ~Spawns /\ ~CreatesAutoCAD /\ ~AssignsAutoCAD
  <2>1. "acad" \notin job \/ ~Live("acad")
    BY DEF JobEmpty, Over, Live
  <2>2. "helper" \notin job \/ ~Live("helper")
    BY DEF JobEmpty, Over, Live
  <2>3. ~Live("acad")
    BY <2>1 DEF Members, Live
  <2> QED BY <2>2, <2>3 DEF Spawns, CreatesAutoCAD, AssignsAutoCAD, At, Members
<1>2. ~Connects /\ ~HelperReady /\ ~AutoCADReady
  BY DEF Connects, HelperReady, AutoCADReady, Cleaning
<1>3. job' = job
  BY <1>1, <1>2 DEF Next, ParentStep, HelperStep, HelperCrashes, Vanish, Exits, EngineerStarts,
     SaysReady, Arms, OpensJob, FindsAutoCAD, IsAdopted, StartFails, TakesRequest, Replies,
     Stops, ReleasesProxies, SaysStopped, HelperEnds, OwnerReady, ConnectFails, CleansUp, Calls, Quits, Asks,
     Returns, Rejected, Stopped, Joined, JoinFails, Disconnects, KillsJob, JobWaited,
     KillsHelper, HelperWaited, JobWaitedAgain, Cleans, ClosesJob, ParentDies, processes
<1>4. job \subseteq Proc /\ "other" \notin job
  BY DEF TypeOK, OthersSpared
<1>5. \A p \in job : Over(p)'
  <2> SUFFICES ASSUME NEW p \in job PROVE Over(p)'
    OBVIOUS
  <2>1. Over(p)
    BY DEF JobEmpty
  <2> QED BY <2>1, <1>1, <1>2, <1>4, OverStays
<1> QED BY <1>3, <1>5 DEF JobEmpty

LEMMA AllGoneStays ==
    ASSUME TypeOK, AllGone, parent # "idle", Next
    PROVE  AllGone'
<1>1. ~Spawns /\ ~CreatesAutoCAD /\ ~Connects
  BY DEF AllGone, Ours, Proc, Over, Live, Spawns, CreatesAutoCAD, At, Connects
<1> SUFFICES ASSUME NEW p \in Ours PROVE Over(p)'
  BY DEF AllGone
<1> QED BY <1>1, OverStays DEF AllGone, Ours

\* What is not in the job was never started.
LEMMA EmptyMeansGone ==
    ASSUME TypeOK, Members, JobEmpty, Over("helper")
    PROVE  AllGone
<1>1. \A p \in {"acad", "child"} : Over(p)
  BY DEF Members, JobEmpty, Over
<1> QED BY <1>1 DEF AllGone, Ours, Proc

LEMMA ConfirmedIsKept ==
    ASSUME TypeOK, Starts, Members, OthersSpared, Confirmed, Next
    PROVE  Confirmed'
<1>1. UNCHANGED <<parent, sure, told>> => Confirmed'
  <2> SUFFICES ASSUME UNCHANGED <<parent, sure, told>> PROVE Confirmed'
    OBVIOUS
  <2>1. sure.job => JobEmpty'
    BY EmptyStays DEF Confirmed, Cleaning
  <2>2. sure.helper => life'["helper"] = "gone"
    <3>1. ~Connects
      BY DEF Connects
    <3>2. sure.helper => Over("helper")
      BY DEF Confirmed, Over
    <3> QED BY <3>1, <3>2, OverStays DEF Confirmed, Proc
  <2>3. told = "gone" => AllGone'
    BY AllGoneStays DEF Confirmed, ConfirmedMeansGone
  <2> QED BY <2>1, <2>2, <2>3 DEF Confirmed, ConfirmedMeansGone
<1>2. CASE HelperStep \/ Replies \/ HelperCrashes \/ EngineerStarts \/ Spawns
           \/ \E p \in Proc : Vanish(p) \/ Exits(p)
  <2>1. UNCHANGED <<parent, sure, told>>
    BY <1>2 DEF HelperStep, Replies, HelperCrashes, HelperEnds, EngineerStarts, Spawns, Vanish,
       Exits, SaysReady, Arms, OpensJob, CreatesAutoCAD, AssignsAutoCAD, FindsAutoCAD, IsAdopted,
       StartFails, TakesRequest, Stops, ReleasesProxies, SaysStopped, Goes, outcome
  <2> QED BY <1>1, <2>1
<1>3. ASSUME parent \notin Cleaning, told' = told, ~sure'.job, ~sure'.helper
      PROVE  Confirmed'
  BY <1>3 DEF Confirmed, Cleaning, ConfirmedMeansGone
<1>4. CASE ConnectFails \/ Rejected \/ JoinFails \/ Disconnects
  <2>1. /\ parent \notin Cleaning /\ told' = told
        /\ \E b \in BOOLEAN : sure' = [owner |-> b, job |-> FALSE, helper |-> FALSE]
    BY <1>4 DEF ConnectFails, Rejected, JoinFails, Disconnects, CleansUp, Cleaning
  <2> QED BY <1>3, <2>1
<1>5. CASE Connects \/ HelperReady \/ AutoCADReady \/ OwnerReady \/ Calls \/ Quits \/ Returns
           \/ Stopped
  <2>1. parent \notin Cleaning /\ UNCHANGED <<sure, told>>
    BY <1>5 DEF Connects, HelperReady, AutoCADReady, OwnerReady, Calls, Quits, Returns, Stopped,
           Asks, Parents, outcome, Cleaning
  <2>2. sure.helper => life'["helper"] = "gone"
    BY <1>5, OverStays DEF Confirmed, Over, Proc, Members, Ours, Connects
  <2>3. ~sure.job /\ told = "nothing"
    BY <2>1, <1>5 DEF Confirmed, Cleaning
  <2> QED BY <2>1, <2>2, <2>3 DEF Confirmed, ConfirmedMeansGone
<1>6. CASE Joined
  <2>1. /\ parent' = "closed" /\ told' = "gone" /\ sure' = sure /\ life' = life
        /\ JobEmpty /\ Over("helper") /\ ~sure.job
    BY <1>6 DEF Joined, Confirmed
  <2>2. AllGone'
    BY <2>1, EmptyMeansGone DEF AllGone, Over
  <2> QED BY <2>1, <2>2 DEF Confirmed, ConfirmedMeansGone
<1>7. CASE KillsJob \/ KillsHelper
  <2>1. /\ parent \in Cleaning \cup {"kill_job"} /\ parent # "closed"
        /\ parent' \in Cleaning /\ UNCHANGED <<sure, told>>
        /\ parent = "kill_job" => ~sure.job
    BY <1>7 DEF KillsJob, KillsHelper, Cleans, Cleaning, Confirmed
  <2>2. sure.job => JobEmpty'
    BY <2>1, EmptyStays DEF Confirmed
  <2>3. sure.helper => life'["helper"] = "gone"
    BY <1>7, OverStays DEF Confirmed, Over, Proc, Connects, KillsJob, KillsHelper
  <2> QED BY <2>1, <2>2, <2>3 DEF Confirmed, ConfirmedMeansGone, Cleaning
<1>8. CASE JobWaited \/ JobWaitedAgain \/ HelperWaited
  <2>1. /\ parent \in Cleaning /\ parent # "closed" /\ parent' \in Cleaning
        /\ UNCHANGED <<life, job, told>>
    BY <1>8 DEF JobWaited, JobWaitedAgain, HelperWaited, Cleans, Cleaning
  <2>2. sure'.job => JobEmpty
    <3>1. CASE JobWaited \/ JobWaitedAgain
      BY <3>1 DEF JobWaited, JobWaitedAgain, TypeOK, Cleans
    <3>2. CASE HelperWaited
      BY <3>2 DEF HelperWaited, Confirmed, TypeOK
    <3> QED BY <1>8, <3>1, <3>2
  <2>3. sure'.helper => life["helper"] = "gone"
    <3>1. CASE JobWaited \/ JobWaitedAgain
      BY <3>1 DEF JobWaited, JobWaitedAgain, TypeOK, Confirmed
    <3>2. CASE HelperWaited
      BY <3>2 DEF HelperWaited, TypeOK
    <3> QED BY <1>8, <3>1, <3>2
  <2>4. JobEmpty => JobEmpty'
    BY <2>1 DEF JobEmpty, Over
  <2> QED BY <2>1, <2>2, <2>3, <2>4 DEF Confirmed, ConfirmedMeansGone, Cleaning
<1>9. CASE ClosesJob
  <2>1. /\ parent \in Cleaning /\ parent # "closed" /\ parent' = "closed" /\ sure' = sure
        /\ told' = "gone" => sure.helper /\ sure.job
    BY <1>9 DEF ClosesJob, Cleaning
  <2>2. sure.job => JobEmpty'
    BY <2>1, EmptyStays DEF Confirmed
  <2>3. sure.helper => life'["helper"] = "gone"
    BY <2>1, OverStays DEF Confirmed, Over, Proc, Connects, Cleaning
  <2>4. sure.helper /\ sure.job => AllGone
    BY EmptyMeansGone DEF Confirmed, Over
  <2>5. told' = "gone" => AllGone'
    BY <2>1, <2>4, AllGoneStays DEF Cleaning
  <2> QED BY <2>1, <2>2, <2>3, <2>5 DEF Confirmed, ConfirmedMeansGone
<1>10. CASE ParentDies
  <2>1. /\ parent \notin {"idle", "closed"} /\ parent' = "dead" /\ UNCHANGED <<sure, told>>
    BY <1>10 DEF ParentDies, outcome
  <2>2. sure.job => JobEmpty'
    BY EmptyStays DEF Confirmed, Cleaning
  <2>3. sure.helper => life'["helper"] = "gone"
    BY <2>1, OverStays DEF Confirmed, Over, Proc, Connects
  <2> QED BY <2>1, <2>2, <2>3 DEF Confirmed, ConfirmedMeansGone
<1> QED BY <1>2, <1>4, <1>5, <1>6, <1>7, <1>8, <1>9, <1>10 DEF Next, ParentStep

-----------------------------------------------------------------------------
(* The engineer's AutoCAD, and the replies.                                *)

\* Only the parent's adoption could put it into the job, and only a
\* termination of the job could end it.
LEMMA OthersAreSpared ==
    ASSUME TypeOK, Starts, OthersSpared, Next
    PROVE  OthersSpared'
<1> USE DEF Proc
<1>1. CASE AutoCADReady
  <2>1. parent = "await_ready" /\ up # <<>> /\ Head(up).kind = "ready" /\ life' = life
        /\ job' = job \cup {Offered(Head(up))}
    BY <1>1 DEF AutoCADReady, Hears
  <2>2. Head(up) = Offer("acad")
    <3>1. CASE Failed
      <4>1. Head(up) \in LastWords
        BY <2>1, <3>1, FirstWord DEF TypeOK, Failed
      <4> QED BY <2>1, <4>1, Letters DEF LastWords
    <3>2. CASE ~Failed
      BY <2>1, <3>2, Single, Letters DEF Starts, Msg
    <3> QED BY <3>1, <3>2
  <2> QED BY <2>1, <2>2, Letters DEF OthersSpared
<1>2. ASSUME NEW h, NEW F \in SUBSET {"helper"}, NEW T \in SUBSET {"acad"}, Release(h, F, T),
             job' = job
      PROVE  OthersSpared'
  BY <1>2, ReleaseSpares DEF OthersSpared
<1>3. StartFails \/ ReleasesProxies \/ HelperEnds \/ ClosesJob \/ ParentDies => OthersSpared'
  BY <1>2 DEF StartFails, ReleasesProxies, HelperEnds, ClosesJob, ParentDies
<1>4. ASSUME NEW p \in Proc, Vanish(p) \/ Exits(p) PROVE OthersSpared'
  <2>1. CASE Vanish(p) /\ p = "helper"
    BY <2>1, <1>2 DEF Vanish
  <2>2. CASE Vanish(p) /\ p # "helper"
    BY <2>2 DEF Vanish, OthersSpared, TypeOK
  <2>3. CASE Exits(p)
    BY <2>3 DEF Exits, OthersSpared, TypeOK
  <2> QED BY <1>4, <2>1, <2>2, <2>3
<1>5. Spawns \/ EngineerStarts \/ CreatesAutoCAD \/ AssignsAutoCAD \/ Connects \/ HelperReady
      => OthersSpared'
  BY DEF Spawns, EngineerStarts, CreatesAutoCAD, AssignsAutoCAD, Connects, HelperReady,
         OthersSpared, TypeOK
<1>6. KillsJob \/ KillsHelper => OthersSpared'
  BY DEF KillsJob, KillsHelper, Cleans, OthersSpared, TypeOK
<1>7. UNCHANGED <<life, job>> => OthersSpared'
  BY DEF OthersSpared
<1>8. SaysReady \/ Arms \/ OpensJob \/ FindsAutoCAD \/ IsAdopted \/ TakesRequest \/ Stops
        \/ SaysStopped \/ Replies => UNCHANGED <<life, job>>
  BY DEF SaysReady, Arms, OpensJob, FindsAutoCAD, IsAdopted, TakesRequest, Stops,
         SaysStopped, Replies
<1>9. OwnerReady \/ ConnectFails \/ Calls \/ Quits \/ Returns \/ Rejected \/ Stopped \/ Joined
        \/ JoinFails \/ Disconnects \/ JobWaited \/ HelperWaited \/ JobWaitedAgain
      => UNCHANGED <<life, job>>
  BY DEF OwnerReady, ConnectFails, Calls, Quits, Returns, Rejected, Stopped, Joined, JoinFails,
         Disconnects, JobWaited, HelperWaited, JobWaitedAgain, CleansUp, Asks, Cleans, processes
<1> QED BY <1>1, <1>3, <1>4, <1>5, <1>6, <1>7, <1>8, <1>9
        DEF Next, ParentStep, HelperStep, HelperCrashes

LEMMA RepliesAreKept ==
    ASSUME TypeOK, Protocol, RepliesMatch, Next
    PROVE  RepliesMatch'
<1>1. CASE Returns
  BY <1>1, CallKeepsPipe DEF RepliesMatch
<1>2. CASE ~Returns
  <2>1. reply' = reply
    BY <1>2 DEF Next, ParentStep, HelperStep, HelperCrashes, HelperEnds, Vanish, Exits,
       EngineerStarts, Spawns, SaysReady, Arms, OpensJob, CreatesAutoCAD, AssignsAutoCAD,
       FindsAutoCAD, IsAdopted, StartFails, TakesRequest, Replies, Stops, ReleasesProxies, SaysStopped, Goes,
       Connects, HelperReady, AutoCADReady, OwnerReady, ConnectFails, CleansUp, Calls, Quits,
       Asks, Rejected, Stopped, Joined, JoinFails, Disconnects, KillsJob, JobWaited,
       KillsHelper, HelperWaited, JobWaitedAgain, Parents, Cleans, ClosesJob, ParentDies, outcome
  <2> QED BY <2>1 DEF RepliesMatch
<1> QED BY <1>1, <1>2

-----------------------------------------------------------------------------
(* The theorems.                                                           *)

LEMMA Inductive == IInv /\ [Next]_vars => IInv'
<1> SUFFICES ASSUME IInv, [Next]_vars PROVE IInv'
  OBVIOUS
<1>1. TypeOK'
  BY TypeIsKept
<1>2. Starts' /\ Serves'
  BY PipeIsKept DEF Protocol
<1>3. CASE UNCHANGED vars
  <2>1. Members' /\ Confirmed' /\ OthersSpared' /\ RepliesMatch'
    BY <1>3 DEF IInv, vars, Members, Confirmed, ConfirmedMeansGone, AllGone, JobEmpty, Over,
       OthersSpared, RepliesMatch
  <2> QED BY <1>1, <1>2, <2>1 DEF IInv
<1>4. CASE Next
  <2>1. Members' /\ OthersSpared'
    BY <1>4, MembersAreKept, OthersAreSpared DEF IInv
  <2>2. Confirmed'
    BY <1>4, ConfirmedIsKept DEF IInv
  <2>3. RepliesMatch'
    BY <1>4, RepliesAreKept DEF IInv, Protocol
  <2> QED BY <1>1, <1>2, <2>1, <2>2, <2>3 DEF IInv
<1> QED BY <1>3, <1>4

LEMMA Invariance == Spec => []IInv
<1>1. Init => IInv
  BY InitIInv
<1>2. IInv /\ [Next]_vars => IInv'
  BY Inductive
<1> QED BY <1>1, <1>2, PTL DEF Spec

(***************************************************************************)
(* The session's state is what autocad_com.py and the operating system can *)
(* hold: messages of the pipe's protocol, processes and handles of one     *)
(* session.                                                                *)
(***************************************************************************)
THEOREM SessionTypeCorrect == Spec => []TypeOK
<1>1. IInv => TypeOK
  BY DEF IInv
<1> QED BY <1>1, Invariance, PTL

(***************************************************************************)
(* A confirmed end (_terminal_close, shutdown_after_verified_quit) is one: *)
(* everything the session starts is in the job, an empty job cannot be     *)
(* filled again, and no other process could start AutoCAD.                 *)
(***************************************************************************)
THEOREM ConfirmedIsGone == Spec => []ConfirmedMeansGone
<1>1. IInv => ConfirmedMeansGone
  BY DEF IInv, Confirmed
<1> QED BY <1>1, Invariance, PTL

(***************************************************************************)
(* The engineer's AutoCAD never enters the job and is never terminated     *)
(* (connect_isolated): only a process found in the job is offered.         *)
(***************************************************************************)
THEOREM EngineerIsSpared == Spec => []OthersSpared
<1>1. IInv => OthersSpared
  BY DEF IInv
<1> QED BY <1>1, Invariance, PTL

(***************************************************************************)
(* A call returns the answer to itself (_ComProcessOwner.request): a call  *)
(* that is not answered in time ends the session, so the pipe never holds  *)
(* more than one request or reply.                                         *)
(***************************************************************************)
THEOREM RepliesAreOwn == Spec => []RepliesMatch
<1>1. IInv => RepliesMatch
  BY DEF IInv
<1> QED BY <1>1, Invariance, PTL
=============================================================================
