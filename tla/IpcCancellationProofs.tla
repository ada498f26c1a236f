----------------------- MODULE IpcCancellationProofs -----------------------
(***************************************************************************)
(* Proofs about IpcCancellation, for any finite sets of requests and       *)
(* cancel attempts, any number of slots and any limit on tombstones.       *)
(***************************************************************************)
EXTENDS IpcCancellation, FiniteSetTheorems, TLAPS

\* TypeOK without the bounds on the slots, which follow from their count.
Typed ==
    /\ client \in [Request -> ClientStage]
    /\ attempt \in [Request -> Cancel \cup {NoCancel}]
    /\ link \in [Conn -> Link]
    /\ conn \in [Conn -> Stage]
    /\ response \in [Conn -> Answer]
    /\ cancelled \subseteq Request /\ pending \subseteq Request
    /\ changed \subseteq Request
    /\ free \in Nat
    /\ accept \in {"looping", "listening", "stopped"}
    /\ shutdown \in BOOLEAN /\ host \in {"up", "disposed"}

\* A request is served as a request and a cancel attempt as a cancel; what was
\* never connected was never served.
StagesFit ==
    /\ \A c \in Conn : link[c] = "none" => conn[c] = "none"
    /\ \A r \in Request : conn[r] \notin {"waiting", "tombstoned"}
    /\ \A c \in Cancel : conn[c] \notin Active

\* A cancel that waits in the registry waits for an active request.
WaitersWaitForActive ==
    \A c \in Cancel : conn[c] = "waiting" => conn[TargetOf[c]] \in Active

\* An acknowledged cancel names a request that is over.
AcknowledgedIsOver ==
    \A c \in Cancel : response[c] = "ok" => Over(TargetOf[c])

\* The call of r has passed its deadline.
GaveUp(r) == client[r] \in {"cancelling", "confirmed", "unconfirmed"}

\* The attempt a call is busy with names its request.
AttemptFits ==
    \A r \in Request : client[r] = "cancelling" =>
        attempt[r] \in Cancel /\ TargetOf[attempt[r]] = r

\* A cancel is on its way, a tombstone stands or a token is cancelled only
\* where the client of that request has given it up.
NamedByItsClient ==
    /\ \A c \in Cancel : link[c] # "none" => GaveUp(TargetOf[c])
    /\ \A r \in pending \cup cancelled : GaveUp(r)

\* Where the client still waits, the handler's answer is "ok", or nothing is
\* delivered because of a shutdown.
AnswerOfTheHandler ==
    /\ \A r \in Request : link[r] = "cut" => GaveUp(r)
    /\ \A r \in Request :
         \/ response[r] \in {"none", "ok"}
         \/ GaveUp(r)
         \/ conn[r] = "responding" /\ shutdown
    /\ \A r \in Request : client[r] = "answered" => Answered(r)

\* The host goes when nothing is left to serve and nothing more can come.
DisposedIsQuiet ==
    host = "disposed" => accept = "stopped" /\ Drained

Cancelling ==
    /\ StagesFit /\ WaitersWaitForActive /\ AcknowledgedIsOver
    /\ AttemptFits /\ ConfirmedIsOver
Answering == NamedByItsClient /\ AnswerOfTheHandler
IInv == Typed /\ Cancelling /\ Answering /\ SlotsAreConserved /\ DisposedIsQuiet
-----------------------------------------------------------------------------
\* A handler is reported cancelled only if its token is (ProcessPayloadAsync).
LEMMA OutcomeLemma ==
    ASSUME NEW r \in Request, NEW a \in Outcome(r)
    PROVE  a = "ok" \/ (a = "cancelled" /\ TokenCancelled(r))
BY DEF Outcome

\* The initial state is well typed (nobody connected, every slot free).
LEMMA TypedInit ==
    ASSUME Init PROVE Typed
<1>1. free \in Nat /\ NoCancel \in Cancel \cup {NoCancel}
  BY Limits DEF Init
<1>2. /\ client \in [Request -> ClientStage]
      /\ attempt \in [Request -> Cancel \cup {NoCancel}]
  BY DEF Init, ClientStage
<1>3. /\ link \in [Conn -> Link] /\ conn \in [Conn -> Stage]
      /\ response \in [Conn -> Answer]
  BY DEF Init, Link, Serving, Stage, Answer
<1> QED
  BY <1>1, <1>2, <1>3 DEF Init, Typed

\* Every step of client, server and shutdown keeps the types.
LEMMA TypedNext ==
    ASSUME Typed, [Next]_vars
    PROVE  Typed'
<1> USE EveryRequestCanBeCancelled
<1> USE DEF Typed, Conn, ClientStage, Link, Active, Serving, Stage, Answer,
            clientVars, serverVars, registryVars, lifeVars
<1>1. ASSUME NEW r \in Request, Ask(r) PROVE Typed'
  BY <1>1 DEF Ask
<1>2. ASSUME NEW r \in Request, Receive(r) PROVE Typed'
  BY <1>2 DEF Receive
<1>3. ASSUME NEW r \in Request, LosePipe(r) PROVE Typed'
  BY <1>3 DEF LosePipe
<1>4. ASSUME NEW r \in Request, CannotConnect(r) PROVE Typed'
  BY <1>4 DEF CannotConnect
<1>5. ASSUME NEW r \in Request, Deadline(r) PROVE Typed'
  BY <1>5 DEF Deadline, HungUp, Untried
<1>6. ASSUME NEW r \in Request, Confirm(r) PROVE Typed'
  BY <1>6 DEF Confirm
<1>7. ASSUME NEW r \in Request, Retry(r) PROVE Typed'
  BY <1>7 DEF Retry, Untried
<1>8. ASSUME NEW r \in Request, GraceEnds(r) PROVE Typed'
  BY <1>8 DEF GraceEnds, HungUp, Untried
<1>9. ASSUME NEW r \in Request, Register(r) PROVE Typed'
  BY <1>9 DEF Register, HasFrame
<1>10. ASSUME NEW r \in Request, StartHandler(r) PROVE Typed'
  BY <1>10 DEF StartHandler
<1>11. ASSUME NEW r \in Request, PassCheckpoint(r) PROVE Typed'
  BY <1>11 DEF PassCheckpoint
<1>12. ASSUME NEW r \in Request, ChangeDrawing(r) PROVE Typed'
  BY <1>12 DEF ChangeDrawing
<1>13. ASSUME NEW r \in Request, Complete(r) PROVE Typed'
  BY <1>13, OutcomeLemma DEF Complete
<1>14. ASSUME NEW r \in Request, Expire(r) PROVE Typed'
  BY <1>14 DEF Expire
<1>15. ASSUME NEW c \in Conn, Connect(c) PROVE Typed'
  BY <1>15 DEF Connect
<1>16. ASSUME NEW c \in Conn, Send(c) PROVE Typed'
  BY <1>16 DEF Send
<1>17. ASSUME NEW c \in Conn, Malformed(c) PROVE Typed'
  BY <1>17 DEF Malformed
<1>18. ASSUME NEW c \in Conn, Respond(c) PROVE Typed'
  BY <1>18 DEF Respond
<1>19. ASSUME NEW c \in Conn, Abandon(c) PROVE Typed'
  BY <1>19 DEF Abandon
<1>20. ASSUME NEW c \in Cancel, CancelActive(c) PROVE Typed'
  BY <1>20 DEF CancelActive
<1>21. ASSUME NEW c \in Cancel, CancelEarly(c) PROVE Typed'
  BY <1>21 DEF CancelEarly
<1>22. ASSUME NEW c \in Cancel, CancelRefused(c) PROVE Typed'
  BY <1>22 DEF CancelRefused
<1>23. CASE Listen
  BY <1>23 DEF Listen
<1>24. CASE AcceptFails
  BY <1>24 DEF AcceptFails
<1>25. CASE StopAccepting
  BY <1>25 DEF StopAccepting
<1>26. CASE Stop
  BY <1>26 DEF Stop
<1>27. CASE DisposeHost
  BY <1>27 DEF DisposeHost
<1>28. CASE UNCHANGED vars
  BY <1>28 DEF vars
<1> QED
  BY <1>1, <1>2, <1>3, <1>4, <1>5, <1>6, <1>7, <1>8, <1>9, <1>10, <1>11,
     <1>12, <1>13, <1>14, <1>15, <1>16, <1>17, <1>18, <1>19, <1>20, <1>21,
     <1>22, <1>23, <1>24, <1>25, <1>26, <1>27, <1>28 DEF Next

-----------------------------------------------------------------------------
\* Before any cancel the conjuncts about cancelling hold.
LEMMA CancellingInit ==
    ASSUME Init PROVE Cancelling
BY RequestsAndCancels, EveryRequestCanBeCancelled
   DEF Init, Cancelling, StagesFit, WaitersWaitForActive, AcknowledgedIsOver,
       AttemptFits, ConfirmedIsOver, Conn, Active

\* Whatever way a cancel and its request overtake each other in the registry
\* (Register, CancelActive, CancelEarly, Complete, Expire), an acknowledgement
\* still means that the handler is over.
LEMMA CancellingNext ==
    ASSUME Typed, Cancelling, [Next]_vars
    PROVE  Cancelling'
<1> USE RequestsAndCancels, EveryRequestCanBeCancelled
<1> USE DEF Cancelling, StagesFit, WaitersWaitForActive, AcknowledgedIsOver,
            AttemptFits, ConfirmedIsOver, Over, Typed, Conn, Active,
            clientVars, serverVars, registryVars, lifeVars
<1>1. ASSUME NEW r \in Request, Ask(r) PROVE Cancelling'
  BY <1>1 DEF Ask
<1>2. ASSUME NEW r \in Request, Receive(r) PROVE Cancelling'
  BY <1>2 DEF Receive, Answered
<1>3. ASSUME NEW r \in Request, LosePipe(r) PROVE Cancelling'
  BY <1>3 DEF LosePipe, Dropped
<1>4. ASSUME NEW r \in Request, CannotConnect(r) PROVE Cancelling'
  BY <1>4 DEF CannotConnect
<1>5. ASSUME NEW r \in Request, Deadline(r) PROVE Cancelling'
  BY <1>5 DEF Deadline, HungUp, Untried
<1>6. ASSUME NEW r \in Request, Confirm(r) PROVE Cancelling'
  BY <1>6 DEF Confirm, Answered
<1>7. ASSUME NEW r \in Request, Retry(r) PROVE Cancelling'
  BY <1>7 DEF Retry, Untried
<1>8. ASSUME NEW r \in Request, GraceEnds(r) PROVE Cancelling'
  BY <1>8 DEF GraceEnds, HungUp
<1>9. ASSUME NEW r \in Request, Register(r) PROVE Cancelling'
  BY <1>9 DEF Register, HasFrame, At
<1>10. ASSUME NEW r \in Request, StartHandler(r) PROVE Cancelling'
  BY <1>10 DEF StartHandler, TokenCancelled
<1>11. ASSUME NEW r \in Request, PassCheckpoint(r) PROVE Cancelling'
  BY <1>11 DEF PassCheckpoint, TokenCancelled
<1>12. ASSUME NEW r \in Request, ChangeDrawing(r) PROVE Cancelling'
  BY <1>12 DEF ChangeDrawing
<1>13. ASSUME NEW r \in Request, Complete(r) PROVE Cancelling'
  BY <1>13 DEF Complete, At, TokenCancelled
<1>14. ASSUME NEW r \in Request, Expire(r) PROVE Cancelling'
  BY <1>14 DEF Expire, At
<1>15. ASSUME NEW c \in Conn, Connect(c) PROVE Cancelling'
  BY <1>15 DEF Connect, InUse
<1>16. ASSUME NEW c \in Conn, Send(c) PROVE Cancelling'
  BY <1>16 DEF Send, InUse
<1>17. ASSUME NEW c \in Conn, Malformed(c) PROVE Cancelling'
  BY <1>17 DEF Malformed
<1>18. ASSUME NEW c \in Conn, Respond(c) PROVE Cancelling'
  BY <1>18 DEF Respond
<1>19. ASSUME NEW c \in Conn, Abandon(c) PROVE Cancelling'
  BY <1>19 DEF Abandon
<1>20. ASSUME NEW c \in Cancel, CancelActive(c) PROVE Cancelling'
  BY <1>20 DEF CancelActive, HasFrame
<1>21. ASSUME NEW c \in Cancel, CancelEarly(c) PROVE Cancelling'
  BY <1>21 DEF CancelEarly, HasFrame
<1>22. ASSUME NEW c \in Cancel, CancelRefused(c) PROVE Cancelling'
  BY <1>22 DEF CancelRefused, HasFrame
<1>23. CASE Listen
  BY <1>23 DEF Listen
<1>24. CASE AcceptFails
  BY <1>24 DEF AcceptFails
<1>25. CASE StopAccepting
  BY <1>25 DEF StopAccepting
<1>26. CASE Stop
  BY <1>26 DEF Stop
<1>27. CASE DisposeHost
  BY <1>27 DEF DisposeHost, Drained
<1>28. CASE UNCHANGED vars
  BY <1>28 DEF vars
<1> QED
  BY <1>1, <1>2, <1>3, <1>4, <1>5, <1>6, <1>7, <1>8, <1>9, <1>10, <1>11,
     <1>12, <1>13, <1>14, <1>15, <1>16, <1>17, <1>18, <1>19, <1>20, <1>21,
     <1>22, <1>23, <1>24, <1>25, <1>26, <1>27, <1>28 DEF Next

-----------------------------------------------------------------------------
\* Before any request the conjuncts about answers hold.
LEMMA AnsweringInit ==
    ASSUME Init PROVE Answering
BY RequestsAndCancels, EveryRequestCanBeCancelled
   DEF Init, Answering, NamedByItsClient, AnswerOfTheHandler, Conn

\* No step cancels a request that its own client has not given up.
LEMMA AnsweringNext ==
    ASSUME Typed, StagesFit, AttemptFits, Answering, [Next]_vars
    PROVE  Answering'
<1> USE RequestsAndCancels, EveryRequestCanBeCancelled
<1> USE DEF Answering, NamedByItsClient, AnswerOfTheHandler, GaveUp,
            AttemptFits, StagesFit, Typed, Conn, Active, Answered, clientVars,
            serverVars, registryVars, lifeVars
<1>1. ASSUME NEW r \in Request, Ask(r) PROVE Answering'
  BY <1>1 DEF Ask
<1>2. ASSUME NEW r \in Request, Receive(r) PROVE Answering'
  BY <1>2 DEF Receive
<1>3. ASSUME NEW r \in Request, LosePipe(r) PROVE Answering'
  BY <1>3 DEF LosePipe, Dropped
<1>4. ASSUME NEW r \in Request, CannotConnect(r) PROVE Answering'
  BY <1>4 DEF CannotConnect
<1>5. ASSUME NEW r \in Request, Deadline(r) PROVE Answering'
  BY <1>5 DEF Deadline, HungUp, Untried
<1>6. ASSUME NEW r \in Request, Confirm(r) PROVE Answering'
  BY <1>6 DEF Confirm
<1>7. ASSUME NEW r \in Request, Retry(r) PROVE Answering'
  BY <1>7 DEF Retry, Untried
<1>8. ASSUME NEW r \in Request, GraceEnds(r) PROVE Answering'
  BY <1>8 DEF GraceEnds, HungUp
<1>9. ASSUME NEW r \in Request, Register(r) PROVE Answering'
  BY <1>9 DEF Register, HasFrame, At
<1>10. ASSUME NEW r \in Request, StartHandler(r) PROVE Answering'
  BY <1>10 DEF StartHandler, TokenCancelled
<1>11. ASSUME NEW r \in Request, PassCheckpoint(r) PROVE Answering'
  BY <1>11 DEF PassCheckpoint, TokenCancelled
<1>12. ASSUME NEW r \in Request, ChangeDrawing(r) PROVE Answering'
  BY <1>12 DEF ChangeDrawing
<1>13. ASSUME NEW r \in Request, Complete(r) PROVE Answering'
  BY <1>13, OutcomeLemma DEF Complete, At, TokenCancelled
<1>14. ASSUME NEW r \in Request, Expire(r) PROVE Answering'
  BY <1>14 DEF Expire, At
<1>15. ASSUME NEW c \in Conn, Connect(c) PROVE Answering'
  BY <1>15 DEF Connect, InUse
<1>16. ASSUME NEW c \in Conn, Send(c) PROVE Answering'
  BY <1>16 DEF Send, InUse
<1>17. ASSUME NEW c \in Conn, Malformed(c) PROVE Answering'
  BY <1>17 DEF Malformed
<1>18. ASSUME NEW c \in Conn, Respond(c) PROVE Answering'
  BY <1>18 DEF Respond
<1>19. ASSUME NEW c \in Conn, Abandon(c) PROVE Answering'
  BY <1>19 DEF Abandon
<1>20. ASSUME NEW c \in Cancel, CancelActive(c) PROVE Answering'
  BY <1>20 DEF CancelActive, HasFrame
<1>21. ASSUME NEW c \in Cancel, CancelEarly(c) PROVE Answering'
  BY <1>21 DEF CancelEarly, HasFrame
<1>22. ASSUME NEW c \in Cancel, CancelRefused(c) PROVE Answering'
  BY <1>22 DEF CancelRefused, HasFrame
<1>23. CASE Listen
  BY <1>23 DEF Listen
<1>24. CASE AcceptFails
  BY <1>24 DEF AcceptFails
<1>25. CASE StopAccepting
  BY <1>25 DEF StopAccepting
<1>26. CASE Stop
  BY <1>26 DEF Stop
<1>27. CASE DisposeHost
  BY <1>27 DEF DisposeHost, Drained
<1>28. CASE UNCHANGED vars
  BY <1>28 DEF vars
<1> QED
  BY <1>1, <1>2, <1>3, <1>4, <1>5, <1>6, <1>7, <1>8, <1>9, <1>10, <1>11,
     <1>12, <1>13, <1>14, <1>15, <1>16, <1>17, <1>18, <1>19, <1>20, <1>21,
     <1>22, <1>23, <1>24, <1>25, <1>26, <1>27, <1>28 DEF Next

-----------------------------------------------------------------------------
\* Once the host is disposed nothing is served any more (StopServer).
LEMMA DisposedNext ==
    ASSUME Typed, DisposedIsQuiet, [Next]_vars
    PROVE  DisposedIsQuiet'
<1> USE DEF DisposedIsQuiet, Drained, Typed, Conn, Serving, Active,
            clientVars, serverVars, registryVars, lifeVars
<1>1. ASSUME NEW r \in Request, Ask(r) PROVE DisposedIsQuiet'
  BY <1>1 DEF Ask
<1>2. ASSUME NEW r \in Request, Receive(r) PROVE DisposedIsQuiet'
  BY <1>2 DEF Receive, Answered
<1>3. ASSUME NEW r \in Request, LosePipe(r) PROVE DisposedIsQuiet'
  BY <1>3 DEF LosePipe, Dropped
<1>4. ASSUME NEW r \in Request, CannotConnect(r) PROVE DisposedIsQuiet'
  BY <1>4 DEF CannotConnect
<1>5. ASSUME NEW r \in Request, Deadline(r) PROVE DisposedIsQuiet'
  BY <1>5 DEF Deadline, HungUp, Untried
<1>6. ASSUME NEW r \in Request, Confirm(r) PROVE DisposedIsQuiet'
  BY <1>6 DEF Confirm, Answered
<1>7. ASSUME NEW r \in Request, Retry(r) PROVE DisposedIsQuiet'
  BY <1>7 DEF Retry, Untried
<1>8. ASSUME NEW r \in Request, GraceEnds(r) PROVE DisposedIsQuiet'
  BY <1>8 DEF GraceEnds, HungUp
<1>9. ASSUME NEW r \in Request, Register(r) PROVE DisposedIsQuiet'
  BY <1>9 DEF Register, HasFrame, At
<1>10. ASSUME NEW r \in Request, StartHandler(r) PROVE DisposedIsQuiet'
  BY <1>10 DEF StartHandler, TokenCancelled
<1>11. ASSUME NEW r \in Request, PassCheckpoint(r) PROVE DisposedIsQuiet'
  BY <1>11 DEF PassCheckpoint, TokenCancelled
<1>12. ASSUME NEW r \in Request, ChangeDrawing(r) PROVE DisposedIsQuiet'
  BY <1>12 DEF ChangeDrawing
<1>13. ASSUME NEW r \in Request, Complete(r) PROVE DisposedIsQuiet'
  BY <1>13 DEF Complete, At, TokenCancelled
<1>14. ASSUME NEW r \in Request, Expire(r) PROVE DisposedIsQuiet'
  BY <1>14 DEF Expire, At
<1>15. ASSUME NEW c \in Conn, Connect(c) PROVE DisposedIsQuiet'
  BY <1>15 DEF Connect, InUse
<1>16. ASSUME NEW c \in Conn, Send(c) PROVE DisposedIsQuiet'
  BY <1>16 DEF Send, InUse
<1>17. ASSUME NEW c \in Conn, Malformed(c) PROVE DisposedIsQuiet'
  BY <1>17 DEF Malformed
<1>18. ASSUME NEW c \in Conn, Respond(c) PROVE DisposedIsQuiet'
  BY <1>18 DEF Respond
<1>19. ASSUME NEW c \in Conn, Abandon(c) PROVE DisposedIsQuiet'
  BY <1>19 DEF Abandon
<1>20. ASSUME NEW c \in Cancel, CancelActive(c) PROVE DisposedIsQuiet'
  BY <1>20 DEF CancelActive, HasFrame
<1>21. ASSUME NEW c \in Cancel, CancelEarly(c) PROVE DisposedIsQuiet'
  BY <1>21 DEF CancelEarly, HasFrame
<1>22. ASSUME NEW c \in Cancel, CancelRefused(c) PROVE DisposedIsQuiet'
  BY <1>22 DEF CancelRefused, HasFrame
<1>23. CASE Listen
  BY <1>23 DEF Listen
<1>24. CASE AcceptFails
  BY <1>24 DEF AcceptFails
<1>25. CASE StopAccepting
  BY <1>25 DEF StopAccepting
<1>26. CASE Stop
  BY <1>26 DEF Stop
<1>27. CASE DisposeHost
  BY <1>27 DEF DisposeHost
<1>28. CASE UNCHANGED vars
  BY <1>28 DEF vars
<1> QED
  BY <1>1, <1>2, <1>3, <1>4, <1>5, <1>6, <1>7, <1>8, <1>9, <1>10, <1>11,
     <1>12, <1>13, <1>14, <1>15, <1>16, <1>17, <1>18, <1>19, <1>20, <1>21,
     <1>22, <1>23, <1>24, <1>25, <1>26, <1>27, <1>28 DEF Next

-----------------------------------------------------------------------------
\* The connections that hold a slot, and the slot of the listening instance.
Held == {c \in Conn : conn[c] \in Serving}
Lent == IF accept = "listening" THEN 1 ELSE 0

\* The connections that hold a slot are finite in number.
LEMMA HeldIsFinite == IsFiniteSet(Held) /\ Cardinality(Held) \in Nat
<1>1. IsFiniteSet(Conn)
  BY RequestsAndCancels, FS_Union DEF Conn
<1> QED
  BY <1>1, FS_Subset, FS_CardinalityType DEF Held

\* At first every slot is free.
LEMMA SlotsInit ==
    ASSUME Init PROVE SlotsAreConserved
<1>1. {c \in Conn : conn[c] \in Serving} = {}
  BY DEF Init, Serving, Active
<1> QED
  BY <1>1, FS_EmptySet, Limits DEF Init, SlotsAreConserved

\* A part of the slots is between none and all of them.
LEMMA Bounded ==
    ASSUME NEW f \in Nat, NEW l \in Nat, NEW k \in Nat, f + k + l = Slots
    PROVE  f \in 0..Slots
BY Limits

\* Every step that takes or returns a slot keeps their count (RunAsync,
\* HandleConnectionAsync).
LEMMA SlotsNext ==
    ASSUME Typed, StagesFit, SlotsAreConserved, [Next]_vars
    PROVE  SlotsAreConserved'
<1> USE RequestsAndCancels
<1> USE DEF Held, Lent, Typed, Conn, Serving, Active, StagesFit, clientVars,
            serverVars, registryVars, lifeVars
<1>1. ASSUME NEW r \in Request, Ask(r)
      PROVE  Held' = Held /\ free' + Lent' = free + Lent
  BY <1>1 DEF Ask
<1>2. ASSUME NEW r \in Request, Receive(r)
      PROVE  Held' = Held /\ free' + Lent' = free + Lent
  BY <1>2 DEF Receive, Answered
<1>3. ASSUME NEW r \in Request, LosePipe(r)
      PROVE  Held' = Held /\ free' + Lent' = free + Lent
  BY <1>3 DEF LosePipe, Dropped
<1>4. ASSUME NEW r \in Request, CannotConnect(r)
      PROVE  Held' = Held /\ free' + Lent' = free + Lent
  BY <1>4 DEF CannotConnect
<1>5. ASSUME NEW r \in Request, Deadline(r)
      PROVE  Held' = Held /\ free' + Lent' = free + Lent
  BY <1>5 DEF Deadline, HungUp, Untried
<1>6. ASSUME NEW r \in Request, Confirm(r)
      PROVE  Held' = Held /\ free' + Lent' = free + Lent
  BY <1>6 DEF Confirm, Answered
<1>7. ASSUME NEW r \in Request, Retry(r)
      PROVE  Held' = Held /\ free' + Lent' = free + Lent
  BY <1>7 DEF Retry, Untried
<1>8. ASSUME NEW r \in Request, GraceEnds(r)
      PROVE  Held' = Held /\ free' + Lent' = free + Lent
  BY <1>8 DEF GraceEnds, HungUp
<1>9. ASSUME NEW r \in Request, Register(r)
      PROVE  Held' = Held /\ free' + Lent' = free + Lent
  BY <1>9 DEF Register, HasFrame, At
<1>10. ASSUME NEW r \in Request, StartHandler(r)
      PROVE  Held' = Held /\ free' + Lent' = free + Lent
  BY <1>10 DEF StartHandler, TokenCancelled
<1>11. ASSUME NEW r \in Request, PassCheckpoint(r)
      PROVE  Held' = Held /\ free' + Lent' = free + Lent
  BY <1>11 DEF PassCheckpoint, TokenCancelled
<1>12. ASSUME NEW r \in Request, ChangeDrawing(r)
      PROVE  Held' = Held /\ free' + Lent' = free + Lent
  BY <1>12 DEF ChangeDrawing
<1>13. ASSUME NEW r \in Request, Complete(r)
      PROVE  Held' = Held /\ free' + Lent' = free + Lent
  BY <1>13 DEF Complete, At, TokenCancelled
<1>14. ASSUME NEW r \in Request, Expire(r)
      PROVE  Held' = Held /\ free' + Lent' = free + Lent
  BY <1>14 DEF Expire, At
<1>15. ASSUME NEW c \in Conn, Send(c)
      PROVE  Held' = Held /\ free' + Lent' = free + Lent
  BY <1>15 DEF Send, InUse
<1>16. ASSUME NEW c \in Conn, Malformed(c)
      PROVE  Held' = Held /\ free' + Lent' = free + Lent
  BY <1>16 DEF Malformed
<1>17. ASSUME NEW c \in Cancel, CancelActive(c)
      PROVE  Held' = Held /\ free' + Lent' = free + Lent
  BY <1>17 DEF CancelActive, HasFrame
<1>18. ASSUME NEW c \in Cancel, CancelEarly(c)
      PROVE  Held' = Held /\ free' + Lent' = free + Lent
  BY <1>18 DEF CancelEarly, HasFrame
<1>19. ASSUME NEW c \in Cancel, CancelRefused(c)
      PROVE  Held' = Held /\ free' + Lent' = free + Lent
  BY <1>19 DEF CancelRefused, HasFrame
<1>20. Listen => Held' = Held /\ free' + Lent' = free + Lent
  BY DEF Listen
<1>21. AcceptFails => Held' = Held /\ free' + Lent' = free + Lent
  BY DEF AcceptFails
<1>22. StopAccepting => Held' = Held /\ free' + Lent' = free + Lent
  BY DEF StopAccepting
<1>23. Stop => Held' = Held /\ free' + Lent' = free + Lent
  BY DEF Stop
<1>24. DisposeHost => Held' = Held /\ free' + Lent' = free + Lent
  BY DEF DisposeHost, Drained
<1>25. UNCHANGED vars => Held' = Held /\ free' + Lent' = free + Lent
  BY DEF vars
<1>26. ASSUME NEW c \in Conn, Connect(c)
      PROVE  /\ c \notin Held /\ Held' = Held \cup {c}
             /\ free' + Lent' = free + Lent - 1
  BY <1>26 DEF Connect, InUse
<1>27. ASSUME NEW c \in Conn, Respond(c)
      PROVE  /\ c \in Held /\ Held' = Held \ {c}
             /\ free' + Lent' = free + Lent + 1
  BY <1>27 DEF Respond
<1>28. ASSUME NEW c \in Conn, Abandon(c)
      PROVE  /\ c \in Held /\ Held' = Held \ {c}
             /\ free' + Lent' = free + Lent + 1
  BY <1>28 DEF Abandon
<1> HIDE DEF Held, Lent, Typed, Conn, Serving, Active, StagesFit, clientVars,
            serverVars, registryVars, lifeVars
<1>29. free + Lent + Cardinality(Held) = Slots
  <2>1. free \in Int /\ Lent \in Int /\ Cardinality(Held) \in Int
    BY HeldIsFinite DEF Typed, Lent
  <2> QED
    BY <2>1 DEF SlotsAreConserved, Held, Lent
<1>30. /\ free' \in Int /\ Lent' \in Int /\ IsFiniteSet(Held)
       /\ free \in Int /\ Lent \in Int /\ Cardinality(Held) \in Int
  BY TypedNext, HeldIsFinite DEF Typed, Lent
<1>31. free' + Lent' + Cardinality(Held') = Slots
  <2>1. CASE Held' = Held /\ free' + Lent' = free + Lent
    BY <1>29, <1>30, <2>1
  <2>2. ASSUME NEW c \in Conn, Connect(c)
      PROVE  free' + Lent' + Cardinality(Held') = Slots
    <3>1. Cardinality(Held \cup {c}) = Cardinality(Held) + 1
      BY <1>26, <1>30, <2>2, FS_AddElement
    <3>2. Cardinality(Held') = Cardinality(Held) + 1
      BY <1>26, <2>2, <3>1
    <3>3. free' + Lent' = free + Lent - 1
      BY <1>26, <2>2
    <3>4. free' + Lent' + Cardinality(Held')
            = (free + Lent - 1) + (Cardinality(Held) + 1)
      BY <1>30, <3>2, <3>3
    <3>5. (free + Lent - 1) + (Cardinality(Held) + 1)
            = free + Lent + Cardinality(Held)
      BY <1>30
    <3> QED
      BY <1>29, <3>4, <3>5
  <2>3. ASSUME NEW c \in Conn, Respond(c) \/ Abandon(c)
        PROVE  free' + Lent' + Cardinality(Held') = Slots
    <3>0. c \in Held /\ Held' = Held \ {c}
      BY <1>27, <1>28, <2>3
    <3>1. Cardinality(Held \ {c}) = Cardinality(Held) - 1
      BY <1>30, <3>0, FS_RemoveElement
    <3>2. Cardinality(Held') = Cardinality(Held) - 1
      BY <3>0, <3>1
    <3>3. free' + Lent' = free + Lent + 1
      BY <1>27, <1>28, <2>3
    <3>4. free' + Lent' + Cardinality(Held')
            = (free + Lent + 1) + (Cardinality(Held) - 1)
      BY <1>30, <3>2, <3>3
    <3>5. (free + Lent + 1) + (Cardinality(Held) - 1)
            = free + Lent + Cardinality(Held)
      BY <1>30
    <3> QED
      BY <1>29, <3>4, <3>5
  <2> QED
    BY <2>1, <2>2, <2>3, <1>1, <1>2, <1>3, <1>4, <1>5, <1>6, <1>7, <1>8, <1>9,
       <1>10, <1>11, <1>12, <1>13, <1>14, <1>15, <1>16, <1>17, <1>18, <1>19,
       <1>20, <1>21, <1>22, <1>23, <1>24, <1>25 DEF Next
<1>32. Cardinality(Held') \in Int
  <2>1. \/ Held' = Held
        \/ \E c \in Conn : Held' = Held \cup {c} \/ Held' = Held \ {c}
    BY <1>26, <1>27, <1>28, <1>1, <1>2, <1>3, <1>4, <1>5, <1>6, <1>7, <1>8,
       <1>9, <1>10, <1>11, <1>12, <1>13, <1>14, <1>15, <1>16, <1>17, <1>18,
       <1>19, <1>20, <1>21, <1>22, <1>23, <1>24, <1>25 DEF Next
  <2> QED
    BY <1>30, <2>1, FS_AddElement, FS_RemoveElement, FS_CardinalityType
<1> QED
  BY <1>30, <1>31, <1>32 DEF SlotsAreConserved, Held, Lent

-----------------------------------------------------------------------------
\* The inductive invariant holds at first (the server just started) ...
LEMMA IInvInit == ASSUME Init PROVE IInv
BY TypedInit, CancellingInit, AnsweringInit, SlotsInit
   DEF Init, IInv, DisposedIsQuiet

\* ... and every step of client, server and shutdown preserves it ...
LEMMA IInvNext == ASSUME IInv, [Next]_vars PROVE IInv'
<1>1. Typed /\ Cancelling /\ StagesFit /\ AttemptFits
  BY DEF IInv, Cancelling
<1>2. Answering /\ SlotsAreConserved /\ DisposedIsQuiet
  BY DEF IInv
<1>3. Typed' /\ Cancelling' /\ Answering'
  BY <1>1, <1>2, TypedNext, CancellingNext, AnsweringNext
<1>4. SlotsAreConserved' /\ DisposedIsQuiet'
  BY <1>1, <1>2, SlotsNext, DisposedNext
<1> QED
  BY <1>3, <1>4 DEF IInv

\* ... so it holds in every reachable state of the pipe.
LEMMA Invariance == Spec => []IInv
BY IInvInit, IInvNext, PTL DEF Spec

\* Every variable keeps its type, and the free slots stay between none and all
\* of them (NamedPipeBridgeServer, RequestCancellationRegistry).
THEOREM TypeCorrect == Spec => []TypeOK
<1>1. ASSUME IInv PROVE TypeOK
  <2>1. free + Cardinality(Held) + Lent = Slots
    BY <1>1 DEF IInv, SlotsAreConserved, Held, Lent
  <2>2. free \in Nat /\ Lent \in Nat /\ Cardinality(Held) \in Nat
    BY <1>1, HeldIsFinite DEF IInv, Typed, Lent
  <2>3. Typed
    BY <1>1 DEF IInv
  <2>4. free \in 0..Slots
    BY <2>1, <2>2, Bounded
  <2> QED
    BY <2>3, <2>4 DEF Typed, TypeOK
<1> QED
  BY Invariance, <1>1, PTL

\* A confirmed terminal cancel means that the handler is over (ADR-015;
\* TryCancelAndWaitForTerminalAsync and TryRegister, in any order).
THEOREM ConfirmedCancelIsTerminal == Spec => []ConfirmedIsOver
<1>1. ASSUME IInv PROVE ConfirmedIsOver
  BY <1>1 DEF IInv, Cancelling
<1> QED
  BY Invariance, <1>1, PTL

\* A client that waits for its answer gets the one of its handler: nobody
\* else's cancel or tombstone reaches the request (TryRegister, TryCancel).
THEOREM OthersAreNotCancelled == Spec => []OnlyTheTargetIsCancelled
<1>1. ASSUME IInv PROVE OnlyTheTargetIsCancelled
  BY <1>1 DEF IInv, Typed, Answering, AnswerOfTheHandler,
     OnlyTheTargetIsCancelled,
              Answered, GaveUp
<1> QED
  BY Invariance, <1>1, PTL

\* The handler slots are neither lost nor multiplied (RunAsync,
\* HandleConnectionAsync).
THEOREM SlotsNeverLeak == Spec => []SlotsAreConserved
<1>1. ASSUME IInv PROVE SlotsAreConserved
  BY <1>1 DEF IInv
<1> QED
  BY Invariance, <1>1, PTL

\* The host is disposed only when no task of a connection is left (StopServer,
\* DrainConnectionsAsync).
THEOREM HostGoesLast == Spec => []HostOutlivesHandlers
<1>1. ASSUME IInv PROVE HostOutlivesHandlers
  BY <1>1 DEF IInv, DisposedIsQuiet, Drained, HostOutlivesHandlers
<1> QED
  BY Invariance, <1>1, PTL
=============================================================================
