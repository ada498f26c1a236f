------------------------- MODULE CommitJournalProofs -------------------------
(***************************************************************************)
(* Proofs about CommitJournal, for any number of processes, requests and   *)
(* keys: an inductive invariant, the safety properties that follow from    *)
(* it, and the refinement of OnceOnlyCommit.                               *)
(***************************************************************************)
EXTENDS CommitJournal, TLAPS

\* A request waits and executes in a living process; executing, it holds its
\* reservation.
ExecutingHoldsReservation ==
    \A r \in Request :
        /\ stage[r] \in Executing \cup {"waiting"} => up[host[r]] = "up"
        /\ stage[r] \in Executing => Owned(r)

\* Where the drawing has a request's change, the request got past Commit, and
\* a callback that got past Commit has changed the drawing.
ChangeFollowsStage ==
    \A r \in Request :
        /\ stage[r] \in {"idle", "waiting", "reserved", "refused"} => r \notin drawing
        /\ stage[r] \in {"committed", "ok"} => r \in drawing

\* An entry is about the request that reserved it.
EntryMatchesRequest ==
    \A k \in Key : journal[k] # NoRecord =>
        /\ KeyOf[journal[k].rid] = k
        /\ journal[k].digest = DigestOf[journal[k].rid]
        /\ journal[k].owner = host[journal[k].rid]
        /\ stage[journal[k].rid] \notin {"idle", "waiting"}
        /\ journal[k].state = "committed" => journal[k].rid \in drawing

\* Only a finished request has an answer.
AnswerEndsRequest == \A r \in Request : answer[r] # "none" => stage[r] = "done"

IInv ==
    /\ TypeOK
    /\ ExecutingHoldsReservation
    /\ ChangeFollowsStage
    /\ EveryChangeIsJournaled
    /\ EntryMatchesRequest
    /\ AnswerEndsRequest
    /\ TruthfulAnswers

-----------------------------------------------------------------------------
\* What recovery does to an entry (RecoverAsUnknown of proven-dead owners).
LEMMA RecoverLemma ==
    ASSUME TypeOK, NEW K \in SUBSET Orphaned
    PROVE  /\ RecoverAsUnknown(K) \in [Key -> Record \cup {NoRecord}]
           /\ \A k \in Key \ K : RecoverAsUnknown(K)[k] = journal[k]
           /\ \A k \in K :
                /\ journal[k] # NoRecord
                /\ journal[k].state = "prepared"
                /\ up[journal[k].owner] = "down"
                /\ RecoverAsUnknown(K)[k] # NoRecord
                /\ RecoverAsUnknown(K)[k].state = "unknown"
                /\ RecoverAsUnknown(K)[k].rid = journal[k].rid
                /\ RecoverAsUnknown(K)[k].owner = journal[k].owner
                /\ RecoverAsUnknown(K)[k].digest = journal[k].digest
<1>1. ASSUME NEW k \in K
      PROVE  /\ journal[k] # NoRecord
             /\ journal[k].state = "prepared"
             /\ up[journal[k].owner] = "down"
  BY <1>1 DEF Orphaned, Probe
<1>2. K \subseteq Key
  BY DEF Orphaned
<1>3. ASSUME NEW k \in K
      PROVE  /\ RecoverAsUnknown(K)[k] \in Record
             /\ RecoverAsUnknown(K)[k].state = "unknown"
             /\ RecoverAsUnknown(K)[k].rid = journal[k].rid
             /\ RecoverAsUnknown(K)[k].owner = journal[k].owner
             /\ RecoverAsUnknown(K)[k].digest = journal[k].digest
  BY <1>1, <1>2, <1>3 DEF TypeOK, Record, RecordState, RecoverAsUnknown
<1>4. RecoverAsUnknown(K) \in [Key -> Record \cup {NoRecord}]
  BY <1>2, <1>3 DEF TypeOK, RecoverAsUnknown
<1> QED
  BY <1>1, <1>2, <1>3, <1>4, NoRecordIsNoRecord DEF RecoverAsUnknown

\* A reservation as Begin writes it is a record.
LEMMA PreparedLemma ==
    ASSUME TypeOK, NEW r \in Request
    PROVE  Prepared(r) \in Record /\ Prepared(r) # NoRecord
BY DigestOfType, NoRecordIsNoRecord DEF TypeOK, Prepared, Record, RecordState

\* Transition on an owned reservation replaces that entry only, and only its
\* state (MarkCommitted, MarkUnknown).
LEMMA MarkLemma ==
    ASSUME TypeOK, NEW r \in Request,
           NEW st \in {"committed", "unknown"}, MarkAs(r, st)
    PROVE  /\ journal' \in [Key -> Record \cup {NoRecord}]
           /\ \A k \in Key : k # KeyOf[r] => journal'[k] = journal[k]
           /\ Owned(r)
           /\ journal'[KeyOf[r]] # NoRecord
           /\ journal'[KeyOf[r]].state = st
           /\ journal'[KeyOf[r]].rid = r
           /\ journal'[KeyOf[r]].digest = DigestOf[r]
           /\ journal'[KeyOf[r]].owner = host[r]
<1> DEFINE rec == [journal[KeyOf[r]] EXCEPT !.state = st]
<1>1. KeyOf[r] \in Key /\ Owned(r)
  BY KeyOfType DEF MarkAs
<1>2. journal[KeyOf[r]] \in Record
  BY <1>1 DEF TypeOK, Owned, Existing
<1>3. rec \in Record /\ rec # NoRecord /\ rec.state = st
  BY <1>2, NoRecordIsNoRecord DEF Record, RecordState
<1>4. rec.rid = r /\ rec.digest = DigestOf[r] /\ rec.owner = host[r]
  BY <1>1, <1>2 DEF Owned, Existing, Record
<1>5. journal' = [journal EXCEPT ![KeyOf[r]] = rec]
  BY DEF MarkAs, Put, Existing
<1> QED
  BY <1>1, <1>3, <1>4, <1>5 DEF TypeOK

-----------------------------------------------------------------------------
\* The initial state satisfies the invariant (journal empty, nothing sent).
LEMMA InitIInv == Init => IInv
BY NoRecordIsNoRecord
   DEF Init, IInv, TypeOK, ExecutingHoldsReservation, ChangeFollowsStage,
       EveryChangeIsJournaled, EntryMatchesRequest, AnswerEndsRequest,
       TruthfulAnswers, Stage, Answer, Executing

\* Every step of the journal and the coordinator preserves it.
LEMMA NextIInv == IInv /\ [Next]_vars => IInv'
<1> SUFFICES ASSUME IInv, [Next]_vars PROVE IInv'
  OBVIOUS
<1> USE KeyOfType, DigestOfType, NoRecordIsNoRecord
<1> USE DEF IInv, Executing, Stage, Answer
<1>1. ASSUME NEW p \in Process, Start(p) PROVE IInv'
  <2> PICK K \in SUBSET Orphaned : journal' = RecoverAsUnknown(K)
    BY <1>1 DEF Start
  <2> DEFINE J == RecoverAsUnknown(K)
  <2>1. TypeOK'
    BY <1>1, RecoverLemma DEF Start, TypeOK
  <2>2. ExecutingHoldsReservation'
    BY <1>1, RecoverLemma DEF Start, TypeOK, ExecutingHoldsReservation, Owned, Existing
  <2>3. ChangeFollowsStage' /\ AnswerEndsRequest' /\ TruthfulAnswers'
    BY <1>1 DEF Start, ChangeFollowsStage, AnswerEndsRequest, TruthfulAnswers
  <2>4. EveryChangeIsJournaled'
    BY <1>1, RecoverLemma DEF Start, TypeOK, EveryChangeIsJournaled, Existing
  <2>5. EntryMatchesRequest'
    BY <1>1, RecoverLemma DEF Start, TypeOK, EntryMatchesRequest
  <2> QED
    BY <2>1, <2>2, <2>3, <2>4, <2>5
<1>2. ASSUME NEW p \in Process, Crash(p) PROVE IInv'
  <2>1. TypeOK'
    BY <1>2 DEF Crash, TypeOK
  <2>2. ExecutingHoldsReservation'
    BY <1>2 DEF Crash, TypeOK, ExecutingHoldsReservation, Owned, Existing
  <2>3. ChangeFollowsStage'
    BY <1>2 DEF Crash, TypeOK, ChangeFollowsStage
  <2>4. EveryChangeIsJournaled'
    BY <1>2 DEF Crash, TypeOK, EveryChangeIsJournaled, Existing
  <2>5. EntryMatchesRequest'
    BY <1>2 DEF Crash, TypeOK, EntryMatchesRequest, Record
  <2>6. AnswerEndsRequest'
    BY <1>2 DEF Crash, TypeOK, AnswerEndsRequest
  <2>7. TruthfulAnswers'
    BY <1>2 DEF Crash, TypeOK, TruthfulAnswers
  <2> QED
    BY <2>1, <2>2, <2>3, <2>4, <2>5, <2>6, <2>7
<1>3. ASSUME NEW r \in Request, Receive(r) \/ Withdraw(r) PROVE IInv'
  <2>1. TypeOK'
    BY <1>3 DEF Receive, Withdraw, TypeOK
  <2>2. ExecutingHoldsReservation'
    BY <1>3 DEF Receive, Withdraw, TypeOK, ExecutingHoldsReservation, Owned, Existing
  <2>3. ChangeFollowsStage'
    BY <1>3 DEF Receive, Withdraw, TypeOK, ChangeFollowsStage
  <2>4. EveryChangeIsJournaled'
    BY <1>3 DEF Receive, Withdraw, TypeOK, EveryChangeIsJournaled, Existing
  <2>5. EntryMatchesRequest'
    BY <1>3 DEF Receive, Withdraw, TypeOK, EntryMatchesRequest, Record
  <2>6. AnswerEndsRequest'
    BY <1>3 DEF Receive, Withdraw, TypeOK, AnswerEndsRequest
  <2>7. TruthfulAnswers'
    BY <1>3 DEF Receive, Withdraw, TypeOK, TruthfulAnswers
  <2> QED
    BY <2>1, <2>2, <2>3, <2>4, <2>5, <2>6, <2>7
<1>4. ASSUME NEW r \in Request, Reject(r) PROVE IInv'
  <2>1. TypeOK'
    BY <1>4 DEF Reject, Enter, Return, TypeOK
  <2>2. ExecutingHoldsReservation'
    BY <1>4
       DEF Reject, Enter, Return, TypeOK, ExecutingHoldsReservation, Owned,
           Existing
  <2>3. ChangeFollowsStage'
    BY <1>4 DEF Reject, Enter, Return, TypeOK, ChangeFollowsStage
  <2>4. EveryChangeIsJournaled'
    BY <1>4 DEF Reject, Enter, Return, TypeOK, EveryChangeIsJournaled, Existing
  <2>5. EntryMatchesRequest'
    BY <1>4 DEF Reject, Enter, Return, TypeOK, EntryMatchesRequest
  <2>6. AnswerEndsRequest'
    BY <1>4 DEF Reject, Enter, Return, TypeOK, AnswerEndsRequest
  <2>7. TruthfulAnswers'
    BY <1>4
       DEF Reject, Enter, Return, TypeOK, TruthfulAnswers, ChangeFollowsStage
  <2> QED
    BY <2>1, <2>2, <2>3, <2>4, <2>5, <2>6, <2>7
<1>5. ASSUME NEW r \in Request, BeginFails(r) PROVE IInv'
  <2>1. TypeOK'
    BY <1>5, RecoverLemma, PreparedLemma
       DEF BeginFails, Enter, Return, Put, SameDigest, TypeOK, Existing
  <2>2. ExecutingHoldsReservation'
    BY <1>5, RecoverLemma, PreparedLemma
       DEF BeginFails, Enter, Return, Put, SameDigest, TypeOK,
           ExecutingHoldsReservation, Owned, Existing
  <2>3. ChangeFollowsStage'
    BY <1>5, RecoverLemma, PreparedLemma
       DEF BeginFails, Enter, Return, Put, SameDigest, TypeOK,
           ChangeFollowsStage
  <2>4. EveryChangeIsJournaled'
    BY <1>5, RecoverLemma, PreparedLemma
       DEF BeginFails, Enter, Return, Put, SameDigest, TypeOK,
           EveryChangeIsJournaled, Existing, EntryMatchesRequest, Prepared
  <2>5. EntryMatchesRequest'
    BY <1>5, RecoverLemma, PreparedLemma
       DEF BeginFails, Enter, Return, Put, SameDigest, TypeOK,
           EntryMatchesRequest, Prepared, Existing
  <2>6. AnswerEndsRequest'
    BY <1>5, RecoverLemma, PreparedLemma
       DEF BeginFails, Enter, Return, Put, SameDigest, TypeOK,
           AnswerEndsRequest
  <2>7. TruthfulAnswers'
    BY <1>5, RecoverLemma, PreparedLemma
       DEF BeginFails, Enter, Return, Put, SameDigest, TypeOK,
           TruthfulAnswers, ChangeFollowsStage
  <2> QED
    BY <2>1, <2>2, <2>3, <2>4, <2>5, <2>6, <2>7
<1>6. ASSUME NEW r \in Request, BeginKeyReused(r) PROVE IInv'
  <2>1. TypeOK'
    BY <1>6 DEF BeginKeyReused, Enter, Return, TypeOK
  <2>2. ExecutingHoldsReservation'
    BY <1>6
       DEF BeginKeyReused, Enter, Return, TypeOK, ExecutingHoldsReservation,
           Owned, Existing
  <2>3. ChangeFollowsStage'
    BY <1>6 DEF BeginKeyReused, Enter, Return, TypeOK, ChangeFollowsStage
  <2>4. EveryChangeIsJournaled'
    BY <1>6
       DEF BeginKeyReused, Enter, Return, TypeOK, EveryChangeIsJournaled,
           Existing
  <2>5. EntryMatchesRequest'
    BY <1>6 DEF BeginKeyReused, Enter, Return, TypeOK, EntryMatchesRequest
  <2>6. AnswerEndsRequest'
    BY <1>6 DEF BeginKeyReused, Enter, Return, TypeOK, AnswerEndsRequest
  <2>7. TruthfulAnswers'
    BY <1>6
       DEF BeginKeyReused, Enter, Return, TypeOK, TruthfulAnswers,
           ChangeFollowsStage
  <2> QED
    BY <2>1, <2>2, <2>3, <2>4, <2>5, <2>6, <2>7
<1>7. ASSUME NEW r \in Request, BeginReplay(r) PROVE IInv'
  <2>1. TypeOK'
    BY <1>7
       DEF BeginReplay, Enter, Return, SameDigest, Existing, TypeOK, Record
  <2>2. ExecutingHoldsReservation'
    BY <1>7
       DEF BeginReplay, Enter, Return, SameDigest, Existing, TypeOK,
           ExecutingHoldsReservation, Owned
  <2>3. ChangeFollowsStage'
    BY <1>7
       DEF BeginReplay, Enter, Return, SameDigest, Existing, TypeOK,
           ChangeFollowsStage
  <2>4. EveryChangeIsJournaled'
    BY <1>7
       DEF BeginReplay, Enter, Return, SameDigest, Existing, TypeOK,
           EveryChangeIsJournaled
  <2>5. EntryMatchesRequest'
    BY <1>7
       DEF BeginReplay, Enter, Return, SameDigest, Existing, TypeOK,
           EntryMatchesRequest
  <2>6. AnswerEndsRequest'
    BY <1>7
       DEF BeginReplay, Enter, Return, SameDigest, Existing, TypeOK,
           AnswerEndsRequest
  <2>7. TruthfulAnswers'
    BY <1>7
       DEF BeginReplay, Enter, Return, SameDigest, Existing, TypeOK,
           TruthfulAnswers, EntryMatchesRequest, Record
  <2> QED
    BY <2>1, <2>2, <2>3, <2>4, <2>5, <2>6, <2>7
<1>8. ASSUME NEW r \in Request, BeginUnknown(r) PROVE IInv'
  <2>1. TypeOK'
    BY <1>8, RecoverLemma DEF BeginUnknown, Enter, Return, TypeOK
  <2>2. ExecutingHoldsReservation'
    BY <1>8, RecoverLemma
       DEF BeginUnknown, Enter, Return, TypeOK, ExecutingHoldsReservation,
           Owned, Existing
  <2>3. ChangeFollowsStage'
    BY <1>8, RecoverLemma
       DEF BeginUnknown, Enter, Return, TypeOK, ChangeFollowsStage
  <2>4. EveryChangeIsJournaled'
    BY <1>8, RecoverLemma
       DEF BeginUnknown, Enter, Return, TypeOK, EveryChangeIsJournaled,
           Existing
  <2>5. EntryMatchesRequest'
    BY <1>8, RecoverLemma
       DEF BeginUnknown, Enter, Return, TypeOK, EntryMatchesRequest
  <2>6. AnswerEndsRequest'
    BY <1>8, RecoverLemma
       DEF BeginUnknown, Enter, Return, TypeOK, AnswerEndsRequest
  <2>7. TruthfulAnswers'
    BY <1>8, RecoverLemma
       DEF BeginUnknown, Enter, Return, TypeOK, TruthfulAnswers
  <2> QED
    BY <2>1, <2>2, <2>3, <2>4, <2>5, <2>6, <2>7
<1>9. ASSUME NEW r \in Request, BeginExecute(r) PROVE IInv'
  <2>1. TypeOK'
    BY <1>9, PreparedLemma DEF BeginExecute, Enter, Put, Existing, TypeOK
  <2>2. ExecutingHoldsReservation'
    BY <1>9, PreparedLemma
       DEF BeginExecute, Enter, Put, Existing, TypeOK,
           ExecutingHoldsReservation, Owned, Prepared, EntryMatchesRequest
  <2>3. ChangeFollowsStage'
    BY <1>9, PreparedLemma
       DEF BeginExecute, Enter, Put, Existing, TypeOK, ChangeFollowsStage
  <2>4. EveryChangeIsJournaled'
    BY <1>9, PreparedLemma
       DEF BeginExecute, Enter, Put, Existing, TypeOK, EveryChangeIsJournaled
  <2>5. EntryMatchesRequest'
    BY <1>9, PreparedLemma
       DEF BeginExecute, Enter, Put, Existing, TypeOK, EntryMatchesRequest,
           Prepared
  <2>6. AnswerEndsRequest'
    BY <1>9, PreparedLemma
       DEF BeginExecute, Enter, Put, Existing, TypeOK, AnswerEndsRequest
  <2>7. TruthfulAnswers'
    BY <1>9, PreparedLemma
       DEF BeginExecute, Enter, Put, Existing, TypeOK, TruthfulAnswers
  <2> QED
    BY <2>1, <2>2, <2>3, <2>4, <2>5, <2>6, <2>7
<1>10. ASSUME NEW r \in Request, CommitDrawing(r) PROVE IInv'
  <2>1. TypeOK'
    BY <1>10 DEF CommitDrawing, TypeOK
  <2>2. ExecutingHoldsReservation'
    BY <1>10
       DEF CommitDrawing, TypeOK, ExecutingHoldsReservation, Owned, Existing
  <2>3. ChangeFollowsStage'
    BY <1>10 DEF CommitDrawing, TypeOK, ChangeFollowsStage
  <2>4. EveryChangeIsJournaled'
    BY <1>10
       DEF CommitDrawing, TypeOK, EveryChangeIsJournaled, Existing,
           ExecutingHoldsReservation, Owned
  <2>5. EntryMatchesRequest'
    BY <1>10 DEF CommitDrawing, TypeOK, EntryMatchesRequest
  <2>6. AnswerEndsRequest'
    BY <1>10 DEF CommitDrawing, TypeOK, AnswerEndsRequest
  <2>7. TruthfulAnswers'
    BY <1>10 DEF CommitDrawing, TypeOK, TruthfulAnswers, AnswerEndsRequest
  <2> QED
    BY <2>1, <2>2, <2>3, <2>4, <2>5, <2>6, <2>7
<1>11. ASSUME NEW r \in Request, CallbackReturns(r) PROVE IInv'
  <2>1. TypeOK'
    BY <1>11 DEF CallbackReturns, Verdict, TypeOK
  <2>2. ExecutingHoldsReservation'
    BY <1>11
       DEF CallbackReturns, Verdict, TypeOK, ExecutingHoldsReservation,
           Owned, Existing
  <2>3. ChangeFollowsStage'
    BY <1>11 DEF CallbackReturns, Verdict, TypeOK, ChangeFollowsStage
  <2>4. EveryChangeIsJournaled'
    BY <1>11
       DEF CallbackReturns, Verdict, TypeOK, EveryChangeIsJournaled, Existing
  <2>5. EntryMatchesRequest'
    BY <1>11 DEF CallbackReturns, Verdict, TypeOK, EntryMatchesRequest
  <2>6. AnswerEndsRequest'
    BY <1>11 DEF CallbackReturns, Verdict, TypeOK, AnswerEndsRequest
  <2>7. TruthfulAnswers'
    BY <1>11 DEF CallbackReturns, Verdict, TypeOK, TruthfulAnswers
  <2> QED
    BY <2>1, <2>2, <2>3, <2>4, <2>5, <2>6, <2>7
<1>12. ASSUME NEW r \in Request, SettleCommitted(r) PROVE IInv'
  <2>1. TypeOK'
    BY <1>12, MarkLemma DEF SettleCommitted, Return, TypeOK
  <2>2. ExecutingHoldsReservation'
    BY <1>12, MarkLemma
       DEF SettleCommitted, Return, TypeOK, ExecutingHoldsReservation, Owned,
           Existing
  <2>3. ChangeFollowsStage'
    BY <1>12, MarkLemma DEF SettleCommitted, Return, TypeOK, ChangeFollowsStage
  <2>4. EveryChangeIsJournaled'
    BY <1>12, MarkLemma
       DEF SettleCommitted, Return, TypeOK, EveryChangeIsJournaled, Existing,
           EntryMatchesRequest, Owned
  <2>5. EntryMatchesRequest'
    BY <1>12, MarkLemma
       DEF SettleCommitted, Return, TypeOK, EntryMatchesRequest,
           ChangeFollowsStage, Owned, Existing
  <2>6. AnswerEndsRequest'
    BY <1>12, MarkLemma DEF SettleCommitted, Return, TypeOK, AnswerEndsRequest
  <2>7. TruthfulAnswers'
    BY <1>12, MarkLemma
       DEF SettleCommitted, Return, TypeOK, TruthfulAnswers, ChangeFollowsStage
  <2> QED
    BY <2>1, <2>2, <2>3, <2>4, <2>5, <2>6, <2>7
<1>13. ASSUME NEW r \in Request, SettleUnknown(r) PROVE IInv'
  <2>1. TypeOK'
    BY <1>13, MarkLemma DEF SettleUnknown, Return, TypeOK
  <2>2. ExecutingHoldsReservation'
    BY <1>13, MarkLemma
       DEF SettleUnknown, Return, TypeOK, ExecutingHoldsReservation, Owned,
           Existing
  <2>3. ChangeFollowsStage'
    BY <1>13, MarkLemma DEF SettleUnknown, Return, TypeOK, ChangeFollowsStage
  <2>4. EveryChangeIsJournaled'
    BY <1>13, MarkLemma
       DEF SettleUnknown, Return, TypeOK, EveryChangeIsJournaled, Existing,
           EntryMatchesRequest, Owned
  <2>5. EntryMatchesRequest'
    BY <1>13, MarkLemma
       DEF SettleUnknown, Return, TypeOK, EntryMatchesRequest,
           ChangeFollowsStage, Owned, Existing
  <2>6. AnswerEndsRequest'
    BY <1>13, MarkLemma DEF SettleUnknown, Return, TypeOK, AnswerEndsRequest
  <2>7. TruthfulAnswers'
    BY <1>13, MarkLemma
       DEF SettleUnknown, Return, TypeOK, TruthfulAnswers, ChangeFollowsStage
  <2> QED
    BY <2>1, <2>2, <2>3, <2>4, <2>5, <2>6, <2>7
<1>14. ASSUME NEW r \in Request, SettleRefused(r) PROVE IInv'
  <2>1. TypeOK'
    BY <1>14 DEF SettleRefused, Return, Owned, Put, Existing, TypeOK
  <2>2. ExecutingHoldsReservation'
    BY <1>14
       DEF SettleRefused, Return, Owned, Put, Existing, TypeOK,
           ExecutingHoldsReservation
  <2>3. ChangeFollowsStage'
    BY <1>14
       DEF SettleRefused, Return, Owned, Put, Existing, TypeOK,
           ChangeFollowsStage
  <2>4. EveryChangeIsJournaled'
    BY <1>14
       DEF SettleRefused, Return, Owned, Put, Existing, TypeOK,
           EveryChangeIsJournaled, ChangeFollowsStage, EntryMatchesRequest
  <2>5. EntryMatchesRequest'
    BY <1>14
       DEF SettleRefused, Return, Owned, Put, Existing, TypeOK,
           EntryMatchesRequest
  <2>6. AnswerEndsRequest'
    BY <1>14
       DEF SettleRefused, Return, Owned, Put, Existing, TypeOK,
           AnswerEndsRequest
  <2>7. TruthfulAnswers'
    BY <1>14
       DEF SettleRefused, Return, Owned, Put, Existing, TypeOK,
           TruthfulAnswers, ChangeFollowsStage
  <2> QED
    BY <2>1, <2>2, <2>3, <2>4, <2>5, <2>6, <2>7
<1>15. CASE UNCHANGED vars
  BY <1>15 DEF vars, TypeOK, ExecutingHoldsReservation, ChangeFollowsStage,
     EveryChangeIsJournaled, EntryMatchesRequest, AnswerEndsRequest,
     TruthfulAnswers, Owned, Existing
<1> QED
  BY <1>1, <1>2, <1>3, <1>4, <1>5, <1>6, <1>7,
     <1>8, <1>9, <1>10, <1>11, <1>12, <1>13, <1>14, <1>15 DEF Next

-----------------------------------------------------------------------------
\* The journal's data keep their types through every crash and failure.
THEOREM TypeCorrect == Spec => []TypeOK
<1>1. IInv => TypeOK
  BY DEF IInv
<1> QED
  BY <1>1, InitIInv, NextIInv, PTL DEF Spec

\* The inductive invariant holds in every reachable state.
THEOREM Invariant == Spec => []IInv
BY InitIInv, NextIInv, PTL DEF Spec

\* However often a key is retried, its change is in the drawing at most once:
\* two changes of one key would be evidenced by the same entry, which names
\* one attempt only.
THEOREM CommitsAtMostOnce == Spec => []AtMostOnce
<1>1. IInv => AtMostOnce
  BY DEF IInv, EveryChangeIsJournaled, AtMostOnce, Existing
<1> QED
  BY <1>1, Invariant, PTL

\* No answer of the coordinator is false about the drawing.
THEOREM AnswersAreTruthful == Spec => []TruthfulAnswers
<1>1. IInv => TruthfulAnswers
  BY DEF IInv
<1> QED
  BY <1>1, Invariant, PTL

\* Every change in the drawing has its attempt's entry on disk.
THEOREM ChangesAreJournaled == Spec => []EveryChangeIsJournaled
<1>1. IInv => EveryChangeIsJournaled
  BY DEF IInv
<1> QED
  BY <1>1, Invariant, PTL

\* Committed and unknown entries are final.
THEOREM ResolutionIsFinal == Spec => ResolvedForever
<1> DEFINE Kept == \A k \in Key :
              (journal[k] # NoRecord /\ journal[k].state # "prepared")
              => journal'[k] = journal[k]
<1>1. IInv /\ [Next]_vars => Kept
  <2> SUFFICES ASSUME IInv, [Next]_vars, NEW k \in Key,
                      journal[k] # NoRecord, journal[k].state # "prepared"
               PROVE  journal'[k] = journal[k]
    OBVIOUS
  <2> USE KeyOfType
  <2>1. ASSUME NEW K \in SUBSET Orphaned, journal' = RecoverAsUnknown(K)
        PROVE  journal'[k] = journal[k]
    BY <2>1 DEF Orphaned, RecoverAsUnknown
  <2>2. ASSUME NEW r \in Request, Owned(r) \/ Existing(r) = NoRecord,
               NEW rec, Put(r, rec)
        PROVE  journal'[k] = journal[k]
    BY <2>2 DEF Owned, Existing, Put, IInv, TypeOK
  <2>3. ASSUME NEW p \in Process, Start(p) PROVE journal'[k] = journal[k]
    BY <2>1, <2>3 DEF Start
  <2>4. ASSUME NEW r \in Request, BeginFails(r) PROVE journal'[k] = journal[k]
    <3>1. CASE KeyOf[r] \in Orphaned /\ journal' = RecoverAsUnknown({KeyOf[r]})
      BY <2>1, <3>1
    <3> QED
      BY <2>2, <2>4, <3>1 DEF BeginFails
  <2>5. ASSUME NEW r \in Request, BeginUnknown(r) PROVE journal'[k] = journal[k]
    <3>1. CASE KeyOf[r] \in Orphaned /\ journal' = RecoverAsUnknown({KeyOf[r]})
      BY <2>1, <3>1
    <3> QED
      BY <2>5, <3>1 DEF BeginUnknown
  <2>6. ASSUME NEW r \in Request, BeginExecute(r) PROVE journal'[k] = journal[k]
    BY <2>2, <2>6 DEF BeginExecute
  <2>7. ASSUME NEW r \in Request, SettleCommitted(r)
        PROVE  journal'[k] = journal[k]
    BY <2>2, <2>7 DEF SettleCommitted, MarkAs
  <2>8. ASSUME NEW r \in Request, SettleUnknown(r) PROVE journal'[k] = journal[k]
    BY <2>2, <2>8 DEF SettleUnknown, MarkAs
  <2>9. ASSUME NEW r \in Request, SettleRefused(r) PROVE journal'[k] = journal[k]
    BY <2>2, <2>9 DEF SettleRefused
  <2> QED
    BY <2>3, <2>4, <2>5, <2>6, <2>7, <2>8, <2>9
       DEF Next, vars, Crash, Receive, Withdraw, Reject, BeginKeyReused, BeginReplay,
           CommitDrawing, CallbackReturns
<1>2. Kept => [Kept]_vars
  OBVIOUS
<1> QED
  BY <1>1, Invariant, PTL DEF Spec, ResolvedForever

\* While its owner lives and its callback runs, nobody touches a reservation.
THEOREM LiveReservations == Spec => LiveReservationIsKept
<1> DEFINE Running(k) == /\ journal[k] # NoRecord
                         /\ journal[k].state = "prepared"
                         /\ up[journal[k].owner] = "up"
                         /\ stage[journal[k].rid] \in {"reserved", "committed"}
           Kept == \A k \in Key : Running(k) => journal'[k] = journal[k]
<1>1. IInv /\ [Next]_vars => Kept
  <2> SUFFICES ASSUME IInv, [Next]_vars, NEW k \in Key, Running(k)
               PROVE  journal'[k] = journal[k]
    OBVIOUS
  <2> USE KeyOfType
  <2>0. TypeOK /\ journal[k] \in Record
    BY DEF IInv, TypeOK
  <2>1. ASSUME NEW K \in SUBSET Orphaned, journal' = RecoverAsUnknown(K)
        PROVE  journal'[k] = journal[k]
    BY <2>0, <2>1, RecoverLemma
  <2>2. ASSUME NEW r \in Request, NEW rec, Put(r, rec),
               \/ Existing(r) = NoRecord
               \/ Owned(r) /\ stage[r] \notin {"reserved", "committed"}
        PROVE  journal'[k] = journal[k]
    BY <2>0, <2>2 DEF Owned, Existing, Put, TypeOK
  <2>3. ASSUME NEW p \in Process, Start(p) PROVE journal'[k] = journal[k]
    BY <2>1, <2>3 DEF Start
  <2>4. ASSUME NEW r \in Request, BeginFails(r) PROVE journal'[k] = journal[k]
    <3>1. CASE KeyOf[r] \in Orphaned /\ journal' = RecoverAsUnknown({KeyOf[r]})
      BY <2>1, <3>1
    <3> QED
      BY <2>2, <2>4, <3>1 DEF BeginFails
  <2>5. ASSUME NEW r \in Request, BeginUnknown(r) PROVE journal'[k] = journal[k]
    <3>1. CASE KeyOf[r] \in Orphaned /\ journal' = RecoverAsUnknown({KeyOf[r]})
      BY <2>1, <3>1
    <3> QED
      BY <2>5, <3>1 DEF BeginUnknown
  <2>6. ASSUME NEW r \in Request, BeginExecute(r) PROVE journal'[k] = journal[k]
    BY <2>2, <2>6 DEF BeginExecute
  <2>7. ASSUME NEW r \in Request, SettleCommitted(r)
        PROVE  journal'[k] = journal[k]
    BY <2>2, <2>7 DEF SettleCommitted, MarkAs
  <2>8. ASSUME NEW r \in Request, SettleUnknown(r) PROVE journal'[k] = journal[k]
    BY <2>2, <2>8 DEF SettleUnknown, MarkAs
  <2>9. ASSUME NEW r \in Request, SettleRefused(r) PROVE journal'[k] = journal[k]
    BY <2>2, <2>9 DEF SettleRefused
  <2> QED
    BY <2>3, <2>4, <2>5, <2>6, <2>7, <2>8, <2>9
       DEF Next, vars, Crash, Receive, Withdraw, Reject, BeginKeyReused, BeginReplay,
           CommitDrawing, CallbackReturns
<1> QED
  BY <1>1, Invariant, PTL DEF Spec, LiveReservationIsKept

-----------------------------------------------------------------------------
(* Refinement of OnceOnlyCommit.                                           *)

status == [k \in Key |-> StatusOf(journal[k])]
applied == {KeyOf[r] : r \in drawing}
confirmed == {KeyOf[r] : r \in {q \in Request : answer[q] = "ok"}}

\* How an entry reads as the status of its key.
LEMMA StatusLemma ==
    /\ StatusOf(NoRecord) = "free"
    /\ \A rec \in Record :
         /\ rec.state = "prepared" => StatusOf(rec) = "claimed"
         /\ rec.state = "committed" => StatusOf(rec) = "done"
         /\ rec.state = "unknown" => StatusOf(rec) = "doubtful"
BY NoRecordIsNoRecord DEF StatusOf, Record, RecordState

\* Recovering the orphans of dead owners casts doubt on their keys.
LEMMA RecoverDoubts ==
    ASSUME TypeOK, NEW K \in SUBSET Orphaned, journal' = RecoverAsUnknown(K),
           UNCHANGED <<drawing, confirmed>>
    PROVE  Abstract!Doubt(K)
<1>1. K \subseteq Key
  BY DEF Orphaned
<1>2. \A k \in K : status[k] = "claimed" /\ status'[k] = "doubtful"
  BY <1>1, RecoverLemma, StatusLemma DEF status, TypeOK
<1>3. \A k \in Key \ K : status'[k] = status[k]
  BY RecoverLemma DEF status
<1>4. status' = [k \in Key |-> IF k \in K THEN "doubtful" ELSE status[k]]
  BY <1>1, <1>2, <1>3 DEF status
<1>5. UNCHANGED <<applied, confirmed>>
  BY DEF applied
<1> QED
  BY <1>2, <1>4, <1>5 DEF Abstract!Doubt, status, applied, confirmed

\* The journal's initial state is the free one.
LEMMA RefinesInit == Init => Abstract!Init
BY StatusLemma DEF Init, Abstract!Init

\* Every step of the journal is a step of the once-only commit or leaves it
\* alone.
LEMMA RefinesNext == IInv /\ [Next]_vars => [Abstract!Next]_Abstract!vars
<1> SUFFICES ASSUME IInv, [Next]_vars
             PROVE  Abstract!Next \/ UNCHANGED <<status, applied, confirmed>>
  BY DEF Abstract!vars, status, applied, confirmed
<1> USE KeyOfType DEF IInv
<1>1. ASSUME NEW r \in Request, stage[r] # "done", NEW a \in Answer \ {"ok"},
             answer' = [answer EXCEPT ![r] = a]
      PROVE  UNCHANGED confirmed
  <2>1. \A q \in Request : answer'[q] = "ok" <=> answer[q] = "ok"
    BY <1>1 DEF TypeOK, AnswerEndsRequest
  <2> QED
    BY <2>1 DEF confirmed
<1>2. ASSUME NEW r \in Request, NEW rec \in Record \cup {NoRecord}, Put(r, rec)
      PROVE  status' = [status EXCEPT ![KeyOf[r]] = StatusOf(rec)]
  BY <1>2 DEF Put, status, TypeOK
<1>3. ASSUME NEW p \in Process, Start(p) PROVE Abstract!Next
  <2> PICK K \in SUBSET Orphaned : journal' = RecoverAsUnknown(K)
    BY <1>3 DEF Start
  <2>1. K \in SUBSET Key /\ UNCHANGED <<drawing, confirmed>>
    BY <1>3 DEF Start, confirmed, Orphaned
  <2> QED
    BY <2>1, RecoverDoubts DEF Abstract!Next
<1>4. ASSUME NEW p \in Process, Crash(p)
      PROVE  UNCHANGED <<status, applied, confirmed>>
  BY <1>4 DEF Crash, status, applied, confirmed
<1>5. ASSUME NEW r \in Request, Receive(r) \/ Withdraw(r) \/ CallbackReturns(r)
      PROVE  UNCHANGED <<status, applied, confirmed>>
  BY <1>5 DEF Receive, Withdraw, CallbackReturns, status, applied, confirmed
<1>6. ASSUME NEW r \in Request, Reject(r) \/ BeginKeyReused(r)
      PROVE  UNCHANGED <<status, applied, confirmed>>
  BY <1>1, <1>6 DEF Reject, BeginKeyReused, Enter, Return, Answer, status, applied
<1>7. ASSUME NEW r \in Request, Enter(r), Existing(r) = NoRecord, Put(r, Prepared(r)),
             UNCHANGED <<drawing, confirmed>>
      PROVE  Abstract!Claim(KeyOf[r])
  <2>1. status[KeyOf[r]] = "free" /\ StatusOf(Prepared(r)) = "claimed"
    BY <1>7, StatusLemma, PreparedLemma DEF Existing, status, Prepared
  <2>2. status' = [status EXCEPT ![KeyOf[r]] = "claimed"]
    BY <1>2, <1>7, <2>1, PreparedLemma
  <2> QED
    BY <1>7, <2>1, <2>2 DEF Abstract!Claim, status, applied, confirmed
<1>8. ASSUME NEW r \in Request, BeginFails(r) \/ BeginUnknown(r)
      PROVE  Abstract!Next \/ UNCHANGED <<status, applied, confirmed>>
  <2>1. UNCHANGED <<drawing, confirmed>>
    BY <1>1, <1>8 DEF BeginFails, BeginUnknown, Enter, Return, Answer
  <2>2. CASE UNCHANGED journal
    BY <2>1, <2>2 DEF status, applied
  <2>3. CASE Existing(r) = NoRecord /\ Put(r, Prepared(r))
    BY <1>7, <1>8, <2>1, <2>3 DEF Abstract!Next, BeginFails, BeginUnknown
  <2>4. CASE KeyOf[r] \in Orphaned /\ journal' = RecoverAsUnknown({KeyOf[r]})
    <3>1. {KeyOf[r]} \in SUBSET Orphaned /\ {KeyOf[r]} \in SUBSET Key
      BY <2>4
    <3> QED
      BY <2>1, <2>4, <3>1, RecoverDoubts DEF Abstract!Next
  <2> QED
    BY <1>8, <2>2, <2>3, <2>4 DEF BeginFails, BeginUnknown
<1>9. ASSUME NEW r \in Request, BeginReplay(r) PROVE Abstract!Confirm(KeyOf[r])
  <2>1. status[KeyOf[r]] = "done"
    BY <1>9, StatusLemma DEF BeginReplay, SameDigest, Existing, status, TypeOK
  <2>2. \A q \in Request : answer'[q] = "ok" <=> (answer[q] = "ok" \/ q = r)
    BY <1>9 DEF BeginReplay, Return, TypeOK
  <2>3. confirmed' = confirmed \cup {KeyOf[r]}
    BY <2>2 DEF confirmed
  <2> QED
    BY <1>9, <2>1, <2>3
       DEF Abstract!Confirm, BeginReplay, Return, status, applied, confirmed
<1>10. ASSUME NEW r \in Request, BeginExecute(r) PROVE Abstract!Claim(KeyOf[r])
  BY <1>7, <1>10 DEF BeginExecute, confirmed
<1>11. ASSUME NEW r \in Request, CommitDrawing(r) PROVE Abstract!Apply(KeyOf[r])
  <2>1. Owned(r) /\ r \notin drawing
    BY <1>11 DEF CommitDrawing, ExecutingHoldsReservation, ChangeFollowsStage, Executing
  <2>2. status[KeyOf[r]] = "claimed"
    BY <2>1, StatusLemma DEF Owned, Existing, status, TypeOK
  <2>3. KeyOf[r] \notin applied
    BY <2>1 DEF applied, EveryChangeIsJournaled, Owned, Existing, TypeOK
  <2>4. applied' = applied \cup {KeyOf[r]}
    BY <1>11 DEF CommitDrawing, applied
  <2> QED
    BY <1>11, <2>2, <2>3, <2>4
       DEF Abstract!Apply, CommitDrawing, status, applied, confirmed
<1>12. ASSUME NEW r \in Request, NEW st \in {"committed", "unknown"}, MarkAs(r, st)
       PROVE  /\ status[KeyOf[r]] = "claimed"
              /\ st = "committed" => status' = [status EXCEPT ![KeyOf[r]] = "done"]
              /\ st = "unknown" => status' = [status EXCEPT ![KeyOf[r]] = "doubtful"]
  <2>1. journal[KeyOf[r]] \in Record /\ journal[KeyOf[r]].state = "prepared"
    BY <1>12 DEF MarkAs, Owned, Existing, TypeOK
  <2> DEFINE rec == [journal[KeyOf[r]] EXCEPT !.state = st]
  <2>2. rec \in Record /\ rec.state = st
    BY <2>1 DEF Record, RecordState
  <2>3. status' = [status EXCEPT ![KeyOf[r]] = StatusOf(rec)]
    BY <1>2, <1>12, <2>2 DEF MarkAs, Existing
  <2> QED
    BY <2>1, <2>2, <2>3, StatusLemma DEF status
<1>13. ASSUME NEW r \in Request, SettleCommitted(r) PROVE Abstract!Settle(KeyOf[r])
  <2>1. KeyOf[r] \in applied
    BY <1>13 DEF SettleCommitted, ChangeFollowsStage, applied
  <2>2. \A q \in Request : answer'[q] = "ok" <=> (answer[q] = "ok" \/ q = r)
    BY <1>13 DEF SettleCommitted, Return, TypeOK
  <2>3. confirmed' = confirmed \cup {KeyOf[r]}
    BY <2>2 DEF confirmed
  <2>4. /\ status[KeyOf[r]] = "claimed"
        /\ status' = [status EXCEPT ![KeyOf[r]] = "done"]
    BY <1>12, <1>13 DEF SettleCommitted
  <2> QED
    BY <1>13, <2>1, <2>3, <2>4
       DEF Abstract!Settle, SettleCommitted, Return, status, applied, confirmed
<1>14. ASSUME NEW r \in Request, SettleUnknown(r)
       PROVE  Abstract!Next \/ UNCHANGED <<status, applied, confirmed>>
  <2>1. UNCHANGED <<drawing, applied, confirmed>>
    BY <1>1, <1>14 DEF SettleUnknown, Return, Answer, applied, MarkAs
  <2>2. CASE UNCHANGED journal
    BY <2>1, <2>2 DEF status
  <2>3. CASE stage[r] = "ok" /\ MarkAs(r, "committed")
    <3>1. KeyOf[r] \in applied
      BY <2>3 DEF ChangeFollowsStage, applied
    <3>2. Abstract!Settle(KeyOf[r])
      BY <1>12, <2>1, <2>3, <3>1 DEF Abstract!Settle, status, applied, confirmed
    <3> QED
      BY <3>2 DEF Abstract!Next
  <2>4. CASE MarkAs(r, "unknown")
    <3>1. Abstract!Doubt({KeyOf[r]})
      BY <1>12, <2>1, <2>4 DEF Abstract!Doubt, status, applied, confirmed
    <3> QED
      BY <3>1 DEF Abstract!Next
  <2> QED
    BY <1>14, <2>2, <2>3, <2>4 DEF SettleUnknown
<1>15. ASSUME NEW r \in Request, SettleRefused(r)
       PROVE  Abstract!Next \/ UNCHANGED <<status, applied, confirmed>>
  <2>1. UNCHANGED <<drawing, applied, confirmed>>
    BY <1>1, <1>15 DEF SettleRefused, Return, Answer, applied
  <2>2. CASE UNCHANGED journal
    BY <2>1, <2>2 DEF status
  <2>3. CASE Owned(r) /\ Put(r, NoRecord)
    <3>1. status[KeyOf[r]] = "claimed"
      BY <2>3, StatusLemma DEF Owned, Existing, status, TypeOK
    <3>2. KeyOf[r] \notin applied
      BY <1>15, <2>3 DEF SettleRefused, applied, EveryChangeIsJournaled, Owned,
         Existing, ChangeFollowsStage, TypeOK
    <3>3. status' = [status EXCEPT ![KeyOf[r]] = "free"]
      BY <1>2, <2>3, StatusLemma
    <3>4. Abstract!Release(KeyOf[r])
      BY <2>1, <3>1, <3>2, <3>3 DEF Abstract!Release, status, applied, confirmed
    <3> QED
      BY <3>4 DEF Abstract!Next
  <2> QED
    BY <1>15, <2>2, <2>3 DEF SettleRefused
<1>16. CASE UNCHANGED vars
  BY <1>16 DEF vars, status, applied, confirmed
<1> QED
  BY <1>3, <1>4, <1>5, <1>6, <1>8, <1>9, <1>10, <1>11, <1>13, <1>14, <1>15, <1>16
     DEF Next, Abstract!Next

\* The journal, with all its processes and crashes, is a once-only commit.
THEOREM ImplementsOnceOnly == Spec => OnceOnly
BY RefinesInit, RefinesNext, Invariant, PTL DEF Spec, OnceOnly, Abstract!Spec
=============================================================================
