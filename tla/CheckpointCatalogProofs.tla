------------------------ MODULE CheckpointCatalogProofs ------------------------
(***************************************************************************)
(* Proofs about CheckpointCatalog, for any number of processes,            *)
(* checkpoints, artifacts and contents.                                    *)
(***************************************************************************)
EXTENDS CheckpointCatalog, TLAPS

StateIn(P, c) == IF P[c] = NoRecord THEN "absent" ELSE P[c].state

Same(P, Q) == \A c \in Checkpoint : StateIn(Q, c) = StateIn(P, c)

\* One checkpoint moves, the others stay.
Moved(P, Q) ==
    \E c \in Checkpoint :
        /\ <<StateIn(P, c), StateIn(Q, c)>> \in Ledger!Moves
        /\ \A d \in Checkpoint \ {c} : StateIn(Q, d) = StateIn(P, d)

Withdrew(P, Q) ==
    \E W \in SUBSET Checkpoint :
        /\ \A c \in W : StateIn(P, c) \in Active
        /\ \A c \in Checkpoint :
             StateIn(Q, c) = IF c \in W THEN "quarantined" ELSE StateIn(P, c)

Unshared(P) ==
    \A c, d \in Checkpoint :
        (P[c] # NoRecord /\ P[d] # NoRecord /\ c # d) => P[c].file # P[d].file

Mutex == \A p, q \in Process : work[p] # NoWork /\ work[q] # NoWork => p = q

\* What p holds in memory agrees with the two files, step by step.
Fits(p) ==
    LET w == work[p] IN
    w # NoWork =>
        /\ w.step = "act" => Readable /\ w.payload = catalog
        /\ w.step = "catalog" =>
             \/ /\ Readable /\ Unshared(w.payload)
                /\ Moved(catalog, w.payload) \/ Withdrew(catalog, w.payload)
             \/ catalog = NoFile /\ watermark = NoFile /\ w.payload = EmptyCatalog
        /\ w.step \in {"watermark", "verify"} => catalog = w.payload
        /\ w.step = "verify" => Readable
        /\ w.last /\ w.call.op # "open" => w.payload[w.call.id] # NoRecord

IInv ==
    /\ TypeOK /\ Mutex
    /\ \A p \in Process : Fits(p)
    /\ ArtifactsAreUnshared
    /\ AnswersHold

-----------------------------------------------------------------------------
(* About payloads.                                                         *)

LEMMA EmptyIsPayload == EmptyCatalog \in Payload
BY DEF EmptyCatalog, Payload

LEMMA StateInType ==
    ASSUME NEW P \in Payload, NEW c \in Checkpoint
    PROVE  /\ StateIn(P, c) \in State \cup {"absent"}
           /\ StateIn(P, c) = "absent" <=> P[c] = NoRecord
BY NoValues DEF StateIn, Payload, Record, State

\* Every move is one a checkpoint's future allows.
LEMMA MovesRespectFuture ==
    ASSUME NEW m \in Ledger!Moves, NEW s \in State \cup {"none"}, m[1] \in Future(s)
    PROVE  m[2] \in Future(s)
BY DEF Ledger!Moves, Future, State, Active

LEMMA WithdrawalRespectsFuture ==
    ASSUME NEW s \in State \cup {"none"}, NEW t \in Active, t \in Future(s)
    PROVE  "quarantined" \in Future(s)
BY DEF Future, State, Active

LEMMA LegalChange ==
    ASSUME TypeOK, AnswersHold, NEW P \in Payload, catalog \in Payload,
           Moved(catalog, P) \/ Withdrew(catalog, P)
    PROVE  \A c \in Checkpoint : StateIn(P, c) \in Future(told[c])
<1>0. /\ \A c \in Checkpoint : StateIn(catalog, c) \in Future(told[c])
      /\ \A c \in Checkpoint : told[c] \in State \cup {"none"}
  BY NoValues DEF AnswersHold, StatusOf, StateIn, TypeOK
<1>1. CASE Moved(catalog, P)
  <2> PICK c \in Checkpoint :
        /\ <<StateIn(catalog, c), StateIn(P, c)>> \in Ledger!Moves
        /\ \A d \in Checkpoint \ {c} : StateIn(P, d) = StateIn(catalog, d)
    BY <1>1 DEF Moved
  <2>1. StateIn(P, c) \in Future(told[c])
    BY <1>0, MovesRespectFuture, <<StateIn(catalog, c), StateIn(P, c)>>[1] = StateIn(catalog, c),
       <<StateIn(catalog, c), StateIn(P, c)>>[2] = StateIn(P, c)
  <2> QED
    BY <1>0, <2>1
<1>2. CASE Withdrew(catalog, P)
  <2> PICK W \in SUBSET Checkpoint :
        /\ \A c \in W : StateIn(catalog, c) \in Active
        /\ \A c \in Checkpoint :
             StateIn(P, c) = IF c \in W THEN "quarantined" ELSE StateIn(catalog, c)
    BY <1>2 DEF Withdrew
  <2> QED
    BY <1>0, WithdrawalRespectsFuture
<1> QED
  BY <1>1, <1>2

\* One process in the mutex: its own state decides for all.
LEMMA Alone ==
    ASSUME NEW p \in Process,
           \A q \in Process \ {p} : work'[q] = NoWork, Fits(p)'
    PROVE  Mutex' /\ \A q \in Process : Fits(q)'
BY DEF Mutex, Fits

LEMMA OthersWait ==
    ASSUME IInv, NEW p \in Process, work[p] # NoWork
    PROVE  \A q \in Process \ {p} : work[q] = NoWork
BY DEF IInv, Mutex

\* Properties of the catalog when its file does not change.
LEMMA CatalogKept ==
    ASSUME IInv, UNCHANGED <<catalog, told>>
    PROVE  ArtifactsAreUnshared' /\ AnswersHold'
BY DEF IInv, ArtifactsAreUnshared, AnswersHold, StatusOf

-----------------------------------------------------------------------------
(* The invariant holds at first and is kept by every step.                 *)

LEMMA InitEstablishes == Init => IInv
<1> SUFFICES ASSUME Init PROVE IInv
  OBVIOUS
<1> USE DEF Init
<1>1. TypeOK
  BY DEF TypeOK
<1>2. Mutex /\ \A p \in Process : Fits(p)
  BY DEF Mutex, Fits
<1>3. \A c \in Checkpoint : StatusOf(c) = "absent" /\ told[c] = "none"
  BY DEF StatusOf
<1>4. ArtifactsAreUnshared
  BY <1>3 DEF ArtifactsAreUnshared
<1>5. "absent" \in Future("none")
  BY DEF Future, Active
<1>6. AnswersHold
  BY <1>3, <1>5 DEF AnswersHold
<1> QED
  BY <1>1, <1>2, <1>4, <1>6 DEF IInv

\* Artifacts may change under everyone: no other state speaks of them.
LEMMA FilesKeep ==
    ASSUME IInv, NEW f \in File, Stage(f) \/ Damage(f)
    PROVE  IInv'
<1> USE DEF IInv
<1>0. UNCHANGED <<up, catalog, watermark, work, told>>
  BY DEF Stage, Damage
<1>1. TypeOK'
  BY <1>0 DEF TypeOK, Stage, Damage
<1>2. Mutex' /\ \A p \in Process : Fits(p)'
  BY <1>0 DEF Mutex, Fits, Readable
<1> QED
  BY <1>0, <1>1, <1>2, CatalogKept

LEMMA CallType ==
    ASSUME NEW call \in Call
    PROVE  /\ call.op \in Operation /\ call.id \in Checkpoint
           /\ call.op = "register" => call.file \in File
BY DEF Call, Operation, Change

LEMMA WithdrawnIsLegal ==
    ASSUME IInv, Readable, NEW Q \in SUBSET MayBeWithdrawn
    PROVE  /\ Withdrawn(Q) \in Payload
           /\ Unshared(Withdrawn(Q)) /\ Withdrew(catalog, Withdrawn(Q))
<1> DEFINE P == Withdrawn(Q)
<1>0. catalog \in Payload
  BY DEF IInv, TypeOK, Readable
<1>1. \A c \in Q : catalog[c] \in Record /\ catalog[c].state \in Active
  BY <1>0 DEF MayBeWithdrawn, InState, Payload
<1>2. \A c \in Q : [catalog[c] EXCEPT !.state = "quarantined"]
                       = [state |-> "quarantined", file |-> catalog[c].file, sha |-> catalog[c].sha]
  BY <1>1 DEF Record
<1>3. \A c \in Q : P[c] \in Record /\ P[c].state = "quarantined" /\ P[c].file = catalog[c].file
  BY <1>1, <1>2 DEF Withdrawn, MayBeWithdrawn, Record, State
<1>4. \A c \in Checkpoint \ Q : P[c] = catalog[c]
  BY DEF Withdrawn
<1>5. P \in Payload
  BY <1>0, <1>3, <1>4 DEF Payload, Withdrawn
<1>6. Unshared(P)
  <2> SUFFICES ASSUME NEW c \in Checkpoint, NEW d \in Checkpoint,
                      P[c] # NoRecord, P[d] # NoRecord, c # d
               PROVE  P[c].file # P[d].file
    BY DEF Unshared
  <2>1. catalog[c] # NoRecord /\ P[c].file = catalog[c].file
    BY <1>1, <1>3, <1>4, NoValues
  <2>2. catalog[d] # NoRecord /\ P[d].file = catalog[d].file
    BY <1>1, <1>3, <1>4, NoValues
  <2>3. StatusOf(c) # "absent" /\ StatusOf(d) # "absent"
    BY <1>0, <2>1, <2>2, NoValues DEF StatusOf, Payload, Record, State
  <2> QED
    BY <2>1, <2>2, <2>3 DEF IInv, ArtifactsAreUnshared
<1>7. Withdrew(catalog, P)
  <2>1. \A c \in Q : StateIn(catalog, c) \in Active /\ StateIn(P, c) = "quarantined"
    BY <1>1, <1>3, NoValues DEF StateIn
  <2>2. \A c \in Checkpoint \ Q : StateIn(P, c) = StateIn(catalog, c)
    BY <1>4 DEF StateIn
  <2>3. Q \in SUBSET Checkpoint
    BY DEF MayBeWithdrawn
  <2> QED
    BY <2>1, <2>2, <2>3 DEF Withdrew
<1> QED
  BY <1>5, <1>6, <1>7

LEMMA LoadKeeps ==
    ASSUME IInv, NEW p \in Process, NEW call \in Call, Load(p, call)
    PROVE  IInv'
<1> USE DEF IInv
<1> PICK Q \in SUBSET MayBeWithdrawn :
         IF Q = {} THEN Begin(p, call, "act", catalog, FALSE)
                   ELSE Begin(p, call, "catalog", Withdrawn(Q), FALSE)
  BY DEF Load
<1>0. /\ UNCHANGED <<up, artifact, catalog, watermark, told>>
      /\ Readable /\ catalog \in Payload
      /\ \A q \in Process : work[q] = NoWork
  BY DEF Load, MayEnter, LockFree, Readable, TypeOK
<1>1. /\ work' = [work EXCEPT ![p] = work'[p]]
      /\ work'[p] \in Work /\ work'[p].last = FALSE
      /\ \/ work'[p].step = "act" /\ work'[p].payload = catalog
         \/ work'[p].step = "catalog" /\ work'[p].payload = Withdrawn(Q)
  <2> DEFINE step == IF Q = {} THEN "act" ELSE "catalog"
             P == IF Q = {} THEN catalog ELSE Withdrawn(Q)
             w == [call |-> call, step |-> step, payload |-> P, last |-> FALSE]
  <2>1. work' = [work EXCEPT ![p] = w]
    BY DEF Begin
  <2>2. P \in Payload
    BY <1>0, WithdrawnIsLegal
  <2>3. w \in Work
    BY <2>2 DEF Work
  <2>4. work'[p] = w
    BY <2>1 DEF TypeOK
  <2>5. /\ w.last = FALSE
        /\ \/ w.step = "act" /\ w.payload = catalog
           \/ w.step = "catalog" /\ w.payload = Withdrawn(Q)
    OBVIOUS
  <2> HIDE DEF w
  <2> QED
    BY <2>1, <2>3, <2>4, <2>5
<1>2. TypeOK'
  BY <1>0, <1>1 DEF TypeOK
<1>3. Fits(p)'
  BY <1>0, <1>1, WithdrawnIsLegal DEF Fits, Readable
<1>4. \A q \in Process \ {p} : work'[q] = NoWork
  BY <1>0, <1>1 DEF TypeOK
<1> QED
  BY <1>0, <1>2, <1>3, <1>4, Alone, CatalogKept

LEMMA CreateKeeps ==
    ASSUME IInv, NEW p \in Process, NEW call \in Call, Create(p, call)
    PROVE  IInv'
<1> USE DEF IInv
<1>0. /\ UNCHANGED <<up, artifact, catalog, watermark, told>>
      /\ catalog = NoFile /\ watermark = NoFile /\ call.op = "open"
      /\ \A q \in Process : work[q] = NoWork
      /\ work' = [work EXCEPT ![p] = [call |-> call, step |-> "catalog",
                                      payload |-> EmptyCatalog, last |-> TRUE]]
  BY DEF Create, MayEnter, LockFree, Begin
<1>1. TypeOK'
  BY <1>0, EmptyIsPayload DEF TypeOK, Work
<1>2. Fits(p)' /\ \A q \in Process \ {p} : work'[q] = NoWork
  BY <1>0 DEF Fits, TypeOK
<1> QED
  BY <1>0, <1>1, <1>2, Alone, CatalogKept

\* A call that ends without a write.
LEMMA LeavingKeeps ==
    ASSUME IInv, NEW p \in Process, up' \in [Process -> {"new", "up", "down"}],
           work' = [work EXCEPT ![p] = NoWork],
           UNCHANGED <<artifact, catalog, watermark, told>>
    PROVE  IInv'
<1> USE DEF IInv
<1>1. TypeOK'
  BY DEF TypeOK
<1>2. \A q \in Process : work'[q] = work[q] \/ work'[q] = NoWork
  BY DEF TypeOK
<1>3. Mutex' /\ \A q \in Process : Fits(q)'
  BY <1>2 DEF Mutex, Fits, Readable
<1> QED
  BY <1>1, <1>3, CatalogKept

LEMMA GoneType ==
    ASSUME TypeOK, NEW p \in Process, NEW call
    PROVE  Gone(p, call) \in [Process -> {"new", "up", "down"}]
BY DEF TypeOK, Gone

LEMMA RefusalKeeps ==
    ASSUME IInv, NEW p \in Process, NEW call \in Call, LoadRefused(p, call)
    PROVE  IInv'
<1> USE DEF IInv
<1>0. up' = Gone(p, call) /\ UNCHANGED <<artifact, catalog, watermark, work, told>>
  BY DEF LoadRefused
<1>1. TypeOK'
  BY <1>0, GoneType DEF TypeOK
<1>2. Mutex' /\ \A q \in Process : Fits(q)'
  BY <1>0 DEF Mutex, Fits, Readable
<1> QED
  BY <1>0, <1>1, <1>2, CatalogKept

LEMMA ThrowKeeps ==
    ASSUME IInv, NEW p \in Process, Throw(p),
           UNCHANGED <<artifact, catalog, watermark, told>>
    PROVE  IInv'
BY LeavingKeeps, GoneType DEF Throw, IInv

LEMMA CrashKeeps ==
    ASSUME IInv, NEW p \in Process, Crash(p)
    PROVE  IInv'
BY LeavingKeeps DEF Crash, IInv, TypeOK

\* What is answered is what the catalog file says.
LEMMA AnswerKeeps ==
    ASSUME IInv, NEW p \in Process, work[p] # NoWork, Answer(p),
           Readable, work[p].payload = catalog,
           work[p].call.op = "open" \/ catalog[work[p].call.id] # NoRecord,
           UNCHANGED <<artifact, catalog, watermark>>
    PROVE  IInv'
<1> DEFINE w == work[p]
           id == work[p].call.id
<1> USE DEF IInv
<1>0. /\ w \in Work /\ id \in Checkpoint /\ catalog \in Payload /\ catalog # NoFile
      /\ work' = [work EXCEPT ![p] = NoWork]
      /\ up' \in [Process -> {"new", "up", "down"}]
  BY CallType, NoValues DEF TypeOK, Work, Answer, Readable
<1>1. \/ told' = told
      \/ /\ catalog[id] # NoRecord
         /\ told' = [told EXCEPT ![id] = catalog[id].state]
  BY DEF Answer
<1>2. told' \in [Checkpoint -> State \cup {"none"}]
  BY <1>0, <1>1 DEF TypeOK, Payload, Record
<1>3. TypeOK'
  BY <1>0, <1>2 DEF TypeOK
<1>4. \A q \in Process : work'[q] = work[q] \/ work'[q] = NoWork
  BY <1>0 DEF TypeOK
<1>5. Mutex' /\ \A q \in Process : Fits(q)'
  BY <1>4 DEF Mutex, Fits, Readable
<1>6. ArtifactsAreUnshared'
  BY DEF ArtifactsAreUnshared, StatusOf
<1>7. AnswersHold'
  <2>1. CASE told' = told
    BY <2>1 DEF AnswersHold, StatusOf
  <2>2. CASE catalog[id] # NoRecord /\ told' = [told EXCEPT ![id] = catalog[id].state]
    <3>1. StatusOf(id) = catalog[id].state /\ catalog[id].state \in State
      BY <1>0, <2>2 DEF StatusOf, Payload, Record
    <3>2. StatusOf(id) \in Future(told'[id])
      BY <1>0, <2>2, <3>1 DEF TypeOK, Future, State, Active
    <3>3. \A c \in Checkpoint \ {id} : StatusOf(c) \in Future(told'[c])
      BY <1>0, <2>2 DEF AnswersHold, TypeOK
    <3>4. \A c \in Checkpoint : StatusOf(c)' = StatusOf(c)
      BY DEF StatusOf
    <3> QED
      BY <3>2, <3>3, <3>4 DEF AnswersHold
  <2> QED
    BY <1>1, <2>1, <2>2
<1> QED
  BY <1>3, <1>5, <1>6, <1>7

\* The process goes on in the mutex; no file is touched.
LEMMA GoingOnKeeps ==
    ASSUME IInv, NEW p \in Process, work[p] # NoWork, NEW w \in Work,
           work' = [work EXCEPT ![p] = w], Fits(p)',
           UNCHANGED <<up, artifact, catalog, watermark, told>>
    PROVE  IInv'
<1> USE DEF IInv
<1>1. TypeOK'
  BY DEF TypeOK
<1>2. \A q \in Process \ {p} : work'[q] = NoWork
  BY OthersWait DEF TypeOK
<1> QED
  BY <1>1, <1>2, Alone, CatalogKept

LEMMA WriteKeeps ==
    ASSUME IInv, NEW p \in Process, work[p] # NoWork, work[p].step = "act",
           NEW P \in Payload, Write(p, P), Unshared(P), Moved(catalog, P),
           P[work[p].call.id] # NoRecord,
           UNCHANGED <<up, artifact, catalog, watermark, told>>
    PROVE  IInv'
<1> DEFINE w == [work[p] EXCEPT !.step = "catalog", !.payload = P, !.last = TRUE]
<1>0. work[p] \in Work /\ work \in [Process -> Work \cup {NoWork}]
  BY DEF IInv, TypeOK
<1>1. w \in Work
  BY <1>0 DEF Work
<1>2. work' = [work EXCEPT ![p] = w]
  BY <1>0 DEF Write, Work
<1>3. work'[p] = w
  BY <1>0, <1>2
<1>4. /\ w.step = "catalog" /\ w.payload = P /\ w.last = TRUE
      /\ w.call = work[p].call
  BY <1>0 DEF Work
<1>5. Readable
  BY DEF IInv, Fits
<1>6. Fits(p)'
  <2> HIDE DEF w
  <2> QED
    BY <1>3, <1>4, <1>5 DEF Fits, Readable
<1> QED
  BY <1>1, <1>2, <1>6, GoingOnKeeps

LEMMA RegisterKeeps ==
    ASSUME IInv, NEW p \in Process, Register(p)
    PROVE  IInv'
<1> DEFINE w == work[p]
           id == w.call.id
           new == [state |-> "available", file |-> w.call.file, sha |-> artifact[w.call.file]]
           P == [w.payload EXCEPT ![id] = new]
<1>0. /\ w # NoWork /\ w.step = "act" /\ w.call.op = "register"
      /\ UNCHANGED <<artifact, catalog, watermark, told>>
  BY DEF Register
<1>1. CASE Unregistered(p) /\ artifact[w.call.file] \in Content
  <2>1. Write(p, P) /\ UNCHANGED up
    BY <1>1 DEF Register
  <2>2. /\ id \in Checkpoint /\ w.call.file \in File
        /\ w.payload = catalog /\ catalog \in Payload /\ Readable
    BY <1>0, CallType DEF IInv, TypeOK, Work, Fits
  <2>3. new \in Record
    BY <1>1, <2>2 DEF Record, State
  <2>4. P \in Payload /\ P[id] = new /\ \A c \in Checkpoint \ {id} : P[c] = catalog[c]
    BY <2>2, <2>3 DEF Payload
  <2>5. \A c \in Checkpoint \ {id} : P[c] # NoRecord => P[c].file # new.file
    BY <1>1, <2>2, <2>4 DEF Unregistered
  <2>6. Unshared(P)
    <3>1. Unshared(catalog)
      BY <2>2, NoValues DEF IInv, ArtifactsAreUnshared, Unshared, StatusOf, Payload, Record, State,
         Readable
    <3> QED
      BY <2>4, <2>5, <3>1 DEF Unshared
  <2>7. Moved(catalog, P)
    <3>1. catalog[id] = NoRecord
      BY <1>1, <2>2 DEF Unregistered
    <3>2. StateIn(catalog, id) = "absent" /\ StateIn(P, id) = "available"
      BY <2>3, <2>4, <3>1, NoValues DEF StateIn
    <3>3. <<"absent", "available">> \in Ledger!Moves
      BY DEF Ledger!Moves
    <3>4. \A c \in Checkpoint \ {id} : StateIn(P, c) = StateIn(catalog, c)
      BY <2>4 DEF StateIn
    <3> QED
      BY <2>2, <3>2, <3>3, <3>4 DEF Moved
  <2>8. P[id] # NoRecord
    BY <2>3, <2>4, NoValues
  <2> HIDE DEF P
  <2> QED
    BY <1>0, <2>1, <2>4, <2>6, <2>7, <2>8, WriteKeeps
<1>2. CASE ~(Unregistered(p) /\ artifact[w.call.file] \in Content)
  BY <1>0, <1>2, ThrowKeeps DEF Register
<1> QED
  BY <1>1, <1>2

LEMMA GetKeeps ==
    ASSUME IInv, NEW p \in Process, Get(p)
    PROVE  IInv'
<1> DEFINE w == work[p]
<1>0. /\ w # NoWork /\ w.step = "act" /\ w.call.op \in {"get", "open"}
      /\ UNCHANGED <<artifact, catalog, watermark>>
  BY DEF Get
<1>1. w.payload = catalog /\ Readable
  BY <1>0 DEF IInv, Fits
<1>2. CASE w.call.op = "get" /\ w.payload[w.call.id] = NoRecord
  BY <1>0, <1>2, ThrowKeeps DEF Get
<1>3. CASE ~(w.call.op = "get" /\ w.payload[w.call.id] = NoRecord)
  BY <1>0, <1>1, <1>3, AnswerKeeps DEF Get
<1> QED
  BY <1>2, <1>3

\* A change of state is one of the ledger's moves.
LEMMA ChangesAreMoves ==
    ASSUME NEW op \in Change, NEW s \in Required[op]
    PROVE  <<s, Result[op]>> \in Ledger!Moves
<1> USE DEF Required, Result, Ledger!Moves, Active
<1>1. CASE op = "begin"
  BY <1>1
<1>2. CASE op = "complete"
  BY <1>2
<1>3. CASE op = "cancel"
  BY <1>3
<1>4. CASE op = "expire"
  BY <1>4
<1>5. CASE op = "quarantine"
  BY <1>5
<1> QED
  BY <1>1, <1>2, <1>3, <1>4, <1>5 DEF Change

LEMMA ResultType == \A op \in Change : Result[op] \in State
BY DEF Result, Change, State

LEMMA ChangeKeeps ==
    ASSUME IInv, NEW p \in Process, ChangeState(p)
    PROVE  IInv'
<1> DEFINE w == work[p]
           op == w.call.op
           id == w.call.id
           record == w.payload[id]
           new == [record EXCEPT !.state = Result[op]]
           P == [w.payload EXCEPT ![id].state = Result[op]]
<1>0. /\ w # NoWork /\ w.step = "act" /\ op \in Change
      /\ UNCHANGED <<artifact, catalog, watermark>>
  BY DEF ChangeState
<1>1. /\ id \in Checkpoint /\ w.payload = catalog /\ catalog \in Payload /\ Readable
  BY <1>0, CallType DEF IInv, TypeOK, Work, Fits
<1>2. CASE record # NoRecord /\ record.state = Result[op]
  BY <1>0, <1>1, <1>2, AnswerKeeps DEF ChangeState
<1>3. CASE ~(record # NoRecord /\ record.state = Result[op])
  <2>1. CASE record # NoRecord /\ record.state \in From(op)
    <3>1. Write(p, P) /\ UNCHANGED <<up, told>>
      BY <1>3, <2>1 DEF ChangeState
    <3>2. record \in Record
      BY <1>1, <2>1 DEF Payload
    <3>3. /\ new \in Record /\ new.state = Result[op] /\ new.file = record.file
      BY <1>0, <3>2, ResultType DEF Record
    <3>4. P = [w.payload EXCEPT ![id] = new]
      OBVIOUS
    <3>5. P \in Payload /\ P[id] = new /\ \A c \in Checkpoint \ {id} : P[c] = catalog[c]
      BY <1>1, <3>3, <3>4 DEF Payload
    <3>6. Unshared(P)
      <4>1. Unshared(catalog)
        BY <1>1, NoValues DEF IInv, ArtifactsAreUnshared, Unshared, StatusOf, Payload, Record,
           State, Readable
      <4> QED
        BY <1>1, <2>1, <3>3, <3>5, <4>1 DEF Unshared
    <3>7. Moved(catalog, P)
      <4>1. StateIn(catalog, id) = record.state /\ StateIn(P, id) = Result[op]
        BY <1>1, <2>1, <3>3, <3>5, NoValues DEF StateIn
      <4>2. <<record.state, Result[op]>> \in Ledger!Moves
        BY <1>0, <2>1, ChangesAreMoves DEF From
      <4>3. \A c \in Checkpoint \ {id} : StateIn(P, c) = StateIn(catalog, c)
        BY <3>5 DEF StateIn
      <4> QED
        BY <1>1, <4>1, <4>2, <4>3 DEF Moved
    <3>8. P[id] # NoRecord
      BY <3>3, <3>5, NoValues
    <3> HIDE DEF P
    <3> QED
      BY <1>0, <3>1, <3>5, <3>6, <3>7, <3>8, WriteKeeps
  <2>2. CASE ~(record # NoRecord /\ record.state \in From(op))
    BY <1>0, <1>3, <2>2, ThrowKeeps DEF ChangeState
  <2> QED
    BY <2>1, <2>2
<1> QED
  BY <1>2, <1>3

\* After its replacement the catalog file has what the process wants.
LEMMA NewCatalog ==
    ASSUME IInv, NEW p \in Process, At(p, "catalog"),
           catalog' = work[p].payload, UNCHANGED told
    PROVE  /\ catalog' \in Payload
           /\ ArtifactsAreUnshared' /\ AnswersHold'
<1> DEFINE P == work[p].payload
<1>1. P \in Payload /\ P # NoFile
  BY NoValues DEF IInv, TypeOK, Work, At
<1>2. CASE /\ Readable /\ Unshared(P)
           /\ Moved(catalog, P) \/ Withdrew(catalog, P)
  <2>1. catalog \in Payload
    BY <1>2 DEF IInv, TypeOK, Readable
  <2>2. \A c \in Checkpoint : StateIn(P, c) \in Future(told[c])
    BY <1>1, <1>2, <2>1, LegalChange DEF IInv
  <2>3. ArtifactsAreUnshared'
    BY <1>1, <1>2 DEF ArtifactsAreUnshared, StatusOf, Unshared
  <2>4. AnswersHold'
    BY <1>1, <2>2 DEF AnswersHold, StatusOf, StateIn
  <2> QED
    BY <1>1, <2>3, <2>4
<1>3. CASE catalog = NoFile /\ P = EmptyCatalog
  <2>1. \A c \in Checkpoint : StatusOf(c)' = "absent" /\ StatusOf(c) = "absent"
    BY <1>1, <1>3 DEF StatusOf, EmptyCatalog
  <2> QED
    BY <1>1, <2>1 DEF IInv, ArtifactsAreUnshared, AnswersHold
<1> QED
  BY <1>2, <1>3 DEF IInv, Fits, At

\* The three steps of PersistUnderLock, and the way out of each.
LEMMA ProceedType ==
    ASSUME IInv, NEW p \in Process, work[p] # NoWork,
           NEW step \in {"act", "catalog", "watermark", "verify"}, Proceed(p, step)
    PROVE  /\ work' \in [Process -> Work \cup {NoWork}]
           /\ work'[p] = [work[p] EXCEPT !.step = step]
           /\ work'[p] \in Work /\ work'[p].step = step
           /\ work'[p].payload = work[p].payload /\ work'[p].call = work[p].call
           /\ work'[p].last = work[p].last
           /\ \A q \in Process \ {p} : work'[q] = NoWork
<1> DEFINE w == [work[p] EXCEPT !.step = step]
<1>1. work[p] \in Work /\ work \in [Process -> Work \cup {NoWork}]
  BY DEF IInv, TypeOK
<1>2. work' = [work EXCEPT ![p] = w]
  BY DEF Proceed
<1>3. /\ w \in Work /\ w.step = step /\ w.payload = work[p].payload
      /\ w.call = work[p].call /\ w.last = work[p].last
  BY <1>1 DEF Work
<1> HIDE DEF w
<1>4. work'[p] = w /\ \A q \in Process \ {p} : work'[q] = NoWork
  BY <1>1, <1>2, OthersWait
<1>5. work' \in [Process -> Work \cup {NoWork}]
  BY <1>1, <1>2, <1>3
<1> QED
  BY <1>3, <1>4, <1>5 DEF w

LEMMA LeaveType ==
    ASSUME IInv, NEW p \in Process, work[p] # NoWork, Throw(p)
    PROVE  /\ work' \in [Process -> Work \cup {NoWork}]
           /\ up' \in [Process -> {"new", "up", "down"}]
           /\ \A q \in Process : work'[q] = NoWork
<1>1. work' = [work EXCEPT ![p] = NoWork] /\ work \in [Process -> Work \cup {NoWork}]
  BY DEF Throw, IInv, TypeOK
<1> QED
  BY <1>1, OthersWait, GoneType DEF Throw, IInv

LEMMA WriteCatalogKeeps ==
    ASSUME IInv, NEW p \in Process, WriteCatalog(p)
    PROVE  IInv'
<1>0. At(p, "catalog") /\ work[p] # NoWork /\ UNCHANGED <<artifact, watermark, told>>
  BY DEF WriteCatalog, At
<1>1. CASE Throw(p) /\ UNCHANGED catalog
  BY <1>0, <1>1, ThrowKeeps
<1>2. CASE catalog' = work[p].payload /\ Proceed(p, "watermark")
  <2>1. UNCHANGED up
    BY <1>2 DEF Proceed
  <2>2. TypeOK'
    BY <1>0, <1>2, <2>1, NewCatalog, ProceedType DEF IInv, TypeOK
  <2>3. Fits(p)'
    BY <1>0, <1>2, ProceedType DEF Fits, IInv
  <2> QED
    BY <1>0, <1>2, <2>2, <2>3, NewCatalog, ProceedType, Alone DEF IInv
<1>3. CASE catalog' = work[p].payload /\ Throw(p)
  <2>1. TypeOK'
    BY <1>0, <1>3, NewCatalog, LeaveType DEF IInv, TypeOK
  <2>2. Mutex' /\ \A q \in Process : Fits(q)'
    BY <1>0, <1>3, LeaveType DEF Mutex, Fits
  <2> QED
    BY <1>0, <1>3, <2>1, <2>2, NewCatalog DEF IInv
<1> QED
  BY <1>1, <1>2, <1>3 DEF WriteCatalog

LEMMA WriteWatermarkKeeps ==
    ASSUME IInv, NEW p \in Process, WriteWatermark(p)
    PROVE  IInv'
<1>0. At(p, "watermark") /\ work[p] # NoWork /\ UNCHANGED <<artifact, catalog, told>>
  BY DEF WriteWatermark, At
<1>1. CASE Throw(p) /\ UNCHANGED watermark
  BY <1>0, <1>1, ThrowKeeps
<1>2. /\ work[p].payload \in Payload /\ work[p].payload = catalog /\ catalog # NoFile
  BY <1>0, NoValues DEF IInv, TypeOK, Work, Fits, At
<1>3. CASE watermark' = work[p].payload /\ Proceed(p, "verify")
  <2>1. TypeOK'
    BY <1>0, <1>2, <1>3, ProceedType DEF IInv, TypeOK, Proceed
  <2>2. Fits(p)'
    BY <1>0, <1>2, <1>3, ProceedType DEF Fits, IInv, Readable
  <2> QED
    BY <1>0, <1>3, <2>1, <2>2, CatalogKept, ProceedType, Alone DEF IInv
<1>4. CASE watermark' = work[p].payload /\ Throw(p)
  <2>1. TypeOK'
    BY <1>0, <1>2, <1>4, LeaveType DEF IInv, TypeOK
  <2>2. Mutex' /\ \A q \in Process : Fits(q)'
    BY <1>0, <1>4, LeaveType DEF Mutex, Fits
  <2> QED
    BY <1>0, <2>1, <2>2, CatalogKept DEF IInv
<1> QED
  BY <1>1, <1>3, <1>4 DEF WriteWatermark

LEMMA VerifyKeeps ==
    ASSUME IInv, NEW p \in Process, Verify(p)
    PROVE  IInv'
<1>0. /\ At(p, "verify") /\ work[p] # NoWork /\ UNCHANGED <<artifact, catalog, watermark>>
      /\ Readable /\ work[p].payload = catalog
  BY DEF Verify, At, IInv, Fits
<1>1. CASE work[p].last /\ Answer(p)
  BY <1>0, <1>1, AnswerKeeps DEF IInv, Fits
<1>2. CASE ~work[p].last /\ Proceed(p, "act") /\ UNCHANGED told
  <2>1. TypeOK'
    BY <1>0, <1>2, ProceedType DEF IInv, TypeOK, Proceed
  <2>2. Fits(p)'
    BY <1>0, <1>2, ProceedType DEF Fits, Readable
  <2> QED
    BY <1>0, <1>2, <2>1, <2>2, CatalogKept, ProceedType, Alone DEF IInv
<1>3. CASE Throw(p) /\ UNCHANGED told
  BY <1>0, <1>3, ThrowKeeps
<1> QED
  BY <1>1, <1>2, <1>3 DEF Verify

LEMMA NextKeeps ==
    ASSUME IInv, [Next]_vars
    PROVE  IInv'
<1>1. CASE Next
  BY <1>1, FilesKeep, LoadKeeps, CreateKeeps, RefusalKeeps, RegisterKeeps, GetKeeps,
     ChangeKeeps, WriteCatalogKeeps, WriteWatermarkKeeps, VerifyKeeps, CrashKeeps DEF Next
<1>2. CASE UNCHANGED vars
  <2>1. TypeOK'
    BY <1>2 DEF IInv, TypeOK, vars
  <2>2. Mutex' /\ \A q \in Process : Fits(q)'
    BY <1>2 DEF IInv, Mutex, Fits, Readable, vars
  <2> QED
    BY <1>2, <2>1, <2>2, CatalogKept DEF IInv, vars
<1> QED
  BY <1>1, <1>2

\* The inductive invariant: the mutex admits one process, and what it holds
\* in memory agrees with the two files at every step of WithFreshCatalog and
\* PersistUnderLock.
THEOREM CatalogInvariant == Spec => []IInv
<1>1. Init => IInv
  BY InitEstablishes
<1>2. IInv /\ [Next]_vars => IInv'
  BY NextKeeps
<1> QED
  BY <1>1, <1>2, PTL DEF Spec

\* Every reachable state of the catalog, its watermark and the calls on them
\* is well typed (DurableCheckpointCatalog).
THEOREM CatalogTypeCorrect == Spec => []TypeOK
<1>1. IInv => TypeOK
  BY DEF IInv
<1> QED
  BY <1>1, CatalogInvariant, PTL

\* What a call returned is never taken back, for any number of processes,
\* failing writes and crashes (WithFreshCatalog, PersistUnderLock).
THEOREM AnswersStand == Spec => []AnswersHold
<1>1. IInv => AnswersHold
  BY DEF IInv
<1> QED
  BY <1>1, CatalogInvariant, PTL

\* No two registered checkpoints ever share an artifact (RegisterCheckpoint).
THEOREM NoSharedArtifacts == Spec => []ArtifactsAreUnshared
<1>1. IInv => ArtifactsAreUnshared
  BY DEF IInv
<1> QED
  BY <1>1, CatalogInvariant, PTL

-----------------------------------------------------------------------------
(* The two files implement the ledger.                                     *)

UsableBar == catalog = watermark \/ \E p \in Process : At(p, "watermark")
StatusBar == [c \in Checkpoint |-> StatusOf(c)]

LEMMA WorkingIsUsable ==
    ASSUME IInv, NEW p \in Process, work[p] # NoWork
    PROVE  UsableBar
BY DEF IInv, TypeOK, Work, Fits, Readable, UsableBar, At

\* A step that leaves the catalog file alone changes no status; it can make
\* the ledger unusable, and never usable again.
LEMMA StandsStill ==
    ASSUME UNCHANGED catalog, UsableBar \/ UNCHANGED <<watermark, work>>
    PROVE  [Ledger!Next]_(Ledger!ledger)
<1>1. StatusBar' = StatusBar
  BY DEF StatusBar, StatusOf
<1>2. CASE UsableBar
  <2>1. UsableBar' \in BOOLEAN
    BY DEF UsableBar
  <2>2. Ledger!Withdraw({})
    BY <1>1 DEF Ledger!Withdraw, StatusBar
  <2> QED
    BY <1>2, <2>1, <2>2 DEF Ledger!Next, UsableBar
<1>3. CASE UNCHANGED <<watermark, work>>
  <2>1. UsableBar' = UsableBar
    BY <1>3 DEF UsableBar, At
  <2> QED
    BY <1>1, <2>1 DEF Ledger!ledger, UsableBar, StatusBar
<1> QED
  BY <1>2, <1>3

LEMMA ReplacingMoves ==
    ASSUME IInv, NEW p \in Process, At(p, "catalog"), catalog' = work[p].payload
    PROVE  Ledger!Next
<1> DEFINE P == work[p].payload
<1>0. /\ P \in Payload /\ P # NoFile /\ UsableBar /\ UsableBar' \in BOOLEAN
  BY WorkingIsUsable, NoValues DEF IInv, TypeOK, Work, At, UsableBar
<1>1. \A c \in Checkpoint : StatusBar'[c] = StateIn(P, c)
  BY <1>0 DEF StatusBar, StatusOf, StateIn
<1>2. CASE Readable /\ Moved(catalog, P)
  <2>1. \A c \in Checkpoint : StatusBar[c] = StateIn(catalog, c)
    BY <1>2 DEF StatusBar, StatusOf, StateIn, Readable
  <2> PICK c \in Checkpoint :
        /\ <<StateIn(catalog, c), StateIn(P, c)>> \in Ledger!Moves
        /\ \A d \in Checkpoint \ {c} : StateIn(P, d) = StateIn(catalog, d)
    BY <1>2 DEF Moved
  <2> DEFINE from == StateIn(catalog, c)
             to == StateIn(P, c)
  <2>2. StatusBar' = [StatusBar EXCEPT ![c] = to]
    BY <1>1, <2>1 DEF StatusBar
  <2>3. Ledger!Move(c, from, to)
    BY <2>1, <2>2 DEF Ledger!Move, StatusBar
  <2>4. <<from, to>>[1] = from /\ <<from, to>>[2] = to
    OBVIOUS
  <2>5. \E m \in Ledger!Moves : Ledger!Move(c, m[1], m[2])
    <3> WITNESS <<from, to>> \in Ledger!Moves
    <3> QED
      BY <2>3, <2>4
  <2> QED
    BY <1>0, <2>5 DEF Ledger!Next, UsableBar
<1>3. CASE Readable /\ Withdrew(catalog, P)
  <2>1. \A c \in Checkpoint : StatusBar[c] = StateIn(catalog, c)
    BY <1>3 DEF StatusBar, StatusOf, StateIn, Readable
  <2> PICK W \in SUBSET Checkpoint :
        /\ \A c \in W : StateIn(catalog, c) \in Active
        /\ \A c \in Checkpoint :
             StateIn(P, c) = IF c \in W THEN "quarantined" ELSE StateIn(catalog, c)
    BY <1>3 DEF Withdrew
  <2>2. StatusBar' = [c \in Checkpoint |-> IF c \in W THEN "quarantined" ELSE StatusBar[c]]
    BY <1>1, <2>1 DEF StatusBar
  <2>3. Ledger!Withdraw(W)
    BY <2>1, <2>2 DEF Ledger!Withdraw, StatusBar, Active, Ledger!Active
  <2> QED
    BY <1>0, <2>3 DEF Ledger!Next, UsableBar
<1>4. CASE catalog = NoFile /\ P = EmptyCatalog
  <2>1. StatusBar' = StatusBar
    BY <1>0, <1>4 DEF StatusBar, StatusOf, EmptyCatalog
  <2>2. Ledger!Withdraw({})
    BY <2>1 DEF Ledger!Withdraw, StatusBar
  <2> QED
    BY <1>0, <2>2 DEF Ledger!Next, UsableBar
<1> QED
  BY <1>2, <1>3, <1>4 DEF IInv, Fits, At

LEMMA StepRefines ==
    ASSUME IInv, [Next]_vars
    PROVE  [Ledger!Next]_(Ledger!ledger)
<1>1. ASSUME NEW f \in File, Stage(f) \/ Damage(f)
      PROVE  [Ledger!Next]_(Ledger!ledger)
  BY <1>1, StandsStill DEF Stage, Damage
<1>2. ASSUME NEW p \in Process, NEW call \in Call,
             Load(p, call) \/ Create(p, call) \/ LoadRefused(p, call)
      PROVE  [Ledger!Next]_(Ledger!ledger)
  BY <1>2, StandsStill DEF Load, Create, LoadRefused, Readable, UsableBar
<1>3. ASSUME NEW p \in Process,
             \/ Register(p) \/ Get(p) \/ ChangeState(p)
             \/ WriteWatermark(p) \/ Verify(p)
      PROVE  [Ledger!Next]_(Ledger!ledger)
  <2>1. work[p] # NoWork /\ UNCHANGED catalog
    BY <1>3 DEF Register, Get, ChangeState, WriteWatermark, Verify, At
  <2> QED
    BY <2>1, WorkingIsUsable, StandsStill
<1>4. ASSUME NEW p \in Process, WriteCatalog(p)
      PROVE  [Ledger!Next]_(Ledger!ledger)
  <2>1. At(p, "catalog") /\ work[p] # NoWork
    BY <1>4 DEF WriteCatalog, At
  <2>2. CASE catalog' = work[p].payload
    BY <2>1, <2>2, ReplacingMoves
  <2>3. CASE UNCHANGED catalog
    BY <2>1, <2>3, WorkingIsUsable, StandsStill
  <2> QED
    BY <1>4, <2>2, <2>3 DEF WriteCatalog
<1>5. ASSUME NEW p \in Process, Crash(p)
      PROVE  [Ledger!Next]_(Ledger!ledger)
  <2>1. UNCHANGED <<catalog, watermark>> /\ work' = [work EXCEPT ![p] = NoWork]
    BY <1>5 DEF Crash
  <2>2. CASE work[p] # NoWork
    BY <2>1, <2>2, WorkingIsUsable, StandsStill
  <2>3. CASE work[p] = NoWork
    <3>1. work' = work
      BY <2>1, <2>3 DEF IInv, TypeOK
    <3> QED
      BY <2>1, <3>1, StandsStill
  <2> QED
    BY <2>2, <2>3
<1>6. CASE UNCHANGED vars
  BY <1>6, StandsStill DEF vars
<1> QED
  BY <1>1, <1>2, <1>3, <1>4, <1>5, <1>6 DEF Next

LEMMA InitRefines == Init => Ledger!Init
<1> SUFFICES ASSUME Init PROVE Ledger!Init
  OBVIOUS
<1>1. StatusBar = [c \in Checkpoint |-> "absent"]
  BY DEF Init, StatusBar, StatusOf
<1>2. UsableBar = TRUE
  BY DEF Init, UsableBar
<1> QED
  BY <1>1, <1>2 DEF Ledger!Init, StatusBar, UsableBar

\* The catalog and its watermark implement the checkpoint ledger: every change
\* is one legal move, and an interrupted pair of writes ends all changes.
THEOREM ImplementsLedger == Spec => KeepsLedger
<1>1. Init => Ledger!Init
  BY InitRefines
<1>2. IInv /\ [Next]_vars => [Ledger!Next]_(Ledger!ledger)
  BY StepRefines
<1> QED
  BY <1>1, <1>2, CatalogInvariant, PTL DEF Spec, KeepsLedger, Ledger!Spec
=============================================================================
