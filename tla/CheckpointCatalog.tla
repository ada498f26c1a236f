--------------------------- MODULE CheckpointCatalog ---------------------------
(***************************************************************************)
(* DurableCheckpointCatalog.cs: the catalog of whole-drawing checkpoints   *)
(* that the AutoCAD processes of one user share.  Its state is two files,  *)
(* the catalog and the watermark that authenticates it, replaced one after *)
(* the other under a named mutex.                                          *)
(*                                                                         *)
(* A Process is one AutoCAD incarnation with one catalog object; File are  *)
(* the names a checkpoint artifact can have, Content what a well-formed    *)
(* DWG can contain (its SHA-256).                                          *)
(*                                                                         *)
(* Abstracted: the generation number (two payloads written one after the   *)
(* other always differ, so a watermark stamps one payload and no other)    *)
(* with the in-memory highest generation, which only notices files put     *)
(* back from outside; HMAC, schema, name and path checks; Snapshot, which  *)
(* reads every record as GetRequired reads one; calls that fail without    *)
(* touching a file (a disposed object, the mutex not had in ten seconds).  *)
(***************************************************************************)
CONSTANTS Process, Checkpoint, File, Content, NoFile, Malformed, NoRecord, NoWork

VARIABLES
    up,         \* up[p]: "new", "up" (its catalog is open) or "down"
    artifact,   \* artifact[f]: the DWG under the name f in the root
    catalog,    \* the payload of the catalog file, or NoFile
    watermark,  \* the payload that the watermark file stamps, or NoFile
    work,       \* work[p]: what p does inside the mutex, or NoWork
    told        \* told[c]: the state of c last returned to anyone, or "none"

vars == <<up, artifact, catalog, watermark, work, told>>

State == {"available", "restoring", "consumed", "quarantined", "expired"}
Active == {"available", "restoring"}
Record == [state : State, file : File, sha : Content]
Payload == [Checkpoint -> Record \cup {NoRecord}]
EmptyCatalog == [c \in Checkpoint |-> NoRecord]

Change == {"begin", "complete", "cancel", "expire", "quarantine"}
Operation == {"open", "register", "get"} \cup Change
Call == [op : Operation \ {"register"}, id : Checkpoint]
        \cup [op : {"register"}, id : Checkpoint, file : File]

\* step: what comes next; payload: the catalog as loaded or to be written;
\* last: the caller gets its answer once this payload is written.
Work == [call : Call, step : {"act", "catalog", "watermark", "verify"},
         payload : Payload, last : BOOLEAN]

ASSUME NoValues == /\ NoRecord \notin Record
                   /\ NoFile \notin Payload
                   /\ NoWork \notin Work
                   /\ NoFile \notin Content /\ Malformed \notin Content
                   /\ NoFile # Malformed

TypeOK ==
    /\ up \in [Process -> {"new", "up", "down"}]
    /\ artifact \in [File -> Content \cup {NoFile, Malformed}]
    /\ catalog \in Payload \cup {NoFile}
    /\ watermark \in Payload \cup {NoFile}
    /\ work \in [Process -> Work \cup {NoWork}]
    /\ told \in [Checkpoint -> State \cup {"none"}]

Init ==
    /\ up = [p \in Process |-> "new"]
    /\ artifact = [f \in File |-> NoFile]
    /\ catalog = NoFile
    /\ watermark = NoFile
    /\ work = [p \in Process |-> NoWork]
    /\ told = [c \in Checkpoint |-> "none"]

-----------------------------------------------------------------------------
(* The root: files come and go outside the catalog's control.              *)

\* The host saves the drawing under a name that is not yet taken.
Stage(f) ==
    /\ artifact[f] = NoFile
    /\ \E d \in Content : artifact' = [artifact EXCEPT ![f] = d]
    /\ UNCHANGED <<up, catalog, watermark, work, told>>

\* The artifact is deleted, replaced or damaged.
Damage(f) ==
    /\ artifact[f] # NoFile
    /\ \E d \in Content \cup {NoFile, Malformed} :
         artifact' = [artifact EXCEPT ![f] = d]
    /\ UNCHANGED <<up, catalog, watermark, work, told>>

-----------------------------------------------------------------------------
(* Entering the mutex.                                                     *)

\* Faulty variant: nobody waits for the mutex.
LockFreeAlways == TRUE

LockFree == \A p \in Process : work[p] = NoWork

\* ReadCatalogFile and ValidateWatermark accept what is on disk.
Readable == catalog # NoFile /\ watermark = catalog

Begin(p, call, step, payload, last) ==
    work' = [work EXCEPT ![p] =
               [call |-> call, step |-> step, payload |-> payload, last |-> last]]

InState(c, S) == catalog[c] # NoRecord /\ catalog[c].state \in S

\* Active records whose artifact is missing or has another SHA-256.
Mismatched ==
    {c \in Checkpoint : /\ InState(c, Active)
                        /\ artifact[catalog[c].file] # catalog[c].sha}

\* Active records whose artifact is too short or has no DWG header: the
\* InvalidDataException of ReadArtifactFacts passes through ArtifactMatches.
Unparseable ==
    {c \in Checkpoint : InState(c, Active) /\ artifact[catalog[c].file] = Malformed}

\* Reading any active artifact may fail with an I/O error, which counts as a
\* mismatch.
MayBeWithdrawn == {c \in Checkpoint : InState(c, Active)}

Withdrawn(Q) ==
    [c \in Checkpoint |-> IF c \in Q THEN [catalog[c] EXCEPT !.state = "quarantined"]
                                     ELSE catalog[c]]

MayEnter(p, call) ==
    /\ LockFree
    /\ up[p] = IF call.op = "open" THEN "new" ELSE "up"

\* LoadAndRecoverUnderLock: records whose artifact does not match are
\* quarantined, and the quarantine is persisted, before the call acts.
Load(p, call) ==
    /\ MayEnter(p, call)
    /\ Readable
    /\ Unparseable = {}
    /\ \E Q \in SUBSET MayBeWithdrawn :
         /\ Mismatched \subseteq Q
         /\ IF Q = {} THEN Begin(p, call, "act", catalog, FALSE)
                      ELSE Begin(p, call, "catalog", Withdrawn(Q), FALSE)
    /\ UNCHANGED <<up, artifact, catalog, watermark, told>>

\* The constructor finds neither file and no artifact, and creates both.
Create(p, call) ==
    /\ call.op = "open"
    /\ MayEnter(p, call)
    /\ catalog = NoFile /\ watermark = NoFile
    /\ \A f \in File : artifact[f] = NoFile
    /\ Begin(p, call, "catalog", EmptyCatalog, TRUE)
    /\ UNCHANGED <<up, artifact, catalog, watermark, told>>

Gone(p, call) == IF call.op = "open" THEN [up EXCEPT ![p] = "down"] ELSE up

\* The files or an artifact are invalid: the call throws, and a constructor
\* that throws leaves its process without a catalog.
LoadRefused(p, call) ==
    /\ MayEnter(p, call)
    /\ IF catalog = NoFile /\ watermark = NoFile
       THEN call.op = "open" => \E f \in File : artifact[f] # NoFile
       ELSE ~Readable \/ Unparseable # {}
    /\ up' = Gone(p, call)
    /\ UNCHANGED <<artifact, catalog, watermark, work, told>>

-----------------------------------------------------------------------------
(* Inside the mutex.                                                       *)

Required == [begin |-> {"available"}, complete |-> {"restoring"},
             cancel |-> {"restoring"}, expire |-> {"available"},
             quarantine |-> Active]
Result == [begin |-> "restoring", complete |-> "consumed",
           cancel |-> "available", expire |-> "expired",
           quarantine |-> "quarantined"]

\* The call throws and leaves the mutex.
Throw(p) ==
    /\ work' = [work EXCEPT ![p] = NoWork]
    /\ up' = Gone(p, work[p].call)

\* The call returns the record it asked about, as the catalog now has it.
Answer(p) ==
    LET w == work[p] IN
    /\ work' = [work EXCEPT ![p] = NoWork]
    /\ up' = IF w.call.op = "open" THEN [up EXCEPT ![p] = "up"] ELSE up
    /\ told' = IF w.call.op = "open" THEN told
               ELSE [told EXCEPT ![w.call.id] = w.payload[w.call.id].state]

Write(p, payload) ==
    work' = [work EXCEPT ![p].step = "catalog", ![p].payload = payload,
                         ![p].last = TRUE]

\* Faulty variant: only the id is checked, not the file name.
UniqueId(p) == work[p].payload[work[p].call.id] = NoRecord

\* RegisterCheckpoint: the id and the file name are new.
Unregistered(p) ==
    LET w == work[p] IN
    /\ w.payload[w.call.id] = NoRecord
    /\ \A c \in Checkpoint : w.payload[c] # NoRecord => w.payload[c].file # w.call.file

Register(p) ==
    LET w == work[p] IN
    /\ w # NoWork /\ w.step = "act" /\ w.call.op = "register"
    /\ IF Unregistered(p) /\ artifact[w.call.file] \in Content
       THEN /\ Write(p, [w.payload EXCEPT ![w.call.id] =
                           [state |-> "available", file |-> w.call.file,
                            sha |-> artifact[w.call.file]]])
            /\ UNCHANGED up
       ELSE Throw(p)
    /\ UNCHANGED <<artifact, catalog, watermark, told>>

\* GetRequired, or the constructor once the files are loaded.
Get(p) ==
    LET w == work[p] IN
    /\ w # NoWork /\ w.step = "act" /\ w.call.op \in {"get", "open"}
    /\ IF w.call.op = "get" /\ w.payload[w.call.id] = NoRecord
       THEN Throw(p) /\ UNCHANGED told
       ELSE Answer(p)
    /\ UNCHANGED <<artifact, catalog, watermark>>

\* Faulty variant: the state a change starts from is not checked.
AnyState(op) == State

From(op) == Required[op]

\* Transition and Quarantine: a repeated change answers without writing, and
\* a record in any other state is refused.
ChangeState(p) ==
    LET w == work[p]
        op == w.call.op
        record == w.payload[w.call.id] IN
    /\ w # NoWork /\ w.step = "act" /\ w.call.op \in Change
    /\ IF record # NoRecord /\ record.state = Result[op] THEN Answer(p)
       ELSE /\ IF record # NoRecord /\ record.state \in From(op)
               THEN /\ Write(p, [w.payload EXCEPT ![w.call.id].state = Result[op]])
                    /\ UNCHANGED up
               ELSE Throw(p)
            /\ UNCHANGED told
    /\ UNCHANGED <<artifact, catalog, watermark>>

At(p, step) == work[p] # NoWork /\ work[p].step = step

Proceed(p, step) ==
    /\ work' = [work EXCEPT ![p].step = step]
    /\ UNCHANGED up

\* PersistUnderLock replaces the catalog first; the write may throw before or
\* after the file is in place.
WriteCatalog(p) ==
    /\ At(p, "catalog")
    /\ \/ catalog' = work[p].payload /\ (Proceed(p, "watermark") \/ Throw(p))
       \/ Throw(p) /\ UNCHANGED catalog
    /\ UNCHANGED <<artifact, watermark, told>>

\* Then the watermark, in the same way.
WriteWatermark(p) ==
    /\ At(p, "watermark")
    /\ \/ watermark' = work[p].payload /\ (Proceed(p, "verify") \/ Throw(p))
       \/ Throw(p) /\ UNCHANGED watermark
    /\ UNCHANGED <<artifact, catalog, told>>

\* Both are read back; after a recovery the call itself comes next.
Verify(p) ==
    /\ At(p, "verify")
    /\ \/ work[p].last /\ Answer(p)
       \/ ~work[p].last /\ Proceed(p, "act") /\ UNCHANGED told
       \/ Throw(p) /\ UNCHANGED told
    /\ UNCHANGED <<artifact, catalog, watermark>>

\* The process dies; whoever waits for its mutex acquires it abandoned.
Crash(p) ==
    /\ up[p] # "down"
    /\ up' = [up EXCEPT ![p] = "down"]
    /\ work' = [work EXCEPT ![p] = NoWork]
    /\ UNCHANGED <<artifact, catalog, watermark, told>>

Next ==
    \/ \E f \in File : Stage(f) \/ Damage(f)
    \/ \E p \in Process, call \in Call :
         Load(p, call) \/ Create(p, call) \/ LoadRefused(p, call)
    \/ \E p \in Process :
         \/ Register(p) \/ Get(p) \/ ChangeState(p)
         \/ WriteCatalog(p) \/ WriteWatermark(p) \/ Verify(p) \/ Crash(p)

Spec == Init /\ [][Next]_vars

-----------------------------------------------------------------------------
(* Properties.                                                             *)

StatusOf(c) ==
    IF catalog = NoFile THEN "absent"
    ELSE IF catalog[c] = NoRecord THEN "absent" ELSE catalog[c].state

\* What can still become of a checkpoint in a given state.
Future(s) == CASE s = "none" -> State \cup {"absent"}
               [] s \in Active -> State
               [] OTHER -> {s}

\* What a call returned is never taken back: no update is lost to another
\* process, and a checkpoint once reported consumed, quarantined or expired is
\* so for good (WithFreshCatalog's mutex, PersistUnderLock before the answer).
AnswersHold ==
    \A c \in Checkpoint : StatusOf(c) \in Future(told[c])

\* No two registered checkpoints ever share an artifact, whichever processes
\* registered them and whatever was interrupted (RegisterCheckpoint).
ArtifactsAreUnshared ==
    \A c, d \in Checkpoint :
        (StatusOf(c) # "absent" /\ StatusOf(d) # "absent" /\ c # d)
        => catalog[c].file # catalog[d].file

Ledger == INSTANCE CheckpointLedger WITH
    status <- [c \in Checkpoint |-> StatusOf(c)],
    usable <- \/ catalog = watermark
              \/ \E p \in Process : At(p, "watermark")

\* The two files, over all interleavings, failed writes and crashes, implement
\* the ledger: every change is one legal move, and after an interrupted pair
\* of writes nothing ever changes again.
KeepsLedger == Ledger!Spec

=============================================================================
