------------------------ MODULE CheckpointRestoreProofs ------------------------
(***************************************************************************)
(* Proofs about CheckpointRestore, for any processes and approvals, any    *)
(* number of interventions, and with or without torn replacements.         *)
(*                                                                         *)
(* The inductive invariant has two halves.  Data relates the journal, the  *)
(* catalog and the files, which outlive a process; Holder says what the    *)
(* process under the execution lock knows at each step of its call, and is *)
(* empty whenever the lock is free.                                        *)
(***************************************************************************)
EXTENDS CheckpointRestore, TLAPS

InPhase(a, phases) == journal[a] # NoEntry /\ journal[a].phase \in phases

\* The calls past the lock and the lock agree.
Holding ==
    \A p \in Process : lock = p <=> (call[p] # NoCall /\ call[p].at \in Locked)

\* A drawing that was replaced and not yet given up for good has its backup.
Backed ==
    \A a \in Approval :
        /\ journal[a] = NoEntry => backup[a] = "none"
        /\ InPhase(a, {"replaced", "verified"}) => backup[a] # "none"

\* A committed restore has used up the checkpoint.
UsedUp == \A a \in Approval : Phased(a, "committed") => status = "consumed"

\* As long as nobody else touches the drawing, one approval replaces it: what
\* is open afterwards is never at the approved revision again.
Gone == {"pre", "none"}
Taken(a) == backup[a] # "none" \/ Phased(a, "committed")
Once ==
    meddled = 0 =>
        /\ \A a, b \in Approval : Taken(a) /\ Taken(b) => a = b
        /\ (\E a \in Approval : Taken(a)) => target \in Gone
        /\ target \in Gone => doc.by = Nobody \/ doc.content # "post"

\* What was last saved on purpose is in place, or in a backup that no
\* clean-up will delete.
Kept ==
    \/ latest = target
    \/ \E a \in Approval : latest = backup[a] /\ ~Phased(a, "committed")

Data == Backed /\ UsedUp /\ Once /\ Kept

\* What holds at each step of the call p that has the lock.
Standing(p) ==
    LET a == call[p].approval
        at == call[p].at
    IN
    /\ at \in {"prepare", "reserve"} => journal[a] = NoEntry
    /\ at \in {"begin", "enter", "inspect", "close", "replace", "markReplaced"} =>
         Phased(a, "prepared")
    /\ at = "resume" => InPhase(a, {"prepared", "replaced", "verified"})
    /\ at \in {"reopen", "markVerified"} => Phased(a, "replaced")
    /\ at \in {"verified", "complete", "markCommitted"} => Phased(a, "verified")
    /\ at \in {"cleanup", "replay"} => Phased(a, "committed")
    /\ at \in {"enter", "inspect", "close", "replace"} => backup[a] = "none"
    /\ at = "markReplaced" => backup[a] # "none"
    /\ at \in {"close", "replace"} /\ meddled = 0 => target \notin Gone
    /\ at = "markCommitted" => status = "consumed"
    /\ at \in {"complete", "markCommitted"} => target = "pre" \/ target = latest

Holder == \A p \in Process : lock = p => Standing(p)

IInv == TypeOK /\ Holding /\ Data /\ Holder

-----------------------------------------------------------------------------
(* The catalog: whatever a call makes of it is a legal move.               *)

Statuses == {"available", "restoring", "consumed", "quarantined", "expired"}
Legal == {<<"available", "restoring">>, <<"restoring", "consumed">>,
          <<"available", "quarantined">>, <<"restoring", "quarantined">>}

CatalogMoves ==
    /\ status' \in Statuses /\ usable' \in BOOLEAN
    /\ status' = status \/ <<status, status'>> \in Legal
    /\ usable \/ UNCHANGED catalog

CatalogTyped == status \in Statuses /\ usable \in BOOLEAN /\ calm \in BOOLEAN

LEMMA UnchangedMoves == CatalogTyped /\ UNCHANGED catalog => CatalogMoves
BY DEF CatalogTyped, CatalogMoves, catalog

LEMMA LoadedMoves ==
    ASSUME CatalogTyped, NEW s \in Loaded
    PROVE  /\ s \in Statuses
           /\ s = status \/ (status \in Active /\ s = "quarantined")
BY DEF CatalogTyped, Statuses, Loaded, Active

LEMMA ReadMoves ==
    ASSUME CatalogTyped, NEW s, Read(s)
    PROVE  CatalogMoves
BY LoadedMoves DEF Read, CatalogMoves, Legal, Active, CatalogTyped

LEMMA ChangeMoves ==
    ASSUME CatalogTyped, NEW from, NEW to, Change(from, to), <<from, to>> \in Legal
    PROVE  CatalogMoves
<1>1. PICK s \in Loaded : s = from \/ s = to
  BY DEF Change
<1>2. s = status \/ (status \in Active /\ s = "quarantined")
  BY <1>1, LoadedMoves
<1>3. from \in Active /\ to \in Statuses
  BY DEF Legal, Active, Statuses
<1>4. to = status \/ <<status, to>> \in Legal
  BY <1>1, <1>2, <1>3 DEF Legal, Active
<1> QED BY <1>3, <1>4 DEF Change, CatalogMoves, CatalogTyped

LEMMA RefuseMoves ==
    ASSUME CatalogTyped, NEW from, NEW to, Refuse(from, to)
    PROVE  CatalogMoves
BY ReadMoves DEF Refuse

LEMMA ThrowsMoves ==
    ASSUME CatalogTyped, NEW from, NEW to, Throws(from, to),
           <<from, to>> \in Legal \/ from = to
    PROVE  CatalogMoves
<1>1. CASE UNCHANGED catalog
  BY <1>1, UnchangedMoves
<1>2. CASE usable /\ usable' \in BOOLEAN
           /\ status' \in Loaded \cup {status} \cup (IF status = from THEN {to} ELSE {})
  <2>1. CASE status' \in Loaded
    BY <1>2, <2>1, LoadedMoves DEF CatalogMoves, Legal, Active
  <2>2. CASE status' = status
    BY <1>2, <2>2 DEF CatalogMoves, CatalogTyped
  <2>3. CASE status = from /\ status' = to
    BY <1>2, <2>3 DEF CatalogMoves, CatalogTyped, Legal, Statuses
  <2> QED BY <1>2, <2>1, <2>2, <2>3
<1> QED BY <1>1, <1>2 DEF Throws

LEMMA QuarantineMoves == CatalogTyped /\ TryQuarantineCatalog => CatalogMoves
BY ChangeMoves, ReadMoves, ThrowsMoves DEF TryQuarantineCatalog, Legal, Active

LEMMA BeginMoves ==
    CatalogTyped /\ (\/ Change("available", "restoring")
                     \/ Refuse("available", "restoring")
                     \/ Throws("available", "restoring")) => CatalogMoves
BY ChangeMoves, RefuseMoves, ThrowsMoves DEF Legal

-----------------------------------------------------------------------------
(* Calls and the lock.                                                     *)

Stages == Locked \cup {"waiting"} \cup Outcome

LEMMA StageSets ==
    /\ \A o \in Outcome : o \in Stages /\ o \notin Locked
    /\ \A step \in Locked : step \in Stages
    /\ "waiting" \in Stages /\ "waiting" \notin Locked
BY DEF Stages, Locked, Outcome

LEMMA CallShape ==
    ASSUME NEW r \in Call
    PROVE  /\ r.approval \in Approval /\ r.at \in Stages /\ r.fresh \in BOOLEAN
           /\ r.seen \in Statuses /\ r.post \in Content /\ r # NoCall
           /\ \A step \in Stages :
                /\ [r EXCEPT !.at = step] \in Call
                /\ [r EXCEPT !.at = step].at = step
                /\ [r EXCEPT !.at = step].approval = r.approval
BY NoValues DEF Call, Stages, Statuses

LEMMA GoesOn ==
    ASSUME TypeOK, NEW p \in Process, call[p] # NoCall, NEW step \in Stages, Go(p, step)
    PROVE  /\ call[p] \in Call
           /\ call' \in [Process -> Call \cup {NoCall}]
           /\ call'[p] # NoCall /\ call'[p].at = step
           /\ call'[p].approval = call[p].approval
           /\ \A q \in Process \ {p} : call'[q] = call[q]
<1>1. call[p] \in Call
  BY DEF TypeOK
<1>2. call'[p] = [call[p] EXCEPT !.at = step] /\ [call[p] EXCEPT !.at = step] \in Call
  BY <1>1, CallShape DEF TypeOK, Go
<1> QED BY <1>1, <1>2, CallShape DEF TypeOK, Go

LEMMA EntryShape ==
    ASSUME NEW e \in Entry
    PROVE  /\ e.phase \in Phase /\ e.post \in Content /\ e # NoEntry
           /\ \A phase \in Phase :
                /\ [e EXCEPT !.phase = phase] \in Entry
                /\ [e EXCEPT !.phase = phase].phase = phase
                /\ [e EXCEPT !.phase = phase].post = e.post
           /\ \A phase \in Phase : [phase |-> phase, post |-> e.post] \in Entry
BY NoValues DEF Entry

\* Who holds the lock is past it, and nobody else is.
LEMMA Alone ==
    ASSUME TypeOK, Holding, NEW p \in Process, call[p] # NoCall, call[p].at \in Locked
    PROVE  /\ lock = p
           /\ \A q \in Process \ {p} : call[q] # NoCall => call[q].at \notin Locked
BY DEF Holding

-----------------------------------------------------------------------------
(* Steps that leave the drawing file and the backups as they are.          *)

DocFine ==
    /\ doc' \in [by : Process \cup {Nobody}, content : Content]
    /\ doc' = doc \/ doc'.by = Nobody \/ doc'.content = target

JournalFine ==
    /\ journal' \in [Approval -> Entry \cup {NoEntry}]
    /\ \A a \in Approval :
        \/ journal'[a] = journal[a]
        \/ /\ ~Phased(a, "committed")
           /\ journal'[a] # NoEntry /\ journal'[a].phase # "committed"
           /\ journal'[a].phase \in {"replaced", "verified"} => backup[a] # "none"

LEMMA DataStands ==
    ASSUME TypeOK, Data, CatalogMoves, DocFine, JournalFine,
           UNCHANGED <<target, backup, latest, meddled>>
    PROVE  Data'
<1>1. \A a \in Approval : Phased(a, "committed")' <=> Phased(a, "committed")
  BY DEF JournalFine, Phased
<1>2. Backed'
  BY DEF Data, Backed, InPhase, JournalFine
<1>3. UsedUp'
  BY <1>1 DEF Data, UsedUp, CatalogMoves, Legal
<1>4. Once'
  BY <1>1 DEF Data, Once, Taken, Gone, DocFine
<1>5. Kept'
  BY <1>1 DEF Data, Kept
<1> QED BY <1>2, <1>3, <1>4, <1>5 DEF Data

Quiet ==
    /\ UNCHANGED <<artifact, target, backup, calm, latest, meddled>>
    /\ stage' \in [Approval -> {"pre", "partial", "none"}]
    /\ CatalogMoves /\ DocFine /\ JournalFine

\* The call of the process in the lock, or at its door, is answered.
LEMMA AnswerPreserves ==
    ASSUME IInv, NEW p \in Process, call[p] # NoCall, lock \in {p, Nobody},
           NEW o \in Outcome, Return(p, o), Quiet
    PROVE  IInv'
<1>1. /\ call' \in [Process -> Call \cup {NoCall}]
      /\ call'[p] # NoCall /\ call'[p].at = o
      /\ \A q \in Process \ {p} : call'[q] = call[q]
  BY GoesOn, StageSets DEF IInv, Return
<1>2. lock' = Nobody
  BY NoValues DEF Return
<1>3. TypeOK'
  BY <1>1, <1>2 DEF IInv, TypeOK, Quiet, CatalogMoves, Statuses, DocFine, JournalFine
<1>4. Holding'
  BY <1>1, <1>2, StageSets, NoValues DEF IInv, Holding
<1>5. Data'
  BY DataStands DEF IInv, Quiet
<1>6. Holder'
  BY <1>2, NoValues DEF Holder
<1> QED BY <1>3, <1>4, <1>5, <1>6 DEF IInv

\* It goes on to its next step.
LEMMA ContinuePreserves ==
    ASSUME IInv, NEW p \in Process, lock \in {p, Nobody}, lock' = p,
           call' \in [Process -> Call \cup {NoCall}],
           call'[p] # NoCall, call'[p].at \in Locked,
           \A q \in Process \ {p} : call'[q] = call[q],
           Quiet, Standing(p)'
    PROVE  IInv'
<1>1. TypeOK'
  BY DEF IInv, TypeOK, Quiet, CatalogMoves, Statuses, DocFine, JournalFine
<1>2. Holding'
  BY NoValues DEF IInv, Holding
<1>3. Data'
  BY DataStands DEF IInv, Quiet
<1>4. Holder'
  BY DEF Holder
<1> QED BY <1>1, <1>2, <1>3, <1>4 DEF IInv

LEMMA NextStepPreserves ==
    ASSUME IInv, NEW p \in Process, call[p] # NoCall, lock \in {p, Nobody}, lock' = p,
           NEW step \in Locked, Go(p, step), Quiet, Standing(p)'
    PROVE  IInv'
BY GoesOn, StageSets, ContinuePreserves DEF IInv

\* Somebody outside the lock moves.
LEMMA OutsidePreserves ==
    ASSUME IInv, CatalogMoves,
           UNCHANGED <<target, stage, backup, journal, lock, latest>>,
           artifact' \in {"pre", "altered"}, calm' \in BOOLEAN,
           doc' \in [by : Process \cup {Nobody}, content : Content],
           meddled' \in 0..MaxMeddling,
           (meddled' = meddled /\ DocFine) \/ meddled' = meddled + 1,
           call' \in [Process -> Call \cup {NoCall}],
           \A q \in Process : \/ call'[q] = call[q]
                              \/ /\ lock # q
                                 /\ call'[q] # NoCall => call'[q].at \notin Locked
    PROVE  IInv'
<1>1. TypeOK'
  BY DEF IInv, TypeOK, CatalogMoves, Statuses
<1>2. Holding'
  BY DEF IInv, Holding
<1>3. meddled' = 0 => meddled = 0 /\ DocFine
  BY Flags DEF IInv, TypeOK
<1>4. Data'
  <2>1. JournalFine
    BY DEF JournalFine, IInv, TypeOK
  <2>2. CASE meddled' = meddled /\ DocFine
    BY <2>1, <2>2, DataStands DEF IInv
  <2>3. CASE meddled' = meddled + 1
    <3>1. meddled' # 0
      BY <2>3, Flags DEF IInv, TypeOK
    <3> QED BY <3>1 DEF IInv, Data, Backed, UsedUp, Once, Kept, CatalogMoves, Legal, InPhase, Phased
  <2> QED BY <2>2, <2>3
<1>5. Holder'
  <2> SUFFICES ASSUME NEW p \in Process, lock' = p PROVE Standing(p)'
    BY DEF Holder
  <2>1. call'[p] = call[p] /\ Standing(p)
    BY DEF IInv, Holder
  <2>2. status = "consumed" => status' = "consumed"
    BY DEF CatalogMoves, Legal
  <2> QED BY <1>3, <2>1, <2>2 DEF Standing, Phased, InPhase, Gone
<1> QED BY <1>1, <1>2, <1>4, <1>5 DEF IInv

-----------------------------------------------------------------------------
(* The journal.                                                            *)

LEMMA UnmarkedIsFine == TypeOK /\ UNCHANGED journal => JournalFine
BY DEF TypeOK, JournalFine

\* A phase is marked in the entry of the call's approval, and in no other.
LEMMA Marking ==
    ASSUME TypeOK, NEW p \in Process, call[p] # NoCall, EntryOf(p) # NoEntry,
           NEW phase \in Phase, Mark(p, phase)
    PROVE  /\ journal' \in [Approval -> Entry \cup {NoEntry}]
           /\ call[p].approval \in Approval
           /\ journal'[call[p].approval] # NoEntry
           /\ journal'[call[p].approval].phase = phase
           /\ journal'[call[p].approval].post = EntryOf(p).post
           /\ \A a \in Approval \ {call[p].approval} : journal'[a] = journal[a]
<1>1. call[p] \in Call
  BY DEF TypeOK
<1>2. call[p].approval \in Approval
  BY <1>1, CallShape
<1>3. EntryOf(p) \in Entry
  BY <1>2 DEF TypeOK, EntryOf
<1>4. journal'[call[p].approval] = [EntryOf(p) EXCEPT !.phase = phase]
  BY <1>2 DEF Mark, TypeOK, EntryOf
<1>5. [EntryOf(p) EXCEPT !.phase = phase] \in Entry
  BY <1>3, EntryShape
<1>6. /\ journal' = [journal EXCEPT ![call[p].approval] = journal'[call[p].approval]]
      /\ journal \in [Approval -> Entry \cup {NoEntry}]
  BY <1>2 DEF Mark, TypeOK
<1>7. /\ journal'[call[p].approval] \in Entry
      /\ journal'[call[p].approval].phase = phase
      /\ journal'[call[p].approval].post = EntryOf(p).post
      /\ journal'[call[p].approval] # NoEntry
  BY <1>3, <1>4, <1>5, EntryShape
<1> QED BY <1>2, <1>6, <1>7

LEMMA MarkIsFine ==
    ASSUME TypeOK, NEW p \in Process, call[p] # NoCall, EntryOf(p) # NoEntry,
           NEW phase \in Phase \ {"committed"}, Mark(p, phase),
           EntryOf(p).phase # "committed",
           phase \in {"replaced", "verified"} => backup[call[p].approval] # "none"
    PROVE  JournalFine
BY Marking DEF JournalFine, Phased, EntryOf

\* Leaving ResumeAsync with the attempt quarantined.
LEMMA QuarantinePreserves ==
    ASSUME IInv, NEW p \in Process, call[p] # NoCall, lock \in {p, Nobody},
           EntryOf(p) # NoEntry, EntryOf(p).phase # "committed",
           Mark(p, "quarantined") \/ Unmarked, TryQuarantineCatalog,
           Return(p, "quarantined"),
           UNCHANGED <<artifact, target, backup, calm, latest, meddled>>,
           stage' \in [Approval -> {"pre", "partial", "none"}], DocFine
    PROVE  IInv'
<1>1. JournalFine
  BY MarkIsFine, UnmarkedIsFine DEF IInv, Unmarked, Phase
<1>2. CatalogMoves
  BY QuarantineMoves DEF IInv, TypeOK, CatalogTyped, Statuses
<1>3. Quiet
  BY <1>1, <1>2 DEF Quiet
<1> QED BY <1>3, AnswerPreserves DEF Outcome

-----------------------------------------------------------------------------
(* The steps of a call, up to the reservation.                             *)

LEMMA Sides ==
    IInv => /\ CatalogTyped
            /\ UNCHANGED <<catalog>> => CatalogMoves
            /\ UNCHANGED journal => JournalFine
            /\ UNCHANGED doc => DocFine
            /\ UNCHANGED stage => stage' \in [Approval -> {"pre", "partial", "none"}]
BY UnchangedMoves, UnmarkedIsFine DEF IInv, TypeOK, CatalogTyped, Statuses, DocFine

LEMMA StartPreserves ==
    ASSUME IInv, NEW p \in Process, NEW a \in Approval, Start(p, a) \/ StartFails(p, a)
    PROVE  IInv'
<1>1. lock # p
  BY StageSets DEF IInv, Holding, Start, StartFails, Idle
<1>2. CatalogMoves
  <2>1. CASE Start(p, a)
    BY <2>1, Sides, ReadMoves DEF Start
  <2>2. CASE StartFails(p, a)
    BY <2>2, Sides, ThrowsMoves DEF StartFails
  <2> QED BY <2>1, <2>2
<1>3. \E r \in Call : call' = [call EXCEPT ![p] = r] /\ r.at \notin Locked
  <2> DEFINE R(at, s) == [approval |-> a, at |-> at, fresh |-> FALSE,
                          seen |-> s, post |-> "other"]
  <2>1. \A at \in {"waiting", "failed"}, s \in Statuses :
          R(at, s) \in Call /\ R(at, s).at \notin Locked
    BY DEF Call, Statuses, Content, Outcome, Locked
  <2>2. status \in Statuses /\ \A s \in Loaded : s \in Statuses
    BY Sides, LoadedMoves DEF CatalogTyped
  <2>3. \E at \in {"waiting", "failed"}, s \in Statuses : call' = [call EXCEPT ![p] = R(at, s)]
    BY <2>2 DEF Start, StartFails
  <2> HIDE DEF R
  <2> QED BY <2>1, <2>3
<1>4. /\ call' \in [Process -> Call \cup {NoCall}]
      /\ \A q \in Process : \/ call'[q] = call[q]
                            \/ lock # q /\ (call'[q] # NoCall => call'[q].at \notin Locked)
  BY <1>1, <1>3 DEF IInv, TypeOK
<1>5. UNCHANGED <<files, doc, journal, lock, calm, history>>
  BY DEF Start, StartFails
<1> QED BY <1>2, <1>4, <1>5, OutsidePreserves, Sides DEF files, history, IInv, TypeOK

LEMMA TurnedAwayPreserves ==
    ASSUME IInv, NEW p \in Process, TurnedAway(p)
    PROVE  IInv'
<1>1. lock # p
  BY StageSets DEF IInv, Holding, TurnedAway, At
<1>2. /\ call' \in [Process -> Call \cup {NoCall}]
      /\ call'[p].at \notin Locked
      /\ \A q \in Process \ {p} : call'[q] = call[q]
  BY GoesOn, StageSets DEF TurnedAway, At, IInv, Outcome
<1> QED BY <1>1, <1>2, OutsidePreserves, Sides
        DEF TurnedAway, files, history, IInv, TypeOK

LEMMA EnterPreserves ==
    ASSUME IInv, NEW p \in Process, Enter(p)
    PROVE  IInv'
<1>0. /\ call[p] # NoCall /\ lock = Nobody
      /\ UNCHANGED <<artifact, target, stage, backup, doc, journal, calm, latest, meddled>>
  BY DEF Enter, At, files, history
<1>1. UNCHANGED catalog => Quiet
  BY <1>0, Sides DEF Quiet
<1>2. CASE EntryOf(p) = NoEntry
  <2>1. UNCHANGED catalog
    BY <1>2 DEF Enter
  <2>2. CASE Return(p, "rejected") \/ Return(p, "cancelled")
    BY <1>0, <1>1, <2>1, <2>2, AnswerPreserves DEF Outcome
  <2>3. CASE lock' = p /\ Go(p, "prepare")
    <3>1. Standing(p)'
      BY <1>0, <1>2, <2>3, GoesOn, StageSets DEF Standing, EntryOf, IInv, Locked
    <3> QED BY <1>0, <1>1, <2>1, <2>3, <3>1, NextStepPreserves DEF Locked
  <2> QED BY <1>2, <2>2, <2>3 DEF Enter
<1>3. CASE EntryOf(p) # NoEntry
  <2>1. CASE EntryOf(p).phase = "committed" /\ lock' = p /\ Go(p, "replay")
             /\ UNCHANGED catalog
    <3>1. Standing(p)'
      BY <1>0, <1>3, <2>1, GoesOn, StageSets DEF Standing, EntryOf, Phased, IInv, Locked
    <3> QED BY <1>0, <1>1, <2>1, <3>1, NextStepPreserves DEF Locked
  <2>2. CASE EntryOf(p).phase = "quarantined" /\ TryQuarantineCatalog
             /\ Return(p, "quarantined")
    BY <1>0, <1>3, <2>2, QuarantinePreserves, Sides DEF Unmarked
  <2>3. CASE EntryOf(p).phase \in {"prepared", "replaced", "verified"}
             /\ lock' = p /\ Go(p, "resume") /\ UNCHANGED catalog
    <3>1. Standing(p)'
      BY <1>0, <1>3, <2>3, GoesOn, StageSets DEF Standing, EntryOf, InPhase, IInv, Locked
    <3> QED BY <1>0, <1>1, <2>3, <3>1, NextStepPreserves DEF Locked
  <2> QED BY <1>3, <2>1, <2>2, <2>3 DEF Enter
<1> QED BY <1>2, <1>3

LEMMA AtStep ==
    ASSUME IInv, NEW p \in Process, NEW step \in Locked, At(p, step)
    PROVE  /\ call[p] # NoCall /\ call[p].at = step /\ call[p] \in Call
           /\ call[p].approval \in Approval
           /\ lock = p /\ Standing(p)
<1>1. call[p] \in Call /\ call[p].approval \in Approval
  BY CallShape DEF At, IInv, TypeOK
<1> QED BY <1>1, Alone DEF At, IInv, Holder

LEMMA SetStageTyped ==
    ASSUME IInv, NEW p \in Process, NEW c \in {"pre", "partial", "none"}
    PROVE  /\ SetStage(p, c) => stage' \in [Approval -> {"pre", "partial", "none"}]
           /\ \A a : [stage EXCEPT ![a] = c] \in [Approval -> {"pre", "partial", "none"}]
BY DEF SetStage, IInv, TypeOK

LEMMA PreparePreserves ==
    ASSUME IInv, NEW p \in Process,
           PrepareQuarantines(p) \/ PrepareRejects(p) \/ Prepare(p)
    PROVE  IInv'
<1>0. /\ call[p] # NoCall /\ call[p].at = "prepare" /\ call[p] \in Call
      /\ call[p].approval \in Approval
      /\ lock = p /\ journal[call[p].approval] = NoEntry
  <2>1. At(p, "prepare") /\ "prepare" \in Locked
    BY DEF PrepareQuarantines, PrepareRejects, Prepare, Locked
  <2> QED BY <2>1, AtStep DEF Standing
<1>1. CASE PrepareQuarantines(p)
  <2>1. Quiet
    BY <1>1, Sides, QuarantineMoves DEF PrepareQuarantines, Quiet, files, history
  <2> QED BY <1>0, <1>1, <2>1, AnswerPreserves DEF PrepareQuarantines, Outcome
<1>2. CASE PrepareRejects(p)
  <2>1. stage' \in [Approval -> {"pre", "partial", "none"}]
    BY <1>2, SetStageTyped, Sides DEF PrepareRejects
  <2>2. Quiet
    BY <1>2, <2>1, Sides DEF PrepareRejects, Quiet, history
  <2> QED BY <1>0, <1>2, <2>2, AnswerPreserves DEF PrepareRejects, Outcome
<1>3. CASE Prepare(p)
  <2>1. Quiet
    BY <1>3, SetStageTyped, Sides DEF Prepare, Quiet, history
  <2> DEFINE r == [call[p] EXCEPT !.at = "reserve", !.post = target, !.fresh = TRUE]
  <2>2. r \in Call /\ r.at = "reserve" /\ r.approval = call[p].approval
    BY <1>0, <1>3 DEF Call, Locked, Prepare, IInv, TypeOK
  <2>3. call' = [call EXCEPT ![p] = r]
    BY <1>3 DEF Prepare
  <2> HIDE DEF r
  <2>4. /\ call' \in [Process -> Call \cup {NoCall}]
        /\ call'[p] = r /\ call'[p] # NoCall
        /\ \A q \in Process \ {p} : call'[q] = call[q]
    BY <2>2, <2>3, NoValues DEF IInv, TypeOK
  <2>5. lock' = p /\ journal' = journal
    BY <1>0, <1>3 DEF Prepare
  <2>6. Standing(p)'
    BY <1>0, <2>2, <2>4, <2>5 DEF Standing
  <2>7. call'[p].at \in Locked
    BY <2>2, <2>4 DEF Locked
  <2> QED BY <1>0, <2>1, <2>4, <2>5, <2>6, <2>7, ContinuePreserves
<1> QED BY <1>1, <1>2, <1>3

LEMMA ReservePreserves ==
    ASSUME IInv, NEW p \in Process, Reserve(p)
    PROVE  IInv'
<1>0. /\ call[p] # NoCall /\ call[p] \in Call /\ call[p].approval \in Approval
      /\ lock = p /\ journal[call[p].approval] = NoEntry
  BY AtStep DEF Reserve, Locked, Standing
<1>1. UNCHANGED <<catalog, artifact, target, backup, doc, calm, latest, meddled>>
  BY DEF Reserve, history
<1>2. CASE /\ journal' = [journal EXCEPT ![call[p].approval] =
                            [phase |-> "prepared", post |-> call[p].post]]
           /\ UNCHANGED stage
           /\ (Go(p, "begin") /\ UNCHANGED lock) \/ Return(p, "recovery")
  <2>1. /\ journal' \in [Approval -> Entry \cup {NoEntry}]
        /\ journal'[call[p].approval] # NoEntry
        /\ journal'[call[p].approval].phase = "prepared"
        /\ \A a \in Approval \ {call[p].approval} : journal'[a] = journal[a]
    <3>1. [phase |-> "prepared", post |-> call[p].post] \in Entry
      BY <1>0, CallShape DEF Entry, Phase
    <3> QED BY <1>0, <1>2, <3>1, NoValues DEF IInv, TypeOK, Phased
  <2>2. JournalFine
    BY <1>0, <2>1 DEF JournalFine, Phased
  <2>3. Quiet
    BY <1>1, <1>2, <2>2, Sides DEF Quiet
  <2>4. CASE Go(p, "begin") /\ UNCHANGED lock
    <3>1. Standing(p)'
      BY <1>0, <2>1, <2>4, GoesOn, StageSets DEF Standing, Phased, IInv, Locked
    <3> QED BY <1>0, <2>3, <2>4, <3>1, NextStepPreserves DEF Locked
  <2>5. CASE Return(p, "recovery")
    BY <1>0, <2>3, <2>5, AnswerPreserves DEF Outcome
  <2> QED BY <1>2, <2>4, <2>5
<1>3. CASE /\ Unmarked /\ Return(p, "rejected")
           /\ stage' \in {stage, [stage EXCEPT ![call[p].approval] = "none"]}
  <2>1. Quiet
    BY <1>1, <1>3, Sides, SetStageTyped DEF Quiet, Unmarked
  <2> QED BY <1>0, <1>3, <2>1, AnswerPreserves DEF Outcome
<1> QED BY <1>2, <1>3 DEF Reserve

LEMMA BeginPreserves ==
    ASSUME IInv, NEW p \in Process, Begin(p)
    PROVE  IInv'
<1>0. /\ call[p] # NoCall /\ call[p].approval \in Approval
      /\ lock = p /\ Phased(call[p].approval, "prepared")
  BY AtStep DEF Begin, Locked, Standing
<1>1. CatalogMoves
  BY BeginMoves, Sides DEF Begin
<1>2. Quiet
  BY <1>1, Sides DEF Begin, Quiet, files, history
<1>3. CASE Go(p, "resume") /\ UNCHANGED lock
  <2>1. Standing(p)'
    BY <1>0, <1>3, GoesOn, StageSets DEF Standing, Phased, InPhase, IInv, Locked, Begin
  <2> QED BY <1>0, <1>2, <1>3, <2>1, NextStepPreserves DEF Locked
<1>4. CASE Return(p, "recovery")
  BY <1>0, <1>2, <1>4, AnswerPreserves DEF Outcome
<1> QED BY <1>3, <1>4 DEF Begin

-----------------------------------------------------------------------------
(* The steps of ResumeAsync up to the closing of the drawing.              *)

LEMMA ResumePreserves ==
    ASSUME IInv, NEW p \in Process, Resume(p)
    PROVE  IInv'
<1>0. /\ call[p] # NoCall /\ call[p].approval \in Approval /\ lock = p
      /\ InPhase(call[p].approval, {"prepared", "replaced", "verified"})
  BY AtStep DEF Resume, Locked, Standing
<1>1. UNCHANGED <<artifact, target, stage, backup, doc, calm, latest, meddled>>
  BY DEF Resume, files, history
<1>2. UNCHANGED <<catalog, journal>> => Quiet
  BY <1>1, Sides DEF Quiet
<1>3. Backed
  BY DEF IInv, Data
<1>4. CASE Quarantine(p)
  BY <1>0, <1>1, <1>4, QuarantinePreserves, Sides DEF Quarantine, InPhase, EntryOf
<1>5. ASSUME NEW step \in {"markReplaced", "enter", "reopen", "verified"},
             Go(p, step), UNCHANGED <<catalog, journal, lock>>,
             step \in {"markReplaced", "enter"} => Phased(call[p].approval, "prepared"),
             step = "markReplaced" => Replaced(p),
             step = "enter" => NotReplaced(p),
             step = "reopen" => Phased(call[p].approval, "replaced"),
             step = "verified" => Phased(call[p].approval, "verified")
      PROVE  IInv'
  <2>1. step \in Locked
    BY DEF Locked
  <2>2. call'[p].at = step /\ call'[p].approval = call[p].approval
    BY <1>0, <1>5, <2>1, GoesOn, StageSets DEF IInv
  <2>3. EntryOf(p) \in Entry
    BY <1>0 DEF InPhase, EntryOf, IInv, TypeOK
  <2>4. step = "markReplaced" => backup[call[p].approval] # "none"
    BY <1>5, <2>3, EntryShape DEF Replaced, FactsMatch, Content
  <2>5. step = "enter" => backup[call[p].approval] = "none"
    BY <1>5 DEF NotReplaced
  <2>6. Standing(p)'
    BY <1>0, <1>1, <1>5, <2>2, <2>4, <2>5 DEF Standing, Phased
  <2> QED BY <1>0, <1>2, <1>5, <2>1, <2>6, NextStepPreserves
<1>6. Reached(p) = "prepared" <=> Phased(call[p].approval, "prepared")
  BY <1>0 DEF Reached, EntryOf, Phased, InPhase
<1>7. CASE Reached(p) = "prepared"
  BY <1>4, <1>5, <1>6, <1>7 DEF Resume
<1>8. CASE Reached(p) # "prepared"
  <2>1. /\ Go(p, IF Reached(p) = "replaced" THEN "reopen" ELSE "verified")
        /\ UNCHANGED <<catalog, journal, lock>>
    BY <1>8 DEF Resume
  <2>2. \/ Reached(p) = "replaced" /\ Phased(call[p].approval, "replaced")
        \/ Reached(p) = "verified" /\ Phased(call[p].approval, "verified")
    BY <1>0, <1>8 DEF Reached, EntryOf, Phased, InPhase
  <2> QED BY <1>5, <2>1, <2>2
<1> QED BY <1>7, <1>8

LEMMA EnterReplacementPreserves ==
    ASSUME IInv, NEW p \in Process, EnterReplacement(p)
    PROVE  IInv'
<1>0. /\ call[p] # NoCall /\ call[p].approval \in Approval /\ lock = p
      /\ Phased(call[p].approval, "prepared") /\ backup[call[p].approval] = "none"
  BY AtStep DEF EnterReplacement, Locked, Standing
<1>1. UNCHANGED <<artifact, target, stage, backup, doc, calm, latest, meddled>>
  BY DEF EnterReplacement, files, history
<1>2. CASE Quarantine(p)
  BY <1>0, <1>1, <1>2, QuarantinePreserves, Sides DEF Quarantine, Phased, EntryOf
<1>3. CASE /\ \/ Change("available", "restoring") /\ Go(p, "inspect") /\ UNCHANGED lock
              \/ /\ Refuse("available", "restoring") \/ Throws("available", "restoring")
                 /\ Return(p, IF call[p].fresh THEN "recovery" ELSE "failed")
           /\ UNCHANGED journal
  <2>1. Quiet
    BY <1>1, <1>3, BeginMoves, Sides DEF Quiet
  <2>2. CASE Go(p, "inspect") /\ UNCHANGED lock
    <3>1. Standing(p)'
      BY <1>0, <1>1, <1>3, <2>2, GoesOn, StageSets DEF Standing, Phased, IInv, Locked
    <3> QED BY <1>0, <2>1, <2>2, <3>1, NextStepPreserves DEF Locked
  <2>3. CASE Return(p, IF call[p].fresh THEN "recovery" ELSE "failed")
    BY <1>0, <2>1, <2>3, AnswerPreserves DEF Outcome
  <2> QED BY <1>3, <2>2, <2>3
<1> QED BY <1>2, <1>3 DEF EnterReplacement

LEMMA OpenedFine ==
    ASSUME IInv, NEW p \in Process, CanOpen(p), doc' = Opened(p)
    PROVE  DocFine
BY NoValues DEF DocFine, CanOpen, Opened, IInv, TypeOK

LEMMA ThrownAnswers ==
    ASSUME IInv, NEW p \in Process, Thrown(p)
    PROVE  CatalogMoves /\ \E o \in Outcome : Return(p, o)
BY QuarantineMoves, Sides DEF Thrown, Outcome

LEMMA InspectPreserves ==
    ASSUME IInv, NEW p \in Process, Inspect(p)
    PROVE  IInv'
<1>0. /\ call[p] # NoCall /\ call[p].approval \in Approval /\ lock = p
      /\ Phased(call[p].approval, "prepared") /\ backup[call[p].approval] = "none"
  BY AtStep DEF Inspect, Locked, Standing
<1>1. UNCHANGED <<artifact, target, backup, calm, latest, meddled>>
  BY DEF Inspect, history
<1>2. CASE /\ CanOpen(p) /\ doc' = Opened(p)
           /\ Fit(p) /\ Go(p, "close") /\ UNCHANGED <<catalog, journal, lock, stage>>
  <2>1. Quiet
    BY <1>1, <1>2, OpenedFine, Sides DEF Quiet
  <2>2. meddled = 0 => target \notin Gone
    <3>1. target \in Gone => doc.by = Nobody \/ doc.content # "post" \/ meddled # 0
      BY DEF IInv, Data, Once
    <3>2. CASE doc.by = p
      BY <1>2, <3>1, <3>2, NoValues DEF Fit, Opened
    <3>3. CASE doc.by # p
      BY <1>2, <3>3 DEF Fit, Opened, Gone
    <3> QED BY <3>2, <3>3
  <2>3. Standing(p)'
    BY <1>0, <1>1, <1>2, <2>2, GoesOn, StageSets DEF Standing, Phased, IInv, Locked, Gone
  <2> QED BY <1>0, <1>2, <2>1, <2>3, NextStepPreserves DEF Locked
<1>3. CASE /\ CanOpen(p) /\ doc' = Opened(p)
           /\ Return(p, "cancelled") /\ UNCHANGED <<catalog, journal, stage>>
  <2>1. Quiet
    BY <1>1, <1>3, OpenedFine, Sides DEF Quiet
  <2> QED BY <1>0, <1>3, <2>1, AnswerPreserves DEF Outcome
<1>4. CASE /\ CanOpen(p) /\ doc' = Opened(p)
           /\ Thrown(p) /\ UNCHANGED <<journal, stage>>
  <2>1. Quiet
    BY <1>1, <1>4, OpenedFine, ThrownAnswers, Sides DEF Quiet
  <2> QED BY <1>0, <1>4, <2>1, ThrownAnswers, AnswerPreserves
<1>5. CASE /\ CanOpen(p) /\ doc' = Opened(p)
           /\ Mark(p, "quarantined") /\ TryQuarantineCatalog
           /\ SetStage(p, "none") \/ UNCHANGED stage
           /\ Return(p, "quarantined")
  <2>1. DocFine /\ stage' \in [Approval -> {"pre", "partial", "none"}]
    BY <1>5, OpenedFine, SetStageTyped, Sides
  <2> QED BY <1>0, <1>1, <1>5, <2>1, QuarantinePreserves DEF Phased, EntryOf
<1>6. CASE /\ CanOpen(p) /\ doc' = Opened(p)
           /\ Unmarked \/ Mark(p, "quarantined")
           /\ Return(p, "recovery") /\ UNCHANGED <<catalog, stage>>
  <2>1. JournalFine
    BY <1>0, <1>6, MarkIsFine, Sides DEF Unmarked, Phased, EntryOf, Phase, IInv
  <2>2. Quiet
    BY <1>1, <1>6, <2>1, OpenedFine, Sides DEF Quiet
  <2> QED BY <1>0, <1>6, <2>2, AnswerPreserves DEF Outcome
<1>7. CASE Return(p, "recovery") /\ UNCHANGED <<catalog, journal, stage, doc>>
  <2>1. Quiet
    BY <1>1, <1>7, Sides DEF Quiet
  <2> QED BY <1>0, <1>7, <2>1, AnswerPreserves DEF Outcome
<1> QED BY <1>2, <1>3, <1>4, <1>5, <1>6, <1>7 DEF Inspect

LEMMA AfterFailurePreserves ==
    ASSUME IInv, NEW p \in Process, call[p] # NoCall, lock = p,
           Phased(call[p].approval, "prepared"), AfterFailure(p),
           UNCHANGED <<files, doc, calm, history>>
    PROVE  IInv'
<1>1. CASE Return(p, "recovery") /\ UNCHANGED <<catalog, journal>>
  <2>1. Quiet
    BY <1>1, Sides DEF Quiet, files, history
  <2> QED BY <1>1, <2>1, AnswerPreserves DEF Outcome
<1>2. CASE Quarantine(p)
  BY <1>2, QuarantinePreserves, Sides DEF Quarantine, Phased, EntryOf, files, history
<1> QED BY <1>1, <1>2 DEF AfterFailure

LEMMA ClosePreserves ==
    ASSUME IInv, NEW p \in Process, Close(p) \/ CloseFails(p) \/ ReplaceFails(p)
    PROVE  IInv'
<1>0. /\ call[p] # NoCall /\ call[p].approval \in Approval /\ lock = p
      /\ Phased(call[p].approval, "prepared") /\ backup[call[p].approval] = "none"
      /\ meddled = 0 => target \notin Gone
  <2>1. At(p, "close") \/ At(p, "replace")
    BY DEF Close, CloseFails, ReplaceFails
  <2> QED BY <2>1, AtStep DEF Locked, Standing
<1>1. CASE Close(p)
  <2>1. DocFine
    BY <1>1 DEF Close, DocFine, IInv, TypeOK
  <2>2. Quiet
    BY <1>1, <2>1, Sides DEF Close, Quiet, files
  <2>3. Standing(p)'
    BY <1>0, <1>1, GoesOn, StageSets DEF Close, files, Standing, Phased, IInv, Locked, Gone
  <2> QED BY <1>0, <1>1, <2>2, <2>3, NextStepPreserves DEF Close, Locked
<1>2. CASE CloseFails(p) \/ ReplaceFails(p)
  BY <1>0, <1>2, AfterFailurePreserves DEF CloseFails, ReplaceFails
<1> QED BY <1>1, <1>2

-----------------------------------------------------------------------------
(* The replacement, and what follows it.                                   *)

\* Whoever is in the lock, or at its door, has gone on or left.
LEMMA HolderMoves ==
    ASSUME IInv, NEW p \in Process, lock \in {p, Nobody},
           TypeOK', Data', \A q \in Process \ {p} : call'[q] = call[q],
           \/ lock' = Nobody /\ (call'[p] # NoCall => call'[p].at \notin Locked)
           \/ /\ lock' = p /\ call'[p] # NoCall /\ call'[p].at \in Locked
              /\ Standing(p)'
    PROVE  IInv'
<1>1. Holding'
  BY NoValues DEF IInv, Holding
<1>2. Holder'
  BY NoValues DEF Holder
<1> QED BY <1>1, <1>2 DEF IInv

\* The drawing moves into the backup of an attempt that had none.
LEMMA BackupKeeps ==
    ASSUME IInv, NEW p \in Process, call[p].approval \in Approval,
           Phased(call[p].approval, "prepared"), CanReplace(p),
           meddled = 0 => target \notin Gone,
           target' \in Gone, backup' = BackupTaken(p), CatalogMoves,
           UNCHANGED <<doc, latest, meddled>>,
           \A a \in Approval : \/ journal'[a] = journal[a]
                               \/ a = call[p].approval /\ Phased(a, "quarantined")'
    PROVE  /\ backup' \in [Approval -> Content \cup {"none"}]
           /\ Data'
<1> DEFINE a == call[p].approval
<1>1. /\ backup' \in [Approval -> Content \cup {"none"}]
      /\ backup[a] = "none" /\ target # "none" /\ doc.by = Nobody
      /\ backup'[a] = target
      /\ \A b \in Approval \ {a} : backup'[b] = backup[b]
  BY DEF CanReplace, BackupTaken, IInv, TypeOK
<1>2. \A b \in Approval : Phased(b, "committed")' <=> Phased(b, "committed")
  BY DEF Phased
<1>3. Backed'
  BY <1>1 DEF IInv, Data, Backed, InPhase, Phased
<1>4. UsedUp'
  BY <1>2 DEF IInv, Data, UsedUp, CatalogMoves, Legal
<1>5. Once'
  <2> SUFFICES ASSUME meddled = 0
               PROVE  \A b \in Approval : Taken(b)' => b = a
    BY <1>1 DEF Once
  <2>1. \A b \in Approval : ~Taken(b)
    BY DEF IInv, Data, Once
  <2> QED BY <1>1, <1>2, <2>1 DEF Taken
<1>6. Kept'
  <2>1. latest # "none"
    BY DEF IInv, TypeOK, Content
  <2>2. ~Phased(a, "committed")
    BY DEF Phased
  <2> QED BY <1>1, <1>2, <2>1, <2>2 DEF IInv, Data, Kept
<1> QED BY <1>1, <1>3, <1>4, <1>5, <1>6 DEF Data

LEMMA ReplacePreserves ==
    ASSUME IInv, NEW p \in Process, Replace(p) \/ ReplaceTears(p)
    PROVE  IInv'
<1>0. /\ call[p] # NoCall /\ call[p].approval \in Approval /\ lock = p
      /\ Phased(call[p].approval, "prepared")
      /\ meddled = 0 => target \notin Gone
  BY AtStep DEF Replace, ReplaceTears, Locked, Standing
<1>1. /\ CanReplace(p) /\ target' \in Gone /\ backup' = BackupTaken(p)
      /\ target' \in Content \cup {"none"}
      /\ UNCHANGED <<artifact, doc, calm, latest, meddled>>
  BY DEF Replace, ReplaceTears, Gone, Content, history
<1>2. ASSUME CatalogMoves, journal' \in [Approval -> Entry \cup {NoEntry}],
             \A a \in Approval : \/ journal'[a] = journal[a]
                                 \/ a = call[p].approval /\ Phased(a, "quarantined")',
             stage' \in [Approval -> {"pre", "partial", "none"}],
             lock' \in {p, Nobody}, call' \in [Process -> Call \cup {NoCall}]
      PROVE  TypeOK' /\ Data'
  <2>1. backup' \in [Approval -> Content \cup {"none"}] /\ Data'
    BY <1>0, <1>1, <1>2, BackupKeeps
  <2> QED BY <1>1, <1>2, <2>1 DEF IInv, TypeOK, CatalogMoves, Statuses
<1>3. CASE Replace(p)
  <2>1. /\ call' \in [Process -> Call \cup {NoCall}]
        /\ call'[p] # NoCall /\ call'[p].at = "markReplaced"
        /\ call'[p].approval = call[p].approval
        /\ \A q \in Process \ {p} : call'[q] = call[q]
    BY <1>0, <1>3, GoesOn, StageSets DEF Replace, Locked, IInv
  <2>2. stage' \in [Approval -> {"pre", "partial", "none"}]
    BY <1>3, SetStageTyped DEF Replace
  <2>3. UNCHANGED <<catalog, journal, lock>>
    BY <1>3 DEF Replace
  <2>4. TypeOK' /\ Data'
    BY <1>0, <1>2, <2>1, <2>2, <2>3, Sides DEF IInv, TypeOK
  <2>5. backup'[call[p].approval] # "none"
    BY <1>0, <1>1 DEF BackupTaken, CanReplace, IInv, TypeOK
  <2>6. Standing(p)'
    BY <1>0, <2>1, <2>3, <2>5 DEF Standing, Phased
  <2> QED BY <1>0, <2>1, <2>3, <2>4, <2>6, HolderMoves DEF Locked
<1>4. CASE Quarantine(p) /\ UNCHANGED stage
  <2>1. EntryOf(p) # NoEntry /\ "quarantined" \in Phase
    BY <1>0 DEF Phased, EntryOf, Phase
  <2>2. /\ journal' \in [Approval -> Entry \cup {NoEntry}]
        /\ \A a \in Approval : \/ journal'[a] = journal[a]
                               \/ a = call[p].approval /\ Phased(a, "quarantined")'
    <3>1. CASE Mark(p, "quarantined")
      BY <1>0, <2>1, <3>1, Marking DEF Phased, IInv
    <3>2. CASE Unmarked
      BY <3>2 DEF Unmarked, IInv, TypeOK
    <3> QED BY <1>4, <3>1, <3>2 DEF Quarantine
  <2>3. CatalogMoves
    BY <1>4, QuarantineMoves, Sides DEF Quarantine
  <2>4. /\ call' \in [Process -> Call \cup {NoCall}]
        /\ call'[p].at \notin Locked /\ lock' = Nobody
        /\ \A q \in Process \ {p} : call'[q] = call[q]
    BY <1>0, <1>4, GoesOn, StageSets DEF Quarantine, Return, Outcome, IInv
  <2>5. TypeOK' /\ Data'
    BY <1>2, <1>4, <2>2, <2>3, <2>4, Sides
  <2> QED BY <1>0, <2>4, <2>5, HolderMoves
<1>5. CASE /\ call' = [call EXCEPT ![p] = NoCall]
           /\ lock' = Nobody
           /\ UNCHANGED <<catalog, journal, stage>>
  <2>1. /\ call' \in [Process -> Call \cup {NoCall}] /\ call'[p] = NoCall
        /\ \A q \in Process \ {p} : call'[q] = call[q]
    BY <1>5 DEF IInv, TypeOK
  <2>2. TypeOK' /\ Data'
    BY <1>2, <1>5, <2>1, Sides DEF IInv, TypeOK
  <2> QED BY <1>0, <1>5, <2>1, <2>2, HolderMoves
<1> QED BY <1>3, <1>4, <1>5 DEF ReplaceTears

LEMMA AdvancePreserves ==
    ASSUME IInv, NEW p \in Process, NEW step \in Locked, NEW next \in Locked,
           NEW phase \in {"replaced", "verified"}, Advance(p, step, phase, next),
           EntryOf(p) # NoEntry, EntryOf(p).phase # "committed",
           backup[call[p].approval] # "none",
           UNCHANGED <<catalog, files, doc, calm, history>>,
           Mark(p, phase) /\ Go(p, next) /\ UNCHANGED lock => Standing(p)'
    PROVE  IInv'
<1>0. call[p] # NoCall /\ lock = p
  BY AtStep DEF Advance
<1>1. JournalFine
  BY <1>0, MarkIsFine, Sides DEF Advance, Unmarked, Phase, IInv
<1>2. Quiet
  BY <1>1, Sides DEF Quiet, files, history
<1>3. CASE Mark(p, phase) /\ Go(p, next) /\ UNCHANGED lock
  BY <1>0, <1>2, <1>3, NextStepPreserves
<1>4. CASE Return(p, "recovery")
  BY <1>0, <1>2, <1>4, AnswerPreserves DEF Outcome
<1> QED BY <1>3, <1>4 DEF Advance

LEMMA MarkReplacedPreserves ==
    ASSUME IInv, NEW p \in Process, MarkReplaced(p)
    PROVE  IInv'
<1>0. /\ call[p] # NoCall /\ call[p].approval \in Approval /\ lock = p
      /\ Phased(call[p].approval, "prepared") /\ backup[call[p].approval] # "none"
  BY AtStep DEF MarkReplaced, Advance, Locked, Standing
<1>1. ASSUME Mark(p, "replaced"), Go(p, "reopen")
      PROVE  Standing(p)'
  <2>1. /\ journal'[call[p].approval] # NoEntry
        /\ journal'[call[p].approval].phase = "replaced"
    BY <1>0, <1>1, Marking DEF Phased, EntryOf, Phase, IInv
  <2>2. call'[p].at = "reopen" /\ call'[p].approval = call[p].approval
    BY <1>0, <1>1, GoesOn, StageSets DEF Locked, IInv
  <2> QED BY <2>1, <2>2 DEF Standing, Phased
<1> QED BY <1>0, <1>1, AdvancePreserves DEF MarkReplaced, Phased, EntryOf, Locked

LEMMA MarkVerifiedPreserves ==
    ASSUME IInv, NEW p \in Process, MarkVerified(p)
    PROVE  IInv'
<1>0. /\ call[p] # NoCall /\ call[p].approval \in Approval /\ lock = p
      /\ Phased(call[p].approval, "replaced")
  BY AtStep DEF MarkVerified, Advance, Locked, Standing
<1>1. ASSUME Mark(p, "verified"), Go(p, "verified")
      PROVE  Standing(p)'
  <2>1. /\ journal'[call[p].approval] # NoEntry
        /\ journal'[call[p].approval].phase = "verified"
    BY <1>0, <1>1, Marking DEF Phased, EntryOf, Phase, IInv
  <2>2. call'[p].at = "verified" /\ call'[p].approval = call[p].approval
    BY <1>0, <1>1, GoesOn, StageSets DEF Locked, IInv
  <2> QED BY <2>1, <2>2 DEF Standing, Phased
<1>2. backup[call[p].approval] # "none"
  BY <1>0 DEF IInv, Data, Backed, InPhase, Phased
<1> QED BY <1>0, <1>1, <1>2, AdvancePreserves DEF MarkVerified, Phased, EntryOf, Locked

LEMMA ReopenPreserves ==
    ASSUME IInv, NEW p \in Process, Reopen(p)
    PROVE  IInv'
<1>0. /\ call[p] # NoCall /\ call[p].approval \in Approval /\ lock = p
      /\ Phased(call[p].approval, "replaced")
  BY AtStep DEF Reopen, Locked, Standing
<1>1. UNCHANGED <<artifact, target, stage, backup, calm, latest, meddled>>
  BY DEF Reopen, files, history
<1>2. DocFine
  BY OpenedFine, Sides DEF Reopen
<1>3. CASE Quarantine(p)
  BY <1>0, <1>1, <1>2, <1>3, QuarantinePreserves, Sides DEF Quarantine, Phased, EntryOf
<1>4. UNCHANGED <<catalog, journal>> => Quiet
  BY <1>1, <1>2, Sides DEF Quiet
<1>5. CASE Go(p, "markVerified") /\ UNCHANGED <<catalog, journal, lock>>
  <2>1. Standing(p)'
    BY <1>0, <1>5, GoesOn, StageSets DEF Standing, Phased, Locked, IInv
  <2> QED BY <1>0, <1>4, <1>5, <2>1, NextStepPreserves DEF Locked
<1>6. CASE Return(p, "recovery") /\ UNCHANGED <<catalog, journal>>
  BY <1>0, <1>4, <1>6, AnswerPreserves DEF Outcome
<1> QED BY <1>3, <1>5, <1>6 DEF Reopen

LEMMA VerifiedPreserves ==
    ASSUME IInv, NEW p \in Process, Verified(p)
    PROVE  IInv'
<1>0. /\ call[p] # NoCall /\ call[p].approval \in Approval /\ lock = p
      /\ Phased(call[p].approval, "verified")
  BY AtStep DEF Verified, Locked, Standing
<1>1. UNCHANGED <<artifact, target, stage, backup, doc, calm, latest, meddled>>
  BY DEF Verified, files, history
<1>2. CASE Quarantine(p)
  BY <1>0, <1>1, <1>2, QuarantinePreserves, Sides DEF Quarantine, Phased, EntryOf
<1>3. CatalogMoves /\ UNCHANGED journal => Quiet
  BY <1>1, Sides DEF Quiet
<1>4. CASE target = "pre" /\ Go(p, "complete") /\ UNCHANGED <<catalog, journal, lock>>
  <2>1. Standing(p)'
    BY <1>0, <1>1, <1>4, GoesOn, StageSets DEF Standing, Phased, Locked, IInv
  <2> QED BY <1>0, <1>3, <1>4, <2>1, Sides, NextStepPreserves DEF Locked
<1>5. CASE Return(p, "recovery") /\ UNCHANGED <<catalog, journal>>
  BY <1>0, <1>3, <1>5, Sides, AnswerPreserves DEF Outcome
<1>6. CASE Thrown(p) /\ UNCHANGED journal
  BY <1>0, <1>3, <1>6, ThrownAnswers, AnswerPreserves
<1> QED BY <1>2, <1>4, <1>5, <1>6 DEF Verified

LEMMA CompletePreserves ==
    ASSUME IInv, NEW p \in Process, Complete(p)
    PROVE  IInv'
<1>0. /\ call[p] # NoCall /\ call[p].approval \in Approval /\ lock = p
      /\ Phased(call[p].approval, "verified")
      /\ target = "pre" \/ target = latest
  BY AtStep DEF Complete, Locked, Standing
<1>1. UNCHANGED <<artifact, target, stage, backup, doc, calm, latest, meddled>>
  BY DEF Complete, files, history
<1>2. CASE Quarantine(p)
  BY <1>0, <1>1, <1>2, QuarantinePreserves, Sides DEF Quarantine, Phased, EntryOf
<1>3. CatalogMoves /\ UNCHANGED journal => Quiet
  BY <1>1, Sides DEF Quiet
<1>4. CASE /\ Change("restoring", "consumed") /\ Go(p, "markCommitted")
           /\ UNCHANGED <<journal, lock>>
  <2>1. CatalogMoves
    BY <1>4, ChangeMoves, Sides DEF Legal
  <2>2. status' = "consumed"
    BY <1>4 DEF Change
  <2>3. Standing(p)'
    BY <1>0, <1>1, <1>4, <2>2, GoesOn, StageSets DEF Standing, Phased, Locked, IInv
  <2> QED BY <1>0, <1>3, <1>4, <2>1, <2>3, NextStepPreserves DEF Locked
<1>5. CASE /\ Throws("restoring", "consumed") /\ Return(p, "recovery")
           /\ UNCHANGED journal
  <2>1. CatalogMoves
    BY <1>5, ThrowsMoves, Sides DEF Legal
  <2> QED BY <1>0, <1>3, <1>5, <2>1, AnswerPreserves DEF Outcome
<1> QED BY <1>2, <1>4, <1>5 DEF Complete

\* From here on the backup is no longer needed.
LEMMA MarkCommittedPreserves ==
    ASSUME IInv, NEW p \in Process, MarkCommitted(p)
    PROVE  IInv'
<1> DEFINE a == call[p].approval
<1>0. /\ call[p] # NoCall /\ a \in Approval /\ lock = p
      /\ Phased(a, "verified") /\ status = "consumed"
      /\ target = "pre" \/ target = latest
  BY AtStep DEF MarkCommitted, Advance, Locked, Standing
<1>1. UNCHANGED <<catalog, artifact, target, stage, backup, doc, calm, meddled>>
  BY DEF MarkCommitted, files
<1>2. CASE Mark(p, "committed")
  <2>1. /\ journal' \in [Approval -> Entry \cup {NoEntry}]
        /\ journal'[a] # NoEntry /\ journal'[a].phase = "committed"
        /\ \A b \in Approval \ {a} : journal'[b] = journal[b]
    BY <1>0, <1>2, Marking DEF Phased, EntryOf, Phase, IInv
  <2>2. /\ latest' \in Content
        /\ latest' = target
    <3>1. journal' # journal
      BY <1>0, <2>1 DEF Phased
    <3> QED BY <1>0, <3>1 DEF MarkCommitted, IInv, TypeOK, Content
  <2>3. Backed'
    BY <1>1, <2>1 DEF IInv, Data, Backed, InPhase
  <2>4. UsedUp'
    BY <1>0, <1>1 DEF UsedUp, catalog
  <2>5. Once'
    <3>1. Taken(a)
      BY <1>0 DEF IInv, Data, Backed, InPhase, Phased, Taken
    <3>2. \A b \in Approval : Taken(b)' => Taken(b)
      BY <1>1, <2>1, <3>1 DEF Taken, Phased
    <3> QED BY <1>1, <3>2 DEF IInv, Data, Once
  <2>6. Data'
    BY <1>1, <2>2, <2>3, <2>4, <2>5 DEF Data, Kept
  <2>7. ASSUME call' \in [Process -> Call \cup {NoCall}], lock' \in {p, Nobody}
        PROVE  TypeOK'
    BY <1>1, <2>1, <2>2, <2>7 DEF IInv, TypeOK, catalog
  <2>8. CASE Go(p, "cleanup") /\ UNCHANGED lock
    <3>1. /\ call' \in [Process -> Call \cup {NoCall}]
          /\ call'[p] # NoCall /\ call'[p].at = "cleanup" /\ call'[p].approval = a
          /\ \A q \in Process \ {p} : call'[q] = call[q]
      BY <1>0, <2>8, GoesOn, StageSets DEF Locked, IInv
    <3>2. Standing(p)'
      BY <2>1, <3>1 DEF Standing, Phased
    <3> QED BY <1>0, <2>6, <2>7, <2>8, <3>1, <3>2, HolderMoves DEF Locked
  <2>9. CASE Return(p, "recovery")
    <3>1. /\ call' \in [Process -> Call \cup {NoCall}]
          /\ call'[p].at \notin Locked /\ lock' = Nobody
          /\ \A q \in Process \ {p} : call'[q] = call[q]
      BY <1>0, <2>9, GoesOn, StageSets DEF Return, Outcome, IInv
    <3> QED BY <1>0, <2>6, <2>7, <3>1, HolderMoves
  <2> QED BY <2>8, <2>9 DEF MarkCommitted, Advance
<1>3. CASE Unmarked /\ Return(p, "recovery")
  <2>1. latest' = latest
    BY <1>3 DEF MarkCommitted, Unmarked
  <2>2. Quiet
    BY <1>1, <1>3, <2>1, Sides DEF Quiet, Unmarked
  <2> QED BY <1>0, <1>3, <2>2, AnswerPreserves DEF Outcome
<1> QED BY <1>2, <1>3 DEF MarkCommitted, Advance

LEMMA CleanUpPreserves ==
    ASSUME IInv, NEW p \in Process, Cleanup(p) \/ ReplayCommitted(p)
    PROVE  IInv'
<1> DEFINE a == call[p].approval
<1>0. /\ call[p] # NoCall /\ a \in Approval /\ lock = p /\ Phased(a, "committed")
  <2>1. At(p, "cleanup") \/ At(p, "replay")
    BY DEF Cleanup, ReplayCommitted, CleanUp
  <2> QED BY <2>1, AtStep DEF Locked, Standing
<1>1. UNCHANGED <<catalog, artifact, target, doc, journal, calm, latest, meddled>>
  BY DEF Cleanup, ReplayCommitted, CleanUp, history
<1>2. PICK o \in Outcome : Return(p, o)
  BY DEF Cleanup, ReplayCommitted, CleanUp, Outcome
<1>3. stage' \in [Approval -> {"pre", "partial", "none"}]
  BY SetStageTyped, Sides DEF Cleanup, ReplayCommitted, CleanUp
<1>4. CASE UNCHANGED backup
  <2>1. Quiet
    BY <1>1, <1>3, <1>4, Sides DEF Quiet
  <2> QED BY <1>0, <1>2, <2>1, AnswerPreserves
<1>5. CASE backup' = [backup EXCEPT ![a] = "none"]
  <2>1. /\ backup' \in [Approval -> Content \cup {"none"}] /\ backup'[a] = "none"
        /\ \A b \in Approval \ {a} : backup'[b] = backup[b]
    BY <1>0, <1>5 DEF IInv, TypeOK
  <2>2. Backed'
    BY <1>0, <1>1, <2>1 DEF IInv, Data, Backed, InPhase, Phased
  <2>3. UsedUp'
    BY <1>1 DEF IInv, Data, UsedUp, Phased, catalog
  <2>4. Once'
    <3>1. \A b \in Approval : Taken(b)' => Taken(b)
      BY <1>0, <1>1, <2>1 DEF Taken, Phased
    <3> QED BY <1>1, <3>1 DEF IInv, Data, Once
  <2>5. Kept'
    BY <1>0, <1>1, <2>1 DEF IInv, Data, Kept, Phased
  <2>6. /\ call' \in [Process -> Call \cup {NoCall}]
        /\ call'[p].at \notin Locked /\ lock' = Nobody
        /\ \A q \in Process \ {p} : call'[q] = call[q]
    BY <1>0, <1>2, GoesOn, StageSets DEF Return, IInv
  <2>7. TypeOK'
    BY <1>1, <1>3, <2>1, <2>6 DEF IInv, TypeOK, catalog
  <2> QED BY <1>0, <2>2, <2>3, <2>4, <2>5, <2>6, <2>7, HolderMoves DEF Data
<1> QED BY <1>4, <1>5 DEF Cleanup, ReplayCommitted, CleanUp

-----------------------------------------------------------------------------
(* Around the coordinator.                                                 *)

LEMMA CrashPreserves ==
    ASSUME IInv, NEW p \in Process, Crash(p)
    PROVE  IInv'
<1>1. /\ call' \in [Process -> Call \cup {NoCall}] /\ call'[p] = NoCall
      /\ \A q \in Process \ {p} : call'[q] = call[q]
  BY DEF Crash, IInv, TypeOK
<1>2. DocFine
  BY DEF Crash, Closed, DocFine, Content, IInv, TypeOK
<1>3. /\ UNCHANGED <<catalog, artifact, target, stage, backup, journal, calm, latest, meddled>>
      /\ CatalogMoves /\ JournalFine
  BY Sides DEF Crash, files, history
<1>4. CASE lock = p
  <2>1. lock' = Nobody
    BY <1>4 DEF Crash
  <2>2. Data'
    BY <1>2, <1>3, DataStands DEF IInv
  <2>3. TypeOK'
    BY <1>1, <1>2, <1>3, <2>1 DEF DocFine, IInv, TypeOK, catalog
  <2> QED BY <1>1, <1>4, <2>1, <2>2, <2>3, HolderMoves
<1>5. CASE lock # p
  BY <1>1, <1>2, <1>3, <1>5, OutsidePreserves DEF Crash, DocFine, IInv, TypeOK
<1> QED BY <1>4, <1>5

LEMMA UserOpensPreserves ==
    ASSUME IInv, NEW p \in Process, UserOpens(p)
    PROVE  IInv'
<1>1. DocFine
  BY DEF UserOpens, DocFine, IInv, TypeOK
<1> QED BY <1>1, Sides, OutsidePreserves
        DEF UserOpens, DocFine, files, history, IInv, TypeOK

LEMMA MeddlingPreserves ==
    ASSUME IInv, UserEdits \/ UserCloses \/ Damage
    PROVE  IInv'
<1>1. meddled' = meddled + 1 /\ meddled' \in 0..MaxMeddling
  BY Flags DEF UserEdits, UserCloses, Damage, Meddle, IInv, TypeOK
<1>2. UNCHANGED <<catalog, target, stage, backup, journal, lock, call, calm, latest>>
  BY DEF UserEdits, UserCloses, Damage, files
<1>3. doc' \in [by : Process \cup {Nobody}, content : Content]
  BY DEF UserEdits, UserCloses, Damage, Closed, Content, IInv, TypeOK
<1>4. artifact' \in {"pre", "altered"}
  BY DEF UserEdits, UserCloses, Damage, files, IInv, TypeOK
<1> QED BY <1>1, <1>2, <1>3, <1>4, Sides, OutsidePreserves DEF IInv, TypeOK

\* A save changes the drawing in the middle of anything.
LEMMA UserSavesPreserves ==
    ASSUME IInv, UserSaves
    PROVE  IInv'
<1>1. /\ meddled' \in 0..MaxMeddling /\ meddled' # 0
      /\ target' = "other" /\ latest' = "other"
      /\ UNCHANGED <<catalog, artifact, stage, backup, doc, journal, lock, call, calm>>
  BY Flags DEF UserSaves, Meddle, IInv, TypeOK
<1>2. TypeOK'
  BY <1>1 DEF IInv, TypeOK, Content, catalog
<1>3. Holding'
  BY <1>1 DEF IInv, Holding
<1>4. Data'
  BY <1>1 DEF IInv, Data, Backed, UsedUp, Once, Kept, InPhase, Phased, catalog
<1>5. Holder'
  BY <1>1 DEF IInv, Holder, Standing, Phased, InPhase, catalog
<1> QED BY <1>2, <1>3, <1>4, <1>5 DEF IInv

LEMMA StillPreserves ==
    ASSUME IInv, CalmDown \/ UNCHANGED vars
    PROVE  IInv'
<1>1. UNCHANGED <<catalog, artifact, target, stage, backup, doc, journal, lock, call,
                  latest, meddled>>
  BY DEF CalmDown, vars, files, history
<1>2. calm' \in BOOLEAN
  BY DEF CalmDown, vars, IInv, TypeOK
<1> QED BY <1>1, <1>2, Sides, OutsidePreserves DEF IInv, TypeOK

LEMMA StepPreserves ==
    ASSUME IInv, NEW p \in Process, Step(p)
    PROVE  IInv'
BY TurnedAwayPreserves, EnterPreserves, PreparePreserves, ReservePreserves,
   BeginPreserves, ResumePreserves, EnterReplacementPreserves, InspectPreserves,
   ClosePreserves, ReplacePreserves, MarkReplacedPreserves, ReopenPreserves,
   MarkVerifiedPreserves, VerifiedPreserves, CompletePreserves,
   MarkCommittedPreserves, CleanUpPreserves
   DEF Step

LEMMA NextPreserves ==
    ASSUME IInv, [Next \/ CalmDown]_vars
    PROVE  IInv'
<1>1. CASE \E p \in Process : Step(p) \/ Crash(p) \/ UserOpens(p)
  BY <1>1, StepPreserves, CrashPreserves, UserOpensPreserves
<1>2. CASE \E p \in Process, a \in Approval : Retry(p, a)
  BY <1>2, StartPreserves DEF Retry
<1>3. CASE UserEdits \/ UserSaves \/ UserCloses \/ Damage
  BY <1>3, MeddlingPreserves, UserSavesPreserves
<1>4. CASE CalmDown \/ UNCHANGED vars
  BY <1>4, StillPreserves
<1> QED BY <1>1, <1>2, <1>3, <1>4 DEF Next

LEMMA InitHolds == Init => IInv
<1> SUFFICES ASSUME Init PROVE IInv
  OBVIOUS
<1>1. TypeOK
  <2>1. /\ doc \in [by : Process \cup {Nobody}, content : Content]
        /\ target \in Content
    BY DEF Init, Content
  <2>2. meddled \in 0..MaxMeddling
    BY Flags DEF Init
  <2> QED BY <2>1, <2>2 DEF Init, TypeOK
<1>2. Holding
  BY NoValues DEF Init, Holding
<1>3. Data
  BY DEF Init, Data, Backed, UsedUp, Once, Kept, InPhase, Phased, Taken, Gone
<1>4. Holder
  BY NoValues DEF Init, Holder
<1> QED BY <1>1, <1>2, <1>3, <1>4 DEF IInv

(***************************************************************************)
(* Whatever the processes, the crashes and the engineer do, the journal,   *)
(* the catalog and the files stay related as Data says, and the holder of  *)
(* the execution lock finds them as its step needs them.  The last part    *)
(* says it of every behaviour in which the trouble may come to an end.     *)
(***************************************************************************)
THEOREM RestoreInvariant ==
    /\ Spec => []IInv
    /\ FairSpec => []IInv
<1>1. IInv /\ [Next]_vars => IInv'
  BY NextPreserves
<1>2. IInv /\ [Next \/ CalmDown]_vars => IInv'
  BY NextPreserves
<1>3. Spec => []IInv
  BY <1>1, InitHolds, PTL DEF Spec
<1>4. Init /\ [][Next \/ CalmDown]_vars => []IInv
  BY <1>2, InitHolds, PTL
<1> QED BY <1>3, <1>4, PTL DEF FairSpec

(***************************************************************************)
(* Every variable keeps its type.                                          *)
(***************************************************************************)
THEOREM RestoreTypeCorrect == Spec => []TypeOK
<1>1. IInv => TypeOK
  BY DEF IInv
<1> QED BY <1>1, RestoreInvariant, PTL

(***************************************************************************)
(* The checkpoint is restored for one approval at most as long as nobody   *)
(* brings the drawing back to the approved revision, and a committed       *)
(* restore has used it up: BeginRestore, Complete and the phases of the    *)
(* journal together, for any number of approvals and processes.            *)
(***************************************************************************)
THEOREM RestoredForOne == Spec => []OneRestore
<1>1. IInv => OneRestore
  BY DEF IInv, Data, UsedUp, Once, Taken, OneRestore
<1> QED BY <1>1, RestoreInvariant, PTL

(***************************************************************************)
(* What was last saved into the drawing on purpose is never lost, even     *)
(* when File.Replace stops between its two renames.                        *)
(***************************************************************************)
THEOREM NothingIsLost == Spec => []NothingLost
<1>1. IInv => NothingLost
  BY DEF IInv, Data, Kept, NothingLost
<1> QED BY <1>1, RestoreInvariant, PTL

-----------------------------------------------------------------------------
(* The catalog: every step makes a legal move of it.                      *)

LEMMA StepMoves ==
    ASSUME IInv, NEW p \in Process, Step(p)
    PROVE  CatalogMoves
<1>1. UNCHANGED catalog => CatalogMoves
  BY Sides
<1>2. TryQuarantineCatalog => CatalogMoves
  BY QuarantineMoves, Sides
<1>3. Quarantine(p) => CatalogMoves
  BY <1>2 DEF Quarantine
<1>4. Thrown(p) => CatalogMoves
  BY <1>1, <1>2 DEF Thrown
<1>5. AfterFailure(p) => CatalogMoves
  BY <1>1, <1>3 DEF AfterFailure
<1>6. CASE TurnedAway(p) \/ Enter(p)
  BY <1>1, <1>2, <1>6 DEF TurnedAway, Enter
<1>7. CASE PrepareQuarantines(p) \/ PrepareRejects(p) \/ Prepare(p) \/ Reserve(p)
  BY <1>1, <1>2, <1>7 DEF PrepareQuarantines, PrepareRejects, Prepare, Reserve
<1>8. CASE Begin(p) \/ EnterReplacement(p)
  BY <1>3, <1>8, BeginMoves, Sides DEF Begin, EnterReplacement
<1>9. CASE Resume(p) \/ Reopen(p) \/ Verified(p)
  BY <1>1, <1>3, <1>4, <1>9 DEF Resume, Reopen, Verified
<1>10. CASE Inspect(p)
  BY <1>1, <1>2, <1>4, <1>10 DEF Inspect
<1>11. CASE Close(p) \/ CloseFails(p) \/ ReplaceFails(p)
  BY <1>1, <1>5, <1>11 DEF Close, CloseFails, ReplaceFails
<1>12. CASE Replace(p) \/ ReplaceTears(p)
  BY <1>1, <1>3, <1>12 DEF Replace, ReplaceTears
<1>13. CASE \/ MarkReplaced(p) \/ MarkVerified(p) \/ MarkCommitted(p)
            \/ Cleanup(p) \/ ReplayCommitted(p)
  BY <1>1, <1>13 DEF MarkReplaced, MarkVerified, MarkCommitted, Cleanup,
                     ReplayCommitted, CleanUp
<1>14. CASE Complete(p)
  BY <1>3, <1>14, ChangeMoves, ThrowsMoves, Sides DEF Complete, Legal
<1> QED BY <1>6, <1>7, <1>8, <1>9, <1>10, <1>11, <1>12, <1>13, <1>14 DEF Step

LEMMA NextMoves ==
    ASSUME IInv, [Next]_vars
    PROVE  CatalogMoves
<1>1. UNCHANGED catalog => CatalogMoves
  BY Sides
<1>2. CASE \E p \in Process : Step(p)
  BY <1>2, StepMoves
<1>3. CASE \E p \in Process, a \in Approval : Retry(p, a)
  BY <1>1, <1>3, ReadMoves, ThrowsMoves, Sides DEF Retry, Start, StartFails
<1>4. CASE \E p \in Process : Crash(p) \/ UserOpens(p)
  BY <1>1, <1>4 DEF Crash, UserOpens
<1>5. CASE UserEdits \/ UserSaves \/ UserCloses \/ Damage \/ UNCHANGED vars
  BY <1>1, <1>5 DEF UserEdits, UserSaves, UserCloses, Damage, vars
<1> QED BY <1>2, <1>3, <1>4, <1>5 DEF Next

-----------------------------------------------------------------------------
(* The journal only goes forward.                                          *)

Forward(a) ==
    journal[a] # NoEntry /\ journal'[a] # journal[a] =>
        /\ journal'[a] # NoEntry
        /\ journal'[a].post = journal[a].post
        /\ Rank(journal'[a].phase) > Rank(journal[a].phase)

LEMMA MarkForward ==
    ASSUME IInv, NEW p \in Process, call[p] # NoCall, EntryOf(p) # NoEntry,
           NEW phase \in Phase, Mark(p, phase) \/ Unmarked,
           Rank(phase) > Rank(EntryOf(p).phase), NEW a \in Approval
    PROVE  Forward(a)
<1>1. CASE Mark(p, phase)
  BY <1>1, Marking DEF Forward, EntryOf, IInv
<1>2. CASE Unmarked
  BY <1>2 DEF Forward, Unmarked
<1> QED BY <1>1, <1>2

LEMMA QuarantineForward ==
    ASSUME IInv, NEW p \in Process, call[p] # NoCall,
           InPhase(call[p].approval, {"prepared", "replaced", "verified"}),
           Mark(p, "quarantined") \/ Unmarked, NEW a \in Approval
    PROVE  Forward(a)
<1>1. Rank("quarantined") > Rank(EntryOf(p).phase)
  BY DEF Rank, InPhase, EntryOf
<1> QED BY <1>1, MarkForward DEF InPhase, EntryOf, Phase

LEMMA StepForward ==
    ASSUME IInv, NEW p \in Process, Step(p), NEW a \in Approval
    PROVE  Forward(a)
<1>1. journal' = journal => Forward(a)
  BY DEF Forward
<1>2. CASE \/ TurnedAway(p) \/ Enter(p)
           \/ PrepareQuarantines(p) \/ PrepareRejects(p) \/ Prepare(p)
           \/ Begin(p) \/ Close(p) \/ Replace(p) \/ Cleanup(p) \/ ReplayCommitted(p)
  BY <1>1, <1>2 DEF TurnedAway, Enter, PrepareQuarantines, PrepareRejects, Prepare,
                    Begin, Close, Replace, Cleanup, ReplayCommitted, CleanUp
<1>3. CASE Reserve(p)
  <2>1. call[p].approval \in Approval /\ journal[call[p].approval] = NoEntry
    BY <1>3, AtStep DEF Reserve, Locked, Standing
  <2> QED BY <1>3, <2>1 DEF Reserve, Unmarked, Forward, IInv, TypeOK
<1>4. CASE \/ Resume(p) \/ EnterReplacement(p) \/ Inspect(p) \/ CloseFails(p)
           \/ ReplaceFails(p) \/ ReplaceTears(p) \/ Reopen(p) \/ Verified(p) \/ Complete(p)
  <2>1. /\ call[p] # NoCall
        /\ InPhase(call[p].approval, {"prepared", "replaced", "verified"})
    <3>1. PICK step \in {"resume", "enter", "inspect", "close", "replace", "reopen",
                         "verified", "complete"} : At(p, step)
      BY <1>4 DEF Resume, EnterReplacement, Inspect, CloseFails, ReplaceFails,
                  ReplaceTears, Reopen, Verified, Complete
    <3>2. step \in Locked
      BY DEF Locked
    <3> QED BY <3>1, <3>2, AtStep DEF Standing, Phased, InPhase
  <2>2. Mark(p, "quarantined") \/ Unmarked
    BY <1>4 DEF Resume, EnterReplacement, Inspect, CloseFails, ReplaceFails, AfterFailure,
                ReplaceTears, Reopen, Verified, Complete, Quarantine, Unmarked
  <2> QED BY <2>1, <2>2, QuarantineForward
<1>5. ASSUME NEW step \in Locked, NEW phase \in Phase, NEW next, NEW before,
             Advance(p, step, phase, next), Phased(call[p].approval, before),
             Rank(phase) > Rank(before)
      PROVE  Forward(a)
  BY <1>5, MarkForward DEF Advance, At, Phased, EntryOf
<1>6. /\ Rank("replaced") > Rank("prepared")
      /\ Rank("verified") > Rank("replaced")
      /\ Rank("committed") > Rank("verified")
  BY DEF Rank
<1>7. CASE MarkReplaced(p)
  <2>1. Phased(call[p].approval, "prepared")
    BY <1>7, AtStep DEF MarkReplaced, Advance, Locked, Standing
  <2> QED BY <1>5, <1>6, <1>7, <2>1 DEF MarkReplaced, Locked, Phase
<1>8. CASE MarkVerified(p)
  <2>1. Phased(call[p].approval, "replaced")
    BY <1>8, AtStep DEF MarkVerified, Advance, Locked, Standing
  <2> QED BY <1>5, <1>6, <1>8, <2>1 DEF MarkVerified, Locked, Phase
<1>9. CASE MarkCommitted(p)
  <2>1. Phased(call[p].approval, "verified")
    BY <1>9, AtStep DEF MarkCommitted, Advance, Locked, Standing
  <2> QED BY <1>5, <1>6, <1>9, <2>1 DEF MarkCommitted, Locked, Phase
<1> QED BY <1>2, <1>3, <1>4, <1>7, <1>8, <1>9 DEF Step

LEMMA NextForward ==
    ASSUME IInv, [Next]_vars, NEW a \in Approval
    PROVE  Forward(a)
<1>1. CASE \E p \in Process : Step(p)
  BY <1>1, StepForward
<1>2. CASE UNCHANGED journal
  BY <1>2 DEF Forward
<1> QED BY <1>1, <1>2
        DEF Next, Retry, Start, StartFails, Crash, UserOpens, UserEdits, UserSaves,
            UserCloses, Damage, vars

(***************************************************************************)
(* No call, crash or retry takes a journal entry back a phase, changes the *)
(* revision it was made for, or reopens one that is over.                  *)
(***************************************************************************)
THEOREM RestoreOnlyForward == Spec => OnlyForward
<1>1. IInv /\ [Next]_vars => [\A a \in Approval : Forward(a)]_vars
  BY NextForward
<1> QED BY <1>1, RestoreInvariant, PTL DEF Spec, OnlyForward, Forward

-----------------------------------------------------------------------------
(* The checkpoint is used up by its restore only.                          *)

LEMMA StepConsumes ==
    ASSUME IInv, NEW p \in Process, Step(p), status' = "consumed", status # "consumed"
    PROVE  At(p, "complete")
<1>0. CatalogTyped
  BY Sides
<1>1. ~ UNCHANGED catalog
  BY DEF catalog
<1>2. \A s \in Loaded : s # "consumed"
  BY <1>0, LoadedMoves
<1>3. ASSUME NEW from, NEW to, to # "consumed"
      PROVE  ~ Change(from, to) /\ ~ Refuse(from, to) /\ ~ Throws(from, to)
  BY <1>1, <1>2, <1>3 DEF Change, Refuse, Read, Throws
<1>4. ~ TryQuarantineCatalog
  BY <1>2, <1>3 DEF TryQuarantineCatalog, Read
<1>5. ~ Quarantine(p) /\ ~ Thrown(p) /\ ~ AfterFailure(p)
  BY <1>1, <1>4 DEF Quarantine, Thrown, AfterFailure
<1>6. ~ (TurnedAway(p) \/ Enter(p))
  BY <1>1, <1>4 DEF TurnedAway, Enter
<1>7. ~ (PrepareQuarantines(p) \/ PrepareRejects(p) \/ Prepare(p) \/ Reserve(p))
  BY <1>1, <1>4 DEF PrepareQuarantines, PrepareRejects, Prepare, Reserve
<1>8. ~ (Begin(p) \/ EnterReplacement(p))
  BY <1>3, <1>5 DEF Begin, EnterReplacement
<1>9. ~ (Resume(p) \/ Inspect(p))
  BY <1>1, <1>4, <1>5 DEF Resume, Inspect
<1>10. ~ (Close(p) \/ CloseFails(p) \/ ReplaceFails(p) \/ Replace(p) \/ ReplaceTears(p))
  BY <1>1, <1>5 DEF Close, CloseFails, ReplaceFails, Replace, ReplaceTears
<1>11. ~ (Reopen(p) \/ Verified(p))
  BY <1>1, <1>5 DEF Reopen, Verified
<1>12. ~ (\/ MarkReplaced(p) \/ MarkVerified(p) \/ MarkCommitted(p)
          \/ Cleanup(p) \/ ReplayCommitted(p))
  BY <1>1 DEF MarkReplaced, MarkVerified, MarkCommitted, Cleanup, ReplayCommitted, CleanUp
<1> QED BY <1>6, <1>7, <1>8, <1>9, <1>10, <1>11, <1>12 DEF Step, Complete

LEMMA NextConsumes ==
    ASSUME IInv, [Next]_vars, status' = "consumed", status # "consumed"
    PROVE  \E a \in Approval : Phased(a, "verified")
<1>1. CASE \E p \in Process : Step(p)
  BY <1>1, StepConsumes, AtStep DEF Locked, Standing
<1>2. CASE \E p \in Process, a \in Approval : Retry(p, a)
  <2>1. \A s \in Loaded : s # "consumed"
    BY LoadedMoves, Sides
  <2> QED BY <1>2, <2>1 DEF Retry, Start, StartFails, Read, Throws, catalog
<1>3. ~ UNCHANGED catalog
  BY DEF catalog
<1> QED BY <1>1, <1>2, <1>3
        DEF Next, Crash, UserOpens, UserEdits, UserSaves, UserCloses, Damage, vars

\* A backup is not overwritten, and is deleted after its restore only.
LEMMA BackupStays ==
    ASSUME IInv, [Next]_vars, NEW a \in Approval, backup[a] # "none",
           ~Phased(a, "committed")
    PROVE  backup'[a] = backup[a]
<1>1. backup' = backup => backup'[a] = backup[a]
  OBVIOUS
<1>2. CASE \E p \in Process : Replace(p) \/ ReplaceTears(p)
  BY <1>2 DEF Replace, ReplaceTears, CanReplace, BackupTaken, IInv, TypeOK
<1>3. CASE \E p \in Process : Cleanup(p) \/ ReplayCommitted(p)
  <2>1. PICK p \in Process : Cleanup(p) \/ ReplayCommitted(p)
    BY <1>3
  <2>2. call[p].approval \in Approval /\ Phased(call[p].approval, "committed")
    <3>1. At(p, "cleanup") \/ At(p, "replay")
      BY <2>1 DEF Cleanup, ReplayCommitted, CleanUp
    <3> QED BY <3>1, AtStep DEF Locked, Standing
  <2> QED BY <2>1, <2>2 DEF Cleanup, ReplayCommitted, CleanUp, IInv, TypeOK
<1>4. CASE \E p \in Process : Step(p) /\ ~ (\/ Replace(p) \/ ReplaceTears(p)
                                            \/ Cleanup(p) \/ ReplayCommitted(p))
  BY <1>1, <1>4 DEF Step, TurnedAway, Enter, PrepareQuarantines, PrepareRejects, Prepare,
           Reserve, Begin, Resume, EnterReplacement, Inspect, Close, CloseFails,
           ReplaceFails, MarkReplaced, Reopen, MarkVerified, Verified, Complete,
           MarkCommitted, files
<1>5. CASE ~ \E p \in Process : Step(p)
  BY <1>1, <1>5 DEF Next, Retry, Start, StartFails, Crash, UserOpens, UserEdits,
           UserSaves, UserCloses, Damage, files, vars
<1> QED BY <1>2, <1>3, <1>4, <1>5

SpentBy(a) == \/ Phased(a, "verified") \/ Phased(a, "committed")
              \/ Phased(a, "quarantined") /\ backup[a] # "none"

LEMMA SpentByStays ==
    ASSUME IInv, [Next]_vars, NEW a \in Approval, SpentBy(a)
    PROVE  SpentBy(a)'
<1>1. Forward(a)
  BY NextForward
<1>2. TypeOK'
  BY NextPreserves DEF IInv
<1>3. CASE journal'[a] = journal[a]
  BY <1>3, BackupStays DEF SpentBy, Phased
<1>4. CASE journal'[a] # journal[a]
  <2>1. /\ journal'[a] # NoEntry /\ journal'[a].phase \in Phase
        /\ Rank(journal'[a].phase) > Rank(journal[a].phase)
    BY <1>1, <1>2, <1>4, EntryShape DEF SpentBy, Phased, Forward, TypeOK
  <2>2. Phased(a, "verified") /\ journal'[a].phase \in {"committed", "quarantined"}
    BY <2>1 DEF SpentBy, Phased, Rank, Phase
  <2>3. backup'[a] # "none"
    BY <2>2, BackupStays DEF IInv, Data, Backed, InPhase, Phased
  <2> QED BY <2>1, <2>2, <2>3 DEF SpentBy, Phased
<1> QED BY <1>3, <1>4

(***************************************************************************)
(* A checkpoint that the catalog calls consumed was restored, verified     *)
(* and is accounted for in the journal or by a backup.                     *)
(***************************************************************************)
THEOREM ConsumedByRestore == Spec => []ConsumedIsRestored
<1>1. Init => ConsumedIsRestored
  BY DEF Init, ConsumedIsRestored
<1>2. ASSUME IInv, ConsumedIsRestored, [Next]_vars, status' = "consumed"
      PROVE  \E a \in Approval : SpentBy(a)'
  <2>1. \E a \in Approval : SpentBy(a)
    BY <1>2, NextConsumes DEF ConsumedIsRestored, SpentBy
  <2> QED BY <1>2, <2>1, SpentByStays
<1>3. IInv /\ ConsumedIsRestored /\ [Next]_vars => ConsumedIsRestored'
  BY <1>2 DEF ConsumedIsRestored, SpentBy
<1> QED BY <1>1, <1>3, RestoreInvariant, PTL DEF Spec

-----------------------------------------------------------------------------
(* The answers.                                                            *)

\* Answers that Truthful asks nothing of.
Untold == Stages \ {"completed", "replayed", "rejected", "cancelled"}

LEMMA UntoldIsTrue ==
    ASSUME IInv, NEW p \in Process, call[p] # NoCall,
           NEW step \in Untold, Go(p, step) \/ Return(p, step)
    PROVE  Truthful(p)'
<1>1. call'[p].at = step
  BY GoesOn DEF Return, Untold, IInv
<1> QED BY <1>1 DEF Truthful, Untold

LEMMA UntoldSteps ==
    /\ {"begin", "resume", "enter", "inspect", "close", "replace", "markReplaced",
        "reopen", "markVerified", "verified", "complete", "markCommitted", "cleanup",
        "replay", "prepare", "reserve"} \subseteq Untold
    /\ {"recovery", "quarantined", "failed"} \subseteq Untold
BY DEF Untold, Stages, Locked, Outcome

\* An answer is given to the caller, and to nobody else.
LEMMA OneIsAnswered ==
    ASSUME IInv, NEW p \in Process, Step(p), NEW q \in Process \ {p}
    PROVE  call'[q] = call[q]
<1>1. call \in [Process -> Call \cup {NoCall}]
  BY DEF IInv, TypeOK
<1>2. ASSUME NEW r, call' = [call EXCEPT ![p] = r] PROVE call'[q] = call[q]
  BY <1>1, <1>2
<1>3. ASSUME NEW step, Go(p, step) \/ Return(p, step) PROVE call'[q] = call[q]
  BY <1>1, <1>3 DEF Go, Return
<1>4. Quarantine(p) \/ Thrown(p) \/ AfterFailure(p) => call'[q] = call[q]
  BY <1>3 DEF Quarantine, Thrown, AfterFailure
<1>5. CASE TurnedAway(p) \/ Enter(p)
  BY <1>3, <1>5 DEF TurnedAway, Enter
<1>6. CASE PrepareQuarantines(p) \/ PrepareRejects(p) \/ Reserve(p) \/ Begin(p)
  BY <1>3, <1>6 DEF PrepareQuarantines, PrepareRejects, Reserve, Begin
<1>7. CASE Prepare(p)
  BY <1>1, <1>7 DEF Prepare
<1>8. CASE Resume(p) \/ EnterReplacement(p)
  BY <1>3, <1>4, <1>8 DEF Resume, EnterReplacement
<1>9. CASE Inspect(p)
  BY <1>3, <1>4, <1>9 DEF Inspect
<1>10. CASE Close(p) \/ CloseFails(p) \/ Replace(p) \/ ReplaceFails(p)
  BY <1>3, <1>4, <1>10 DEF Close, CloseFails, Replace, ReplaceFails
<1>11. CASE ReplaceTears(p)
  BY <1>1, <1>4, <1>11 DEF ReplaceTears
<1>12. CASE MarkReplaced(p) \/ MarkVerified(p) \/ MarkCommitted(p)
  BY <1>3, <1>12 DEF MarkReplaced, MarkVerified, MarkCommitted, Advance
<1>13. CASE Reopen(p) \/ Verified(p) \/ Complete(p)
  BY <1>3, <1>4, <1>13 DEF Reopen, Verified, Complete
<1>14. CASE Cleanup(p) \/ ReplayCommitted(p)
  BY <1>3, <1>14 DEF Cleanup, ReplayCommitted, CleanUp
<1> QED BY <1>5, <1>6, <1>7, <1>8, <1>9, <1>10, <1>11, <1>12, <1>13, <1>14 DEF Step

LEMMA AnswerIsTrue ==
    ASSUME IInv, NEW p \in Process, Step(p), call'[p] # NoCall
    PROVE  Truthful(p)'
<1>0. /\ call[p] # NoCall /\ call[p] \in Call /\ call[p].approval \in Approval
      /\ call \in [Process -> Call \cup {NoCall}]
  <2>1. call[p] # NoCall
    BY DEF Step, TurnedAway, Enter, PrepareQuarantines, PrepareRejects, Prepare, Reserve,
           Begin, Resume, EnterReplacement, Inspect, Close, CloseFails, Replace,
           ReplaceFails, ReplaceTears, MarkReplaced, Reopen, MarkVerified, Verified,
           Complete, MarkCommitted, Cleanup, ReplayCommitted, CleanUp, Advance, At
  <2> QED BY <2>1, CallShape DEF IInv, TypeOK
<1>1. ASSUME NEW step \in Untold, Go(p, step) \/ Return(p, step) PROVE Truthful(p)'
  BY <1>0, <1>1, UntoldIsTrue
<1>2. Quarantine(p) \/ Thrown(p) \/ AfterFailure(p) => Truthful(p)'
  BY <1>1, UntoldSteps DEF Quarantine, Thrown, AfterFailure
\* What is said stays true of the same entry, when nothing else is done.
<1>3. ASSUME NEW o \in Outcome, Return(p, o), UNCHANGED journal,
             o \in {"completed", "replayed"} => Phased(call[p].approval, "committed"),
             o = "rejected" => EntryOf(p) = NoEntry,
             o = "cancelled" =>
               /\ EntryOf(p) # NoEntry => EntryOf(p).phase = "prepared"
               /\ backup[call[p].approval] = "none" /\ UNCHANGED backup
      PROVE  Truthful(p)'
  <2>1. call'[p].at = o /\ call'[p].approval = call[p].approval
    BY <1>0, <1>3, GoesOn, StageSets DEF Return, IInv
  <2> QED BY <1>3, <2>1 DEF Truthful, Phased, EntryOf
<1>4. CASE TurnedAway(p)
  BY <1>1, <1>4, UntoldSteps DEF TurnedAway
<1>5. CASE Enter(p)
  <2>1. CASE EntryOf(p) = NoEntry
    <3>1. backup[call[p].approval] = "none"
      BY <1>0, <2>1 DEF IInv, Data, Backed, EntryOf
    <3>2. CASE Return(p, "rejected") \/ Return(p, "cancelled")
      BY <1>3, <1>5, <2>1, <3>1, <3>2 DEF Enter, Outcome, files
    <3>3. CASE Go(p, "prepare")
      BY <1>1, <3>3, UntoldSteps
    <3> QED BY <1>5, <2>1, <3>2, <3>3 DEF Enter
  <2>2. CASE EntryOf(p) # NoEntry
    BY <1>1, <1>5, <2>2, UntoldSteps DEF Enter
  <2> QED BY <2>1, <2>2
<1>6. CASE PrepareQuarantines(p)
  BY <1>1, <1>6, UntoldSteps DEF PrepareQuarantines
<1>7. CASE PrepareRejects(p)
  <2>1. EntryOf(p) = NoEntry
    BY <1>7, AtStep DEF PrepareRejects, Locked, Standing, EntryOf
  <2> QED BY <1>3, <1>7, <2>1 DEF PrepareRejects, Outcome
<1>8. CASE Prepare(p)
  <2>1. call'[p].at = "reserve"
    BY <1>0, <1>8 DEF Prepare, Call
  <2> QED BY <2>1 DEF Truthful
<1>9. CASE Reserve(p)
  <2>1. EntryOf(p) = NoEntry
    BY <1>9, AtStep DEF Reserve, Locked, Standing, EntryOf
  <2>2. CASE Go(p, "begin") \/ Return(p, "recovery")
    BY <1>1, <2>2, UntoldSteps
  <2>3. CASE Unmarked /\ Return(p, "rejected")
    BY <1>3, <2>1, <2>3 DEF Unmarked, Outcome
  <2> QED BY <1>9, <2>2, <2>3 DEF Reserve
<1>10. CASE Begin(p) \/ Resume(p) \/ EnterReplacement(p)
  BY <1>1, <1>2, <1>10, UntoldSteps DEF Begin, Resume, EnterReplacement
<1>11. CASE Inspect(p)
  <2>1. Phased(call[p].approval, "prepared") /\ backup[call[p].approval] = "none"
    BY <1>11, AtStep DEF Inspect, Locked, Standing
  <2>2. CASE Return(p, "cancelled") /\ UNCHANGED journal
    BY <1>3, <1>11, <2>1, <2>2 DEF Inspect, Outcome, Phased, EntryOf
  <2>3. CASE \/ Go(p, "close") \/ Thrown(p) \/ Return(p, "quarantined")
             \/ Return(p, "recovery")
    BY <1>1, <1>2, <2>3, UntoldSteps
  <2> QED BY <1>11, <2>2, <2>3 DEF Inspect
<1>12. CASE Close(p) \/ CloseFails(p) \/ Replace(p) \/ ReplaceFails(p)
  BY <1>1, <1>2, <1>12, UntoldSteps DEF Close, CloseFails, Replace, ReplaceFails
<1>13. CASE ReplaceTears(p)
  <2>1. Quarantine(p)
    BY <1>0, <1>13 DEF ReplaceTears
  <2> QED BY <1>2, <2>1
<1>14. CASE MarkReplaced(p) \/ MarkVerified(p) \/ MarkCommitted(p)
  BY <1>1, <1>14, UntoldSteps DEF MarkReplaced, MarkVerified, MarkCommitted, Advance
<1>15. CASE Reopen(p) \/ Verified(p) \/ Complete(p)
  BY <1>1, <1>2, <1>15, UntoldSteps DEF Reopen, Verified, Complete
<1>16. CASE Cleanup(p) \/ ReplayCommitted(p)
  <2>1. Phased(call[p].approval, "committed")
    <3>1. At(p, "cleanup") \/ At(p, "replay")
      BY <1>16 DEF Cleanup, ReplayCommitted, CleanUp
    <3> QED BY <3>1, AtStep DEF Locked, Standing
  <2>2. PICK o \in {"completed", "replayed", "recovery"} : Return(p, o)
    BY <1>16 DEF Cleanup, ReplayCommitted, CleanUp
  <2> QED BY <1>3, <1>16, <2>1, <2>2 DEF Cleanup, ReplayCommitted, CleanUp, Outcome
<1> QED BY <1>4, <1>5, <1>6, <1>7, <1>8, <1>9, <1>10, <1>11, <1>12, <1>13, <1>14, <1>15,
           <1>16 DEF Step

LEMMA AnswersTrueStep ==
    ASSUME IInv, [Next]_vars
    PROVE  \A p \in Process : call'[p] # call[p] /\ call'[p] # NoCall => Truthful(p)'
<1> SUFFICES ASSUME NEW p \in Process, call'[p] # call[p], call'[p] # NoCall
             PROVE  Truthful(p)'
  OBVIOUS
<1>0. call \in [Process -> Call \cup {NoCall}]
  BY DEF IInv, TypeOK
<1>1. CASE \E q \in Process : Step(q)
  BY <1>1, OneIsAnswered, AnswerIsTrue
<1>2. CASE \E q \in Process, a \in Approval : Retry(q, a)
  <2>1. call'[p].at \in {"waiting", "failed"}
    BY <1>0, <1>2 DEF Retry, Start, StartFails
  <2> QED BY <2>1 DEF Truthful
<1>3. CASE \E q \in Process : Crash(q)
  BY <1>0, <1>3 DEF Crash
<1>4. UNCHANGED call => FALSE
  OBVIOUS
<1> QED BY <1>1, <1>2, <1>3, <1>4
        DEF Next, UserOpens, UserEdits, UserSaves, UserCloses, Damage, vars

(***************************************************************************)
(* No caller is ever told a restore was done, rejected or cancelled when   *)
(* the journal and the backup say otherwise.                               *)
(***************************************************************************)
THEOREM RestoreAnswersTrue == Spec => AnswersTrue
<1>1. IInv /\ [Next]_vars =>
        [\A p \in Process : call'[p] # call[p] /\ call'[p] # NoCall => Truthful(p)']_vars
  BY AnswersTrueStep
<1> QED BY <1>1, RestoreInvariant, PTL DEF Spec, AnswersTrue
-----------------------------------------------------------------------------
(* The catalog knows of a restore before the drawing does.                 *)

\* A call that is about to touch the drawing has begun the restore.
Touching == {"inspect", "close", "replace"}
Begun ==
    /\ BegunBeforeReplaced
    /\ \A p \in Process :
         call[p] # NoCall /\ call[p].at \in Touching => status # "available"

LEMMA StaysBegun ==
    ASSUME IInv, [Next]_vars, status # "available"
    PROVE  status' # "available"
BY NextMoves DEF CatalogMoves, Legal

\* Only BeginRestore leads a call there.
LEMMA StepTouches ==
    ASSUME IInv, NEW p \in Process, Step(p), call'[p] # NoCall, call'[p].at \in Touching
    PROVE  \/ status' # "available"
           \/ call[p] # NoCall /\ call[p].at \in Touching
<1>0. call[p] # NoCall
  BY DEF Step, TurnedAway, Enter, PrepareQuarantines, PrepareRejects, Prepare, Reserve,
         Begin, Resume, EnterReplacement, Inspect, Close, CloseFails, Replace, ReplaceFails,
         ReplaceTears, MarkReplaced, Reopen, MarkVerified, Verified, Complete,
         MarkCommitted, Cleanup, ReplayCommitted, CleanUp, Advance, At
<1>g. ASSUME NEW step \in Stages, Go(p, step) PROVE call'[p].at = step
  BY <1>0, <1>g, GoesOn DEF IInv
<1>r. ASSUME NEW outcome \in Outcome, Return(p, outcome) PROVE call'[p].at = outcome
  BY <1>g, <1>r, StageSets DEF Return
<1>1. CASE EnterReplacement(p)
  <2>1. Quarantine(p) => call'[p].at = "quarantined"
    BY <1>r DEF Quarantine, Outcome
  <2>2. CASE Change("available", "restoring")
    BY <2>2 DEF Change
  <2>3. CASE ~ Change("available", "restoring")
    BY <1>1, <1>r, <2>1, <2>3 DEF EnterReplacement, Outcome, Touching
  <2> QED BY <2>2, <2>3
<1>2. CASE At(p, "inspect") \/ At(p, "close") \/ At(p, "replace")
  BY <1>2 DEF At, Touching
<1>3. ASSUME \/ \E step \in Stages \ Touching : Go(p, step)
             \/ \E outcome \in Outcome : Return(p, outcome)
      PROVE  FALSE
  BY <1>3, <1>g, <1>r DEF Touching, Outcome
<1>s. /\ {"begin", "resume", "enter", "prepare", "replay", "markReplaced", "reopen",
          "markVerified", "verified", "complete", "markCommitted", "cleanup",
          "recovery"} \subseteq Stages \ Touching
      /\ {"recovery", "rejected", "cancelled", "quarantined", "failed", "completed",
          "replayed"} \subseteq Outcome
  BY DEF Stages, Locked, Touching, Outcome
<1>4. ~ (TurnedAway(p) \/ Enter(p))
  BY <1>3, <1>s DEF TurnedAway, Enter
<1>5. ~ PrepareQuarantines(p) /\ ~ PrepareRejects(p) /\ ~ Reserve(p) /\ ~ Begin(p)
  <2>1. ~ PrepareQuarantines(p) /\ ~ PrepareRejects(p)
    BY <1>3, <1>s DEF PrepareQuarantines, PrepareRejects
  <2>2. ~ Reserve(p)
    BY <1>3, <1>s DEF Reserve
  <2>3. ~ Begin(p)
    BY <1>3, <1>s DEF Begin
  <2> QED BY <2>1, <2>2, <2>3
<1>6. ~ Prepare(p)
  <2> SUFFICES ASSUME Prepare(p) PROVE FALSE
    OBVIOUS
  <2>1. call[p] \in Call /\ call \in [Process -> Call \cup {NoCall}]
    BY <1>0 DEF IInv, TypeOK
  <2>2. call'[p].at = "reserve"
    BY <2>1 DEF Prepare, Call
  <2> QED BY <2>2 DEF Touching
<1>7. ~ Quarantine(p) /\ ~ Thrown(p)
  BY <1>3, <1>s DEF Quarantine, Thrown
<1>8. ~ Resume(p) /\ ~ Reopen(p) /\ ~ Verified(p) /\ ~ Complete(p)
  <2>1. ~ Resume(p)
    BY <1>3, <1>7, <1>s DEF Resume
  <2>2. ~ Reopen(p)
    BY <1>3, <1>7, <1>s DEF Reopen
  <2>3. ~ Verified(p)
    BY <1>3, <1>7, <1>s DEF Verified
  <2>4. ~ Complete(p)
    BY <1>3, <1>7, <1>s DEF Complete
  <2> QED BY <2>1, <2>2, <2>3, <2>4
<1>9. ~ (MarkReplaced(p) \/ MarkVerified(p) \/ MarkCommitted(p))
  BY <1>3, <1>s DEF MarkReplaced, MarkVerified, MarkCommitted, Advance
<1>10. ~ (Cleanup(p) \/ ReplayCommitted(p))
  BY <1>3, <1>s DEF Cleanup, ReplayCommitted, CleanUp
<1>11. CASE \/ Inspect(p) \/ Close(p) \/ CloseFails(p) \/ Replace(p)
            \/ ReplaceFails(p) \/ ReplaceTears(p)
  BY <1>2, <1>11 DEF Inspect, Close, CloseFails, Replace, ReplaceFails, ReplaceTears
<1> QED BY <1>1, <1>4, <1>5, <1>6, <1>8, <1>9, <1>10, <1>11 DEF Step

LEMMA BegunKept ==
    ASSUME IInv, Begun, [Next]_vars
    PROVE  Begun'
<1>1. ASSUME NEW a \in Approval, backup'[a] # "none" PROVE status' # "available"
  <2>1. CASE backup[a] # "none"
    BY <2>1, StaysBegun DEF Begun, BegunBeforeReplaced
  <2>2. CASE backup[a] = "none"
    <3>1. backup' # backup
      BY <1>1, <2>2
    <3>2. PICK p \in Process : Replace(p) \/ ReplaceTears(p)
      BY <1>1, <2>2, <3>1 DEF Next, Retry, Start, StartFails, Crash, UserOpens, UserEdits,
         UserSaves, UserCloses, Damage, files, vars, Step, TurnedAway, Enter,
         PrepareQuarantines, PrepareRejects, Prepare, Reserve, Begin, Resume,
         EnterReplacement, Inspect, Close, CloseFails, ReplaceFails, MarkReplaced, Reopen,
         MarkVerified, Verified, Complete, MarkCommitted, Cleanup, ReplayCommitted, CleanUp,
         IInv, TypeOK
    <3>3. At(p, "replace")
      BY <3>2 DEF Replace, ReplaceTears
    <3> QED BY <3>3, StaysBegun DEF Begun, At, Touching
  <2> QED BY <2>1, <2>2
<1>2. ASSUME NEW p \in Process, call'[p] # NoCall, call'[p].at \in Touching
      PROVE  status' # "available"
  <2>1. CASE call[p] # NoCall /\ call[p].at \in Touching
    BY <2>1, StaysBegun DEF Begun
  <2>2. CASE Step(p)
    BY <1>2, <2>1, <2>2, StepTouches
  <2>3. CASE ~Step(p) /\ ~(call[p] # NoCall /\ call[p].at \in Touching)
    <3>1. call'[p] # call[p]
      BY <1>2, <2>3
    <3>2. CASE \E q \in Process : Step(q)
      BY <2>3, <3>1, <3>2, OneIsAnswered
    <3>3. CASE \E q \in Process : Crash(q) \/ \E a \in Approval : Retry(q, a)
      BY <1>2, <3>1, <3>3 DEF Crash, Retry, Start, StartFails, Touching, IInv, TypeOK
    <3> QED BY <3>1, <3>2, <3>3 DEF Next, UserOpens, UserEdits, UserSaves, UserCloses,
                                    Damage, vars
  <2> QED BY <2>1, <2>2, <2>3
<1> QED BY <1>1, <1>2 DEF Begun, BegunBeforeReplaced

(***************************************************************************)
(* The drawing is never replaced by a checkpoint that the catalog still    *)
(* has as available: BeginRestore comes first, on the way of a new call    *)
(* and on that of a resumed one, whatever fails or crashes in between.     *)
(***************************************************************************)
THEOREM BegunFirst == Spec => []BegunBeforeReplaced
<1>1. Init => Begun
  BY DEF Init, Begun, BegunBeforeReplaced
<1>2. IInv /\ Begun /\ [Next]_vars => Begun'
  BY BegunKept
<1>3. Begun => BegunBeforeReplaced
  BY DEF Begun
<1> QED BY <1>1, <1>2, <1>3, RestoreInvariant, PTL DEF Spec
==============================================================================
