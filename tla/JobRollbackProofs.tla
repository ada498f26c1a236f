-------------------------- MODULE JobRollbackProofs --------------------------
(***************************************************************************)
(* Proofs about UndoRollback and, built on them, about JobRollback, for    *)
(* any calls, approvals, revisions and bounds.                             *)
(*                                                                         *)
(* First the registry of undo groups alone (Spec), then the service around *)
(* it (RollbackSpec), whose steps are steps of the registry.               *)
(***************************************************************************)
EXTENDS JobRollback, SequenceTheorems, TLAPS

-----------------------------------------------------------------------------
(* The registry: the parts of its inductive invariant.                     *)

Committing(n) == op # Idle /\ op.kind = "commit" /\ op.n = n

\* Receipts come after their commits, which are numbered in order.
Numbers ==
    /\ active <= commits
    /\ op # Idle => op.n <= commits
    /\ \A n \in Commit : n > commits => receipt[n] = NoReceipt /\ undone[n] = {}

\* How far the call that holds the gate has come.
Progress ==
    /\ op # Idle /\ op.at = "applied" =>
         /\ receipt[op.n] = NoReceipt /\ undone[op.n] = {}
         /\ \A n \in Commit : ~InState(n, "available")
    /\ op # Idle /\ op.at = "registered" => op.n = active
    /\ op # Idle /\ op.kind = "rollback" => attempt[op.approval] # NoAttempt
                                            /\ attempt[op.approval].n = op.n

\* The receipts that can still be used.
Usable ==
    \A n \in Commit : InState(n, "available") =>
        /\ undone[n] = {}
        /\ op = Idle => tracked

\* An attempt is made for a receipt that exists.
Attempts ==
    \A a \in Approval : attempt[a] # NoAttempt => receipt[attempt[a].n] # NoReceipt

\* A receipt that a command was run over is over.
Fenced ==
    \A n \in fenced : /\ n <= commits /\ undone[n] = {}
                      /\ ~InState(n, "available") /\ ~InState(n, "executing") /\ ~Committing(n)

IInv == /\ TypeOK /\ Numbers /\ Progress /\ Usable /\ Attempts /\ Fenced
        /\ OnlyNewest /\ OneExecution

-----------------------------------------------------------------------------
(* The undo stack.                                                         *)

EntryOf == [by : Author, before : Revision]

LEMMA PopKeepsType ==
    ASSUME NEW s \in Seq(EntryOf)
    PROVE  /\ Pop(s) \in Seq(EntryOf)
           /\ s # <<>> => Top(s) \in EntryOf
<1>1. CASE s = <<>>
  BY <1>1 DEF Pop
<1>2. CASE s # <<>>
  <2>1. Len(s) \in Nat /\ Len(s) >= 1
    BY <1>2, EmptySeq, LenProperties
  <2>2. Top(s) \in EntryOf
    BY <2>1, ElementOfSeq DEF Top
  <2>3. \A i \in 1..(Len(s) - 1) : s[i] \in EntryOf
    BY <2>1, ElementOfSeq
  <2>4. SubSeq(s, 1, Len(s) - 1) \in Seq(EntryOf)
    BY <2>1, <2>3, SubSeqProperties
  <2> QED BY <1>2, <2>2, <2>4 DEF Pop
<1> QED BY <1>1, <1>2

LEMMA PushKeepsType ==
    ASSUME NEW s \in Seq(EntryOf), NEW by \in Author, NEW r \in Revision
    PROVE  Append(s, [by |-> by, before |-> r]) \in Seq(EntryOf)
BY AppendProperties DEF EntryOf

LEMMA WrappedKeepsType ==
    ASSUME NEW s \in Seq(EntryOf), NEW r \in Revision
    PROVE  Wrapped(s, r) \subseteq Seq(EntryOf)
BY PushKeepsType DEF Wrapped, Author

LEMMA OnceIsRevision ==
    ASSUME NEW s \in Seq(EntryOf), revision \in Revision
    PROVE  Once(s) \in Revision /\ Twice(s) \in Revision
<1>1. Pop(s) \in Seq(EntryOf) /\ (s # <<>> => Top(s) \in EntryOf)
  BY PopKeepsType
<1>2. Pop(s) # <<>> => Top(Pop(s)) \in EntryOf
  BY <1>1, PopKeepsType
<1>3. \A e \in EntryOf : e.before \in Revision
  BY DEF EntryOf
<1> QED BY <1>1, <1>2, <1>3 DEF Once, Twice

LEMMA UndoesAuthors ==
    ASSUME NEW s \in Seq(EntryOf), NEW k \in Nat
    PROVE  Undoes(s, k) \subseteq Author
<1>1. \A i \in DOMAIN s : s[i] \in EntryOf
  BY LenProperties, ElementOfSeq
<1> QED BY <1>1 DEF Undoes, EntryOf

-----------------------------------------------------------------------------
(* Type correctness.                                                       *)

LEMMA OpShape ==
    ASSUME NEW o \in Op
    PROVE  /\ o.kind \in {"commit", "rollback"} /\ o.n \in Commit
           /\ o.kind = "commit" =>
                /\ o.at \in {"applied", "registered"}
                /\ o.previous \in Revision /\ o.new \in Revision
                /\ [o EXCEPT !.at = "registered"] \in Op
           /\ o.kind = "rollback" =>
                /\ o.at \in {"begun", "restored"} /\ o.approval \in Approval
                /\ [o EXCEPT !.at = "restored"] \in Op
BY DEF Op

LEMMA SetStateType ==
    ASSUME TypeOK, NEW n \in Commit, receipt[n] # NoReceipt,
           NEW state \in {"available", "executing", "consumed", "quarantined",
                          "superseded"},
           SetState(n, state)
    PROVE  receipt' \in [Commit -> Receipt \cup {NoReceipt}]
BY DEF TypeOK, SetState, Receipt

LEMMA InvalidateType ==
    ASSUME TypeOK, Invalidate
    PROVE  receipt' \in [Commit -> Receipt \cup {NoReceipt}]
<1>1. CASE active # 0 /\ InState(active, "available")
  <2>1. active \in Commit /\ receipt[active] # NoReceipt
    BY <1>1 DEF TypeOK, InState
  <2> QED BY <1>1, <2>1, SetStateType DEF Invalidate
<1>2. CASE ~(active # 0 /\ InState(active, "available"))
  BY <1>2 DEF Invalidate, TypeOK
<1> QED BY <1>1, <1>2

LEMMA CommandWillStartType ==
    ASSUME TypeOK, CommandWillStart
    PROVE  receipt' \in [Commit -> Receipt \cup {NoReceipt}]
<1>1. CASE tracked
  BY <1>1, InvalidateType DEF CommandWillStart
<1>2. CASE ~tracked
  BY <1>2 DEF CommandWillStart, TypeOK
<1> QED BY <1>1, <1>2

LEMMA InitType == Init => TypeOK
<1> SUFFICES ASSUME Init PROVE TypeOK
  OBVIOUS
<1> USE DEF Init
<1>1. undo \in Seq([by : Author, before : Revision])
  BY EmptySeq
<1>2. commits \in 0..MaxCommits /\ commands \in 0..MaxCommands /\ active \in Commit \cup {0}
  BY BoundsAreNaturals
<1>3. tracked \in BOOLEAN
  OBVIOUS
<1>4. /\ revision \in Revision /\ receipt \in [Commit -> Receipt \cup {NoReceipt}]
      /\ attempt \in [Approval -> Attempt \cup {NoAttempt}]
      /\ op \in Op \cup {Idle} /\ fenced \subseteq Commit /\ slipped \subseteq Commit
      /\ undone \in [Commit -> SUBSET Author]
  OBVIOUS
<1> QED BY <1>1, <1>2, <1>3, <1>4 DEF TypeOK

LEMMA CommitType == TypeOK /\ (CommitApplied \/ CommitFails) => TypeOK'
<1> SUFFICES ASSUME TypeOK, CommitApplied \/ CommitFails PROVE TypeOK'
  OBVIOUS
<1>1. commits' \in Commit /\ commits' \in 0..MaxCommits
  BY BoundsAreNaturals DEF TypeOK, CommitApplied, CommitFails, Commit
<1>2. revision' \in Revision
  BY DEF TypeOK, CommitApplied, CommitFails
<1>3. undo' \in Seq(EntryOf)
  <2>1. undo \in Seq(EntryOf)
    BY DEF TypeOK, EntryOf
  <2>2. Push(undo, commits') \in Seq(EntryOf)
    BY <1>1, <2>1, PushKeepsType DEF Push, Author, TypeOK
  <2> QED BY <1>2, <2>1, <2>2, WrappedKeepsType DEF CommitApplied, CommitFails, TypeOK
<1>4. receipt' \in [Commit -> Receipt \cup {NoReceipt}]
  BY CommandWillStartType DEF CommitApplied, CommitFails
<1>5. op' \in Op \cup {Idle}
  BY <1>1, <1>2 DEF TypeOK, CommitApplied, CommitFails, Op
<1>6. tracked' \in BOOLEAN
  BY DEF TypeOK, CommitApplied, CommitFails
<1>7. /\ active' \in Commit \cup {0} /\ attempt' \in [Approval -> Attempt \cup {NoAttempt}]
      /\ commands' \in 0..MaxCommands /\ fenced' \subseteq Commit
      /\ slipped' \subseteq Commit /\ undone' \in [Commit -> SUBSET Author]
  BY DEF TypeOK, CommitApplied, CommitFails, history
<1> QED BY <1>1, <1>2, <1>3, <1>4, <1>5, <1>6, <1>7 DEF TypeOK, EntryOf

LEMMA RegisterType == TypeOK /\ Register => TypeOK'
<1> SUFFICES ASSUME TypeOK, Register PROVE TypeOK'
  OBVIOUS
<1> USE DEF Register, drawing, history
<1>1. op \in Op /\ op.kind = "commit" /\ op.n \in Commit
  BY OpShape DEF TypeOK
<1>2. Superseded \in [Commit -> Receipt \cup {NoReceipt}]
  BY DEF TypeOK, Superseded, Receipt
<1>3. [state |-> "available", previous |-> op.previous, new |-> op.new] \in Receipt
  BY <1>1, OpShape DEF Receipt
<1>4. receipt' \in [Commit -> Receipt \cup {NoReceipt}]
  BY <1>1, <1>2, <1>3
<1>5. op' \in Op
  BY <1>1, OpShape
<1>6. tracked' \in BOOLEAN
  BY DEF TypeOK
<1> QED BY <1>1, <1>4, <1>5, <1>6 DEF TypeOK

LEMMA UndoType == TypeOK /\ OnlyNewest /\ Undo => TypeOK'
<1> SUFFICES ASSUME TypeOK, OnlyNewest, Undo PROVE TypeOK'
  OBVIOUS
<1> USE DEF Undo
<1>1. op \in Op /\ op.kind = "rollback" /\ op.n \in Commit
  BY OpShape DEF TypeOK
<1>2. PICK s \in Wrapped(undo, revision) :
         LET again == Retry(op.n, s) IN
         /\ revision' = IF again THEN Twice(s) ELSE Once(s)
         /\ undo' = IF again THEN Pop(Pop(s)) ELSE Pop(s)
         /\ undone' = [undone EXCEPT ![op.n] = @ \cup Undoes(s, IF again THEN 2 ELSE 1)]
  OBVIOUS
<1>3. s \in Seq(EntryOf) /\ revision \in Revision
  BY WrappedKeepsType DEF TypeOK, EntryOf
<1>4. revision' \in Revision
  BY <1>2, <1>3, OnceIsRevision
<1>5. undo' \in Seq(EntryOf)
  BY <1>2, <1>3, PopKeepsType
<1>6. undone' \in [Commit -> SUBSET Author]
  BY <1>1, <1>2, <1>3, UndoesAuthors DEF TypeOK
<1>7. receipt' \in [Commit -> Receipt \cup {NoReceipt}]
  <2>1. receipt[op.n] # NoReceipt
    BY <1>1, NoValuesDiffer DEF OnlyNewest, InState
  <2>2. CASE UNCHANGED receipt
    BY <2>2 DEF TypeOK
  <2>3. CASE SetState(op.n, "quarantined")
    BY <1>1, <2>1, <2>3, SetStateType
  <2> QED BY <2>2, <2>3
<1>8. op' \in Op \cup {Idle}
  BY <1>1, OpShape
<1>9. tracked' \in BOOLEAN
  BY DEF TypeOK
<1> QED BY <1>4, <1>5, <1>6, <1>7, <1>8, <1>9 DEF TypeOK, EntryOf

LEMMA QuarantineType == TypeOK /\ OnlyNewest /\ Quarantine => TypeOK'
<1> SUFFICES ASSUME TypeOK, OnlyNewest, Quarantine PROVE TypeOK'
  OBVIOUS
<1> USE DEF Quarantine, drawing, history
<1>1. op \in Op /\ op.kind = "rollback" /\ op.n \in Commit
  BY OpShape DEF TypeOK
<1>2. receipt[op.n] # NoReceipt
  BY <1>1 DEF OnlyNewest, InState
<1>3. receipt' \in [Commit -> Receipt \cup {NoReceipt}]
  BY <1>1, <1>2, SetStateType
<1>4. tracked' \in BOOLEAN
  BY DEF TypeOK
<1> QED BY <1>3, <1>4 DEF TypeOK

LEMMA CompleteSuccessType == TypeOK /\ OnlyNewest /\ Progress /\ CompleteSuccess => TypeOK'
<1> SUFFICES ASSUME TypeOK, OnlyNewest, Progress, CompleteSuccess PROVE TypeOK'
  OBVIOUS
<1> USE DEF CompleteSuccess, drawing, history
<1>1. op \in Op /\ op.kind = "rollback" /\ op.n \in Commit /\ op.approval \in Approval
  BY OpShape DEF TypeOK
<1>2. receipt[op.n] # NoReceipt /\ attempt[op.approval] # NoAttempt
  BY <1>1 DEF OnlyNewest, InState, Progress
<1>3. receipt' \in [Commit -> Receipt \cup {NoReceipt}]
  BY <1>1, <1>2, SetStateType
<1>4. attempt' \in [Approval -> Attempt \cup {NoAttempt}]
  <2>1. attempt[op.approval] \in Attempt
    BY <1>1, <1>2 DEF TypeOK
  <2>2. [attempt[op.approval] EXCEPT !.done = TRUE] \in Attempt
    BY <2>1 DEF Attempt
  <2> QED BY <1>1, <2>2 DEF TypeOK
<1>5. tracked' \in BOOLEAN
  BY DEF TypeOK
<1> QED BY <1>3, <1>4, <1>5 DEF TypeOK

LEMMA BeginType ==
    ASSUME TypeOK, NEW a \in Approval, NEW n \in Commit, Begin(a, n)
    PROVE  TypeOK'
<1> USE DEF Begin, drawing, history
<1>1. receipt' \in [Commit -> Receipt \cup {NoReceipt}]
  BY SetStateType DEF Available, InState
<1>2. attempt' \in [Approval -> Attempt \cup {NoAttempt}]
  BY DEF TypeOK, Attempt
<1>3. op' \in Op
  BY DEF Op
<1>4. tracked' \in BOOLEAN
  BY DEF TypeOK
<1> QED BY <1>1, <1>2, <1>3, <1>4 DEF TypeOK

LEMMA EngineerType == TypeOK /\ (Command \/ Inspect) => TypeOK'
<1> SUFFICES ASSUME TypeOK, Command \/ Inspect PROVE TypeOK'
  OBVIOUS
<1> USE DEF Command, Inspect
<1>1. undo \in Seq(EntryOf) /\ revision \in Revision
  BY DEF TypeOK, EntryOf
<1>2. Pop(undo) \in Seq(EntryOf) /\ Once(undo) \in Revision
  BY <1>1, PopKeepsType, OnceIsRevision
<1>3. Push(undo, Engineer) \in Seq(EntryOf) /\ Wrapped(undo, revision) \subseteq Seq(EntryOf)
  BY <1>1, PushKeepsType, WrappedKeepsType DEF Push, Author
<1>4. undo' \in Seq(EntryOf) /\ revision' \in Revision
  BY <1>1, <1>2, <1>3
<1>5. receipt' \in [Commit -> Receipt \cup {NoReceipt}]
  BY CommandWillStartType DEF Noticed
<1>6. commands' \in 0..MaxCommands
  BY BoundsAreNaturals DEF TypeOK
<1>7. fenced' \subseteq Commit /\ slipped' \subseteq Commit
  BY OpShape DEF TypeOK, Noticed
<1>8. tracked' \in BOOLEAN
  BY DEF TypeOK, Noticed
<1>9. /\ active' \in Commit \cup {0} /\ attempt' \in [Approval -> Attempt \cup {NoAttempt}]
      /\ op' \in Op \cup {Idle} /\ commits' \in 0..MaxCommits
      /\ undone' \in [Commit -> SUBSET Author]
  BY DEF TypeOK, Noticed
<1> QED BY <1>4, <1>5, <1>6, <1>7, <1>8, <1>9 DEF TypeOK, EntryOf

LEMMA OthersType ==
    TypeOK /\ (RegisterFails \/ Track \/ TrackFails \/ Restart \/ UNCHANGED vars) => TypeOK'
<1>1. TypeOK /\ RegisterFails => TypeOK'
  <2> SUFFICES ASSUME TypeOK, RegisterFails PROVE TypeOK'
    OBVIOUS
  <2> USE DEF RegisterFails, drawing, history
  <2>1. receipt' \in [Commit -> Receipt \cup {NoReceipt}]
    BY InvalidateType DEF TypeOK
  <2>2. tracked' \in BOOLEAN
    BY DEF TypeOK
  <2> QED BY <2>1, <2>2 DEF TypeOK
<1>2. TypeOK /\ Track => TypeOK'
  BY DEF TypeOK, Track, drawing, registry, history
<1>3. TypeOK /\ TrackFails => TypeOK'
  <2> SUFFICES ASSUME TypeOK, TrackFails PROVE TypeOK'
    OBVIOUS
  <2> USE DEF TrackFails, InvalidateRollback, drawing, history
  <2>1. receipt' \in [Commit -> Receipt \cup {NoReceipt}]
    BY InvalidateType
  <2>2. tracked' \in BOOLEAN
    BY DEF TypeOK
  <2> QED BY <2>1, <2>2 DEF TypeOK
<1>4. TypeOK /\ Restart => TypeOK'
  <2> SUFFICES ASSUME TypeOK, Restart PROVE TypeOK'
    OBVIOUS
  <2>1. undo' \in Seq([by : Author, before : Revision]) /\ tracked' \in BOOLEAN
    BY EmptySeq DEF Restart
  <2> QED BY <2>1 DEF TypeOK, Restart, history
<1>5. TypeOK /\ UNCHANGED vars => TypeOK'
  <2> SUFFICES ASSUME TypeOK, UNCHANGED vars PROVE TypeOK'
    OBVIOUS
  <2>1. tracked' \in BOOLEAN
    BY DEF TypeOK, vars
  <2> QED BY <2>1 DEF TypeOK, vars, drawing, registry, history
<1> QED BY <1>1, <1>2, <1>3, <1>4, <1>5

LEMMA TypeIsKept == IInv /\ [Next]_vars => TypeOK'
BY CommitType, RegisterType, UndoType, QuarantineType, CompleteSuccessType, BeginType,
   EngineerType, OthersType DEF IInv, Next

-----------------------------------------------------------------------------
(* What the invariants look at, before and after a step.                   *)

Rest == Numbers /\ Progress /\ Usable /\ Attempts /\ Fenced /\ OnlyNewest /\ OneExecution

LEMMA SetStateEffect ==
    ASSUME TypeOK, NEW n \in Commit, receipt[n] # NoReceipt,
           NEW state \in {"available", "executing", "consumed", "quarantined",
                          "superseded"},
           SetState(n, state)
    PROVE  /\ receipt'[n] # NoReceipt /\ receipt'[n].state = state
           /\ \A m \in Commit \ {n} : receipt'[m] = receipt[m]
<1>1. receipt[n] \in Receipt
  BY DEF TypeOK
<1>2. [receipt[n] EXCEPT !.state = state] \in Receipt
      /\ [receipt[n] EXCEPT !.state = state].state = state
  BY <1>1 DEF Receipt
<1> QED BY <1>2, NoValuesDiffer DEF SetState, TypeOK

LEMMA InvalidateEffect ==
    ASSUME TypeOK, OnlyNewest, Invalidate, NEW n \in Commit
    PROVE  /\ receipt'[n] = NoReceipt <=> receipt[n] = NoReceipt
           /\ ~InState(n, "available")'
           /\ InState(n, "executing")' <=> InState(n, "executing")
<1>1. CASE active # 0 /\ InState(active, "available")
  <2>1. active \in Commit /\ receipt[active] # NoReceipt /\ SetState(active, "superseded")
    BY <1>1 DEF TypeOK, InState, Invalidate
  <2>2. /\ receipt'[active] # NoReceipt /\ receipt'[active].state = "superseded"
        /\ \A m \in Commit \ {active} : receipt'[m] = receipt[m]
    BY <2>1, SetStateEffect
  <2> QED BY <1>1, <2>2 DEF InState, OnlyNewest
<1>2. CASE ~(active # 0 /\ InState(active, "available"))
  <2>1. receipt' = receipt
    BY <1>2 DEF Invalidate
  <2>2. 0 \notin Commit
    BY DEF Commit
  <2> QED BY <1>2, <2>1, <2>2 DEF InState, OnlyNewest
<1> QED BY <1>1, <1>2

LEMMA CommandEffect ==
    ASSUME IInv, CommandWillStart, NEW n \in Commit
    PROVE  /\ receipt'[n] = NoReceipt <=> receipt[n] = NoReceipt
           /\ InState(n, "available")' => InState(n, "available") /\ op # Idle
           /\ InState(n, "executing")' <=> InState(n, "executing")
<1>1. CASE tracked
  BY <1>1, InvalidateEffect DEF CommandWillStart, IInv
<1>2. CASE ~tracked
  BY <1>2 DEF CommandWillStart, IInv, Usable, InState
<1> QED BY <1>1, <1>2

\* What is at hand while no call, or a call of either kind, holds the gate.
LEMMA Gate ==
    ASSUME IInv
    PROVE  /\ Idle \notin Op /\ (op # Idle => op \in Op)
           /\ op # Idle /\ op.at \in {"begun", "restored"} =>
                op.kind = "rollback" /\ InState(op.n, "executing")
           /\ op # Idle /\ op.at \in {"applied", "registered"} => op.kind = "commit"
           /\ op = Idle \/ (op # Idle /\ op.kind = "commit") =>
                \A n \in Commit : ~InState(n, "executing")
BY NoValuesDiffer, OpShape DEF IInv, TypeOK, OnlyNewest

-----------------------------------------------------------------------------
(* Each action keeps the other conjuncts.                                  *)

LEMMA CommitKeeps == IInv /\ (CommitApplied \/ CommitFails) => Rest'
<1> SUFFICES ASSUME IInv, CommitApplied \/ CommitFails PROVE Rest'
  OBVIOUS
<1> USE DEF CommitApplied, CommitFails, history
<1>0. /\ commits \in Nat /\ commits' \in Nat /\ commits' = commits + 1 /\ commits' \in Commit
      /\ active \in Nat /\ \A n \in Commit : n \in Nat
  BY BoundsAreNaturals DEF IInv, TypeOK, Commit
<1>1. op = Idle
  OBVIOUS
<1>2. \A n \in Commit :
        /\ receipt'[n] = NoReceipt <=> receipt[n] = NoReceipt
        /\ ~InState(n, "available")' /\ ~InState(n, "executing")'
  BY <1>1, CommandEffect, Gate
<1>3. op' = Idle \/ /\ op' # Idle /\ op'.kind = "commit" /\ op'.at = "applied"
                    /\ op'.n = commits'
  <2>1. CASE CommitApplied
    <3>1. op' \in Op
      BY <2>1, <1>0 DEF IInv, TypeOK, Op
    <3> QED BY <2>1, <3>1, Gate
  <2>2. CASE CommitFails
    BY <2>2
  <2> QED BY <2>1, <2>2
<1>4. UNCHANGED <<active, attempt, fenced, undone>>
  OBVIOUS
<1> HIDE DEF CommitApplied, CommitFails
<1>5. Numbers'
  <2>1. active' <= commits' /\ (op' # Idle => op'.n <= commits')
    BY <1>0, <1>3, <1>4 DEF IInv, Numbers
  <2>2. \A n \in Commit : n > commits' => n > commits
    BY <1>0
  <2>3. \A n \in Commit : n > commits' => receipt'[n] = NoReceipt /\ undone'[n] = {}
    BY <1>2, <1>4, <2>2 DEF IInv, Numbers
  <2> QED BY <2>1, <2>3 DEF Numbers
<1>6. Progress'
  <2>1. receipt'[commits'] = NoReceipt /\ undone'[commits'] = {}
    BY <1>0, <1>2, <1>4 DEF IInv, Numbers
  <2> QED BY <1>2, <1>3, <2>1 DEF Progress
<1>7. Usable'
  BY <1>2 DEF Usable
<1>8. Attempts'
  <2>1. \A a \in Approval : attempt[a] # NoAttempt => attempt[a].n \in Commit
    BY DEF IInv, TypeOK, Attempt
  <2> QED BY <1>2, <1>4, <2>1 DEF IInv, Attempts
<1>9. Fenced'
  <2>1. \A n \in fenced : n \in Commit /\ n <= commits
    BY DEF IInv, TypeOK, Fenced
  <2>2. \A n \in fenced : n <= commits' /\ n # commits'
    <3> TAKE n \in fenced
    <3>1. n \in Nat /\ n <= commits
      BY <1>0, <2>1
    <3> QED BY <1>0, <3>1
  <2>3. \A n \in fenced : ~Committing(n)'
    BY <1>3, <2>2 DEF Committing
  <2>4. \A n \in fenced : undone'[n] = {}
    BY <1>4 DEF IInv, Fenced
  <2> QED BY <1>2, <1>4, <2>1, <2>2, <2>3, <2>4 DEF Fenced
<1>10. OnlyNewest'
  BY <1>2, <1>3 DEF OnlyNewest
<1>11. OneExecution'
  <2>1. \A a \in Approval : attempt[a] # NoAttempt => attempt[a].n \in Commit
    BY DEF IInv, TypeOK, Attempt
  <2> QED BY <1>2, <1>4, <2>1 DEF IInv, OneExecution
<1> QED BY <1>5, <1>6, <1>7, <1>8, <1>9, <1>10, <1>11 DEF Rest

LEMMA RegisterKeeps == IInv /\ Register => Rest'
<1> SUFFICES ASSUME IInv, Register PROVE Rest'
  OBVIOUS
<1> USE DEF Register, drawing, history
<1>0. /\ op \in Op /\ op.kind = "commit" /\ op.n \in Commit /\ op.at = "applied"
      /\ op # Idle /\ op.n <= commits
  <2>1. op # Idle /\ op.at = "applied"
    OBVIOUS
  <2>2. op \in Op /\ op.kind = "commit" /\ op.n \in Commit
    BY <2>1, Gate, OpShape
  <2> QED BY <2>1, <2>2 DEF IInv, Numbers
<1>1. op' # Idle /\ op'.kind = "commit" /\ op'.at = "registered" /\ op'.n = op.n
  <2>1. op' \in Op
    BY <1>0, OpShape
  <2>2. op'.kind = op.kind /\ op'.n = op.n /\ op'.at = "registered"
    BY <1>0 DEF Op
  <2> QED BY <1>0, <2>1, <2>2, Gate
<1>2. receipt[op.n] = NoReceipt /\ undone[op.n] = {} /\ \A n \in Commit : ~InState(n, "available")
  BY <1>0 DEF IInv, Progress
<1>3. receipt'[op.n] # NoReceipt /\ receipt'[op.n].state = "available"
  <2>1. [state |-> "available", previous |-> op.previous, new |-> op.new] \in Receipt
    BY <1>0, OpShape DEF Receipt
  <2> QED BY <1>0, <2>1, NoValuesDiffer DEF Superseded
<1>4. \A n \in Commit \ {op.n} :
        /\ receipt'[n] = NoReceipt <=> receipt[n] = NoReceipt
        /\ ~InState(n, "available")' /\ ~InState(n, "executing")'
  <2> SUFFICES ASSUME NEW n \in Commit \ {op.n}
               PROVE  /\ receipt'[n] = NoReceipt <=> receipt[n] = NoReceipt
                      /\ ~InState(n, "available")' /\ ~InState(n, "executing")'
    OBVIOUS
  <2>1. CASE n = active /\ receipt[n] # NoReceipt
    <3>1. receipt[n] \in Receipt
      BY <2>1 DEF IInv, TypeOK
    <3>2. [receipt[n] EXCEPT !.state = "superseded"] \in Receipt
          /\ [receipt[n] EXCEPT !.state = "superseded"].state = "superseded"
      BY <3>1 DEF Receipt
    <3>3. receipt'[n] = [receipt[n] EXCEPT !.state = "superseded"]
      BY <2>1, <1>0 DEF Superseded
    <3> QED BY <2>1, <3>2, <3>3, NoValuesDiffer DEF InState
  <2>2. CASE ~(n = active /\ receipt[n] # NoReceipt)
    <3>1. receipt'[n] = receipt[n]
      BY <2>2, <1>0 DEF Superseded
    <3>2. ~InState(n, "executing")
      BY <1>0, Gate
    <3> QED BY <1>2, <3>1, <3>2 DEF InState
  <2> QED BY <2>1, <2>2
<1>5. UNCHANGED <<attempt, commits, fenced, undone>> /\ active' = op.n
  OBVIOUS
<1>6. \A a \in Approval : attempt[a] # NoAttempt => attempt[a].n \in Commit \ {op.n}
  BY <1>2 DEF IInv, TypeOK, Attempt, Attempts
<1> HIDE DEF Register
<1>7. Numbers'
  <2>1. \A n \in Commit : n > commits => n # op.n
    BY <1>0 DEF IInv, TypeOK, Commit
  <2> QED BY <1>0, <1>1, <1>4, <1>5, <2>1 DEF IInv, Numbers
<1>8. Progress'
  BY <1>1, <1>5 DEF Progress
<1>9. Usable'
  BY <1>1, <1>2, <1>4, <1>5 DEF Usable
<1>10. Attempts'
  BY <1>4, <1>5, <1>6 DEF IInv, Attempts
<1>11. Fenced'
  <2>1. \A n \in fenced : n \in Commit \ {op.n}
    BY <1>0 DEF IInv, TypeOK, Fenced, Committing
  <2> QED BY <1>1, <1>4, <1>5, <2>1 DEF IInv, Fenced, Committing
<1>12. OnlyNewest'
  BY <1>1, <1>3, <1>4, <1>5 DEF OnlyNewest, InState
<1>13. OneExecution'
  BY <1>4, <1>5, <1>6 DEF IInv, OneExecution
<1> QED BY <1>7, <1>8, <1>9, <1>10, <1>11, <1>12, <1>13 DEF Rest

LEMMA EndOfCommitKeeps == IInv /\ (RegisterFails \/ Track \/ TrackFails) => Rest'
<1> SUFFICES ASSUME IInv, RegisterFails \/ Track \/ TrackFails PROVE Rest'
  OBVIOUS
<1> USE DEF RegisterFails, Track, TrackFails, drawing, registry, history
<1>1. op # Idle /\ op.kind = "commit" /\ op' = Idle
  BY Gate
<1>2. \A n \in Commit :
        /\ receipt'[n] = NoReceipt <=> receipt[n] = NoReceipt
        /\ InState(n, "available")' => InState(n, "available") /\ tracked'
        /\ ~InState(n, "executing")'
  <2>1. \A n \in Commit : ~InState(n, "executing")
    BY <1>1, Gate
  <2>2. CASE RegisterFails
    <3>1. \A n \in Commit : ~InState(n, "available")
      BY <2>2 DEF IInv, Progress
    <3>2. CASE UNCHANGED receipt
      BY <2>1, <3>1, <3>2 DEF InState
    <3>3. CASE Invalidate
      BY <2>1, <3>3, InvalidateEffect DEF IInv
    <3> QED BY <2>2, <3>2, <3>3
  <2>3. CASE Track
    BY <2>1, <2>3 DEF InState
  <2>4. CASE TrackFails
    BY <2>1, <2>4, InvalidateEffect DEF IInv, InvalidateRollback
  <2> QED BY <2>2, <2>3, <2>4
<1>3. UNCHANGED <<active, attempt, commits, fenced, undone>>
  OBVIOUS
<1>4. \A a \in Approval : attempt[a] # NoAttempt => attempt[a].n \in Commit
  BY DEF IInv, TypeOK, Attempt
<1>5. \A n \in fenced : n \in Commit
  BY DEF IInv, TypeOK
<1> HIDE DEF RegisterFails, Track, TrackFails
<1>6. Numbers' /\ Progress'
  BY <1>1, <1>2, <1>3 DEF IInv, Numbers, Progress
<1>7. Usable'
  BY <1>2, <1>3 DEF IInv, Usable
<1>8. Attempts'
  BY <1>2, <1>3, <1>4 DEF IInv, Attempts
<1>9. Fenced'
  BY <1>1, <1>2, <1>3, <1>5 DEF IInv, Fenced, Committing
<1>10. OnlyNewest'
  BY <1>1, <1>2, <1>3 DEF IInv, OnlyNewest
<1>11. OneExecution'
  BY <1>2, <1>3, <1>4 DEF IInv, OneExecution
<1> QED BY <1>6, <1>7, <1>8, <1>9, <1>10, <1>11 DEF Rest

LEMMA BeginKeeps == ASSUME IInv, NEW a \in Approval, NEW n \in Commit, Begin(a, n) PROVE Rest'
<1> USE DEF Begin, drawing, history
<1>0. op = Idle /\ attempt[a] = NoAttempt /\ InState(n, "available") /\ n = active
  BY DEF Available, IInv, OnlyNewest
<1>1. op' # Idle /\ op'.kind = "rollback" /\ op'.at = "begun" /\ op'.n = n /\ op'.approval = a
  <2>1. op' \in Op
    BY DEF Op
  <2> QED BY <2>1, Gate
<1>2. /\ receipt'[n] # NoReceipt /\ receipt'[n].state = "executing"
      /\ \A m \in Commit \ {n} : receipt'[m] = receipt[m]
  BY <1>0, SetStateEffect DEF IInv, InState
<1>3. attempt'[a] # NoAttempt /\ attempt'[a].n = n /\ ~attempt'[a].done
      /\ \A b \in Approval \ {a} : attempt'[b] = attempt[b]
  <2>1. [n |-> n, done |-> FALSE] \in Attempt
    BY DEF Attempt
  <2>2. attempt'[a] = [n |-> n, done |-> FALSE]
    BY DEF IInv, TypeOK
  <2>3. \A b \in Approval \ {a} : attempt'[b] = attempt[b]
    BY DEF IInv, TypeOK
  <2>4. attempt'[a].n = n /\ ~attempt'[a].done
    BY <2>2
  <2> QED BY <2>1, <2>2, <2>3, <2>4, NoValuesDiffer
<1>4. UNCHANGED <<active, commits, fenced, undone>>
  OBVIOUS
<1>5. \A b \in Approval : attempt[b] # NoAttempt => attempt[b].n \in Commit \ {n}
  BY <1>0 DEF IInv, TypeOK, Attempt, OneExecution
<1>6. \A m \in Commit \ {n} : ~InState(m, "available")' /\ ~InState(m, "executing")'
  BY <1>0, <1>2, Gate DEF InState, IInv, OnlyNewest
<1>7. ~InState(n, "available")' /\ InState(n, "executing")'
  BY <1>2 DEF InState
<1> HIDE DEF Begin
<1>8. Numbers'
  BY <1>0, <1>1, <1>2, <1>4 DEF IInv, Numbers, InState
<1>9. Progress'
  BY <1>1, <1>3 DEF Progress
<1>10. Usable'
  BY <1>6, <1>7 DEF Usable
<1>11. Attempts'
  BY <1>2, <1>3, <1>5 DEF IInv, Attempts
<1>12. Fenced'
  <2>1. \A m \in fenced : m \in Commit \ {n}
    BY <1>0 DEF IInv, TypeOK, Fenced
  <2> QED BY <1>1, <1>4, <1>6, <2>1 DEF IInv, Fenced, Committing
<1>13. OnlyNewest'
  BY <1>0, <1>1, <1>4, <1>6, <1>7 DEF OnlyNewest
<1>14. OneExecution'
  BY <1>3, <1>5, <1>6, <1>7 DEF IInv, OneExecution
<1> QED BY <1>8, <1>9, <1>10, <1>11, <1>12, <1>13, <1>14 DEF Rest

\* A rollback that holds the gate ends, with its receipt over, or goes on.
LEMMA RollbackKeeps == IInv /\ (Undo \/ Quarantine \/ CompleteSuccess) => Rest'
<1> SUFFICES ASSUME IInv, Undo \/ Quarantine \/ CompleteSuccess PROVE Rest'
  OBVIOUS
<1>0. /\ op \in Op /\ op # Idle /\ op.kind = "rollback" /\ InState(op.n, "executing")
      /\ op.n \in Commit /\ op.approval \in Approval
      /\ attempt[op.approval] # NoAttempt /\ attempt[op.approval].n = op.n
      /\ op.n <= commits
  <2>1. op # Idle /\ op.at \in {"begun", "restored"}
    BY DEF Undo, Quarantine, CompleteSuccess
  <2>2. op \in Op /\ op.kind = "rollback" /\ InState(op.n, "executing")
    BY <2>1, Gate
  <2>3. op.n \in Commit /\ op.approval \in Approval
    BY <2>2, OpShape
  <2> QED BY <2>1, <2>2, <2>3 DEF IInv, Progress, Numbers
<1>1. UNCHANGED <<active, commits, fenced>>
  BY DEF Undo, Quarantine, CompleteSuccess, drawing, history
<1>2. \A n \in Commit \ {op.n} : receipt'[n] = receipt[n] /\ undone'[n] = undone[n]
  BY <1>0, SetStateEffect DEF Undo, Quarantine, CompleteSuccess, history, IInv, TypeOK, InState
<1>3. \/ /\ op' # Idle /\ op'.kind = "rollback" /\ op'.at = "restored" /\ op'.n = op.n
         /\ op'.approval = op.approval
         /\ receipt' = receipt /\ attempt' = attempt
      \/ /\ op' = Idle
         /\ receipt'[op.n] # NoReceipt /\ receipt'[op.n].state \in {"quarantined", "consumed"}
  <2>1. CASE op' = Idle
    <3>1. SetState(op.n, "quarantined") \/ SetState(op.n, "consumed")
      <4>1. [op EXCEPT !.at = "restored"] \in Op
        BY <1>0, OpShape
      <4> QED BY <2>1, <4>1, Gate DEF Undo, Quarantine, CompleteSuccess
    <3> QED BY <1>0, <2>1, <3>1, SetStateEffect DEF IInv, InState
  <2>2. CASE op' # Idle
    <3>1. op' = [op EXCEPT !.at = "restored"] /\ receipt' = receipt /\ attempt' = attempt
      BY <2>2 DEF Undo, Quarantine, CompleteSuccess
    <3>2. op'.kind = op.kind /\ op'.at = "restored" /\ op'.n = op.n /\ op'.approval = op.approval
      BY <1>0, <3>1 DEF Op
    <3> QED BY <1>0, <2>2, <3>1, <3>2
  <2> QED BY <2>1, <2>2
<1>4. /\ \A b \in Approval \ {op.approval} : attempt'[b] = attempt[b]
      /\ attempt'[op.approval] # NoAttempt /\ attempt'[op.approval].n = op.n
      /\ attempt'[op.approval].done => attempt[op.approval].done \/ op' = Idle
  <2>1. CASE attempt' = attempt
    BY <1>0, <2>1
  <2>2. CASE CompleteSuccess
    <3>1. attempt[op.approval] \in Attempt
      BY <1>0 DEF IInv, TypeOK
    <3>2. [attempt[op.approval] EXCEPT !.done = TRUE] \in Attempt
          /\ [attempt[op.approval] EXCEPT !.done = TRUE].n = attempt[op.approval].n
      BY <3>1 DEF Attempt
    <3> QED BY <1>0, <2>2, <3>2, NoValuesDiffer DEF CompleteSuccess, IInv, TypeOK
  <2> QED BY <2>1, <2>2 DEF Undo, Quarantine, registry
<1>5. \A b \in Approval \ {op.approval} :
        attempt[b] # NoAttempt => attempt[b].n \in Commit \ {op.n}
  BY <1>0 DEF IInv, TypeOK, Attempt, OneExecution
<1>m. PICK m \in Commit : m = op.n
  BY <1>0
<1>6. \A n \in Commit \ {op.n} : /\ ~InState(n, "executing")'
                                 /\ InState(n, "available")' <=> InState(n, "available")
  BY <1>0, <1>2 DEF IInv, OnlyNewest, InState
<1>7. ~InState(m, "available")' /\ (InState(m, "executing")' <=> op' # Idle)
  BY <1>0, <1>3, <1>m DEF InState
<1>8. active = op.n
  BY <1>0 DEF IInv, OnlyNewest
<1>9. \A n \in Commit \ {op.n} : ~InState(n, "available")
  BY <1>8 DEF IInv, OnlyNewest
<1>10. Numbers'
  <2>1. op' # Idle => op'.n <= commits
    BY <1>0, <1>3
  <2>2. \A n \in Commit : n > commits => n # op.n
    BY <1>0 DEF IInv, TypeOK, Commit
  <2> QED BY <1>1, <1>2, <2>1, <2>2 DEF IInv, Numbers
<1>11. Progress'
  BY <1>0, <1>3 DEF Progress
<1>12. Usable'
  BY <1>6, <1>7, <1>9, <1>m DEF Usable
<1>13. Attempts'
  <2>1. receipt'[op.n] # NoReceipt
    BY <1>0, <1>3 DEF InState
  <2> QED BY <1>2, <1>4, <1>5, <2>1 DEF IInv, Attempts
<1>14. Fenced'
  <2>1. \A n \in fenced : n \in Commit \ {op.n}
    BY <1>0 DEF IInv, TypeOK, Fenced
  <2>2. \A n \in fenced : ~Committing(n)'
    BY <1>3 DEF Committing
  <2> QED BY <1>1, <1>2, <1>6, <2>1, <2>2 DEF IInv, Fenced
<1>15. OnlyNewest'
  BY <1>0, <1>1, <1>3, <1>6, <1>7, <1>8, <1>9, <1>m DEF OnlyNewest
<1>16. OneExecution'
  <2>1. ~attempt[op.approval].done
    BY <1>0 DEF IInv, OneExecution, TypeOK, Attempt
  <2> QED BY <1>0, <1>4, <1>5, <1>6, <1>7, <1>9, <1>m, <2>1 DEF IInv, OneExecution
<1> QED BY <1>10, <1>11, <1>12, <1>13, <1>14, <1>15, <1>16 DEF Rest

LEMMA EngineerKeeps == IInv /\ (Command \/ Inspect) => Rest'
<1> SUFFICES ASSUME IInv, Command \/ Inspect PROVE Rest'
  OBVIOUS
<1>1. Noticed
  BY DEF Command, Inspect
<1>2. \A n \in Commit :
        /\ receipt'[n] = NoReceipt <=> receipt[n] = NoReceipt
        /\ InState(n, "available")' => InState(n, "available") /\ op # Idle
        /\ InState(n, "executing")' <=> InState(n, "executing")
  BY <1>1, CommandEffect DEF Noticed
<1>3. UNCHANGED <<active, attempt, tracked, op, commits, undone>>
  BY <1>1 DEF Noticed
<1>4. \A a \in Approval : attempt[a] # NoAttempt => attempt[a].n \in Commit
  BY DEF IInv, TypeOK, Attempt
<1>5. Numbers'
  BY <1>2, <1>3 DEF IInv, Numbers
<1>6. Progress'
  <2>1. op # Idle => op.n \in Commit
    BY OpShape DEF IInv, TypeOK
  <2> QED BY <1>2, <1>3, <2>1 DEF IInv, Progress
<1>7. Usable' /\ Attempts'
  BY <1>2, <1>3, <1>4 DEF IInv, Usable, Attempts
<1>8. Fenced'
  <2> SUFFICES ASSUME NEW n \in fenced'
               PROVE  /\ n <= commits' /\ undone'[n] = {} /\ n \in Commit
                      /\ ~InState(n, "available")' /\ ~InState(n, "executing")'
                      /\ ~Committing(n)'
    BY DEF Fenced
  <2>1. CASE n \in fenced
    <3>1. n \in Commit
      BY <2>1 DEF IInv, TypeOK
    <3> QED BY <1>2, <1>3, <2>1, <3>1 DEF IInv, Fenced, Committing
  <2>2. CASE n \notin fenced
    <3>1. op = Idle /\ n \in Commit /\ InState(n, "available")
      BY <1>1, <2>2 DEF Noticed
    <3>2. n <= commits
      BY <3>1 DEF IInv, Numbers, InState, TypeOK, Commit
    <3>3. undone[n] = {}
      BY <3>1 DEF IInv, Usable
    <3> QED BY <1>2, <1>3, <3>1, <3>2, <3>3, Gate DEF Committing
  <2> QED BY <2>1, <2>2
<1>9. OnlyNewest'
  BY <1>2, <1>3 DEF IInv, OnlyNewest
<1>10. OneExecution'
  BY <1>2, <1>3, <1>4 DEF IInv, OneExecution
<1> QED BY <1>5, <1>6, <1>7, <1>8, <1>9, <1>10 DEF Rest

LEMMA RestartKeeps == IInv /\ (Restart \/ UNCHANGED vars) => Rest'
<1>1. IInv /\ Restart => Rest'
  <2> SUFFICES ASSUME IInv, Restart PROVE Rest'
    OBVIOUS
  <2>1. /\ \A n \in Commit : receipt'[n] = NoReceipt
        /\ \A a \in Approval : attempt'[a] = NoAttempt
        /\ op' = Idle /\ active' = 0 /\ UNCHANGED <<commits, fenced, undone>>
    BY DEF Restart, history
  <2>2. 0 <= commits
    BY DEF IInv, TypeOK
  <2>3. \A n \in fenced : n \in Commit
    BY DEF IInv, TypeOK
  <2> QED BY <2>1, <2>2, <2>3 DEF Rest, IInv, Numbers, Progress, Usable, Attempts, Fenced,
                                  OnlyNewest, OneExecution, InState, Committing
<1>2. IInv /\ UNCHANGED vars => Rest'
  BY DEF vars, drawing, registry, history, Rest, IInv, Numbers, Progress, Usable, Attempts,
         Fenced, OnlyNewest, OneExecution, InState, Committing
<1> QED BY <1>1, <1>2

-----------------------------------------------------------------------------
(* The theorems.                                                           *)

LEMMA InitIInv == Init => IInv
<1> SUFFICES ASSUME Init PROVE IInv
  OBVIOUS
<1>1. TypeOK
  BY InitType
<1>2. /\ \A n \in Commit : receipt[n] = NoReceipt /\ undone[n] = {}
      /\ \A a \in Approval : attempt[a] = NoAttempt
      /\ op = Idle /\ active = 0 /\ commits = 0 /\ fenced = {}
  BY DEF Init
<1> QED BY <1>1, <1>2 DEF IInv, Numbers, Progress, Usable, Attempts, Fenced,
                          OnlyNewest, OneExecution, InState, Committing

LEMMA Inductive == IInv /\ [Next]_vars => IInv'
<1>1. IInv /\ [Next]_vars => Rest'
  BY CommitKeeps, RegisterKeeps, EndOfCommitKeeps, BeginKeeps, RollbackKeeps,
     EngineerKeeps, RestartKeeps DEF Next
<1> QED BY <1>1, TypeIsKept DEF IInv, Rest

LEMMA Invariance == Spec => []IInv
BY InitIInv, Inductive, PTL DEF Spec

(***************************************************************************)
(* Type correctness of the registry, the undo stack and the gate.          *)
(***************************************************************************)
THEOREM UndoTypeCorrect == Spec => []TypeOK
BY Invariance, PTL DEF IInv

(***************************************************************************)
(* Register and InvalidateAvailableForDocument leave only the newest       *)
(* receipt usable, and a receipt is executing exactly while its rollback   *)
(* holds the commit gate.                                                  *)
(***************************************************************************)
THEOREM NewestReceiptOnly == Spec => []OnlyNewest
BY Invariance, PTL DEF IInv

(***************************************************************************)
(* An undo group is executed for one approval at most (TryBegin,           *)
(* CompleteSuccess, Quarantine).                                           *)
(***************************************************************************)
THEOREM OneExecutionPerReceipt == Spec => []OneExecution
BY Invariance, PTL DEF IInv

(***************************************************************************)
(* After CommandWillStart ran over an available receipt, its rollback is   *)
(* gone for good.                                                          *)
(***************************************************************************)
THEOREM CommandsFence == Spec => []FenceHolds
<1>1. IInv => FenceHolds
  BY DEF IInv, Fenced, FenceHolds
<1> QED BY <1>1, Invariance, PTL

-----------------------------------------------------------------------------
(* What is on top of the undo stack while a receipt can be used.           *)

Newest(n, previous, new, r, s) ==
    /\ previous # new /\ r = new /\ s # <<>>
    /\ \/ Top(s).by = n /\ Top(s).before = previous
       \/ /\ Top(s).by = Wrapper /\ Top(s).before = new
          /\ Pop(s) # <<>>
          /\ Top(Pop(s)).by = n /\ Top(Pop(s)).before = previous

Clean ==
    /\ op # Idle /\ op.at = "applied" /\ op.n \notin slipped =>
         Newest(op.n, op.previous, op.new, revision, undo)
    /\ \A n \in Commit \ slipped :
         InState(n, "available") \/ (op # Idle /\ op.at = "begun" /\ op.n = n) =>
             Newest(n, receipt[n].previous, receipt[n].new, revision, undo)

LEMMA TopOfAppend ==
    ASSUME NEW s \in Seq(EntryOf), NEW e \in EntryOf
    PROVE  /\ Append(s, e) \in Seq(EntryOf) /\ Append(s, e) # <<>>
           /\ Top(Append(s, e)) = e /\ Pop(Append(s, e)) = s
<1>1. /\ Append(s, e) \in Seq(EntryOf) /\ Len(Append(s, e)) = Len(s) + 1
      /\ Append(s, e)[Len(s) + 1] = e
      /\ \A i \in 1..Len(s) : Append(s, e)[i] = s[i]
  BY AppendProperties
<1>2. Len(s) \in Nat
  BY LenProperties
<1>3. Append(s, e) # <<>>
  BY <1>1, <1>2, EmptySeq
<1>4. Pop(Append(s, e)) = SubSeq(Append(s, e), 1, Len(s))
  BY <1>1, <1>2, <1>3 DEF Pop
<1>5. SubSeq(Append(s, e), 1, Len(s)) = s
  BY AppendProperties, <1>1, <1>2, SubSeqProperties, SeqEqual
<1> QED BY <1>1, <1>2, <1>3, <1>4, <1>5 DEF Top

LEMMA UndoesOne ==
    ASSUME NEW s \in Seq(EntryOf), s # <<>>
    PROVE  Undoes(s, 1) = {Top(s).by}
<1>1. Len(s) \in Nat /\ Len(s) >= 1 /\ DOMAIN s = 1..Len(s)
  BY EmptySeq, LenProperties
<1>2. {j \in DOMAIN s : j + 1 > Len(s)} = {Len(s)}
  BY <1>1
<1> QED BY <1>2 DEF Undoes, Top

LEMMA UndoesTwo ==
    ASSUME NEW s \in Seq(EntryOf), s # <<>>, Pop(s) # <<>>
    PROVE  Undoes(s, 2) = {Top(s).by, Top(Pop(s)).by}
<1>1. Len(s) \in Nat /\ Len(s) >= 1 /\ DOMAIN s = 1..Len(s)
  BY EmptySeq, LenProperties
<1>2. Pop(s) = SubSeq(s, 1, Len(s) - 1) /\ Pop(s) \in Seq(EntryOf)
  BY PopKeepsType DEF Pop
<1>3. \A i \in 1..(Len(s) - 1) : s[i] \in EntryOf
  BY <1>1, ElementOfSeq
<1>4. Len(Pop(s)) = Len(s) - 1 /\ \A i \in 1..(Len(s) - 1) : Pop(s)[i] = s[i]
  BY <1>1, <1>2, <1>3, SubSeqProperties
<1>5. Len(Pop(s)) >= 1
  BY <1>2, EmptySeq, LenProperties
<1>6. Top(Pop(s)) = s[Len(s) - 1]
  BY <1>1, <1>4, <1>5 DEF Top
<1>7. {j \in DOMAIN s : j + 2 > Len(s)} = {Len(s) - 1, Len(s)}
  BY <1>1, <1>4, <1>5
<1> QED BY <1>6, <1>7 DEF Undoes, Top

LEMMA InitClean == Init => Clean /\ SparesOthers
BY DEF Init, Clean, SparesOthers, InState

LEMMA CommitClean == IInv /\ CommitApplied => Clean'
<1> SUFFICES ASSUME IInv, CommitApplied PROVE Clean'
  OBVIOUS
<1> USE DEF CommitApplied
<1>1. op = Idle /\ commits' \in Commit /\ undo \in Seq(EntryOf) /\ revision \in Revision
      /\ revision' \in Revision /\ revision' # revision
  BY BoundsAreNaturals DEF IInv, TypeOK, Commit, EntryOf
<1>2. op' # Idle /\ op'.at = "applied" /\ op'.n = commits'
      /\ op'.previous = revision /\ op'.new = revision'
  <2>1. op' \in Op
    BY <1>1 DEF Op
  <2> QED BY <2>1, Gate
<1>3. \A n \in Commit : ~InState(n, "available")'
  BY <1>1, CommandEffect
<1>4. Newest(commits', revision, revision', revision', undo')
  <2> DEFINE e == [by |-> commits', before |-> revision]
             w == [by |-> Wrapper, before |-> revision']
             s == Append(undo, e)
  <2>1. e \in EntryOf /\ w \in EntryOf
    BY <1>1 DEF EntryOf, Author
  <2>2. s \in Seq(EntryOf) /\ s # <<>> /\ Top(s) = e
    BY <1>1, <2>1, TopOfAppend
  <2>3. Append(s, w) # <<>> /\ Top(Append(s, w)) = w /\ Pop(Append(s, w)) = s
    BY <2>1, <2>2, TopOfAppend
  <2>4. undo' \in {s, Append(s, w)}
    BY DEF Push, Wrapped
  <2>5. e.by = commits' /\ e.before = revision /\ w.by = Wrapper /\ w.before = revision'
    OBVIOUS
  <2> HIDE DEF e, w, s
  <2>6. CASE undo' = s
    BY <1>1, <2>2, <2>5, <2>6 DEF Newest, Top
  <2>7. CASE undo' = Append(s, w)
    BY <1>1, <2>2, <2>3, <2>5, <2>7 DEF Newest, Top, Pop
  <2> QED BY <2>4, <2>6, <2>7
<1> HIDE DEF CommitApplied
<1> QED BY <1>2, <1>3, <1>4 DEF Clean

LEMMA RegisterClean == IInv /\ Clean /\ Register => Clean'
<1> SUFFICES ASSUME IInv, Clean, Register PROVE Clean'
  OBVIOUS
<1> USE DEF Register, drawing, history
<1>1. op # Idle /\ op.at = "applied" /\ op \in Op /\ op.kind = "commit" /\ op.n \in Commit
  BY Gate, OpShape
<1>2. op' # Idle /\ op'.at = "registered"
  <2>1. op' \in Op /\ op'.at = "registered"
    BY <1>1, OpShape DEF Op
  <2> QED BY <2>1, Gate
<1>3. receipt'[op.n].previous = op.previous /\ receipt'[op.n].new = op.new
  BY <1>1 DEF IInv, TypeOK, Superseded
<1>4. \A n \in Commit \ {op.n} : ~InState(n, "available")'
  <2> SUFFICES ASSUME NEW n \in Commit \ {op.n} PROVE ~InState(n, "available")'
    OBVIOUS
  <2>1. \/ receipt'[n] = receipt[n]
        \/ receipt[n] # NoReceipt /\ receipt'[n] = [receipt[n] EXCEPT !.state = "superseded"]
    BY <1>1 DEF Superseded
  <2>2. receipt[n] # NoReceipt => [receipt[n] EXCEPT !.state = "superseded"].state = "superseded"
    BY DEF IInv, TypeOK, Receipt
  <2>3. ~InState(n, "available")
    BY <1>1 DEF IInv, Progress
  <2> QED BY <2>1, <2>2, <2>3 DEF InState
<1>5. op.n \notin slipped => Newest(op.n, op.previous, op.new, revision, undo)
  BY <1>1 DEF Clean
<1>6. UNCHANGED <<revision, undo, slipped>>
  OBVIOUS
<1> HIDE DEF Register
<1> QED BY <1>2, <1>3, <1>4, <1>5, <1>6 DEF Clean, Newest

LEMMA BeginClean ==
    ASSUME IInv, Clean, NEW a \in Approval, NEW n \in Commit, Begin(a, n)
    PROVE  Clean'
<1> USE DEF Begin, drawing, history
<1>1. InState(n, "available") /\ op = Idle
  BY DEF Available
<1>2. op' # Idle /\ op'.at = "begun" /\ op'.n = n
  <2>1. op' \in Op
    BY DEF Op
  <2> QED BY <2>1, Gate
<1>3. receipt'[n].previous = receipt[n].previous /\ receipt'[n].new = receipt[n].new
  BY <1>1 DEF IInv, TypeOK, InState, SetState, Receipt
<1>4. \A m \in Commit : ~InState(m, "available")'
  <2>1. \A m \in Commit : m # active => ~InState(m, "available")
    BY DEF IInv, OnlyNewest
  <2>2. n = active
    BY <1>1, <2>1
  <2> QED BY <1>1, <2>1, <2>2, SetStateEffect DEF IInv, InState
<1>5. n \notin slipped => Newest(n, receipt[n].previous, receipt[n].new, revision, undo)
  BY <1>1 DEF Clean
<1>6. UNCHANGED <<revision, undo, slipped>>
  OBVIOUS
<1> HIDE DEF Begin
<1> QED BY <1>2, <1>3, <1>4, <1>5, <1>6 DEF Clean, Newest

\* Everything else leaves the drawing alone, or no receipt that counts.
LEMMA OthersClean ==
    IInv /\ Clean /\ (CommitFails \/ RegisterFails \/ Track \/ TrackFails \/ Undo
                      \/ Quarantine \/ CompleteSuccess \/ Command \/ Inspect \/ Restart
                      \/ UNCHANGED vars) => Clean'
<1>1. IInv /\ CommitFails => Clean'
  <2> SUFFICES ASSUME IInv, CommitFails PROVE Clean'
    OBVIOUS
  <2>1. CommandWillStart /\ op = Idle /\ op' = Idle
    BY DEF CommitFails
  <2>2. \A n \in Commit : ~InState(n, "available")'
    BY <2>1, CommandEffect
  <2> QED BY <2>1, <2>2 DEF Clean
<1>2. IInv /\ Clean /\ (RegisterFails \/ Track \/ TrackFails) => Clean'
  <2> SUFFICES ASSUME IInv, Clean, RegisterFails \/ Track \/ TrackFails PROVE Clean'
    OBVIOUS
  <2>1. op' = Idle /\ UNCHANGED <<revision, undo, slipped>>
    BY DEF RegisterFails, Track, TrackFails, drawing, history
  <2>2. \A n \in Commit : InState(n, "available")' => receipt'[n] = receipt[n]
                                                     /\ InState(n, "available")
    <3>1. CASE receipt' = receipt
      BY <3>1 DEF InState
    <3>2. CASE Invalidate
      BY <3>2, InvalidateEffect DEF IInv
    <3> QED BY <3>1, <3>2 DEF RegisterFails, Track, TrackFails, registry, InvalidateRollback
  <2> QED BY <2>1, <2>2 DEF Clean, Newest
<1>3. IInv /\ (Undo \/ Quarantine \/ CompleteSuccess) => Clean'
  <2> SUFFICES ASSUME IInv, Undo \/ Quarantine \/ CompleteSuccess PROVE Clean'
    OBVIOUS
  <2>1. op # Idle /\ op \in Op /\ op.kind = "rollback" /\ op.n \in Commit
        /\ InState(op.n, "executing")
    BY Gate, OpShape DEF Undo, Quarantine, CompleteSuccess
  <2>2. op' = Idle \/ op'.at = "restored"
    BY <2>1 DEF Undo, Quarantine, CompleteSuccess, Op
  <2>3. \A n \in Commit : ~InState(n, "available")
    <3>1. \A n \in Commit : InState(n, "available") => n = active
      BY DEF IInv, OnlyNewest
    <3>2. op.n = active
      BY <2>1 DEF IInv, OnlyNewest
    <3> QED BY <2>1, <3>1, <3>2 DEF InState
  <2>4. \A n \in Commit : ~InState(n, "available")'
    <3>1. CASE receipt' = receipt
      BY <2>3, <3>1 DEF InState
    <3>2. CASE SetState(op.n, "quarantined") \/ SetState(op.n, "consumed")
      BY <2>1, <2>3, <3>2, SetStateEffect DEF IInv, InState
    <3> QED BY <3>1, <3>2 DEF Undo, Quarantine, CompleteSuccess
  <2> QED BY <2>2, <2>4 DEF Clean
<1>4. IInv /\ Clean /\ (Command \/ Inspect) => Clean'
  <2> SUFFICES ASSUME IInv, Clean, Command \/ Inspect PROVE Clean'
    OBVIOUS
  <2>1. Noticed
    BY DEF Command, Inspect
  <2>2. CASE op = Idle
    <3>1. \A n \in Commit : ~InState(n, "available")'
      BY <2>1, <2>2, CommandEffect DEF Noticed
    <3> QED BY <2>1, <2>2, <3>1 DEF Noticed, Clean
  <2>3. CASE op # Idle
    <3>1. op' = op /\ op.n \in slipped'
      BY <2>1, <2>3 DEF Noticed
    <3>2. \A n \in Commit \ slipped' : ~InState(n, "available")'
      <4> SUFFICES ASSUME NEW n \in Commit, InState(n, "available")' PROVE n \in slipped'
        OBVIOUS
      <4>1. InState(n, "available") /\ n = active
        BY <2>1, CommandEffect DEF Noticed, IInv, OnlyNewest
      <4>2. op.n = active
        <5>1. op \in Op
          BY <2>3 DEF IInv, TypeOK
        <5>2. op.at # "applied"
          BY <2>3, <4>1 DEF IInv, Progress
        <5>3. op.kind = "rollback" => op.n = active
          BY <2>3, <5>1, OpShape DEF IInv, OnlyNewest
        <5>4. op.kind = "commit" => op.at = "registered"
          BY <5>1, <5>2, OpShape
        <5> QED BY <2>3, <5>1, <5>3, <5>4, OpShape DEF IInv, Progress
      <4> QED BY <3>1, <4>1, <4>2
    <3> QED BY <2>3, <3>1, <3>2 DEF Clean
  <2> QED BY <2>2, <2>3
<1>5. Restart => Clean'
  BY DEF Restart, Clean, InState
<1>6. Clean /\ UNCHANGED vars => Clean'
  BY DEF Clean, Newest, vars, drawing, registry, history, InState, Top, Pop
<1> QED BY <1>1, <1>2, <1>3, <1>4, <1>5, <1>6

\* What the one step that undoes anything takes from the stack: nothing but
\* the rollback's own entry and a wrapper's, and its own if it succeeds.
LEMMA UndoTakes ==
    ASSUME IInv, Clean, Undo, op.n \notin slipped, NEW s \in Wrapped(undo, revision)
    PROVE  LET again == Retry(op.n, s)
               taken == Undoes(s, IF again THEN 2 ELSE 1)
           IN  /\ taken \subseteq {op.n, Wrapper}
               /\ (IF again THEN Twice(s) ELSE Once(s)) = receipt[op.n].previous
                      => op.n \in taken
<1>1. op # Idle /\ op.at = "begun" /\ op.n \in Commit /\ InState(op.n, "executing")
      /\ revision = receipt[op.n].new
  BY Gate, OpShape DEF Undo, Fits
<1>2. undo \in Seq(EntryOf) /\ revision \in Revision
  BY DEF IInv, TypeOK, EntryOf
<1>3. Newest(op.n, receipt[op.n].previous, receipt[op.n].new, revision, undo)
  BY <1>1 DEF Clean
<1> DEFINE w == [by |-> Wrapper, before |-> revision]
<1>4. w \in EntryOf /\ w.by = Wrapper /\ w.before = revision
  BY <1>2 DEF EntryOf, Author
<1>5. s = undo \/ s = Append(undo, w)
  BY DEF Wrapped
<1> HIDE DEF w
<1>6. CASE s = undo
  <2>1. s \in Seq(EntryOf) /\ s # <<>>
    BY <1>2, <1>3, <1>6 DEF Newest
  <2>2. CASE ~Retry(op.n, s)
    <3>1. Once(s) = receipt[op.n].previous
      BY <1>3, <1>6, <2>1, <2>2 DEF Newest, Retry, Once
    <3>2. Top(s).by = op.n
      BY <1>3, <1>6, <2>1, <3>1 DEF Newest, Once
    <3> QED BY <2>1, <2>2, <3>2, UndoesOne
  <2>3. CASE Retry(op.n, s)
    <3>1. Once(s) # receipt[op.n].previous
      BY <2>3 DEF Retry
    <3>2. Top(s).by = Wrapper /\ Pop(s) # <<>> /\ Top(Pop(s)).by = op.n
      BY <1>3, <1>6, <2>1, <3>1 DEF Newest, Once
    <3> QED BY <2>1, <2>3, <3>2, UndoesTwo
  <2> QED BY <2>2, <2>3
<1>7. CASE s = Append(undo, w)
  <2>1. s \in Seq(EntryOf) /\ s # <<>> /\ Top(s) = w /\ Pop(s) = undo
    BY <1>2, <1>4, <1>7, TopOfAppend
  <2>2. Retry(op.n, s)
    BY <1>1, <1>3, <1>4, <2>1 DEF Retry, Once, Newest
  <2>3. undo # <<>> /\ Undoes(s, 2) = {Top(s).by, Top(undo).by}
    BY <1>3, <2>1, UndoesTwo DEF Newest
  <2>4. Top(undo).by \in {op.n, Wrapper}
    BY <1>3 DEF Newest
  <2>5. Twice(s) = receipt[op.n].previous => Top(undo).by = op.n
    BY <1>3, <2>1, <2>3 DEF Newest, Twice
  <2> QED BY <1>4, <2>1, <2>2, <2>3, <2>4, <2>5
<1> QED BY <1>5, <1>6, <1>7

LEMMA UndoSpares == IInv /\ Clean /\ SparesOthers /\ Undo => SparesOthers'
<1> SUFFICES ASSUME IInv, Clean, SparesOthers, Undo PROVE SparesOthers'
  OBVIOUS
<1>1. op.n \in Commit
  BY Gate, OpShape DEF Undo
<1>2. PICK s \in Wrapped(undo, revision) :
        undone' = [undone EXCEPT ![op.n] = @ \cup Undoes(s, IF Retry(op.n, s) THEN 2 ELSE 1)]
  BY DEF Undo
<1>3. undone \in [Commit -> SUBSET Author] /\ slipped' = slipped
  BY DEF IInv, TypeOK, Undo
<1>4. op.n \notin slipped =>
        Undoes(s, IF Retry(op.n, s) THEN 2 ELSE 1) \subseteq {op.n, Wrapper}
  BY UndoTakes
<1> QED BY <1>1, <1>2, <1>3, <1>4 DEF SparesOthers

LEMMA OthersSpare ==
    SparesOthers /\ [Next]_vars /\ ~Undo => SparesOthers'
<1>1. ASSUME SparesOthers, UNCHANGED undone, slipped \subseteq slipped'
      PROVE  SparesOthers'
  BY <1>1 DEF SparesOthers
<1>2. [Next]_vars /\ ~Undo => UNCHANGED undone /\ slipped \subseteq slipped'
  BY DEF Next, CommitApplied, CommitFails, Register, RegisterFails, Track, TrackFails,
         Begin, Quarantine, CompleteSuccess, Command, Inspect, Noticed, Restart, vars, history
<1> QED BY <1>1, <1>2

(***************************************************************************)
(* A rollback undoes its own commit and empty wrapper entries only, unless *)
(* a command ran into the commit's or the rollback's own call: the top of  *)
(* the stack is known as long as the receipt can be used, and the revision *)
(* tells whether the second UNDO 1 is due.                                 *)
(***************************************************************************)
THEOREM OthersAreSpared == Spec => []SparesOthers
<1>1. Init => Clean /\ SparesOthers
  BY InitClean
<1>2. IInv /\ Clean /\ SparesOthers /\ [Next]_vars => Clean' /\ SparesOthers'
  <2>1. IInv /\ Clean /\ [Next]_vars => Clean'
    BY CommitClean, RegisterClean, BeginClean, OthersClean DEF Next
  <2> QED BY <2>1, UndoSpares, OthersSpare
<1> QED BY <1>1, <1>2, Invariance, PTL DEF Spec

-----------------------------------------------------------------------------
(* Type correctness of the service.                                        *)

ServiceTypeOK ==
    /\ job \in [Commit -> {"OPEN", "COMMITTING", "PROVEN", "UNPROVEN", "ROLLED_BACK"}]
    /\ known \subseteq Commit
    /\ scope \in [Approval -> Commit \cup {0}]
    /\ call \in [Call -> Request \cup {Idle}]

LEMMA RequestShape ==
    ASSUME NEW r \in Request
    PROVE  /\ Silent(r) \in Request
           /\ r.approval \in Approval /\ r.n \in Commit
           /\ \A stage \in {"sent", "executing", "restored"} :
                [r EXCEPT !.at = stage] \in Request
BY DEF Request, Silent

LEMMA AnsweredType ==
    ASSUME ServiceTypeOK, NEW c \in Call, call[c] # Idle,
           NEW stage \in {"restored", "failed"}
    PROVE  Answered(c, stage) \in Request \cup {Idle}
<1>1. call[c] \in Request
  BY DEF ServiceTypeOK
<1> QED BY <1>1, RequestShape DEF Answered

LEMMA ServiceTypeIsKept ==
    TypeOK /\ ServiceTypeOK /\ [RollbackNext]_rollbackVars => ServiceTypeOK'
<1> SUFFICES ASSUME TypeOK, ServiceTypeOK, [RollbackNext]_rollbackVars PROVE ServiceTypeOK'
  OBVIOUS
<1>0. \A c \in Call : call[c] # Idle => call[c] \in Request
  BY DEF ServiceTypeOK
<1>1. CASE Commits
  BY <1>1 DEF Commits, ServiceTypeOK
<1>2. ASSUME NEW n \in Commit, Committed(n) PROVE ServiceTypeOK'
  BY <1>2 DEF Committed, ServiceTypeOK
<1>3. ASSUME NEW a \in Approval, NEW n \in Commit, Approve(a, n) PROVE ServiceTypeOK'
  BY <1>3 DEF Approve, ServiceTypeOK
<1>4. ASSUME NEW c \in Call, NEW a \in Approval, Ask(c, a) PROVE ServiceTypeOK'
  BY <1>4 DEF Ask, ServiceTypeOK, Request
<1>5. ASSUME NEW c \in Call, GiveUp(c) PROVE ServiceTypeOK'
  <2>1. Silent(call[c]) \in Request
    BY <1>0, <1>5, RequestShape DEF GiveUp
  <2> QED BY <1>5, <2>1 DEF GiveUp, ServiceTypeOK
<1>6. ASSUME NEW c \in Call, Finish(c) PROVE ServiceTypeOK'
  BY <1>6 DEF Finish, ServiceTypeOK
<1>7. CASE ServiceDies
  <2>1. \A c \in Call : call[c] # Idle => Silent(call[c]) \in Request
    BY <1>0, RequestShape
  <2> QED BY <1>7, <2>1 DEF ServiceDies, ServiceTypeOK
<1>8. ASSUME NEW c \in Call, Begins(c) PROVE ServiceTypeOK'
  <2>1. call[c] \in Request /\ [call[c] EXCEPT !.at = "executing"] \in Request
    BY <1>0, <1>8, RequestShape DEF Begins, At
  <2> QED BY <1>8, <2>1 DEF Begins, Moved, ServiceTypeOK
<1>9. ASSUME NEW c \in Call, Replay(c) \/ Refuse(c) PROVE ServiceTypeOK'
  <2>1. call[c] # Idle
    BY <1>9 DEF Replay, Refuse, At
  <2>2. Answered(c, "restored") \in Request \cup {Idle}
    BY <2>1, AnsweredType
  <2> QED BY <1>9, <2>2 DEF Replay, Refuse, ServiceTypeOK
<1>10. CASE Executes
  <2>1. \A c \in Call : At(c, "executing") =>
          Answered(c, "restored") \in Request \cup {Idle}
          /\ Answered(c, "failed") \in Request \cup {Idle}
    BY AnsweredType DEF At
  <2>2. Ends("restored") \/ Ends("failed") \/ UNCHANGED call
    BY <1>10 DEF Executes
  <2>3. call' \in [Call -> Request \cup {Idle}]
    BY <2>1, <2>2 DEF Ends, ServiceTypeOK
  <2> QED BY <1>10, <2>3 DEF Executes, ServiceTypeOK
<1>11. CASE Others \/ UNCHANGED rollbackVars
  BY <1>11 DEF Others, serviceVars, rollbackVars, ServiceTypeOK
<1>12. CASE RestartsAutoCad
  BY <1>12 DEF RestartsAutoCad, ServiceTypeOK
<1> QED BY <1>1, <1>2, <1>3, <1>4, <1>5, <1>6, <1>7, <1>8, <1>9, <1>10, <1>11, <1>12
        DEF RollbackNext

-----------------------------------------------------------------------------
(* The service adds nothing to what the registry and the drawing may do.   *)

LEMMA StepsAreSteps ==
    ServiceTypeOK /\ [RollbackNext]_rollbackVars => [Next]_vars
<1> SUFFICES ASSUME ServiceTypeOK, [RollbackNext]_rollbackVars PROVE [Next]_vars
  OBVIOUS
<1>1. Commits => Next
  BY DEF Commits, Next
<1>2. Others => Next
  BY DEF Others, Next
<1>3. Executes => Next
  BY DEF Executes, Next
<1>4. RestartsAutoCad => Next
  BY DEF RestartsAutoCad, Next
<1>5. ASSUME NEW c \in Call, Begins(c) PROVE Next
  <2>1. call[c] \in Request
    BY <1>5 DEF Begins, At, ServiceTypeOK
  <2>2. call[c].approval \in Approval /\ call[c].n \in Commit
    BY <2>1, RequestShape
  <2> QED BY <1>5, <2>2 DEF Begins, Next
<1>6. ServiceDies \/ UNCHANGED rollbackVars => UNCHANGED vars
  BY DEF ServiceDies, rollbackVars
<1>7. \A n \in Commit : Committed(n) => UNCHANGED vars
  BY DEF Committed
<1>8. \A a \in Approval, n \in Commit : Approve(a, n) => UNCHANGED vars
  BY DEF Approve
<1>9. \A c \in Call, a \in Approval : Ask(c, a) => UNCHANGED vars
  BY DEF Ask
<1>10. \A c \in Call : GiveUp(c) \/ Finish(c) \/ Replay(c) \/ Refuse(c) => UNCHANGED vars
  BY DEF GiveUp, Finish, Replay, Refuse
<1> QED BY <1>1, <1>2, <1>3, <1>4, <1>5, <1>6, <1>7, <1>8, <1>9, <1>10 DEF RollbackNext

LEMMA TypesAndRegistry == RollbackSpec => [](IInv /\ ServiceTypeOK)
<1>1. RollbackInit => IInv /\ ServiceTypeOK
  <2>1. RollbackInit => IInv
    BY InitIInv DEF RollbackInit
  <2> QED BY <2>1 DEF RollbackInit, ServiceTypeOK
<1>2. IInv /\ ServiceTypeOK /\ [RollbackNext]_rollbackVars => IInv' /\ ServiceTypeOK'
  <2>1. IInv => TypeOK
    BY DEF IInv
  <2> QED BY <2>1, StepsAreSteps, Inductive, ServiceTypeIsKept
<1> QED BY <1>1, <1>2, PTL DEF RollbackSpec

(***************************************************************************)
(* Every theorem about UndoRollback holds with the service around it: what *)
(* the service, its calls and its crashes do are steps of the registry, or *)
(* leave it alone.                                                         *)
(***************************************************************************)
THEOREM RollbackImplementsUndo == RollbackSpec => Spec
<1>1. RollbackInit => Init
  BY DEF RollbackInit
<1>2. IInv /\ ServiceTypeOK /\ [RollbackNext]_rollbackVars => [Next]_vars
  BY StepsAreSteps
<1> QED BY <1>1, <1>2, TypesAndRegistry, PTL DEF RollbackSpec, Spec

-----------------------------------------------------------------------------
(* The inductive invariant.                                                *)

\* The receipt of n cannot be executed any more, or be registered again.
Spent(n) ==
    /\ n <= commits
    /\ ~InState(n, "available") /\ ~InState(n, "executing") /\ ~Committing(n)

Undone(n) == n \notin slipped => n \in undone[n]

Done(n) == Spent(n) /\ Undone(n)

Restored == op # Idle /\ op.at = "restored" => Undone(op.n)

\* What is kept for a replay, answered or stored as a success is done; and the
\* executing request is the one whose rollback holds the gate.
AttemptsDone ==
    \A a \in Approval : attempt[a] # NoAttempt /\ attempt[a].done => Done(attempt[a].n)

CallsDone ==
    \A c \in Call :
        /\ At(c, "executing") => op # Idle /\ op.kind = "rollback" /\ op.n = call[c].n
        /\ At(c, "restored") => Done(call[c].n)

JobsDone == \A n \in Commit : job[n] = "ROLLED_BACK" => Done(n)

Reported == Restored /\ AttemptsDone /\ CallsDone /\ JobsDone

RInv == IInv /\ Clean /\ ServiceTypeOK /\ Reported

-----------------------------------------------------------------------------
(* What is done stays done.                                                *)

LEMMA SpentStays ==
    ASSUME IInv, [Next]_vars, NEW n \in Commit, Spent(n)
    PROVE  Spent(n)'
<1>0. /\ commits \in Nat /\ n \in Nat /\ n <= commits
      /\ ~InState(n, "available") /\ ~InState(n, "executing") /\ ~Committing(n)
  BY BoundsAreNaturals DEF IInv, TypeOK, Commit, Spent
<1>1. CASE CommitApplied \/ CommitFails
  <2>1. CommandWillStart /\ commits' = commits + 1
    BY <1>1 DEF CommitApplied, CommitFails
  <2>2. ~InState(n, "available")' /\ ~InState(n, "executing")'
    BY <1>0, <2>1, CommandEffect
  <2>3. ~Committing(n)'
    <3>1. CASE CommitFails
      BY <1>0, <3>1 DEF CommitFails, Committing
    <3>2. CASE CommitApplied
      BY <1>0, <2>1, <3>2 DEF CommitApplied, Committing
    <3> QED BY <1>1, <3>1, <3>2
  <2> QED BY <1>0, <2>1, <2>2, <2>3 DEF Spent
<1>2. CASE Register
  <2>1. op # Idle /\ op \in Op /\ op.kind = "commit" /\ op.n \in Commit
    BY <1>2, Gate, OpShape DEF Register
  <2>2. op.n # n
    BY <1>0, <2>1 DEF Committing
  <2>3. op'.n = op.n
    BY <1>2, <2>1 DEF Register, Op
  <2>4. \/ receipt'[n] = receipt[n]
        \/ receipt[n] # NoReceipt /\ receipt'[n] = [receipt[n] EXCEPT !.state = "superseded"]
    BY <1>2, <2>1, <2>2 DEF Register, Superseded
  <2>5. receipt[n] # NoReceipt => [receipt[n] EXCEPT !.state = "superseded"].state = "superseded"
    BY DEF IInv, TypeOK, Receipt
  <2>6. ~InState(n, "available")' /\ ~InState(n, "executing")'
    BY <1>0, <2>4, <2>5 DEF InState
  <2> QED BY <1>0, <1>2, <2>2, <2>3, <2>6 DEF Register, Spent, Committing
<1>3. CASE RegisterFails \/ Track \/ TrackFails
  <2>1. op' = Idle /\ commits' = commits
    BY <1>3 DEF RegisterFails, Track, TrackFails
  <2>2. ~InState(n, "available")' /\ ~InState(n, "executing")'
    <3>1. CASE receipt' = receipt
      BY <1>0, <3>1 DEF InState
    <3>2. CASE Invalidate
      BY <1>0, <3>2, InvalidateEffect DEF IInv
    <3> QED BY <1>3, <3>1, <3>2 DEF RegisterFails, Track, TrackFails, registry,
                                    InvalidateRollback
  <2> QED BY <1>0, <2>1, <2>2 DEF Spent, Committing
<1>4. ASSUME NEW a \in Approval, NEW m \in Commit, Begin(a, m) PROVE Spent(n)'
  <2>1. InState(m, "available") /\ m # n
    BY <1>0, <1>4 DEF Begin, Available
  <2>2. receipt'[n] = receipt[n]
    BY <1>4, <2>1, SetStateEffect DEF Begin, IInv, InState
  <2>3. ~Committing(n)' /\ commits' = commits
    BY <1>4 DEF Begin, Committing
  <2> QED BY <1>0, <2>2, <2>3 DEF Spent, InState
<1>5. CASE Undo \/ Quarantine \/ CompleteSuccess
  <2>1. op # Idle /\ op \in Op /\ op.kind = "rollback" /\ op.n \in Commit
        /\ InState(op.n, "executing") /\ op.n # n
    BY <1>0, <1>5, Gate, OpShape DEF Undo, Quarantine, CompleteSuccess
  <2>2. receipt'[n] = receipt[n]
    <3>1. CASE SetState(op.n, "quarantined") \/ SetState(op.n, "consumed")
      BY <2>1, <3>1, SetStateEffect DEF IInv, InState
    <3> QED BY <1>5, <3>1 DEF Undo, Quarantine, CompleteSuccess
  <2>3. commits' = commits /\ (op' = Idle \/ op' = [op EXCEPT !.at = "restored"])
    BY <1>5 DEF Undo, Quarantine, CompleteSuccess
  <2>4. ~Committing(n)'
    BY <2>1, <2>3, OpShape DEF Committing, Op
  <2> QED BY <1>0, <2>2, <2>3, <2>4 DEF Spent, InState
<1>6. CASE Command \/ Inspect
  <2>1. CommandWillStart /\ op' = op /\ commits' = commits
    BY <1>6 DEF Command, Inspect, Noticed
  <2> QED BY <1>0, <2>1, CommandEffect DEF Spent, Committing
<1>7. CASE Restart
  BY <1>0, <1>7 DEF Restart, Spent, InState, Committing
<1>8. CASE UNCHANGED vars
  BY <1>0, <1>8 DEF vars, registry, Spent, InState, Committing
<1> QED BY <1>1, <1>2, <1>3, <1>4, <1>5, <1>6, <1>7, <1>8 DEF Next

\* No step takes an entry out of undone; only Undo adds one, for its own receipt.
LEMMA UndoneGrows ==
    ASSUME IInv, [Next]_vars, NEW n \in Commit
    PROVE  /\ slipped \subseteq slipped'
           /\ undone[n] \subseteq undone'[n]
           /\ undone'[n] # undone[n] => InState(n, "executing")
<1>1. CASE Undo
  <2>1. op.n \in Commit /\ InState(op.n, "executing")
    BY <1>1, Gate, OpShape DEF Undo
  <2>2. slipped' = slipped
        /\ \E more : undone' = [undone EXCEPT ![op.n] = @ \cup more]
    BY <1>1 DEF Undo
  <2>3. undone \in [Commit -> SUBSET Author]
    BY DEF IInv, TypeOK
  <2> QED BY <2>1, <2>2, <2>3
<1>2. CASE ~Undo
  BY <1>2 DEF Next, CommitApplied, CommitFails, Register, RegisterFails, Track, TrackFails,
         Begin, Quarantine, CompleteSuccess, Command, Inspect, Noticed, Restart, vars, history
<1> QED BY <1>1, <1>2

LEMMA DoneStays ==
    ASSUME IInv, [Next]_vars, NEW n \in Commit, Done(n)
    PROVE  Done(n)'
<1>1. Spent(n)'
  BY SpentStays DEF Done
<1>2. Undone(n)'
  BY UndoneGrows DEF Done, Undone
<1> QED BY <1>1, <1>2 DEF Done

-----------------------------------------------------------------------------
(* What is reported is done.                                               *)

\* The drawing is as it was: the rollback has undone its own commit.
LEMMA RestoredIsUndone ==
    ASSUME IInv, Clean, [Next]_vars, Restored
    PROVE  Restored'
<1> SUFFICES ASSUME op' # Idle, op'.at = "restored"
             PROVE  op'.n \notin slipped' => op'.n \in undone'[op'.n]
  BY DEF Restored, Undone
<1>1. CASE Undo
  <2>1. op # Idle /\ op \in Op /\ op.kind = "rollback" /\ op.n \in Commit
        /\ receipt[op.n] # NoReceipt
    BY <1>1, Gate, OpShape DEF Undo, InState
  <2>2. PICK s \in Wrapped(undo, revision) :
          /\ revision' = IF Retry(op.n, s) THEN Twice(s) ELSE Once(s)
          /\ undone' = [undone EXCEPT ![op.n] =
                          @ \cup Undoes(s, IF Retry(op.n, s) THEN 2 ELSE 1)]
    BY <1>1 DEF Undo
  <2>3. op' = [op EXCEPT !.at = "restored"] /\ revision' = receipt[op.n].previous
    BY <1>1 DEF Undo
  <2>4. op'.n = op.n
    BY <2>1, <2>3 DEF Op
  <2>5. slipped' = slipped /\ undone \in [Commit -> SUBSET Author]
    BY <1>1 DEF Undo, IInv, TypeOK
  <2>6. op.n \notin slipped =>
          op.n \in Undoes(s, IF Retry(op.n, s) THEN 2 ELSE 1)
    BY <1>1, <2>2, <2>3, UndoTakes
  <2> QED BY <2>1, <2>2, <2>4, <2>5, <2>6
<1>2. CASE ~Undo
  <2>1. op' = op
    <3>1. CASE Register
      <4>1. op' \in Op /\ op'.at = "registered"
        BY <3>1, Gate, OpShape DEF Register, Op
      <4> QED BY <4>1
    <3>2. CASE CommitApplied
      BY <3>2 DEF CommitApplied
    <3>3. ASSUME NEW a \in Approval, NEW n \in Commit, Begin(a, n) PROVE FALSE
      BY <3>3 DEF Begin
    <3> QED BY <1>2, <3>1, <3>2, <3>3
            DEF Next, CommitFails, RegisterFails, Track, TrackFails, Quarantine,
                CompleteSuccess, Command, Inspect, Noticed, Restart, vars
  <2>2. op.n \in Commit
    BY <2>1, Gate, OpShape
  <2> QED BY <2>1, <2>2, UndoneGrows DEF Restored, Undone
<1> QED BY <1>1, <1>2

\* The attempt of a rollback ends well in CompleteSuccess only, and its receipt
\* is consumed.
LEMMA SuccessIsDone ==
    ASSUME IInv, Restored, CompleteSuccess, NEW n \in Commit, n = op.n
    PROVE  Done(n)'
<1>1. op # Idle /\ op \in Op /\ InState(n, "executing") /\ op.at = "restored"
  BY Gate, OpShape DEF CompleteSuccess
<1>2. receipt'[n].state = "consumed"
  BY <1>1, SetStateEffect DEF CompleteSuccess, IInv, InState
<1>3. op' = Idle /\ commits' = commits /\ undone' = undone /\ slipped' = slipped
  BY DEF CompleteSuccess, history
<1>4. n <= commits'
  BY <1>1, <1>3 DEF IInv, Numbers
<1>5. Undone(n)'
  BY <1>1, <1>3 DEF Restored, Undone
<1> QED BY <1>2, <1>3, <1>4, <1>5 DEF Done, Spent, InState, Committing

LEMMA AttemptsStayDone == IInv /\ Restored /\ AttemptsDone /\ [Next]_vars => AttemptsDone'
<1> SUFFICES ASSUME IInv, Restored, AttemptsDone, [Next]_vars PROVE AttemptsDone'
  OBVIOUS
<1> SUFFICES ASSUME NEW a \in Approval, attempt'[a] # NoAttempt, attempt'[a].done,
                    NEW n \in Commit, n = attempt'[a].n
             PROVE  Done(n)'
  <2>1. attempt' \in [Approval -> Attempt \cup {NoAttempt}]
    BY TypeIsKept DEF TypeOK
  <2> QED BY <2>1 DEF AttemptsDone, Attempt, Done, Spent, Undone, InState, Committing
<1>1. CASE attempt'[a] = attempt[a]
  BY <1>1, DoneStays DEF AttemptsDone
<1>2. CASE CompleteSuccess
  <2>1. op # Idle /\ op \in Op /\ op.kind = "rollback" /\ op.approval \in Approval
    BY <1>2, Gate, OpShape DEF CompleteSuccess
  <2>2. attempt[op.approval] \in Attempt /\ attempt[op.approval].n = op.n
    BY <2>1 DEF IInv, TypeOK, Progress
  <2>3. CASE a = op.approval
    <3>1. attempt'[a].n = op.n
      BY <1>2, <2>1, <2>2, <2>3 DEF CompleteSuccess, Attempt, IInv, TypeOK
    <3> QED BY <1>2, <3>1, SuccessIsDone
  <2>4. CASE a # op.approval
    <3>1. attempt'[a] = attempt[a]
      BY <1>2, <2>4 DEF CompleteSuccess, IInv, TypeOK
    <3> QED BY <1>1, <3>1
  <2> QED BY <2>3, <2>4
<1>3. ASSUME NEW b \in Approval, NEW m \in Commit, Begin(b, m) PROVE Done(n)'
  <2>1. CASE a = b
    BY <1>3, <2>1 DEF Begin, IInv, TypeOK
  <2>2. CASE a # b
    <3>1. attempt'[a] = attempt[a]
      BY <1>3, <2>2 DEF Begin, IInv, TypeOK
    <3> QED BY <1>1, <3>1
  <2> QED BY <2>1, <2>2
<1>4. CASE Restart
  BY <1>4 DEF Restart
<1> QED BY <1>1, <1>2, <1>3, <1>4
        DEF Next, CommitApplied, CommitFails, Register, RegisterFails, Track, TrackFails,
            Undo, Quarantine, Command, Inspect, Noticed, vars, registry

LEMMA JobsStayDone == RInv /\ [RollbackNext]_rollbackVars => JobsDone'
<1> SUFFICES ASSUME RInv, [RollbackNext]_rollbackVars,
                    NEW n \in Commit, job'[n] = "ROLLED_BACK"
             PROVE  Done(n)'
  BY DEF JobsDone
<1>1. IInv /\ [Next]_vars /\ ServiceTypeOK /\ JobsDone /\ CallsDone
  BY StepsAreSteps DEF RInv, Reported
<1>2. CASE job[n] = "ROLLED_BACK"
  BY <1>1, <1>2, DoneStays DEF JobsDone
<1>3. CASE job[n] # "ROLLED_BACK"
  <2>1. PICK c \in Call : Finish(c) /\ call[c].n = n
    BY <1>1, <1>3 DEF ServiceTypeOK, RollbackNext, Commits, Committed, Approve, Ask, GiveUp,
       Finish, ServiceDies, Begins, Replay, Refuse, Executes, Others, RestartsAutoCad,
       rollbackVars, serviceVars
  <2> QED BY <1>1, <2>1, DoneStays DEF CallsDone, Finish
<1> QED BY <1>2, <1>3

\* A call keeps its request; success comes from a replay or from its own undo.
LEMMA CallsStayDone == RInv /\ [RollbackNext]_rollbackVars => CallsDone'
<1> SUFFICES ASSUME RInv, [RollbackNext]_rollbackVars PROVE CallsDone'
  OBVIOUS
<1> SUFFICES ASSUME NEW c \in Call, NEW n \in Commit,
                    call'[c] # Idle, call'[c].n = n
             PROVE  /\ call'[c].at = "executing" =>
                         op' # Idle /\ op'.kind = "rollback" /\ op'.n = n
                    /\ call'[c].at = "restored" => Done(n)'
  <2>1. ServiceTypeOK'
    BY ServiceTypeIsKept DEF RInv, IInv
  <2>2. \A d \in Call : call'[d] # Idle => call'[d].n \in Commit
    BY <2>1, RequestShape DEF ServiceTypeOK
  <2> QED BY <2>2 DEF CallsDone, At, Done, Spent, Undone, InState, Committing
<1>0. IInv /\ [Next]_vars /\ ServiceTypeOK /\ CallsDone /\ Restored /\ AttemptsDone
  BY StepsAreSteps DEF RInv, Reported
<1>1. call[c] # Idle => call[c] \in Request
  BY <1>0 DEF ServiceTypeOK
<1>2. ASSUME call'[c] = call[c], call[c].at # "executing" \/ op' = op
      PROVE  /\ call'[c].at = "executing" =>
                  op' # Idle /\ op'.kind = "rollback" /\ op'.n = n
             /\ call'[c].at = "restored" => Done(n)'
  BY <1>0, <1>2, DoneStays DEF CallsDone, At
<1>3. ASSUME op = Idle \/ op.kind = "commit", call[c] # Idle
      PROVE  call[c].at # "executing"
  BY <1>0, <1>3 DEF CallsDone, At
<1>4. CASE Commits \/ Others
  <2>1. call' = call
    BY <1>4 DEF Commits, Others, serviceVars
  <2>2. op = Idle \/ op.kind = "commit" \/ op' = op
    BY <1>0, <1>4, Gate DEF Commits, Others, CommitApplied, CommitFails, Register,
       RegisterFails, Track, TrackFails, Command, Inspect, Noticed
  <2> QED BY <1>2, <1>3, <2>1, <2>2
<1>5. CASE UNCHANGED rollbackVars
           \/ (\E m \in Commit : Committed(m))
           \/ (\E a \in Approval, m \in Commit : Approve(a, m))
  BY <1>2, <1>5 DEF rollbackVars, serviceVars, vars, Committed, Approve
<1>6. ASSUME NEW d \in Call, NEW a \in Approval, Ask(d, a)
      PROVE  call'[c].at = "sent" \/ (call'[c] = call[c] /\ op' = op)
  BY <1>0, <1>6 DEF Ask, vars, ServiceTypeOK
<1>7. ASSUME NEW d \in Call, GiveUp(d) \/ Finish(d) \/ ServiceDies
      PROVE  /\ op' = op /\ call[c] # Idle
             /\ \/ call'[c] = call[c]
                \/ call'[c] = Silent(call[c]) /\ call[c].at # "restored"
  BY <1>0, <1>7 DEF GiveUp, Finish, ServiceDies, vars, ServiceTypeOK
<1>8. ASSUME op' = op, call[c] # Idle, call'[c] = Silent(call[c]), call[c].at # "restored"
      PROVE  /\ call'[c].at = "executing" =>
                  op' # Idle /\ op'.kind = "rollback" /\ op'.n = n
             /\ call'[c].at = "restored" => Done(n)'
  <2>1. call'[c].at = call[c].at /\ call[c].n = n
    BY <1>1, <1>8 DEF Silent, Request
  <2> QED BY <1>0, <1>8, <2>1 DEF CallsDone, At
<1>9. ASSUME NEW d \in Call, Begins(d)
      PROVE  /\ call'[c].at = "executing" =>
                  op' # Idle /\ op'.kind = "rollback" /\ op'.n = n
             /\ call'[c].at = "restored" => Done(n)'
  <2>1. op = Idle /\ call[d] # Idle /\ call[d] \in Request
    BY <1>0, <1>9 DEF Begins, Begin, At, ServiceTypeOK
  <2>2. CASE c # d
    <3>1. call'[c] = call[c]
      BY <1>0, <1>9, <2>2 DEF Begins, Moved, ServiceTypeOK
    <3> QED BY <1>2, <1>3, <2>1, <3>1
  <2>3. CASE c = d
    <3>1. call'[c] = [call[c] EXCEPT !.at = "executing"]
      BY <1>0, <1>9, <2>3 DEF Begins, Moved, ServiceTypeOK
    <3>2. call'[c].at = "executing" /\ call[c].n = n
      BY <2>1, <2>3, <3>1 DEF Request
    <3>3. op'.kind = "rollback" /\ op'.n = n /\ op' \in Op
      BY <1>9, <2>1, <2>3, <3>2, RequestShape DEF Begins, Begin, Op
    <3> QED BY <3>2, <3>3, NoValuesDiffer
  <2> QED BY <2>2, <2>3
<1>10. ASSUME NEW d \in Call, Replay(d) \/ Refuse(d)
       PROVE  /\ call'[c].at = "executing" =>
                   op' # Idle /\ op'.kind = "rollback" /\ op'.n = n
              /\ call'[c].at = "restored" => Done(n)'
  <2>1. op' = op /\ call[d] # Idle /\ call[d] \in Request
    BY <1>0, <1>10 DEF Replay, Refuse, At, ServiceTypeOK, vars
  <2>2. CASE c # d
    <3>1. call'[c] = call[c]
      BY <1>0, <1>10, <2>2 DEF Replay, Refuse, ServiceTypeOK
    <3> QED BY <1>2, <2>1, <3>1
  <2>3. CASE c = d
    <3>1. Replay(c) /\ call'[c] = [call[c] EXCEPT !.at = "restored"]
      BY <1>0, <1>10, <2>3 DEF Replay, Refuse, Answered, ServiceTypeOK
    <3>2. call'[c].at = "restored" /\ call[c].n = n /\ call[c].approval \in Approval
      BY <2>1, <2>3, <3>1 DEF Request
    <3>3. Done(n)
      BY <1>0, <3>1, <3>2 DEF Replay, Replayable, AttemptsDone
    <3> QED BY <1>0, <3>2, <3>3, DoneStays
  <2> QED BY <2>2, <2>3
<1>11. CASE Executes
  <2>1. op # Idle /\ op \in Op /\ op.kind = "rollback" /\ op.n \in Commit
    BY <1>0, <1>11, Gate, OpShape DEF Executes, Undo, Quarantine, CompleteSuccess
  <2>2. CASE Undo /\ op' # Idle /\ UNCHANGED call
    <3>1. op' = [op EXCEPT !.at = "restored"] /\ op' # Idle
      BY <2>2 DEF Undo
    <3>2. op'.kind = "rollback" /\ op'.n = op.n
      BY <2>1, <3>1 DEF Op
    <3> QED BY <1>0, <2>2, <3>1, <3>2, DoneStays DEF CallsDone, At
  <2>3. CASE Ends("failed")
    <3>1. call'[c] = call[c] /\ call[c].at # "executing"
      BY <2>3 DEF Ends, Answered, At
    <3> QED BY <1>2, <3>1
  <2>4. CASE CompleteSuccess /\ Ends("restored")
    <3>1. CASE At(c, "executing")
      <4>1. call'[c] = [call[c] EXCEPT !.at = "restored"] /\ call[c] \in Request
        BY <1>1, <2>4, <3>1 DEF Ends, Answered, At
      <4>2. call'[c].at = "restored" /\ call[c].n = n
        BY <4>1 DEF Request
      <4>3. n = op.n
        BY <1>0, <3>1, <4>2 DEF CallsDone
      <4> QED BY <1>0, <2>4, <4>2, <4>3, SuccessIsDone
    <3>2. CASE ~At(c, "executing")
      <4>1. call'[c] = call[c]
        BY <2>4, <3>2 DEF Ends
      <4> QED BY <1>2, <3>2, <4>1 DEF At
    <3> QED BY <3>1, <3>2
  <2> QED BY <1>11, <2>2, <2>3, <2>4 DEF Executes
<1>12. CASE RestartsAutoCad
  <2>1. call'[c] = call[c] /\ call[c].at = "restored"
    BY <1>12 DEF RestartsAutoCad, At
  <2> QED BY <1>2, <2>1
<1> QED BY <1>2, <1>4, <1>5, <1>6, <1>7, <1>8, <1>9, <1>10, <1>11, <1>12 DEF RollbackNext

-----------------------------------------------------------------------------
(* The theorems.                                                           *)

LEMMA RollbackInvariance == RollbackSpec => []RInv
<1>1. RollbackInit => RInv
  <2> SUFFICES ASSUME RollbackInit PROVE RInv
    OBVIOUS
  <2>1. IInv /\ Clean
    BY InitIInv, InitClean DEF RollbackInit
  <2>2. ServiceTypeOK
    BY DEF RollbackInit, ServiceTypeOK
  <2>3. Reported
    BY DEF RollbackInit, Init, Reported, Restored, AttemptsDone, CallsDone, JobsDone, At
  <2> QED BY <2>1, <2>2, <2>3 DEF RInv
<1>2. RInv /\ [RollbackNext]_rollbackVars => RInv'
  <2> SUFFICES ASSUME RInv, [RollbackNext]_rollbackVars PROVE RInv'
    OBVIOUS
  <2>1. IInv /\ Clean /\ ServiceTypeOK /\ [Next]_vars /\ Restored /\ AttemptsDone /\ TypeOK
    BY StepsAreSteps DEF RInv, Reported, IInv
  <2>2. IInv' /\ ServiceTypeOK'
    BY <2>1, Inductive, ServiceTypeIsKept
  <2>3. Clean'
    BY <2>1, CommitClean, RegisterClean, BeginClean, OthersClean DEF Next
  <2>4. Restored'
    BY <2>1, RestoredIsUndone
  <2>5. AttemptsDone' /\ CallsDone' /\ JobsDone'
    BY <2>1, AttemptsStayDone, CallsStayDone, JobsStayDone
  <2> QED BY <2>2, <2>3, <2>4, <2>5 DEF RInv, Reported
<1> QED BY <1>1, <1>2, PTL DEF RollbackSpec

(***************************************************************************)
(* The types of the service's rows, receipts, approvals and calls.         *)
(***************************************************************************)
THEOREM RollbackTypeCorrect == RollbackSpec => []RollbackTypeOK
<1>1. RInv => RollbackTypeOK
  BY DEF RInv, IInv, ServiceTypeOK, RollbackTypeOK
<1> QED BY <1>1, RollbackInvariance, PTL

(***************************************************************************)
(* rollback saves ROLLED_BACK only for a commit that has been undone: an   *)
(* answer of success comes from the restored revision, or repeats the one  *)
(* an attempt was completed with.                                          *)
(***************************************************************************)
THEOREM RolledBackJobsAreUndone == RollbackSpec => []RolledBackIsTrue
<1>1. RInv => RolledBackIsTrue
  BY DEF RInv, Reported, JobsDone, Done, Undone, RolledBackIsTrue
<1> QED BY <1>1, RollbackInvariance, PTL

(***************************************************************************)
(* No request, retry or other approval undoes anything more for a job that *)
(* is ROLLED_BACK: its receipt can neither be executed nor come back.      *)
(***************************************************************************)
THEOREM NothingMoreIsUndone == RollbackSpec => RolledBackOnce
<1>1. RInv /\ [RollbackNext]_rollbackVars =>
        [\A n \in Commit : job[n] = "ROLLED_BACK" => undone'[n] = undone[n]]_rollbackVars
  <2> SUFFICES ASSUME RInv, [RollbackNext]_rollbackVars,
                      NEW n \in Commit, job[n] = "ROLLED_BACK"
               PROVE  undone'[n] = undone[n]
    OBVIOUS
  <2>1. IInv /\ [Next]_vars
    BY StepsAreSteps DEF RInv
  <2>2. ~InState(n, "executing")
    BY DEF RInv, Reported, JobsDone, Done, Spent
  <2> QED BY <2>1, <2>2, UndoneGrows
<1> QED BY <1>1, RollbackInvariance, PTL DEF RollbackSpec, RolledBackOnce
==============================================================================
