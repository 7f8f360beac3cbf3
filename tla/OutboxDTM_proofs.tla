-------------------------- MODULE OutboxDTM_proofs ---------------------------
(***************************************************************************)
(* Proofs about the projection manager with DTM enabled: the branch        *)
(* endpoints, the DTM server and the manager's own steps together.  What a *)
(* step of the manager may strand is a lemma of Outbox_proofs.             *)
(***************************************************************************)
EXTENDS OutboxDTM, Outbox_proofs

SagaOK == saga \in [Branches -> [ev : Events \cup {0},
                                 state : {"free", "submitted", "called", "aborting"}]]

\* A saga that was opened is about a row that exists.
SagaRef == \A b \in Branches : saga[b] # NoSaga => /\ saga[b].ev \in Events
                                                   /\ outbox[saga[b].ev].status # "none"

DInv == SInv /\ SagaOK /\ SagaRef

\* Sagas stay, are opened for existing rows, move on, or end.
SagaStep ==
  \/ saga' = saga
  \/ \E b \in Branches, e \in Events :
       /\ outbox[e].status # "none"
       /\ saga' = [saga EXCEPT ![b] = [ev |-> e, state |-> "submitted"]]
  \/ \E b \in Branches, s \in {"called", "aborting"} :
       /\ saga[b].state # "free"
       /\ saga' = [saga EXCEPT ![b].state = s]
  \/ \E b \in Branches : saga' = [saga EXCEPT ![b] = NoSaga]

LEMMA SagaStays ==
  ASSUME DInv, SagaStep, RowsStay
  PROVE  SagaOK' /\ SagaRef'
<1>1. \A b \in Branches : saga[b].state # "free" => saga[b] # NoSaga
  BY DEF NoSaga
<1>2. CASE saga' = saga
  BY <1>2 DEF DInv, SagaOK, SagaRef, RowsStay
<1>3. ASSUME NEW b \in Branches, NEW e \in Events, outbox[e].status # "none",
             saga' = [saga EXCEPT ![b] = [ev |-> e, state |-> "submitted"]]
      PROVE  SagaOK' /\ SagaRef'
  BY <1>3 DEF DInv, SagaOK, SagaRef, RowsStay
<1>4. ASSUME NEW b \in Branches, NEW s \in {"called", "aborting"},
             saga[b].state # "free", saga' = [saga EXCEPT ![b].state = s]
      PROVE  SagaOK' /\ SagaRef'
  <2>1. SagaOK' /\ saga'[b].ev = saga[b].ev
        /\ \A c \in Branches \ {b} : saga'[c] = saga[c]
    BY <1>4 DEF DInv, SagaOK
  <2>2. SagaRef'
    BY <1>1, <1>4, <2>1 DEF DInv, SagaRef, RowsStay
  <2> QED
    BY <2>1, <2>2
<1>5. ASSUME NEW b \in Branches, saga' = [saga EXCEPT ![b] = NoSaga]
      PROVE  SagaOK' /\ SagaRef'
  <2>1. NoSaga \in [ev : Events \cup {0},
                    state : {"free", "submitted", "called", "aborting"}]
    BY DEF NoSaga
  <2> QED
    BY <1>5, <2>1 DEF DInv, SagaOK, SagaRef, RowsStay
<1> QED
  BY <1>2, <1>3, <1>4, <1>5 DEF SagaStep


LEMMA DInvKept ==
  ASSUME DInv, StrandsNone \/ StrandsOne, SagaStep
  PROVE  DInv'
<1>1. RowsStay
  BY DEF StrandsNone, StrandsOne
<1> QED
  BY <1>1, SagaStays, NoneStays, OneStays DEF DInv

-----------------------------------------------------------------------------
(* The manager's steps.                                                     *)

LEMMA ManagerStrandsOne ==
  ASSUME DInv,
         \/ \E h \in Handlers, pl \in Payloads : CreateAndDispatch(h, pl)
         \/ \E w \in Workers : RetryOnce(w)
         \/ \E p \in Procs : Step(p) \/ DBError(p) \/ Abandon(p)
         \/ \E e \in Events : RetryTimeElapses(e)
  PROVE  StrandsNone \/ StrandsOne
<1>1. HInv
  BY DEF DInv, SInv
<1> QED
  BY <1>1, CreateStrandsNone, RetryOnceStrandsNone, StepStrandsNone, DBErrorStrandsOne,
     AbandonStrandsOne, RetryTimeStrandsNone

LEMMA StartIsSagaStep ==
  ASSUME DInv, NEW b \in Branches, NEW e \in Events, outbox[e].status # "none",
         StartSaga(b, e)
  PROVE  SagaStep
  BY DEF StartSaga, SagaStep

\* Submitting a saga, and failing to.
LEMMA SubmitKept ==
  ASSUME DInv, NEW p \in Procs, SubmitSaga(p) \/ SubmitError(p)
  PROVE  DInv'
<1>1. HInv /\ proc[p].pc = "submit" /\ ~Holds(proc[p])
      /\ outbox' = outbox /\ graph' = graph /\ faults' = faults
  BY DEF DInv, SInv, SubmitSaga, SubmitError, Holds
<1>2. graph' \in SUBSET Tuples
  BY <1>1 DEF HInv, TypeOK
<1>3. \E q : GoesOn(p, q)
  <2>1. CASE SubmitSaga(p)
    BY <1>1, <2>1, ReturnGoesOn DEF SubmitSaga
  <2>2. CASE SubmitError(p)
    <3>1. 1 + WorkerMarks(p) \in Int
      BY DEF WorkerMarks
    <3> QED
      BY <1>1, <2>2, <3>1, FailWithGoesOn DEF SubmitError
  <2> QED
    BY <2>1, <2>2
<1>4. StrandsNone
  BY <1>1, <1>2, <1>3, StillStrandsNone
<1>5. proc[p].ev \in Events /\ outbox[proc[p].ev].status # "none"
  BY <1>1, HandHeld
<1>6. SagaStep
  BY <1>5, StartIsSagaStep DEF SubmitSaga, SubmitError, SagaStep
<1> QED
  BY <1>4, <1>6, DInvKept

-----------------------------------------------------------------------------
(* The DTM server's steps and the branches'.                                *)

LEMMA CallKept ==
  ASSUME DInv, NEW b \in Branches, CallApply(b) \/ CallCompensate(b)
  PROVE  DInv'
<1>1. b \in Procs /\ HInv
  BY BranchesOK DEF DInv, SInv
<1>2. saga[b] # NoSaga /\ saga[b].state # "free"
  BY DEF CallApply, CallCompensate, NoSaga
<1>3. saga[b].ev \in Events /\ outbox[saga[b].ev].status # "none"
  BY <1>2 DEF DInv, SagaRef
<1>4. PICK pc \in {"load", "undo"} : Call(b, pc)
  BY DEF CallApply, CallCompensate
<1> DEFINE q == [IdleProc EXCEPT !.pc = pc, !.ev = saga[b].ev, !.batch = {saga[b].ev}]
<1>5. q \in ProcState /\ q.pc \in {"load", "undo"} /\ q.goal = "synced"
      /\ q.ev = saga[b].ev /\ q.batch = {saga[b].ev}
  BY <1>3, <1>4 DEF IdleProc, ProcState, PCs
<1>6. proc' = [proc EXCEPT ![b] = q] /\ proc[b].pc = "idle"
  BY <1>4 DEF Call
<1> HIDE DEF q
<1>7. GoesOn(b, q) /\ ~Holds(proc[b])
  BY <1>3, <1>5, <1>6 DEF GoesOn, Holds
<1>8. outbox' = outbox /\ graph' \in SUBSET Tuples /\ faults' = faults
  BY <1>1 DEF CallApply, CallCompensate, HInv, TypeOK
<1>9. StrandsNone
  BY <1>1, <1>7, <1>8, StillStrandsNone
<1>10. SagaStep
  BY <1>2 DEF CallApply, CallCompensate, SagaStep
<1> QED
  BY <1>9, <1>10, DInvKept

LEMMA GiveUpKept ==
  ASSUME DInv, NEW b \in Branches, GiveUp(b)
  PROVE  DInv'
<1>1. SagaStep
  BY DEF GiveUp, SagaStep
<1>2. SInv'
  BY StutterStrands DEF GiveUp, DInv
<1>3. RowsStay
  BY DEF GiveUp, vars, RowsStay
<1> QED
  BY <1>1, <1>2, <1>3, SagaStays DEF DInv

\* CompensateEvent reads the payload and starts on the inverse calls.
LEMMA LoadUndoKept ==
  ASSUME DInv, NEW b \in Branches, LoadUndo(b)
  PROVE  DInv'
<1>1. b \in Procs /\ HInv /\ proc[b].pc = "undo"
      /\ outbox' = outbox /\ graph' = graph /\ faults' = faults /\ saga' = saga
  BY BranchesOK DEF DInv, SInv, LoadUndo
<1>2. /\ proc[b] \in ProcState /\ proc[b].ev \in proc[b].batch
      /\ \A e \in proc[b].batch : outbox[e].status # "none"
      /\ outbox[proc[b].ev] \in Row
  BY <1>1, HandHeld
<1> DEFINE pl   == outbox[proc[b].ev].pl
           todo == IF pl.op = "delete" THEN {} ELSE relationshipFilters(pl.rels)
           puts == CASE pl.op = "write"   -> {}
                     [] pl.op = "delete"  -> pl.rels
                     [] pl.op = "replace" -> pl.prev
           goal == IF pl.op = "delete" THEN "keep" ELSE "archived"
           q    == [proc[b] EXCEPT !.pc = "work", !.todo = todo, !.puts = puts,
                                   !.goal = goal]
<1>3. pl.rels \in SUBSET Tuples /\ pl.prev \in SUBSET Tuples
      /\ pl.op \in {"write", "delete", "replace"}
  BY <1>2 DEF Row, Payload
<1>4. todo \in SUBSET (SUBSET Tuples) /\ puts \in SUBSET Tuples
      /\ goal \in {"synced", "archived", "keep"}
  <2> HIDE DEF pl
  <2> QED
    BY <1>3 DEF relationshipFilters
<1>5. proc' = [proc EXCEPT ![b] = q]
  <2>1. proc' = [proc EXCEPT ![b].pc = "work", ![b].todo = todo, ![b].puts = puts,
                             ![b].goal = goal]
    BY Zenon DEF LoadUndo
  <2> HIDE DEF todo, puts, goal
  <2> QED
    BY <2>1
<1>6. q \in ProcState /\ q.pc = "work" /\ q.ev = proc[b].ev /\ q.batch = proc[b].batch
  <2> HIDE DEF todo, puts, goal
  <2> QED
    BY <1>2, <1>4 DEF ProcState, PCs
<1> HIDE DEF q
<1>7. GoesOn(b, q) /\ ~Holds(proc[b])
  BY <1>1, <1>2, <1>5, <1>6 DEF GoesOn, Holds
<1>8. graph' \in SUBSET Tuples
  BY <1>1 DEF HInv, TypeOK
<1>9. StrandsNone
  BY <1>1, <1>7, <1>8, StillStrandsNone
<1> QED
  BY <1>1, <1>9, DInvKept DEF SagaStep

LEMMA MarkArchivedKept ==
  ASSUME DInv, NEW b \in Branches, MarkArchived(b)
  PROVE  DInv'
<1> DEFINE row == [outbox[proc[b].ev] EXCEPT !.status = "archived"]
<1>1. /\ b \in Procs /\ HInv /\ proc[b].pc = "work"
      /\ graph' = graph /\ faults' = faults
      /\ outbox' = [outbox EXCEPT ![proc[b].ev] = row] /\ Return(b)
  BY BranchesOK DEF DInv, SInv, MarkArchived, CallsDone
<1>2. proc[b].ev \in Events /\ outbox[proc[b].ev] \in Row
  BY <1>1, HandHeld
<1>3. row \in Row /\ row.status = "archived"
  BY <1>2 DEF Row, Statuses
<1>4. graph' \in SUBSET Tuples
  BY <1>1 DEF HInv, TypeOK
<1>5. PICK q : GoesOn(b, q)
  BY <1>1, ReturnGoesOn
<1> HIDE DEF row
<1>6. StrandsNone
  BY <1>1, <1>2, <1>3, <1>4, <1>5, MarkStrandsNone
<1>7. SagaStep
  BY DEF MarkArchived, AnswerOK, SagaStep
<1> QED
  BY <1>6, <1>7, DInvKept

\* A delete that was undone held no row; an archiving update that is lost is
\* a fault.
LEMMA EndUndoKept ==
  ASSUME DInv, NEW b \in Branches, EndUndo(b)
  PROVE  DInv'
<1>1. /\ b \in Procs /\ HInv /\ proc[b].pc = "work"
      /\ graph' = graph /\ outbox' = outbox /\ Return(b)
  BY BranchesOK DEF DInv, SInv, EndUndo, CallsDone
<1>2. graph' \in SUBSET Tuples
  BY <1>1 DEF HInv, TypeOK
<1>3. PICK q : GoesOn(b, q)
  BY <1>1, ReturnGoesOn
<1>4. ASSUME proc[b].goal = "keep", UNCHANGED faults
      PROVE  StrandsNone
  <2>1. ~Holds(proc[b])
    BY <1>1, <1>4 DEF Holds
  <2> QED
    BY <1>1, <1>2, <1>3, <1>4, <2>1, StillStrandsNone
<1>5. ASSUME faults > 0, faults' = faults - 1
      PROVE  StrandsOne
  BY <1>1, <1>3, <1>5, FaultGoesOn
<1>6. StrandsNone \/ StrandsOne
  BY <1>4, <1>5 DEF EndUndo
<1>7. SagaStep
  BY DEF EndUndo, AnswerOK, SagaStep
<1> QED
  BY <1>6, <1>7, DInvKept

LEMMA BranchStepKept ==
  ASSUME DInv, NEW b \in Branches, BranchStep(b)
  PROVE  DInv'
<1>1. b \in Procs
  BY BranchesOK
<1>2. CASE Step(b) /\ (UNCHANGED saga \/ AnswerOK(b))
  <2>1. SagaStep
    BY <1>2 DEF AnswerOK, SagaStep
  <2> QED
    BY <1>1, <1>2, <2>1, ManagerStrandsOne, DInvKept
<1>3. ApplyAnswersOK(b) => Step(b)
  BY DEF ApplyAnswersOK, Step
<1> QED
  BY <1>2, <1>3, LoadUndoKept, MarkArchivedKept, EndUndoKept DEF BranchStep

LEMMA BranchFaultKept ==
  ASSUME DInv, NEW b \in Branches, BranchFault(b)
  PROVE  DInv'
<1>1. b \in Procs /\ saga' = saga /\ HInv
  BY BranchesOK DEF BranchFault, DInv, SInv
<1>2. CASE DBError(b) \/ Abandon(b)
  BY <1>1, <1>2, ManagerStrandsOne, DInvKept DEF SagaStep
<1>3. CASE /\ proc[b].pc = "undo" /\ faults > 0 /\ faults' = faults - 1
           /\ Return(b) /\ UNCHANGED <<outbox, graph, saga>>
  <2>1. PICK q : GoesOn(b, q)
    BY <1>1, <1>3, ReturnGoesOn
  <2>2. StrandsOne
    BY <1>1, <1>3, <2>1, FaultGoesOn
  <2> QED
    BY <1>1, <2>2, DInvKept DEF SagaStep
<1> QED
  BY <1>2, <1>3 DEF BranchFault

LEMMA DTMNextKept ==
  ASSUME DInv, [DTMNext]_dtmVars
  PROVE  DInv'
<1>1. CASE UNCHANGED dtmVars
  <2>1. SInv'
    BY <1>1, StutterStrands DEF dtmVars, vars, DInv
  <2>2. RowsStay /\ SagaStep
    BY <1>1 DEF dtmVars, RowsStay, SagaStep
  <2> QED
    BY <2>1, <2>2, SagaStays DEF DInv
<1>2. CASE \/ \E h \in Handlers, pl \in Payloads : CreateAndDispatch(h, pl) /\ UNCHANGED saga
           \/ \E w \in Workers : RetryOnce(w) /\ UNCHANGED saga
           \/ \E p \in Handlers \cup Workers :
                (Step(p) \/ DBError(p) \/ Abandon(p)) /\ UNCHANGED saga
           \/ \E e \in Events : RetryTimeElapses(e) /\ UNCHANGED saga
  <2>1. SagaStep
    BY <1>2 DEF SagaStep
  <2> QED
    BY <1>2, <2>1, ManagerStrandsOne, DInvKept, ConstantsOK
<1>3. CASE \E p \in Handlers \cup Workers : SubmitSaga(p) \/ SubmitError(p)
  BY <1>3, SubmitKept, ConstantsOK
<1>4. CASE \E b \in Branches : BranchStep(b) \/ BranchFault(b) \/ DTMServer(b)
  BY <1>4, BranchStepKept, BranchFaultKept, CallKept, GiveUpKept DEF DTMServer
<1> QED
  BY <1>1, <1>2, <1>3, <1>4 DEF DTMNext

LEMMA DTMInitOK == DTMInit => DInv
<1> SUFFICES ASSUME DTMInit
             PROVE  DInv
  OBVIOUS
<1>1. SInv
  BY SInvInit DEF DTMInit
<1>2. SagaOK /\ SagaRef
  BY DEF DTMInit, SagaOK, SagaRef, NoSaga
<1> QED
  BY <1>1, <1>2 DEF DInv

-----------------------------------------------------------------------------
(* The theorems.                                                            *)

LEMMA DTMInductive == DTMSpec => []DInv
  BY DTMInitOK, DTMNextKept, PTL DEF DTMSpec

\* With DTM enabled too, rows, goroutines and sagas stay in the states the
\* code knows, whenever the server calls a branch, gives up on it, or repeats
\* a call it has already made (Dispatch, ApplyEvent, CompensateEvent).
THEOREM DTMTypeCorrect == DTMSpec => []DTMTypeOK
<1>1. DInv => DTMTypeOK
  BY DEF DInv, SInv, HInv, SagaOK, DTMTypeOK
<1> QED
  BY <1>1, DTMInductive, PTL

\* A fault strands one row at most with DTM enabled too: neither a compensation
\* racing a late apply nor a worker submitting a second saga for the same
\* event strands another (ApplyEvent, CompensateEvent, markFailed).
THEOREM DTMOneRowPerFault == DTMSpec => []StrandedPerFault
<1>1. DInv => StrandedPerFault
  BY SpentMeans DEF DInv
<1> QED
  BY <1>1, DTMInductive, PTL
=============================================================================
