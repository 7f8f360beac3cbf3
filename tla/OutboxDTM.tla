----------------------------- MODULE OutboxDTM ------------------------------
(***************************************************************************)
(* The projection manager with DTM enabled: Dispatch submits a saga of one *)
(* branch, and the DTM server (external) calls the apply branch and, when  *)
(* it gives up on it, the compensate branch, over HTTP                     *)
(* (internal/server/http.go).  DTM is modelled by what these handlers have *)
(* to expect of it: a branch is called again when the answer was not a     *)
(* success or was lost, and a saga that has not been answered with success *)
(* may be compensated.                                                     *)
(***************************************************************************)
EXTENDS Outbox

CONSTANTS
  Branches,   \* bound: sagas open at one time; one goroutine serves each
  CallCap     \* bound: no branch is called once retry_count has come this far

ASSUME BranchesOK ==
  /\ CallCap \in Nat
  /\ Branches \subseteq Procs
  /\ Branches \cap (Handlers \cup Workers) = {}

VARIABLE saga   \* the DTM server's record of each saga

dtmVars == <<outbox, graph, proc, faults, saga>>

NoSaga == [ev |-> 0, state |-> "free"]

DTMTypeOK ==
  /\ TypeOK
  /\ saga \in [Branches ->
       [ev : Events \cup {0}, state : {"free", "submitted", "called", "aborting"}]]

DTMInit == Init /\ saga = [b \in Branches |-> NoSaga]

StartSaga(b, e) ==
  /\ saga[b] = NoSaga
  /\ saga' = [saga EXCEPT ![b] = [ev |-> e, state |-> "submitted"]]

-----------------------------------------------------------------------------
(* Dispatch.                                                                *)

\* The row stays "pending" until the apply branch is called.
SubmitSaga(p) ==
  /\ proc[p].pc = "submit"
  /\ \E b \in Branches : StartSaga(b, proc[p].ev)
  /\ Return(p)
  /\ UNCHANGED <<outbox, graph, faults>>

\* NewGID or SubmitSaga fails: the latter also when the saga was accepted and
\* the answer was lost or, with wait_result set, the saga was rolled back.
SubmitError(p) ==
  /\ proc[p].pc = "submit"
  /\ FailWith(p, 1 + WorkerMarks(p))
  /\ \/ UNCHANGED saga
     \/ \E b \in Branches : StartSaga(b, proc[p].ev)
  /\ UNCHANGED <<outbox, graph, faults>>

-----------------------------------------------------------------------------
(* The DTM server, external.                                                *)

Call(b, pc) ==
  /\ proc[b].pc = "idle" /\ outbox[saga[b].ev].retries < CallCap
  /\ proc' = [proc EXCEPT ![b] = [IdleProc EXCEPT !.pc = pc, !.ev = saga[b].ev,
                                                  !.batch = {saga[b].ev}]]

CallApply(b) ==
  /\ saga[b].state \in {"submitted", "called"}
  /\ Call(b, "load")
  /\ saga' = [saga EXCEPT ![b].state = "called"]
  /\ UNCHANGED <<outbox, graph, faults>>

\* The apply branch has not answered with success: roll back.
GiveUp(b) ==
  /\ saga[b].state = "called" /\ proc[b].pc = "idle"
  /\ saga' = [saga EXCEPT ![b].state = "aborting"]
  /\ UNCHANGED vars

CallCompensate(b) ==
  /\ saga[b].state = "aborting"
  /\ Call(b, "undo")
  /\ UNCHANGED <<outbox, graph, faults, saga>>

\* A branch answers with success and the saga is over.
AnswerOK(b) == saga' = [saga EXCEPT ![b] = NoSaga]

-----------------------------------------------------------------------------
(* CompensateEvent.  It reads the payload and not the status.               *)

\* Mutant of LoadUndo: it marks the row as ApplyEvent does.
LoadUndoProjecting(b) ==
  LET pl == outbox[proc[b].ev].pl IN
  /\ proc[b].pc = "undo"
  /\ outbox' = [outbox EXCEPT ![proc[b].ev].status = "projecting"]
  /\ proc' = [proc EXCEPT ![b].pc = "work",
       ![b].puts = IF pl.op = "delete" THEN pl.rels ELSE {},
       ![b].goal = IF pl.op = "delete" THEN "keep" ELSE "archived"]
  /\ UNCHANGED <<graph, faults, saga>>

LoadUndo(b) ==
  LET pl == outbox[proc[b].ev].pl IN
  /\ proc[b].pc = "undo"
  /\ proc' = [proc EXCEPT
       ![b].pc   = "work",
       ![b].todo = IF pl.op = "delete" THEN {} ELSE relationshipFilters(pl.rels),
       ![b].puts = CASE pl.op = "write"   -> {}
                     [] pl.op = "delete"  -> pl.rels
                     [] pl.op = "replace" -> pl.prev,
       ![b].goal = IF pl.op = "delete" THEN "keep" ELSE "archived"]
  /\ UNCHANGED <<outbox, graph, faults, saga>>

\* Mutant of MarkArchived: a status nobody handles.
MarkCompensated(b) ==
  /\ CallsDone(b) /\ proc[b].goal = "archived"
  /\ outbox' = [outbox EXCEPT ![proc[b].ev].status = "compensated"]
  /\ Return(b) /\ AnswerOK(b)
  /\ UNCHANGED <<graph, faults>>

MarkArchived(b) ==
  /\ CallsDone(b) /\ proc[b].goal = "archived"
  /\ outbox' = [outbox EXCEPT ![proc[b].ev].status = "archived"]
  /\ Return(b) /\ AnswerOK(b)
  /\ UNCHANGED <<graph, faults>>

\* Compensating a delete leaves the row as it is; so does an archiving update
\* that fails, whose error is dropped.
EndUndo(b) ==
  /\ CallsDone(b)
  /\ \/ proc[b].goal = "keep" /\ UNCHANGED faults
     \/ proc[b].goal = "archived" /\ faults > 0 /\ faults' = faults - 1
  /\ Return(b) /\ AnswerOK(b)
  /\ UNCHANGED <<outbox, graph>>

-----------------------------------------------------------------------------
\* The steps of ApplyEvent that answer the DTM server with success.
ApplyAnswersOK(b) ==
  \/ MarkSynced(b)
  \/ Load(b) /\ outbox[proc[b].ev].status = "synced"

BranchStep(b) ==
  \/ ApplyAnswersOK(b) /\ AnswerOK(b)
  \/ Step(b) /\ ~ApplyAnswersOK(b) /\ UNCHANGED saga
  \/ LoadUndo(b) \/ MarkArchived(b) \/ EndUndo(b)

\* The undo read fails like any other database statement.
BranchFault(b) ==
  \/ DBError(b) /\ ~(CallsDone(b) /\ proc[b].goal # "synced") /\ UNCHANGED saga
  \/ Abandon(b) /\ UNCHANGED saga
  \/ /\ proc[b].pc = "undo" /\ faults > 0 /\ faults' = faults - 1
     /\ Return(b) /\ UNCHANGED <<outbox, graph, saga>>

DTMServer(b) == CallApply(b) \/ GiveUp(b) \/ CallCompensate(b)

DTMNext ==
  \/ \E h \in Handlers, pl \in Payloads : CreateAndDispatch(h, pl) /\ UNCHANGED saga
  \/ \E w \in Workers : RetryOnce(w) /\ UNCHANGED saga
  \/ \E p \in Handlers \cup Workers :
       \/ SubmitSaga(p) \/ SubmitError(p)
       \/ (Step(p) \/ DBError(p) \/ Abandon(p)) /\ UNCHANGED saga
  \/ \E b \in Branches : BranchStep(b) \/ BranchFault(b) \/ DTMServer(b)
  \/ \E e \in Events : RetryTimeElapses(e) /\ UNCHANGED saga

DTMSpec == DTMInit /\ [][DTMNext]_dtmVars
=============================================================================
