------------------------------- MODULE Outbox -------------------------------
(***************************************************************************)
(* The authorization projection manager, internal/biz/projection/manager.go,*)
(* over the iam_outbox_events table (internal/data/resource_repository.go), *)
(* in its direct mode: DTM disabled, Dispatch calls ApplyEvent.             *)
(*                                                                          *)
(* A control-plane request handler commits a fact and an outbox event in    *)
(* one transaction and then applies the event to SpiceDB itself; a retry    *)
(* worker lists the events that are due and applies them again.  Every      *)
(* database statement and every SpiceDB call is one step, so that handlers  *)
(* and workers interleave between any two of them, and may stop between     *)
(* any two of them.                                                         *)
(***************************************************************************)
EXTENDS Integers, FiniteSets

CONSTANTS
  Tuples,       \* the relationships SpiceDB may hold
  Payloads,     \* the payloads a request may record
  Procs,        \* the goroutines that run the manager's code, among them:
  Handlers,     \* the ones serving control-plane requests
  Workers,      \* the retry workers, one per running IAM process
  DTMEnabled,   \* Dispatch submits a saga instead of applying the event
  MaxEvents,    \* bound: number of outbox rows ever created
  MaxRetries,   \* MaxOutboxRetries (10 in the code)
  BatchLimit,   \* rows one RetryOnce lists (100 in the code)
  MaxFaults     \* bound: database errors and abandoned goroutines

Events == 1 .. MaxEvents

\* A filter is represented by the set of relationships it matches.  A list of
\* filters or of relationships is the set of its members: which one comes
\* first in the stored list is left open.
Payload == [op      : {"write", "delete", "replace"},
            filters : SUBSET (SUBSET Tuples),
            rels    : SUBSET Tuples,
            prev    : SUBSET Tuples]

ASSUME ConstantsOK ==
  /\ MaxEvents \in Nat /\ MaxRetries \in Nat /\ BatchLimit \in Nat
  /\ MaxFaults \in Nat
  /\ Payloads \subseteq Payload
  /\ Handlers \cup Workers \subseteq Procs /\ Handlers \cap Workers = {}
  /\ DTMEnabled \in BOOLEAN

VARIABLES
  outbox,   \* iam_outbox_events: one row per event id, ids in created_at order
  graph,    \* the relationships SpiceDB holds
  proc,     \* what each goroutine is doing
  faults    \* faults that may still happen

vars == <<outbox, graph, proc, faults>>

Statuses == {"none", "pending", "submitted", "projecting", "synced",
             "failed", "dead", "archived"}

\* "work": in the SpiceDB calls of ApplyEvent or CompensateEvent;
\* "inc" to "fallback": in markFailed; "submit", "undo": DTM mode only.
PCs == {"idle", "submit", "load", "undo", "project", "work",
        "inc", "read", "mark", "fallback"}

\* batch: the listed events not finished yet; ev: the one in hand;
\* count: the retry_count last read; todo, puts: SpiceDB calls still to make;
\* goal: what is written to the row after them; marks: markFailed calls owed.
ProcState == [pc : PCs, ev : Events \cup {0}, batch : SUBSET Events,
              count : Nat, todo : SUBSET (SUBSET Tuples),
              puts : SUBSET Tuples, goal : {"synced", "archived", "keep"},
              marks : Nat]

TypeOK ==
  /\ outbox \in [Events -> [pl : Payload, status : Statuses,
                            retries : Nat, due : BOOLEAN]]
  /\ graph \in SUBSET Tuples
  /\ proc \in [Procs -> ProcState]
  /\ faults \in Nat

IdleProc == [pc |-> "idle", ev |-> 0, batch |-> {}, count |-> 0,
             todo |-> {}, puts |-> {}, goal |-> "synced", marks |-> 0]

NoRow == [pl |-> [op |-> "write", filters |-> {}, rels |-> {}, prev |-> {}],
          status |-> "none", retries |-> 0, due |-> FALSE]

Init ==
  /\ outbox = [e \in Events |-> NoRow]
  /\ graph \in SUBSET Tuples
  /\ proc = [p \in Procs |-> IdleProc]
  /\ faults = MaxFaults

-----------------------------------------------------------------------------
(* What a payload asks of SpiceDB.                                          *)

\* One filter per relationship, matching exactly that relationship.
relationshipFilters(rels) == {{r} : r \in rels}

FiltersOf(pl) ==
  CASE pl.op = "write"   -> {}
    [] pl.op = "delete"  -> pl.filters
    [] pl.op = "replace" -> relationshipFilters(pl.prev)

WritesOf(pl) == IF pl.op = "delete" THEN {} ELSE pl.rels

-----------------------------------------------------------------------------
(* Taking events in hand.                                                   *)

\* Dispatch of the oldest event of a list, or nothing left to do.
Begin(p, batch) ==
  \/ batch = {} /\ proc' = [proc EXCEPT ![p] = IdleProc]
  \/ \E e \in batch :
       /\ \A f \in batch : e <= f
       /\ proc' = [proc EXCEPT ![p] = [IdleProc EXCEPT
                      !.pc = IF DTMEnabled THEN "submit" ELSE "load",
                      !.ev = e, !.batch = batch]]

\* Dispatch has returned: a handler replies, a worker takes its next event.
Return(p) == Begin(p, proc[p].batch \ {proc[p].ev})

\* Mutant of newEvent: a status nobody handles.
newEventUnknown(pl) == [pl |-> pl, status |-> "created", retries |-> 0, due |-> TRUE]

\* newEvent: the row a new event starts as.  next_run_at is NULL, so it is due.
newEvent(pl) == [pl |-> pl, status |-> "pending", retries |-> 0, due |-> TRUE]

\* The next id: rows are numbered in created_at order.
IsNext(e) == /\ outbox[e].status = "none"
             /\ \A f \in Events : f < e => outbox[f].status # "none"

\* A request commits its fact with the event, then dispatches the event.
CreateAndDispatch(h, pl) ==
  /\ proc[h].pc = "idle"
  /\ \E e \in Events :
       /\ IsNext(e)
       /\ outbox' = [outbox EXCEPT ![e] = newEvent(pl)]
       /\ Begin(h, {e})
  /\ UNCHANGED <<graph, faults>>

\* Rows the worker still has to do with, now or when next_run_at has elapsed.
Retryable(e) == /\ outbox[e].status \in {"pending", "submitted", "failed"}
                /\ outbox[e].retries < MaxRetries

ListOutboxEventsForRetry ==
  LET due == {e \in Events : Retryable(e) /\ outbox[e].due}
  IN  {e \in due : Cardinality({f \in due : f < e}) < BatchLimit}

\* A tick of the worker: list what is due and start on the first event.
RetryOnce(w) ==
  /\ proc[w].pc = "idle"
  /\ ListOutboxEventsForRetry # {}
  /\ Begin(w, ListOutboxEventsForRetry)
  /\ UNCHANGED <<outbox, graph, faults>>

-----------------------------------------------------------------------------
(* markFailed, and the ways into it.                                        *)

\* Owe k calls of markFailed before Dispatch returns.  What was read of the
\* row and the SpiceDB calls left to make no longer matter.
FailWith(p, k) ==
  \/ k = 0 /\ Return(p)
  \/ /\ k > 0
     /\ proc' = [proc EXCEPT ![p] = [IdleProc EXCEPT !.pc = "inc", !.marks = k,
                                       !.ev = proc[p].ev, !.batch = proc[p].batch]]

\* RetryOnce calls markFailed once more for every error Dispatch returns.
WorkerMarks(p) == IF p \in Workers THEN 1 ELSE 0

\* One markFailed call is over.
EndMark(p) == FailWith(p, proc[p].marks - 1)

\* Mutant of IncrementRetry: retry_count hardcoded to 1.
IncrementRetryToOne(p) ==
  /\ proc[p].pc = "inc"
  /\ outbox' = [outbox EXCEPT ![proc[p].ev].retries = 1]
  /\ proc' = [proc EXCEPT ![p].pc = "read"]
  /\ UNCHANGED <<graph, faults>>

\* IncrementOutboxRetry: the UPDATE, then the SELECT that reads the row back.
IncrementRetry(p) ==
  /\ proc[p].pc = "inc"
  /\ outbox' = [outbox EXCEPT ![proc[p].ev].retries = @ + 1]
  /\ proc' = [proc EXCEPT ![p].pc = "read"]
  /\ UNCHANGED <<graph, faults>>

ReadBackRetry(p) ==
  /\ proc[p].pc = "read"
  /\ proc' = [proc EXCEPT ![p].pc = "mark",
                          ![p].count = outbox[proc[p].ev].retries]
  /\ UNCHANGED <<outbox, graph, faults>>

\* Failed with next_run_at a minute away, or dead with the zero time in it.
MarkFailed(p) ==
  LET exhausted == proc[p].count >= MaxRetries IN
  /\ proc[p].pc = "mark"
  /\ outbox' = [outbox EXCEPT
                   ![proc[p].ev].status = IF exhausted THEN "dead" ELSE "failed",
                   ![proc[p].ev].due = exhausted]
  /\ EndMark(p)
  /\ UNCHANGED <<graph, faults>>

\* The plain update made when IncrementOutboxRetry fails.
MarkFailedFallback(p) ==
  /\ proc[p].pc = "fallback"
  /\ outbox' = [outbox EXCEPT ![proc[p].ev].status = "failed",
                              ![proc[p].ev].due = FALSE]
  /\ EndMark(p)
  /\ UNCHANGED <<graph, faults>>

-----------------------------------------------------------------------------
(* ApplyEvent.                                                              *)

\* load: read the row; an event already synced is left alone.
Load(p) ==
  LET row == outbox[proc[p].ev] IN
  /\ proc[p].pc = "load"
  /\ \/ row.status = "synced" /\ Return(p)
     \/ /\ row.status # "synced"
        /\ proc' = [proc EXCEPT ![p].pc = "project", ![p].count = row.retries,
                                ![p].todo = FiltersOf(row.pl),
                                ![p].puts = WritesOf(row.pl)]
  /\ UNCHANGED <<outbox, graph, faults>>

MarkProjecting(p) ==
  /\ proc[p].pc = "project"
  /\ outbox' = [outbox EXCEPT ![proc[p].ev].status = "projecting"]
  /\ proc' = [proc EXCEPT ![p].pc = "work"]
  /\ UNCHANGED <<graph, faults>>

\* One DeleteRelationships call of the loop in deleteRelationships.
DeleteRelationships(p) ==
  /\ proc[p].pc = "work"
  /\ \E f \in proc[p].todo :
       /\ graph' = graph \ f
       /\ proc' = [proc EXCEPT ![p].todo = @ \ {f}]
  /\ UNCHANGED <<outbox, faults>>

\* One WriteRelationships call, after the deletes: all relationships or none.
WriteRelationships(p) ==
  /\ proc[p].pc = "work" /\ proc[p].todo = {} /\ proc[p].puts # {}
  /\ graph' = graph \cup proc[p].puts
  /\ proc' = [proc EXCEPT ![p].puts = {}]
  /\ UNCHANGED <<outbox, faults>>

\* Mutants of SpiceDBError: the loop goes on after an error; an error is
\* returned without markFailed.
SpiceDBErrorIgnored(p) ==
  /\ proc[p].pc = "work"
  /\ \E f \in proc[p].todo : proc' = [proc EXCEPT ![p].todo = @ \ {f}]
  /\ UNCHANGED <<outbox, graph, faults>>

SpiceDBErrorUnmarked(p) ==
  /\ proc[p].pc = "work" /\ ~(proc[p].todo = {} /\ proc[p].puts = {})
  /\ FailWith(p, WorkerMarks(p))
  /\ UNCHANGED <<outbox, graph, faults>>

\* A SpiceDB call returns an error; it may have taken effect all the same.
\* The calls that were to follow are not made.
SpiceDBError(p) ==
  /\ proc[p].pc = "work"
  /\ \/ \E f \in proc[p].todo : graph' \in {graph, graph \ f}
     \/ /\ proc[p].todo = {} /\ proc[p].puts # {}
        /\ graph' \in {graph, graph \cup proc[p].puts}
  /\ FailWith(p, 1 + WorkerMarks(p))
  /\ UNCHANGED <<outbox, faults>>

CallsDone(p) == proc[p].pc = "work" /\ proc[p].todo = {} /\ proc[p].puts = {}

\* The last update of ApplyEvent; it writes back the retry_count it loaded.
MarkSynced(p) ==
  /\ CallsDone(p) /\ proc[p].goal = "synced"
  /\ outbox' = [outbox EXCEPT ![proc[p].ev].status = "synced",
                              ![proc[p].ev].retries = proc[p].count,
                              ![proc[p].ev].due = TRUE]
  /\ Return(p)
  /\ UNCHANGED <<graph, faults>>

-----------------------------------------------------------------------------
(* Faults and time.                                                         *)

\* A database statement fails and changes nothing.  ApplyEvent returns the
\* error without markFailed; inside markFailed the error is swallowed.
DBError(p) ==
  /\ faults > 0 /\ faults' = faults - 1
  /\ \/ /\ proc[p].pc \in {"load", "project"} \/ CallsDone(p)
        /\ FailWith(p, WorkerMarks(p))
     \/ /\ proc[p].pc \in {"inc", "read"}
        /\ proc' = [proc EXCEPT ![p].pc = "fallback"]
     \/ proc[p].pc \in {"mark", "fallback"} /\ EndMark(p)
  /\ UNCHANGED <<outbox, graph>>

\* The goroutine stops where it is: the request context is cancelled, or the
\* process is killed.
Abandon(p) ==
  /\ faults > 0 /\ faults' = faults - 1
  /\ proc[p].pc # "idle"
  /\ proc' = [proc EXCEPT ![p] = IdleProc]
  /\ UNCHANGED <<outbox, graph>>

\* The minute of next_run_at is over.
RetryTimeElapses(e) ==
  /\ outbox[e].status # "none" /\ ~outbox[e].due
  /\ outbox' = [outbox EXCEPT ![e].due = TRUE]
  /\ UNCHANGED <<graph, proc, faults>>

-----------------------------------------------------------------------------
Step(p) ==
  \/ Load(p) \/ MarkProjecting(p)
  \/ DeleteRelationships(p) \/ WriteRelationships(p) \/ SpiceDBError(p)
  \/ MarkSynced(p)
  \/ IncrementRetry(p) \/ ReadBackRetry(p)
  \/ MarkFailed(p) \/ MarkFailedFallback(p)

\* Everything the manager does, whoever creates the events.
ManagerNext ==
  \/ \E w \in Workers : RetryOnce(w)
  \/ \E p \in Procs : Step(p) \/ DBError(p) \/ Abandon(p)
  \/ \E e \in Events : RetryTimeElapses(e)

Next ==
  \/ \E h \in Handlers, pl \in Payloads : CreateAndDispatch(h, pl)
  \/ ManagerNext

Spec == Init /\ [][Next]_vars

\* Goroutines run, the worker's ticker ticks and the clock advances.  Requests
\* need not arrive, and SpiceDB need not ever answer without an error.
Fairness ==
  /\ \A p \in Procs : WF_vars(Step(p))
  /\ \A w \in Workers : WF_vars(RetryOnce(w))
  /\ \A e \in Events : WF_vars(RetryTimeElapses(e))

FairSpec == Spec /\ Fairness

-----------------------------------------------------------------------------
(* Properties.                                                              *)

P == INSTANCE Projection WITH
       recorded <- {e \in Events : outbox[e].status # "none"},
       effect   <- [e \in Events |-> [filters |-> FiltersOf(outbox[e].pl),
                                      rels    |-> WritesOf(outbox[e].pl)]],
       synced   <- {e \in Events : outbox[e].status = "synced"}

\* In direct mode the manager keeps the promise of every projection table:
\* SpiceDB is called for recorded events only and with what they say, and no
\* row is marked "synced" without its effect (CreateOutboxEvents, ApplyEvent).
ImplementsProjection == P!Spec

Deletes(e, t)  == \E f \in FiltersOf(outbox[e].pl) : t \in f
Writes(e, t)   == t \in WritesOf(outbox[e].pl)
Concerns(e, t) == outbox[e].status # "none" /\ (Deletes(e, t) \/ Writes(e, t))

\* e alone decides about t, and says one thing about it.
SoleAuthority(e, t) ==
  /\ Deletes(e, t) <=> ~Writes(e, t)
  /\ \A f \in Events \ {e} : ~Concerns(f, t)

\* No silent success: a row reads "synced" only while SpiceDB holds what the
\* event wrote and does not hold what it deleted, for every relationship no
\* other event is about - whatever failed, was abandoned, was retried or ran
\* twice on the way (ApplyEvent, deleteRelationships, RetryOnce).
SyncedEffect ==
  \A e \in Events, t \in Tuples :
    outbox[e].status = "synced" /\ SoleAuthority(e, t)
      => (t \in graph <=> Writes(e, t))

Quiet == \A p \in Procs : proc[p].pc = "idle"

\* Event e was applied, and nobody has it in hand or listed.
Over(e) == outbox[e].status = "synced" /\ \A p \in Procs : e \notin proc[p].batch

\* One fault strands at most one event: when nothing is running, there are no
\* more rows left in "projecting", which the worker never lists, than there
\* were statements that failed and goroutines that stopped, however calls of
\* ApplyEvent, CompensateEvent and markFailed overlapped.
StrandedPerFault ==
  Quiet => Cardinality({e \in Events : outbox[e].status = "projecting"})
             <= MaxFaults - faults

\* The retry budget ends all automatic work: from some point on no row is
\* left that the worker would list, now or later, even if SpiceDB never
\* answers (markFailed, ListOutboxEventsForRetry, IncrementOutboxRetry).
WorkDrains == <>[](\A e \in Events : ~Retryable(e))

\* No event is lost on the way to SpiceDB: a row marked "projecting" gets
\* some other status in the end (ApplyEvent, RetryOnce).
ProjectingEnds ==
  \A e \in Events :
    outbox[e].status = "projecting" ~> outbox[e].status # "projecting"
=============================================================================
