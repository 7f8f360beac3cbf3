--------------------------- MODULE Outbox_proofs ----------------------------
(***************************************************************************)
(* Proofs about the projection manager in direct mode, for any number of   *)
(* handlers, workers, events, relationships, retries and faults.           *)
(***************************************************************************)
EXTENDS Outbox, FiniteSetTheorems, TLAPS

-----------------------------------------------------------------------------
(* The inductive invariant.                                                 *)

\* What a goroutine has in hand are rows that exist.
RefOK(p) ==
  /\ \A e \in proc[p].batch : outbox[e].status # "none"
  /\ proc[p].pc # "idle" => proc[p].ev \in proc[p].batch

\* What a goroutine still has to send is part of what its event asks for.
PartOK(p) ==
  /\ proc[p].pc = "project" =>
       /\ proc[p].todo = FiltersOf(outbox[proc[p].ev].pl)
       /\ proc[p].puts = WritesOf(outbox[proc[p].ev].pl)
  /\ proc[p].pc = "work" =>
       /\ proc[p].todo \subseteq FiltersOf(outbox[proc[p].ev].pl)
       /\ proc[p].puts \in {{}, WritesOf(outbox[proc[p].ev].pl)}

\* What a goroutine no longer has to send is in effect.
SentOK(p) ==
  proc[p].pc = "work" =>
    \A t \in Tuples : SoleAuthority(proc[p].ev, t) =>
      /\ Deletes(proc[p].ev, t) => t \notin graph \/ \E f \in proc[p].todo : t \in f
      /\ Writes(proc[p].ev, t)  => t \in graph \/ t \in proc[p].puts

ProcOK(p) == RefOK(p) /\ PartOK(p) /\ SentOK(p)

IInv == TypeOK /\ (\A p \in Procs : ProcOK(p)) /\ SyncedEffect

-----------------------------------------------------------------------------
(* How a step may leave the goroutine that takes it.                        *)

\* p goes on with events that exist, and is in no SpiceDB calls.
Between(p) ==
  \E q \in ProcState :
    /\ proc' = [proc EXCEPT ![p] = q]
    /\ q.pc \notin {"project", "work"}
    /\ \A e \in q.batch : outbox[e].status # "none"
    /\ q.pc # "idle" => q.ev \in q.batch

LEMMA IdleType == IdleProc \in ProcState
  BY DEF IdleProc, ProcState, PCs

\* Begin takes an event of the list it is given, or becomes idle.
LEMMA BeginEffect ==
  ASSUME NEW p \in Procs, NEW batch \in SUBSET Events, Begin(p, batch)
  PROVE  \E q \in ProcState :
           /\ proc' = [proc EXCEPT ![p] = q]
           /\ q.pc \notin {"project", "work"}
           /\ q.batch \subseteq batch
           /\ q.pc # "idle" => q.ev \in q.batch
<1>1. CASE batch = {} /\ proc' = [proc EXCEPT ![p] = IdleProc]
  <2>1. IdleProc.pc = "idle" /\ IdleProc.batch = {}
    BY DEF IdleProc
  <2> QED
    BY <1>1, <2>1, IdleType
<1>2. ASSUME NEW e \in batch,
             proc' = [proc EXCEPT ![p] = [IdleProc EXCEPT
                        !.pc = IF DTMEnabled THEN "submit" ELSE "load",
                        !.ev = e, !.batch = batch]]
      PROVE  \E q \in ProcState :
               /\ proc' = [proc EXCEPT ![p] = q]
               /\ q.pc \notin {"project", "work"}
               /\ q.batch \subseteq batch
               /\ q.pc # "idle" => q.ev \in q.batch
  <2> DEFINE q == [IdleProc EXCEPT !.pc = IF DTMEnabled THEN "submit" ELSE "load",
                                   !.ev = e, !.batch = batch]
  <2>1. q \in ProcState /\ q.batch = batch /\ q.ev = e /\ q.pc \in {"submit", "load"}
    BY DEF IdleProc, ProcState, PCs
  <2>2. proc' = [proc EXCEPT ![p] = q]
    BY <1>2
  <2> HIDE DEF q
  <2> QED
    BY <2>1, <2>2
<1> QED
  BY <1>1, <1>2 DEF Begin

LEMMA ReturnEffect ==
  ASSUME TypeOK, NEW p \in Procs, RefOK(p), Return(p)
  PROVE  Between(p)
<1>1. proc[p].batch \ {proc[p].ev} \in SUBSET Events
  BY DEF TypeOK, ProcState
<1>2. Begin(p, proc[p].batch \ {proc[p].ev})
  BY DEF Return
<1> QED
  BY <1>1, <1>2, BeginEffect DEF Between, RefOK

LEMMA FailWithEffect ==
  ASSUME TypeOK, NEW p \in Procs, RefOK(p), proc[p].pc # "idle",
         NEW k \in Int, FailWith(p, k)
  PROVE  Between(p)
<1>1. CASE k = 0 /\ Return(p)
  BY <1>1, ReturnEffect
<1>2. CASE k > 0
  <2> DEFINE q == [IdleProc EXCEPT !.pc = "inc", !.marks = k,
                                   !.ev = proc[p].ev, !.batch = proc[p].batch]
  <2>1. proc[p].ev \in Events \cup {0} /\ proc[p].batch \in SUBSET Events /\ k \in Nat
    BY <1>2 DEF TypeOK, ProcState
  <2>2. q \in ProcState /\ q.batch = proc[p].batch /\ q.ev = proc[p].ev /\ q.pc = "inc"
    BY <1>2, <2>1 DEF IdleProc, ProcState, PCs
  <2>3. proc' = [proc EXCEPT ![p] = q]
    BY <1>2 DEF FailWith
  <2>4. q.ev \in q.batch /\ \A e \in q.batch : outbox[e].status # "none"
    BY <2>2 DEF RefOK
  <2> HIDE DEF q
  <2> QED
    BY <2>2, <2>3, <2>4 DEF Between
<1> QED
  BY <1>1, <1>2 DEF FailWith

LEMMA EndMarkEffect ==
  ASSUME TypeOK, NEW p \in Procs, RefOK(p), proc[p].pc # "idle", EndMark(p)
  PROVE  Between(p)
<1>1. proc[p].marks - 1 \in Int
  BY DEF TypeOK, ProcState
<1> QED
  BY <1>1, FailWithEffect DEF EndMark

-----------------------------------------------------------------------------
(* How a step may leave the rows and the graph.                             *)

\* Rows keep their payload, and none appears or disappears.
SameRows ==
  \A e \in Events : /\ outbox'[e].pl = outbox[e].pl
                    /\ outbox'[e].status = "none" <=> outbox[e].status = "none"

\* The graph changes in favour of the events that decide alone, if at all.
Harmless ==
  \A e \in Events, t \in Tuples :
    outbox[e].status # "none" /\ SoleAuthority(e, t) =>
      /\ Writes(e, t) /\ t \in graph => t \in graph'
      /\ Deletes(e, t) /\ t \notin graph => t \notin graph'

LEMMA SameAuthority ==
  ASSUME SameRows, NEW e \in Events, NEW t \in Tuples
  PROVE  /\ Deletes(e, t)' <=> Deletes(e, t)
         /\ Writes(e, t)' <=> Writes(e, t)
         /\ SoleAuthority(e, t)' <=> SoleAuthority(e, t)
<1>1. \A f \in Events : /\ Deletes(f, t)' <=> Deletes(f, t)
                        /\ Writes(f, t)' <=> Writes(f, t)
                        /\ Concerns(f, t)' <=> Concerns(f, t)
  BY DEF SameRows, Deletes, Writes, Concerns
<1> QED
  BY <1>1 DEF SoleAuthority

\* A call made for an event touches no relationship of which another event
\* is the sole authority, and of its own ones only as the event asks.
LEMMA CallsHarmless ==
  ASSUME NEW e \in Events, outbox[e].status # "none",
         \/ \E f \in FiltersOf(outbox[e].pl) : graph' = graph \ f
         \/ \E w \in SUBSET WritesOf(outbox[e].pl) : graph' = graph \cup w
         \/ graph' = graph
  PROVE  Harmless
<1> SUFFICES ASSUME NEW d \in Events, NEW t \in Tuples, SoleAuthority(d, t)
             PROVE  /\ Writes(d, t) /\ t \in graph => t \in graph'
                    /\ Deletes(d, t) /\ t \notin graph => t \notin graph'
  BY DEF Harmless
<1>1. d # e => ~Deletes(e, t) /\ ~Writes(e, t)
  BY DEF SoleAuthority, Concerns
<1>2. ~(Deletes(d, t) /\ Writes(d, t))
  BY DEF SoleAuthority
<1> QED
  BY <1>1, <1>2 DEF Deletes, Writes

\* The goroutines that do not take the step.
LEMMA OthersOK ==
  ASSUME IInv, SameRows, Harmless, NEW r \in Procs, proc'[r] = proc[r]
  PROVE  ProcOK(r)'
<1>1. ProcOK(r) /\ proc[r] \in ProcState
  BY DEF IInv, TypeOK
<1>2. RefOK(r)'
  BY <1>1 DEF ProcOK, RefOK, SameRows, ProcState
<1>3. CASE proc[r].pc \notin {"project", "work"}
  BY <1>2, <1>3 DEF ProcOK, PartOK, SentOK
<1>4. CASE proc[r].pc \in {"project", "work"}
  <2>1. proc[r].ev \in Events /\ outbox[proc[r].ev].status # "none"
    BY <1>1, <1>4 DEF ProcOK, RefOK, ProcState
  <2>2. PartOK(r)'
    BY <1>1, <2>1 DEF ProcOK, PartOK, SameRows
  <2>3. SentOK(r)'
    BY <1>1, <2>1, SameAuthority DEF ProcOK, SentOK, Harmless
  <2> QED
    BY <1>2, <2>2, <2>3 DEF ProcOK
<1> QED
  BY <1>3, <1>4

\* A goroutine that leaves its SpiceDB calls, or was not in them.
LEMMA BetweenOK ==
  ASSUME IInv, SameRows, Harmless, NEW p \in Procs, Between(p)
  PROVE  /\ proc' \in [Procs -> ProcState]
         /\ \A r \in Procs : ProcOK(r)'
<1>1. PICK q \in ProcState :
        /\ proc' = [proc EXCEPT ![p] = q]
        /\ q.pc \notin {"project", "work"}
        /\ \A e \in q.batch : outbox[e].status # "none"
        /\ q.pc # "idle" => q.ev \in q.batch
  BY DEF Between
<1>2. proc' \in [Procs -> ProcState] /\ proc'[p] = q
  BY <1>1 DEF IInv, TypeOK
<1>3. ProcOK(p)'
  <2>1. \A e \in q.batch : e \in Events /\ outbox[e].status # "none"
    BY <1>1 DEF ProcState
  <2>2. RefOK(p)'
    BY <1>1, <1>2, <2>1 DEF RefOK, SameRows
  <2> QED
    BY <1>1, <1>2, <2>2 DEF ProcOK, PartOK, SentOK
<1>4. ASSUME NEW r \in Procs, r # p
      PROVE  ProcOK(r)'
  BY <1>1, <1>4, OthersOK DEF IInv, TypeOK
<1> QED
  BY <1>2, <1>3, <1>4

\* The rows that were synced before.
LEMMA SyncedKept ==
  ASSUME IInv, SameRows, Harmless, NEW e \in Events, outbox[e].status = "synced",
         NEW t \in Tuples, SoleAuthority(e, t)'
  PROVE  (t \in graph <=> Writes(e, t))'
<1>1. SoleAuthority(e, t) /\ (Writes(e, t)' <=> Writes(e, t))
  BY SameAuthority
<1>2. t \in graph <=> Writes(e, t)
  BY <1>1 DEF IInv, SyncedEffect
<1>3. Deletes(e, t) <=> ~Writes(e, t)
  BY <1>1 DEF SoleAuthority, Deletes, Writes
<1> QED
  BY <1>1, <1>2, <1>3 DEF Harmless

LEMMA SyncedEffectKept ==
  ASSUME IInv, SameRows, Harmless,
         \A e \in Events : outbox'[e].status = "synced" => outbox[e].status = "synced"
  PROVE  SyncedEffect'
  BY SyncedKept DEF SyncedEffect

-----------------------------------------------------------------------------
(* Every action preserves the invariant.                                    *)

LEMMA InitOK == Init => IInv
<1> SUFFICES ASSUME Init
             PROVE  IInv
  OBVIOUS
<1>1. TypeOK
  BY ConstantsOK, IdleType DEF Init, TypeOK, NoRow, Payload, Statuses
<1>2. \A p \in Procs : proc[p].pc = "idle" /\ proc[p].batch = {}
  BY DEF Init, IdleProc
<1>3. \A p \in Procs : ProcOK(p)
  BY <1>2 DEF ProcOK, RefOK, PartOK, SentOK
<1>4. SyncedEffect
  BY DEF Init, NoRow, SyncedEffect
<1> QED
  BY <1>1, <1>3, <1>4 DEF IInv

\* A new row is no goroutine's event, and can only take authority away.
LEMMA CreateAndDispatchOK ==
  ASSUME IInv, NEW h \in Handlers, NEW pl \in Payloads, CreateAndDispatch(h, pl)
  PROVE  IInv'
<1>1. PICK e \in Events : /\ outbox[e].status = "none"
                          /\ outbox' = [outbox EXCEPT ![e] = newEvent(pl)]
                          /\ Begin(h, {e})
  BY DEF CreateAndDispatch, IsNext
<1>2. h \in Procs /\ pl \in Payload /\ graph' = graph /\ faults' = faults
  BY ConstantsOK DEF CreateAndDispatch
<1>3. PICK q \in ProcState : /\ proc' = [proc EXCEPT ![h] = q]
                             /\ q.pc \notin {"project", "work"}
                             /\ q.batch \subseteq {e}
                             /\ q.pc # "idle" => q.ev \in q.batch
  BY <1>1, <1>2, BeginEffect
<1>4. /\ outbox'[e] = newEvent(pl)
      /\ \A d \in Events \ {e} : outbox'[d] = outbox[d]
  BY <1>1 DEF IInv, TypeOK
<1>5. newEvent(pl) \in [pl : Payload, status : Statuses, retries : Nat, due : BOOLEAN]
      /\ newEvent(pl).status = "pending"
  BY <1>2 DEF newEvent, Statuses
<1>6. TypeOK'
  BY <1>1, <1>2, <1>3, <1>5 DEF IInv, TypeOK
<1>7. ASSUME NEW d \in Events \ {e}, NEW t \in Tuples
      PROVE  /\ Deletes(d, t)' <=> Deletes(d, t)
             /\ Writes(d, t)' <=> Writes(d, t)
             /\ SoleAuthority(d, t)' => SoleAuthority(d, t)
  <2>1. \A f \in Events \ {e} : /\ Deletes(f, t)' <=> Deletes(f, t)
                                /\ Writes(f, t)' <=> Writes(f, t)
                                /\ Concerns(f, t)' <=> Concerns(f, t)
    BY <1>4 DEF Deletes, Writes, Concerns
  <2>2. ~Concerns(e, t)
    BY <1>1 DEF Concerns
  <2> QED
    BY <2>1, <2>2 DEF SoleAuthority
<1>8. ASSUME NEW r \in Procs
      PROVE  ProcOK(r)'
  <2>1. CASE r = h
    <3>1. proc'[r] = q
      BY <1>2, <1>3, <2>1 DEF IInv, TypeOK
    <3> QED
      BY <1>3, <1>4, <1>5, <3>1 DEF ProcOK, RefOK, PartOK, SentOK
  <2>2. CASE r # h
    <3>1. proc'[r] = proc[r] /\ ProcOK(r) /\ proc[r] \in ProcState
      BY <1>3, <2>2 DEF IInv, TypeOK
    <3>2. proc[r].batch \subseteq Events \ {e}
      BY <1>1, <3>1 DEF ProcOK, RefOK, ProcState
    <3>3. RefOK(r)'
      BY <1>4, <3>1, <3>2 DEF ProcOK, RefOK
    <3>4. proc[r].pc # "idle" => proc[r].ev \in Events \ {e}
      BY <3>1, <3>2 DEF ProcOK, RefOK
    <3>5. PartOK(r)'
      BY <1>4, <3>1, <3>4 DEF ProcOK, PartOK
    <3>6. SentOK(r)'
      BY <1>2, <1>7, <3>1, <3>4 DEF ProcOK, SentOK
    <3> QED
      BY <3>3, <3>5, <3>6 DEF ProcOK
  <2> QED
    BY <2>1, <2>2
<1>9. SyncedEffect'
  BY <1>2, <1>4, <1>5, <1>7 DEF IInv, SyncedEffect
<1> QED
  BY <1>6, <1>8, <1>9 DEF IInv

\* Nothing but goroutines changes.
LEMMA StillOK ==
  ASSUME IInv, outbox' = outbox, graph' = graph, faults' \in Nat,
         NEW p \in Procs, Between(p)
  PROVE  IInv'
<1>1. SameRows /\ Harmless
  BY DEF SameRows, Harmless
<1>2. proc' \in [Procs -> ProcState] /\ \A r \in Procs : ProcOK(r)'
  BY <1>1, BetweenOK
<1>3. TypeOK'
  BY <1>2 DEF IInv, TypeOK
<1>4. SyncedEffect'
  BY <1>1, SyncedEffectKept
<1> QED
  BY <1>2, <1>3, <1>4 DEF IInv

LEMMA RetryOnceOK ==
  ASSUME IInv, NEW w \in Workers, RetryOnce(w)
  PROVE  IInv'
<1>1. w \in Procs
  BY ConstantsOK
<1>2. /\ ListOutboxEventsForRetry \in SUBSET Events
      /\ \A e \in ListOutboxEventsForRetry : outbox[e].status # "none"
  BY DEF ListOutboxEventsForRetry, Retryable
<1>3. Begin(w, ListOutboxEventsForRetry)
  BY DEF RetryOnce
<1>4. Between(w)
  BY <1>1, <1>2, <1>3, BeginEffect DEF Between
<1> QED
  BY <1>1, <1>4, StillOK DEF RetryOnce, IInv, TypeOK

\* The goroutine that takes a step, and the event it has in hand.
LEMMA InHand ==
  ASSUME IInv, NEW p \in Procs, proc[p].pc # "idle"
  PROVE  /\ RefOK(p) /\ PartOK(p) /\ SentOK(p)
         /\ proc[p] \in ProcState
         /\ proc[p].ev \in Events /\ outbox[proc[p].ev].status # "none"
         /\ outbox[proc[p].ev] \in [pl : Payload, status : Statuses,
                                    retries : Nat, due : BOOLEAN]
  BY DEF IInv, ProcOK, RefOK, TypeOK, ProcState

\* What a payload asks for is made of relationships.
LEMMA AskedType ==
  ASSUME NEW pl \in Payload
  PROVE  FiltersOf(pl) \in SUBSET (SUBSET Tuples) /\ WritesOf(pl) \in SUBSET Tuples
  BY DEF Payload, FiltersOf, WritesOf, relationshipFilters

LEMMA LoadOK ==
  ASSUME IInv, NEW p \in Procs, Load(p)
  PROVE  IInv'
<1> DEFINE row == outbox[proc[p].ev]
<1>1. proc[p].pc = "load" /\ outbox' = outbox /\ graph' = graph /\ faults' = faults
  BY DEF Load
<1>2. CASE Return(p)
  BY <1>1, <1>2, InHand, ReturnEffect, StillOK DEF IInv, TypeOK
<1>3. CASE proc' = [proc EXCEPT ![p].pc = "project", ![p].count = row.retries,
                                ![p].todo = FiltersOf(row.pl),
                                ![p].puts = WritesOf(row.pl)]
  <2>1. /\ proc[p] \in ProcState /\ RefOK(p)
        /\ row \in [pl : Payload, status : Statuses, retries : Nat, due : BOOLEAN]
    BY <1>1, InHand
  <2>2. FiltersOf(row.pl) \in SUBSET (SUBSET Tuples) /\ WritesOf(row.pl) \in SUBSET Tuples
    BY <2>1, AskedType
  <2>3. /\ proc'[p] \in ProcState /\ proc'[p].pc = "project"
        /\ proc'[p].ev = proc[p].ev /\ proc'[p].batch = proc[p].batch
        /\ proc'[p].todo = FiltersOf(row.pl) /\ proc'[p].puts = WritesOf(row.pl)
    <3> HIDE DEF row
    <3> QED
      BY <1>3, <2>1, <2>2 DEF IInv, TypeOK, ProcState, PCs
  <2>4. \A r \in Procs \ {p} : proc'[r] = proc[r]
    BY <1>3 DEF IInv, TypeOK
  <2>5. SameRows /\ Harmless
    BY <1>1 DEF SameRows, Harmless
  <2>6. ProcOK(p)'
    BY <1>1, <2>1, <2>3 DEF ProcOK, RefOK, PartOK, SentOK
  <2>7. \A r \in Procs : ProcOK(r)'
    BY <2>4, <2>5, <2>6, OthersOK
  <2>8. TypeOK'
    <3>1. proc' \in [Procs -> ProcState]
      BY <1>3, <2>3, <2>4 DEF IInv, TypeOK
    <3> QED
      BY <1>1, <3>1 DEF IInv, TypeOK
  <2>9. SyncedEffect'
    BY <1>1, <2>5, SyncedEffectKept
  <2> QED
    BY <2>7, <2>8, <2>9 DEF IInv
<1> QED
  BY <1>2, <1>3 DEF Load

\* From here on the event in hand is being sent: nothing of it was before.
LEMMA MarkProjectingOK ==
  ASSUME IInv, NEW p \in Procs, MarkProjecting(p)
  PROVE  IInv'
<1>1. /\ proc[p].pc = "project" /\ graph' = graph /\ faults' = faults
      /\ outbox' = [outbox EXCEPT ![proc[p].ev].status = "projecting"]
      /\ proc' = [proc EXCEPT ![p].pc = "work"]
  BY DEF MarkProjecting
<1>2. /\ RefOK(p) /\ PartOK(p) /\ proc[p] \in ProcState
      /\ proc[p].ev \in Events /\ outbox[proc[p].ev].status # "none"
  BY <1>1, InHand
<1>3. /\ outbox' \in [Events -> [pl : Payload, status : Statuses,
                                 retries : Nat, due : BOOLEAN]]
      /\ SameRows
      /\ \A e \in Events : outbox'[e].status = "synced" => outbox[e].status = "synced"
  BY <1>1, <1>2 DEF IInv, TypeOK, SameRows, Statuses
<1>4. Harmless
  BY <1>1 DEF Harmless
<1>5. /\ proc' \in [Procs -> ProcState]
      /\ proc'[p] = [proc[p] EXCEPT !.pc = "work"]
      /\ \A r \in Procs \ {p} : proc'[r] = proc[r]
  BY <1>1, <1>2 DEF IInv, TypeOK, ProcState, PCs
<1>6. /\ proc'[p].pc = "work" /\ proc'[p].ev = proc[p].ev
      /\ proc'[p].batch = proc[p].batch
      /\ proc'[p].todo = proc[p].todo /\ proc'[p].puts = proc[p].puts
  BY <1>2, <1>5 DEF ProcState
<1>7. ProcOK(p)'
  <2>1. RefOK(p)'
    BY <1>1, <1>2, <1>3, <1>6 DEF RefOK, SameRows, ProcState
  <2>2. PartOK(p)'
    BY <1>1, <1>2, <1>3, <1>6 DEF PartOK, SameRows
  <2>3. SentOK(p)'
    BY <1>1, <1>2, <1>3, <1>6, SameAuthority DEF PartOK, SentOK, Deletes, Writes
  <2> QED
    BY <2>1, <2>2, <2>3 DEF ProcOK
<1>8. \A r \in Procs : ProcOK(r)'
  BY <1>3, <1>4, <1>5, <1>7, OthersOK
<1>9. TypeOK' /\ SyncedEffect'
  BY <1>1, <1>3, <1>4, <1>5, SyncedEffectKept DEF IInv, TypeOK
<1> QED
  BY <1>8, <1>9 DEF IInv

\* One call returned: what it was to do is done.
LEMMA CallOK ==
  ASSUME IInv, NEW p \in Procs, DeleteRelationships(p) \/ WriteRelationships(p)
  PROVE  IInv'
<1>1. proc[p].pc = "work" /\ outbox' = outbox /\ faults' = faults
  BY DEF DeleteRelationships, WriteRelationships
<1>2. /\ RefOK(p) /\ PartOK(p) /\ SentOK(p) /\ proc[p] \in ProcState
      /\ proc[p].ev \in Events /\ outbox[proc[p].ev].status # "none"
  BY <1>1, InHand
<1>3. SameRows
  BY <1>1 DEF SameRows
<1>4. CASE DeleteRelationships(p)
  <2>1. PICK f \in proc[p].todo : /\ graph' = graph \ f
                                  /\ proc' = [proc EXCEPT ![p].todo = @ \ {f}]
    BY <1>4 DEF DeleteRelationships
  <2>2. Harmless
    BY <1>1, <1>2, <2>1, CallsHarmless DEF PartOK
  <2>3. /\ proc' \in [Procs -> ProcState]
        /\ \A r \in Procs \ {p} : proc'[r] = proc[r]
        /\ proc'[p].pc = "work" /\ proc'[p].ev = proc[p].ev
        /\ proc'[p].batch = proc[p].batch
        /\ proc'[p].todo = proc[p].todo \ {f} /\ proc'[p].puts = proc[p].puts
    BY <1>1, <1>2, <2>1 DEF IInv, TypeOK, ProcState
  <2>4. RefOK(p)' /\ PartOK(p)'
    BY <1>1, <1>2, <2>3 DEF RefOK, PartOK
  <2>5. SentOK(p)'
    BY <1>1, <1>2, <1>3, <2>1, <2>2, <2>3, SameAuthority DEF SentOK, Harmless
  <2>6. \A r \in Procs : ProcOK(r)'
    BY <1>3, <2>2, <2>3, <2>4, <2>5, OthersOK DEF ProcOK
  <2> QED
    BY <1>1, <1>3, <2>1, <2>2, <2>3, <2>6, SyncedEffectKept DEF IInv, TypeOK
<1>5. CASE WriteRelationships(p)
  <2>1. /\ graph' = graph \cup proc[p].puts
        /\ proc' = [proc EXCEPT ![p].puts = {}]
        /\ proc[p].todo = {}
    BY <1>5 DEF WriteRelationships
  <2>2. Harmless
    BY <1>1, <1>2, <2>1, CallsHarmless DEF PartOK
  <2>3. /\ proc' \in [Procs -> ProcState]
        /\ \A r \in Procs \ {p} : proc'[r] = proc[r]
        /\ proc'[p].pc = "work" /\ proc'[p].ev = proc[p].ev
        /\ proc'[p].batch = proc[p].batch
        /\ proc'[p].todo = proc[p].todo /\ proc'[p].puts = {}
    BY <1>1, <1>2, <2>1 DEF IInv, TypeOK, ProcState
  <2>4. RefOK(p)' /\ PartOK(p)'
    BY <1>1, <1>2, <2>3 DEF RefOK, PartOK
  <2>5. SentOK(p)'
    BY <1>1, <1>2, <1>3, <2>1, <2>2, <2>3, SameAuthority DEF SentOK, Harmless
  <2>6. \A r \in Procs : ProcOK(r)'
    BY <1>3, <2>2, <2>3, <2>4, <2>5, OthersOK DEF ProcOK
  <2>7. graph' \in SUBSET Tuples
    BY <1>2, <2>1 DEF IInv, TypeOK, ProcState
  <2> QED
    BY <1>1, <1>3, <2>2, <2>3, <2>6, <2>7, SyncedEffectKept DEF IInv, TypeOK
<1> QED
  BY <1>4, <1>5

LEMMA SpiceDBErrorOK ==
  ASSUME IInv, NEW p \in Procs, SpiceDBError(p)
  PROVE  IInv'
<1>1. proc[p].pc = "work" /\ outbox' = outbox /\ faults' = faults
  BY DEF SpiceDBError
<1>2. /\ RefOK(p) /\ PartOK(p) /\ proc[p] \in ProcState
      /\ proc[p].ev \in Events /\ outbox[proc[p].ev].status # "none"
  BY <1>1, InHand
<1>3. \/ \E f \in proc[p].todo : graph' = graph \ f
      \/ graph' = graph \cup proc[p].puts
      \/ graph' = graph
  BY DEF SpiceDBError
<1>4. SameRows
  BY <1>1 DEF SameRows
<1>5. Harmless
  BY <1>1, <1>2, <1>3, CallsHarmless DEF PartOK
<1>6. Between(p)
  <2>1. 1 + WorkerMarks(p) \in Int
    BY DEF WorkerMarks
  <2> QED
    BY <1>1, <1>2, <2>1, FailWithEffect DEF SpiceDBError, IInv
<1>7. proc' \in [Procs -> ProcState] /\ \A r \in Procs : ProcOK(r)'
  BY <1>4, <1>5, <1>6, BetweenOK
<1>8. graph' \in SUBSET Tuples
  BY <1>2, <1>3 DEF IInv, TypeOK, ProcState
<1> QED
  BY <1>1, <1>4, <1>5, <1>7, <1>8, SyncedEffectKept DEF IInv, TypeOK

\* All calls were made: what the event asked for is in effect.
LEMMA MarkSyncedOK ==
  ASSUME IInv, NEW p \in Procs, MarkSynced(p)
  PROVE  IInv'
<1> DEFINE e == proc[p].ev
<1>1. /\ proc[p].pc = "work" /\ proc[p].todo = {} /\ proc[p].puts = {}
      /\ outbox' = [outbox EXCEPT ![e].status = "synced",
                                  ![e].retries = proc[p].count, ![e].due = TRUE]
      /\ Return(p) /\ graph' = graph /\ faults' = faults
  BY DEF MarkSynced, CallsDone
<1>2. /\ RefOK(p) /\ SentOK(p) /\ proc[p] \in ProcState
      /\ e \in Events /\ outbox[e].status # "none"
  BY <1>1, InHand
<1> HIDE DEF e
<1>3. /\ outbox' \in [Events -> [pl : Payload, status : Statuses,
                                 retries : Nat, due : BOOLEAN]]
      /\ SameRows
      /\ \A d \in Events \ {e} : outbox'[d] = outbox[d]
  <2>1. proc[p].count \in Nat
    BY <1>2 DEF ProcState
  <2>2. outbox \in [Events -> [pl : Payload, status : Statuses,
                              retries : Nat, due : BOOLEAN]]
    BY DEF IInv, TypeOK
  <2> QED
    BY <1>1, <1>2, <2>1, <2>2 DEF SameRows, Statuses
<1>4. Harmless
  BY <1>1 DEF Harmless
<1>5. Between(p)
  BY <1>1, <1>2, ReturnEffect DEF IInv
<1>6. proc' \in [Procs -> ProcState] /\ \A r \in Procs : ProcOK(r)'
  BY <1>3, <1>4, <1>5, BetweenOK
<1>7. ASSUME NEW d \in Events, NEW t \in Tuples,
             outbox'[d].status = "synced", SoleAuthority(d, t)'
      PROVE  (t \in graph <=> Writes(d, t))'
  <2>1. CASE d = e
    <3>1. /\ SoleAuthority(e, t) /\ (Writes(d, t)' <=> Writes(e, t))
      BY <1>3, <1>7, <2>1, SameAuthority
    <3>2. (Deletes(e, t) => t \notin graph) /\ (Writes(e, t) => t \in graph)
      BY <1>1, <1>2, <3>1 DEF SentOK, e
    <3> QED
      BY <1>1, <3>1, <3>2 DEF SoleAuthority
  <2>2. CASE d # e
    BY <1>3, <1>4, <1>7, <2>2, SyncedKept
  <2> QED
    BY <2>1, <2>2
<1> QED
  BY <1>1, <1>3, <1>6, <1>7 DEF IInv, TypeOK, SyncedEffect

\* The updates of markFailed: a row gets another retry_count, next_run_at or
\* status, and never becomes synced.
LEMMA RowUpdateOK ==
  ASSUME IInv, NEW p \in Procs, RefOK(p), Between(p),
         NEW e \in Events, outbox[e].status # "none",
         NEW row \in [pl : Payload, status : Statuses, retries : Nat, due : BOOLEAN],
         row.pl = outbox[e].pl, row.status # "none",
         row.status = "synced" => outbox[e].status = "synced",
         outbox' = [outbox EXCEPT ![e] = row], graph' = graph, faults' = faults
  PROVE  IInv'
<1>1. /\ outbox' \in [Events -> [pl : Payload, status : Statuses,
                                 retries : Nat, due : BOOLEAN]]
      /\ SameRows
      /\ \A d \in Events : outbox'[d].status = "synced" => outbox[d].status = "synced"
  BY DEF IInv, TypeOK, SameRows
<1>2. Harmless
  BY DEF Harmless
<1>3. proc' \in [Procs -> ProcState] /\ \A r \in Procs : ProcOK(r)'
  BY <1>1, <1>2, BetweenOK
<1> QED
  BY <1>1, <1>2, <1>3, SyncedEffectKept DEF IInv, TypeOK

LEMMA MarkFailedOK ==
  ASSUME IInv, NEW p \in Procs,
         \/ IncrementRetry(p) \/ MarkFailed(p) \/ MarkFailedFallback(p)
  PROVE  IInv'
<1> DEFINE e == proc[p].ev
<1>1. proc[p].pc \in {"inc", "mark", "fallback"} /\ graph' = graph /\ faults' = faults
  BY DEF IncrementRetry, MarkFailed, MarkFailedFallback
<1>2. /\ RefOK(p) /\ proc[p] \in ProcState
      /\ e \in Events /\ outbox[e].status # "none"
      /\ outbox[e] \in [pl : Payload, status : Statuses, retries : Nat, due : BOOLEAN]
  BY <1>1, InHand
<1>3. CASE IncrementRetry(p)
  <2> DEFINE q == [proc[p] EXCEPT !.pc = "read"]
             row == [outbox[e] EXCEPT !.retries = @ + 1]
  <2>1. proc' = [proc EXCEPT ![p] = q] /\ outbox' = [outbox EXCEPT ![e] = row]
    BY <1>3, <1>2 DEF IncrementRetry, IInv, TypeOK
  <2>2. /\ q \in ProcState /\ q.pc = "read" /\ q.batch = proc[p].batch
        /\ q.ev = proc[p].ev
    BY <1>2 DEF ProcState, PCs
  <2>3. Between(p)
    <3> HIDE DEF q
    <3> QED
      BY <1>1, <1>2, <2>1, <2>2 DEF Between, RefOK
  <2>4. /\ row \in [pl : Payload, status : Statuses, retries : Nat, due : BOOLEAN]
        /\ row.pl = outbox[e].pl /\ row.status = outbox[e].status
    BY <1>2
  <2> HIDE DEF e, row, q
  <2> QED
    BY <1>1, <1>2, <2>1, <2>3, <2>4, RowUpdateOK
<1>4. CASE MarkFailed(p)
  <2> DEFINE exhausted == proc[p].count >= MaxRetries
             row == [outbox[e] EXCEPT !.status = IF exhausted THEN "dead" ELSE "failed",
                                      !.due = exhausted]
  <2>1. outbox' = [outbox EXCEPT ![e] = row]
    BY <1>4, <1>2 DEF MarkFailed, IInv, TypeOK
  <2>2. exhausted \in BOOLEAN
    OBVIOUS
  <2> HIDE DEF exhausted
  <2>3. Between(p)
    BY <1>1, <1>2, <1>4, EndMarkEffect DEF MarkFailed, IInv
  <2>4. /\ row \in [pl : Payload, status : Statuses, retries : Nat, due : BOOLEAN]
        /\ row.pl = outbox[e].pl /\ row.status \in {"dead", "failed"}
    BY <1>2, <2>2 DEF Statuses
  <2> HIDE DEF e, row
  <2> QED
    BY <1>1, <1>2, <2>1, <2>3, <2>4, RowUpdateOK
<1>5. CASE MarkFailedFallback(p)
  <2> DEFINE row == [outbox[e] EXCEPT !.status = "failed", !.due = FALSE]
  <2>1. outbox' = [outbox EXCEPT ![e] = row]
    BY <1>5, <1>2 DEF MarkFailedFallback, IInv, TypeOK
  <2>2. Between(p)
    BY <1>1, <1>2, <1>5, EndMarkEffect DEF MarkFailedFallback, IInv
  <2>3. /\ row \in [pl : Payload, status : Statuses, retries : Nat, due : BOOLEAN]
        /\ row.pl = outbox[e].pl /\ row.status = "failed"
    BY <1>2 DEF Statuses
  <2> HIDE DEF e, row
  <2> QED
    BY <1>1, <1>2, <2>1, <2>2, <2>3, RowUpdateOK
<1> QED
  BY <1>3, <1>4, <1>5

LEMMA ReadBackRetryOK ==
  ASSUME IInv, NEW p \in Procs, ReadBackRetry(p)
  PROVE  IInv'
<1> DEFINE q == [proc[p] EXCEPT !.pc = "mark", !.count = outbox[proc[p].ev].retries]
<1>1. proc[p].pc = "read" /\ outbox' = outbox /\ graph' = graph /\ faults' = faults
  BY DEF ReadBackRetry
<1>2. /\ RefOK(p) /\ proc[p] \in ProcState
      /\ outbox[proc[p].ev].retries \in Nat
  BY <1>1, InHand
<1>3. proc' = [proc EXCEPT ![p] = q]
  BY <1>2 DEF ReadBackRetry, IInv, TypeOK
<1>4. /\ q \in ProcState /\ q.pc = "mark" /\ q.batch = proc[p].batch
      /\ q.ev = proc[p].ev
  BY <1>2 DEF ProcState, PCs
<1> HIDE DEF q
<1>5. Between(p)
  BY <1>1, <1>2, <1>3, <1>4 DEF Between, RefOK
<1> QED
  BY <1>1, <1>5, StillOK DEF IInv, TypeOK

LEMMA DBErrorOK ==
  ASSUME IInv, NEW p \in Procs, DBError(p)
  PROVE  IInv'
<1>1. /\ proc[p].pc # "idle" /\ outbox' = outbox /\ graph' = graph
      /\ faults' \in Nat
  BY DEF DBError, CallsDone, IInv, TypeOK
<1>2. RefOK(p) /\ proc[p] \in ProcState
  BY <1>1, InHand
<1>3. Between(p)
  <2>1. CASE FailWith(p, WorkerMarks(p))
    BY <1>1, <1>2, <2>1, FailWithEffect DEF WorkerMarks, IInv
  <2>2. CASE EndMark(p)
    BY <1>1, <1>2, <2>2, EndMarkEffect DEF IInv
  <2>3. CASE proc' = [proc EXCEPT ![p].pc = "fallback"]
    <3> DEFINE q == [proc[p] EXCEPT !.pc = "fallback"]
    <3>1. proc' = [proc EXCEPT ![p] = q]
      BY <2>3 DEF IInv, TypeOK
    <3>2. /\ q \in ProcState /\ q.pc = "fallback" /\ q.batch = proc[p].batch
          /\ q.ev = proc[p].ev
      BY <1>2 DEF ProcState, PCs
    <3> HIDE DEF q
    <3> QED
      BY <1>1, <1>2, <3>1, <3>2 DEF Between, RefOK
  <2> QED
    BY <2>1, <2>2, <2>3 DEF DBError
<1> QED
  BY <1>1, <1>3, StillOK

LEMMA AbandonOK ==
  ASSUME IInv, NEW p \in Procs, Abandon(p)
  PROVE  IInv'
<1>1. /\ outbox' = outbox /\ graph' = graph /\ faults' \in Nat
      /\ proc' = [proc EXCEPT ![p] = IdleProc]
  BY DEF Abandon, IInv, TypeOK
<1>2. IdleProc.pc = "idle" /\ IdleProc.batch = {}
  BY DEF IdleProc
<1>3. Between(p)
  BY <1>1, <1>2, IdleType DEF Between
<1> QED
  BY <1>1, <1>3, StillOK

LEMMA RetryTimeElapsesOK ==
  ASSUME IInv, NEW e \in Events, RetryTimeElapses(e)
  PROVE  IInv'
<1>1. /\ outbox' = [outbox EXCEPT ![e].due = TRUE]
      /\ graph' = graph /\ proc' = proc /\ faults' = faults
  BY DEF RetryTimeElapses
<1>2. /\ outbox' \in [Events -> [pl : Payload, status : Statuses,
                                 retries : Nat, due : BOOLEAN]]
      /\ SameRows
      /\ \A d \in Events : outbox'[d].status = outbox[d].status
  BY <1>1 DEF IInv, TypeOK, SameRows
<1>3. Harmless
  BY <1>1 DEF Harmless
<1>4. \A r \in Procs : ProcOK(r)'
  BY <1>1, <1>2, <1>3, OthersOK
<1> QED
  BY <1>1, <1>2, <1>3, <1>4, SyncedEffectKept DEF IInv, TypeOK

LEMMA StutterOK ==
  ASSUME IInv, UNCHANGED vars
  PROVE  IInv'
<1>1. outbox' = outbox /\ graph' = graph /\ proc' = proc /\ faults' = faults
  BY DEF vars
<1>2. SameRows /\ Harmless
  BY <1>1 DEF SameRows, Harmless
<1>3. \A r \in Procs : ProcOK(r)'
  BY <1>1, <1>2, OthersOK
<1> QED
  BY <1>1, <1>2, <1>3, SyncedEffectKept DEF IInv, TypeOK

LEMMA StepOK ==
  ASSUME IInv, NEW p \in Procs, Step(p)
  PROVE  IInv'
  BY LoadOK, MarkProjectingOK, CallOK, SpiceDBErrorOK, MarkSyncedOK,
     MarkFailedOK, ReadBackRetryOK DEF Step

\* What the manager does keeps the invariant, whoever creates the events.
LEMMA ManagerNextOK ==
  ASSUME IInv, ManagerNext
  PROVE  IInv'
  BY RetryOnceOK, StepOK, DBErrorOK, AbandonOK, RetryTimeElapsesOK DEF ManagerNext

LEMMA NextOK == IInv /\ [Next]_vars => IInv'
<1> SUFFICES ASSUME IInv, [Next]_vars
             PROVE  IInv'
  OBVIOUS
<1> QED
  BY CreateAndDispatchOK, ManagerNextOK, StutterOK DEF Next

\* The manager's steps neither create rows nor change payloads.
LEMMA ManagerKeepsRows ==
  ASSUME IInv, ManagerNext
  PROVE  SameRows
<1> DEFINE Row == [pl : Payload, status : Statuses, retries : Nat, due : BOOLEAN]
<1>1. outbox \in [Events -> Row]
  BY DEF IInv, TypeOK
<1>2. CASE outbox' = outbox
  BY <1>2 DEF SameRows
<1>3. ASSUME NEW p \in Procs, Step(p)
      PROVE  SameRows
  <2> DEFINE e == proc[p].ev
  <2>1. CASE outbox' # outbox
    <3>1. proc[p].pc # "idle"
      BY <1>3, <2>1 DEF Step, Load, MarkProjecting, DeleteRelationships,
        WriteRelationships, SpiceDBError, MarkSynced, CallsDone, IncrementRetry,
        ReadBackRetry, MarkFailed, MarkFailedFallback
    <3>2. e \in Events /\ outbox[e].status # "none" /\ outbox[e] \in Row
      BY <3>1, InHand
    <3> HIDE DEF e
    <3>3. CASE outbox' = [outbox EXCEPT ![e].status = "projecting"]
      BY <1>1, <3>2, <3>3 DEF SameRows
    <3>4. CASE outbox' = [outbox EXCEPT ![e].retries = @ + 1]
      BY <1>1, <3>2, <3>4 DEF SameRows
    <3>5. CASE outbox' = [outbox EXCEPT ![e].status = "failed", ![e].due = FALSE]
      BY <1>1, <3>2, <3>5 DEF SameRows
    <3>6. ASSUME NEW s \in {"dead", "failed"}, NEW d,
                 outbox' = [outbox EXCEPT ![e].status = s, ![e].due = d]
          PROVE  SameRows
      BY <1>1, <3>2, <3>6 DEF SameRows
    <3>7. ASSUME NEW n, outbox' = [outbox EXCEPT ![e].status = "synced",
                                     ![e].retries = n, ![e].due = TRUE]
          PROVE  SameRows
      BY <1>1, <3>2, <3>7 DEF SameRows
    <3>8. CASE MarkProjecting(p)
      BY <3>3, <3>8 DEF MarkProjecting, e
    <3>9. CASE IncrementRetry(p)
      BY <3>4, <3>9 DEF IncrementRetry, e
    <3>10. CASE MarkFailed(p)
      BY <3>6, <3>10 DEF MarkFailed, e
    <3>11. CASE MarkFailedFallback(p)
      BY <3>5, <3>11 DEF MarkFailedFallback, e
    <3>12. CASE MarkSynced(p)
      BY <3>7, <3>12 DEF MarkSynced, e
    <3>13. CASE \/ Load(p) \/ DeleteRelationships(p) \/ WriteRelationships(p)
                \/ SpiceDBError(p) \/ ReadBackRetry(p)
      BY <2>1, <3>13 DEF Load, DeleteRelationships, WriteRelationships,
        SpiceDBError, ReadBackRetry
    <3> QED
      BY <1>3, <3>8, <3>9, <3>10, <3>11, <3>12, <3>13 DEF Step
  <2> QED
    BY <1>2, <2>1
<1>4. ASSUME NEW d \in Events, RetryTimeElapses(d)
      PROVE  SameRows
  BY <1>1, <1>4 DEF RetryTimeElapses, SameRows
<1> QED
  BY <1>2, <1>3, <1>4 DEF ManagerNext, RetryOnce, DBError, Abandon

-----------------------------------------------------------------------------
(* Creating a row, for the modules that do.                                 *)

\* The new row, and the rows there were.
LEMMA NewRow ==
  ASSUME TypeOK, NEW h, NEW pl, CreateAndDispatch(h, pl)
  PROVE  \E e \in Events :
           /\ IsNext(e) /\ outbox[e].status = "none"
           /\ outbox'[e].status = "pending" /\ outbox'[e].pl = pl
           /\ \A d \in Events \ {e} : outbox'[d] = outbox[d]
<1>1. PICK e \in Events : IsNext(e) /\ outbox' = [outbox EXCEPT ![e] = newEvent(pl)]
  BY DEF CreateAndDispatch
<1>2. outbox'[e] = newEvent(pl) /\ \A d \in Events \ {e} : outbox'[d] = outbox[d]
  BY <1>1 DEF TypeOK
<1> QED
  BY <1>1, <1>2 DEF IsNext, newEvent

\* There is one next row.
LEMMA NextUnique ==
  ASSUME NEW d \in Events, NEW e \in Events, IsNext(d), IsNext(e)
  PROVE  d = e
<1>1. d \in Int /\ e \in Int
  BY DEF Events
<1>2. ~(d < e) /\ ~(e < d)
  BY DEF IsNext
<1> QED
  BY <1>1, <1>2

-----------------------------------------------------------------------------
(* What a step of the manager may bring about, for the modules that use it. *)

\* A relationship appears only when a goroutine still had to write it.
LEMMA AddedByPuts ==
  ASSUME IInv, ManagerNext, NEW t, t \in graph', t \notin graph
  PROVE  \E p \in Procs : proc[p].pc = "work" /\ t \in proc[p].puts
<1>1. PICK p \in Procs : Step(p)
  BY DEF ManagerNext, RetryOnce, DBError, Abandon, RetryTimeElapses
<1> QED
  BY <1>1 DEF Step, Load, MarkProjecting, DeleteRelationships, WriteRelationships,
     SpiceDBError, MarkSynced, IncrementRetry, ReadBackRetry, MarkFailed,
     MarkFailedFallback

\* A row's status changes only while a goroutine has the row in hand.
LEMMA StatusChange ==
  ASSUME IInv, ManagerNext, NEW e \in Events, outbox'[e].status # outbox[e].status
  PROVE  \E p \in Procs :
           /\ proc[p].ev = e /\ e \in proc[p].batch
           /\ outbox'[e].status = "synced" =>
                /\ proc[p].pc = "work" /\ proc[p].todo = {} /\ graph' = graph
<1>1. outbox \in [Events -> [pl : Payload, status : Statuses,
                             retries : Nat, due : BOOLEAN]]
  BY DEF IInv, TypeOK
<1>2. PICK p \in Procs : Step(p)
  BY <1>1 DEF ManagerNext, RetryOnce, DBError, Abandon, RetryTimeElapses
<1>3. \/ MarkProjecting(p) \/ MarkSynced(p) \/ MarkFailed(p) \/ MarkFailedFallback(p)
  BY <1>1, <1>2 DEF Step, Load, DeleteRelationships, WriteRelationships, SpiceDBError,
     IncrementRetry, ReadBackRetry
<1>4. proc[p].pc # "idle"
  BY <1>3 DEF MarkProjecting, MarkSynced, CallsDone, MarkFailed, MarkFailedFallback
<1>5. proc[p].ev \in Events /\ proc[p].ev \in proc[p].batch
  BY <1>4, InHand DEF RefOK
<1>6. CASE MarkProjecting(p)
  <2>1. e = proc[p].ev /\ outbox'[e].status = "projecting"
    BY <1>1, <1>5, <1>6 DEF MarkProjecting
  <2> QED
    BY <1>5, <2>1
<1>7. CASE MarkSynced(p)
  <2>1. e = proc[p].ev
    BY <1>1, <1>5, <1>7 DEF MarkSynced
  <2> QED
    BY <1>5, <1>7, <2>1 DEF MarkSynced, CallsDone
<1>8. CASE MarkFailed(p)
  <2>1. e = proc[p].ev /\ outbox'[e].status # "synced"
    BY <1>1, <1>5, <1>8 DEF MarkFailed
  <2> QED
    BY <1>5, <2>1
<1>9. CASE MarkFailedFallback(p)
  <2>1. e = proc[p].ev /\ outbox'[e].status # "synced"
    BY <1>1, <1>5, <1>9 DEF MarkFailedFallback
  <2> QED
    BY <1>5, <2>1
<1> QED
  BY <1>3, <1>6, <1>7, <1>8, <1>9

\* A list of events only shrinks, or is made of events that are due.
LEMMA BeginShrinks ==
  ASSUME IInv, NEW p \in Procs, NEW r \in Procs, NEW batch \in SUBSET Events,
         Begin(p, batch)
  PROVE  /\ r # p => proc'[r] = proc[r]
         /\ r = p => proc'[r].batch \subseteq batch /\ proc'[r].pc \notin {"project", "work"}
<1>1. PICK q \in ProcState : /\ proc' = [proc EXCEPT ![p] = q]
                             /\ q.pc \notin {"project", "work"}
                             /\ q.batch \subseteq batch
  BY BeginEffect
<1> QED
  BY <1>1 DEF IInv, TypeOK

LEMMA FailWithShrinks ==
  ASSUME IInv, NEW p \in Procs, NEW r \in Procs, NEW k, FailWith(p, k)
  PROVE  /\ r # p => proc'[r] = proc[r]
         /\ r = p => /\ proc'[r].batch \subseteq proc[r].batch
                     /\ proc'[r].pc \notin {"project", "work"}
<1>1. proc \in [Procs -> ProcState] /\ proc[p].batch \in SUBSET Events
  BY DEF IInv, TypeOK, ProcState
<1>2. CASE Return(p)
  <2>1. proc[p].batch \ {proc[p].ev} \in SUBSET Events
    BY <1>1
  <2>2. Begin(p, proc[p].batch \ {proc[p].ev})
    BY <1>2 DEF Return
  <2> QED
    BY <2>1, <2>2, BeginShrinks
<1>3. CASE proc' = [proc EXCEPT ![p] = [IdleProc EXCEPT !.pc = "inc", !.marks = k,
                                       !.ev = proc[p].ev, !.batch = proc[p].batch]]
  BY <1>1, <1>3 DEF IdleProc
<1> QED
  BY <1>2, <1>3 DEF FailWith

\* What a goroutine has listed after a step, and how it comes to be, or stays,
\* in the SpiceDB calls of an event.
LEMMA AfterStep ==
  ASSUME IInv, ManagerNext, NEW r \in Procs
  PROVE  /\ \A e \in proc'[r].batch : e \in proc[r].batch \/ outbox[e].status # "synced"
         /\ proc'[r].pc = "work" =>
              /\ proc'[r].ev = proc[r].ev
              /\ \/ proc[r].pc = "project" /\ proc'[r].todo = proc[r].todo
                 \/ /\ proc[r].pc = "work"
                    /\ \A f \in proc[r].todo : f \in proc'[r].todo \/ f \cap graph' = {}
<1> DEFINE Shown == /\ \A e \in proc'[r].batch :
                         e \in proc[r].batch \/ outbox[e].status # "synced"
                    /\ proc'[r].pc = "work" =>
                         /\ proc'[r].ev = proc[r].ev
                         /\ \/ proc[r].pc = "project" /\ proc'[r].todo = proc[r].todo
                            \/ /\ proc[r].pc = "work"
                               /\ \A f \in proc[r].todo :
                                    f \in proc'[r].todo \/ f \cap graph' = {}
<1>0. proc \in [Procs -> ProcState] /\ proc[r].batch \in SUBSET Events
  BY DEF IInv, TypeOK, ProcState
<1>1. CASE proc'[r] = proc[r]
  BY <1>1
<1>2. CASE proc'[r].batch \subseteq proc[r].batch /\ proc'[r].pc # "work"
  BY <1>2
<1>3. ASSUME NEW p \in Procs, NEW k, FailWith(p, k)
      PROVE  Shown
  BY <1>1, <1>2, <1>3, FailWithShrinks
<1>4. ASSUME NEW p \in Procs, Return(p)
      PROVE  Shown
  <2>1. proc[p].batch \ {proc[p].ev} \in SUBSET Events
    BY <1>0 DEF ProcState
  <2>2. Begin(p, proc[p].batch \ {proc[p].ev})
    BY <1>4 DEF Return
  <2> QED
    BY <1>1, <1>2, <2>1, <2>2, BeginShrinks
<1>5. ASSUME NEW w \in Workers, RetryOnce(w)
      PROVE  Shown
  <2>1. /\ ListOutboxEventsForRetry \in SUBSET Events
        /\ \A e \in ListOutboxEventsForRetry : outbox[e].status # "synced"
    BY DEF ListOutboxEventsForRetry, Retryable
  <2>2. Begin(w, ListOutboxEventsForRetry) /\ w \in Procs
    BY <1>5, ConstantsOK DEF RetryOnce
  <2> QED
    BY <1>1, <2>1, <2>2, BeginShrinks
<1>6. ASSUME NEW p \in Procs, NEW x \in {"read", "fallback"},
             proc' = [proc EXCEPT ![p].pc = x]
      PROVE  Shown
  BY <1>0, <1>6 DEF ProcState
<1>7. ASSUME NEW p \in Procs, Step(p)
      PROVE  Shown
  <2>1. CASE Load(p)
    <3>1. CASE Return(p)
      BY <1>4, <3>1
    <3>2. CASE proc' = [proc EXCEPT ![p].pc = "project", ![p].count = outbox[proc[p].ev].retries,
                                ![p].todo = FiltersOf(outbox[proc[p].ev].pl),
                                ![p].puts = WritesOf(outbox[proc[p].ev].pl)]
      BY <1>0, <3>2 DEF ProcState
    <3> QED
      BY <2>1, <3>1, <3>2 DEF Load
  <2>2. CASE MarkProjecting(p)
    BY <1>0, <2>2 DEF MarkProjecting, ProcState
  <2>3. CASE DeleteRelationships(p)
    <3>1. PICK f \in proc[p].todo : graph' = graph \ f /\ proc' = [proc EXCEPT ![p].todo = @ \ {f}]
      BY <2>3 DEF DeleteRelationships
    <3>2. proc[p].pc = "work"
      BY <2>3 DEF DeleteRelationships
    <3>3. CASE r = p
      <4>1. /\ proc'[r].batch = proc[r].batch /\ proc'[r].ev = proc[r].ev
            /\ proc'[r].todo = proc[r].todo \ {f}
        BY <1>0, <3>1, <3>3 DEF ProcState
      <4> QED
        BY <3>1, <3>2, <3>3, <4>1
    <3>4. CASE r # p
      BY <1>0, <1>1, <3>1, <3>4
    <3> QED
      BY <3>3, <3>4
  <2>4. CASE WriteRelationships(p)
    BY <1>0, <2>4 DEF WriteRelationships, ProcState
  <2>5. CASE SpiceDBError(p)
    BY <1>3, <2>5 DEF SpiceDBError
  <2>6. CASE MarkSynced(p)
    BY <1>4, <2>6 DEF MarkSynced
  <2>7. CASE IncrementRetry(p)
    BY <1>6, <2>7 DEF IncrementRetry
  <2>8. CASE ReadBackRetry(p)
    BY <1>0, <2>8 DEF ReadBackRetry, ProcState
  <2>9. CASE MarkFailed(p) \/ MarkFailedFallback(p)
    BY <1>3, <2>9 DEF MarkFailed, MarkFailedFallback, EndMark
  <2> QED
    BY <1>7, <2>1, <2>2, <2>3, <2>4, <2>5, <2>6, <2>7, <2>8, <2>9 DEF Step
<1>8. ASSUME NEW p \in Procs, DBError(p)
      PROVE  Shown
  BY <1>3, <1>6, <1>8 DEF DBError, EndMark
<1>9. ASSUME NEW p \in Procs, Abandon(p)
      PROVE  Shown
  BY <1>0, <1>9 DEF Abandon, IdleProc
<1>10. ASSUME NEW e \in Events, RetryTimeElapses(e)
       PROVE  Shown
  BY <1>1, <1>10 DEF RetryTimeElapses
<1> QED
  BY <1>5, <1>7, <1>8, <1>9, <1>10 DEF ManagerNext

\* An event that is over stays over.
LEMMA OverStable ==
  ASSUME IInv, ManagerNext, NEW e \in Events, Over(e)
  PROVE  Over(e)'
<1>1. \A p \in Procs : e \notin proc'[p].batch
  BY AfterStep DEF Over
<1>2. outbox'[e].status = "synced"
  BY StatusChange DEF Over
<1> QED
  BY <1>1, <1>2 DEF Over

\* A new row leaves the others and the goroutines that do not dispatch it as
\* they are.
LEMMA AfterCreate ==
  ASSUME IInv, NEW h \in Procs, NEW pl, CreateAndDispatch(h, pl)
  PROVE  \E n \in Events :
           /\ IsNext(n) /\ outbox[n].status = "none"
           /\ outbox'[n].status = "pending" /\ outbox'[n].pl = pl /\ graph' = graph
           /\ \A e \in Events \ {n} : outbox'[e] = outbox[e]
           /\ \A r \in Procs \ {h} : proc'[r] = proc[r]
           /\ proc'[h].batch = {n} /\ proc'[h].ev = n /\ proc'[h].pc \in {"submit", "load"}
           /\ \A e \in Events : Over(e) => e # n /\ Over(e)'
<1>1. PICK n \in Events : /\ IsNext(n) /\ outbox[n].status = "none"
                          /\ outbox' = [outbox EXCEPT ![n] = newEvent(pl)]
                          /\ Begin(h, {n})
  BY DEF CreateAndDispatch, IsNext
<1>2. /\ outbox'[n].status = "pending" /\ outbox'[n].pl = pl /\ graph' = graph
      /\ \A e \in Events \ {n} : outbox'[e] = outbox[e]
  BY <1>1 DEF CreateAndDispatch, newEvent, IInv, TypeOK
<1>3. proc' = [proc EXCEPT ![h] = [IdleProc EXCEPT
                  !.pc = IF DTMEnabled THEN "submit" ELSE "load", !.ev = n, !.batch = {n}]]
  BY <1>1 DEF Begin
<1>4. /\ \A r \in Procs \ {h} : proc'[r] = proc[r]
      /\ proc'[h].batch = {n} /\ proc'[h].ev = n /\ proc'[h].pc \in {"submit", "load"}
  BY <1>3 DEF IInv, TypeOK, IdleProc
<1>5. ASSUME NEW e \in Events, Over(e)
      PROVE  e # n /\ Over(e)'
  <2>1. e # n
    BY <1>1, <1>5 DEF Over
  <2>2. \A r \in Procs : e \notin proc'[r].batch
    BY <1>4, <1>5, <2>1 DEF Over
  <2> QED
    BY <1>2, <1>5, <2>1, <2>2 DEF Over
<1> QED
  BY <1>1, <1>2, <1>4, <1>5

\* A goroutine's own step lists nothing new, and leaves the others alone.
LEMMA OwnStep ==
  ASSUME IInv, NEW p \in Procs, Step(p) \/ DBError(p) \/ Abandon(p)
  PROVE  /\ \A r \in Procs \ {p} : proc'[r] = proc[r]
         /\ proc'[p].batch \subseteq proc[p].batch
<1>0. proc \in [Procs -> ProcState]
  BY DEF IInv, TypeOK
<1>1. CASE \E k : FailWith(p, k)
  BY <1>1, FailWithShrinks
<1>2. CASE Return(p)
  <2>1. FailWith(p, 0)
    BY <1>2 DEF FailWith
  <2> QED
    BY <1>1, <2>1
<1>3. CASE proc' = [proc EXCEPT ![p] = IdleProc]
  BY <1>0, <1>3 DEF IdleProc
<1>4. ASSUME NEW q, q.batch = proc[p].batch, proc' = [proc EXCEPT ![p] = q]
      PROVE  /\ \A r \in Procs \ {p} : proc'[r] = proc[r]
             /\ proc'[p].batch \subseteq proc[p].batch
  BY <1>0, <1>4
<1>5. CASE \/ Load(p) /\ ~Return(p)
           \/ MarkProjecting(p) \/ DeleteRelationships(p) \/ WriteRelationships(p)
           \/ IncrementRetry(p) \/ ReadBackRetry(p)
           \/ proc' = [proc EXCEPT ![p].pc = "fallback"]
  BY <1>0, <1>5 DEF Load, MarkProjecting, DeleteRelationships, WriteRelationships,
     IncrementRetry, ReadBackRetry, ProcState
<1> QED
  BY <1>1, <1>2, <1>3, <1>5 DEF Step, SpiceDBError, MarkSynced, MarkFailed,
     MarkFailedFallback, EndMark, DBError, Abandon

-----------------------------------------------------------------------------
(* Rows left in "projecting", whatever the payloads and the mode.           *)

\* A goroutine that will write the status of the row it has in hand.
Holds(q) == \/ q.pc \in {"inc", "read", "mark", "fallback"}
            \/ q.pc = "work" /\ q.goal # "keep"

Stranded == {e \in Events : /\ outbox[e].status = "projecting"
                            /\ \A p \in Procs : Holds(proc[p]) => proc[p].ev # e}

\* ApplyEvent, and what it loads, ends in "synced".
GoalOK(p) == proc[p].pc \in {"load", "project"} => proc[p].goal = "synced"

HInv == TypeOK /\ \A p \in Procs : RefOK(p) /\ GoalOK(p)

\* The state a goroutine goes on in.
GoesOn(p, q) ==
  /\ q \in ProcState /\ proc' = [proc EXCEPT ![p] = q]
  /\ \A e \in q.batch : outbox[e].status # "none"
  /\ q.pc # "idle" => q.ev \in q.batch
  /\ q.pc \in {"load", "project"} => q.goal = "synced"

Row == [pl : Payload, status : Statuses, retries : Nat, due : BOOLEAN]

LEMMA GoesOnOK ==
  ASSUME HInv, NEW p \in Procs, NEW q, GoesOn(p, q),
         graph' \in SUBSET Tuples, faults' \in Nat,
         \/ outbox' = outbox
         \/ \E row \in Row, e \in Events :
              row.status # "none" /\ outbox' = [outbox EXCEPT ![e] = row]
  PROVE  HInv'
<1>1. /\ outbox \in [Events -> Row] /\ outbox' \in [Events -> Row]
      /\ \A e \in Events : outbox[e].status # "none" => outbox'[e].status # "none"
  BY DEF HInv, TypeOK, Row
<1>2. proc \in [Procs -> ProcState] /\ proc' \in [Procs -> ProcState]
  BY DEF HInv, TypeOK, GoesOn
<1>3. TypeOK'
  BY <1>1, <1>2 DEF TypeOK, Row
<1>4. ASSUME NEW r \in Procs
      PROVE  RefOK(r)' /\ GoalOK(r)'
  <2>1. CASE r = p
    <3>1. proc'[r] = q /\ q.batch \subseteq Events
      BY <1>2, <2>1 DEF GoesOn, ProcState
    <3> QED
      BY <1>1, <3>1 DEF GoesOn, RefOK, GoalOK
  <2>2. CASE r # p
    <3>1. proc'[r] = proc[r] /\ proc[r].batch \subseteq Events
      BY <1>2, <2>2 DEF GoesOn, ProcState
    <3> QED
      BY <1>1, <3>1 DEF HInv, RefOK, GoalOK
  <2> QED
    BY <2>1, <2>2
<1> QED
  BY <1>3, <1>4 DEF HInv

\* At most the row in hand is stranded, and not if it is still held, if it
\* does not read "projecting", or if it was not held before.
LEMMA GoesOnStrands ==
  ASSUME HInv, NEW p \in Procs, NEW q, GoesOn(p, q),
         \A e \in Events \ {proc[p].ev} : outbox'[e].status = outbox[e].status
  PROVE  /\ Stranded' \subseteq Stranded \cup {proc[p].ev}
         /\ \/ Holds(q) /\ q.ev = proc[p].ev
            \/ outbox'[proc[p].ev].status # "projecting"
            \/ ~Holds(proc[p]) /\ outbox'[proc[p].ev].status = outbox[proc[p].ev].status
            => Stranded' \subseteq Stranded
<1>1. /\ proc'[p] = q
      /\ \A r \in Procs \ {p} : proc'[r] = proc[r]
  BY DEF HInv, TypeOK, GoesOn
<1>2. \A e \in Stranded' : /\ e \in Events /\ outbox'[e].status = "projecting"
                           /\ \A r \in Procs : Holds(proc'[r]) => proc'[r].ev # e
  BY DEF Stranded, Holds
<1>3. ASSUME NEW e \in Stranded', e # proc[p].ev
      PROVE  e \in Stranded
  <2>1. \A r \in Procs : Holds(proc[r]) => proc[r].ev # e
    BY <1>1, <1>2, <1>3
  <2> QED
    BY <1>2, <1>3, <2>1 DEF Stranded
<1>4. ASSUME (Holds(q) /\ q.ev = proc[p].ev) \/ outbox'[proc[p].ev].status # "projecting"
      PROVE  proc[p].ev \notin Stranded'
  BY <1>1, <1>2, <1>4
<1>5. ASSUME ~Holds(proc[p]), outbox'[proc[p].ev].status = outbox[proc[p].ev].status,
             proc[p].ev \in Stranded'
      PROVE  proc[p].ev \in Stranded
  <2>1. \A r \in Procs : Holds(proc[r]) => proc[r].ev # proc[p].ev
    BY <1>1, <1>2, <1>5
  <2> QED
    BY <1>2, <1>5, <2>1 DEF Stranded
<1> QED
  BY <1>3, <1>4, <1>5

\* Between events nothing is held.
LEMMA BeginGoesOn ==
  ASSUME HInv, NEW p \in Procs, NEW batch \in SUBSET Events,
         \A e \in batch : outbox[e].status # "none", Begin(p, batch)
  PROVE  \E q : GoesOn(p, q) /\ ~Holds(q)
<1>1. CASE proc' = [proc EXCEPT ![p] = IdleProc]
  <2>1. IdleProc.pc = "idle" /\ IdleProc.batch = {}
    BY DEF IdleProc
  <2>2. GoesOn(p, IdleProc) /\ ~Holds(IdleProc)
    BY <1>1, <2>1, IdleType DEF GoesOn, Holds
  <2> QED
    BY <2>2
<1>2. ASSUME NEW e \in batch,
             proc' = [proc EXCEPT ![p] = [IdleProc EXCEPT
                        !.pc = IF DTMEnabled THEN "submit" ELSE "load",
                        !.ev = e, !.batch = batch]]
      PROVE  \E q : GoesOn(p, q) /\ ~Holds(q)
  <2> DEFINE q == [IdleProc EXCEPT !.pc = IF DTMEnabled THEN "submit" ELSE "load",
                                   !.ev = e, !.batch = batch]
  <2>1. q \in ProcState /\ q.batch = batch /\ q.ev = e /\ q.pc \in {"submit", "load"}
        /\ q.goal = "synced"
    BY DEF IdleProc, ProcState, PCs
  <2> HIDE DEF q
  <2>2. GoesOn(p, q) /\ ~Holds(q)
    BY <1>2, <2>1 DEF GoesOn, Holds, q
  <2> QED
    BY <2>2
<1> QED
  BY <1>1, <1>2 DEF Begin

LEMMA ReturnGoesOn ==
  ASSUME HInv, NEW p \in Procs, Return(p)
  PROVE  \E q : GoesOn(p, q) /\ ~Holds(q)
<1>1. /\ proc[p].batch \ {proc[p].ev} \in SUBSET Events
      /\ \A e \in proc[p].batch \ {proc[p].ev} : outbox[e].status # "none"
  BY DEF HInv, TypeOK, ProcState, RefOK
<1>2. Begin(p, proc[p].batch \ {proc[p].ev})
  BY DEF Return
<1> QED
  BY <1>1, <1>2, BeginGoesOn

\* Owing a call of markFailed, a goroutine holds its row.
LEMMA FailWithGoesOn ==
  ASSUME HInv, NEW p \in Procs, proc[p].pc # "idle", NEW k \in Int, FailWith(p, k)
  PROVE  \E q : GoesOn(p, q) /\ (k > 0 => Holds(q) /\ q.ev = proc[p].ev)
                             /\ (k = 0 => ~Holds(q))
<1>1. CASE k = 0 /\ Return(p)
  BY <1>1, ReturnGoesOn
<1>2. CASE k > 0
  <2> DEFINE q == [IdleProc EXCEPT !.pc = "inc", !.marks = k,
                                   !.ev = proc[p].ev, !.batch = proc[p].batch]
  <2>1. proc[p].ev \in Events \cup {0} /\ proc[p].batch \in SUBSET Events /\ k \in Nat
    BY <1>2 DEF HInv, TypeOK, ProcState
  <2>2. q \in ProcState /\ q.batch = proc[p].batch /\ q.ev = proc[p].ev /\ q.pc = "inc"
    BY <1>2, <2>1 DEF IdleProc, ProcState, PCs
  <2>3. proc' = [proc EXCEPT ![p] = q]
    BY <1>2 DEF FailWith
  <2>4. RefOK(p)
    BY DEF HInv
  <2> HIDE DEF q
  <2>5. GoesOn(p, q) /\ Holds(q)
    BY <2>2, <2>3, <2>4 DEF GoesOn, Holds, RefOK
  <2> QED
    BY <1>2, <2>2, <2>5
<1> QED
  BY <1>1, <1>2 DEF FailWith

\* What a step that costs no fault, and one that costs a fault, may do.
RowsStay == \A e \in Events : outbox[e].status # "none" => outbox'[e].status # "none"

StrandsNone == HInv' /\ RowsStay /\ Stranded' \subseteq Stranded /\ faults' = faults

StrandsOne == /\ HInv' /\ RowsStay /\ faults > 0 /\ faults' = faults - 1
              /\ \E e \in Events \cup {0} : Stranded' \subseteq Stranded \cup {e}

LEMMA CreateStrandsNone ==
  ASSUME HInv, NEW h \in Handlers, NEW pl \in Payloads, CreateAndDispatch(h, pl)
  PROVE  StrandsNone
<1>1. PICK e \in Events : /\ outbox[e].status = "none"
                          /\ outbox' = [outbox EXCEPT ![e] = newEvent(pl)]
                          /\ Begin(h, {e})
  BY DEF CreateAndDispatch, IsNext
<1>2. h \in Procs /\ pl \in Payload /\ graph' = graph /\ faults' = faults
      /\ proc[h].pc = "idle"
  BY ConstantsOK DEF CreateAndDispatch
<1>3. PICK q \in ProcState : /\ proc' = [proc EXCEPT ![h] = q]
                             /\ q.batch \subseteq {e}
                             /\ q.pc # "idle" => q.ev \in q.batch
                             /\ q.pc \in {"load", "project"} => q.goal = "synced"
  <2>1. CASE proc' = [proc EXCEPT ![h] = IdleProc]
    BY <2>1, IdleType DEF IdleProc
  <2>2. CASE proc' = [proc EXCEPT ![h] = [IdleProc EXCEPT
                        !.pc = IF DTMEnabled THEN "submit" ELSE "load",
                        !.ev = e, !.batch = {e}]]
    <3> DEFINE q == [IdleProc EXCEPT !.pc = IF DTMEnabled THEN "submit" ELSE "load",
                                     !.ev = e, !.batch = {e}]
    <3>1. q \in ProcState /\ q.batch = {e} /\ q.ev = e /\ q.goal = "synced"
      BY DEF IdleProc, ProcState, PCs
    <3>2. proc' = [proc EXCEPT ![h] = q]
      BY <2>2
    <3> HIDE DEF q
    <3> QED
      BY <3>1, <3>2
  <2> QED
    BY <1>1, <2>1, <2>2 DEF Begin
<1>4. newEvent(pl) \in Row /\ newEvent(pl).status = "pending"
  BY <1>2 DEF newEvent, Row, Statuses
<1>5. /\ outbox \in [Events -> Row] /\ outbox' \in [Events -> Row]
      /\ outbox'[e].status = "pending"
      /\ \A d \in Events \ {e} : outbox'[d] = outbox[d]
  BY <1>1, <1>4 DEF HInv, TypeOK, Row
<1>6. proc \in [Procs -> ProcState] /\ proc' \in [Procs -> ProcState]
      /\ proc'[h] = q /\ \A r \in Procs \ {h} : proc'[r] = proc[r]
  BY <1>2, <1>3 DEF HInv, TypeOK
<1>7. TypeOK'
  BY <1>2, <1>5, <1>6 DEF HInv, TypeOK, Row
<1>8. ASSUME NEW r \in Procs
      PROVE  RefOK(r)' /\ GoalOK(r)'
  <2>1. CASE r = h
    BY <1>3, <1>5, <1>6, <2>1 DEF RefOK, GoalOK
  <2>2. CASE r # h
    <3>1. proc'[r] = proc[r] /\ proc[r].batch \subseteq Events
      BY <1>6, <2>2 DEF ProcState
    <3>2. \A d \in Events : outbox[d].status # "none" => outbox'[d].status # "none"
      BY <1>5
    <3> QED
      BY <3>1, <3>2 DEF HInv, RefOK, GoalOK
  <2> QED
    BY <2>1, <2>2
<1>9. ~Holds(proc[h])
  BY <1>2 DEF Holds
<1>10. ASSUME NEW d \in Stranded'
       PROVE  d \in Stranded
  <2>1. /\ d \in Events /\ outbox'[d].status = "projecting"
        /\ \A r \in Procs : Holds(proc'[r]) => proc'[r].ev # d
    BY DEF Stranded, Holds
  <2>2. outbox[d].status = "projecting"
    BY <1>5, <2>1
  <2>3. \A r \in Procs : Holds(proc[r]) => proc[r].ev # d
    BY <1>6, <1>9, <2>1
  <2> QED
    BY <2>1, <2>2, <2>3 DEF Stranded
<1>11. RowsStay
  BY <1>5 DEF RowsStay
<1> QED
  BY <1>2, <1>7, <1>8, <1>10, <1>11 DEF StrandsNone, HInv

\* A goroutine's step that changes no row.
LEMMA StillStrandsNone ==
  ASSUME HInv, NEW p \in Procs, NEW q, GoesOn(p, q),
         \/ Holds(q) /\ q.ev = proc[p].ev
         \/ ~Holds(proc[p]),
         outbox' = outbox, graph' \in SUBSET Tuples, faults' = faults
  PROVE  StrandsNone
<1>1. faults' \in Nat
  BY DEF HInv, TypeOK
<1>2. HInv'
  BY <1>1, GoesOnOK
<1>3. Stranded' \subseteq Stranded
  BY GoesOnStrands
<1> QED
  BY <1>2, <1>3 DEF StrandsNone, RowsStay

\* A goroutine's step that writes the row in hand.
LEMMA MarkStrandsNone ==
  ASSUME HInv, NEW p \in Procs, NEW q, GoesOn(p, q),
         NEW row \in Row, row.status # "none", proc[p].ev \in Events,
         \/ Holds(q) /\ q.ev = proc[p].ev
         \/ row.status # "projecting",
         outbox' = [outbox EXCEPT ![proc[p].ev] = row],
         graph' \in SUBSET Tuples, faults' = faults
  PROVE  StrandsNone
<1>1. faults' \in Nat /\ outbox'[proc[p].ev] = row
      /\ \A e \in Events \ {proc[p].ev} : outbox'[e].status = outbox[e].status
  BY DEF HInv, TypeOK
<1>2. HInv'
  BY <1>1, GoesOnOK
<1>3. Stranded' \subseteq Stranded
  BY <1>1, GoesOnStrands
<1>4. RowsStay
  BY <1>1 DEF RowsStay
<1> QED
  BY <1>2, <1>3, <1>4 DEF StrandsNone

LEMMA RetryOnceStrandsNone ==
  ASSUME HInv, NEW w \in Workers, RetryOnce(w)
  PROVE  StrandsNone
<1>1. /\ w \in Procs /\ ~Holds(proc[w])
      /\ outbox' = outbox /\ faults' = faults /\ graph' \in SUBSET Tuples
  BY ConstantsOK DEF RetryOnce, Holds, HInv, TypeOK
<1>2. /\ ListOutboxEventsForRetry \in SUBSET Events
      /\ \A e \in ListOutboxEventsForRetry : outbox[e].status # "none"
  BY DEF ListOutboxEventsForRetry, Retryable
<1>3. Begin(w, ListOutboxEventsForRetry)
  BY DEF RetryOnce
<1>4. PICK q : GoesOn(w, q)
  BY <1>1, <1>2, <1>3, BeginGoesOn
<1> QED
  BY <1>1, <1>4, StillStrandsNone

LEMMA RetryTimeStrandsNone ==
  ASSUME HInv, NEW e \in Events, RetryTimeElapses(e)
  PROVE  StrandsNone
<1>1. /\ outbox' = [outbox EXCEPT ![e].due = TRUE]
      /\ graph' = graph /\ proc' = proc /\ faults' = faults
  BY DEF RetryTimeElapses
<1>2. /\ outbox' \in [Events -> Row]
      /\ \A d \in Events : outbox'[d].status = outbox[d].status
  BY <1>1 DEF HInv, TypeOK, Row
<1>3. TypeOK'
  BY <1>1, <1>2 DEF HInv, TypeOK, Row
<1>4. ASSUME NEW r \in Procs
      PROVE  RefOK(r)' /\ GoalOK(r)'
  <2>1. proc[r].batch \subseteq Events
    BY DEF HInv, TypeOK, ProcState
  <2> QED
    BY <1>1, <1>2, <2>1 DEF HInv, RefOK, GoalOK
<1>5. Stranded' = Stranded
  BY <1>1, <1>2 DEF Stranded, Holds
<1>6. RowsStay
  BY <1>2 DEF RowsStay
<1> QED
  BY <1>1, <1>3, <1>4, <1>5, <1>6 DEF StrandsNone, HInv

\* What a goroutine has in hand while it runs.
LEMMA HandHeld ==
  ASSUME HInv, NEW p \in Procs, proc[p].pc # "idle"
  PROVE  /\ proc[p] \in ProcState
         /\ proc[p].ev \in Events /\ proc[p].ev \in proc[p].batch
         /\ \A e \in proc[p].batch : outbox[e].status # "none"
         /\ outbox[proc[p].ev] \in Row /\ outbox[proc[p].ev].status # "none"
  BY DEF HInv, RefOK, TypeOK, ProcState, Row

LEMMA LoadStrandsNone ==
  ASSUME HInv, NEW p \in Procs, Load(p)
  PROVE  StrandsNone
<1> DEFINE row == outbox[proc[p].ev]
<1>1. proc[p].pc = "load" /\ outbox' = outbox /\ graph' = graph /\ faults' = faults
  BY DEF Load
<1>2. ~Holds(proc[p]) /\ graph' \in SUBSET Tuples
  BY <1>1 DEF Holds, HInv, TypeOK
<1>3. CASE Return(p)
  <2>1. PICK q : GoesOn(p, q)
    BY <1>3, ReturnGoesOn
  <2> QED
    BY <1>1, <1>2, <2>1, StillStrandsNone
<1>4. CASE proc' = [proc EXCEPT ![p].pc = "project", ![p].count = row.retries,
                                ![p].todo = FiltersOf(row.pl),
                                ![p].puts = WritesOf(row.pl)]
  <2> DEFINE q == [proc[p] EXCEPT !.pc = "project", !.count = row.retries,
                                  !.todo = FiltersOf(row.pl),
                                  !.puts = WritesOf(row.pl)]
  <2>1. /\ proc[p] \in ProcState /\ row \in Row /\ proc[p].ev \in proc[p].batch
        /\ \A e \in proc[p].batch : outbox[e].status # "none"
    BY <1>1, HandHeld
  <2>2. FiltersOf(row.pl) \in SUBSET (SUBSET Tuples) /\ WritesOf(row.pl) \in SUBSET Tuples
    BY <2>1, AskedType DEF Row
  <2>3. proc[p].goal = "synced"
    BY <1>1 DEF HInv, GoalOK
  <2>4. row.retries \in Nat
    BY <2>1 DEF Row
  <2>5. q \in ProcState /\ q.ev = proc[p].ev /\ q.batch = proc[p].batch
        /\ q.goal = "synced" /\ q.pc = "project"
    <3> HIDE DEF row
    <3> QED
      BY <2>1, <2>2, <2>3, <2>4 DEF ProcState, PCs
  <2>6. proc' = [proc EXCEPT ![p] = q]
    BY <1>4
  <2> HIDE DEF q
  <2>7. GoesOn(p, q)
    BY <2>1, <2>5, <2>6 DEF GoesOn
  <2> QED
    BY <1>1, <1>2, <2>7, StillStrandsNone
<1> QED
  BY <1>3, <1>4 DEF Load

LEMMA MarkProjectingStrandsNone ==
  ASSUME HInv, NEW p \in Procs, MarkProjecting(p)
  PROVE  StrandsNone
<1> DEFINE q   == [proc[p] EXCEPT !.pc = "work"]
           row == [outbox[proc[p].ev] EXCEPT !.status = "projecting"]
<1>1. /\ proc[p].pc = "project" /\ faults' = faults /\ graph' = graph
      /\ outbox' = [outbox EXCEPT ![proc[p].ev] = row]
      /\ proc' = [proc EXCEPT ![p] = q]
  BY DEF MarkProjecting
<1>2. /\ proc[p] \in ProcState /\ outbox[proc[p].ev] \in Row
      /\ proc[p].ev \in Events /\ proc[p].ev \in proc[p].batch
      /\ \A e \in proc[p].batch : outbox[e].status # "none"
  BY <1>1, HandHeld
<1>3. proc[p].goal = "synced"
  BY <1>1 DEF HInv, GoalOK
<1>4. q \in ProcState /\ q.ev = proc[p].ev /\ q.batch = proc[p].batch
      /\ q.pc = "work" /\ q.goal = "synced"
  BY <1>2, <1>3 DEF ProcState, PCs
<1>5. row \in Row /\ row.status # "none"
  BY <1>2 DEF Row, Statuses
<1>6. graph' \in SUBSET Tuples
  BY <1>1 DEF HInv, TypeOK
<1> HIDE DEF q, row
<1>7. GoesOn(p, q) /\ Holds(q)
  BY <1>1, <1>2, <1>4 DEF GoesOn, Holds
<1> QED
  BY <1>1, <1>2, <1>4, <1>5, <1>6, <1>7, MarkStrandsNone

LEMMA CallStrandsNone ==
  ASSUME HInv, NEW p \in Procs, DeleteRelationships(p) \/ WriteRelationships(p)
  PROVE  StrandsNone
<1>1. proc[p].pc = "work" /\ outbox' = outbox /\ faults' = faults
  BY DEF DeleteRelationships, WriteRelationships
<1>2. /\ proc[p] \in ProcState /\ proc[p].ev \in proc[p].batch
      /\ \A e \in proc[p].batch : outbox[e].status # "none"
  BY <1>1, HandHeld
<1>3. graph' \in SUBSET Tuples
  BY <1>2 DEF DeleteRelationships, WriteRelationships, HInv, TypeOK, ProcState
<1>4. PICK todo \in SUBSET (SUBSET Tuples), puts \in SUBSET Tuples :
        proc' = [proc EXCEPT ![p] = [proc[p] EXCEPT !.todo = todo, !.puts = puts]]
  <2>1. CASE DeleteRelationships(p)
    <3>1. PICK f \in proc[p].todo : proc' = [proc EXCEPT ![p].todo = @ \ {f}]
      BY <2>1 DEF DeleteRelationships
    <3>2. [proc[p] EXCEPT !.todo = @ \ {f}]
            = [proc[p] EXCEPT !.todo = proc[p].todo \ {f}, !.puts = proc[p].puts]
      BY <1>2 DEF ProcState
    <3>3. proc' = [proc EXCEPT ![p] =
                     [proc[p] EXCEPT !.todo = proc[p].todo \ {f}, !.puts = proc[p].puts]]
      BY <3>1, <3>2
    <3>4. proc[p].todo \ {f} \in SUBSET (SUBSET Tuples) /\ proc[p].puts \in SUBSET Tuples
      BY <1>2 DEF ProcState
    <3> QED
      BY <3>3, <3>4
  <2>2. CASE WriteRelationships(p)
    <3>1. [proc[p] EXCEPT !.puts = {}]
            = [proc[p] EXCEPT !.todo = proc[p].todo, !.puts = {}]
      BY <1>2 DEF ProcState
    <3>2. proc' = [proc EXCEPT ![p] =
                     [proc[p] EXCEPT !.todo = proc[p].todo, !.puts = {}]]
      BY <2>2, <3>1 DEF WriteRelationships
    <3>3. proc[p].todo \in SUBSET (SUBSET Tuples)
      BY <1>2 DEF ProcState
    <3> QED
      BY <3>2, <3>3
  <2> QED
    BY <2>1, <2>2
<1> DEFINE q == [proc[p] EXCEPT !.todo = todo, !.puts = puts]
<1>5. q \in ProcState /\ q.ev = proc[p].ev /\ q.batch = proc[p].batch
      /\ q.pc = "work" /\ q.goal = proc[p].goal
  BY <1>1, <1>2 DEF ProcState
<1>6. proc' = [proc EXCEPT ![p] = q]
  BY <1>4
<1> HIDE DEF q
<1>7. GoesOn(p, q) /\ (Holds(q) <=> Holds(proc[p]))
  BY <1>1, <1>2, <1>5, <1>6 DEF GoesOn, Holds
<1> QED
  BY <1>1, <1>3, <1>5, <1>7, StillStrandsNone

LEMMA SpiceDBErrorStrandsNone ==
  ASSUME HInv, NEW p \in Procs, SpiceDBError(p)
  PROVE  StrandsNone
<1>1. proc[p].pc = "work" /\ outbox' = outbox /\ faults' = faults
  BY DEF SpiceDBError
<1>2. graph' \in SUBSET Tuples
  <2>1. proc[p] \in ProcState /\ graph \in SUBSET Tuples
    BY <1>1, HandHeld DEF HInv, TypeOK
  <2> QED
    BY <2>1 DEF SpiceDBError, ProcState
<1>3. WorkerMarks(p) \in {0, 1} /\ FailWith(p, 1 + WorkerMarks(p))
  BY DEF SpiceDBError, WorkerMarks
<1>4. 1 + WorkerMarks(p) \in Int /\ 1 + WorkerMarks(p) > 0
  BY <1>3
<1>5. PICK q : GoesOn(p, q) /\ Holds(q) /\ q.ev = proc[p].ev
  BY <1>1, <1>3, <1>4, FailWithGoesOn
<1> QED
  BY <1>1, <1>2, <1>5, StillStrandsNone

LEMMA MarkSyncedStrandsNone ==
  ASSUME HInv, NEW p \in Procs, MarkSynced(p)
  PROVE  StrandsNone
<1> DEFINE row == [outbox[proc[p].ev] EXCEPT !.status = "synced",
                                   !.retries = proc[p].count, !.due = TRUE]
<1>1. /\ proc[p].pc = "work" /\ faults' = faults /\ graph' = graph
      /\ outbox' = [outbox EXCEPT ![proc[p].ev] = row] /\ Return(p)
  BY DEF MarkSynced, CallsDone
<1>2. /\ proc[p] \in ProcState /\ outbox[proc[p].ev] \in Row
      /\ proc[p].ev \in Events
  BY <1>1, HandHeld
<1>3. row \in Row /\ row.status = "synced"
  BY <1>2 DEF Row, Statuses, ProcState
<1>4. graph' \in SUBSET Tuples
  BY <1>1 DEF HInv, TypeOK
<1>5. PICK q : GoesOn(p, q)
  BY <1>1, ReturnGoesOn
<1> HIDE DEF row
<1> QED
  BY <1>1, <1>2, <1>3, <1>4, <1>5, MarkStrandsNone

LEMMA IncrementRetryStrandsNone ==
  ASSUME HInv, NEW p \in Procs, IncrementRetry(p)
  PROVE  StrandsNone
<1> DEFINE row == [outbox[proc[p].ev] EXCEPT !.retries = @ + 1]
           q   == [proc[p] EXCEPT !.pc = "read"]
<1>1. /\ proc[p].pc = "inc" /\ faults' = faults /\ graph' = graph
      /\ outbox' = [outbox EXCEPT ![proc[p].ev] = row]
      /\ proc' = [proc EXCEPT ![p] = q]
  BY DEF IncrementRetry
<1>2. /\ proc[p] \in ProcState /\ outbox[proc[p].ev] \in Row
      /\ outbox[proc[p].ev].status # "none"
      /\ proc[p].ev \in Events /\ proc[p].ev \in proc[p].batch
      /\ \A e \in proc[p].batch : outbox[e].status # "none"
  BY <1>1, HandHeld
<1>3. row \in Row /\ row.status # "none"
  BY <1>2 DEF Row
<1>4. q \in ProcState /\ q.ev = proc[p].ev /\ q.batch = proc[p].batch /\ q.pc = "read"
  BY <1>2 DEF ProcState, PCs
<1>5. graph' \in SUBSET Tuples
  BY <1>1 DEF HInv, TypeOK
<1> HIDE DEF q, row
<1>6. GoesOn(p, q) /\ Holds(q)
  BY <1>1, <1>2, <1>4 DEF GoesOn, Holds
<1> QED
  BY <1>1, <1>2, <1>3, <1>4, <1>5, <1>6, MarkStrandsNone

LEMMA ReadBackStrandsNone ==
  ASSUME HInv, NEW p \in Procs, ReadBackRetry(p)
  PROVE  StrandsNone
<1> DEFINE q == [proc[p] EXCEPT !.pc = "mark", !.count = outbox[proc[p].ev].retries]
<1>1. /\ proc[p].pc = "read" /\ faults' = faults /\ graph' = graph
      /\ outbox' = outbox /\ proc' = [proc EXCEPT ![p] = q]
  BY DEF ReadBackRetry
<1>2. /\ proc[p] \in ProcState /\ outbox[proc[p].ev] \in Row
      /\ proc[p].ev \in proc[p].batch
      /\ \A e \in proc[p].batch : outbox[e].status # "none"
  BY <1>1, HandHeld
<1>3. outbox[proc[p].ev].retries \in Nat
  BY <1>2 DEF Row
<1>4. q \in ProcState /\ q.ev = proc[p].ev /\ q.batch = proc[p].batch /\ q.pc = "mark"
  BY <1>2, <1>3 DEF ProcState, PCs
<1>5. graph' \in SUBSET Tuples
  BY <1>1 DEF HInv, TypeOK
<1> HIDE DEF q
<1>6. GoesOn(p, q) /\ Holds(q)
  BY <1>1, <1>2, <1>4 DEF GoesOn, Holds
<1> QED
  BY <1>1, <1>4, <1>5, <1>6, StillStrandsNone

LEMMA EndMarkGoesOn ==
  ASSUME HInv, NEW p \in Procs, proc[p].pc # "idle", EndMark(p)
  PROVE  \E q : GoesOn(p, q)
<1>1. proc[p].marks - 1 \in Int
  BY DEF HInv, TypeOK, ProcState
<1> QED
  BY <1>1, FailWithGoesOn DEF EndMark

LEMMA MarkFailedStrandsNone ==
  ASSUME HInv, NEW p \in Procs, MarkFailed(p) \/ MarkFailedFallback(p)
  PROVE  StrandsNone
<1>1. /\ proc[p].pc \in {"mark", "fallback"} /\ faults' = faults /\ graph' = graph
      /\ EndMark(p)
  BY DEF MarkFailed, MarkFailedFallback
<1>2. proc[p].ev \in Events /\ outbox[proc[p].ev] \in Row
  BY <1>1, HandHeld
<1>3. PICK status \in {"dead", "failed"}, due \in BOOLEAN :
        outbox' = [outbox EXCEPT ![proc[p].ev].status = status,
                                 ![proc[p].ev].due = due]
  <2>1. CASE MarkFailed(p)
    <3> DEFINE exhausted == proc[p].count >= MaxRetries
    <3>1. outbox' = [outbox EXCEPT
                       ![proc[p].ev].status = IF exhausted THEN "dead" ELSE "failed",
                       ![proc[p].ev].due = exhausted]
      BY <2>1 DEF MarkFailed
    <3>2. exhausted \in BOOLEAN
      OBVIOUS
    <3>3. (IF exhausted THEN "dead" ELSE "failed") \in {"dead", "failed"}
      OBVIOUS
    <3> HIDE DEF exhausted
    <3> QED
      BY <3>1, <3>2, <3>3
  <2>2. CASE MarkFailedFallback(p)
    BY <2>2 DEF MarkFailedFallback
  <2> QED
    BY <2>1, <2>2
<1> DEFINE row == [outbox[proc[p].ev] EXCEPT !.status = status, !.due = due]
<1>4. row \in Row /\ row.status \notin {"none", "projecting"}
  BY <1>2, <1>3 DEF Row, Statuses
<1>5. outbox' = [outbox EXCEPT ![proc[p].ev] = row]
  BY <1>3
<1>6. graph' \in SUBSET Tuples
  BY <1>1 DEF HInv, TypeOK
<1>7. PICK q : GoesOn(p, q)
  BY <1>1, EndMarkGoesOn
<1> HIDE DEF row
<1> QED
  BY <1>1, <1>2, <1>4, <1>5, <1>6, <1>7, MarkStrandsNone

LEMMA StepStrandsNone ==
  ASSUME HInv, NEW p \in Procs, Step(p)
  PROVE  StrandsNone
  BY LoadStrandsNone, MarkProjectingStrandsNone, CallStrandsNone,
     SpiceDBErrorStrandsNone, MarkSyncedStrandsNone, IncrementRetryStrandsNone,
     ReadBackStrandsNone, MarkFailedStrandsNone DEF Step

\* A goroutine goes on after a fault and has lost one row at most.
LEMMA FaultGoesOn ==
  ASSUME HInv, NEW p \in Procs, proc[p].pc # "idle", NEW q, GoesOn(p, q),
         outbox' = outbox, graph' = graph, faults > 0, faults' = faults - 1
  PROVE  StrandsOne
<1>1. faults' \in Nat /\ graph' \in SUBSET Tuples
  BY DEF HInv, TypeOK
<1>2. HInv'
  BY <1>1, GoesOnOK
<1>3. Stranded' \subseteq Stranded \cup {proc[p].ev}
  BY GoesOnStrands
<1>4. proc[p].ev \in Events \cup {0}
  BY HandHeld
<1> QED
  BY <1>2, <1>3, <1>4 DEF StrandsOne, RowsStay

LEMMA DBErrorStrandsOne ==
  ASSUME HInv, NEW p \in Procs, DBError(p)
  PROVE  StrandsOne
<1>1. /\ proc[p].pc # "idle" /\ outbox' = outbox /\ graph' = graph
      /\ faults > 0 /\ faults' = faults - 1
  BY DEF DBError, CallsDone
<1>2. CASE FailWith(p, WorkerMarks(p))
  <2>1. WorkerMarks(p) \in Int
    BY DEF WorkerMarks
  <2>2. PICK q : GoesOn(p, q)
    BY <1>1, <1>2, <2>1, FailWithGoesOn
  <2> QED
    BY <1>1, <2>2, FaultGoesOn
<1>3. CASE proc' = [proc EXCEPT ![p].pc = "fallback"]
  <2> DEFINE q == [proc[p] EXCEPT !.pc = "fallback"]
  <2>1. /\ proc[p] \in ProcState /\ proc[p].ev \in proc[p].batch
        /\ \A e \in proc[p].batch : outbox[e].status # "none"
    BY <1>1, HandHeld
  <2>2. q \in ProcState /\ q.ev = proc[p].ev /\ q.batch = proc[p].batch
        /\ q.pc = "fallback"
    BY <2>1 DEF ProcState, PCs
  <2>3. proc' = [proc EXCEPT ![p] = q]
    BY <1>3
  <2> HIDE DEF q
  <2>4. GoesOn(p, q)
    BY <2>1, <2>2, <2>3 DEF GoesOn
  <2> QED
    BY <1>1, <2>4, FaultGoesOn
<1>4. CASE EndMark(p)
  <2>1. PICK q : GoesOn(p, q)
    BY <1>1, <1>4, EndMarkGoesOn
  <2> QED
    BY <1>1, <2>1, FaultGoesOn
<1> QED
  BY <1>2, <1>3, <1>4 DEF DBError

LEMMA AbandonStrandsOne ==
  ASSUME HInv, NEW p \in Procs, Abandon(p)
  PROVE  StrandsOne
<1>1. /\ proc[p].pc # "idle" /\ outbox' = outbox /\ graph' = graph
      /\ faults > 0 /\ faults' = faults - 1
      /\ proc' = [proc EXCEPT ![p] = IdleProc]
  BY DEF Abandon
<1>2. IdleProc.batch = {} /\ IdleProc.pc = "idle"
  BY DEF IdleProc
<1>3. GoesOn(p, IdleProc)
  BY <1>1, <1>2, IdleType DEF GoesOn
<1> QED
  BY <1>1, <1>3, FaultGoesOn

\* Every fault strands one row at most.
Spent == Cardinality(Stranded) <= MaxFaults - faults

SInv == HInv /\ Spent

LEMMA EventsFinite ==
  /\ IsFiniteSet(Events)
  /\ \A S \in SUBSET Events : IsFiniteSet(S) /\ Cardinality(S) \in Nat
<1>1. IsFiniteSet(Events)
  BY FS_Interval, ConstantsOK DEF Events
<1> QED
  BY <1>1, FS_Subset, FS_CardinalityType

LEMMA NoneStays ==
  ASSUME SInv, StrandsNone
  PROVE  SInv'
<1>1. Stranded \in SUBSET Events /\ Stranded' \in SUBSET Stranded
  BY DEF Stranded, StrandsNone
<1>2. IsFiniteSet(Stranded) /\ Cardinality(Stranded) \in Nat
  BY <1>1, EventsFinite
<1>3. Cardinality(Stranded') \in Nat /\ Cardinality(Stranded') <= Cardinality(Stranded)
  BY <1>1, <1>2, FS_Subset, FS_CardinalityType
<1>4. faults \in Nat /\ MaxFaults \in Nat
  BY ConstantsOK DEF SInv, HInv, TypeOK
<1> QED
  BY <1>2, <1>3, <1>4 DEF SInv, Spent, StrandsNone

LEMMA OneStays ==
  ASSUME SInv, StrandsOne
  PROVE  SInv'
<1>1. PICK e \in Events \cup {0} : Stranded' \subseteq Stranded \cup {e}
  BY DEF StrandsOne
<1> DEFINE more == Stranded \cup {e}
<1>2. IsFiniteSet(Stranded) /\ Cardinality(Stranded) \in Nat
  BY EventsFinite DEF Stranded
<1>3. IsFiniteSet(more) /\ Cardinality(more) \in Nat
      /\ Cardinality(more) <= Cardinality(Stranded) + 1
  <2>1. IsFiniteSet(more)
        /\ Cardinality(more) = IF e \in Stranded THEN Cardinality(Stranded)
                                                ELSE Cardinality(Stranded) + 1
    BY <1>2, FS_AddElement
  <2>2. Cardinality(more) \in Nat
    BY <2>1, FS_CardinalityType
  <2> HIDE DEF more
  <2> QED
    BY <1>2, <2>1, <2>2
<1>4. Stranded' \in SUBSET more
  BY <1>1
<1> HIDE DEF more
<1>5. Cardinality(Stranded') \in Nat /\ Cardinality(Stranded') <= Cardinality(more)
  BY <1>3, <1>4, FS_Subset, FS_CardinalityType
<1>6. faults \in Nat /\ MaxFaults \in Nat
  BY ConstantsOK DEF SInv, HInv, TypeOK
<1> QED
  BY <1>2, <1>3, <1>5, <1>6 DEF SInv, Spent, StrandsOne

LEMMA SInvInit == Init => SInv
<1> SUFFICES ASSUME Init
             PROVE  SInv
  OBVIOUS
<1>1. TypeOK /\ \A p \in Procs : RefOK(p)
  BY InitOK DEF IInv, ProcOK
<1>2. \A p \in Procs : GoalOK(p)
  BY DEF Init, IdleProc, GoalOK
<1>3. Stranded = {}
  BY DEF Init, NoRow, Stranded
<1> QED
  BY <1>1, <1>2, <1>3, FS_EmptySet, ConstantsOK DEF SInv, HInv, Spent, Init

\* When nobody holds a row, the rows in "projecting" are the stranded ones.
LEMMA SpentMeans == SInv => StrandedPerFault
<1> SUFFICES ASSUME SInv, Quiet
             PROVE  Cardinality({e \in Events : outbox[e].status = "projecting"})
                      <= MaxFaults - faults
  BY DEF StrandedPerFault
<1>1. \A p \in Procs : ~Holds(proc[p])
  BY DEF Quiet, Holds
<1>2. {e \in Events : outbox[e].status = "projecting"} = Stranded
  BY <1>1 DEF Stranded
<1> QED
  BY <1>2 DEF SInv, Spent

LEMMA ManagerStrands ==
  ASSUME SInv, ManagerNext
  PROVE  SInv'
<1>1. HInv
  BY DEF SInv
<1> QED
  BY <1>1, RetryOnceStrandsNone, StepStrandsNone, DBErrorStrandsOne, AbandonStrandsOne,
     RetryTimeStrandsNone, NoneStays, OneStays DEF ManagerNext

LEMMA StutterStrands ==
  ASSUME SInv, UNCHANGED vars
  PROVE  SInv'
  BY DEF vars, SInv, HInv, Spent, TypeOK, RefOK, GoalOK, Stranded, Holds

-----------------------------------------------------------------------------
(* The theorems.                                                            *)

\* The strengthening is an invariant of the manager.
THEOREM Inductive == Spec => []IInv
  BY InitOK, NextOK, PTL DEF Spec

\* The rows, the graph and the goroutines' local state keep their types: no
\* interleaving of ApplyEvent, markFailed and RetryOnce, and no fault, brings
\* a row to a status or a goroutine to a place the code does not know.
THEOREM TypeCorrect == Spec => []TypeOK
<1>1. IInv => TypeOK
  BY DEF IInv
<1> QED
  BY <1>1, Inductive, PTL

\* No silent success: whatever fails, stops, is retried or runs twice, a row
\* reads "synced" only while SpiceDB agrees with the event on everything that
\* no other event is about (ApplyEvent, deleteRelationships, RetryOnce).
THEOREM SyncedIsApplied == Spec => []SyncedEffect
<1>1. IInv => SyncedEffect
  BY DEF IInv
<1> QED
  BY <1>1, Inductive, PTL

\* A row is left in "projecting", which the worker never lists, only by a
\* fault, and a fault leaves one: no overlap of ApplyEvent, markFailed and
\* RetryOnce strands another.
THEOREM OneRowPerFault == Spec => []StrandedPerFault
<1>1. SInv /\ [Next]_vars => SInv'
  BY CreateStrandsNone, NoneStays, ManagerStrands, StutterStrands DEF Next, SInv
<1> QED
  BY <1>1, SInvInit, SpentMeans, PTL DEF Spec

-----------------------------------------------------------------------------
(* The manager keeps the promise of projection tables, step by step.        *)

Recorded == {e \in Events : outbox[e].status # "none"}
Asked    == [e \in Events |-> [filters |-> FiltersOf(outbox[e].pl),
                               rels    |-> WritesOf(outbox[e].pl)]]
Synced   == {e \in Events : outbox[e].status = "synced"}

LEMMA AskedEffects ==
  ASSUME TypeOK
  PROVE  Asked \in [Events -> P!Effects]
<1>1. ASSUME NEW e \in Events
      PROVE  Asked[e] \in P!Effects
  <2>1. outbox[e].pl \in Payload
    BY DEF TypeOK
  <2> QED
    BY <2>1, AskedType DEF Asked, P!Effects
<1> QED
  BY <1>1 DEF Asked

\* The manager's authority is the table's.
LEMMA AuthorityMaps ==
  ASSUME NEW e \in Events, NEW t \in Tuples
  PROVE  /\ P!SoleAuthority(e, t) <=> SoleAuthority(e, t)
         /\ P!Writes(e, t) <=> Writes(e, t)
<1>1. \A f \in Events : /\ P!Deletes(f, t) <=> Deletes(f, t)
                        /\ P!Writes(f, t) <=> Writes(f, t)
  BY DEF P!Deletes, P!Writes, Deletes, Writes
<1>2. \A f \in Events : P!Concerns(f, t) <=> Concerns(f, t)
  BY <1>1 DEF P!Concerns, Concerns
<1> QED
  BY <1>1, <1>2 DEF P!SoleAuthority, SoleAuthority

LEMMA InitMaps == Init => P!Init
<1> SUFFICES ASSUME Init
             PROVE  P!Init
  OBVIOUS
<1>1. TypeOK
  BY InitOK DEF IInv
<1>2. Recorded = {} /\ Synced = {}
  BY DEF Init, NoRow, Recorded, Synced
<1>3. Asked \in [Events -> P!Effects] /\ graph \in SUBSET Tuples
  BY <1>1, AskedEffects DEF TypeOK
<1> QED
  BY <1>2, <1>3 DEF P!Init, Recorded, Asked, Synced

\* Rows that stay keep what the table records and asks for.
LEMMA SameTable ==
  ASSUME SameRows
  PROVE  Recorded' = Recorded /\ Asked' = Asked
  BY DEF SameRows, Recorded, Asked

\* A new row is a recorded event.
LEMMA CreateMaps ==
  ASSUME IInv, NEW h \in Handlers, NEW pl \in Payloads, CreateAndDispatch(h, pl)
  PROVE  P!Next
<1>1. PICK e \in Events :
        /\ outbox[e].status = "none"
        /\ outbox'[e].status = "pending"
        /\ \A d \in Events \ {e} : outbox'[d] = outbox[d]
  BY NewRow DEF IInv
<1>2. Recorded' = Recorded \cup {e} /\ e \notin Recorded /\ Synced' = Synced
  BY <1>1 DEF Recorded, Synced
<1>3. Asked' \in [Events -> P!Effects]
  <2>1. TypeOK'
    BY CreateAndDispatchOK DEF IInv
  <2>2. ASSUME NEW d \in Events
        PROVE  Asked'[d] \in P!Effects
    <3>1. outbox'[d].pl \in Payload
      BY <2>1 DEF TypeOK
    <3> QED
      BY <3>1, AskedType DEF Asked, P!Effects
  <2> QED
    BY <2>2 DEF Asked
<1>4. \A d \in Events \ {e} : Asked'[d] = Asked[d]
  BY <1>1 DEF Asked
<1>5. graph' = graph
  BY DEF CreateAndDispatch
<1>6. P!Record(e)
  BY <1>2, <1>3, <1>4, <1>5 DEF P!Record, Recorded, Asked, Synced
<1> QED
  BY <1>6 DEF P!Next

\* A SpiceDB call is a call of the event in hand, or had no effect.
LEMMA CallMaps ==
  ASSUME IInv, NEW p \in Procs,
         DeleteRelationships(p) \/ WriteRelationships(p) \/ SpiceDBError(p)
  PROVE  P!Next \/ UNCHANGED P!pvars
<1> DEFINE e == proc[p].ev
<1>1. proc[p].pc = "work" /\ outbox' = outbox
  BY DEF DeleteRelationships, WriteRelationships, SpiceDBError
<1>2. PartOK(p) /\ e \in Events /\ outbox[e].status # "none"
  BY <1>1, InHand
<1>3. Recorded' = Recorded /\ Asked' = Asked /\ Synced' = Synced
  BY <1>1 DEF Recorded, Asked, Synced
<1>4. \/ \E f \in Asked[e].filters : graph' = graph \ f
      \/ graph' = graph \cup Asked[e].rels
      \/ graph' = graph
  BY <1>1, <1>2 DEF PartOK, Asked, DeleteRelationships, WriteRelationships, SpiceDBError
<1> HIDE DEF e
<1>5. CASE graph' = graph
  BY <1>3, <1>5 DEF P!pvars, Recorded, Asked, Synced
<1>6. CASE \/ \E f \in Asked[e].filters : graph' = graph \ f
           \/ graph' = graph \cup Asked[e].rels
  <2>1. e \in Recorded
    BY <1>2 DEF Recorded
  <2>2. P!Call(e)
    BY <1>3, <1>6, <2>1 DEF P!Call, Recorded, Asked, Synced
  <2> QED
    BY <1>2, <2>2 DEF P!Next
<1> QED
  BY <1>4, <1>5, <1>6

\* The row in hand is confirmed when what it asks for is in effect.
LEMMA ConfirmMaps ==
  ASSUME IInv, NEW p \in Procs, MarkSynced(p)
  PROVE  P!Next
<1>0. PICK e \in Events : e = proc[p].ev /\ outbox[e].status # "none"
  BY InHand DEF MarkSynced, CallsDone
<1>1. /\ graph' = graph
      /\ outbox' = [outbox EXCEPT ![e].status = "synced",
                                  ![e].retries = proc[p].count, ![e].due = TRUE]
  BY <1>0 DEF MarkSynced
<1>2. outbox[e].status # "none"
  BY <1>0
<1>3. SameRows
  BY ManagerKeepsRows DEF ManagerNext, Step
<1>4. IInv'
  BY MarkSyncedOK
<1>5. outbox'[e].status = "synced" /\ \A d \in Events \ {e} : outbox'[d] = outbox[d]
  BY <1>1, <1>2 DEF IInv, TypeOK
<1>6. Recorded' = Recorded /\ Asked' = Asked /\ Synced' = Synced \cup {e}
  BY <1>2, <1>3, <1>5, SameTable DEF Synced
<1>7. ASSUME NEW t \in Tuples, P!SoleAuthority(e, t)
      PROVE  t \in graph <=> P!Writes(e, t)
  <2>1. SoleAuthority(e, t)'
    BY <1>2, <1>3, <1>7, AuthorityMaps, SameAuthority
  <2>2. (t \in graph <=> Writes(e, t))'
    BY <1>2, <1>4, <1>5, <2>1 DEF IInv, SyncedEffect
  <2> QED
    BY <1>1, <1>2, <1>3, <2>2, AuthorityMaps, SameAuthority
<1>8. P!Effective(e)
  BY <1>7 DEF P!Effective
<1>9. e \in Recorded
  BY <1>2 DEF Recorded
<1>10. P!Confirm(e)
  BY <1>1, <1>6, <1>8, <1>9 DEF P!Confirm, Recorded, Asked, Synced
<1> QED
  BY <1>2, <1>10 DEF P!Next

\* A row gets another status than "synced", or keeps the one it has.
LEMMA UpdateMaps ==
  ASSUME SameRows, graph' = graph, NEW e \in Events,
         \A d \in Events \ {e} : outbox'[d].status = outbox[d].status,
         outbox'[e].status = outbox[e].status \/ outbox'[e].status # "synced"
  PROVE  P!Next \/ UNCHANGED P!pvars
<1>1. Recorded' = Recorded /\ Asked' = Asked
  BY SameTable
<1>2. CASE outbox'[e].status = outbox[e].status
  <2>1. Synced' = Synced
    BY <1>2 DEF Synced
  <2> QED
    BY <1>1, <2>1 DEF P!pvars, Recorded, Asked, Synced
<1>3. CASE outbox'[e].status # "synced"
  <2>1. Synced' = Synced \ {e}
    BY <1>3 DEF Synced
  <2>2. P!Retract(e)
    BY <1>1, <2>1 DEF P!Retract, Recorded, Asked, Synced
  <2> QED
    BY <2>2 DEF P!Next
<1> QED
  BY <1>2, <1>3

\* Every other update of the row in hand.
LEMMA MarkMaps ==
  ASSUME IInv, NEW p \in Procs,
         \/ MarkProjecting(p) \/ IncrementRetry(p)
         \/ MarkFailed(p) \/ MarkFailedFallback(p)
  PROVE  P!Next \/ UNCHANGED P!pvars
<1> DEFINE e == proc[p].ev
<1>1. proc[p].pc # "idle" /\ graph' = graph
  BY DEF MarkProjecting, IncrementRetry, MarkFailed, MarkFailedFallback
<1>2. e \in Events /\ outbox \in [Events -> [pl : Payload, status : Statuses,
                                             retries : Nat, due : BOOLEAN]]
  BY <1>1, InHand DEF IInv, TypeOK
<1>3. SameRows
  BY ManagerKeepsRows DEF ManagerNext, Step
<1>4. /\ \A d \in Events \ {e} : outbox'[d].status = outbox[d].status
      /\ outbox'[e].status = outbox[e].status \/ outbox'[e].status # "synced"
  <2>1. CASE MarkProjecting(p)
    BY <1>2, <2>1 DEF MarkProjecting
  <2>2. CASE IncrementRetry(p)
    BY <1>2, <2>2 DEF IncrementRetry
  <2>3. CASE MarkFailed(p)
    BY <1>2, <2>3 DEF MarkFailed
  <2>4. CASE MarkFailedFallback(p)
    BY <1>2, <2>4 DEF MarkFailedFallback
  <2> QED
    BY <2>1, <2>2, <2>3, <2>4
<1> HIDE DEF e
<1> QED
  BY <1>1, <1>2, <1>3, <1>4, UpdateMaps

LEMMA StillMaps ==
  ASSUME outbox' = outbox, graph' = graph
  PROVE  UNCHANGED P!pvars
  BY DEF P!pvars

LEMMA ManagerMaps ==
  ASSUME IInv, ManagerNext
  PROVE  P!Next \/ UNCHANGED P!pvars
<1>1. ASSUME NEW p \in Procs, Step(p)
      PROVE  P!Next \/ UNCHANGED P!pvars
  <2>1. CASE Load(p) \/ ReadBackRetry(p)
    BY <2>1, StillMaps DEF Load, ReadBackRetry
  <2>2. CASE DeleteRelationships(p) \/ WriteRelationships(p) \/ SpiceDBError(p)
    BY <2>2, CallMaps
  <2>3. CASE MarkSynced(p)
    BY <2>3, ConfirmMaps
  <2>4. CASE \/ MarkProjecting(p) \/ IncrementRetry(p)
             \/ MarkFailed(p) \/ MarkFailedFallback(p)
    BY <2>4, MarkMaps
  <2> QED
    BY <1>1, <2>1, <2>2, <2>3, <2>4 DEF Step
<1>2. ASSUME NEW e \in Events, RetryTimeElapses(e)
      PROVE  P!Next \/ UNCHANGED P!pvars
  <2>1. SameRows
    BY <1>2, ManagerKeepsRows DEF ManagerNext
  <2>2. graph' = graph /\ \A d \in Events : outbox'[d].status = outbox[d].status
    BY <1>2 DEF RetryTimeElapses, IInv, TypeOK
  <2> QED
    BY <2>1, <2>2, UpdateMaps
<1>3. CASE \/ \E w \in Workers : RetryOnce(w)
           \/ \E p \in Procs : DBError(p) \/ Abandon(p)
  BY <1>3, StillMaps DEF RetryOnce, DBError, Abandon
<1> QED
  BY <1>1, <1>2, <1>3 DEF ManagerNext

\* The manager implements the projection table's promise: every step of a
\* handler, a worker, the clock or a fault records, calls, confirms or
\* retracts an event, or changes nothing the table shows.
THEOREM KeepsPromise == Spec => ImplementsProjection
<1>1. IInv /\ [Next]_vars => P!Next \/ UNCHANGED P!pvars
  <2>1. CASE UNCHANGED vars
    BY <2>1, StillMaps DEF vars
  <2> QED
    BY <2>1, CreateMaps, ManagerMaps DEF Next
<1> QED
  BY <1>1, InitMaps, Inductive, PTL DEF Spec, ImplementsProjection, P!Spec
=============================================================================
