-------------------------- MODULE Directory_proofs --------------------------
(***************************************************************************)
(* Proofs about the directory projection, for any users, groups, handlers, *)
(* workers, events and faults.                                             *)
(***************************************************************************)
EXTENDS Directory, SequenceTheorems, TLAPS

-----------------------------------------------------------------------------
(* The inductive invariant.                                                 *)

\* What an event asks for, and who decides about a relationship.
Deletes(e, t)  == \E f \in rows[e].pl.filters : t \in f
Writes(e, t)   == t \in rows[e].pl.rels
Concerns(e, t) == rows[e].status # "none" /\ (Deletes(e, t) \/ Writes(e, t))

SoleAuthority(e, t) ==
  /\ Deletes(e, t) <=> ~Writes(e, t)
  /\ \A f \in Events \ {e} : ~Concerns(f, t)

\* A request that has not dispatched everything has something to dispatch.
RequestOK(q) ==
  /\ q.pc = "save" => q.model.id \in Groups
  /\ q.pc \in {"save", "look", "users", "purge", "record"} => q.plan # <<>>

\* What a goroutine has in hand are rows that exist.
RefOK(q) ==
  /\ \A e \in q.batch : rows[e].status # "none"
  /\ q.pc \in {"mark", "work", "fail"} => q.ev \in Events /\ rows[q.ev].status # "none"

\* What a goroutine still has to send is part of what its event asks for.
PartOK(q) ==
  q.pc = "work" => /\ q.todo \subseteq rows[q.ev].pl.filters
                   /\ q.puts \in {{}, rows[q.ev].pl.rels}

\* What a goroutine no longer has to send is in effect.
SentOK(q) ==
  q.pc = "work" =>
    \A t \in Tuples : SoleAuthority(q.ev, t) =>
      /\ Deletes(q.ev, t) => t \notin graph \/ \E f \in q.todo : t \in f
      /\ Writes(q.ev, t)  => t \in graph \/ t \in q.puts

ProcOK(q) == RequestOK(q) /\ RefOK(q) /\ PartOK(q) /\ SentOK(q)

IInv == DirectoryTypeOK /\ \A p \in Procs : ProcOK(proc[p])

\* The type invariant without the goroutines.
StoresOK ==
  /\ dir \in DirectoryState /\ meta \in Metadata
  /\ rows \in [Events -> Row]
  /\ graph \in SUBSET Tuples
  /\ faults \in Nat /\ lost \in BOOLEAN
  /\ trusted \in Events \cup {0}

-----------------------------------------------------------------------------
(* How a step may leave the rows and the graph.                             *)

\* Rows keep their payload, and none appears or disappears.
SameRows ==
  \A e \in Events : /\ rows'[e].pl = rows[e].pl
                    /\ rows'[e].status = "none" <=> rows[e].status = "none"

\* The graph changes in favour of the events that decide alone, if at all.
Harmless ==
  \A e \in Events, t \in Tuples :
    rows[e].status # "none" /\ SoleAuthority(e, t) =>
      /\ Writes(e, t) /\ t \in graph => t \in graph'
      /\ Deletes(e, t) /\ t \notin graph => t \notin graph'

LEMMA SameAuthority ==
  ASSUME SameRows, NEW e \in Events, NEW t \in Tuples
  PROVE  /\ Deletes(e, t)' <=> Deletes(e, t)
         /\ Writes(e, t)' <=> Writes(e, t)
         /\ SoleAuthority(e, t)' <=> SoleAuthority(e, t)
<1>1. \A f \in Events : /\ Deletes(f, t)' <=> Deletes(f, t)
                        /\ Writes(f, t)' <=> Writes(f, t)
                        /\ Concerns(f, t)' <=> Concerns(f, t)
  BY DEF SameRows, Deletes, Writes, Concerns
<1> QED
  BY <1>1 DEF SoleAuthority

\* A call made for an event touches no relationship of which another event
\* is the sole authority, and of its own ones only as the event asks.
LEMMA CallsHarmless ==
  ASSUME NEW e \in Events, rows[e].status # "none",
         \/ \E f \in rows[e].pl.filters : graph' = graph \ f
         \/ \E w \in SUBSET rows[e].pl.rels : graph' = graph \cup w
         \/ graph' = graph
  PROVE  Harmless
<1> SUFFICES ASSUME NEW d \in Events, NEW t \in Tuples, SoleAuthority(d, t)
             PROVE  /\ Writes(d, t) /\ t \in graph => t \in graph'
                    /\ Deletes(d, t) /\ t \notin graph => t \notin graph'
  BY DEF Harmless
<1>1. CASE d = e
  BY <1>1 DEF SoleAuthority, Deletes, Writes
<1>2. CASE d # e
  <2>1. ~Deletes(e, t) /\ ~Writes(e, t)
    BY <1>2 DEF SoleAuthority, Concerns
  <2> QED
    BY <2>1 DEF Deletes, Writes
<1> QED
  BY <1>1, <1>2

\* Changes that respect rows and authorities leave alone what a goroutine
\* relies on that has not moved.
LEMMA OthersKeep ==
  ASSUME IInv, SameRows, Harmless, NEW p \in Procs,
         /\ proc'[p].pc = proc[p].pc /\ proc'[p].plan = proc[p].plan
         /\ proc'[p].model = proc[p].model /\ proc'[p].batch = proc[p].batch
         /\ proc'[p].ev = proc[p].ev /\ proc'[p].todo = proc[p].todo
         /\ proc'[p].puts = proc[p].puts
  PROVE  ProcOK(proc[p])'
<1>1. ProcOK(proc[p]) /\ proc[p].batch \subseteq Events
  BY DEF IInv, DirectoryTypeOK, ProcState
<1>2. RequestOK(proc[p])'
  BY <1>1 DEF ProcOK, RequestOK
<1>3. RefOK(proc[p])'
  BY <1>1 DEF ProcOK, RefOK, SameRows
<1>4. PartOK(proc[p])'
  BY <1>1 DEF ProcOK, RefOK, PartOK, SameRows
<1>5. SentOK(proc[p])'
  <2> SUFFICES ASSUME proc[p].pc = "work", NEW t \in Tuples, SoleAuthority(proc[p].ev, t)'
               PROVE  /\ Deletes(proc[p].ev, t)' => t \notin graph' \/ \E f \in proc[p].todo : t \in f
                      /\ Writes(proc[p].ev, t)'  => t \in graph' \/ t \in proc[p].puts
    BY DEF SentOK, SoleAuthority, Deletes, Writes, Concerns
  <2> DEFINE e == proc[p].ev
  <2>1. e \in Events /\ rows[e].status # "none"
    BY <1>1 DEF ProcOK, RefOK
  <2>2. SoleAuthority(e, t)
    BY <2>1 DEF SameRows, SoleAuthority, Deletes, Writes, Concerns
  <2> QED
    BY <1>1, <2>1, <2>2 DEF ProcOK, SentOK, Harmless, SameRows, Deletes, Writes
<1> QED
  BY <1>2, <1>3, <1>4, <1>5 DEF ProcOK

\* A goroutine goes on as q, and q relies on what is there.
LEMMA Moves ==
  ASSUME IInv, StoresOK', SameRows, Harmless, NEW p \in Procs, NEW q \in ProcState,
         proc' = [proc EXCEPT ![p] = q],
         RequestOK(q), RefOK(q), PartOK(q),
         q.pc = "work" =>
           \A t \in Tuples : SoleAuthority(q.ev, t) =>
             /\ Deletes(q.ev, t) => t \notin graph' \/ \E f \in q.todo : t \in f
             /\ Writes(q.ev, t)  => t \in graph' \/ t \in q.puts
  PROVE  IInv'
<1>1. proc \in [Procs -> ProcState] /\ proc'[p] = q
  BY DEF IInv, DirectoryTypeOK
<1>2. DirectoryTypeOK'
  BY <1>1 DEF DirectoryTypeOK, StoresOK
<1>3. ASSUME NEW r \in Procs \ {p}
      PROVE  ProcOK(proc[r])'
  <2>1. proc'[r] = proc[r]
    BY <1>1
  <2> QED
    BY <2>1, OthersKeep
<1>4. ProcOK(proc[p])'
  <2>1. RequestOK(proc[p])'
    BY <1>1 DEF RequestOK
  <2>2. q.batch \subseteq Events
    BY DEF ProcState
  <2>3. RefOK(proc[p])'
    BY <1>1, <2>2 DEF RefOK, SameRows
  <2>4. PartOK(proc[p])'
    BY <1>1 DEF PartOK, RefOK, SameRows
  <2>5. SentOK(proc[p])'
    <3> SUFFICES ASSUME q.pc = "work", NEW t \in Tuples, SoleAuthority(proc[p].ev, t)'
                 PROVE  /\ Deletes(proc[p].ev, t)' => t \notin graph' \/ \E f \in q.todo : t \in f
                        /\ Writes(proc[p].ev, t)'  => t \in graph' \/ t \in q.puts
      BY <1>1 DEF SentOK
    <3>1. q.ev \in Events
      BY DEF RefOK
    <3>2. SoleAuthority(q.ev, t)
      BY <1>1, <3>1 DEF SameRows, SoleAuthority, Deletes, Writes, Concerns
    <3> QED
      BY <1>1, <3>1, <3>2 DEF SameRows, Deletes, Writes
  <2> QED
    BY <2>1, <2>3, <2>4, <2>5 DEF ProcOK
<1> QED
  BY <1>2, <1>3, <1>4 DEF IInv

-----------------------------------------------------------------------------
(* How a step may leave the goroutine that takes it.                        *)

\* p goes on with what there is, and is in no SpiceDB calls.
Between(p) ==
  \E q \in ProcState :
    /\ proc' = [proc EXCEPT ![p] = q]
    /\ q.pc # "work" /\ RequestOK(q) /\ RefOK(q)

\* p is in the calls of its event, and has made none of them.
AtWork(p) ==
  \E q \in ProcState :
    /\ proc' = [proc EXCEPT ![p] = q]
    /\ q.pc = "work" /\ RefOK(q)
    /\ q.todo = rows[q.ev].pl.filters /\ q.puts = rows[q.ev].pl.rels

LEMMA IdleType ==
  /\ IdleProc \in ProcState /\ IdleProc.pc = "idle" /\ IdleProc.batch = {}
  /\ NoModel \in GroupModel
  BY DEF IdleProc, ProcState, PCs, NoModel, GroupModel

LEMMA BetweenMoves ==
  ASSUME IInv, StoresOK', SameRows, Harmless, NEW p \in Procs, Between(p)
  PROVE  IInv'
<1>1. PICK q \in ProcState : /\ proc' = [proc EXCEPT ![p] = q]
                             /\ q.pc # "work" /\ RequestOK(q) /\ RefOK(q)
  BY DEF Between
<1>2. PartOK(q)
  BY <1>1 DEF PartOK
<1> QED
  BY <1>1, <1>2, Moves

LEMMA AtWorkMoves ==
  ASSUME IInv, StoresOK', SameRows, Harmless, NEW p \in Procs, AtWork(p)
  PROVE  IInv'
<1>1. PICK q \in ProcState : /\ proc' = [proc EXCEPT ![p] = q]
                             /\ q.pc = "work" /\ RefOK(q)
                             /\ q.todo = rows[q.ev].pl.filters /\ q.puts = rows[q.ev].pl.rels
  BY DEF AtWork
<1>2. PartOK(q) /\ RequestOK(q)
  BY <1>1 DEF PartOK, RequestOK
<1>3. ASSUME NEW t \in Tuples
      PROVE  /\ Deletes(q.ev, t) => \E f \in q.todo : t \in f
             /\ Writes(q.ev, t)  => t \in q.puts
  BY <1>1 DEF Deletes, Writes
<1> QED
  BY <1>1, <1>2, <1>3, Moves

\* Begin takes an event of the list it is given, or becomes idle.
LEMMA BeginMoves ==
  ASSUME NEW p \in Procs, NEW batch \in SUBSET Events,
         \A e \in batch : rows[e].status # "none", Begin(p, batch)
  PROVE  Between(p)
<1>1. CASE batch = {} /\ proc' = [proc EXCEPT ![p] = IdleProc]
  BY <1>1, IdleType DEF Between, RequestOK, RefOK
<1>2. ASSUME NEW e \in batch,
             proc' = [proc EXCEPT ![p] = [IdleProc EXCEPT
                        !.pc = "mark", !.ev = e, !.batch = batch]]
      PROVE  Between(p)
  <2> DEFINE q == [IdleProc EXCEPT !.pc = "mark", !.ev = e, !.batch = batch]
  <2>1. q \in ProcState /\ q.batch = batch /\ q.ev = e /\ q.pc = "mark"
    BY IdleType DEF IdleProc, ProcState, PCs
  <2>2. proc' = [proc EXCEPT ![p] = q]
    BY <1>2
  <2> HIDE DEF q
  <2>3. RequestOK(q) /\ RefOK(q)
    BY <2>1 DEF RequestOK, RefOK
  <2> QED
    BY <2>1, <2>2, <2>3 DEF Between
<1> QED
  BY <1>1, <1>2 DEF Begin

LEMMA TailType ==
  ASSUME NEW s \in Seq(Payload), s # <<>>, Len(s) > 1
  PROVE  Tail(s) \in Seq(Payload) /\ Tail(s) # <<>>
<1> DEFINE m == Len(s)
           n == Len(Tail(s))
<1>1. Tail(s) \in Seq(Payload) /\ n = m - 1
  BY HeadTailProperties
<1>2. m \in Nat /\ m > 1
  BY LenProperties
<1> HIDE DEF m, n
<1>3. n # 0
  BY <1>1, <1>2
<1> QED
  BY <1>1, <1>3, EmptySeq DEF n

LEMMA FirstType ==
  ASSUME NEW s \in Seq(Payload), s # <<>>
  PROVE  s[1] \in Payload
<1>1. Len(s) \in Nat \ {0} /\ s \in [1 .. Len(s) -> Payload]
  BY EmptySeq, LenProperties
<1> QED
  BY <1>1

LEMMA ReturnMoves ==
  ASSUME IInv, NEW p \in Procs, NEW ok \in BOOLEAN, Return(p, ok)
  PROVE  Between(p)
<1>1. ProcOK(proc[p]) /\ proc[p] \in ProcState
  BY DEF IInv, DirectoryTypeOK
<1>2. CASE ok /\ Len(proc[p].plan) > 1
  <2> DEFINE q == [IdleProc EXCEPT !.pc = "record", !.plan = Tail(proc[p].plan)]
  <2>1. Tail(proc[p].plan) \in Seq(Payload) /\ Tail(proc[p].plan) # <<>>
    <3>1. proc[p].plan \in Seq(Payload) /\ proc[p].plan # <<>>
      BY <1>1, <1>2, EmptySeq DEF ProcState
    <3> QED
      BY <1>2, <3>1, TailType
  <2>2. q \in ProcState /\ q.batch = {} /\ q.pc = "record" /\ q.plan # <<>>
    BY <2>1, IdleType DEF IdleProc, ProcState, PCs
  <2>3. proc' = [proc EXCEPT ![p] = q]
    BY <1>2 DEF Return
  <2> HIDE DEF q
  <2>4. RequestOK(q) /\ RefOK(q)
    BY <2>2 DEF RequestOK, RefOK
  <2> QED
    BY <2>2, <2>3, <2>4 DEF Between
<1>3. CASE ~(ok /\ Len(proc[p].plan) > 1)
  <2>1. Begin(p, proc[p].batch \ {proc[p].ev})
    BY <1>3 DEF Return
  <2>2. /\ proc[p].batch \ {proc[p].ev} \in SUBSET Events
        /\ \A e \in proc[p].batch \ {proc[p].ev} : rows[e].status # "none"
    BY <1>1 DEF ProcState, ProcOK, RefOK
  <2> QED
    BY <2>1, <2>2, BeginMoves
<1> QED
  BY <1>2, <1>3

LEMMA EndMarkMoves ==
  ASSUME IInv, NEW p \in Procs, proc[p].pc = "fail", EndMark(p)
  PROVE  Between(p)
<1>1. ProcOK(proc[p]) /\ proc[p] \in ProcState
  BY DEF IInv, DirectoryTypeOK
<1>2. CASE proc[p].marks > 1
  <2> DEFINE q == [proc[p] EXCEPT !.marks = @ - 1]
  <2>1. /\ q \in ProcState /\ q.pc = "fail" /\ q.batch = proc[p].batch
        /\ q.ev = proc[p].ev
    BY <1>1, <1>2 DEF ProcState
  <2>2. proc' = [proc EXCEPT ![p] = q]
    BY <1>2 DEF EndMark
  <2> HIDE DEF q
  <2>3. RequestOK(q) /\ RefOK(q)
    BY <1>1, <2>1 DEF ProcOK, RequestOK, RefOK
  <2> QED
    BY <2>1, <2>2, <2>3 DEF Between
<1>3. CASE ~(proc[p].marks > 1)
  BY <1>3, ReturnMoves DEF EndMark
<1> QED
  BY <1>2, <1>3

LEMMA WorkMoves ==
  ASSUME IInv, NEW p \in Procs, proc[p].pc = "mark", Work(p)
  PROVE  AtWork(p)
<1>1. ProcOK(proc[p]) /\ proc[p] \in ProcState /\ rows \in [Events -> Row]
  BY DEF IInv, DirectoryTypeOK
<1> DEFINE q == [proc[p] EXCEPT !.pc = "work", !.todo = rows[proc[p].ev].pl.filters,
                                !.puts = rows[proc[p].ev].pl.rels]
<1>2. proc[p].ev \in Events /\ rows[proc[p].ev].pl \in Payload
  BY <1>1 DEF ProcOK, RefOK, Row
<1>3. /\ q \in ProcState /\ q.pc = "work" /\ q.batch = proc[p].batch /\ q.ev = proc[p].ev
      /\ q.todo = rows[q.ev].pl.filters /\ q.puts = rows[q.ev].pl.rels
  BY <1>1, <1>2 DEF ProcState, PCs, Payload
<1>4. proc' = [proc EXCEPT ![p] = q]
  BY DEF Work
<1> HIDE DEF q
<1>5. RefOK(q)
  BY <1>1, <1>3 DEF ProcOK, RefOK
<1> QED
  BY <1>3, <1>4, <1>5 DEF AtWork

\* A request goes on to pc; readers are disturbed.
LEMMA GoMoves ==
  ASSUME IInv, StoresOK', rows' = rows, graph' = graph,
         NEW h \in Procs, NEW pc \in {"idle", "save", "look", "purge", "record"},
         NEW plan \in Seq(Payload), NEW m \in GroupModel, Go(h, pc, plan, m),
         pc # "idle" => plan # <<>>, pc = "save" => m.id \in Groups
  PROVE  IInv'
<1>1. SameRows /\ Harmless
  BY DEF SameRows, Harmless
<1> DEFINE q == [IdleProc EXCEPT !.pc = pc, !.plan = plan, !.model = m]
<1>2. q \in ProcState /\ q.pc = pc /\ q.plan = plan /\ q.model = m /\ q.batch = {}
  BY IdleType DEF IdleProc, ProcState, PCs
<1>3. /\ proc \in [Procs -> ProcState]
      /\ proc' = [r \in Procs |-> IF r = h THEN q ELSE [proc[r] EXCEPT !.calm = FALSE]]
  BY DEF IInv, DirectoryTypeOK, Go
<1> HIDE DEF q
<1>4. \A r \in Procs : [proc[r] EXCEPT !.calm = FALSE] \in ProcState
  BY <1>3 DEF ProcState
<1>5. proc' \in [Procs -> ProcState]
  BY <1>2, <1>3, <1>4
<1>6. ASSUME NEW r \in Procs \ {h}
      PROVE  ProcOK(proc[r])'
  <2>1. /\ proc'[r].pc = proc[r].pc /\ proc'[r].plan = proc[r].plan
        /\ proc'[r].model = proc[r].model /\ proc'[r].batch = proc[r].batch
        /\ proc'[r].ev = proc[r].ev /\ proc'[r].todo = proc[r].todo
        /\ proc'[r].puts = proc[r].puts
    BY <1>3 DEF ProcState
  <2> QED
    BY <1>1, <2>1, OthersKeep
<1>7. ProcOK(proc[h])'
  <2>1. proc'[h] = q
    BY <1>3
  <2> QED
    BY <1>2, <2>1 DEF ProcOK, RequestOK, RefOK, PartOK, SentOK
<1> QED
  BY <1>5, <1>6, <1>7 DEF IInv, DirectoryTypeOK, StoresOK

-----------------------------------------------------------------------------
(* The relationships and filters of the directory.                          *)

LEMMA GroupTypes ==
  ASSUME NEW g \in Groups, NEW p \in Groups \cup {NoGroup}
  PROVE  /\ groupTopologyRelationships(g, p) \in SUBSET Tuples
         /\ groupTopologyDeleteFilters(g) \in SUBSET (SUBSET Tuples)
         /\ groupDeleteFilters(g) \in SUBSET (SUBSET Tuples)
<1>1. groupTopologyRelationships(g, p) \in SUBSET Tuples
  BY DEF groupTopologyRelationships, Tuples
<1>2. groupTopologyDeleteFilters(g) \in SUBSET (SUBSET Tuples)
  BY DEF groupTopologyDeleteFilters, Tuples
<1>3. groupDeleteFilters(g) \in SUBSET (SUBSET Tuples)
  BY DEF groupDeleteFilters, Tuples
<1> QED
  BY <1>1, <1>2, <1>3

LEMMA UserTypes ==
  ASSUME NEW u \in Users
  PROVE  userSubjectDeleteFilters(u) \in SUBSET (SUBSET Tuples)
  BY DEF userSubjectDeleteFilters, Tuples

LEMMA DesiredType ==
  ASSUME dir \in DirectoryState, meta \in Metadata
  PROVE  FromGroups \in SUBSET Tuples /\ FromUsers \in SUBSET Tuples
<1>1. /\ dir.users \subseteq Users /\ dir.groups \subseteq Groups
      /\ dir.members \subseteq Users \X Groups
  BY DEF DirectoryState
<1>2. \A m \in dir.members : <<"member", m[2], m[1]>> \in Tuples
  BY <1>1 DEF Tuples
<1>3. {<<"member", m[2], m[1]>> : m \in dir.members} \subseteq Tuples
  BY <1>2
<1>4. ASSUME NEW g \in dir.groups
      PROVE  groupTopologyRelationships(g, ListedParent(g)) \subseteq Tuples
  <2>1. ListedParent(g) \in Groups \cup {NoGroup}
    BY <1>1 DEF ListedParent, DirectoryState, Metadata
  <2> QED
    BY <1>1, <2>1, GroupTypes
<1>5. {<<"zone_member", u>> : u \in dir.users} \subseteq Tuples
  BY <1>1 DEF Tuples
<1>6. {<<"platform">>} \subseteq Tuples
  BY DEF Tuples
<1>7. UNION {groupTopologyRelationships(g, ListedParent(g)) : g \in dir.groups} \subseteq Tuples
  BY <1>4
<1> QED
  BY <1>3, <1>5, <1>6, <1>7 DEF FromGroups, FromUsers

LEMMA OnePlan ==
  ASSUME NEW rels \in SUBSET Tuples, NEW filters \in SUBSET (SUBSET Tuples)
  PROVE  /\ WriteOf(rels) \in Payload /\ DeleteOf(filters) \in Payload
         /\ <<WriteOf(rels)>> \in Seq(Payload) /\ <<WriteOf(rels)>> # <<>>
         /\ <<DeleteOf(filters)>> \in Seq(Payload) /\ <<DeleteOf(filters)>> # <<>>
         /\ <<DeleteOf(filters), WriteOf(rels)>> \in Seq(Payload)
         /\ <<DeleteOf(filters), WriteOf(rels)>> # <<>>
<1>1. WriteOf(rels) \in Payload /\ DeleteOf(filters) \in Payload
  BY DEF WriteOf, DeleteOf, Payload
<1> HIDE DEF WriteOf, DeleteOf, Payload
<1> QED
  BY <1>1

LEMMA FaultType ==
  ASSUME StoresOK, FaultHappens
  PROVE  faults' \in Nat /\ lost' \in BOOLEAN
<1>1. faults' \in Nat
  BY DEF StoresOK, FaultHappens
<1>2. lost' = TRUE
  BY DEF FaultHappens
<1> QED
  BY <1>1, <1>2

LEMMA StoresType == IInv => StoresOK
  BY DEF IInv, DirectoryTypeOK, StoresOK
-----------------------------------------------------------------------------
(* Requests.                                                                *)

LEMMA RequestKeeps ==
  ASSUME IInv, NEW h \in Handlers, Requests(h)
  PROVE  IInv'
<1>1. h \in Procs /\ StoresOK /\ dir \in DirectoryState
  BY StoresType DEF Procs, StoresOK
<1>2. CASE CreateOrganization(h)
  <2>1. dir' \in DirectoryState
    BY <1>1, <1>2 DEF CreateOrganization, DirectoryState
  <2>2. StoresOK' /\ rows' = rows /\ graph' = graph
    BY <1>1, <1>2, <2>1 DEF CreateOrganization, StoresOK, Disturb, budget
  <2>3. {<<"platform">>} \in SUBSET Tuples
    BY DEF Tuples
  <2> QED
    BY <1>1, <1>2, <2>2, <2>3, OnePlan, IdleType, GoMoves DEF CreateOrganization
<1>3. ASSUME NEW g \in Groups, NEW p \in Groups \cup {NoGroup},
             NEW owners \in {{}} \cup {{u} : u \in dir.users}, CreateGroup(h, g, p, owners)
      PROVE  IInv'
  <2>1. dir' \in DirectoryState
    BY <1>1, <1>3 DEF CreateGroup, DirectoryState
  <2>2. StoresOK' /\ rows' = rows /\ graph' = graph
    BY <1>1, <1>3, <2>1 DEF CreateGroup, StoresOK, Disturb, budget
  <2>3. {<<"owner", g, u>> : u \in owners} \subseteq Tuples
    <3>1. owners \subseteq Users
      BY <1>1 DEF DirectoryState
    <3> QED
      BY <3>1 DEF Tuples
  <2>4. groupTopologyRelationships(g, p) \cup {<<"owner", g, u>> : u \in owners} \in SUBSET Tuples
    BY <2>3, GroupTypes
  <2>5. [id |-> g, status |-> "active", parent |-> p] \in GroupModel
    BY DEF GroupModel
  <2> QED
    BY <1>1, <1>3, <2>2, <2>4, <2>5, OnePlan, GoMoves DEF CreateGroup
<1>4. ASSUME NEW g \in Groups, NEW p \in Groups \cup {NoGroup}, UpdateGroup(h, g, p)
      PROVE  IInv'
  <2>1. dir' \in DirectoryState
    BY <1>1, <1>4 DEF UpdateGroup, DirectoryState
  <2>2. StoresOK' /\ rows' = rows /\ graph' = graph
    BY <1>1, <1>4, <2>1 DEF UpdateGroup, StoresOK, Disturb, budget
  <2> DEFINE plan == <<DeleteOf(groupTopologyDeleteFilters(g)),
                       WriteOf(groupTopologyRelationships(g, p))>>
             m == [id |-> g, status |-> "active", parent |-> p]
  <2>3. m \in GroupModel
    BY DEF GroupModel
  <2>4. plan \in Seq(Payload) /\ plan # <<>>
    <3>1. /\ groupTopologyRelationships(g, p) \in SUBSET Tuples
          /\ groupTopologyDeleteFilters(g) \in SUBSET (SUBSET Tuples)
      BY GroupTypes
    <3> QED
      BY <3>1, OnePlan
  <2>5. Go(h, "save", plan, m)
    BY <1>4 DEF UpdateGroup
  <2>6. m.id \in Groups
    OBVIOUS
  <2> HIDE DEF plan, m
  <2> QED
    BY <1>1, <2>2, <2>3, <2>4, <2>5, <2>6, GoMoves
<1>5. ASSUME NEW g \in Groups, DeleteGroup(h, g)
      PROVE  IInv'
  <2>1. dir' \in DirectoryState
    BY <1>1, <1>5 DEF DeleteGroup, DirectoryState
  <2>2. StoresOK' /\ rows' = rows /\ graph' = graph
    BY <1>1, <1>5, <2>1 DEF DeleteGroup, StoresOK, Disturb, budget
  <2> DEFINE plan == <<DeleteOf(groupDeleteFilters(g))>>
             m == [id |-> g, status |-> "archived", parent |-> NoGroup]
  <2>3. m \in GroupModel
    BY DEF GroupModel
  <2>4. plan \in Seq(Payload) /\ plan # <<>>
    <3>1. groupDeleteFilters(g) \in SUBSET (SUBSET Tuples)
      BY GroupTypes
    <3> QED
      BY <3>1, OnePlan
  <2>5. Go(h, "save", plan, m)
    BY <1>5 DEF DeleteGroup
  <2>6. m.id \in Groups
    OBVIOUS
  <2> HIDE DEF plan, m
  <2> QED
    BY <1>1, <2>2, <2>3, <2>4, <2>5, <2>6, GoMoves
<1>6. ASSUME NEW u \in Users, CreateUser(h, u)
      PROVE  IInv'
  <2>1. dir' \in DirectoryState
    BY <1>1, <1>6 DEF CreateUser, DirectoryState
  <2>2. StoresOK' /\ rows' = rows /\ graph' = graph
    BY <1>1, <1>6, <2>1 DEF CreateUser, StoresOK, Disturb, budget
  <2>3. <<>> \in Seq(Payload)
    BY EmptySeq
  <2> QED
    BY <1>1, <1>6, <2>2, <2>3, IdleType, GoMoves DEF CreateUser
<1>7. ASSUME NEW u \in Users, NEW g \in Groups, AssignUserToGroup(h, u, g)
      PROVE  IInv'
  <2>1. dir' \in DirectoryState
    BY <1>1, <1>7 DEF AssignUserToGroup, DirectoryState
  <2>2. StoresOK' /\ rows' = rows /\ graph' = graph
    BY <1>1, <1>7, <2>1 DEF AssignUserToGroup, StoresOK, Disturb, budget
  <2>3. {<<"member", g, u>>, <<"zone_member", u>>} \in SUBSET Tuples
    BY DEF Tuples
  <2> QED
    BY <1>1, <1>7, <2>2, <2>3, OnePlan, IdleType, GoMoves DEF AssignUserToGroup
<1>8. ASSUME NEW u \in Users, NEW g \in Groups, RemoveUserFromGroup(h, u, g)
      PROVE  IInv'
  <2>1. dir' \in DirectoryState
    BY <1>1, <1>8 DEF RemoveUserFromGroup, DirectoryState
  <2>2. StoresOK' /\ rows' = rows /\ graph' = graph
    BY <1>1, <1>8, <2>1 DEF RemoveUserFromGroup, StoresOK, Disturb, budget
  <2>3. {{<<"member", g, u>>}} \in SUBSET (SUBSET Tuples)
    BY DEF Tuples
  <2> QED
    BY <1>1, <1>8, <2>2, <2>3, OnePlan, IdleType, GoMoves DEF RemoveUserFromGroup
<1>9. ASSUME NEW u \in Users, PurgeUser(h, u)
      PROVE  IInv'
  <2>1. dir' \in DirectoryState
    <3>1. CASE dir' = [dir EXCEPT !.disabled = @ \cup {u}]
      BY <1>1, <3>1 DEF DirectoryState
    <3>2. CASE dir' = [dir EXCEPT !.users = @ \ {u}, !.members = @ \ ({u} \X Groups)]
      BY <1>1, <3>2 DEF DirectoryState
    <3> QED
      BY <1>9, <3>1, <3>2 DEF PurgeUser
  <2>2. StoresOK' /\ rows' = rows /\ graph' = graph
    BY <1>1, <1>9, <2>1 DEF PurgeUser, StoresOK, Disturb, budget
  <2> QED
    BY <1>1, <1>9, <2>2, UserTypes, OnePlan, IdleType, GoMoves DEF PurgeUser
<1>10. CASE DeleteOrganization(h)
  <2>1. faults' \in Nat /\ lost' \in BOOLEAN
    <3>1. (faults' = faults /\ lost' = lost) \/ FaultHappens
      BY <1>10 DEF DeleteOrganization, budget
    <3> QED
      BY <1>1, <3>1, FaultType DEF StoresOK
  <2>5. UNCHANGED <<dir, meta, rows, graph, trusted>>
    BY <1>10 DEF DeleteOrganization, stores
  <2>6. StoresOK'
    BY <1>1, <2>1, <2>5 DEF StoresOK
  <2>2. zoneFilter \in SUBSET Tuples
    BY DEF zoneFilter, Tuples
  <2>3. UNION {groupDeleteFilters(g) : g \in dir.groups} \in SUBSET (SUBSET Tuples)
    <3>1. dir.groups \subseteq Groups
      BY <1>1 DEF DirectoryState
    <3> QED
      BY <3>1, GroupTypes
  <2>4. /\ {zoneFilter} \cup UNION {groupDeleteFilters(g) : g \in dir.groups}
             \in SUBSET (SUBSET Tuples)
        /\ {zoneFilter} \in SUBSET (SUBSET Tuples)
    BY <2>2, <2>3
  <2>7. ASSUME NEW filters \in SUBSET (SUBSET Tuples), Go(h, "purge", <<DeleteOf(filters)>>, NoModel)
        PROVE  IInv'
    BY <1>1, <2>5, <2>6, <2>7, OnePlan, IdleType, GoMoves
  <2> QED
    BY <1>10, <2>4, <2>7 DEF DeleteOrganization
<1>11. CASE Reconcile(h)
  <2>1. StoresOK' /\ SameRows /\ Harmless
    BY <1>1, <1>11 DEF Reconcile, StoresOK, stores, budget, SameRows, Harmless
  <2> DEFINE q == [IdleProc EXCEPT !.pc = "users", !.plan = <<WriteOf(FromGroups)>>,
                                   !.calm = AtRest]
  <2>2. <<WriteOf(FromGroups)>> \in Seq(Payload) /\ <<WriteOf(FromGroups)>> # <<>>
    BY <1>1, DesiredType, OnePlan DEF StoresOK
  <2>3. AtRest \in BOOLEAN
    BY DEF AtRest
  <2>4. q \in ProcState /\ q.pc = "users" /\ q.plan # <<>> /\ q.batch = {}
    BY <2>2, <2>3, IdleType DEF IdleProc, ProcState, PCs
  <2>5. proc' = [proc EXCEPT ![h] = q]
    BY <1>11 DEF Reconcile
  <2> HIDE DEF q
  <2>6. Between(h)
    BY <2>4, <2>5 DEF Between, RequestOK, RefOK
  <2> QED
    BY <1>1, <2>1, <2>6, BetweenMoves
<1> QED
  BY <1>2, <1>3, <1>4, <1>5, <1>6, <1>7, <1>8, <1>9, <1>10, <1>11 DEF Requests

-----------------------------------------------------------------------------
(* Steps of a request and of an event.                                      *)

\* A goroutine goes on and touches no store but the row of its own event.
LEMMA RequestStepKeeps ==
  ASSUME IInv, NEW p \in Procs,
         RemainingGroups(p) \/ RemainingGroupsError(p) \/ ReconcileUsers(p) \/ SaveMetadata(p)
  PROVE  IInv'
<1>1. ProcOK(proc[p]) /\ proc[p] \in ProcState /\ StoresOK
  BY StoresType DEF IInv, DirectoryTypeOK
<1>2. CASE RemainingGroups(p)
  <2>1. StoresOK' /\ SameRows /\ Harmless
    BY <1>1, <1>2 DEF RemainingGroups, StoresOK, stores, budget, SameRows, Harmless
  <2>2. PICK u \in Users, g \in Groups :
          \/ proc' = [proc EXCEPT ![p].pc = "record",
               ![p].plan = <<DeleteOf({{<<"member", g, u>>}, {<<"zone_member", u>>}})>>]
          \/ proc' = [proc EXCEPT ![p].pc = "record"]
    BY <1>2 DEF RemainingGroups
  <2> DEFINE both == <<DeleteOf({{<<"member", g, u>>}, {<<"zone_member", u>>}})>>
  <2>3. both \in Seq(Payload) /\ both # <<>>
    <3>1. {{<<"member", g, u>>}, {<<"zone_member", u>>}} \in SUBSET (SUBSET Tuples)
      BY DEF Tuples
    <3> QED
      BY <3>1, OnePlan
  <2>4. proc[p].plan \in Seq(Payload) /\ proc[p].plan # <<>>
    BY <1>1, <1>2 DEF ProcState, ProcOK, RequestOK, RemainingGroups
  <2> HIDE DEF both
  <2>5. ASSUME NEW plan \in Seq(Payload), plan # <<>>,
               proc' = [proc EXCEPT ![p] = [proc[p] EXCEPT !.pc = "record", !.plan = plan]]
        PROVE  Between(p)
    <3> DEFINE q == [proc[p] EXCEPT !.pc = "record", !.plan = plan]
    <3>1. q \in ProcState /\ q.pc = "record" /\ q.plan = plan /\ q.batch = proc[p].batch
      BY <1>1 DEF ProcState, PCs
    <3>2. proc' = [proc EXCEPT ![p] = q]
      BY <2>5
    <3> HIDE DEF q
    <3> QED
      BY <1>1, <2>5, <3>1, <3>2 DEF Between, ProcOK, RequestOK, RefOK
  <2>6. CASE proc' = [proc EXCEPT ![p].pc = "record", ![p].plan = both]
    <3>1. proc' = [proc EXCEPT ![p] = [proc[p] EXCEPT !.pc = "record", !.plan = both]]
      BY <2>6
    <3> QED
      BY <2>1, <2>3, <2>5, <3>1, BetweenMoves
  <2>7. CASE proc' = [proc EXCEPT ![p].pc = "record"]
    <3>1. proc' = [proc EXCEPT ![p] = [proc[p] EXCEPT !.pc = "record", !.plan = proc[p].plan]]
      BY <1>1, <2>7 DEF ProcState
    <3> QED
      BY <2>1, <2>4, <2>5, <3>1, BetweenMoves
  <2> QED
    BY <2>2, <2>6, <2>7 DEF both
<1>3. CASE RemainingGroupsError(p)
  <2>1. faults' \in Nat /\ lost' \in BOOLEAN
    BY <1>1, <1>3, FaultType DEF RemainingGroupsError
  <2>2. StoresOK' /\ SameRows /\ Harmless
    BY <1>1, <1>3, <2>1 DEF RemainingGroupsError, StoresOK, stores, SameRows, Harmless
  <2> DEFINE q == [proc[p] EXCEPT !.pc = "record"]
  <2>3. q \in ProcState /\ q.pc = "record" /\ q.plan = proc[p].plan /\ q.batch = proc[p].batch
    BY <1>1 DEF ProcState, PCs
  <2>4. proc' = [proc EXCEPT ![p] = q] /\ proc[p].pc = "look"
    BY <1>3 DEF RemainingGroupsError
  <2> HIDE DEF q
  <2>5. Between(p)
    BY <1>1, <2>3, <2>4 DEF Between, ProcOK, RequestOK, RefOK
  <2> QED
    BY <2>2, <2>5, BetweenMoves
<1>4. CASE ReconcileUsers(p)
  <2>1. StoresOK' /\ SameRows /\ Harmless
    BY <1>1, <1>4 DEF ReconcileUsers, StoresOK, stores, budget, SameRows, Harmless
  <2> DEFINE plan == <<WriteOf(proc[p].plan[1].rels \cup FromUsers)>>
  <2>2. plan \in Seq(Payload) /\ plan # <<>>
    <3>1. proc[p].plan \in Seq(Payload) /\ proc[p].plan # <<>>
      BY <1>1, <1>4 DEF ProcState, ProcOK, RequestOK, ReconcileUsers
    <3>2. proc[p].plan[1] \in Payload
      BY <3>1, FirstType
    <3>3. proc[p].plan[1].rels \cup FromUsers \in SUBSET Tuples
      BY <1>1, <3>2, DesiredType DEF Payload, StoresOK
    <3> QED
      BY <3>3, OnePlan
  <2>3. proc' = [proc EXCEPT ![p] = [proc[p] EXCEPT !.pc = "record", !.plan = plan]]
    BY <1>4 DEF ReconcileUsers
  <2> HIDE DEF plan
  <2> DEFINE q == [proc[p] EXCEPT !.pc = "record", !.plan = plan]
  <2>4. q \in ProcState /\ q.pc = "record" /\ q.plan = plan /\ q.batch = proc[p].batch
    BY <1>1, <2>2 DEF ProcState, PCs
  <2>5. proc' = [proc EXCEPT ![p] = q]
    BY <2>3
  <2> HIDE DEF q
  <2>6. Between(p)
    BY <1>1, <2>2, <2>4, <2>5 DEF Between, ProcOK, RequestOK, RefOK
  <2> QED
    BY <2>1, <2>6, BetweenMoves
<1>5. CASE SaveMetadata(p)
  <2> DEFINE m == proc[p].model
  <2>1. m \in GroupModel /\ m.id \in Groups
    BY <1>1, <1>5 DEF ProcState, ProcOK, RequestOK, SaveMetadata
  <2>2. meta' \in Metadata
    BY <1>1, <1>5, <2>1 DEF SaveMetadata, StoresOK, Metadata, GroupModel
  <2>3. StoresOK' /\ SameRows /\ Harmless
    BY <1>1, <1>5, <2>2 DEF SaveMetadata, StoresOK, budget, SameRows, Harmless
  <2> DEFINE q == [proc[p] EXCEPT !.pc = "record", !.model = NoModel]
  <2>4. q \in ProcState /\ q.pc = "record" /\ q.plan = proc[p].plan /\ q.batch = proc[p].batch
    BY <1>1, IdleType DEF ProcState, PCs
  <2>5. proc' = [proc EXCEPT ![p] = q] /\ proc[p].pc = "save"
    BY <1>5 DEF SaveMetadata
  <2> HIDE DEF q
  <2>6. Between(p)
    BY <1>1, <2>4, <2>5 DEF Between, ProcOK, RequestOK, RefOK
  <2> QED
    BY <2>3, <2>6, BetweenMoves
<1> QED
  BY <1>2, <1>3, <1>4, <1>5

LEMMA RemoveOrganizationKeeps ==
  ASSUME IInv, NEW p \in Procs, RemoveOrganization(p)
  PROVE  IInv'
<1>1. ProcOK(proc[p]) /\ proc[p] \in ProcState /\ StoresOK
  BY StoresType DEF IInv, DirectoryTypeOK
<1>2. dir' \in DirectoryState
  BY <1>1 DEF RemoveOrganization, StoresOK, DirectoryState
<1>3. StoresOK' /\ rows' = rows /\ graph' = graph
  BY <1>1, <1>2 DEF RemoveOrganization, StoresOK, Disturb, budget
<1>4. proc[p].plan \in Seq(Payload) /\ proc[p].plan # <<>>
  BY <1>1 DEF ProcState, ProcOK, RequestOK, RemoveOrganization
<1> QED
  BY <1>3, <1>4, IdleType, GoMoves DEF RemoveOrganization

LEMMA RowUpdates ==
  ASSUME StoresOK, NEW e \in Events, rows[e].status # "none", graph' = graph,
         NEW s \in {"projecting", "synced", "failed"}, NEW due \in BOOLEAN,
         rows' = [rows EXCEPT ![e].status = s, ![e].due = due]
  PROVE  rows' \in [Events -> Row] /\ SameRows /\ Harmless
<1>1. rows' \in [Events -> Row]
  BY DEF StoresOK, Row
<1>2. SameRows
  BY DEF StoresOK, Row, SameRows
<1> QED
  BY <1>1, <1>2 DEF Harmless

LEMMA RecordKeeps ==
  ASSUME IInv, NEW p \in Procs, Record(p)
  PROVE  IInv'
<1>1. ProcOK(proc[p]) /\ proc \in [Procs -> ProcState] /\ StoresOK
  BY StoresType DEF IInv, DirectoryTypeOK
<1>2. PICK e \in Events :
        /\ IsNext(e)
        /\ rows' = [rows EXCEPT ![e] = [pl |-> proc[p].plan[1], due |-> FALSE,
                                        status |-> "pending"]]
        /\ proc' = [proc EXCEPT ![p].pc = "mark", ![p].ev = e]
        /\ trusted' = IF proc[p].calm THEN e ELSE trusted
  BY DEF Record
<1>3. proc[p].plan[1] \in Payload
  <2>1. proc[p].plan \in Seq(Payload) /\ proc[p].plan # <<>>
    BY <1>1 DEF ProcState, ProcOK, RequestOK, Record
  <2> QED
    BY <2>1, FirstType
<1>4. rows' \in [Events -> Row]
  BY <1>1, <1>2, <1>3 DEF StoresOK, Row
<1>5. /\ rows[e].status = "none" /\ rows'[e].status = "pending"
      /\ \A f \in Events \ {e} : rows'[f] = rows[f]
  BY <1>1, <1>2 DEF StoresOK, IsNext
<1>6. StoresOK'
  BY <1>1, <1>2, <1>4 DEF Record, StoresOK, budget
<1> DEFINE q == [proc[p] EXCEPT !.pc = "mark", !.ev = e]
<1>7. q \in ProcState /\ q.pc = "mark" /\ q.ev = e /\ q.batch = proc[p].batch
  BY <1>1 DEF ProcState, PCs
<1>8. proc' = [proc EXCEPT ![p] = q]
  BY <1>2
<1> HIDE DEF q
<1>9. proc' \in [Procs -> ProcState] /\ proc'[p] = q
  BY <1>1, <1>7, <1>8
<1>10. ProcOK(proc[p])'
  <2>1. proc[p].batch \subseteq Events
    BY <1>1 DEF ProcState
  <2>2. RefOK(proc[p])'
    BY <1>1, <1>5, <1>7, <1>9, <2>1 DEF ProcOK, RefOK
  <2>3. RequestOK(proc[p])' /\ PartOK(proc[p])' /\ SentOK(proc[p])'
    BY <1>7, <1>9 DEF RequestOK, PartOK, SentOK
  <2> QED
    BY <2>2, <2>3 DEF ProcOK
<1>11. ASSUME NEW r \in Procs \ {p}
       PROVE  ProcOK(proc[r])'
  <2>1. proc'[r] = proc[r] /\ ProcOK(proc[r]) /\ proc[r].batch \subseteq Events
    BY <1>1, <1>8 DEF IInv, ProcState
  <2>2. RequestOK(proc[r])'
    BY <2>1 DEF ProcOK, RequestOK
  <2>3. RefOK(proc[r])'
    BY <1>5, <2>1 DEF ProcOK, RefOK
  <2>4. PartOK(proc[r])'
    BY <1>5, <2>1 DEF ProcOK, RefOK, PartOK
  <2>5. SentOK(proc[r])'
    <3> SUFFICES ASSUME proc[r].pc = "work", NEW t \in Tuples, SoleAuthority(proc[r].ev, t)'
                 PROVE  /\ Deletes(proc[r].ev, t)' => t \notin graph' \/ \E f \in proc[r].todo : t \in f
                        /\ Writes(proc[r].ev, t)'  => t \in graph' \/ t \in proc[r].puts
      BY <2>1 DEF SentOK
    <3> DEFINE d == proc[r].ev
    <3>1. d \in Events /\ d # e /\ rows'[d] = rows[d] /\ proc'[r].ev = d
      BY <1>5, <2>1 DEF ProcOK, RefOK
    <3>2. (Deletes(d, t)' <=> Deletes(d, t)) /\ (Writes(d, t)' <=> Writes(d, t))
      BY <3>1 DEF Deletes, Writes
    <3>3. \A f \in Events \ {d} : ~Concerns(f, t)
      BY <1>5, <3>1 DEF SoleAuthority, Concerns, Deletes, Writes
    <3>4. SoleAuthority(d, t)
      BY <3>1, <3>2, <3>3 DEF SoleAuthority
    <3> QED
      BY <2>1, <3>1, <3>2, <3>4 DEF ProcOK, SentOK, Record
  <2> QED
    BY <2>2, <2>3, <2>4, <2>5 DEF ProcOK
<1> QED
  BY <1>6, <1>9, <1>10, <1>11 DEF IInv, DirectoryTypeOK, StoresOK

\* p's SpiceDB calls, and the updates of its row.
LEMMA CallKeeps ==
  ASSUME IInv, NEW p \in Procs,
         DeleteRelationships(p) \/ WriteRelationships(p) \/ CallError(p)
  PROVE  /\ IInv' /\ rows' = rows
         /\ proc[p].ev \in Events /\ rows[proc[p].ev].status # "none"
         /\ \/ \E f \in rows[proc[p].ev].pl.filters : graph' = graph \ f
            \/ graph' = graph \cup rows[proc[p].ev].pl.rels
            \/ graph' = graph
<1> DEFINE e == proc[p].ev
           pl == rows[e].pl
<1>1. ProcOK(proc[p]) /\ proc[p] \in ProcState /\ StoresOK
  BY StoresType DEF IInv, DirectoryTypeOK
<1>2. /\ e \in Events /\ rows[e].status # "none" /\ proc[p].pc = "work"
      /\ proc[p].todo \subseteq pl.filters /\ proc[p].puts \in {{}, pl.rels}
  BY <1>1 DEF ProcOK, RefOK, PartOK, DeleteRelationships, WriteRelationships, CallError
<1>3. pl \in Payload
  BY <1>1, <1>2 DEF StoresOK, Row
<1>4. rows' = rows /\ SameRows
  BY DEF DeleteRelationships, WriteRelationships, CallError, SameRows
<1>5. \/ \E f \in pl.filters : graph' = graph \ f
      \/ graph' = graph \cup pl.rels
      \/ graph' = graph
  BY <1>2 DEF DeleteRelationships, WriteRelationships, CallError
<1>6. Harmless
  BY <1>2, <1>5, CallsHarmless
<1>7. graph' \in SUBSET Tuples
  BY <1>1, <1>3, <1>5 DEF StoresOK, Payload
<1>8. StoresOK'
  <2>1. faults' \in Nat /\ lost' = lost
    BY <1>1 DEF DeleteRelationships, WriteRelationships, CallError, StoresOK, budget
  <2> QED
    BY <1>1, <1>4, <1>7, <2>1
      DEF DeleteRelationships, WriteRelationships, CallError, StoresOK, budget
<1>9. IInv'
  <2>1. CASE DeleteRelationships(p)
    <3>1. PICK f \in proc[p].todo : /\ graph' = graph \ f
                                    /\ proc' = [proc EXCEPT ![p].todo = @ \ {f}]
      BY <2>1 DEF DeleteRelationships
    <3> DEFINE q == [proc[p] EXCEPT !.todo = @ \ {f}]
    <3>2. /\ q \in ProcState /\ q.pc = "work" /\ q.ev = e /\ q.todo = proc[p].todo \ {f}
          /\ q.puts = proc[p].puts /\ q.batch = proc[p].batch
      BY <1>1, <1>2 DEF ProcState
    <3>3. proc' = [proc EXCEPT ![p] = q]
      BY <3>1
    <3> HIDE DEF q
    <3>4. RequestOK(q) /\ RefOK(q) /\ PartOK(q)
      BY <1>1, <1>2, <3>2 DEF ProcOK, RequestOK, RefOK, PartOK
    <3>5. ASSUME NEW t \in Tuples, SoleAuthority(q.ev, t)
          PROVE  /\ Deletes(q.ev, t) => t \notin graph' \/ \E d \in q.todo : t \in d
                 /\ Writes(q.ev, t)  => t \in graph' \/ t \in q.puts
      <4>1. /\ Deletes(e, t) => t \notin graph \/ \E d \in proc[p].todo : t \in d
            /\ Writes(e, t)  => t \in graph \/ t \in proc[p].puts
        BY <1>1, <1>2, <3>2, <3>5 DEF ProcOK, SentOK
      <4>2. Writes(e, t) => t \notin f
        BY <1>2, <3>2, <3>5 DEF SoleAuthority, Deletes
      <4> QED
        BY <3>1, <3>2, <4>1, <4>2
    <3> QED
      BY <1>4, <1>6, <1>8, <3>2, <3>3, <3>4, <3>5, Moves
  <2>2. CASE WriteRelationships(p)
    <3>1. proc[p].puts = pl.rels /\ graph' = graph \cup pl.rels
      BY <1>2, <2>2 DEF WriteRelationships
    <3> DEFINE q == [proc[p] EXCEPT !.puts = {}]
    <3>2. /\ q \in ProcState /\ q.pc = "work" /\ q.ev = e /\ q.todo = proc[p].todo
          /\ q.puts = {} /\ q.batch = proc[p].batch
      BY <1>1, <1>2 DEF ProcState
    <3>3. proc' = [proc EXCEPT ![p] = q]
      BY <2>2 DEF WriteRelationships
    <3> HIDE DEF q
    <3>4. RequestOK(q) /\ RefOK(q) /\ PartOK(q)
      BY <1>1, <1>2, <3>2 DEF ProcOK, RequestOK, RefOK, PartOK
    <3>5. ASSUME NEW t \in Tuples, SoleAuthority(q.ev, t)
          PROVE  /\ Deletes(q.ev, t) => t \notin graph' \/ \E d \in q.todo : t \in d
                 /\ Writes(q.ev, t)  => t \in graph' \/ t \in q.puts
      <4>1. Deletes(e, t) => t \notin graph \/ \E d \in proc[p].todo : t \in d
        BY <1>1, <1>2, <3>2, <3>5 DEF ProcOK, SentOK
      <4>2. Deletes(e, t) <=> ~Writes(e, t)
        BY <3>2, <3>5 DEF SoleAuthority
      <4>3. Writes(e, t) <=> t \in pl.rels
        BY DEF Writes
      <4> QED
        BY <3>1, <3>2, <4>1, <4>2, <4>3
    <3> QED
      BY <1>4, <1>6, <1>8, <3>2, <3>3, <3>4, <3>5, Moves
  <2>3. CASE CallError(p)
    <3> DEFINE k == IF p \in Workers THEN 2 ELSE 1
    <3>4. k \in 0 .. 2
      OBVIOUS
    <3> DEFINE q == [proc[p] EXCEPT !.pc = "fail", !.todo = {}, !.puts = {}, !.marks = k]
    <3> HIDE DEF k
    <3>1. q \in ProcState /\ q.pc = "fail" /\ q.ev = e /\ q.batch = proc[p].batch
      BY <1>1, <3>4 DEF ProcState, PCs
    <3>2. proc' = [proc EXCEPT ![p] = q]
      BY <2>3 DEF CallError, k
    <3> HIDE DEF q
    <3>3. Between(p)
      BY <1>1, <1>2, <3>1, <3>2 DEF ProcOK, Between, RequestOK, RefOK
    <3> QED
      BY <1>4, <1>6, <1>8, <3>3, BetweenMoves
  <2> QED
    BY <2>1, <2>2, <2>3
<1> QED
  BY <1>2, <1>4, <1>5, <1>9

LEMMA MarkKeeps ==
  ASSUME IInv, NEW p \in Procs, MarkProjecting(p) \/ MarkFailure(p) \/ MarkSynced(p)
  PROVE  /\ IInv' /\ SameRows /\ graph' = graph
         /\ proc[p].ev \in Events /\ rows[proc[p].ev].status # "none"
         /\ \A d \in Events \ {proc[p].ev} : rows'[d] = rows[d]
         /\ rows'[proc[p].ev].status = "synced" <=> CallsDone(p)
<1> DEFINE e == proc[p].ev
<1>1. ProcOK(proc[p]) /\ proc[p] \in ProcState /\ StoresOK
  BY StoresType DEF IInv, DirectoryTypeOK
<1>2. e \in Events /\ rows[e].status # "none" /\ rows[e] \in Row
  BY <1>1 DEF ProcOK, RefOK, StoresOK, MarkProjecting, MarkFailure, MarkSynced, CallsDone
<1>3. PICK s \in {"projecting", "synced", "failed"}, due \in BOOLEAN :
        /\ rows' = [rows EXCEPT ![e].status = s, ![e].due = due]
        /\ s = "synced" <=> CallsDone(p)
  <2>1. CASE MarkProjecting(p)
    <3>1. rows' = [rows EXCEPT ![e].status = "projecting", ![e].due = rows[e].due]
      BY <1>1, <1>2, <2>1 DEF MarkProjecting, StoresOK, Row
    <3>2. ~CallsDone(p) /\ rows[e].due \in BOOLEAN
      BY <1>2, <2>1 DEF MarkProjecting, CallsDone, Row
    <3> QED
      BY <3>1, <3>2
  <2>2. CASE MarkFailure(p)
    BY <2>2 DEF MarkFailure, CallsDone
  <2>3. CASE MarkSynced(p)
    <3>1. rows' = [rows EXCEPT ![e].status = "synced", ![e].due = rows[e].due]
      BY <1>1, <1>2, <2>3 DEF MarkSynced, StoresOK, Row
    <3>2. CallsDone(p) /\ rows[e].due \in BOOLEAN
      BY <1>2, <2>3 DEF MarkSynced, Row
    <3> QED
      BY <3>1, <3>2
  <2> QED
    BY <2>1, <2>2, <2>3
<1>4. graph' = graph /\ UNCHANGED <<dir, meta, faults, lost, trusted>>
  BY DEF MarkProjecting, MarkFailure, MarkSynced, budget
<1>5. rows' \in [Events -> Row] /\ SameRows /\ Harmless
  BY <1>1, <1>2, <1>3, <1>4, RowUpdates
<1>6. StoresOK'
  BY <1>1, <1>4, <1>5 DEF StoresOK
<1>7. IInv'
  <2>1. CASE MarkProjecting(p)
    BY <1>5, <1>6, <2>1, WorkMoves, AtWorkMoves DEF MarkProjecting
  <2>2. CASE MarkFailure(p)
    BY <1>5, <1>6, <2>2, EndMarkMoves, BetweenMoves DEF MarkFailure
  <2>3. CASE MarkSynced(p)
    BY <1>5, <1>6, <2>3, ReturnMoves, BetweenMoves DEF MarkSynced
  <2> QED
    BY <2>1, <2>2, <2>3
<1>8. /\ \A d \in Events \ {e} : rows'[d] = rows[d]
      /\ rows'[e].status = "synced" <=> CallsDone(p)
  BY <1>1, <1>2, <1>3 DEF StoresOK, Row
<1> QED
  BY <1>2, <1>4, <1>5, <1>7, <1>8

-----------------------------------------------------------------------------
(* Faults, the worker's list and the clock.                                 *)

LEMMA FaultKeeps ==
  ASSUME IInv, NEW p \in Procs, RequestError(p) \/ MarkError(p) \/ Abandon(p)
  PROVE  IInv' /\ rows' = rows /\ graph' = graph
<1>1. StoresOK /\ FaultHappens /\ UNCHANGED <<stores, trusted>>
  BY StoresType DEF RequestError, MarkError, Abandon
<1>2. faults' \in Nat /\ lost' \in BOOLEAN
  BY <1>1, FaultType
<1>3. StoresOK' /\ SameRows /\ Harmless /\ rows' = rows /\ graph' = graph
  BY <1>1, <1>2 DEF StoresOK, stores, SameRows, Harmless
<1>4. CASE proc' = [proc EXCEPT ![p] = IdleProc]
  <2>1. Between(p)
    BY <1>4, IdleType DEF Between, RequestOK, RefOK
  <2> QED
    BY <1>3, <2>1, BetweenMoves
<1>5. CASE proc[p].pc = "mark" /\ Work(p)
  BY <1>3, <1>5, WorkMoves, AtWorkMoves
<1>6. CASE Return(p, TRUE) \/ (proc[p].pc = "fail" /\ EndMark(p))
  BY <1>3, <1>6, ReturnMoves, EndMarkMoves, BetweenMoves
<1> QED
  BY <1>3, <1>4, <1>5, <1>6 DEF RequestError, MarkError, Abandon

LEMMA RetryOnceKeeps ==
  ASSUME IInv, NEW w \in Workers, RetryOnce(w)
  PROVE  IInv' /\ rows' = rows /\ graph' = graph
<1>1. w \in Procs /\ StoresOK
  BY StoresType DEF Procs
<1>2. StoresOK' /\ SameRows /\ Harmless /\ rows' = rows /\ graph' = graph
  BY <1>1 DEF RetryOnce, StoresOK, stores, budget, SameRows, Harmless
<1>3. Due \in SUBSET Events /\ (\A e \in Due : rows[e].status # "none") /\ Begin(w, Due)
  BY DEF Due, RetryOnce
<1> QED
  BY <1>1, <1>2, <1>3, BeginMoves, BetweenMoves

LEMMA RetryTimeKeeps ==
  ASSUME IInv, NEW e \in Events, RetryTimeElapses(e)
  PROVE  /\ IInv' /\ SameRows /\ graph' = graph
         /\ \A d \in Events : rows'[d].status = rows[d].status
<1>1. StoresOK /\ proc' = proc /\ graph' = graph /\ UNCHANGED <<dir, meta, budget, trusted>>
  BY StoresType DEF RetryTimeElapses
<1>2. rows' = [rows EXCEPT ![e].due = TRUE]
  BY DEF RetryTimeElapses
<1>3. /\ rows' \in [Events -> Row] /\ SameRows /\ Harmless
      /\ \A d \in Events : rows'[d].status = rows[d].status
  BY <1>1, <1>2 DEF StoresOK, Row, SameRows, Harmless
<1>4. \A p \in Procs : ProcOK(proc[p])'
  BY <1>1, <1>3, OthersKeep
<1> QED
  BY <1>1, <1>3, <1>4 DEF IInv, DirectoryTypeOK, StoresOK, budget

LEMMA IInvInit == Init => IInv
<1> SUFFICES ASSUME Init
             PROVE  IInv
  OBVIOUS
<1>1. dir \in DirectoryState
  BY DirectoryOK DEF Init
<1>2. meta \in Metadata
  BY <1>1 DEF Init, Metadata, DirectoryState
<1>3. rows \in [Events -> Row]
  <2>1. NoRow \in Row
    BY DEF NoRow, Row, DeleteOf, Payload
  <2> QED
    BY <2>1 DEF Init
<1>4. graph \in SUBSET Tuples
  BY <1>1, <1>2, DesiredType DEF Init, Desired
<1>5. faults \in Nat /\ lost \in BOOLEAN /\ trusted \in Events \cup {0}
  BY DirectoryOK DEF Init
<1>6. \A p \in Procs : proc[p] = IdleProc
  BY DEF Init
<1>7. proc \in [Procs -> ProcState]
  BY IdleType DEF Init
<1>8. \A p \in Procs : ProcOK(proc[p])
  BY <1>6, IdleType DEF ProcOK, RequestOK, RefOK, PartOK, SentOK
<1> QED
  BY <1>1, <1>2, <1>3, <1>4, <1>5, <1>7, <1>8 DEF IInv, DirectoryTypeOK

LEMMA IInvStep == IInv /\ [Next]_vars => IInv'
<1> SUFFICES ASSUME IInv, [Next]_vars
             PROVE  IInv'
  OBVIOUS
<1>1. CASE UNCHANGED vars
  BY <1>1 DEF vars, IInv, DirectoryTypeOK, ProcOK, RequestOK, RefOK, PartOK, SentOK,
              SoleAuthority, Deletes, Writes, Concerns
<1>2. ASSUME NEW h \in Handlers, Requests(h)
      PROVE  IInv'
  BY <1>2, RequestKeeps
<1>3. ASSUME NEW p \in Procs, Step(p)
      PROVE  IInv'
  BY <1>3, RequestStepKeeps, RemoveOrganizationKeeps, RecordKeeps, CallKeeps, MarkKeeps DEF Step
<1>4. ASSUME NEW p \in Procs, Fault(p)
      PROVE  IInv'
  BY <1>4, RequestStepKeeps, FaultKeeps DEF Fault
<1>5. ASSUME NEW w \in Workers, RetryOnce(w)
      PROVE  IInv'
  BY <1>5, RetryOnceKeeps
<1>6. ASSUME NEW e \in Events, RetryTimeElapses(e)
      PROVE  IInv'
  BY <1>6, RetryTimeKeeps
<1> QED
  BY <1>1, <1>2, <1>3, <1>4, <1>5, <1>6 DEF Next

LEMMA Inductive == Spec => []IInv
  BY IInvInit, IInvStep, PTL DEF Spec

\* Whatever requests, workers and faults do, the directory, the metadata, the
\* rows and the goroutines stay within what the code knows (Dispatch,
\* ApplyBranch, RetryOnce, SaveGroup, ArchiveGroup).
THEOREM DirectoryTypeCorrect == Spec => []DirectoryTypeOK
  BY Inductive, PTL DEF IInv

-----------------------------------------------------------------------------
(* The promise of every projection table.                                   *)

Recorded == {e \in Events : rows[e].status # "none"}
Asked    == [e \in Events |-> rows[e].pl]
Synced   == {e \in Events : rows[e].status = "synced"}

LEMMA AskedType ==
  ASSUME rows \in [Events -> Row]
  PROVE  Asked \in [Events -> P!Effects]
  BY DEF Asked, Row, Payload, P!Effects

LEMMA SameMeaning ==
  ASSUME NEW e \in Events, NEW t \in Tuples
  PROVE  /\ P!SoleAuthority(e, t) <=> SoleAuthority(e, t)
         /\ P!Writes(e, t) <=> Writes(e, t)
<1>1. \A f \in Events : /\ P!Deletes(f, t) <=> Deletes(f, t)
                        /\ P!Writes(f, t) <=> Writes(f, t)
  BY DEF P!Deletes, P!Writes, Deletes, Writes
<1>2. \A f \in Events : P!Concerns(f, t) <=> Concerns(f, t)
  BY <1>1 DEF P!Concerns, Concerns
<1> QED
  BY <1>1, <1>2 DEF P!SoleAuthority, SoleAuthority

LEMMA InitMaps == Init => P!Init
<1> SUFFICES ASSUME Init
             PROVE  P!Init
  OBVIOUS
<1>1. StoresOK /\ \A e \in Events : rows[e].status = "none"
  BY IInvInit, StoresType DEF Init, NoRow
<1>2. Recorded = {} /\ Synced = {}
  BY <1>1 DEF Recorded, Synced
<1> QED
  BY <1>1, <1>2, AskedType DEF StoresOK, P!Init, Recorded, Asked, Synced

LEMMA StillMaps ==
  ASSUME rows' = rows, graph' = graph
  PROVE  UNCHANGED P!pvars
  BY DEF P!pvars

LEMMA RecordMaps ==
  ASSUME IInv, NEW p \in Procs, Record(p)
  PROVE  P!Next
<1>1. PICK e \in Events :
        /\ IsNext(e)
        /\ rows' = [rows EXCEPT ![e] = [pl |-> proc[p].plan[1], due |-> FALSE,
                                        status |-> "pending"]]
  BY DEF Record
<1>2. rows \in [Events -> Row] /\ rows' \in [Events -> Row]
  BY RecordKeeps DEF IInv, DirectoryTypeOK
<1>3. /\ rows[e].status = "none" /\ rows'[e].status = "pending"
      /\ \A f \in Events \ {e} : rows'[f] = rows[f]
  BY <1>1, <1>2 DEF IsNext
<1>4. Asked' \in [Events -> P!Effects]
  <2>1. \A f \in Events : rows'[f].pl \in P!Effects
    BY <1>2 DEF Row, Payload, P!Effects
  <2> QED
    BY <2>1 DEF Asked
<1>5. e \notin Recorded /\ Recorded' = Recorded \cup {e} /\ Synced' = Synced
  BY <1>3 DEF Recorded, Synced
<1>6. \A f \in Events \ {e} : Asked'[f] = Asked[f]
  BY <1>3 DEF Asked
<1>7. graph' = graph
  BY DEF Record
<1>8. P!Record(e)
  BY <1>4, <1>5, <1>6, <1>7 DEF P!Record, Recorded, Asked, Synced
<1> QED
  BY <1>8 DEF P!Next

LEMMA CallMaps ==
  ASSUME IInv, NEW p \in Procs,
         DeleteRelationships(p) \/ WriteRelationships(p) \/ CallError(p)
  PROVE  P!Next \/ UNCHANGED P!pvars
<1> DEFINE e == proc[p].ev
<1>1. /\ rows' = rows /\ e \in Events /\ rows[e].status # "none"
      /\ \/ \E f \in rows[e].pl.filters : graph' = graph \ f
         \/ graph' = graph \cup rows[e].pl.rels
         \/ graph' = graph
  BY CallKeeps
<1> HIDE DEF e
<1>2. CASE graph' = graph
  BY <1>1, <1>2, StillMaps
<1>3. CASE \/ \E f \in rows[e].pl.filters : graph' = graph \ f
           \/ graph' = graph \cup rows[e].pl.rels
  <2>1. P!Call(e)
    BY <1>1, <1>3 DEF P!Call
  <2> QED
    BY <1>1, <2>1 DEF P!Next
<1> QED
  BY <1>1, <1>2, <1>3

\* A row reads "synced" only when all calls of a goroutine are done: each
\* relationship that the event alone decides about is as it says.
LEMMA MarkMaps ==
  ASSUME IInv, NEW p \in Procs, MarkProjecting(p) \/ MarkFailure(p) \/ MarkSynced(p)
  PROVE  P!Next
<1>0. PICK e \in Events : e = proc[p].ev
  BY MarkKeeps
<1>1. /\ SameRows /\ graph' = graph /\ e \in Events /\ rows[e].status # "none"
      /\ \A d \in Events \ {e} : rows'[d] = rows[d]
      /\ rows'[e].status = "synced" <=> CallsDone(p)
  BY <1>0, MarkKeeps
<1>2. Recorded' = Recorded /\ Asked' = Asked
  BY <1>1 DEF SameRows, Recorded, Asked
<1>3. CASE CallsDone(p)
  <2>1. Synced' = Synced \cup {e} /\ e \in Recorded
    BY <1>1, <1>3 DEF Synced, Recorded
  <2>2. ASSUME NEW t \in Tuples, P!SoleAuthority(e, t)
        PROVE  t \in graph <=> P!Writes(e, t)
    <3>1. SoleAuthority(e, t) /\ (P!Writes(e, t) <=> Writes(e, t))
      BY <1>1, <2>2, SameMeaning
    <3>2. /\ proc[p].pc = "work" /\ proc[p].todo = {} /\ proc[p].puts = {} /\ SentOK(proc[p])
      BY <1>3 DEF CallsDone, IInv, ProcOK
    <3>3. (Deletes(e, t) => t \notin graph) /\ (Writes(e, t) => t \in graph)
      BY <1>0, <3>1, <3>2 DEF SentOK
    <3> QED
      BY <3>1, <3>3 DEF SoleAuthority
  <2>3. P!Effective(e)
    BY <2>2 DEF P!Effective
  <2>4. P!Confirm(e)
    BY <1>1, <1>2, <2>1, <2>3 DEF P!Confirm, Recorded, Asked, Synced
  <2> QED
    BY <2>4 DEF P!Next
<1>4. CASE ~CallsDone(p)
  <2>1. Synced' = Synced \ {e}
    BY <1>1, <1>4 DEF Synced
  <2>2. P!Retract(e)
    BY <1>1, <1>2, <2>1 DEF P!Retract, Recorded, Asked, Synced
  <2> QED
    BY <2>2 DEF P!Next
<1> QED
  BY <1>3, <1>4

LEMMA RequestMaps ==
  ASSUME IInv, NEW h \in Procs,
         \/ Requests(h) \/ RemainingGroups(h) \/ RemoveOrganization(h)
         \/ SaveMetadata(h) \/ ReconcileUsers(h) \/ RemainingGroupsError(h)
  PROVE  UNCHANGED P!pvars
<1>1. rows' = rows /\ graph' = graph
  BY DEF Requests, CreateOrganization, DeleteOrganization, Reconcile, CreateGroup, UpdateGroup,
         DeleteGroup, AssignUserToGroup, RemoveUserFromGroup, CreateUser, PurgeUser,
         RemainingGroups, RemoveOrganization, SaveMetadata, ReconcileUsers,
         RemainingGroupsError, Disturb, stores
<1> QED
  BY <1>1, StillMaps

\* The directory projection implements the projection table's promise: every
\* step of a request, a worker, a reconciliation, the clock or a fault
\* records, calls, confirms or retracts an event, or changes nothing the table
\* shows (Dispatch, ApplyBranch, RetryOnce, markFailure).
THEOREM DirectoryKeepsPromise == Spec => ImplementsProjection
<1>1. ASSUME IInv, [Next]_vars
      PROVE  P!Next \/ UNCHANGED P!pvars
  <2>1. CASE UNCHANGED vars
    BY <2>1, StillMaps DEF vars
  <2>2. ASSUME NEW h \in Handlers, Requests(h)
        PROVE  P!Next \/ UNCHANGED P!pvars
    BY <1>1, <2>2, RequestMaps DEF Procs
  <2>3. ASSUME NEW p \in Procs, Step(p)
        PROVE  P!Next \/ UNCHANGED P!pvars
    BY <1>1, <2>3, RequestMaps, RecordMaps, CallMaps, MarkMaps DEF Step
  <2>4. ASSUME NEW p \in Procs, Fault(p)
        PROVE  P!Next \/ UNCHANGED P!pvars
    BY <1>1, <2>4, RequestMaps, FaultKeeps, StillMaps DEF Fault
  <2>5. ASSUME NEW w \in Workers, RetryOnce(w)
        PROVE  P!Next \/ UNCHANGED P!pvars
    BY <1>1, <2>5, RetryOnceKeeps, StillMaps
  <2>6. ASSUME NEW e \in Events, RetryTimeElapses(e)
        PROVE  UNCHANGED P!pvars
    <3>1. SameRows /\ graph' = graph /\ \A d \in Events : rows'[d].status = rows[d].status
      BY <1>1, <2>6, RetryTimeKeeps
    <3>2. Recorded' = Recorded /\ Asked' = Asked /\ Synced' = Synced
      BY <3>1 DEF SameRows, Recorded, Asked, Synced
    <3> QED
      BY <3>1, <3>2 DEF P!pvars, Recorded, Asked, Synced
  <2> QED
    BY <1>1, <2>1, <2>2, <2>3, <2>4, <2>5, <2>6 DEF Next
<1> QED
  BY <1>1, InitMaps, Inductive, PTL DEF Spec, ImplementsProjection, P!Spec

-----------------------------------------------------------------------------
(* The promise follows from what the events of a projection table may do,   *)
(* whatever they ask for: proved of P, for any rows and graph.              *)

PromiseInv ==
  /\ Recorded \in SUBSET Events /\ Synced \in SUBSET Recorded
  /\ Asked \in [Events -> P!Effects] /\ graph \in SUBSET Tuples
  /\ \A e \in Synced : P!Effective(e)

LEMMA PromiseInvMeans == PromiseInv <=> P!PTypeOK /\ P!Promise
  BY DEF PromiseInv, P!PTypeOK, P!Promise, Recorded, Asked, Synced

\* What the definitions of P say in terms of these names, before a step and after it.
LEMMA PromiseReads ==
  ASSUME NEW e \in Events, NEW t
  PROVE  /\ P!Deletes(e, t) <=> \E f \in Asked[e].filters : t \in f
         /\ P!Writes(e, t) <=> t \in Asked[e].rels
         /\ P!Concerns(e, t) <=> e \in Recorded /\ (P!Deletes(e, t) \/ P!Writes(e, t))
         /\ P!Deletes(e, t)' <=> \E f \in Asked'[e].filters : t \in f
         /\ P!Writes(e, t)' <=> t \in Asked'[e].rels
         /\ P!Concerns(e, t)' <=> e \in Recorded' /\ (P!Deletes(e, t)' \/ P!Writes(e, t)')
  BY DEF P!Deletes, P!Writes, P!Concerns, Asked, Recorded

\* A new row says nothing about what other events alone decide.
LEMMA PromiseOnRecord ==
  ASSUME PromiseInv, NEW e \in Events, P!Record(e)
  PROVE  PromiseInv'
<1>1. /\ e \notin Recorded /\ Recorded' = Recorded \cup {e} /\ Synced' = Synced /\ graph' = graph
      /\ Asked' \in [Events -> P!Effects] /\ \A f \in Events \ {e} : Asked'[f] = Asked[f]
  BY DEF P!Record, Recorded, Asked, Synced
<1>2. ASSUME NEW f \in Synced
      PROVE  P!Effective(f)'
  <2>1. f \in Events /\ f # e /\ Asked'[f] = Asked[f] /\ P!Effective(f)
    BY <1>1, <1>2 DEF PromiseInv
  <2>2. ASSUME NEW t \in Tuples, P!SoleAuthority(f, t)'
        PROVE  P!SoleAuthority(f, t)
    <3>1. (P!Deletes(f, t) <=> P!Deletes(f, t)') /\ (P!Writes(f, t) <=> P!Writes(f, t)')
      BY <2>1, PromiseReads
    <3>2. ASSUME NEW g \in Events \ {f}
          PROVE  ~P!Concerns(g, t)
      <4>1. CASE g = e
        BY <1>1, <4>1, PromiseReads
      <4>2. CASE g # e
        <5>1. ~P!Concerns(g, t)' /\ Asked'[g] = Asked[g]
          BY <1>1, <2>2, <3>2, <4>2 DEF P!SoleAuthority
        <5> QED
          BY <1>1, <5>1, PromiseReads
      <4> QED
        BY <4>1, <4>2
    <3> QED
      BY <2>2, <3>1, <3>2 DEF P!SoleAuthority
  <2>3. \A t : P!Writes(f, t)' <=> P!Writes(f, t)
    BY <2>1, PromiseReads
  <2> QED
    BY <1>1, <2>1, <2>2, <2>3 DEF P!Effective
<1>3. P!Effects' = P!Effects
  BY DEF P!Effects
<1> QED
  BY <1>1, <1>2, <1>3 DEF PromiseInv

\* A call changes only what its event asks for.
LEMMA PromiseOnCall ==
  ASSUME PromiseInv, NEW e \in Events, P!Call(e)
  PROVE  PromiseInv'
<1>1. /\ e \in Recorded /\ Recorded' = Recorded /\ Synced' = Synced /\ Asked' = Asked
      /\ \/ \E f \in Asked[e].filters : graph' = graph \ f
         \/ graph' = graph \cup Asked[e].rels
  BY DEF P!Call, Recorded, Asked, Synced
<1>2. graph' \in SUBSET Tuples
  <2>1. Asked[e].rels \in SUBSET Tuples
    BY DEF PromiseInv, P!Effects
  <2> QED
    BY <1>1, <2>1 DEF PromiseInv
<1>3. ASSUME NEW f \in Events, NEW t
      PROVE  /\ P!Deletes(f, t)' <=> P!Deletes(f, t)
             /\ P!Writes(f, t)' <=> P!Writes(f, t)
             /\ P!Concerns(f, t)' <=> P!Concerns(f, t)
  BY <1>1, PromiseReads
<1>4. ASSUME NEW f \in Synced, NEW t \in Tuples, P!SoleAuthority(f, t)'
      PROVE  t \in graph' <=> P!Writes(f, t)'
  <2>1. f \in Events
    BY DEF PromiseInv
  <2>2. P!SoleAuthority(f, t) /\ (P!Writes(f, t)' <=> P!Writes(f, t))
    BY <1>3, <1>4, <2>1 DEF P!SoleAuthority
  <2>3. t \in graph <=> P!Writes(f, t)
    BY <2>2 DEF PromiseInv, P!Effective
  <2>4. CASE e = f
    BY <1>1, <2>2, <2>3, <2>4, PromiseReads DEF P!SoleAuthority
  <2>5. CASE e # f
    <3>1. ~P!Deletes(e, t) /\ ~P!Writes(e, t)
      BY <1>1, <2>2, <2>5, PromiseReads DEF P!SoleAuthority
    <3> QED
      BY <1>1, <2>2, <2>3, <3>1, PromiseReads
  <2> QED
    BY <2>4, <2>5
<1>5. P!Effects' = P!Effects
  BY DEF P!Effects
<1> QED
  BY <1>1, <1>2, <1>4, <1>5 DEF PromiseInv, P!Effective

\* Neither a confirmation nor a retraction changes what is in effect.
LEMMA PromiseOnConfirm ==
  ASSUME PromiseInv, NEW e \in Events, P!Confirm(e) \/ P!Retract(e)
  PROVE  PromiseInv'
<1>1. /\ Recorded' = Recorded /\ Asked' = Asked /\ graph' = graph
      /\ Synced' \subseteq Recorded /\ \A f \in Synced' : P!Effective(f)
  BY DEF P!Confirm, P!Retract, PromiseInv, Recorded, Asked, Synced
<1>2. ASSUME NEW f \in Events, NEW t
      PROVE  P!Writes(f, t)' <=> P!Writes(f, t)
  BY <1>1, PromiseReads
<1>3. ASSUME NEW f \in Events, NEW t, P!SoleAuthority(f, t)'
      PROVE  P!SoleAuthority(f, t)
  BY <1>1, <1>3, PromiseReads DEF P!SoleAuthority
<1>4. \A f \in Synced' : P!Effective(f)'
  BY <1>1, <1>2, <1>3 DEF P!Effective, PromiseInv
<1>5. P!Effects' = P!Effects
  BY DEF P!Effects
<1> QED
  BY <1>1, <1>4, <1>5 DEF PromiseInv

\* No silent success, for every table that keeps to Projection: what reads
\* "synced" is in effect (Dispatch, ApplyBranch, RetryOnce).
THEOREM PromiseKept == P!Spec => [](P!PTypeOK /\ P!Promise)
<1>1. P!Init => PromiseInv
  BY PromiseInvMeans DEF P!Init, P!PTypeOK, P!Promise
<1>2. PromiseInv /\ [P!Next]_(P!pvars) => PromiseInv'
  <2> SUFFICES ASSUME PromiseInv, [P!Next]_(P!pvars)
               PROVE  PromiseInv'
    OBVIOUS
  <2>1. CASE UNCHANGED P!pvars
    <3>1. Recorded' = Recorded /\ Asked' = Asked /\ Synced' = Synced /\ graph' = graph
      BY <2>1 DEF P!pvars, Recorded, Asked, Synced
    <3>2. ASSUME NEW f \in Events, NEW t
          PROVE  P!Writes(f, t)' <=> P!Writes(f, t)
      BY <3>1, PromiseReads
    <3>3. ASSUME NEW f \in Events, NEW t, P!SoleAuthority(f, t)'
          PROVE  P!SoleAuthority(f, t)
      BY <3>1, <3>3, PromiseReads DEF P!SoleAuthority
    <3>4. \A f \in Synced : P!Effective(f)'
      BY <3>1, <3>2, <3>3 DEF P!Effective, PromiseInv
    <3>5. P!Effects' = P!Effects
      BY DEF P!Effects
    <3> QED
      BY <3>1, <3>4, <3>5 DEF PromiseInv
  <2> QED
    BY <2>1, PromiseOnRecord, PromiseOnCall, PromiseOnConfirm DEF P!Next
<1> QED
  BY <1>1, <1>2, PromiseInvMeans, PTL DEF P!Spec

\* No silent success in the directory projection: a row that reads "synced"
\* is in effect, for the relationships no other row is about (Dispatch,
\* ApplyBranch, RetryOnce, markFailure).
THEOREM DirectorySyncedIsApplied == Spec => []P!Promise
  BY DirectoryKeepsPromise, PromiseKept, PTL DEF ImplementsProjection

-----------------------------------------------------------------------------
(* Reconciliation.                                                          *)

OnlyWrites(e) == rows[e].pl.filters = {}

\* What q still does, or will do without another request, only writes.
QuietProc(q) ==
  \/ q.pc \in {"idle", "purge"}
  \/ /\ q.pc \in {"users", "record", "mark", "work", "fail"}
     /\ ~(Len(q.plan) > 1)
     /\ q.pc \in {"users", "record"} => q.plan[1].filters = {}
     /\ \A e \in q.batch : OnlyWrites(e)
     /\ q.pc \in {"mark", "work", "fail"} => OnlyWrites(q.ev)

Quiet ==
  /\ \A p \in Procs : QuietProc(proc[p])
  /\ \A e \in Events : rows[e].status \in {"pending", "failed"} => OnlyWrites(e)

Watched == trusted # 0 \/ \E p \in Procs : proc[p].calm

ReadOK(q) ==
  q.calm => /\ q.pc = "users" => FromGroups \subseteq q.plan[1].rels
            /\ q.pc = "record" => Desired \subseteq q.plan[1].rels

TrustOK ==
  trusted # 0 =>
    /\ rows[trusted].status # "none" /\ Desired \subseteq rows[trusted].pl.rels
    /\ rows[trusted].status = "synced" => Desired \subseteq graph
    /\ \A p \in Procs : proc[p].pc = "work" /\ proc[p].ev = trusted /\ proc[p].puts = {}
                          => Desired \subseteq graph

\* While a reconciliation is trusted, or reads with nobody disturbing it,
\* nothing is under way that deletes, and it has read what there is to write.
CInv == (Watched => Quiet) /\ (\A p \in Procs : ReadOK(proc[p])) /\ TrustOK

\* Nobody trusts anything any more.
LEMMA Unwatched ==
  ASSUME trusted' = 0, \A p \in Procs : ~proc'[p].calm
  PROVE  CInv'
  BY DEF CInv, Watched, ReadOK, TrustOK

LEMMA GoDisturbs ==
  ASSUME NEW h, NEW pc, NEW plan, NEW m, Go(h, pc, plan, m), IInv
  PROVE  \A p \in Procs : ~proc'[p].calm
<1> DEFINE q == [IdleProc EXCEPT !.pc = pc, !.plan = plan, !.model = m]
<1>1. q.calm = FALSE
  BY DEF IdleProc
<1>2. \A p \in Procs : proc'[p] = IF p = h THEN q ELSE [proc[p] EXCEPT !.calm = FALSE]
  BY DEF Go
<1>3. \A p \in Procs : [proc[p] EXCEPT !.calm = FALSE].calm = FALSE
  BY DEF IInv, DirectoryTypeOK, ProcState
<1> HIDE DEF q
<1> QED
  BY <1>1, <1>2, <1>3

\* A goroutine goes on as q, in a quiet directory.
LEMMA QuietMoves ==
  ASSUME IInv, CInv, dir' = dir, meta' = meta, trusted' = trusted, SameRows,
         NEW p \in Procs, NEW q \in ProcState, proc' = [proc EXCEPT ![p] = q],
         q.calm => proc[p].calm, ReadOK(q), RefOK(q),
         Quiet => QuietProc(q),
         Quiet => graph \subseteq graph',
         \A e \in Events : rows'[e].status \in {"pending", "failed"} =>
           rows[e].status \in {"pending", "failed"} \/ (Quiet => OnlyWrites(e)),
         \A e \in Events : rows'[e].status = "synced" =>
           rows[e].status = "synced" \/ (CallsDone(p) /\ proc[p].ev = e),
         q.pc = "work" /\ q.ev = trusted /\ q.puts = {} /\ trusted # 0 /\ Quiet
           => Desired \subseteq graph'
  PROVE  CInv'
<1>1. /\ proc \in [Procs -> ProcState] /\ proc'[p] = q
      /\ \A r \in Procs \ {p} : proc'[r] = proc[r]
      /\ trusted \in Events \cup {0}
  BY DEF IInv, DirectoryTypeOK
<1>2. FromGroups' = FromGroups /\ Desired' = Desired
  BY DEF FromGroups, FromUsers, Desired, ListedParent
<1>3. \A e \in Events : OnlyWrites(e)' <=> OnlyWrites(e)
  BY DEF SameRows, OnlyWrites
<1>4. Watched' => Watched
  BY <1>1 DEF Watched
<1>5. Watched' => Quiet'
  <2> SUFFICES ASSUME Watched'
               PROVE  Quiet'
    OBVIOUS
  <2>1. Quiet
    BY <1>4 DEF CInv
  <2>2. ASSUME NEW r \in Procs
        PROVE  QuietProc(proc'[r])
    <3>1. CASE r = p
      BY <1>1, <2>1, <3>1
    <3>2. CASE r # p
      BY <1>1, <2>1, <3>2 DEF Quiet
    <3> QED
      BY <3>1, <3>2
  <2>3. ASSUME NEW r \in Procs
        PROVE  QuietProc(proc[r])'
    <3>1. proc'[r] \in ProcState /\ RefOK(proc'[r])
      BY <1>1 DEF IInv, ProcOK
    <3>2. /\ proc'[r].batch \subseteq Events
          /\ proc'[r].pc \in {"mark", "work", "fail"} => proc'[r].ev \in Events
      BY <3>1 DEF ProcState, RefOK
    <3> QED
      BY <1>3, <2>2, <3>2 DEF QuietProc
  <2>4. \A e \in Events : rows'[e].status \in {"pending", "failed"} => OnlyWrites(e)
    BY <2>1 DEF Quiet
  <2> QED
    BY <1>3, <2>3, <2>4 DEF Quiet
<1>6. \A r \in Procs : ReadOK(proc[r])'
  <2>1. \A r \in Procs : ReadOK(proc'[r])
    BY <1>1 DEF CInv
  <2> QED
    BY <1>2, <2>1 DEF ReadOK
<1>7. TrustOK'
  <2> SUFFICES ASSUME trusted # 0
               PROVE  TrustOK'
    BY DEF TrustOK
  <2>1. Quiet /\ graph \subseteq graph' /\ trusted \in Events /\ TrustOK
    BY <1>1 DEF CInv, Watched
  <2>2. rows'[trusted].status # "none" /\ Desired \subseteq rows'[trusted].pl.rels
    BY <2>1 DEF TrustOK, SameRows
  <2>3. rows'[trusted].status = "synced" => Desired \subseteq graph'
    BY <2>1 DEF TrustOK, CallsDone
  <2>4. ASSUME NEW r \in Procs, proc'[r].pc = "work", proc'[r].ev = trusted, proc'[r].puts = {}
        PROVE  Desired \subseteq graph'
    BY <1>1, <2>1, <2>4 DEF TrustOK
  <2> QED
    BY <1>2, <2>2, <2>3, <2>4 DEF TrustOK
<1> QED
  BY <1>5, <1>6, <1>7 DEF CInv

\* p goes on between two SpiceDB calls, and quietly in a quiet directory.
Resumes(p) ==
  \E q \in ProcState :
    /\ proc' = [proc EXCEPT ![p] = q]
    /\ q.pc # "work" /\ RefOK(q) /\ ReadOK(q)
    /\ q.calm => proc[p].calm
    /\ Quiet => QuietProc(q)

LEMMA BeginResumes ==
  ASSUME NEW p \in Procs, NEW batch \in SUBSET Events, Begin(p, batch),
         \A e \in batch : rows[e].status # "none",
         Quiet => \A e \in batch : OnlyWrites(e)
  PROVE  Resumes(p)
<1>1. CASE batch = {} /\ proc' = [proc EXCEPT ![p] = IdleProc]
  <2>1. IdleProc.calm = FALSE
    BY DEF IdleProc
  <2> QED
    BY <1>1, <2>1, IdleType DEF Resumes, RefOK, ReadOK, QuietProc
<1>2. ASSUME NEW e \in batch,
             proc' = [proc EXCEPT ![p] = [IdleProc EXCEPT
                        !.pc = "mark", !.ev = e, !.batch = batch]]
      PROVE  Resumes(p)
  <2> DEFINE q == [IdleProc EXCEPT !.pc = "mark", !.ev = e, !.batch = batch]
  <2>1. q \in ProcState /\ q.batch = batch /\ q.ev = e /\ q.pc = "mark"
    BY IdleType DEF IdleProc, ProcState, PCs
  <2>2. q.calm = FALSE /\ q.plan = <<>>
    BY DEF IdleProc
  <2>3. proc' = [proc EXCEPT ![p] = q]
    BY <1>2
  <2>4. ~(Len(<<>>) > 1)
    BY EmptySeq
  <2> HIDE DEF q
  <2>5. RefOK(q) /\ ReadOK(q)
    BY <2>1, <2>2 DEF RefOK, ReadOK
  <2>6. Quiet => QuietProc(q)
    BY <2>1, <2>2, <2>4 DEF QuietProc
  <2> QED
    BY <2>1, <2>2, <2>3, <2>5, <2>6 DEF Resumes
<1> QED
  BY <1>1, <1>2 DEF Begin

LEMMA ReturnResumes ==
  ASSUME IInv, NEW p \in Procs, NEW ok \in BOOLEAN, Return(p, ok),
         proc[p].pc \in {"mark", "work", "fail"}
  PROVE  Resumes(p)
<1>1. ProcOK(proc[p]) /\ proc[p] \in ProcState
  BY DEF IInv, DirectoryTypeOK
<1>2. Quiet => QuietProc(proc[p])
  BY DEF Quiet
<1>3. CASE ok /\ Len(proc[p].plan) > 1
  <2> DEFINE q == [IdleProc EXCEPT !.pc = "record", !.plan = Tail(proc[p].plan)]
  <2>1. Tail(proc[p].plan) \in Seq(Payload)
    <3>1. proc[p].plan \in Seq(Payload) /\ proc[p].plan # <<>>
      BY <1>1, <1>3, EmptySeq DEF ProcState
    <3> QED
      BY <1>3, <3>1, TailType
  <2>2. q \in ProcState /\ q.batch = {} /\ q.pc = "record" /\ q.calm = FALSE
    BY <2>1, IdleType DEF IdleProc, ProcState, PCs
  <2>3. proc' = [proc EXCEPT ![p] = q]
    BY <1>3 DEF Return
  <2> HIDE DEF q
  <2>4. ~Quiet
    BY <1>2, <1>3 DEF QuietProc
  <2> QED
    BY <2>2, <2>3, <2>4 DEF Resumes, RefOK, ReadOK
<1>4. CASE ~(ok /\ Len(proc[p].plan) > 1)
  <2>1. Begin(p, proc[p].batch \ {proc[p].ev})
    BY <1>4 DEF Return
  <2>2. /\ proc[p].batch \ {proc[p].ev} \in SUBSET Events
        /\ \A e \in proc[p].batch \ {proc[p].ev} : rows[e].status # "none"
    BY <1>1 DEF ProcState, ProcOK, RefOK
  <2>3. Quiet => \A e \in proc[p].batch \ {proc[p].ev} : OnlyWrites(e)
    BY <1>2 DEF QuietProc
  <2> QED
    BY <2>1, <2>2, <2>3, BeginResumes
<1> QED
  BY <1>3, <1>4

LEMMA EndMarkResumes ==
  ASSUME IInv, NEW p \in Procs, proc[p].pc = "fail", EndMark(p)
  PROVE  Resumes(p)
<1>1. ProcOK(proc[p]) /\ proc[p] \in ProcState
  BY DEF IInv, DirectoryTypeOK
<1>2. CASE proc[p].marks > 1
  <2> DEFINE q == [proc[p] EXCEPT !.marks = @ - 1]
  <2>1. /\ q \in ProcState /\ q.pc = "fail" /\ q.batch = proc[p].batch
        /\ q.ev = proc[p].ev /\ q.plan = proc[p].plan /\ q.calm = proc[p].calm
    BY <1>1, <1>2 DEF ProcState
  <2>2. proc' = [proc EXCEPT ![p] = q]
    BY <1>2 DEF EndMark
  <2> HIDE DEF q
  <2>3. RefOK(q) /\ ReadOK(q)
    BY <1>1, <2>1 DEF ProcOK, RefOK, ReadOK
  <2>4. Quiet => QuietProc(q)
    BY <2>1 DEF Quiet, QuietProc
  <2> QED
    BY <2>1, <2>2, <2>3, <2>4 DEF Resumes
<1>3. CASE ~(proc[p].marks > 1)
  BY <1>3, ReturnResumes DEF EndMark
<1> QED
  BY <1>2, <1>3

\* A goroutine resumes, and what it has done is quiet as well.
LEMMA ResumeKeeps ==
  ASSUME IInv, CInv, dir' = dir, meta' = meta, trusted' = trusted, SameRows,
         NEW p \in Procs, Resumes(p),
         Quiet => graph \subseteq graph',
         \A e \in Events : rows'[e].status \in {"pending", "failed"} =>
           rows[e].status \in {"pending", "failed"} \/ (Quiet => OnlyWrites(e)),
         \A e \in Events : rows'[e].status = "synced" =>
           rows[e].status = "synced" \/ (CallsDone(p) /\ proc[p].ev = e)
  PROVE  CInv'
<1>1. PICK q \in ProcState : /\ proc' = [proc EXCEPT ![p] = q]
                             /\ q.pc # "work" /\ RefOK(q) /\ ReadOK(q)
                             /\ q.calm => proc[p].calm
                             /\ Quiet => QuietProc(q)
  BY DEF Resumes
<1> QED
  BY <1>1, QuietMoves

\* A goroutine begins with its event's calls.
LEMMA WorkKeeps ==
  ASSUME IInv, CInv, dir' = dir, meta' = meta, trusted' = trusted, graph' = graph, SameRows,
         NEW p \in Procs, proc[p].pc = "mark", Work(p),
         \A e \in Events : rows'[e].status \in {"pending", "failed", "synced"} =>
           rows'[e].status = rows[e].status
  PROVE  CInv'
<1>1. ProcOK(proc[p]) /\ proc[p] \in ProcState /\ rows \in [Events -> Row]
  BY DEF IInv, DirectoryTypeOK
<1> DEFINE q == [proc[p] EXCEPT !.pc = "work", !.todo = rows[proc[p].ev].pl.filters,
                                !.puts = rows[proc[p].ev].pl.rels]
<1>2. proc[p].ev \in Events /\ rows[proc[p].ev].pl \in Payload
  BY <1>1 DEF ProcOK, RefOK, Row
<1>3. /\ q \in ProcState /\ q.pc = "work" /\ q.batch = proc[p].batch /\ q.ev = proc[p].ev
      /\ q.puts = rows[q.ev].pl.rels /\ q.plan = proc[p].plan /\ q.calm = proc[p].calm
  BY <1>1, <1>2 DEF ProcState, PCs, Payload
<1>4. proc' = [proc EXCEPT ![p] = q]
  BY DEF Work
<1> HIDE DEF q
<1>5. RefOK(q) /\ ReadOK(q)
  BY <1>1, <1>3 DEF ProcOK, RefOK, ReadOK
<1>6. Quiet => QuietProc(q)
  BY <1>3 DEF Quiet, QuietProc
<1>7. q.pc = "work" /\ q.ev = trusted /\ q.puts = {} /\ trusted # 0 /\ Quiet
        => Desired \subseteq graph'
  BY <1>3 DEF CInv, TrustOK
<1>8. \A e \in Events : rows'[e].status \in {"pending", "failed"} =>
        rows[e].status \in {"pending", "failed"} \/ (Quiet => OnlyWrites(e))
  OBVIOUS
<1>9. \A e \in Events : rows'[e].status = "synced" =>
        rows[e].status = "synced" \/ (CallsDone(p) /\ proc[p].ev = e)
  OBVIOUS
<1>10. (q.calm => proc[p].calm) /\ (Quiet => graph \subseteq graph')
  BY <1>3
<1> QED
  BY <1>3, <1>4, <1>5, <1>6, <1>7, <1>8, <1>9, <1>10, QuietMoves

\* Requests: all but two of them end what was trusted.
LEMMA RequestWatched ==
  ASSUME IInv, CInv, NEW h \in Handlers, Requests(h)
  PROVE  CInv'
<1>1. CASE trusted' = 0 /\ \E pc, plan, m : Go(h, pc, plan, m)
  BY <1>1, GoDisturbs, Unwatched
<1>2. CASE DeleteOrganization(h)
  <2>1. h \in Procs /\ UNCHANGED <<dir, meta, rows, graph, trusted>>
    BY <1>2 DEF Procs, DeleteOrganization, stores
  <2>2. PICK plan : Go(h, "purge", plan, NoModel)
    BY <1>2 DEF DeleteOrganization
  <2>3. \A p \in Procs : ~proc'[p].calm
    BY <2>2, GoDisturbs
  <2>4. proc'[h].pc = "purge"
    BY <2>1, <2>2 DEF Go, IdleProc
  <2>5. ASSUME NEW p \in Procs \ {h}
        PROVE  /\ proc'[p].pc = proc[p].pc /\ proc'[p].plan = proc[p].plan
               /\ proc'[p].batch = proc[p].batch /\ proc'[p].ev = proc[p].ev
               /\ proc'[p].puts = proc[p].puts
    BY <2>2 DEF Go, IInv, DirectoryTypeOK, ProcState
  <2>6. Watched' => Quiet'
    <3>1. Watched' => Quiet
      BY <2>1, <2>3 DEF Watched, CInv
    <3>2. ASSUME NEW p \in Procs, QuietProc(proc[p])
          PROVE  QuietProc(proc[p])'
      BY <2>1, <2>4, <2>5, <3>2 DEF QuietProc, OnlyWrites
    <3> QED
      BY <2>1, <3>1, <3>2 DEF Quiet, OnlyWrites
  <2>7. Desired' = Desired
    BY <2>1 DEF Desired, FromGroups, FromUsers, ListedParent
  <2>8. TrustOK'
    BY <2>1, <2>4, <2>5, <2>7 DEF CInv, TrustOK
  <2> QED
    BY <2>3, <2>6, <2>8 DEF CInv, ReadOK
<1>3. CASE Reconcile(h)
  <2>1. h \in Procs /\ UNCHANGED <<dir, meta, rows, graph, trusted>>
    BY <1>3 DEF Procs, Reconcile, stores
  <2> DEFINE q == [IdleProc EXCEPT !.pc = "users", !.plan = <<WriteOf(FromGroups)>>,
                                   !.calm = AtRest]
  <2>2. /\ q.pc = "users" /\ q.plan = <<WriteOf(FromGroups)>> /\ q.batch = {}
        /\ q.calm = AtRest
    BY DEF IdleProc
  <2>3. proc' = [proc EXCEPT ![h] = q] /\ proc \in [Procs -> ProcState]
    BY <1>3 DEF Reconcile, IInv, DirectoryTypeOK
  <2> HIDE DEF q
  <2>4. proc'[h] = q /\ \A p \in Procs \ {h} : proc'[p] = proc[p]
    BY <2>1, <2>3
  <2>5. Desired' = Desired /\ FromGroups' = FromGroups
    BY <2>1 DEF Desired, FromGroups, FromUsers, ListedParent
  <2>6. q.plan[1].rels = FromGroups /\ q.plan[1].filters = {} /\ ~(Len(q.plan) > 1)
    BY <2>2 DEF WriteOf
  <2>7. ReadOK(proc[h])'
    BY <2>2, <2>4, <2>5, <2>6 DEF ReadOK
  <2>8. ASSUME NEW p \in Procs \ {h}
        PROVE  ReadOK(proc[p])'
    BY <2>4, <2>5 DEF CInv, ReadOK
  <2>9. QuietProc(proc[h])'
    BY <2>2, <2>4, <2>6 DEF QuietProc
  <2>10. AtRest => Quiet
    BY DEF AtRest, Idle, Quiet, QuietProc
  <2>11. Quiet => Quiet'
    <3>1. ASSUME NEW p \in Procs \ {h}, QuietProc(proc[p])
          PROVE  QuietProc(proc[p])'
      BY <2>1, <2>4, <3>1 DEF QuietProc, OnlyWrites
    <3> QED
      BY <2>1, <2>9, <3>1 DEF Quiet, OnlyWrites
  <2>12. Watched' => Watched \/ AtRest
    BY <2>1, <2>2, <2>4 DEF Watched
  <2>13. TrustOK'
    BY <2>1, <2>2, <2>4, <2>5 DEF CInv, TrustOK
  <2> QED
    BY <2>7, <2>8, <2>10, <2>11, <2>12, <2>13 DEF CInv
<1>4. CASE ~DeleteOrganization(h) /\ ~Reconcile(h)
  <2>1. trusted' = 0 /\ \E pc, plan, m : Go(h, pc, plan, m)
    BY <1>4 DEF Requests, CreateOrganization, CreateGroup, UpdateGroup, DeleteGroup,
                AssignUserToGroup, RemoveUserFromGroup, CreateUser, PurgeUser, Disturb
  <2> QED
    BY <1>1, <2>1
<1> QED
  BY <1>2, <1>3, <1>4

\* Steps that only a directory that is not quiet has.
LEMMA UnquietWatched ==
  ASSUME IInv, CInv, NEW p \in Procs,
         \/ RemainingGroups(p) \/ RemainingGroupsError(p) \/ SaveMetadata(p)
         \/ RemoveOrganization(p)
  PROVE  CInv'
<1>1. CASE RemoveOrganization(p)
  <2>1. trusted' = 0 /\ Go(p, "record", proc[p].plan, NoModel)
    BY <1>1 DEF RemoveOrganization, Disturb
  <2> QED
    BY <2>1, GoDisturbs, Unwatched
<1>2. CASE RemainingGroups(p) \/ RemainingGroupsError(p) \/ SaveMetadata(p)
  <2>1. proc[p].pc \in {"look", "save"} /\ trusted' = trusted
    BY <1>2 DEF RemainingGroups, RemainingGroupsError, SaveMetadata
  <2>2. ~Watched
    BY <2>1 DEF CInv, Quiet, QuietProc
  <2>3. proc \in [Procs -> ProcState]
    BY DEF IInv, DirectoryTypeOK
  <2>4. ~proc'[p].calm /\ \A r \in Procs \ {p} : proc'[r] = proc[r]
    <3>0. ~proc[p].calm
      BY <2>2 DEF Watched
    <3>1. CASE RemainingGroups(p)
      <4>1. PICK u \in Users, g \in Groups :
              \/ proc' = [proc EXCEPT ![p].pc = "record",
                   ![p].plan = <<DeleteOf({{<<"member", g, u>>}, {<<"zone_member", u>>}})>>]
              \/ proc' = [proc EXCEPT ![p].pc = "record"]
        BY <3>1 DEF RemainingGroups
      <4> QED
        BY <2>3, <3>0, <4>1 DEF ProcState
    <3>2. CASE RemainingGroupsError(p)
      BY <2>3, <3>0, <3>2 DEF RemainingGroupsError, ProcState
    <3>3. CASE SaveMetadata(p)
      BY <2>3, <3>0, <3>3 DEF SaveMetadata, ProcState
    <3> QED
      BY <1>2, <3>1, <3>2, <3>3
  <2> QED
    BY <2>1, <2>2, <2>4, Unwatched DEF Watched
<1> QED
  BY <1>1, <1>2

LEMMA ReconcileUsersWatched ==
  ASSUME IInv, CInv, NEW p \in Procs, ReconcileUsers(p)
  PROVE  CInv'
<1>1. ProcOK(proc[p]) /\ proc[p] \in ProcState /\ StoresOK
  BY StoresType DEF IInv, DirectoryTypeOK
<1> DEFINE rels == proc[p].plan[1].rels \cup FromUsers
           plan == <<WriteOf(rels)>>
           q == [proc[p] EXCEPT !.pc = "record", !.plan = plan]
<1>2. rels \in SUBSET Tuples
  <2>1. proc[p].plan \in Seq(Payload) /\ proc[p].plan # <<>>
    BY <1>1 DEF ProcState, ProcOK, RequestOK, ReconcileUsers
  <2>2. proc[p].plan[1] \in Payload
    BY <2>1, FirstType
  <2> QED
    BY <1>1, <2>2, DesiredType DEF Payload, StoresOK
<1>3. plan \in Seq(Payload) /\ plan[1].rels = rels /\ plan[1].filters = {} /\ ~(Len(plan) > 1)
  BY <1>2, OnePlan DEF WriteOf
<1>4. proc' = [proc EXCEPT ![p] = q] /\ proc[p].pc = "users"
  BY DEF ReconcileUsers
<1> HIDE DEF plan
<1>5. /\ q \in ProcState /\ q.pc = "record" /\ q.plan = plan /\ q.batch = proc[p].batch
      /\ q.calm = proc[p].calm
  BY <1>1, <1>3 DEF ProcState, PCs
<1> HIDE DEF q
<1>6. q.calm => Desired \subseteq rels
  BY <1>4, <1>5 DEF CInv, ReadOK, Desired
<1>7. ReadOK(q) /\ RefOK(q)
  BY <1>1, <1>3, <1>5, <1>6 DEF ReadOK, ProcOK, RefOK
<1>8. Quiet => QuietProc(q)
  BY <1>3, <1>4, <1>5 DEF Quiet, QuietProc
<1>9. Resumes(p)
  BY <1>4, <1>5, <1>7, <1>8 DEF Resumes
<1>10. /\ UNCHANGED <<dir, meta, trusted>> /\ rows' = rows /\ graph' = graph
       /\ SameRows
  BY DEF ReconcileUsers, stores, SameRows
<1> QED
  BY <1>9, <1>10, ResumeKeeps

LEMMA RecordWatched ==
  ASSUME IInv, CInv, NEW p \in Procs, Record(p)
  PROVE  CInv'
<1>1. ProcOK(proc[p]) /\ proc \in [Procs -> ProcState] /\ StoresOK
  BY StoresType DEF IInv, DirectoryTypeOK
<1>2. PICK e \in Events :
        /\ IsNext(e)
        /\ rows' = [rows EXCEPT ![e] = [pl |-> proc[p].plan[1], due |-> FALSE,
                                        status |-> "pending"]]
        /\ proc' = [proc EXCEPT ![p].pc = "mark", ![p].ev = e]
        /\ trusted' = IF proc[p].calm THEN e ELSE trusted
  BY DEF Record
<1>3. UNCHANGED <<dir, meta, graph>> /\ proc[p].pc = "record"
  BY DEF Record
<1>4. /\ rows[e].status = "none" /\ rows'[e].status = "pending"
      /\ rows'[e].pl = proc[p].plan[1]
      /\ \A f \in Events \ {e} : rows'[f] = rows[f]
  BY <1>1, <1>2 DEF StoresOK, IsNext
<1>5. /\ proc'[p].pc = "mark" /\ proc'[p].ev = e /\ proc'[p].plan = proc[p].plan
      /\ proc'[p].batch = proc[p].batch /\ proc'[p].calm = proc[p].calm
      /\ \A r \in Procs \ {p} : proc'[r] = proc[r]
  BY <1>1, <1>2 DEF ProcState
<1>6. FromGroups' = FromGroups /\ Desired' = Desired
  BY <1>3 DEF FromGroups, FromUsers, Desired, ListedParent
<1>7. Watched' => Watched
  BY <1>2, <1>5 DEF Watched
<1>8. Quiet => Quiet'
  <2> SUFFICES ASSUME Quiet
               PROVE  Quiet'
    OBVIOUS
  <2>1. QuietProc(proc[p]) /\ rows'[e].pl.filters = {}
    BY <1>3, <1>4 DEF Quiet, QuietProc
  <2>2. \A r \in Procs : /\ proc[r].batch \subseteq Events
                         /\ \A f \in proc[r].batch : f # e /\ rows'[f] = rows[f]
    BY <1>1, <1>4 DEF IInv, ProcOK, RefOK, ProcState
  <2>3. QuietProc(proc[p])'
    BY <1>3, <1>5, <2>1, <2>2 DEF QuietProc, OnlyWrites
  <2>4. ASSUME NEW r \in Procs \ {p}
        PROVE  QuietProc(proc[r])'
    <3>1. QuietProc(proc[r]) /\ RefOK(proc[r])
      BY DEF Quiet, IInv, ProcOK
    <3>2. proc[r].pc \in {"mark", "work", "fail"} => rows'[proc[r].ev] = rows[proc[r].ev]
      BY <1>4, <3>1 DEF RefOK
    <3> QED
      BY <1>5, <2>2, <3>1, <3>2 DEF QuietProc, OnlyWrites
  <2>5. \A f \in Events : rows'[f].status \in {"pending", "failed"} => rows'[f].pl.filters = {}
    BY <1>4, <2>1 DEF Quiet, OnlyWrites
  <2> QED
    BY <2>3, <2>4, <2>5 DEF Quiet, OnlyWrites
<1>9. \A r \in Procs : ReadOK(proc[r])'
  BY <1>5, <1>6 DEF CInv, ReadOK
<1>10. TrustOK'
  <2>1. CASE proc[p].calm
    <3>1. Desired \subseteq proc[p].plan[1].rels
      BY <1>3, <2>1 DEF CInv, ReadOK
    <3>2. ASSUME NEW r \in Procs, proc'[r].pc = "work"
          PROVE  proc'[r].ev # e
      <4>1. r # p /\ proc[r].pc = "work" /\ proc'[r].ev = proc[r].ev
        BY <1>5, <3>2
      <4> QED
        BY <1>4, <4>1 DEF IInv, ProcOK, RefOK
    <3> QED
      BY <1>2, <1>4, <1>6, <2>1, <3>1, <3>2 DEF TrustOK
  <2>2. CASE ~proc[p].calm
    <3>1. trusted' = trusted /\ (trusted # 0 => trusted \in Events \ {e})
      BY <1>1, <1>2, <1>4, <2>2 DEF CInv, TrustOK, StoresOK
    <3>2. trusted # 0 => rows'[trusted] = rows[trusted]
      BY <1>4, <3>1
    <3> QED
      BY <1>3, <1>5, <1>6, <3>1, <3>2 DEF CInv, TrustOK
  <2> QED
    BY <2>1, <2>2
<1> QED
  BY <1>7, <1>8, <1>9, <1>10 DEF CInv

\* SpiceDB calls: in a quiet directory none of them deletes.
LEMMA CallWatched ==
  ASSUME IInv, CInv, NEW p \in Procs,
         DeleteRelationships(p) \/ WriteRelationships(p) \/ CallError(p)
  PROVE  CInv'
<1> DEFINE e == proc[p].ev
<1>1. ProcOK(proc[p]) /\ proc[p] \in ProcState /\ StoresOK
  BY StoresType DEF IInv, DirectoryTypeOK
<1>2. /\ e \in Events /\ proc[p].pc = "work"
      /\ proc[p].todo \subseteq rows[e].pl.filters /\ proc[p].puts \in {{}, rows[e].pl.rels}
  BY <1>1 DEF ProcOK, RefOK, PartOK, DeleteRelationships, WriteRelationships, CallError
<1>3. /\ rows' = rows /\ SameRows
      /\ dir' = dir /\ meta' = meta /\ trusted' = trusted
  BY DEF DeleteRelationships, WriteRelationships, CallError, SameRows
<1>4. Quiet => proc[p].todo = {}
  BY <1>2 DEF Quiet, QuietProc, OnlyWrites
<1>5. Quiet => graph \subseteq graph'
  BY <1>4 DEF DeleteRelationships, WriteRelationships, CallError
<1>6. \A d \in Events : rows'[d].status \in {"pending", "failed"} =>
        rows[d].status \in {"pending", "failed"} \/ (Quiet => OnlyWrites(d))
  BY <1>3
<1>7. \A d \in Events : rows'[d].status = "synced" =>
        rows[d].status = "synced" \/ (CallsDone(p) /\ proc[p].ev = d)
  BY <1>3
<1>8. CASE DeleteRelationships(p)
  <2>1. PICK f \in proc[p].todo : proc' = [proc EXCEPT ![p].todo = @ \ {f}]
    BY <1>8 DEF DeleteRelationships
  <2> DEFINE q == [proc[p] EXCEPT !.todo = @ \ {f}]
  <2>2. /\ q \in ProcState /\ q.pc = "work" /\ q.ev = e /\ q.batch = proc[p].batch
        /\ q.plan = proc[p].plan /\ q.calm = proc[p].calm
    BY <1>1, <1>2 DEF ProcState
  <2>3. proc' = [proc EXCEPT ![p] = q]
    BY <2>1
  <2> HIDE DEF q
  <2>4. ReadOK(q) /\ RefOK(q)
    BY <1>1, <1>2, <2>2 DEF ReadOK, ProcOK, RefOK
  <2>5. ~Quiet
    BY <1>4, <2>1
  <2> QED
    BY <1>3, <1>5, <1>6, <1>7, <2>2, <2>3, <2>4, <2>5, QuietMoves
<1>9. CASE WriteRelationships(p)
  <2> DEFINE q == [proc[p] EXCEPT !.puts = {}]
  <2>1. /\ q \in ProcState /\ q.pc = "work" /\ q.ev = e /\ q.batch = proc[p].batch
        /\ q.plan = proc[p].plan /\ q.calm = proc[p].calm
    BY <1>1, <1>2 DEF ProcState
  <2>2. proc' = [proc EXCEPT ![p] = q] /\ graph' = graph \cup rows[e].pl.rels
    BY <1>2, <1>9 DEF WriteRelationships
  <2> HIDE DEF q
  <2>3. ReadOK(q) /\ RefOK(q)
    BY <1>1, <1>2, <2>1 DEF ReadOK, ProcOK, RefOK
  <2>4. Quiet => QuietProc(q)
    BY <1>2, <2>1 DEF Quiet, QuietProc
  <2>5. e = trusted /\ trusted # 0 => Desired \subseteq graph'
    BY <2>2 DEF CInv, TrustOK
  <2> QED
    BY <1>3, <1>5, <1>6, <1>7, <2>1, <2>2, <2>3, <2>4, <2>5, QuietMoves
<1>10. CASE CallError(p)
  <2> DEFINE k == IF p \in Workers THEN 2 ELSE 1
  <2>1. k \in 0 .. 2
    OBVIOUS
  <2> DEFINE q == [proc[p] EXCEPT !.pc = "fail", !.todo = {}, !.puts = {}, !.marks = k]
  <2> HIDE DEF k
  <2>2. /\ q \in ProcState /\ q.pc = "fail" /\ q.ev = e /\ q.batch = proc[p].batch
        /\ q.plan = proc[p].plan /\ q.calm = proc[p].calm
    BY <1>1, <2>1 DEF ProcState, PCs
  <2>3. proc' = [proc EXCEPT ![p] = q]
    BY <1>10 DEF CallError, k
  <2> HIDE DEF q
  <2>4. ReadOK(q) /\ RefOK(q)
    BY <1>1, <1>2, <2>2 DEF ReadOK, ProcOK, RefOK
  <2>5. Quiet => QuietProc(q)
    BY <1>2, <2>2 DEF Quiet, QuietProc
  <2>6. Resumes(p)
    BY <2>2, <2>3, <2>4, <2>5 DEF Resumes
  <2> QED
    BY <1>3, <1>5, <1>6, <1>7, <2>6, ResumeKeeps
<1> QED
  BY <1>8, <1>9, <1>10

LEMMA MarkWatched ==
  ASSUME IInv, CInv, NEW p \in Procs, MarkProjecting(p) \/ MarkFailure(p) \/ MarkSynced(p)
  PROVE  CInv'
<1>0. PICK e \in Events : e = proc[p].ev
  BY MarkKeeps
<1>1. /\ SameRows /\ graph' = graph
      /\ \A d \in Events \ {e} : rows'[d] = rows[d]
      /\ rows'[e].status = "synced" <=> CallsDone(p)
  BY <1>0, MarkKeeps
<1>2. dir' = dir /\ meta' = meta /\ trusted' = trusted /\ rows \in [Events -> Row]
  BY DEF MarkProjecting, MarkFailure, MarkSynced, IInv, DirectoryTypeOK
<1>3. CASE MarkProjecting(p)
  <2>1. rows'[e].status = "projecting" /\ proc[p].pc = "mark" /\ Work(p)
    BY <1>0, <1>2, <1>3 DEF MarkProjecting, Row
  <2>2. \A d \in Events : rows'[d].status \in {"pending", "failed", "synced"} =>
          rows'[d].status = rows[d].status
    BY <1>1, <2>1
  <2> QED
    BY <1>1, <1>2, <2>1, <2>2, WorkKeeps
<1>4. CASE MarkFailure(p)
  <2>1. proc[p].pc = "fail" /\ Resumes(p)
    BY <1>4, EndMarkResumes DEF MarkFailure
  <2>2. Quiet => OnlyWrites(e)
    BY <1>0, <2>1 DEF Quiet, QuietProc
  <2>3. \A d \in Events : rows'[d].status \in {"pending", "failed"} =>
          rows[d].status \in {"pending", "failed"} \/ (Quiet => OnlyWrites(d))
    BY <1>1, <2>2
  <2>4. \A d \in Events : rows'[d].status = "synced" =>
          rows[d].status = "synced" \/ (CallsDone(p) /\ proc[p].ev = d)
    BY <1>0, <1>1
  <2> QED
    BY <1>1, <1>2, <2>1, <2>3, <2>4, ResumeKeeps
<1>5. CASE MarkSynced(p)
  <2>1. CallsDone(p) /\ Return(p, TRUE)
    BY <1>5 DEF MarkSynced
  <2>2. Resumes(p)
    BY <2>1, ReturnResumes DEF CallsDone
  <2>3. \A d \in Events : rows'[d].status \in {"pending", "failed"} =>
          rows[d].status \in {"pending", "failed"} \/ (Quiet => OnlyWrites(d))
    BY <1>1, <2>1
  <2>4. \A d \in Events : rows'[d].status = "synced" =>
          rows[d].status = "synced" \/ (CallsDone(p) /\ proc[p].ev = d)
    BY <1>0, <1>1
  <2> QED
    BY <1>1, <1>2, <2>2, <2>3, <2>4, ResumeKeeps
<1> QED
  BY <1>3, <1>4, <1>5

LEMMA FaultWatched ==
  ASSUME IInv, CInv, NEW p \in Procs, RequestError(p) \/ MarkError(p) \/ Abandon(p)
  PROVE  CInv'
<1>1. /\ dir' = dir /\ meta' = meta /\ trusted' = trusted
      /\ rows' = rows /\ graph' = graph /\ SameRows
  BY DEF RequestError, MarkError, Abandon, stores, SameRows
<1>2. CASE Resumes(p)
  BY <1>1, <1>2, ResumeKeeps
<1>3. CASE proc' = [proc EXCEPT ![p] = IdleProc]
  <2>1. IdleProc.calm = FALSE
    BY DEF IdleProc
  <2>2. Resumes(p)
    BY <1>3, <2>1, IdleType DEF Resumes, RefOK, ReadOK, QuietProc
  <2> QED
    BY <1>2, <2>2
<1>4. CASE proc[p].pc = "mark" /\ Work(p)
  BY <1>1, <1>4, WorkKeeps
<1>5. CASE CallsDone(p) /\ Return(p, TRUE)
  BY <1>2, <1>5, ReturnResumes DEF CallsDone
<1>6. CASE proc[p].pc = "fail" /\ EndMark(p)
  BY <1>2, <1>6, EndMarkResumes
<1> QED
  BY <1>3, <1>4, <1>5, <1>6 DEF RequestError, MarkError, Abandon

LEMMA RetryOnceWatched ==
  ASSUME IInv, CInv, NEW w \in Workers, RetryOnce(w)
  PROVE  CInv'
<1>1. /\ dir' = dir /\ meta' = meta /\ trusted' = trusted
      /\ rows' = rows /\ graph' = graph /\ SameRows
  BY DEF RetryOnce, stores, SameRows
<1>2. w \in Procs /\ Begin(w, Due)
  BY DEF Procs, RetryOnce
<1>3. /\ Due \in SUBSET Events
      /\ \A e \in Due : rows[e].status # "none"
      /\ Quiet => \A e \in Due : OnlyWrites(e)
  BY DEF Due, Quiet
<1>4. Resumes(w)
  BY <1>2, <1>3, BeginResumes
<1> QED
  BY <1>1, <1>2, <1>4, ResumeKeeps

LEMMA RetryTimeWatched ==
  ASSUME IInv, CInv, NEW e \in Events, RetryTimeElapses(e)
  PROVE  CInv'
<1>1. SameRows /\ graph' = graph /\ \A d \in Events : rows'[d].status = rows[d].status
  BY RetryTimeKeeps
<1>2. dir' = dir /\ meta' = meta /\ trusted' = trusted /\ proc' = proc
  BY DEF RetryTimeElapses
<1>3. Desired' = Desired /\ FromGroups' = FromGroups /\ Watched' = Watched
  BY <1>2 DEF Desired, FromGroups, FromUsers, ListedParent, Watched
<1>4. \A d \in Events : OnlyWrites(d)' <=> OnlyWrites(d)
  BY <1>1 DEF SameRows, OnlyWrites
<1>5. ASSUME NEW p \in Procs, QuietProc(proc[p])
      PROVE  QuietProc(proc[p])'
  <2>1. /\ proc[p].batch \subseteq Events
        /\ proc[p].pc \in {"mark", "work", "fail"} => proc[p].ev \in Events
    BY DEF IInv, DirectoryTypeOK, ProcOK, RefOK, ProcState
  <2> QED
    BY <1>2, <1>4, <1>5, <2>1 DEF QuietProc
<1>6. Quiet => Quiet'
  BY <1>1, <1>4, <1>5 DEF Quiet
<1>7. \A p \in Procs : ReadOK(proc[p])'
  BY <1>2, <1>3 DEF CInv, ReadOK
<1>8. TrustOK'
  <2>1. trusted \in Events \cup {0}
    BY DEF IInv, DirectoryTypeOK
  <2> QED
    BY <1>1, <1>2, <1>3, <2>1 DEF CInv, TrustOK, SameRows
<1> QED
  BY <1>3, <1>6, <1>7, <1>8 DEF CInv

LEMMA CInvInit == Init => CInv
<1> SUFFICES ASSUME Init
             PROVE  CInv
  OBVIOUS
<1>1. trusted = 0
  BY DEF Init
<1>2. \A p \in Procs : proc[p].calm = FALSE
  BY DEF Init, IdleProc
<1> QED
  BY <1>1, <1>2 DEF CInv, Watched, ReadOK, TrustOK

LEMMA CInvStep == IInv /\ CInv /\ [Next]_vars => CInv'
<1> SUFFICES ASSUME IInv, CInv, [Next]_vars
             PROVE  CInv'
  OBVIOUS
<1>1. CASE UNCHANGED vars
  BY <1>1 DEF vars, CInv, Watched, Quiet, QuietProc, OnlyWrites, ReadOK, TrustOK,
              Desired, FromGroups, FromUsers, ListedParent
<1>2. ASSUME NEW h \in Handlers, Requests(h)
      PROVE  CInv'
  BY <1>2, RequestWatched
<1>3. ASSUME NEW p \in Procs, Step(p)
      PROVE  CInv'
  BY <1>3, UnquietWatched, ReconcileUsersWatched, RecordWatched, CallWatched, MarkWatched
     DEF Step
<1>4. ASSUME NEW p \in Procs, Fault(p)
      PROVE  CInv'
  BY <1>4, UnquietWatched, FaultWatched DEF Fault
<1>5. ASSUME NEW w \in Workers, RetryOnce(w)
      PROVE  CInv'
  BY <1>5, RetryOnceWatched
<1>6. ASSUME NEW e \in Events, RetryTimeElapses(e)
      PROVE  CInv'
  BY <1>6, RetryTimeWatched
<1> QED
  BY <1>1, <1>2, <1>3, <1>4, <1>5, <1>6 DEF Next

\* A reconciliation that found the zone at rest repairs it: with no request
\* after it, once its event reads "synced" SpiceDB holds every relationship of
\* the directory, whatever earlier requests, retries and failed calls left out
\* or repeat (BuildDirectoryProjectionRelationships, Reconcile, RetryOnce).
THEOREM ReconciliationRepairs == Spec => []ReconcileConverges
<1>1. CInv => ReconcileConverges
  BY DEF CInv, TrustOK, ReconcileConverges
<1> QED
  BY <1>1, CInvInit, CInvStep, Inductive, PTL DEF Spec
=============================================================================
