-------------------------- MODULE Lifecycle_proofs --------------------------
(***************************************************************************)
(* Proofs about projects and resources, for any number of rows, handlers,  *)
(* workers, events, retries and faults: Lifecycle implements Outbox, and   *)
(* what was purged stays out of SpiceDB.                                   *)
(***************************************************************************)
EXTENDS Lifecycle, Outbox_proofs

-----------------------------------------------------------------------------
(* What a handler does next is about a row of the right kind.               *)

JobOK(job) ==
  /\ job.do \in {"update", "archive", "purge"} => job.of \in Projects
  /\ job.do \in {"move", "replace", "status"} => job.of \in Resources
  /\ job.do \in {"unbind", "remove"} => job.of \in Bindings
  /\ job.do = "unbind" => job.old \in Resources \X Items

EndsOK == \A b \in Bindings : bindings[b].status = "active" =>
            bindings[b].source \in Resources /\ bindings[b].target \in Items

\* The rows and the handlers' jobs have their types.
RowsOK ==
  /\ projects \in [Projects -> {"none", "active", "archived"}]
  /\ resources \in [Resources -> Resource]
  /\ bindings \in [Bindings -> Binding]
  /\ EndsOK

JobsOK == jobs \in [Handlers -> Job] /\ \A h \in Handlers : JobOK(jobs[h])
CutsOK == cut \in [Items -> [ev : Events \cup {0}, done : BOOLEAN]]

\* What requests ask of SpiceDB are payloads.
LEMMA Requested ==
  /\ \A p \in Projects : CreatePayload(p) \in Payloads
  /\ \A r \in Resources, x \in Parents : UpsertPayload(r, x) \in Payloads
  /\ \A r \in Resources, x \in Parents, y \in Parents : MovePayload(r, x, y) \in Payloads
  /\ \A r \in Resources, x \in Items : {BindPayload(r, x), UnbindPayload(r, x)} \subseteq Payloads
  /\ \A x \in Items : Purge(x) \in Payloads
  BY LifecycleOK DEF LifecyclePayloads

LEMMA NoJobType == NoJob \in Job /\ JobOK(NoJob) /\ NoJob.do = "none"
  BY DEF NoJob, Job, JobOK, NoResource, Resource, Parents

\* A handler goes on with a job of the right kind.
LEMMA ContinueOK ==
  ASSUME JobsOK, NEW h \in Handlers, NEW job \in Job, JobOK(job), Continue(h, job)
  PROVE  JobsOK'
<1>1. jobs' = [jobs EXCEPT ![h] = job]
  BY DEF Continue
<1> QED
  BY <1>1 DEF JobsOK

\* An event is created for a request.
LEMMA ProjectOK ==
  ASSUME JobsOK, CutsOK, NEW h \in Handlers, NEW pl, NEW job \in Job, JobOK(job),
         Project(h, pl, job)
  PROVE  JobsOK' /\ CutsOK' /\ CreateAndDispatch(h, pl)
<1>1. PICK e \in Events :
        /\ Continue(h, IF job.do = "none" THEN job ELSE [job EXCEPT !.ev = e])
        /\ cut' = [x \in Items |->
             IF pl = Purge(x) /\ NothingWrites(x) THEN [ev |-> e, done |-> FALSE]
             ELSE IF WritesOf(pl) \cap About(x) # {} THEN NotCut ELSE cut[x]]
  BY DEF Project
<1>2. [job EXCEPT !.ev = e] \in Job /\ JobOK([job EXCEPT !.ev = e])
  BY DEF Job, JobOK
<1>3. JobsOK'
  BY <1>1, <1>2, ContinueOK
<1>4. CutsOK'
  BY <1>1 DEF CutsOK, NotCut
<1> QED
  BY <1>3, <1>4 DEF Project

\* What a request or the rest of one does: it keeps the types, and creates one
\* event or none.
Tame ==
  /\ RowsOK' /\ JobsOK' /\ CutsOK'
  /\ (\E h \in Handlers, pl \in Payloads : CreateAndDispatch(h, pl)) \/ UNCHANGED vars

LEMMA RowsOnlyTame ==
  ASSUME CutsOK, RowsOK', JobsOK', RowsOnly
  PROVE  Tame
  BY DEF Tame, RowsOnly, vars, CutsOK

LEMMA ProjectTame ==
  ASSUME JobsOK, CutsOK, RowsOK', NEW h \in Handlers, NEW pl \in Payloads,
         NEW job \in Job, JobOK(job), Project(h, pl, job)
  PROVE  Tame
  BY ProjectOK DEF Tame

LEMMA SameRowsOK ==
  ASSUME RowsOK, UNCHANGED rowVars
  PROVE  RowsOK'
  BY DEF RowsOK, rowVars, EndsOK

LEMMA ProjectRequestsTame ==
  ASSUME RowsOK, JobsOK, CutsOK, NEW h \in Handlers, ProjectRequests(h)
  PROVE  Tame
<1>1. ASSUME NEW p \in Projects, CreateProject(h, p)
      PROVE  Tame
  <2>1. CreatePayload(p) \in Payloads
    BY Requested
  <2>2. RowsOK'
    BY <1>1 DEF CreateProject, RowsOK, EndsOK
  <2> QED
    BY <1>1, <2>1, <2>2, NoJobType, ProjectTame DEF CreateProject
<1>2. ASSUME NEW p \in Projects, UpdateProject(h, p) \/ ArchiveProject(h, p)
      PROVE  Tame
  <2>1. PICK do \in {"update", "archive"} :
          /\ Continue(h, [NoJob EXCEPT !.do = do, !.of = p])
          /\ RowsOnly /\ UNCHANGED rowVars
    BY <1>2 DEF UpdateProject, ArchiveProject
  <2>2. [NoJob EXCEPT !.do = do, !.of = p] \in Job /\ JobOK([NoJob EXCEPT !.do = do, !.of = p])
    BY NoJobType DEF Job, JobOK, Items
  <2>3. JobsOK' /\ RowsOK'
    BY <2>1, <2>2, ContinueOK, SameRowsOK
  <2> QED
    BY <2>1, <2>3, RowsOnlyTame
<1>3. CASE WriteBackProject(h)
  <2>1. RowsOK'
    BY <1>3 DEF WriteBackProject, RowsOK, EndsOK
  <2>2. JobsOK'
    BY <1>3, NoJobType, ContinueOK DEF WriteBackProject
  <2> QED
    BY <1>3, <2>1, <2>2, RowsOnlyTame DEF WriteBackProject
<1>4. CASE MarkProjectArchived(h)
  <2>1. RowsOK'
    BY <1>4 DEF MarkProjectArchived, RowsOK, EndsOK
  <2>2. jobs[h] \in Job /\ jobs[h].of \in Projects
    BY <1>4 DEF MarkProjectArchived, Doing, JobsOK, JobOK
  <2>3. /\ [jobs[h] EXCEPT !.do = "purge"] \in Job
        /\ JobOK([jobs[h] EXCEPT !.do = "purge"])
    BY <2>2 DEF Job, JobOK
  <2>4. JobsOK'
    BY <1>4, <2>3, ContinueOK DEF MarkProjectArchived
  <2> QED
    BY <1>4, <2>1, <2>4, RowsOnlyTame DEF MarkProjectArchived
<1>5. CASE PurgeProject(h)
  <2>1. jobs[h].of \in Items
    BY <1>5 DEF PurgeProject, Doing, JobsOK, JobOK, Items
  <2>2. Purge(jobs[h].of) \in Payloads
    BY <2>1, Requested
  <2>3. RowsOK'
    BY <1>5, SameRowsOK DEF PurgeProject
  <2> QED
    BY <1>5, <2>2, <2>3, NoJobType, ProjectTame DEF PurgeProject
<1> QED
  BY <1>1, <1>2, <1>3, <1>4, <1>5 DEF ProjectRequests

LEMMA ResourceRequestsTame ==
  ASSUME RowsOK, JobsOK, CutsOK, NEW h \in Handlers, ResourceRequests(h)
  PROVE  Tame
<1>1. ASSUME NEW r \in Resources, NEW x \in Parents, NEW s \in Given,
             UpsertResource(h, r, x, s)
      PROVE  Tame
  <2>1. UpsertPayload(r, x) \in Payloads
    BY Requested
  <2>2. [status |-> s, parent |-> x] \in Resource
    BY LifecycleOK DEF Resource
  <2>3. RowsOK'
    BY <1>1, <2>2 DEF UpsertResource, RowsOK, EndsOK
  <2> QED
    BY <1>1, <2>1, <2>3, NoJobType, ProjectTame DEF UpsertResource
<1>2. ASSUME NEW r \in Resources, NEW x \in Parents, MoveResource(h, r, x)
      PROVE  Tame
  <2> DEFINE job == [NoJob EXCEPT !.do = "move", !.of = r,
                            !.row = [resources[r] EXCEPT !.parent = x],
                            !.old = <<resources[r].parent, Nobody>>]
  <2>1. /\ [resources[r] EXCEPT !.parent = x] \in Resource
        /\ <<resources[r].parent, Nobody>> \in Parents \X Parents
    BY DEF RowsOK, Resource, Parents
  <2>2. job \in Job /\ JobOK(job)
    BY <2>1, NoJobType DEF Job, JobOK, Items
  <2> HIDE DEF job
  <2>3. JobsOK' /\ RowsOK'
    BY <1>2, <2>2, ContinueOK, SameRowsOK DEF MoveResource, job
  <2> QED
    BY <1>2, <2>3, RowsOnlyTame DEF MoveResource
<1>3. CASE WriteBackResource(h)
  <2>1. jobs[h] \in Job /\ jobs[h].of \in Resources /\ jobs[h].row \in Resource
    BY <1>3 DEF WriteBackResource, Doing, JobsOK, JobOK, Job
  <2>2. /\ [jobs[h] EXCEPT !.do = "replace"] \in Job
        /\ JobOK([jobs[h] EXCEPT !.do = "replace"])
    BY <2>1 DEF Job, JobOK
  <2>3. RowsOK'
    BY <1>3, <2>1 DEF WriteBackResource, RowsOK, EndsOK
  <2>4. JobsOK'
    BY <1>3, <2>2, ContinueOK DEF WriteBackResource
  <2> QED
    BY <1>3, <2>3, <2>4, RowsOnlyTame DEF WriteBackResource
<1>4. CASE ReplaceParent(h)
  <2> DEFINE r == jobs[h].of
             old == jobs[h].old[1]
             new == jobs[h].row.parent
  <2>1. r \in Resources /\ old \in Parents /\ new \in Parents
    BY <1>4 DEF ReplaceParent, Doing, JobsOK, JobOK, Job, Resource
  <2>2. MovePayload(r, old, new) \in Payloads
    BY <2>1, Requested
  <2>3. RowsOK'
    BY <1>4, SameRowsOK DEF ReplaceParent
  <2>4. CASE Project(h, MovePayload(r, old, new), NoJob)
    BY <2>2, <2>3, <2>4, NoJobType, ProjectTame
  <2>5. CASE Continue(h, NoJob) /\ RowsOnly
    <3>1. JobsOK'
      BY <2>5, NoJobType, ContinueOK
    <3> QED
      BY <2>3, <2>5, <3>1, RowsOnlyTame
  <2> QED
    BY <1>4, <2>4, <2>5 DEF ReplaceParent
<1>5. ASSUME NEW r \in Resources, NEW s \in {"archived", "deleted"},
             RetireResource(h, r, s)
      PROVE  Tame
  <2> DEFINE job == [NoJob EXCEPT !.do = "status", !.of = r,
                                  !.row = [NoResource EXCEPT !.status = s]]
  <2>1. [NoResource EXCEPT !.status = s] \in Resource
    BY DEF NoResource, Resource, Parents
  <2>2. job \in Job /\ JobOK(job)
    BY <2>1, NoJobType DEF Job, JobOK, Items
  <2>3. Purge(r) \in Payloads
    BY Requested DEF Items
  <2> HIDE DEF job
  <2>4. RowsOK'
    BY <1>5, SameRowsOK DEF RetireResource
  <2> QED
    BY <1>5, <2>2, <2>3, <2>4, ProjectTame DEF RetireResource, job
<1>6. CASE MarkResource(h)
  <2>1. jobs[h].of \in Resources /\ jobs[h].row \in Resource
    BY <1>6 DEF MarkResource, Doing, JobsOK, JobOK, Job
  <2>2. RowsOK'
    BY <1>6, <2>1 DEF MarkResource, RowsOK, EndsOK, Resource
  <2>3. JobsOK'
    BY <1>6, NoJobType, ContinueOK DEF MarkResource
  <2>4. CutsOK'
    <3> DEFINE d == cut[jobs[h].of].done \/ cut[jobs[h].of].ev = jobs[h].ev
    <3>1. cut' = [cut EXCEPT ![jobs[h].of].done = d] /\ d \in BOOLEAN
      BY <1>6, <2>1 DEF MarkResource, CutsOK, Items
    <3> HIDE DEF d
    <3> QED
      BY <3>1 DEF CutsOK
  <2> QED
    BY <1>6, <2>2, <2>3, <2>4 DEF Tame, MarkResource, vars
<1> QED
  BY <1>1, <1>2, <1>3, <1>4, <1>5, <1>6 DEF ResourceRequests

LEMMA BindingRequestsTame ==
  ASSUME RowsOK, JobsOK, CutsOK, NEW h \in Handlers, BindingRequests(h)
  PROVE  Tame
<1>1. ASSUME NEW b \in Bindings, NEW r \in Resources, NEW x \in Items,
             BindResource(h, b, r, x)
      PROVE  Tame
  <2>1. BindPayload(r, x) \in Payloads
    BY Requested
  <2>2. [status |-> "active", source |-> r, target |-> x] \in Binding
    BY DEF Binding, Parents
  <2>3. RowsOK'
    BY <1>1, <2>2 DEF BindResource, RowsOK, EndsOK
  <2> QED
    BY <1>1, <2>1, <2>3, NoJobType, ProjectTame DEF BindResource
<1>2. ASSUME NEW b \in Bindings, UnbindResource(h, b)
      PROVE  Tame
  <2> DEFINE job == [NoJob EXCEPT !.do = "unbind", !.of = b,
                            !.old = <<bindings[b].source, bindings[b].target>>]
  <2>1. <<bindings[b].source, bindings[b].target>> \in Resources \X Items
    BY <1>2 DEF UnbindResource, RowsOK, EndsOK
  <2>2. job \in Job /\ JobOK(job)
    BY <2>1, NoJobType DEF Job, JobOK, Items, Parents
  <2> HIDE DEF job
  <2>3. JobsOK' /\ RowsOK'
    BY <1>2, <2>2, ContinueOK, SameRowsOK DEF UnbindResource, job
  <2> QED
    BY <1>2, <2>3, RowsOnlyTame DEF UnbindResource
<1>3. CASE DeleteBound(h)
  <2> DEFINE ends == jobs[h].old
             pl == UnbindPayload(ends[1], ends[2])
  <2>1. jobs[h] \in Job /\ jobs[h].of \in Bindings /\ ends \in Resources \X Items
    BY <1>3 DEF DeleteBound, Doing, JobsOK, JobOK
  <2>2. pl \in Payloads
    BY <2>1, Requested
  <2>3. /\ [jobs[h] EXCEPT !.do = "remove"] \in Job
        /\ JobOK([jobs[h] EXCEPT !.do = "remove"])
    BY <2>1 DEF Job, JobOK
  <2>4. RowsOK'
    BY <1>3, SameRowsOK DEF DeleteBound
  <2>5. Project(h, pl, [jobs[h] EXCEPT !.do = "remove"])
    BY <1>3 DEF DeleteBound
  <2> HIDE DEF pl
  <2> QED
    BY <2>2, <2>3, <2>4, <2>5, ProjectTame
<1>4. CASE RemoveBinding(h)
  <2>1. NoBinding \in Binding /\ NoBinding.status = "none"
    BY DEF NoBinding, Binding, Parents
  <2>2. RowsOK'
    BY <1>4, <2>1 DEF RemoveBinding, RowsOK, EndsOK
  <2>3. JobsOK'
    BY <1>4, NoJobType, ContinueOK DEF RemoveBinding
  <2> QED
    BY <1>4, <2>2, <2>3, RowsOnlyTame DEF RemoveBinding
<1> QED
  BY <1>1, <1>2, <1>3, <1>4 DEF BindingRequests

-----------------------------------------------------------------------------
(* Lifecycle implements Outbox.                                             *)

\* What a handler's Dispatch and the workers do are steps of the manager.
LEMMA ManagerSteps ==
  ASSUME JobsOK, (\E h \in Handlers : DispatchStep(h)) \/ WorkerNext
  PROVE  ManagerNext /\ UNCHANGED <<rowVars, cut>> /\ JobsOK'
<1>1. ASSUME NEW h \in Handlers, DispatchStep(h)
      PROVE  ManagerNext /\ UNCHANGED <<rowVars, cut>> /\ JobsOK'
  <2>1. h \in Procs
    BY ConstantsOK
  <2>2. ManagerNext /\ UNCHANGED <<rowVars, cut>>
    BY <1>1, <2>1 DEF DispatchStep, AppliesOK, ManagerNext, Step
  <2>3. CASE UNCHANGED jobs
    BY <2>2, <2>3 DEF JobsOK
  <2>4. CASE jobs' = [jobs EXCEPT ![h] = IF proc'[h].pc = "idle" THEN NoJob ELSE @]
    <3>1. jobs' = [jobs EXCEPT ![h] = NoJob] \/ jobs' = jobs
      BY <2>4 DEF JobsOK
    <3> QED
      BY <2>2, <3>1, NoJobType DEF JobsOK
  <2> QED
    BY <1>1, <2>3, <2>4 DEF DispatchStep
<1>2. CASE WorkerNext
  <2>1. ManagerNext
    BY <1>2, ConstantsOK DEF WorkerNext, ManagerNext
  <2> QED
    BY <1>2, <2>1 DEF WorkerNext, JobsOK
<1> QED
  BY <1>1, <1>2

JInv == IInv /\ RowsOK /\ JobsOK /\ CutsOK

\* Each step of Lifecycle is one of Outbox, and keeps the types.
LEMMA LifecycleStep ==
  ASSUME JInv, [LifecycleNext]_lifecycleVars
  PROVE  [Next]_vars /\ JInv'
<1>1. CASE Tame
  <2>1. [Next]_vars
    BY <1>1 DEF Tame, Next
  <2> QED
    BY <1>1, <2>1, NextOK DEF Tame, JInv
<1>2. CASE ManagerNext /\ UNCHANGED <<rowVars, cut>> /\ JobsOK'
  <2>1. Next
    BY <1>2 DEF Next
  <2>2. RowsOK' /\ CutsOK'
    BY <1>2, SameRowsOK DEF JInv, CutsOK
  <2> QED
    BY <1>2, <2>1, <2>2, NextOK DEF JInv
<1>3. ASSUME NEW h \in Handlers, JobError(h)
      PROVE  Tame
  <2>1. JobsOK' /\ RowsOK'
    BY <1>3, NoJobType, ContinueOK, SameRowsOK DEF JobError, JInv
  <2> QED
    BY <1>3, <2>1, RowsOnlyTame DEF JobError, JInv
<1>4. CASE UNCHANGED lifecycleVars
  <2>1. RowsOK' /\ JobsOK' /\ CutsOK'
    BY <1>4, SameRowsOK DEF lifecycleVars, rowVars, JInv, JobsOK, CutsOK
  <2> QED
    BY <1>1, <1>4, <2>1 DEF Tame, lifecycleVars, vars
<1> QED
  BY <1>1, <1>2, <1>3, <1>4, ProjectRequestsTame, ResourceRequestsTame,
     BindingRequestsTame, ManagerSteps DEF LifecycleNext, JInv

\* Bindings that are there at first have ends: their relationship is one.
LEMMA StartEnds ==
  ASSUME NEW rows \in Start, NEW b \in Bindings, rows.bindings[b].status = "active"
  PROVE  rows.bindings[b].source \in Resources /\ rows.bindings[b].target \in Items
<1> DEFINE t == <<"bound", rows.bindings[b].source, rows.bindings[b].target>>
<1>1. t \in RelationshipsOf(rows)
  BY DEF RelationshipsOf
<1>2. t \in LifecycleTuples
  BY <1>1, LifecycleOK
<1>3. PICK k \in {"parent", "bound"}, r \in Resources, x \in Items : t = <<k, r, x>>
  BY <1>2 DEF LifecycleTuples
<1> QED
  BY <1>3

LEMMA LifecycleInitOK == LifecycleInit => JInv
<1> SUFFICES ASSUME LifecycleInit
             PROVE  JInv
  OBVIOUS
<1>1. PICK rows \in Start : /\ projects = rows.projects /\ resources = rows.resources
                            /\ bindings = rows.bindings
  BY DEF LifecycleInit
<1>2. rows \in [projects : [Projects -> {"none", "active"}],
                resources : [Resources -> Resource], bindings : [Bindings -> Binding]]
  BY LifecycleOK
<1>3. RowsOK
  BY <1>1, <1>2, StartEnds DEF RowsOK, EndsOK
<1>4. JobsOK /\ CutsOK
  BY NoJobType DEF LifecycleInit, JobsOK, CutsOK, NotCut
<1>5. IInv
  BY InitOK DEF LifecycleInit
<1> QED
  BY <1>3, <1>4, <1>5 DEF JInv

LEMMA LifecycleInductive == LifecycleSpec => []JInv
  BY LifecycleInitOK, LifecycleStep, PTL DEF LifecycleSpec

\* Rows, jobs and the table keep their types (project, resource services).
THEOREM LifecycleTypeCorrect == LifecycleSpec => []LifecycleTypeOK
<1>1. JInv => LifecycleTypeOK
  BY DEF JInv, IInv, RowsOK, JobsOK, CutsOK, LifecycleTypeOK
<1> QED
  BY <1>1, LifecycleInductive, PTL

\* Projects and resources implement Outbox: every statement of their requests
\* is one the projection manager's specification allows, so what is proved of
\* the manager holds of them.
THEOREM LifecycleIsOutbox == LifecycleSpec => LifecycleImplementsOutbox
<1>1. LifecycleInit => Init
  BY DEF LifecycleInit
<1> QED
  BY <1>1, LifecycleStep, LifecycleInductive, PTL
  DEF LifecycleSpec, LifecycleImplementsOutbox, Spec

\* No silent success for projects and resources: an event of theirs that reads
\* "synced" is in effect as far as no other event is about the same thing, and
\* a fault leaves at most one event in "projecting" (ApplyEvent, markFailed).
THEOREM LifecycleSyncedIsApplied ==
  LifecycleSpec => [](SyncedEffect /\ StrandedPerFault)
  BY LifecycleIsOutbox, SyncedIsApplied, OneRowPerFault, PTL
  DEF LifecycleImplementsOutbox

-----------------------------------------------------------------------------
(* What was purged stays out of SpiceDB.                                    *)

\* The event of a cut-off purges, and nothing is left that writes.
PurgesOK ==
  \A x \in Items : cut[x].ev # 0 =>
    /\ outbox[cut[x].ev].status # "none" /\ outbox[cut[x].ev].pl = Purge(x)
    /\ NothingWrites(x)

\* What the purge no longer has to delete is gone.
PurgedOK ==
  \A x \in Items, p \in Procs :
    cut[x].ev # 0 /\ proc[p].pc = "work" /\ proc[p].ev = cut[x].ev
    => \A t \in About(x) : t \notin graph \/ \E f \in proc[p].todo : t \in f

\* A handler that is to mark a row dispatches the event of its purge; once it
\* is told that this succeeded the row's relationships are gone.
ReplyOK(h) ==
  jobs[h].do = "status" =>
    /\ jobs[h].ev \in Events /\ outbox[jobs[h].ev].status # "none"
    /\ proc[h].batch \subseteq {jobs[h].ev}
    /\ proc[h].pc = "idle" /\ cut[jobs[h].of].ev = jobs[h].ev
         => graph \cap About(jobs[h].of) = {}

CInv == JInv /\ PurgesOK /\ PurgedOK /\ (\A h \in Handlers : ReplyOK(h)) /\ CutOff

LEMMA PurgeFilters ==
  ASSUME NEW x \in Items
  PROVE  /\ \A t \in About(x) : \E f \in FiltersOf(Purge(x)) : t \in f
         /\ WritesOf(Purge(x)) = {}
  BY DEF Purge, Delete, FiltersOf, WritesOf, About

\* Nothing writes about what was cut off.
LEMMA NotWrittenAgain ==
  ASSUME CInv, ManagerNext, NEW x \in Items, cut[x].ev # 0,
         NEW t \in About(x), t \in graph'
  PROVE  t \in graph
<1> SUFFICES ASSUME t \notin graph
             PROVE  FALSE
  OBVIOUS
<1>0. IInv
  BY DEF CInv, JInv
<1>1. PICK p \in Procs : proc[p].pc = "work" /\ t \in proc[p].puts
  BY <1>0, AddedByPuts
<1>2. /\ RefOK(p) /\ PartOK(p)
      /\ proc[p].ev \in Events /\ outbox[proc[p].ev].status # "none"
  BY <1>0, <1>1, InHand
<1>3. proc[p].ev \in proc[p].batch /\ t \in WritesOf(outbox[proc[p].ev].pl)
  BY <1>1, <1>2 DEF RefOK, PartOK
<1>4. Over(proc[p].ev)
  BY <1>2, <1>3 DEF CInv, PurgesOK, NothingWrites
<1> QED
  BY <1>3, <1>4 DEF Over

\* The manager works: what has been cut off stays so.
LEMMA ManagerCuts ==
  ASSUME CInv, ManagerNext, cut' = cut
  PROVE  PurgesOK' /\ PurgedOK' /\ CutOff'
<1>0. IInv /\ CutsOK
  BY DEF CInv, JInv
<1>1. SameRows
  BY <1>0, ManagerKeepsRows
<1>2. ASSUME NEW x \in Items, cut[x].ev # 0
      PROVE  /\ cut[x].ev \in Events
             /\ outbox[cut[x].ev].status # "none" /\ outbox[cut[x].ev].pl = Purge(x)
             /\ NothingWrites(x)
  BY <1>0, <1>2 DEF CInv, PurgesOK, CutsOK
<1>3. PurgesOK'
  <2> SUFFICES ASSUME NEW x \in Items, cut[x].ev # 0
               PROVE  /\ outbox'[cut[x].ev].status # "none"
                      /\ outbox'[cut[x].ev].pl = Purge(x)
                      /\ NothingWrites(x)'
    BY DEF PurgesOK
  <2>1. NothingWrites(x)'
    <3> SUFFICES ASSUME NEW e \in Events, outbox'[e].status # "none",
                        WritesOf(outbox'[e].pl) \cap About(x) # {}
                 PROVE  Over(e)'
      BY DEF NothingWrites
    <3>1. Over(e)
      BY <1>1, <1>2 DEF NothingWrites, SameRows
    <3> QED
      BY <1>0, <3>1, OverStable
  <2> QED
    BY <1>1, <1>2, <2>1 DEF SameRows
<1>4. PurgedOK'
  <2> SUFFICES ASSUME NEW x \in Items, NEW p \in Procs, cut[x].ev # 0,
                      proc'[p].pc = "work", proc'[p].ev = cut[x].ev,
                      NEW t \in About(x), t \in graph'
               PROVE  \E f \in proc'[p].todo : t \in f
    BY DEF PurgedOK
  <2>1. /\ proc'[p].ev = proc[p].ev
        /\ \/ proc[p].pc = "project" /\ proc'[p].todo = proc[p].todo
           \/ /\ proc[p].pc = "work"
              /\ \A f \in proc[p].todo : f \in proc'[p].todo \/ f \cap graph' = {}
    BY <1>0, AfterStep
  <2>2. PartOK(p)
    BY <1>0, <2>1, InHand
  <2>3. t \in graph
    BY NotWrittenAgain
  <2>4. CASE proc[p].pc = "project" /\ proc'[p].todo = proc[p].todo
    BY <1>2, <2>1, <2>2, <2>4, PurgeFilters DEF PartOK
  <2>5. CASE /\ proc[p].pc = "work"
             /\ \A f \in proc[p].todo : f \in proc'[p].todo \/ f \cap graph' = {}
    <3>1. PICK f \in proc[p].todo : t \in f
      BY <2>1, <2>3, <2>5 DEF CInv, PurgedOK
    <3> QED
      BY <2>5, <3>1
  <2> QED
    BY <2>1, <2>4, <2>5
<1>5. CutOff'
  <2> SUFFICES ASSUME NEW x \in Items, cut[x].ev # 0,
                      outbox'[cut[x].ev].status = "synced" \/ cut[x].done,
                      NEW t \in About(x), t \in graph'
               PROVE  FALSE
    BY DEF CutOff
  <2>1. t \in graph
    BY NotWrittenAgain
  <2>2. CASE outbox[cut[x].ev].status = "synced" \/ cut[x].done
    BY <2>1, <2>2 DEF CInv, CutOff
  <2>3. CASE outbox[cut[x].ev].status # "synced" /\ ~cut[x].done
    <3>1. PICK p \in Procs :
            proc[p].ev = cut[x].ev /\ proc[p].pc = "work" /\ proc[p].todo = {}
      BY <1>0, <1>2, <2>3, StatusChange
    <3> QED
      BY <2>1, <3>1 DEF CInv, PurgedOK
  <2> QED
    BY <2>2, <2>3
<1> QED
  BY <1>3, <1>4, <1>5

\* A handler whose place in the manager's code a step does not concern.
LEMMA OtherReplyOK ==
  ASSUME CInv, ManagerNext, cut' = cut, NEW h \in Handlers, ReplyOK(h),
         jobs'[h] = jobs[h], proc'[h] = proc[h]
  PROVE  ReplyOK(h)'
<1> SUFFICES ASSUME jobs[h].do = "status"
             PROVE  ReplyOK(h)'
  BY DEF ReplyOK
<1>1. SameRows
  BY ManagerKeepsRows DEF CInv, JInv
<1>2. jobs[h].of \in Items
  BY DEF CInv, JInv, JobsOK, JobOK, Items
<1>3. jobs[h].ev \in Events /\ outbox'[jobs[h].ev].status # "none"
  BY <1>1 DEF ReplyOK, SameRows
<1>4. ASSUME proc[h].pc = "idle", cut[jobs[h].of].ev = jobs[h].ev
      PROVE  graph' \cap About(jobs[h].of) = {}
  <2>1. cut[jobs[h].of].ev # 0
    BY <1>3, <1>4 DEF Events
  <2> QED
    BY <1>2, <1>4, <2>1, NotWrittenAgain DEF ReplyOK
<1> QED
  BY <1>3, <1>4 DEF ReplyOK

\* A handler's own Dispatch.
LEMMA DispatchReplies ==
  ASSUME CInv, NEW h \in Handlers, DispatchStep(h)
  PROVE  \A r \in Handlers : ReplyOK(r)'
<1>0. /\ ManagerNext /\ cut' = cut /\ IInv /\ jobs \in [Handlers -> Job]
      /\ h \in Procs /\ \A r \in Handlers : ReplyOK(r)
  BY ManagerSteps, ConstantsOK DEF CInv, JInv, JobsOK
<1>1. /\ \A r \in Procs \ {h} : proc'[r] = proc[r]
      /\ proc'[h].batch \subseteq proc[h].batch
  BY <1>0, OwnStep DEF DispatchStep, AppliesOK, Step
<1>2. \A r \in Handlers \ {h} : jobs'[r] = jobs[r] /\ proc'[r] = proc[r]
  BY <1>0, <1>1, ConstantsOK DEF DispatchStep
<1>3. ASSUME jobs'[h].do = "status"
      PROVE  ReplyOK(h)'
  <2>1. jobs'[h] = jobs[h] /\ (~AppliesOK(h) => proc'[h].pc # "idle")
    BY <1>0, <1>3, NoJobType DEF DispatchStep
  <2>2. /\ jobs[h].ev \in Events /\ outbox[jobs[h].ev].status # "none"
        /\ proc[h].batch \subseteq {jobs[h].ev}
    BY <1>0, <1>3, <2>1 DEF ReplyOK
  <2>3. outbox'[jobs[h].ev].status # "none"
    BY <1>0, <2>2, ManagerKeepsRows DEF SameRows
  <2>4. ASSUME proc'[h].pc = "idle", cut[jobs[h].of].ev = jobs[h].ev,
               NEW t \in About(jobs[h].of)
        PROVE  t \notin graph'
    <3>1. AppliesOK(h) /\ graph' = graph
      BY <2>1, <2>4 DEF AppliesOK, MarkSynced, Load
    <3>2. proc[h].pc # "idle"
      BY <3>1 DEF AppliesOK, MarkSynced, CallsDone, Load
    <3>3. proc[h].ev = jobs[h].ev
      BY <1>0, <2>2, <3>2, InHand DEF RefOK
    <3>4. jobs[h].of \in Items /\ cut[jobs[h].of].ev # 0
      BY <1>3, <2>1, <2>2, <2>4 DEF CInv, JInv, JobsOK, JobOK, Items, Events
    <3>5. CASE MarkSynced(h)
      BY <1>0, <2>4, <3>1, <3>3, <3>4, <3>5 DEF MarkSynced, CallsDone, CInv, PurgedOK
    <3>6. CASE outbox[proc[h].ev].status = "synced"
      BY <2>4, <3>1, <3>3, <3>4, <3>6 DEF CInv, CutOff
    <3> QED
      BY <3>1, <3>5, <3>6 DEF AppliesOK
  <2> QED
    BY <1>0, <1>1, <2>1, <2>2, <2>3, <2>4 DEF ReplyOK
<1> QED
  BY <1>0, <1>2, <1>3, OtherReplyOK DEF ReplyOK

LEMMA WorkerReplies ==
  ASSUME CInv, WorkerNext
  PROVE  \A r \in Handlers : ReplyOK(r)'
<1>0. ManagerNext /\ cut' = cut /\ jobs' = jobs /\ IInv /\ \A r \in Handlers : ReplyOK(r)
  BY ManagerSteps DEF CInv, JInv, WorkerNext
<1>1. ASSUME NEW r \in Handlers
      PROVE  proc'[r] = proc[r]
  <2>0. r \in Procs /\ r \notin Workers
    BY ConstantsOK
  <2>1. ASSUME NEW w \in Workers, RetryOnce(w)
        PROVE  proc'[r] = proc[r]
    <3>1. ListOutboxEventsForRetry \in SUBSET Events /\ w \in Procs /\ w # r
      BY <2>0, ConstantsOK DEF ListOutboxEventsForRetry
    <3> QED
      BY <1>0, <2>0, <2>1, <3>1, BeginShrinks DEF RetryOnce
  <2>2. ASSUME NEW w \in Procs \ Handlers, Step(w) \/ DBError(w) \/ Abandon(w)
        PROVE  proc'[r] = proc[r]
    BY <1>0, <2>0, <2>2, OwnStep
  <2> QED
    BY <2>1, <2>2 DEF WorkerNext, RetryTimeElapses
<1> QED
  BY <1>0, <1>1, OtherReplyOK

\* An event is created for a request.
LEMMA ProjectCuts ==
  ASSUME CInv, NEW h \in Handlers, NEW pl, NEW job \in Job, Project(h, pl, job)
  PROVE  PurgesOK' /\ PurgedOK' /\ CutOff' /\ \A r \in Handlers : ReplyOK(r)'
<1>0. /\ IInv /\ CutsOK /\ jobs \in [Handlers -> Job] /\ h \in Procs
      /\ \A r \in Handlers : ReplyOK(r)
  BY ConstantsOK DEF CInv, JInv, JobsOK
<1>1. PICK n \in Events :
        /\ IsNext(n) /\ outbox[n].status = "none"
        /\ outbox'[n].status = "pending" /\ outbox'[n].pl = pl /\ graph' = graph
        /\ \A e \in Events \ {n} : outbox'[e] = outbox[e]
        /\ \A r \in Procs \ {h} : proc'[r] = proc[r]
        /\ proc'[h].batch = {n} /\ proc'[h].ev = n /\ proc'[h].pc \in {"submit", "load"}
        /\ \A e \in Events : Over(e) => e # n /\ Over(e)'
  BY <1>0, AfterCreate DEF Project
<1>2. PICK m \in Events :
        /\ IsNext(m)
        /\ jobs' = [jobs EXCEPT ![h] = IF job.do = "none" THEN job ELSE [job EXCEPT !.ev = m]]
        /\ cut' = [x \in Items |->
             IF pl = Purge(x) /\ NothingWrites(x) THEN [ev |-> m, done |-> FALSE]
             ELSE IF WritesOf(pl) \cap About(x) # {} THEN NotCut ELSE cut[x]]
  BY DEF Project, Continue
<1>3. m = n
  BY <1>1, <1>2, NextUnique
<1>4. ASSUME NEW x \in Items, cut'[x].ev # 0
      PROVE  \/ /\ cut'[x] = [ev |-> n, done |-> FALSE]
                /\ pl = Purge(x) /\ NothingWrites(x)
             \/ /\ cut'[x] = cut[x] /\ cut[x].ev \in Events \ {n}
                /\ outbox[cut[x].ev].pl = Purge(x) /\ outbox[cut[x].ev].status # "none"
                /\ WritesOf(pl) \cap About(x) = {} /\ NothingWrites(x)
  <2>1. CASE pl = Purge(x) /\ NothingWrites(x)
    BY <1>2, <1>3, <2>1
  <2>2. CASE ~(pl = Purge(x) /\ NothingWrites(x))
    <3>1. cut'[x] = cut[x] /\ WritesOf(pl) \cap About(x) = {}
      BY <1>2, <1>4, <2>2 DEF NotCut
    <3>2. cut[x].ev \in Events /\ cut[x].ev # 0
      BY <1>0, <1>4, <3>1 DEF CutsOK
    <3> QED
      BY <1>1, <3>1, <3>2 DEF CInv, PurgesOK
  <2> QED
    BY <2>1, <2>2
<1>5. PurgesOK'
  <2> SUFFICES ASSUME NEW x \in Items, cut'[x].ev # 0
               PROVE  /\ outbox'[cut'[x].ev].status # "none"
                      /\ outbox'[cut'[x].ev].pl = Purge(x)
                      /\ NothingWrites(x)'
    BY DEF PurgesOK
  <2>1. NothingWrites(x) /\ WritesOf(pl) \cap About(x) = {}
    BY <1>4, PurgeFilters
  <2>2. NothingWrites(x)'
    <3> SUFFICES ASSUME NEW e \in Events, outbox'[e].status # "none",
                        WritesOf(outbox'[e].pl) \cap About(x) # {}
                 PROVE  Over(e)'
      BY DEF NothingWrites
    <3>1. e # n
      BY <1>1, <2>1
    <3> QED
      BY <1>1, <2>1, <3>1 DEF NothingWrites
  <2> QED
    BY <1>1, <1>4, <2>2
<1>6. PurgedOK'
  <2> SUFFICES ASSUME NEW x \in Items, NEW p \in Procs, cut'[x].ev # 0,
                      proc'[p].pc = "work", proc'[p].ev = cut'[x].ev,
                      NEW t \in About(x), t \in graph'
               PROVE  \E f \in proc'[p].todo : t \in f
    BY DEF PurgedOK
  <2>1. p # h /\ proc'[p] = proc[p] /\ proc[p].pc = "work"
    BY <1>1
  <2>2. proc[p].ev # n
    BY <1>0, <1>1, <2>1, InHand
  <2>3. cut'[x] = cut[x] /\ cut[x].ev # 0
    BY <1>4, <2>1, <2>2
  <2> QED
    BY <1>1, <2>1, <2>3 DEF CInv, PurgedOK
<1>7. CutOff'
  <2> SUFFICES ASSUME NEW x \in Items, cut'[x].ev # 0,
                      outbox'[cut'[x].ev].status = "synced" \/ cut'[x].done
               PROVE  graph' \cap About(x) = {}
    BY DEF CutOff
  <2>1. cut'[x] = cut[x] /\ cut[x].ev \in Events \ {n}
    BY <1>1, <1>4
  <2> QED
    BY <1>1, <2>1 DEF CInv, CutOff
<1>8. ASSUME NEW r \in Handlers, jobs'[r].do = "status"
      PROVE  ReplyOK(r)'
  <2>1. CASE r = h
    <3>1. jobs'[r].ev = n
      BY <1>0, <1>2, <1>3, <1>8, <2>1 DEF Job
    <3> QED
      BY <1>1, <2>1, <3>1 DEF ReplyOK
  <2>2. CASE r # h
    <3>1. jobs'[r] = jobs[r] /\ proc'[r] = proc[r]
      BY <1>0, <1>1, <1>2, <2>2, ConstantsOK
    <3>2. jobs[r].ev \in Events \ {n} /\ jobs[r].of \in Items
      BY <1>0, <1>1, <1>8, <3>1 DEF ReplyOK, CInv, JInv, JobsOK, JobOK, Items
    <3>3. cut'[jobs[r].of].ev = jobs[r].ev => cut'[jobs[r].of] = cut[jobs[r].of]
      BY <1>4, <3>2 DEF Events
    <3> QED
      BY <1>0, <1>1, <1>8, <3>1, <3>2, <3>3 DEF ReplyOK
  <2> QED
    BY <2>1, <2>2
<1> QED
  BY <1>5, <1>6, <1>7, <1>8 DEF ReplyOK

\* A statement of a request that creates no event.
Quietly(h) ==
  RowsOnly /\ \A r \in Handlers : jobs'[r].do = "status" => jobs'[r] = jobs[r]

LEMMA RowsOnlyCuts ==
  ASSUME CInv, NEW h \in Handlers, Quietly(h)
  PROVE  PurgesOK' /\ PurgedOK' /\ CutOff' /\ \A r \in Handlers : ReplyOK(r)'
<1>1. outbox' = outbox /\ graph' = graph /\ proc' = proc /\ cut' = cut
  BY DEF Quietly, RowsOnly
<1>2. \A r \in Handlers : ReplyOK(r)'
  BY <1>1 DEF Quietly, CInv, ReplyOK
<1>3. PurgesOK'
  BY <1>1 DEF CInv, PurgesOK, NothingWrites, Over
<1>4. PurgedOK' /\ CutOff'
  BY <1>1 DEF CInv, PurgedOK, CutOff
<1> QED
  BY <1>2, <1>3, <1>4

\* The row is marked after its purge has succeeded.
LEMMA MarkCuts ==
  ASSUME CInv, NEW h \in Handlers, MarkResource(h)
  PROVE  PurgesOK' /\ PurgedOK' /\ CutOff' /\ \A r \in Handlers : ReplyOK(r)'
<1> DEFINE d == cut[jobs[h].of].done \/ cut[jobs[h].of].ev = jobs[h].ev
<1>0. /\ jobs[h].of \in Items /\ jobs[h].do = "status" /\ proc[h].pc = "idle"
      /\ CutsOK /\ JobsOK /\ ReplyOK(h)
  BY DEF MarkResource, Doing, CInv, JInv, JobsOK, JobOK, Items
<1>1. /\ outbox' = outbox /\ graph' = graph /\ proc' = proc
      /\ cut' = [cut EXCEPT ![jobs[h].of].done = d]
  BY <1>0 DEF MarkResource, CutsOK
<1>2. /\ \A x \in Items : cut'[x].ev = cut[x].ev
      /\ \A x \in Items : cut'[x].done => cut[x].done \/ (x = jobs[h].of /\ d)
  BY <1>0, <1>1 DEF CutsOK
<1>3. PurgesOK'
  BY <1>1, <1>2 DEF CInv, PurgesOK, NothingWrites, Over
<1>4. PurgedOK'
  BY <1>1, <1>2 DEF CInv, PurgedOK
<1>5. cut[jobs[h].of].ev = jobs[h].ev => graph \cap About(jobs[h].of) = {}
  BY <1>0 DEF ReplyOK
<1>6. CutOff'
  BY <1>0, <1>1, <1>2, <1>5 DEF CInv, CutOff
<1>7. \A r \in Handlers : jobs'[r].do = "status" => jobs'[r] = jobs[r] /\ jobs[r].of \in Items
  BY <1>0, NoJobType DEF MarkResource, Continue, JobsOK, JobOK, Items
<1>8. \A r \in Handlers : ReplyOK(r)'
  BY <1>1, <1>2, <1>7 DEF CInv, ReplyOK
<1> QED
  BY <1>3, <1>4, <1>6, <1>8

\* What the statements of requests are.
LEMMA RequestShape ==
  ASSUME JobsOK, RowsOK, NEW h \in Handlers,
         ProjectRequests(h) \/ ResourceRequests(h) \/ BindingRequests(h) \/ JobError(h)
  PROVE  \/ \E pl : \E job \in Job : Project(h, pl, job)
         \/ Quietly(h)
         \/ MarkResource(h)
<1>1. NoJob \in Job /\ NoJob.do = "none" /\ jobs \in [Handlers -> Job] /\ jobs[h] \in Job
  BY NoJobType DEF JobsOK
<1>2. ASSUME NEW job, job.do # "status", Continue(h, job), RowsOnly
      PROVE  Quietly(h)
  BY <1>1, <1>2 DEF Continue, Quietly
<1>3. ASSUME NEW p \in Projects,
             CreateProject(h, p) \/ UpdateProject(h, p) \/ ArchiveProject(h, p)
      PROVE  (\E pl : \E job \in Job : Project(h, pl, job)) \/ Quietly(h)
  <2>1. [NoJob EXCEPT !.do = "update", !.of = p].do # "status"
    BY DEF NoJob
  <2>2. [NoJob EXCEPT !.do = "archive", !.of = p].do # "status"
    BY DEF NoJob
  <2> QED
    BY <1>1, <1>2, <1>3, <2>1, <2>2 DEF CreateProject, UpdateProject, ArchiveProject
<1>4. CASE WriteBackProject(h) \/ MarkProjectArchived(h) \/ PurgeProject(h)
  <2>1. [jobs[h] EXCEPT !.do = "purge"].do # "status"
    BY <1>1 DEF Job
  <2> QED
    BY <1>1, <1>2, <1>4, <2>1 DEF WriteBackProject, MarkProjectArchived, PurgeProject
<1>5. ASSUME NEW r \in Resources, NEW s \in {"archived", "deleted"}, RetireResource(h, r, s)
      PROVE  \E pl : \E job \in Job : Project(h, pl, job)
  <2>1. [NoJob EXCEPT !.do = "status", !.of = r, !.row = [NoResource EXCEPT !.status = s]] \in Job
    BY <1>1 DEF Job, Items, NoResource, Resource, Parents
  <2> QED
    BY <1>5, <2>1 DEF RetireResource
<1>6. ASSUME NEW r \in Resources, NEW x \in Parents,
             MoveResource(h, r, x) \/ \E s \in Given : UpsertResource(h, r, x, s)
      PROVE  (\E pl : \E job \in Job : Project(h, pl, job)) \/ Quietly(h)
  <2>1. [NoJob EXCEPT !.do = "move", !.of = r, !.row = [resources[r] EXCEPT !.parent = x],
                      !.old = <<resources[r].parent, Nobody>>].do # "status"
    BY DEF NoJob
  <2> QED
    BY <1>1, <1>2, <1>6, <2>1 DEF MoveResource, UpsertResource
<1>7. CASE WriteBackResource(h) \/ ReplaceParent(h)
  <2>1. [jobs[h] EXCEPT !.do = "replace"].do # "status"
    BY <1>1 DEF Job
  <2> QED
    BY <1>1, <1>2, <1>7, <2>1 DEF WriteBackResource, ReplaceParent
<1>8. ASSUME NEW b \in Bindings,
             UnbindResource(h, b) \/ \E r \in Resources, x \in Items : BindResource(h, b, r, x)
      PROVE  (\E pl : \E job \in Job : Project(h, pl, job)) \/ Quietly(h)
  <2>1. [NoJob EXCEPT !.do = "unbind", !.of = b,
                      !.old = <<bindings[b].source, bindings[b].target>>].do # "status"
    BY DEF NoJob
  <2> QED
    BY <1>1, <1>2, <1>8, <2>1 DEF UnbindResource, BindResource
<1>9. CASE DeleteBound(h) \/ RemoveBinding(h)
  <2>1. [jobs[h] EXCEPT !.do = "remove"] \in Job
    BY <1>1 DEF Job
  <2> QED
    BY <1>1, <1>2, <1>9, <2>1 DEF DeleteBound, RemoveBinding
<1>10. CASE JobError(h)
  BY <1>1, <1>2, <1>10 DEF JobError
<1> QED
  BY <1>3, <1>4, <1>5, <1>6, <1>7, <1>8, <1>9, <1>10
  DEF ProjectRequests, ResourceRequests, BindingRequests

LEMMA CInvInit == LifecycleInit => CInv
<1> SUFFICES ASSUME LifecycleInit
             PROVE  CInv
  OBVIOUS
<1>1. (\A x \in Items : cut[x].ev = 0) /\ \A h \in Handlers : jobs[h].do = "none"
  BY NoJobType DEF LifecycleInit, NotCut
<1> QED
  BY <1>1, LifecycleInitOK DEF CInv, PurgesOK, PurgedOK, ReplyOK, CutOff

LEMMA CInvNext == CInv /\ [LifecycleNext]_lifecycleVars => CInv'
<1> SUFFICES ASSUME CInv, [LifecycleNext]_lifecycleVars
             PROVE  PurgesOK' /\ PurgedOK' /\ CutOff' /\ \A r \in Handlers : ReplyOK(r)'
  BY LifecycleStep DEF CInv
<1>0. JobsOK /\ RowsOK
  BY DEF CInv, JInv
<1>1. ASSUME NEW h \in Handlers,
             ProjectRequests(h) \/ ResourceRequests(h) \/ BindingRequests(h) \/ JobError(h)
      PROVE  PurgesOK' /\ PurgedOK' /\ CutOff' /\ \A r \in Handlers : ReplyOK(r)'
  BY <1>0, <1>1, RequestShape, ProjectCuts, RowsOnlyCuts, MarkCuts
<1>2. CASE (\E h \in Handlers : DispatchStep(h)) \/ WorkerNext
  BY <1>0, <1>2, ManagerSteps, ManagerCuts, DispatchReplies, WorkerReplies
<1>3. CASE UNCHANGED lifecycleVars
  <2>1. outbox' = outbox /\ graph' = graph /\ proc' = proc /\ cut' = cut /\ jobs' = jobs
    BY <1>3 DEF lifecycleVars
  <2>2. PurgesOK'
    BY <2>1 DEF CInv, PurgesOK, NothingWrites, Over
  <2> QED
    BY <2>1, <2>2 DEF CInv, PurgedOK, CutOff, ReplyOK
<1> QED
  BY <1>1, <1>2, <1>3 DEF LifecycleNext

\* An archived or deleted resource, or an archived project, stays cut off once
\* its purge reads "synced" or its row was marked, unless something about it
\* was being written or was written later: for any number of requests, workers,
\* retries and faults (ArchiveProject, ArchiveResource, DeleteResource).
THEOREM StaysCutOff == LifecycleSpec => []CutOff
<1>1. CInv => CutOff
  BY DEF CInv
<1> QED
  BY <1>1, CInvInit, CInvNext, PTL DEF LifecycleSpec
=============================================================================
