----------------------------- MODULE Lifecycle ------------------------------
(***************************************************************************)
(* Projects and resources (internal/biz/project, internal/biz/resource) on *)
(* top of the projection manager, in its direct mode.                      *)
(*                                                                         *)
(* CreateProject, UpsertResource and BindResource commit a row and its     *)
(* event in one transaction.  The other requests read a row, and write it  *)
(* and create its event in statements of their own: whole rows are written *)
(* back from what was read.  ArchiveResource, DeleteResource and           *)
(* UnbindResource change the row only after Dispatch has succeeded;        *)
(* ArchiveProject changes it first, and its event is best effort.          *)
(***************************************************************************)
EXTENDS Outbox, Sequences

CONSTANTS
  Projects, Resources, Bindings,
  Nobody,      \* no parent
  Given,       \* the statuses that clients give in UpsertResource
  Start        \* the rows that are there at first, their events over long ago

VARIABLES
  projects,    \* iam_projects: the status of each
  resources,   \* iam_resources
  bindings,    \* iam_resource_bindings
  jobs,        \* what each handler does next, apart from the manager's code
  cut          \* history: see below

rowVars == <<projects, resources, bindings>>
lifecycleVars == <<outbox, graph, proc, faults, projects, resources, bindings, jobs, cut>>

Items   == Projects \cup Resources
Parents == Items \cup {Nobody}

-----------------------------------------------------------------------------
(* Relationships: project#zone, #owner, resource#parent and bindings.       *)

LifecycleTuples ==
  {<<"zone", p>> : p \in Projects} \cup {<<"owner", x>> : x \in Items} \cup
  {<<k, r, x>> : k \in {"parent", "bound"}, r \in Resources, x \in Items}

ObjectOf(x) == {t \in LifecycleTuples : t[2] = x}
SubjectOf(x) == {t \in LifecycleTuples : Len(t) = 3 /\ t[3] = x}
About(x) == ObjectOf(x) \cup SubjectOf(x)

ParentEdge(r, x) == IF x = Nobody THEN {} ELSE {<<"parent", r, x>>}

Write(rels)       == [op |-> "write", filters |-> {}, rels |-> rels, prev |-> {}]
Replace(old, new) == [op |-> "replace", filters |-> {}, rels |-> new, prev |-> old]

\* Relationships captured to undo a delete are left out: DTM mode only.
Delete(filters) == [op |-> "delete", filters |-> filters, rels |-> {}, prev |-> {}]

\* Mutant of Purge: the relationships of which x is the subject are kept.
PurgeObject(x) == Delete({ObjectOf(x)})

\* The filters of ArchiveProject, ArchiveResource and DeleteResource.
Purge(x) == Delete({ObjectOf(x), SubjectOf(x)})

CreatePayload(p)     == Write({<<"zone", p>>, <<"owner", p>>})
UpsertPayload(r, x)  == Write({<<"owner", r>>} \cup ParentEdge(r, x))
MovePayload(r, x, y) == Replace(ParentEdge(r, x), ParentEdge(r, y))
BindPayload(r, x)    == Write({<<"bound", r, x>>})
UnbindPayload(r, x)  == Delete({{<<"bound", r, x>>}})

LifecyclePayloads ==
  {CreatePayload(p) : p \in Projects} \cup
  {UpsertPayload(r, x) : r \in Resources, x \in Parents} \cup
  {MovePayload(r, x, y) : r \in Resources, x \in Parents, y \in Parents} \cup
  {BindPayload(r, x) : r \in Resources, x \in Items} \cup
  {UnbindPayload(r, x) : r \in Resources, x \in Items} \cup
  {Purge(x) : x \in Items}

-----------------------------------------------------------------------------
Resource == [status : {"none", "active", "archived", "deleted"}, parent : Parents]
Binding  == [status : {"none", "active"}, source : Resources \cup {Nobody}, target : Parents]

NoResource == [status |-> "none", parent |-> Nobody]
NoBinding  == [status |-> "none", source |-> Nobody, target |-> Nobody]

\* do: the statement a handler makes next; of: the project, resource or
\* binding; row: the resource row it will write; old: the parent it read, or
\* the binding's ends; ev: the event whose Dispatch must succeed first.
Job == [do : {"none", "update", "archive", "purge", "move", "replace",
              "unbind", "remove", "status"},
        of : Items \cup Bindings \cup {Nobody}, row : Resource, old : Parents \X Parents,
        ev : Events \cup {0}]

NoJob == [do |-> "none", of |-> Nobody, row |-> NoResource,
          old |-> <<Nobody, Nobody>>, ev |-> 0]

\* cut[x].ev: the event that purges x, if every event that writes about x was
\* over when it was created and none has been created since; else 0.
\* cut[x].done: a handler has been told that it succeeded and has marked the row.
LifecycleTypeOK ==
  /\ TypeOK
  /\ projects \in [Projects -> {"none", "active", "archived"}]
  /\ resources \in [Resources -> Resource]
  /\ bindings \in [Bindings -> Binding]
  /\ jobs \in [Handlers -> Job]
  /\ cut \in [Items -> [ev : Events \cup {0}, done : BOOLEAN]]

NotCut == [ev |-> 0, done |-> FALSE]

\* What rows that have been left alone are in SpiceDB.
RelationshipsOf(rows) ==
  UNION ({{<<"zone", p>>, <<"owner", p>>} : p \in {q \in Projects : rows.projects[q] = "active"}} \cup
         {{<<"owner", r>>} \cup ParentEdge(r, rows.resources[r].parent) :
            r \in {q \in Resources : rows.resources[q].status = "active"}} \cup
         {{<<"bound", rows.bindings[b].source, rows.bindings[b].target>>} :
            b \in {c \in Bindings : rows.bindings[c].status = "active"}})

ASSUME LifecycleOK ==
  /\ Nobody \notin Items /\ Given \subseteq {"active", "archived", "deleted"}
  /\ LifecycleTuples \subseteq Tuples
  /\ LifecyclePayloads \subseteq Payloads
  /\ Start \subseteq [projects : [Projects -> {"none", "active"}],
                      resources : [Resources -> Resource], bindings : [Bindings -> Binding]]
  /\ \A rows \in Start : RelationshipsOf(rows) \subseteq LifecycleTuples

\* Events that are synced are of no more account to anyone: those of the first
\* rows need not be in the table.
LifecycleInit ==
  /\ Init
  /\ \E rows \in Start :
       /\ projects = rows.projects /\ resources = rows.resources /\ bindings = rows.bindings
       /\ graph = RelationshipsOf(rows)
  /\ jobs = [h \in Handlers |-> NoJob]
  /\ cut = [x \in Items |-> NotCut]

-----------------------------------------------------------------------------
\* h serves no request.
Free(h) == proc[h].pc = "idle" /\ jobs[h] = NoJob

\* h is to make a statement, and no Dispatch of it is under way.
Doing(h, do) == jobs[h].do = do /\ proc[h].pc = "idle"

Continue(h, job) == jobs' = [jobs EXCEPT ![h] = job]

RowsOnly == UNCHANGED <<outbox, graph, proc, faults, cut>>

NothingWrites(x) ==
  \A e \in Events : outbox[e].status # "none" /\ WritesOf(outbox[e].pl) \cap About(x) # {}
                      => Over(e)

\* The event of payload pl is created and dispatched by h; job is what h does
\* after Dispatch.
Project(h, pl, job) ==
  /\ CreateAndDispatch(h, pl)
  /\ \E e \in Events :
       /\ IsNext(e)
       /\ Continue(h, IF job.do = "none" THEN job ELSE [job EXCEPT !.ev = e])
       /\ cut' = [x \in Items |->
            IF pl = Purge(x) /\ NothingWrites(x) THEN [ev |-> e, done |-> FALSE]
            ELSE IF WritesOf(pl) \cap About(x) # {} THEN NotCut ELSE cut[x]]

-----------------------------------------------------------------------------
(* Projects.                                                                *)

CreateProject(h, p) ==
  /\ Free(h) /\ projects[p] = "none"
  /\ Project(h, CreatePayload(p), NoJob)
  /\ projects' = [projects EXCEPT ![p] = "active"]
  /\ UNCHANGED <<resources, bindings>>

\* The project is read, active: then every column is written back.
UpdateProject(h, p) ==
  /\ Free(h) /\ projects[p] = "active"
  /\ Continue(h, [NoJob EXCEPT !.do = "update", !.of = p])
  /\ RowsOnly /\ UNCHANGED rowVars

WriteBackProject(h) ==
  /\ Doing(h, "update")
  /\ projects' = [projects EXCEPT ![jobs[h].of] = "active"]
  /\ Continue(h, NoJob)
  /\ RowsOnly /\ UNCHANGED <<resources, bindings>>

\* Nothing is done about a project that reads "archived".
ArchiveProject(h, p) ==
  /\ Free(h) /\ projects[p] = "active"
  /\ Continue(h, [NoJob EXCEPT !.do = "archive", !.of = p])
  /\ RowsOnly /\ UNCHANGED rowVars

MarkProjectArchived(h) ==
  /\ Doing(h, "archive")
  /\ projects' = [projects EXCEPT ![jobs[h].of] = "archived"]
  /\ Continue(h, [jobs[h] EXCEPT !.do = "purge"])
  /\ RowsOnly /\ UNCHANGED <<resources, bindings>>

\* Mutant of PurgeProject: SpiceDB is called without an event.
PurgeProjectDirect(h) ==
  /\ Doing(h, "purge")
  /\ graph' = graph \ About(jobs[h].of)
  /\ Continue(h, NoJob)
  /\ UNCHANGED <<outbox, proc, faults, cut, rowVars>>

\* What becomes of Dispatch does not matter to the request.
PurgeProject(h) ==
  /\ Doing(h, "purge")
  /\ Project(h, Purge(jobs[h].of), NoJob)
  /\ UNCHANGED rowVars

-----------------------------------------------------------------------------
(* Resources.                                                               *)

Exists(x) == IF x \in Projects THEN projects[x] # "none" ELSE resources[x].status # "none"

\* Whatever the resource's status was; rows never go, so that the parent's is
\* still there when the transaction runs.
UpsertResource(h, r, x, status) ==
  /\ Free(h) /\ x # r /\ (x # Nobody => Exists(x))
  /\ Project(h, UpsertPayload(r, x), NoJob)
  /\ resources' = [resources EXCEPT ![r] = [status |-> status, parent |-> x]]
  /\ UNCHANGED <<projects, bindings>>

\* The resource is read; the new parent is not.
MoveResource(h, r, x) ==
  /\ Free(h) /\ resources[r].status # "none" /\ x # r
  /\ Continue(h, [NoJob EXCEPT !.do = "move", !.of = r,
                            !.row = [resources[r] EXCEPT !.parent = x],
                            !.old = <<resources[r].parent, Nobody>>])
  /\ RowsOnly /\ UNCHANGED rowVars

WriteBackResource(h) ==
  /\ Doing(h, "move")
  /\ resources' = [resources EXCEPT ![jobs[h].of] = jobs[h].row]
  /\ Continue(h, [jobs[h] EXCEPT !.do = "replace"])
  /\ RowsOnly /\ UNCHANGED <<projects, bindings>>

\* Neither an old nor a new parent: no event.
ReplaceParent(h) ==
  LET old == jobs[h].old[1]  new == jobs[h].row.parent IN
  /\ Doing(h, "replace")
  /\ \/ {old, new} # {Nobody} /\ Project(h, MovePayload(jobs[h].of, old, new), NoJob)
     \/ {old, new} = {Nobody} /\ Continue(h, NoJob) /\ RowsOnly
  /\ UNCHANGED rowVars

\* ArchiveResource and DeleteResource: the resource need not exist.
RetireResource(h, r, status) ==
  /\ Free(h)
  /\ Project(h, Purge(r), [NoJob EXCEPT !.do = "status", !.of = r,
                                        !.row = [NoResource EXCEPT !.status = status]])
  /\ UNCHANGED rowVars

\* Mutant of MarkResource: a status nobody handles.
MarkResourceRetired(h) ==
  LET r == jobs[h].of IN
  /\ Doing(h, "status")
  /\ resources' = [resources EXCEPT ![r].status = IF @ = "none" THEN @ ELSE "retired"]
  /\ Continue(h, NoJob)
  /\ UNCHANGED <<outbox, graph, proc, faults, cut, projects, bindings>>

\* Dispatch has succeeded.
MarkResource(h) ==
  LET r == jobs[h].of  status == jobs[h].row.status IN
  /\ Doing(h, "status")
  /\ resources' = [resources EXCEPT ![r].status = IF @ = "none" THEN @ ELSE status]
  /\ Continue(h, NoJob)
  /\ cut' = [cut EXCEPT ![r].done = @ \/ cut[r].ev = jobs[h].ev]
  /\ UNCHANGED <<outbox, graph, proc, faults, projects, bindings>>

-----------------------------------------------------------------------------
(* Bindings.                                                                *)

\* An upsert by id: the ends of a row that is there stay what they are.  No two
\* rows have the same ends.
BindResource(h, b, r, x) ==
  /\ Free(h) /\ Exists(r) /\ Exists(x)
  /\ bindings[b].status = "none" =>
       \A c \in Bindings : ~(bindings[c].source = r /\ bindings[c].target = x)
  /\ Project(h, BindPayload(r, x), NoJob)
  /\ bindings' = [bindings EXCEPT ![b] = IF @.status = "active" THEN @
                    ELSE [status |-> "active", source |-> r, target |-> x]]
  /\ UNCHANGED <<projects, resources>>

UnbindResource(h, b) ==
  /\ Free(h) /\ bindings[b].status = "active"
  /\ Continue(h, [NoJob EXCEPT !.do = "unbind", !.of = b,
                            !.old = <<bindings[b].source, bindings[b].target>>])
  /\ RowsOnly /\ UNCHANGED rowVars

DeleteBound(h) ==
  LET ends == jobs[h].old IN
  /\ Doing(h, "unbind")
  /\ Project(h, UnbindPayload(ends[1], ends[2]), [jobs[h] EXCEPT !.do = "remove"])
  /\ UNCHANGED rowVars

\* Dispatch has succeeded.
RemoveBinding(h) ==
  /\ Doing(h, "remove")
  /\ bindings' = [bindings EXCEPT ![jobs[h].of] = NoBinding]
  /\ Continue(h, NoJob)
  /\ RowsOnly /\ UNCHANGED <<projects, resources>>

-----------------------------------------------------------------------------
(* Dispatch on behalf of a request.                                         *)

\* The steps with which ApplyEvent returns no error.
AppliesOK(h) ==
  \/ MarkSynced(h)
  \/ Load(h) /\ outbox[proc[h].ev].status = "synced"

\* On an error the request returns it and does nothing more.
DispatchStep(h) ==
  /\ \/ AppliesOK(h) /\ UNCHANGED jobs
     \/ /\ (Step(h) /\ ~AppliesOK(h)) \/ DBError(h) \/ Abandon(h)
        /\ jobs' = [jobs EXCEPT ![h] = IF proc'[h].pc = "idle" THEN NoJob ELSE @]
  /\ UNCHANGED <<rowVars, cut>>

\* A statement of the request itself fails, or its goroutine stops.
JobError(h) ==
  /\ proc[h].pc = "idle" /\ jobs[h] # NoJob
  /\ Continue(h, NoJob)
  /\ RowsOnly /\ UNCHANGED rowVars

WorkerNext ==
  /\ \/ \E w \in Workers : RetryOnce(w)
     \/ \E w \in Procs \ Handlers : Step(w) \/ DBError(w) \/ Abandon(w)
     \/ \E e \in Events : RetryTimeElapses(e)
  /\ UNCHANGED <<rowVars, jobs, cut>>

ProjectRequests(h) ==
  \/ \E p \in Projects : CreateProject(h, p) \/ UpdateProject(h, p) \/ ArchiveProject(h, p)
  \/ WriteBackProject(h) \/ MarkProjectArchived(h) \/ PurgeProject(h)

ResourceRequests(h) ==
  \/ \E r \in Resources, x \in Parents :
       MoveResource(h, r, x) \/ \E s \in Given : UpsertResource(h, r, x, s)
  \/ \E r \in Resources, s \in {"archived", "deleted"} : RetireResource(h, r, s)
  \/ WriteBackResource(h) \/ ReplaceParent(h) \/ MarkResource(h)

BindingRequests(h) ==
  \/ \E b \in Bindings, r \in Resources, x \in Items : BindResource(h, b, r, x)
  \/ \E b \in Bindings : UnbindResource(h, b)
  \/ DeleteBound(h) \/ RemoveBinding(h)

LifecycleNext ==
  \/ \E h \in Handlers :
       ProjectRequests(h) \/ ResourceRequests(h) \/ BindingRequests(h)
         \/ DispatchStep(h) \/ JobError(h)
  \/ WorkerNext

LifecycleSpec == LifecycleInit /\ [][LifecycleNext]_lifecycleVars

-----------------------------------------------------------------------------
(* Properties.                                                              *)

\* Projects and resources use the projection manager as it expects: Lifecycle
\* implements Outbox (CreateOutboxEvents, Dispatch).
LifecycleImplementsOutbox == Spec

\* An archived or deleted resource is cut off: once its purge reads "synced",
\* or the request has marked the row, SpiceDB holds no relationship of it,
\* unless a write about it was under way or came after - however often the
\* purge is repeated, raced or retried (ArchiveProject, ArchiveResource,
\* DeleteResource).
CutOff ==
  \A x \in Items :
    cut[x].ev # 0 /\ (outbox[cut[x].ev].status = "synced" \/ cut[x].done)
      => graph \cap About(x) = {}
=============================================================================
