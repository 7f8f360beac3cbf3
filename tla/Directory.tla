----------------------------- MODULE Directory ------------------------------
(***************************************************************************)
(* The directory projection of one zone, in its direct mode (DTM disabled):*)
(* internal/data/identity_mode.go over iam_directory_projection_events and *)
(* internal/data/group_metadata.go over iam_groups.                        *)
(*                                                                         *)
(* Users, groups and memberships belong to Casdoor (external).  A request  *)
(* changes Casdoor, then IAM's group metadata, then records an event and   *)
(* applies it to SpiceDB: three stores and no transaction.  A retry worker *)
(* applies the events that are due again, and a reconciliation reads the   *)
(* directory and writes the relationships it should have.                  *)
(***************************************************************************)
EXTENDS Integers, Sequences

CONSTANTS
  Users, Groups,
  NoGroup,      \* a group without a parent
  Handlers,     \* goroutines serving requests or reconciling
  Workers,      \* retry workers and RetryDirectoryProjection requests
  Start,        \* bound: the directories the zone may start with
  MaxEvents,    \* bound: rows ever created
  MaxFaults     \* bound: calls of a store that fail, and stopped goroutines

Events == 1 .. MaxEvents
Procs  == Handlers \cup Workers

\* group#zone@zone, group#parent@group, group#member@group#member,
\* group#member@user, group#owner@user, zone#member@user, zone#platform.
Tuples ==
  {<<"in_zone", g>> : g \in Groups} \cup
  {<<r, g, p>> : r \in {"parent", "nested"}, g \in Groups, p \in Groups} \cup
  {<<r, g, u>> : r \in {"member", "owner"}, g \in Groups, u \in Users} \cup
  {<<"zone_member", u>> : u \in Users} \cup {<<"platform">>}

Payload == [filters : SUBSET (SUBSET Tuples), rels : SUBSET Tuples]

WriteOf(rels)     == [filters |-> {}, rels |-> rels]
DeleteOf(filters) == [filters |-> filters, rels |-> {}]

\* What Casdoor stores.  known: the group ids ever used; they are random.
DirectoryState ==
  [zone : BOOLEAN, users : SUBSET Users, disabled : SUBSET Users,
   groups : SUBSET Groups, known : SUBSET Groups,
   parent : [Groups -> Groups \cup {NoGroup}],
   members : SUBSET (Users \X Groups)]

\* A row of iam_groups, and what the table stores of each group.
GroupModel == [id : Groups \cup {NoGroup}, status : {"active", "archived"},
               parent : Groups \cup {NoGroup}]

Metadata == [Groups -> [status : {"none", "active", "archived"},
                        parent : Groups \cup {NoGroup}]]

ASSUME DirectoryOK ==
  /\ MaxEvents \in Nat /\ MaxFaults \in Nat
  /\ NoGroup \notin Groups
  /\ Handlers \cap Workers = {}
  /\ Start \subseteq DirectoryState

VARIABLES
  dir,      \* Casdoor (external)
  meta,     \* iam_groups
  rows,     \* iam_directory_projection_events, ids in created_at order
  graph,    \* SpiceDB
  proc,     \* what each goroutine is doing
  faults,   \* faults that may still happen
  lost,     \* history: one has happened that was not an error of SpiceDB
  trusted   \* history: the reconciliation that saw a directory at rest, or 0

vars == <<dir, meta, rows, graph, proc, faults, lost, trusted>>
stores == <<dir, meta, rows, graph>>
budget == <<faults, lost>>

PCs == {"idle", "save", "look", "users", "purge", "record",
        "mark", "work", "fail"}

\* plan: the payloads still to dispatch, the first one in hand; model: the
\* row of iam_groups to be saved; batch: the events listed by RetryOnce
\* and not finished; ev: the event in hand; todo, puts: SpiceDB calls still to
\* make; marks: markFailure calls owed; calm (history): nothing has disturbed
\* the reads of a reconciliation.
ProcState == [pc : PCs, plan : Seq(Payload), model : GroupModel,
              batch : SUBSET Events, ev : Events \cup {0},
              todo : SUBSET (SUBSET Tuples), puts : SUBSET Tuples,
              marks : 0 .. 2, calm : BOOLEAN]

Row == [pl : Payload, due : BOOLEAN,
        status : {"none", "pending", "projecting", "synced", "failed"}]

DirectoryTypeOK ==
  /\ dir \in DirectoryState /\ meta \in Metadata
  /\ rows \in [Events -> Row]
  /\ graph \in SUBSET Tuples
  /\ proc \in [Procs -> ProcState]
  /\ faults \in Nat /\ lost \in BOOLEAN
  /\ trusted \in Events \cup {0}

NoModel == [id |-> NoGroup, status |-> "active", parent |-> NoGroup]

IdleProc == [pc |-> "idle", plan |-> <<>>, model |-> NoModel, batch |-> {},
             ev |-> 0, todo |-> {}, puts |-> {}, marks |-> 0, calm |-> FALSE]

NoRow == [pl |-> DeleteOf({}), due |-> FALSE, status |-> "none"]

-----------------------------------------------------------------------------
(* The relationships of the directory, and the filters that remove them.    *)

groupTopologyRelationships(g, p) ==
  {<<"in_zone", g>>} \cup
  (IF p \in {NoGroup, g} THEN {} ELSE {<<"parent", g, p>>, <<"nested", p, g>>})

groupTopologyDeleteFilters(g) ==
  {{<<"in_zone", g>>}, {<<"parent", g, p>> : p \in Groups},
   {<<"nested", p, g>> : p \in Groups}}

\* Relationships of the group, to the group and to its members.
groupDeleteFilters(g) ==
  {{<<"in_zone", g>>} \cup {<<r, g, p>> : r \in {"parent", "nested"}, p \in Groups}
      \cup {<<r, g, u>> : r \in {"member", "owner"}, u \in Users},
   {<<"parent", c, g>> : c \in Groups}, {<<"nested", p, g>> : p \in Groups}}

\* Of the resource types listed, those the directory projection writes to.
userSubjectDeleteFilters(u) ==
  {{<<"zone_member", u>>}, {<<r, g, u>> : r \in {"member", "owner"}, g \in Groups}}

zoneFilter == {<<"platform">>} \cup {<<"zone_member", u>> : u \in Users}

\* ListGroups: the parent is the metadata's, where there is one.
ListedParent(g) == IF meta[g].status = "active" THEN meta[g].parent ELSE dir.parent[g]
GroupsOf(u)     == {g \in dir.groups : <<u, g>> \in dir.members}

\* BuildDirectoryProjectionRelationships: the part read by ListGroups, and the
\* part read by FindUsers.
FromGroups ==
  {<<"platform">>}
    \cup (UNION {groupTopologyRelationships(g, ListedParent(g)) : g \in dir.groups})
    \cup {<<"member", m[2], m[1]>> : m \in dir.members}

FromUsers ==
  {<<"zone_member", u>> : u \in dir.users}
    \cup {<<"member", m[2], m[1]>> : m \in dir.members}

Desired == FromGroups \cup FromUsers

Init ==
  /\ dir \in Start
  /\ meta = [g \in Groups |-> [status |-> IF g \in dir.groups THEN "active" ELSE "none",
                               parent |-> dir.parent[g]]]
  /\ rows = [e \in Events |-> NoRow]
  /\ graph = IF dir.zone THEN Desired ELSE {}
  /\ proc = [p \in Procs |-> IdleProc]
  /\ faults = MaxFaults /\ lost = FALSE
  /\ trusted = 0

-----------------------------------------------------------------------------
(* Requests.                                                                *)

\* A request changes the directory, and nobody trusts what was read before.
Disturb ==
  /\ trusted' = 0
  /\ UNCHANGED <<rows, graph, budget>>

\* h goes on at pc with a list of payloads to dispatch.  A reconciliation that
\* is reading is no longer calm.
Go(h, pc, plan, m) ==
  proc' = [p \in Procs |->
             IF p = h THEN [IdleProc EXCEPT !.pc = pc, !.plan = plan, !.model = m]
                      ELSE [proc[p] EXCEPT !.calm = FALSE]]

Idle(h) == proc[h].pc = "idle"

\* Casdoor or the database fails, or a goroutine stops.
FaultHappens == faults > 0 /\ faults' = faults - 1 /\ lost' = TRUE

CreateOrganization(h) ==
  /\ Idle(h) /\ ~dir.zone
  /\ dir' = [dir EXCEPT !.zone = TRUE]
  /\ Go(h, "record", <<WriteOf({<<"platform">>})>>, NoModel)
  /\ Disturb /\ UNCHANGED meta

\* The group gets a fresh id; the caller, where a user, becomes its owner.
CreateGroup(h, g, p, owners) ==
  /\ Idle(h) /\ dir.zone /\ g \notin dir.known
  /\ p \in dir.groups \cup {NoGroup}
  /\ dir' = [dir EXCEPT !.groups = @ \cup {g}, !.known = @ \cup {g}, !.parent[g] = p]
  /\ Go(h, "save", <<WriteOf(groupTopologyRelationships(g, p)
                               \cup {<<"owner", g, u>> : u \in owners})>>,
        [id |-> g, status |-> "active", parent |-> p])
  /\ Disturb /\ UNCHANGED meta

\* Two events: the old topology is deleted, then the new one is written.
UpdateGroup(h, g, p) ==
  /\ Idle(h) /\ g \in dir.groups /\ p \in (dir.groups \cup {NoGroup}) \ {g}
  /\ dir' = [dir EXCEPT !.parent[g] = p]
  /\ Go(h, "save", <<DeleteOf(groupTopologyDeleteFilters(g)),
                     WriteOf(groupTopologyRelationships(g, p))>>,
        [id |-> g, status |-> "active", parent |-> p])
  /\ Disturb /\ UNCHANGED meta

DeleteGroup(h, g) ==
  /\ Idle(h) /\ g \in dir.groups
  /\ dir' = [dir EXCEPT !.groups = @ \ {g}, !.members = @ \ (Users \X {g})]
  /\ Go(h, "save", <<DeleteOf(groupDeleteFilters(g))>>,
        [id |-> g, status |-> "archived", parent |-> NoGroup])
  /\ Disturb /\ UNCHANGED meta

\* The user is created in Casdoor and nothing is projected.
CreateUser(h, u) ==
  /\ Idle(h) /\ dir.zone /\ u \notin dir.users
  /\ dir' = [dir EXCEPT !.users = @ \cup {u}, !.disabled = @ \ {u}]
  /\ Go(h, "idle", <<>>, NoModel)
  /\ Disturb /\ UNCHANGED meta

AssignUserToGroup(h, u, g) ==
  /\ Idle(h) /\ u \in dir.users /\ g \in dir.groups
  /\ dir' = [dir EXCEPT !.members = @ \cup {<<u, g>>}]
  /\ Go(h, "record", <<WriteOf({<<"member", g, u>>, <<"zone_member", u>>})>>, NoModel)
  /\ Disturb /\ UNCHANGED meta

RemoveUserFromGroup(h, u, g) ==
  /\ Idle(h) /\ <<u, g>> \in dir.members
  /\ dir' = [dir EXCEPT !.members = @ \ {<<u, g>>}]
  /\ Go(h, "look", <<DeleteOf({{<<"member", g, u>>}})>>, NoModel)
  /\ Disturb /\ UNCHANGED meta

\* ListGroups of the user: none left, and zone membership ends as well.
RemainingGroups(h) ==
  /\ proc[h].pc = "look"
  /\ \E u \in Users, g \in Groups :
       /\ proc[h].plan = <<DeleteOf({{<<"member", g, u>>}})>>
       /\ \/ /\ GroupsOf(u) = {}
             /\ proc' = [proc EXCEPT ![h].pc = "record",
                  ![h].plan = <<DeleteOf({{<<"member", g, u>>}, {<<"zone_member", u>>}})>>]
          \/ /\ GroupsOf(u) # {}
             /\ proc' = [proc EXCEPT ![h].pc = "record"]
  /\ UNCHANGED <<stores, budget, trusted>>

\* ListGroups fails: zone membership is preserved.
RemainingGroupsError(h) ==
  /\ proc[h].pc = "look" /\ FaultHappens
  /\ proc' = [proc EXCEPT ![h].pc = "record"]
  /\ UNCHANGED <<stores, trusted>>

\* DeleteUser removes the user, DisableUser leaves it listed, in its groups.
PurgeUser(h, u) ==
  /\ Idle(h) /\ u \in dir.users
  /\ dir' \in {[dir EXCEPT !.disabled = @ \cup {u}],
              [dir EXCEPT !.users = @ \ {u}, !.members = @ \ ({u} \X Groups)]}
  /\ Go(h, "record", <<DeleteOf(userSubjectDeleteFilters(u))>>, NoModel)
  /\ Disturb /\ UNCHANGED meta

\* ListGroups, or nothing listed when it fails; then the delete in Casdoor.
DeleteOrganization(h) ==
  /\ Idle(h) /\ dir.zone
  /\ \/ /\ UNCHANGED budget
        /\ Go(h, "purge", <<DeleteOf({zoneFilter} \cup
                            UNION {groupDeleteFilters(g) : g \in dir.groups})>>, NoModel)
     \/ /\ FaultHappens
        /\ Go(h, "purge", <<DeleteOf({zoneFilter})>>, NoModel)
  /\ UNCHANGED <<stores, trusted>>

RemoveOrganization(h) ==
  /\ proc[h].pc = "purge"
  /\ dir' = [dir EXCEPT !.zone = FALSE, !.users = {}, !.disabled = {},
                        !.groups = {}, !.members = {}]
  /\ Go(h, "record", proc[h].plan, NoModel)
  /\ Disturb /\ UNCHANGED meta

\* Mutant of SaveMetadata: a status nobody handles.
SaveMetadataUnknown(h) ==
  /\ proc[h].pc = "save"
  /\ meta' = [meta EXCEPT ![proc[h].model.id] = [status |-> "saved",
                                                parent |-> proc[h].model.parent]]
  /\ proc' = [proc EXCEPT ![h].pc = "record", ![h].model = NoModel]
  /\ UNCHANGED <<dir, rows, graph, budget, trusted>>

\* SaveGroup upserts the row, ArchiveGroup updates it where there is one.
SaveMetadata(h) ==
  LET m == proc[h].model IN
  /\ proc[h].pc = "save"
  /\ meta' = [meta EXCEPT ![m.id] =
       IF m.status = "active" THEN [status |-> "active", parent |-> m.parent]
       ELSE [@ EXCEPT !.status = IF @ = "none" THEN "none" ELSE "archived"]]
  /\ proc' = [proc EXCEPT ![h].pc = "record", ![h].model = NoModel]
  /\ UNCHANGED <<dir, rows, graph, budget, trusted>>

-----------------------------------------------------------------------------
(* Reconciliation: at start-up, or by ReconcileDirectoryProjection.         *)

\* No event will be applied any more, and no request is under way.
AtRest ==
  /\ \A p \in Procs : Idle(p)
  /\ \A e \in Events : rows[e].status \in {"none", "synced", "projecting"}

Reconcile(h) ==
  /\ Idle(h) /\ dir.zone
  /\ proc' = [proc EXCEPT ![h] = [IdleProc EXCEPT
                 !.pc = "users", !.plan = <<WriteOf(FromGroups)>>, !.calm = AtRest]]
  /\ UNCHANGED <<stores, budget, trusted>>

\* Mutant of ReconcileUsers: the users without a group are left out.
ReconcileGrouped(h) ==
  /\ proc[h].pc = "users"
  /\ proc' = [proc EXCEPT ![h].pc = "record", ![h].plan =
       <<WriteOf(proc[h].plan[1].rels \cup
                 {<<"zone_member", u>> : u \in {v \in dir.users : GroupsOf(v) # {}}})>>]
  /\ UNCHANGED <<stores, budget, trusted>>

ReconcileUsers(h) ==
  /\ proc[h].pc = "users"
  /\ proc' = [proc EXCEPT ![h].pc = "record",
                          ![h].plan = <<WriteOf(proc[h].plan[1].rels \cup FromUsers)>>]
  /\ UNCHANGED <<stores, budget, trusted>>

-----------------------------------------------------------------------------
(* Dispatch, submit and ApplyBranch.                                        *)

\* The next id: rows are numbered in created_at order.
IsNext(e) == /\ rows[e].status = "none"
             /\ \A f \in Events : f < e => rows[f].status # "none"

\* Dispatch creates the row, to be retried in a minute.
Record(h) ==
  /\ proc[h].pc = "record"
  /\ \E e \in Events :
       /\ IsNext(e)
       /\ rows' = [rows EXCEPT ![e] = [pl |-> proc[h].plan[1], due |-> FALSE,
                                       status |-> "pending"]]
       /\ proc' = [proc EXCEPT ![h].pc = "mark", ![h].ev = e]
       /\ trusted' = IF proc[h].calm THEN e ELSE trusted
  /\ UNCHANGED <<dir, meta, graph, budget>>

\* ApplyBranch begins with the calls of the event's payload.
Work(p) ==
  LET pl == rows[proc[p].ev].pl IN
  proc' = [proc EXCEPT ![p].pc = "work", ![p].todo = pl.filters, ![p].puts = pl.rels]

\* Whatever the row's status is.
MarkProjecting(p) ==
  /\ proc[p].pc = "mark"
  /\ rows' = [rows EXCEPT ![proc[p].ev].status = "projecting"]
  /\ Work(p)
  /\ UNCHANGED <<dir, meta, graph, budget, trusted>>

DeleteRelationships(p) ==
  /\ proc[p].pc = "work"
  /\ \E f \in proc[p].todo :
       /\ graph' = graph \ f
       /\ proc' = [proc EXCEPT ![p].todo = @ \ {f}]
  /\ UNCHANGED <<dir, meta, rows, budget, trusted>>

WriteRelationships(p) ==
  /\ proc[p].pc = "work" /\ proc[p].puts # {}
  /\ graph' = graph \cup proc[p].puts
  /\ proc' = [proc EXCEPT ![p].puts = {}]
  /\ UNCHANGED <<dir, meta, rows, budget, trusted>>

\* Take the oldest event of a list in hand, or nothing.
Begin(p, batch) ==
  \/ batch = {} /\ proc' = [proc EXCEPT ![p] = IdleProc]
  \/ \E e \in batch :
       /\ \A f \in batch : e <= f
       /\ proc' = [proc EXCEPT ![p] = [IdleProc EXCEPT
                      !.pc = "mark", !.ev = e, !.batch = batch]]

\* submit has returned: a worker takes its next event.  A request goes on
\* with what it still has to dispatch, unless there was an error.
Return(p, ok) ==
  IF ok /\ Len(proc[p].plan) > 1
  THEN proc' = [proc EXCEPT ![p] = [IdleProc EXCEPT
                  !.pc = "record", !.plan = Tail(proc[p].plan)]]
  ELSE Begin(p, proc[p].batch \ {proc[p].ev})

\* Mutants of CallError: the loop goes on after an error; markFailure is
\* left out.
CallErrorIgnored(p) ==
  /\ proc[p].pc = "work" /\ faults > 0 /\ faults' = faults - 1
  /\ \E f \in proc[p].todo : proc' = [proc EXCEPT ![p].todo = @ \ {f}]
  /\ UNCHANGED <<stores, lost, trusted>>

CallErrorUnmarked(p) ==
  /\ proc[p].pc = "work" /\ faults > 0 /\ faults' = faults - 1
  /\ ~(proc[p].todo = {} /\ proc[p].puts = {})
  /\ Return(p, FALSE)
  /\ UNCHANGED <<stores, lost, trusted>>

\* A SpiceDB call returns an error; it may have taken effect all the same.
\* ApplyBranch calls markFailure, and RetryOnce calls it once more.
CallError(p) ==
  /\ proc[p].pc = "work" /\ faults > 0 /\ faults' = faults - 1
  /\ \/ \E f \in proc[p].todo : graph' \in {graph, graph \ f}
     \/ proc[p].puts # {} /\ graph' \in {graph, graph \cup proc[p].puts}
  /\ proc' = [proc EXCEPT ![p].pc = "fail", ![p].todo = {}, ![p].puts = {},
                          ![p].marks = IF p \in Workers THEN 2 ELSE 1]
  /\ UNCHANGED <<dir, meta, rows, lost, trusted>>

EndMark(p) ==
  IF proc[p].marks > 1 THEN proc' = [proc EXCEPT ![p].marks = @ - 1]
                       ELSE Return(p, FALSE)

\* The row is due again in a minute, whatever its status was.
MarkFailure(p) ==
  /\ proc[p].pc = "fail"
  /\ rows' = [rows EXCEPT ![proc[p].ev].status = "failed", ![proc[p].ev].due = FALSE]
  /\ EndMark(p)
  /\ UNCHANGED <<dir, meta, graph, budget, trusted>>

CallsDone(p) == proc[p].pc = "work" /\ proc[p].todo = {} /\ proc[p].puts = {}

MarkSynced(p) ==
  /\ CallsDone(p)
  /\ rows' = [rows EXCEPT ![proc[p].ev].status = "synced"]
  /\ Return(p, TRUE)
  /\ UNCHANGED <<dir, meta, graph, budget, trusted>>

\* The rows RetryOnce lists; 100 and more never are in this table at once.
Due == {e \in Events : rows[e].status \in {"pending", "failed"} /\ rows[e].due}

RetryOnce(w) ==
  /\ Idle(w) /\ Due # {}
  /\ Begin(w, Due)
  /\ UNCHANGED <<stores, budget, trusted>>

\* The minute of next_run_at is over; nobody looks at it in other rows.
RetryTimeElapses(e) ==
  /\ rows[e].status \in {"pending", "failed"} /\ ~rows[e].due
  /\ rows' = [rows EXCEPT ![e].due = TRUE]
  /\ UNCHANGED <<dir, meta, graph, proc, budget, trusted>>

-----------------------------------------------------------------------------
(* Faults.                                                                  *)

\* SaveGroup, ArchiveGroup, FindUsers or the creation of the event fails, and
\* the request returns the error: Casdoor is as the request has left it.
RequestError(h) ==
  /\ proc[h].pc \in {"save", "users", "record"} /\ FaultHappens
  /\ proc' = [proc EXCEPT ![h] = IdleProc]
  /\ UNCHANGED <<stores, trusted>>

\* An update of the row fails, and the error is ignored.
MarkError(p) ==
  /\ FaultHappens
  /\ \/ proc[p].pc = "mark" /\ Work(p)
     \/ CallsDone(p) /\ Return(p, TRUE)
     \/ proc[p].pc = "fail" /\ EndMark(p)
  /\ UNCHANGED <<stores, trusted>>

\* The goroutine stops where it is.
Abandon(p) ==
  /\ ~Idle(p) /\ FaultHappens
  /\ proc' = [proc EXCEPT ![p] = IdleProc]
  /\ UNCHANGED <<stores, trusted>>

-----------------------------------------------------------------------------
Requests(h) ==
  \/ CreateOrganization(h) \/ DeleteOrganization(h) \/ Reconcile(h)
  \/ \E g \in Groups :
       \/ \E p \in Groups \cup {NoGroup} :
            \/ \E owners \in {{}} \cup {{u} : u \in dir.users} : CreateGroup(h, g, p, owners)
            \/ UpdateGroup(h, g, p)
       \/ DeleteGroup(h, g)
       \/ \E u \in Users : AssignUserToGroup(h, u, g) \/ RemoveUserFromGroup(h, u, g)
  \/ \E u \in Users : CreateUser(h, u) \/ PurgeUser(h, u)

\* A goroutine that has begun something goes on with it.
Step(p) ==
  \/ RemainingGroups(p) \/ RemoveOrganization(p)
  \/ SaveMetadata(p) \/ ReconcileUsers(p)
  \/ Record(p) \/ MarkProjecting(p)
  \/ DeleteRelationships(p) \/ WriteRelationships(p) \/ CallError(p)
  \/ MarkFailure(p) \/ MarkSynced(p)

Fault(p) ==
  RequestError(p) \/ RemainingGroupsError(p) \/ MarkError(p) \/ Abandon(p)

Next ==
  \/ \E h \in Handlers : Requests(h)
  \/ \E w \in Workers : RetryOnce(w)
  \/ \E p \in Procs : Step(p) \/ Fault(p)
  \/ \E e \in Events : RetryTimeElapses(e)

Spec == Init /\ [][Next]_vars

\* Goroutines run, the worker's ticker ticks and the clock advances.
Fairness ==
  /\ \A p \in Procs : WF_vars(Step(p))
  /\ \A w \in Workers : WF_vars(RetryOnce(w))
  /\ \A e \in Events : WF_vars(RetryTimeElapses(e))

FairSpec == Spec /\ Fairness

-----------------------------------------------------------------------------
(* Properties.                                                              *)

P == INSTANCE Projection WITH
       recorded <- {e \in Events : rows[e].status # "none"},
       effect   <- [e \in Events |-> rows[e].pl],
       synced   <- {e \in Events : rows[e].status = "synced"}

\* The table keeps the promise of every projection table: SpiceDB is called
\* for recorded events only, with what they say, and no row reads "synced"
\* without its effect (Dispatch, ApplyBranch, RetryOnce).
ImplementsProjection == P!Spec

\* A reconciliation repairs what failed requests and stranded events have
\* left out: the event of one that found the zone at rest, and was followed
\* by no request, reads "synced" only while SpiceDB holds every relationship
\* of the directory (BuildDirectoryProjectionRelationships, Reconcile).
ReconcileConverges ==
  trusted # 0 /\ rows[trusted].status = "synced" => Desired \subseteq graph

\* The retry worker owns recovery: without a database failure or a stopped
\* goroutine every event is in effect in the end, whatever SpiceDB calls fail
\* on the way, and stays so (RetryOnce, markFailure).
EventsGetThrough ==
  <>[](lost \/ \A e \in Events : rows[e].status \in {"none", "synced"})

Settled == \A p \in Procs : Idle(p)
AllSynced == \A e \in Events : rows[e].status \in {"none", "synced"}

\* A user who is still a member of a group keeps the visibility of the zone:
\* once every event is synced, zone#member is there, unless the user has been
\* disabled (RemoveUserFromGroup).
ZoneKept ==
  Settled /\ AllSynced =>
    \A u \in Users \ dir.disabled : GroupsOf(u) # {} => <<"zone_member", u>> \in graph
=============================================================================
