---------------------------- MODULE AccessQuery -----------------------------
(***************************************************************************)
(* Access queries (internal/biz/accessquery/service.go:                    *)
(* ListSubjectEntitlements, ListResourceAccess).  A request is a chain of  *)
(* reads of two stores, PostgreSQL for grants and SpiceDB for memberships, *)
(* parents, zones and platforms, with no snapshot over them: what other    *)
(* requests change in between is seen by some of the reads.                *)
(*                                                                         *)
(* Requests do not see each other, so that one is modelled, at any time.   *)
(* The stores promise no order of rows, and the answer is a set: its pages *)
(* and the permissions of each entry's role are left out.                  *)
(***************************************************************************)
EXTENDS Integers, FiniteSets

CONSTANTS
  Users, Groups,
  Resources, Zones, Platforms,
  GrantIDs,
  Limit,        \* rows one ListGrants returns (1000 in the code)
  Filters,      \* what requests may restrict their answer to
  Start,        \* bound: the grants and relationships there are at first
  MaxChanges,   \* bound: changes that other requests make
  MaxFaults     \* bound: reads that fail

Subjects == Users \cup Groups
Objects  == Resources \cup Zones \cup Platforms

\* group#member@user and group#member@group#member, resource#parent@resource,
\* zone#admin@user (or #owner), zone#member@user, platform#relation@user.
Tuples == {t \in ({"member"} \X Groups \X Subjects) \cup ({"parent"} \X Resources \X Resources) :
             t[2] # t[3]} \cup
          ({"admin", "zone_member"} \X Zones \X Users) \cup ({"platform"} \X Platforms \X Users)

\* What reads like a relationship; the schema admits the tuples only.
Relationships ==
  {"member", "parent", "admin", "zone_member", "platform"} \X
  (Subjects \cup Objects) \X (Subjects \cup Objects)

Grant == [status : {"none", "active", "revoked"}, subject : Subjects, object : Objects]

ASSUME AccessOK ==
  /\ Limit \in Nat \ {0} /\ MaxChanges \in Nat /\ MaxFaults \in Nat
  /\ GrantIDs \cap (Relationships \cup Subjects \cup Objects) = {}
  /\ Start \subseteq [grants : [GrantIDs -> Grant], graph : SUBSET Tuples]
  /\ Filters \subseteq SUBSET (Subjects \cup Objects)

VARIABLES
  grants,    \* iam_grants
  graph,     \* SpiceDB
  query,     \* the request under way
  changes,   \* changes that others may still make
  faults,    \* reads that may still fail
  held,      \* history: what was true at some time since the request began
  kept       \* history: what has been true all the time since it began

stores  == <<grants, graph>>
history == <<held, kept>>
vars    == <<stores, query, changes, faults, history>>

\* What the stores say: which grants are not revoked, and the relationships.
ActiveGrants == {g \in GrantIDs : grants[g].status = "active"}
Facts == ActiveGrants \cup graph

-----------------------------------------------------------------------------
Stages == {"idle", "direct", "group", "parent", "zone", "platform", "done"}

\* src: how the grant comes to the subject.
Entitlement == [src : Stages, grant : GrantIDs, object : Objects, subject : Subjects]

\* The reads a stage still has to make: <<x>> of the relationships of x, <<x, y>>
\* of the grants that x gets from y.
Reads == {<<x>> : x \in Subjects \cup Objects \cup GrantIDs} \cup
         ((Subjects \cup Objects) \X (Groups \cup Objects))

\* by: "subject" in ListSubjectEntitlements, "object" in ListResourceAccess;
\* only: what resource_type or subject_type admits; found: the objects of the
\* direct and group grants; list: the answer so far; partial (history): a read
\* has failed or has not returned every row.
Query == [stage : Stages, by : {"subject", "object"}, of : Subjects \cup Objects,
          only : SUBSET (Subjects \cup Objects), todo : SUBSET Reads,
          found : SUBSET Objects, list : SUBSET Entitlement, partial : BOOLEAN]

AccessTypeOK ==
  /\ grants \in [GrantIDs -> Grant] /\ graph \in SUBSET Tuples
  /\ query \in Query
  /\ changes \in 0 .. MaxChanges /\ faults \in 0 .. MaxFaults
  /\ held \in SUBSET (GrantIDs \cup Tuples) /\ kept \in SUBSET held

NoQuery(s) == [stage |-> "idle", by |-> "subject", of |-> s, only |-> {}, todo |-> {},
               found |-> {}, list |-> {}, partial |-> FALSE]

Init ==
  /\ \E first \in Start : grants = first.grants /\ graph = first.graph
  /\ \E s \in Subjects : query = NoQuery(s)
  /\ changes = MaxChanges /\ faults = MaxFaults
  /\ held = {} /\ kept = {}

-----------------------------------------------------------------------------
(* Other requests.                                                          *)

\* The request under way has seen what there was before or sees what is new.
\* Bound: what changes before it is part of Start, and after it nobody looks.
Changed ==
  /\ query.stage \notin {"idle", "done"}
  /\ changes > 0 /\ changes' = changes - 1
  /\ held' = held \cup Facts' /\ kept' = kept \cap Facts'
  /\ UNCHANGED <<query, faults>>

GrantMade(g, s, x) ==
  /\ grants[g].status = "none"
  /\ grants' = [grants EXCEPT ![g] = [status |-> "active", subject |-> s, object |-> x]]
  /\ UNCHANGED graph /\ Changed

GrantRevoked(g) ==
  /\ grants[g].status = "active"
  /\ grants' = [grants EXCEPT ![g].status = "revoked"]
  /\ UNCHANGED graph /\ Changed

RelationshipsChange(t) ==
  /\ graph' \in {graph \cup {t}, graph \ {t}} \ {graph}
  /\ UNCHANGED grants /\ Changed

-----------------------------------------------------------------------------
(* A request.                                                               *)

Ask(by, of, only) ==
  /\ query.stage = "idle"
  /\ query' = [NoQuery(of) EXCEPT !.stage = "direct", !.by = by, !.only = only,
                                   !.todo = {<<of>>}]
  /\ held' = Facts /\ kept' = Facts
  /\ UNCHANGED <<stores, changes, faults>>

\* A repository's answer: all rows, or as many as it returns at once.
Page(rows) ==
  {some \in SUBSET rows : /\ Cardinality(some) <= Limit
                          /\ some = rows \/ Cardinality(some) = Limit}

\* resource_type is compared with the object, subject_type with the grant's
\* subject; group grants are looked up for users.
Admitted(e) ==
  CASE query.by = "subject" -> e.object \in query.only
    [] query.by = "object"  -> IF e.src = "group" THEN Users \subseteq query.only
                                                  ELSE e.subject \in query.only

\* The grant's id, or inheritedID: the resource is no part of it.
ID(e) == <<e.src, e.grant, e.subject>>

\* Mutant of dedupEntitlements: entries are told apart by their grant.
dedupByGrant(es) ==
  query.list \cup {e \in es : Admitted(e) /\ \A f \in query.list : f.grant # e.grant}

\* The entries that come first are kept.
dedupEntitlements(es) ==
  query.list \cup {e \in es : Admitted(e) /\ \A f \in query.list : ID(f) # ID(e)}

Entry(g, x, s) == [src |-> query.stage, grant |-> g, object |-> x, subject |-> s]

\* The read f is done: it has brought the entries es and the reads more, and
\* left out the rows in rest.
Follow(f, es, more, rest) ==
  /\ query' = [query EXCEPT
       !.todo = (@ \ {f}) \cup more, !.list = dedupEntitlements(es),
       !.found = IF query.stage = "parent" THEN @ ELSE @ \cup {e.object : e \in es},
       !.partial = @ \/ rest # {}]
  /\ UNCHANGED <<stores, changes, faults, history>>

\* Reads of a request of one kind and stage.
At(by, stage) == query.by = by /\ query.stage = stage

-----------------------------------------------------------------------------
(* ListSubjectEntitlements, for the subject query.of.                       *)

ListDirectGrants ==
  LET rows == {g \in ActiveGrants : grants[g].subject = query.of} IN
  /\ At("subject", "direct") /\ <<query.of>> \in query.todo
  /\ \E some \in Page(rows) :
       Follow(<<query.of>>, {Entry(g, grants[g].object, query.of) : g \in some}, {}, rows \ some)

\* Mutant of Related: every relation to a zone counts.
RelatedMembers ==
  LET To(k) == {<<query.of, t[2]>> : t \in {t \in graph : t[1] \in k /\ t[3] = query.of}}
  IN  CASE query.stage = "group"    -> To({"member"})
        [] query.stage = "zone"     -> To({"admin", "zone_member"})
        [] query.stage = "platform" -> To({"platform"})

\* The groups, zones and platforms that the subject is related to.  Members of
\* a zone are skipped.
Related ==
  LET To(k) == {<<query.of, t[2]>> : t \in {t \in graph : t[1] = k /\ t[3] = query.of}}
  IN  CASE query.stage = "group"    -> To("member")
        [] query.stage = "zone"     -> To("admin")
        [] query.stage = "platform" -> To("platform")

ReadRelated ==
  /\ query.by = "subject" /\ query.stage \in {"group", "zone", "platform"}
  /\ <<query.of>> \in query.todo
  /\ Follow(<<query.of>>, {}, Related, {})

\* The grants of a group; all grants on a zone or a platform.
ListInheritedGrants(x) ==
  LET rows == {g \in ActiveGrants :
                 x = IF query.stage = "group" THEN grants[g].subject ELSE grants[g].object} IN
  /\ query.by = "subject" /\ query.stage \in {"group", "zone", "platform"}
  /\ <<query.of, x>> \in query.todo
  /\ \E some \in Page(rows) :
       Follow(<<query.of, x>>, {Entry(g, grants[g].object, query.of) : g \in some}, {}, rows \ some)

\* traceParentInheritance: the parents of r; for each of them the subject's own
\* grants, then the parents of the parent.  Which read is next is left open.
ReadParents(r) ==
  /\ query.stage = "parent" /\ <<r>> \in query.todo
  /\ Follow(<<r>>, {}, {<<r, t[3]>> : t \in {t \in graph : t[1] = "parent" /\ t[2] = r}}, {})

\* Mutant of ListParentGrants: the recursion goes on with the child.
ListParentGrantsOfChild(r, x) ==
  LET rows == {g \in ActiveGrants : grants[g].object = x /\ grants[g].subject = query.of} IN
  /\ At("subject", "parent") /\ <<r, x>> \in query.todo
  /\ \E some \in Page(rows) :
       Follow(<<r, x>>, {Entry(g, r, query.of) : g \in some}, {<<r>>}, rows \ some)

ListParentGrants(r, x) ==
  LET rows == {g \in ActiveGrants : grants[g].object = x /\ grants[g].subject = query.of} IN
  /\ At("subject", "parent") /\ <<r, x>> \in query.todo
  /\ \E some \in Page(rows) :
       Follow(<<r, x>>, {Entry(g, r, query.of) : g \in some}, {<<x>>}, rows \ some)

-----------------------------------------------------------------------------
(* ListResourceAccess, for the object query.of.                             *)

ListGrantsOnObject ==
  LET rows == {g \in ActiveGrants : grants[g].object = query.of} IN
  /\ At("object", "direct") /\ <<query.of>> \in query.todo
  /\ \E some \in Page(rows) :
       Follow(<<query.of>>, {Entry(g, query.of, grants[g].subject) : g \in some}, {}, rows \ some)

\* The grants of groups, then the members of each one's group.
ListGroupGrants ==
  LET rows == {g \in ActiveGrants : grants[g].object = query.of /\ grants[g].subject \in Groups} IN
  /\ At("object", "group") /\ <<query.of>> \in query.todo
  /\ \E some \in Page(rows) :
       Follow(<<query.of>>, {}, {<<g>> : g \in some}, rows \ some)

ReadMembers(g) ==
  /\ At("object", "group") /\ <<g>> \in query.todo
  /\ Follow(<<g>>, {Entry(g, query.of, t[3]) :
                      t \in {t \in graph : t[1] = "member" /\ t[2] = grants[g].subject}},
            {}, {})

\* The grants on a parent, whoever has them.  Its own parents are not read.
ListGrantsOnParent(x) ==
  LET rows == {g \in ActiveGrants : grants[g].object = x} IN
  /\ At("object", "parent") /\ <<query.of, x>> \in query.todo
  /\ \E some \in Page(rows) :
       Follow(<<query.of, x>>, {Entry(g, query.of, grants[g].subject) : g \in some}, {}, rows \ some)

-----------------------------------------------------------------------------
\* The stage after this one, with its first read or reads.
NextStage ==
  LET order == [direct |-> "group", group |-> "parent",
                parent |-> IF query.by = "subject" THEN "zone" ELSE "done",
                zone |-> "platform", platform |-> "done"]
      next  == order[query.stage] IN
  /\ query.stage \notin {"idle", "done"} /\ query.todo = {}
  /\ query' = [query EXCEPT !.stage = next,
       !.todo = IF next = "done" THEN {}
                ELSE IF next = "parent" /\ query.by = "subject" THEN {<<r>> : r \in query.found}
                ELSE {<<query.of>>}]
  /\ UNCHANGED <<stores, changes, faults, history>>

\* Mutant of ReadError: a stage nobody handles.
ReadErrorUnknown(f) ==
  /\ faults > 0 /\ faults' = faults - 1
  /\ f \in query.todo
  /\ query' = [query EXCEPT !.stage = "failed"]
  /\ UNCHANGED <<stores, changes, history>>

\* A read fails: the first one ends the request; what others would have
\* brought, and led to, is left out.
ReadError(f) ==
  /\ faults > 0 /\ faults' = faults - 1
  /\ f \in query.todo
  /\ query' = IF query.stage = "direct" THEN NoQuery(query.of)
              ELSE [query EXCEPT !.todo = @ \ {f}, !.partial = TRUE]
  /\ UNCHANGED <<stores, changes, history>>

Step ==
  \/ ListDirectGrants \/ ReadRelated \/ ListGrantsOnObject \/ ListGroupGrants
  \/ \E x \in Groups \cup Objects : ListInheritedGrants(x)
  \/ \E r \in Objects : ReadParents(r) \/ \E x \in Objects : ListParentGrants(r, x)
  \/ \E g \in GrantIDs : ReadMembers(g)
  \/ \E x \in Objects : ListGrantsOnParent(x)
  \/ NextStage

Others ==
  \/ \E g \in GrantIDs : GrantRevoked(g) \/ \E s \in Subjects, x \in Objects : GrantMade(g, s, x)
  \/ \E t \in Tuples : RelationshipsChange(t)

Next ==
  \/ \E only \in Filters : \/ \E s \in Subjects : Ask("subject", s, only)
                           \/ \E x \in Objects : Ask("object", x, only)
  \/ Step
  \/ \E f \in query.todo : ReadError(f)
  \/ Others

Spec == Init /\ [][Next]_vars

\* The goroutine of the request runs.
FairSpec == Spec /\ WF_vars(Step)
-----------------------------------------------------------------------------
(* Properties.                                                              *)

\* The objects that can be come by from some others, child to parent.
Ancestors(roots, facts) ==
  {x \in Objects : \A S \in SUBSET Objects :
     roots \subseteq S /\ (\A r \in S, y \in Objects : <<"parent", r, y>> \in facts => y \in S)
       => x \in S}

\* What a request is to answer where the facts are these, told apart as in
\* dedupEntitlements: which grants come to which subject, and how.
EntitledSubject(u, only, facts) ==
  LET G == GrantIDs \cap facts
      own == {g \in G : grants[g].subject = u}
      groups == {g \in G : <<"member", grants[g].subject, u>> \in facts}
      roots == {grants[g].object : g \in own \cup groups}
      Through(src, gs) == {<<src, g, u>> : g \in {g \in gs : grants[g].object \in only}}
  IN  Through("direct", own) \cup Through("group", groups) \cup
      Through("zone", {g \in G : <<"admin", grants[g].object, u>> \in facts}) \cup
      Through("platform", {g \in G : <<"platform", grants[g].object, u>> \in facts}) \cup
      {<<"parent", g, u>> : g \in {g \in own : \E r \in Ancestors(roots, facts) \cap only :
                                     <<"parent", r, grants[g].object>> \in facts}}

EntitledObject(x, only, facts) ==
  LET G == GrantIDs \cap facts
      on == {g \in G : grants[g].object = x} IN
  {<<"direct", g, grants[g].subject>> : g \in {g \in on : grants[g].subject \in only}} \cup
  {<<"parent", g, grants[g].subject>> :
     g \in {g \in G : grants[g].subject \in only /\ <<"parent", x, grants[g].object>> \in facts}} \cup
  (IF Users \subseteq only
   THEN {e \in {"group"} \X on \X Subjects : <<"member", grants[e[2]].subject, e[3]>> \in facts}
   ELSE {})

Entitled(facts) ==
  IF query.by = "subject" THEN EntitledSubject(query.of, query.only, facts)
                          ELSE EntitledObject(query.of, query.only, facts)

\* Nothing is made up: whatever others change between the reads of a request,
\* every entry of the answer follows from what was true at some time since the
\* request began (ListSubjectEntitlements, ListResourceAccess).
NothingMadeUp == {ID(e) : e \in query.list} \subseteq Entitled(held)

\* Nothing is lost: what has been true all the time is in the answer, unless a
\* read has failed or a ListGrants has had more rows than it returns
\* (traceParentInheritance, dedupEntitlements, the filters).
NothingLost ==
  query.stage = "done" /\ ~query.partial => Entitled(kept) \subseteq {ID(e) : e \in query.list}

\* No object is its own ancestor.
Acyclic ==
  \A S \in SUBSET Objects \ {{}} : \E r \in S : \A x \in S : <<"parent", r, x>> \notin graph

\* Every request comes to an end, unless the parents form a cycle for ever:
\* the recursion looks for nothing else (traceParentInheritance).
RequestsEnd == <>[]Acyclic => []<>(query.stage \in {"idle", "done"})
=============================================================================
