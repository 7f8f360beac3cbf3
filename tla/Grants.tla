------------------------------- MODULE Grants -------------------------------
(***************************************************************************)
(* Grants (internal/biz/grant/service.go: GrantAccess, RevokeAccess,       *)
(* ExpireDueGrants) on top of the projection manager.  A request commits   *)
(* the iam_grants row, its audit row and one outbox event in a transaction *)
(* and dispatches the event; the expiration job lists the grants that are  *)
(* due and revokes them one after the other.                               *)
(*                                                                         *)
(* A grant of a built-in role is one relationship, named by its resource,  *)
(* relation and subject: a later grant may share it with one that was       *)
(* revoked.  A grant of a custom role is three relationships named by the  *)
(* grant's own id.                                                         *)
(***************************************************************************)
EXTENDS Outbox

CONSTANTS
  GrantIDs,      \* bound: the grants ever made
  Places,        \* the resources, relations and subjects of built-in grants
  Jobs,          \* goroutines running the expiration job
  ExpireLimit    \* grants one ExpireDueGrants lists (100 in the code)

VARIABLES
  grants,   \* iam_grants
  listed    \* what each run of the expiration job still has to revoke

grantVars == <<outbox, graph, proc, faults, grants, listed>>

-----------------------------------------------------------------------------
(* What a grant is in SpiceDB.                                              *)

customGrantRelationships(g) == {<<"role", g>>, <<"grantee", g>>, <<"custom_binding", g>>}

RelationshipsOf(g, at) ==
  IF at = "custom" THEN customGrantRelationships(g) ELSE {<<"relation", at>>}

\* NewWriteEvent.
GrantPayload(g, at) ==
  [op |-> "write", filters |-> {}, rels |-> RelationshipsOf(g, at), prev |-> {}]

\* Mutant of RevokePayload: the single filter of a built-in grant, for all.
RevokePayloadOne(g, at) ==
  [op      |-> "delete",
   filters |-> {{IF at = "custom" THEN <<"custom_binding", g>> ELSE <<"relation", at>>}},
   rels    |-> RelationshipsOf(g, at), prev |-> {}]

\* NewDeleteEvent or NewBatchDeleteEvent.
RevokePayload(g, at) ==
  [op      |-> "delete",
   filters |-> relationshipFilters(RelationshipsOf(g, at)),
   rels    |-> RelationshipsOf(g, at), prev |-> {}]

Kinds == Places \cup {"custom"}

ASSUME GrantsOK ==
  /\ Jobs \subseteq Handlers /\ ExpireLimit \in Nat
  /\ "custom" \notin Places
  /\ \A g \in GrantIDs, at \in Kinds :
       /\ RelationshipsOf(g, at) \subseteq Tuples
       /\ {GrantPayload(g, at), RevokePayload(g, at)} \subseteq Payloads

-----------------------------------------------------------------------------
\* at: the place of a built-in grant, or "custom"; ev: the event that writes
\* it; expired: expires_at has passed (it never need; a grant without one is
\* a grant for which it never does); settled (history): the write was over
\* when the grant was revoked.
GrantRow == [status  : {"none", "active", "revoked"}, at : Kinds,
             expired : BOOLEAN, ev : Events \cup {0}, settled : BOOLEAN]

NoGrant == [status |-> "none", at |-> "custom", expired |-> FALSE,
            ev |-> 0, settled |-> FALSE]

GrantsTypeOK ==
  /\ TypeOK
  /\ grants \in [GrantIDs -> GrantRow]
  /\ listed \in [Jobs -> SUBSET GrantIDs]

GrantsInit ==
  /\ Init
  /\ graph = {}
  /\ grants = [g \in GrantIDs |-> NoGrant]
  /\ listed = [j \in Jobs |-> {}]

-----------------------------------------------------------------------------
\* The index uq_iam_grants_active: CreateGrant fails while an unrevoked grant
\* is there.  Custom grants are taken to be of different roles or subjects.
NotGranted(at) ==
  at # "custom" => \A k \in GrantIDs : ~(grants[k].status = "active" /\ grants[k].at = at)

\* The role template and the resource were found.  CreateGrant, Dispatch.
GrantAccess(h, g, at) ==
  /\ grants[g].status = "none" /\ NotGranted(at)
  /\ CreateAndDispatch(h, GrantPayload(g, at))
  /\ \E e \in Events :
       /\ IsNext(e)
       /\ grants' = [grants EXCEPT ![g] = [NoGrant EXCEPT !.status = "active",
                                                         !.at = at, !.ev = e]]
  /\ UNCHANGED listed

\* Mutants of RevokeGrant: the row is not updated; it is updated to something
\* unknown; SpiceDB is called without an event.
RevokeGrantNoUpdate(h, g) ==
  CreateAndDispatch(h, RevokePayload(g, grants[g].at)) /\ UNCHANGED grants

RevokeGrantUnknown(h, g) ==
  /\ CreateAndDispatch(h, RevokePayload(g, grants[g].at))
  /\ grants' = [grants EXCEPT ![g].status = "deleted"]

RevokeGrantDirect(h, g) ==
  /\ graph' = graph \ RelationshipsOf(g, grants[g].at)
  /\ grants' = [grants EXCEPT ![g].status = "revoked"]
  /\ UNCHANGED <<outbox, proc, faults>>

\* RevokeGrant updates the row only if it is not revoked yet; the event is
\* created either way.
RevokeGrant(h, g) ==
  /\ CreateAndDispatch(h, RevokePayload(g, grants[g].at))
  /\ grants' = [grants EXCEPT
       ![g].status  = "revoked",
       ![g].settled = IF @ \/ grants[g].status = "revoked" THEN @ ELSE Over(grants[g].ev)]

\* GetGrant finds the row, active or revoked.
RevokeAccess(h, g) ==
  /\ grants[g].status # "none"
  /\ RevokeGrant(h, g)
  /\ UNCHANGED listed

DueGrants == {g \in GrantIDs : grants[g].status = "active" /\ grants[g].expired}

ListDueExpiringGrants(j) ==
  /\ proc[j].pc = "idle" /\ listed[j] = {}
  /\ \E due \in SUBSET DueGrants :
       /\ due # {} /\ Cardinality(due) <= ExpireLimit
       /\ due = DueGrants \/ Cardinality(due) = ExpireLimit
       /\ listed' = [listed EXCEPT ![j] = due]
  /\ UNCHANGED <<outbox, graph, proc, faults, grants>>

\* One round of the loop over the listed grants, whatever became of the grant
\* since it was listed.
expireOne(j, g) ==
  /\ g \in listed[j]
  /\ RevokeGrant(j, g)
  /\ listed' = [listed EXCEPT ![j] = @ \ {g}]

\* spiceType or the transaction fails: on to the next grant.
expireOneError(j, g) ==
  /\ g \in listed[j] /\ proc[j].pc = "idle"
  /\ listed' = [listed EXCEPT ![j] = @ \ {g}]
  /\ UNCHANGED <<outbox, graph, proc, faults, grants>>

\* expires_at passes; nobody looks at it in a revoked grant.
ExpiryPasses(g) ==
  /\ grants[g].status = "active" /\ ~grants[g].expired
  /\ grants' = [grants EXCEPT ![g].expired = TRUE]
  /\ UNCHANGED <<outbox, graph, proc, faults, listed>>

-----------------------------------------------------------------------------
GrantsNext ==
  \/ \E h \in Handlers \ Jobs, g \in GrantIDs :
       \/ \E at \in Kinds : GrantAccess(h, g, at)
       \/ RevokeAccess(h, g)
  \/ \E j \in Jobs : ListDueExpiringGrants(j)
  \/ \E j \in Jobs, g \in GrantIDs : expireOne(j, g) \/ expireOneError(j, g)
  \/ \E g \in GrantIDs : ExpiryPasses(g)
  \/ ManagerNext /\ UNCHANGED <<grants, listed>>

GrantsSpec == GrantsInit /\ [][GrantsNext]_grantVars

-----------------------------------------------------------------------------
(* Properties.                                                              *)

\* The grants' events are used as the projection manager expects: Grants
\* implements Outbox (CreateGrant, RevokeGrant, createOutbox, Dispatch).
ImplementsOutbox == Spec

\* A custom grant is in effect from the moment its event reads "synced" until
\* it is revoked or expires, whatever other grants and retries do meanwhile
\* (GrantAccess, customGrantRelationships).
CustomGrantHolds ==
  \A g \in GrantIDs :
    /\ grants[g].status = "active" /\ grants[g].at = "custom"
    /\ outbox[grants[g].ev].status = "synced"
    => customGrantRelationships(g) \subseteq graph

IsRevokeOf(e, g) ==
  outbox[e].status # "none" /\ outbox[e].pl = RevokePayload(g, grants[g].at)

\* A custom grant whose write was over when it was revoked stays out of
\* SpiceDB once a delete reads "synced", however often the revocation is
\* repeated, raced by the expiration job or retried (RevokeAccess, expireOne).
RevocationHolds ==
  \A g \in GrantIDs, e \in Events :
    /\ grants[g].status = "revoked" /\ grants[g].at = "custom" /\ grants[g].settled
    /\ IsRevokeOf(e, g) /\ outbox[e].status = "synced"
    => customGrantRelationships(g) \cap graph = {}

AllSynced == Quiet /\ \A e \in Events : outbox[e].status \in {"none", "synced"}

\* Revoking removes the relationship: once every event is synced, a revoked
\* grant that shares its relationships with no other is not in SpiceDB.
RevokedIsRemoved ==
  AllSynced => \A g \in GrantIDs :
    grants[g].status = "revoked" /\ grants[g].at = "custom"
      => customGrantRelationships(g) \cap graph = {}
=============================================================================
