---------------------------- MODULE Grants_proofs ---------------------------
(***************************************************************************)
(* Proofs about grants, for any number of grants, handlers, jobs and       *)
(* workers: Grants implements Outbox, and a custom grant whose event is     *)
(* synced is in effect.                                                    *)
(***************************************************************************)
EXTENDS Grants, Outbox_proofs

-----------------------------------------------------------------------------
(* Grants implements Outbox.                                                *)

LEMMA GrantStepIsOutboxStep == GrantsTypeOK /\ [GrantsNext]_grantVars => [Next]_vars
<1> SUFFICES ASSUME GrantsTypeOK, [GrantsNext]_grantVars
             PROVE  [Next]_vars
  OBVIOUS
<1>1. ASSUME NEW h \in Handlers, NEW g \in GrantIDs, NEW at \in Kinds,
             GrantAccess(h, g, at)
      PROVE  Next
  <2>1. GrantPayload(g, at) \in Payloads
    BY GrantsOK
  <2> QED
    BY <1>1, <2>1 DEF GrantAccess, Next
<1>2. ASSUME NEW h \in Handlers, NEW g \in GrantIDs, RevokeGrant(h, g)
      PROVE  Next
  <2>1. RevokePayload(g, grants[g].at) \in Payloads
    BY GrantsOK DEF GrantsTypeOK, GrantRow
  <2> QED
    BY <1>2, <2>1 DEF RevokeGrant, Next
<1>3. CASE \E j \in Jobs : ListDueExpiringGrants(j)
  BY <1>3 DEF ListDueExpiringGrants, vars
<1>4. ASSUME NEW j \in Jobs, NEW g \in GrantIDs, expireOne(j, g) \/ expireOneError(j, g)
      PROVE  [Next]_vars
  <2>1. j \in Handlers
    BY GrantsOK
  <2> QED
    BY <1>2, <1>4, <2>1 DEF expireOne, expireOneError, vars
<1>5. CASE \E g \in GrantIDs : ExpiryPasses(g)
  BY <1>5 DEF ExpiryPasses, vars
<1>6. CASE ManagerNext
  BY <1>6 DEF Next
<1>7. CASE UNCHANGED grantVars
  BY <1>7 DEF grantVars, vars
<1> QED
  BY <1>1, <1>2, <1>3, <1>4, <1>5, <1>6, <1>7 DEF GrantsNext, RevokeAccess

-----------------------------------------------------------------------------
(* The inductive invariant.                                                 *)

\* A grant's event is a row, and it writes the grant.
EventOK ==
  \A g \in GrantIDs : grants[g].status # "none" =>
    /\ grants[g].ev \in Events /\ outbox[grants[g].ev].status # "none"
    /\ outbox[grants[g].ev].pl = GrantPayload(g, grants[g].at)

\* Every row is a grant's event or deletes a grant that is revoked.
OriginOK ==
  \A e \in Events : outbox[e].status # "none" =>
    \E g \in GrantIDs :
      \/ /\ grants[g].status # "none" /\ grants[g].ev = e
         /\ outbox[e].pl = GrantPayload(g, grants[g].at)
      \/ grants[g].status = "revoked" /\ outbox[e].pl = RevokePayload(g, grants[g].at)

\* What the expiration job has listed are grants.
ListedOK == \A j \in Jobs : \A g \in listed[j] : grants[g].status # "none"

GInv == GrantsTypeOK /\ IInv /\ EventOK /\ OriginOK /\ ListedOK

LEMMA GrantsInitOK == GrantsInit => GInv
<1> SUFFICES ASSUME GrantsInit
             PROVE  GInv
  OBVIOUS
<1>1. IInv
  BY InitOK DEF GrantsInit
<1>2. NoGrant \in GrantRow
  BY DEF NoGrant, GrantRow, Kinds
<1>3. GrantsTypeOK
  BY <1>1, <1>2 DEF GrantsInit, GrantsTypeOK, IInv
<1>4. EventOK /\ OriginOK /\ ListedOK
  BY DEF GrantsInit, Init, NoRow, NoGrant, EventOK, OriginOK, ListedOK
<1> QED
  BY <1>1, <1>3, <1>4 DEF GInv

\* A step that leaves the grants alone and keeps the rows.
LEMMA SameGrantsOK ==
  ASSUME GInv, SameRows, grants' = grants
  PROVE  EventOK' /\ OriginOK'
  BY DEF GInv, EventOK, OriginOK, SameRows

LEMMA GrantAccessOK ==
  ASSUME GInv, NEW h \in Handlers, NEW g \in GrantIDs, NEW at \in Kinds,
         GrantAccess(h, g, at)
  PROVE  grants' \in [GrantIDs -> GrantRow] /\ EventOK' /\ OriginOK'
<1>1. PICK e \in Events :
           /\ IsNext(e) /\ outbox[e].status = "none"
           /\ outbox'[e].status = "pending" /\ outbox'[e].pl = GrantPayload(g, at)
           /\ \A d \in Events \ {e} : outbox'[d] = outbox[d]
  BY NewRow DEF GrantAccess, GInv, IInv
<1> DEFINE row == [NoGrant EXCEPT !.status = "active", !.at = at, !.ev = e]
<1>2. grants' = [grants EXCEPT ![g] = row]
  BY <1>1, NextUnique DEF GrantAccess
<1>3. row \in GrantRow /\ row.status = "active" /\ row.at = at /\ row.ev = e
  BY DEF NoGrant, GrantRow, Kinds
<1> HIDE DEF row
<1>4. /\ grants' \in [GrantIDs -> GrantRow] /\ grants'[g] = row
      /\ \A k \in GrantIDs \ {g} : grants'[k] = grants[k]
  BY <1>2, <1>3 DEF GInv, GrantsTypeOK
<1>5. grants[g].status = "none"
  BY DEF GrantAccess
<1>6. EventOK'
  <2> SUFFICES ASSUME NEW k \in GrantIDs, grants'[k].status # "none"
               PROVE  /\ grants'[k].ev \in Events /\ outbox'[grants'[k].ev].status # "none"
                      /\ outbox'[grants'[k].ev].pl = GrantPayload(k, grants'[k].at)
    BY DEF EventOK
  <2>1. CASE k = g
    BY <1>1, <1>3, <1>4, <2>1
  <2>2. CASE k # g
    BY <1>1, <1>4, <2>2 DEF GInv, EventOK
  <2> QED
    BY <2>1, <2>2
<1>7. OriginOK'
  <2> SUFFICES ASSUME NEW d \in Events, outbox'[d].status # "none"
               PROVE  \E k \in GrantIDs :
                        \/ /\ grants'[k].status # "none" /\ grants'[k].ev = d
                           /\ outbox'[d].pl = GrantPayload(k, grants'[k].at)
                        \/ /\ grants'[k].status = "revoked"
                           /\ outbox'[d].pl = RevokePayload(k, grants'[k].at)
    BY DEF OriginOK
  <2>1. CASE d = e
    BY <1>1, <1>3, <1>4, <2>1
  <2>2. CASE d # e
    <3>1. PICK k \in GrantIDs :
            \/ /\ grants[k].status # "none" /\ grants[k].ev = d
               /\ outbox[d].pl = GrantPayload(k, grants[k].at)
            \/ grants[k].status = "revoked" /\ outbox[d].pl = RevokePayload(k, grants[k].at)
      BY <1>1, <2>2 DEF GInv, OriginOK
    <3>2. k # g
      BY <1>5, <3>1
    <3> QED
      BY <1>1, <1>4, <2>2, <3>1, <3>2
  <2> QED
    BY <2>1, <2>2
<1> QED
  BY <1>4, <1>6, <1>7

\* A revoked grant's row keeps its event and its place.
LEMMA RevokeGrantOK ==
  ASSUME GInv, NEW h \in Handlers, NEW g \in GrantIDs, grants[g].status # "none",
         RevokeGrant(h, g)
  PROVE  grants' \in [GrantIDs -> GrantRow] /\ EventOK' /\ OriginOK'
<1>1. PICK e \in Events :
           /\ IsNext(e) /\ outbox[e].status = "none"
           /\ outbox'[e].status = "pending"
           /\ outbox'[e].pl = RevokePayload(g, grants[g].at)
           /\ \A d \in Events \ {e} : outbox'[d] = outbox[d]
  BY NewRow DEF RevokeGrant, GInv, IInv
<1> DEFINE s == IF grants[g].settled \/ grants[g].status = "revoked"
                  THEN grants[g].settled ELSE Over(grants[g].ev)
<1>2. grants[g] \in GrantRow /\ grants \in [GrantIDs -> GrantRow]
  BY DEF GInv, GrantsTypeOK
<1>3. s \in BOOLEAN
  BY <1>2 DEF Over, GrantRow
<1>4. grants' = [grants EXCEPT ![g].status = "revoked", ![g].settled = s]
  BY <1>2 DEF RevokeGrant
<1> HIDE DEF s
<1>5. /\ grants' \in [GrantIDs -> GrantRow]
      /\ grants'[g].status = "revoked" /\ grants'[g].ev = grants[g].ev
      /\ grants'[g].at = grants[g].at
      /\ \A k \in GrantIDs \ {g} : grants'[k] = grants[k]
  BY <1>2, <1>3, <1>4 DEF GrantRow
<1>6. EventOK'
  <2> SUFFICES ASSUME NEW k \in GrantIDs, grants'[k].status # "none"
               PROVE  /\ grants'[k].ev \in Events /\ outbox'[grants'[k].ev].status # "none"
                      /\ outbox'[grants'[k].ev].pl = GrantPayload(k, grants'[k].at)
    BY DEF EventOK
  <2>1. /\ grants[k].status # "none" /\ grants'[k].ev = grants[k].ev
        /\ grants'[k].at = grants[k].at
    BY <1>5
  <2> QED
    BY <1>1, <2>1 DEF GInv, EventOK
<1>7. OriginOK'
  <2> SUFFICES ASSUME NEW d \in Events, outbox'[d].status # "none"
               PROVE  \E k \in GrantIDs :
                        \/ /\ grants'[k].status # "none" /\ grants'[k].ev = d
                           /\ outbox'[d].pl = GrantPayload(k, grants'[k].at)
                        \/ /\ grants'[k].status = "revoked"
                           /\ outbox'[d].pl = RevokePayload(k, grants'[k].at)
    BY DEF OriginOK
  <2>1. CASE d = e
    BY <1>1, <1>5, <2>1
  <2>2. CASE d # e
    <3>1. PICK k \in GrantIDs :
            \/ /\ grants[k].status # "none" /\ grants[k].ev = d
               /\ outbox[d].pl = GrantPayload(k, grants[k].at)
            \/ grants[k].status = "revoked" /\ outbox[d].pl = RevokePayload(k, grants[k].at)
      BY <1>1, <2>2 DEF GInv, OriginOK
    <3>2. /\ grants'[k].ev = grants[k].ev /\ grants'[k].at = grants[k].at
          /\ grants[k].status # "none" => grants'[k].status # "none"
          /\ grants[k].status = "revoked" => grants'[k].status = "revoked"
      BY <1>5
    <3> QED
      BY <1>1, <2>2, <3>1, <3>2
  <2> QED
    BY <2>1, <2>2
<1> QED
  BY <1>5, <1>6, <1>7

LEMMA GrantsNextOK == GInv /\ [GrantsNext]_grantVars => GInv'
<1> SUFFICES ASSUME GInv, [GrantsNext]_grantVars
             PROVE  GInv'
  OBVIOUS
<1>1. IInv'
  BY GrantStepIsOutboxStep, NextOK DEF GInv
<1>2. ASSUME grants' \in [GrantIDs -> GrantRow], EventOK', OriginOK',
             listed' \in [Jobs -> SUBSET GrantIDs], ListedOK'
      PROVE  GInv'
  BY <1>1, <1>2 DEF GInv, GrantsTypeOK, IInv
<1>3. ASSUME NEW h \in Handlers, NEW g \in GrantIDs, NEW at \in Kinds,
             GrantAccess(h, g, at)
      PROVE  GInv'
  <2>1. ListedOK'
    BY <1>3 DEF GrantAccess, GInv, GrantsTypeOK, ListedOK, NoGrant
  <2>2. listed' \in [Jobs -> SUBSET GrantIDs]
    BY <1>3 DEF GrantAccess, GInv, GrantsTypeOK
  <2> QED
    BY <1>2, <1>3, <2>1, <2>2, GrantAccessOK
<1>4. ASSUME NEW h \in Handlers, NEW g \in GrantIDs, grants[g].status # "none",
             RevokeGrant(h, g),
             listed' \in [Jobs -> SUBSET GrantIDs],
             \A j \in Jobs : listed'[j] \subseteq listed[j]
      PROVE  GInv'
  <2>1. \A k \in GrantIDs : grants[k].status # "none" => grants'[k].status # "none"
    BY <1>4 DEF RevokeGrant, GInv, GrantsTypeOK, GrantRow
  <2>2. ListedOK'
    BY <1>4, <2>1 DEF GInv, GrantsTypeOK, ListedOK
  <2> QED
    BY <1>2, <1>4, <2>2, RevokeGrantOK
<1>5. ASSUME NEW h \in Handlers, NEW g \in GrantIDs, RevokeAccess(h, g)
      PROVE  GInv'
  BY <1>4, <1>5 DEF RevokeAccess, GInv, GrantsTypeOK
<1>6. ASSUME NEW j \in Jobs, NEW g \in GrantIDs, expireOne(j, g)
      PROVE  GInv'
  <2>1. j \in Handlers /\ grants[g].status # "none"
    BY <1>6, GrantsOK DEF expireOne, GInv, ListedOK
  <2>2. /\ listed' \in [Jobs -> SUBSET GrantIDs]
        /\ \A i \in Jobs : listed'[i] \subseteq listed[i]
    BY <1>6 DEF expireOne, GInv, GrantsTypeOK
  <2> QED
    BY <1>4, <1>6, <2>1, <2>2 DEF expireOne
<1>7. ASSUME NEW j \in Jobs, NEW g \in GrantIDs, expireOneError(j, g)
      PROVE  GInv'
  <2>1. SameRows /\ grants' = grants
    BY <1>7 DEF expireOneError, SameRows
  <2>2. /\ listed' \in [Jobs -> SUBSET GrantIDs]
        /\ \A i \in Jobs : listed'[i] \subseteq listed[i]
    BY <1>7 DEF expireOneError, GInv, GrantsTypeOK
  <2> QED
    BY <1>2, <2>1, <2>2, SameGrantsOK DEF GInv, GrantsTypeOK, ListedOK
<1>8. ASSUME NEW j \in Jobs, ListDueExpiringGrants(j)
      PROVE  GInv'
  <2>1. SameRows /\ grants' = grants
    BY <1>8 DEF ListDueExpiringGrants, SameRows
  <2>2. PICK due \in SUBSET DueGrants : listed' = [listed EXCEPT ![j] = due]
    BY <1>8 DEF ListDueExpiringGrants
  <2>3. due \subseteq GrantIDs /\ \A g \in due : grants[g].status # "none"
    BY DEF DueGrants
  <2>4. listed' \in [Jobs -> SUBSET GrantIDs] /\ ListedOK'
    BY <2>1, <2>2, <2>3 DEF GInv, GrantsTypeOK, ListedOK
  <2> QED
    BY <1>2, <2>1, <2>4, SameGrantsOK DEF GInv, GrantsTypeOK
<1>9. ASSUME NEW g \in GrantIDs, ExpiryPasses(g)
      PROVE  GInv'
  <2>1. /\ outbox' = outbox /\ listed' = listed
        /\ grants' = [grants EXCEPT ![g].expired = TRUE]
        /\ grants \in [GrantIDs -> GrantRow]
    BY <1>9 DEF ExpiryPasses, GInv, GrantsTypeOK
  <2>2. /\ grants' \in [GrantIDs -> GrantRow]
        /\ \A k \in GrantIDs : /\ grants'[k].status = grants[k].status
                               /\ grants'[k].at = grants[k].at
                               /\ grants'[k].ev = grants[k].ev
    BY <2>1 DEF GrantRow
  <2>3. EventOK' /\ OriginOK' /\ ListedOK'
    BY <2>1, <2>2 DEF GInv, GrantsTypeOK, EventOK, OriginOK, ListedOK
  <2> QED
    BY <1>2, <2>1, <2>2, <2>3 DEF GInv, GrantsTypeOK
<1>10. CASE ManagerNext /\ UNCHANGED <<grants, listed>>
  <2>1. SameRows
    BY <1>10, ManagerKeepsRows DEF GInv
  <2> QED
    BY <1>2, <1>10, <2>1, SameGrantsOK DEF GInv, GrantsTypeOK, ListedOK
<1>11. CASE UNCHANGED grantVars
  <2>1. SameRows /\ grants' = grants /\ listed' = listed
    BY <1>11 DEF grantVars, SameRows
  <2> QED
    BY <1>2, <2>1, SameGrantsOK DEF GInv, GrantsTypeOK, ListedOK
<1> QED
  BY <1>3, <1>5, <1>6, <1>7, <1>8, <1>9, <1>10, <1>11 DEF GrantsNext

-----------------------------------------------------------------------------
(* The theorems.                                                            *)

LEMMA GrantsInductive == GrantsSpec => []GInv
  BY GrantsInitOK, GrantsNextOK, PTL DEF GrantsSpec

\* Grants implements Outbox: every step of GrantAccess, RevokeAccess and
\* ExpireDueGrants is one the projection manager's specification allows, so
\* what is proved of the manager holds of grants.
THEOREM GrantsImplementOutbox == GrantsSpec => ImplementsOutbox
<1>1. GrantsInit => Init
  BY DEF GrantsInit
<1>2. GInv => GrantsTypeOK
  BY DEF GInv
<1> QED
  BY <1>1, <1>2, GrantStepIsOutboxStep, GrantsInductive, PTL
  DEF GrantsSpec, ImplementsOutbox, Spec

\* No silent success for grants: while grants are made, revoked and expired side
\* by side, an event that reads "synced" is in effect as far as no other event is
\* about the same thing, and a fault leaves at most one event in "projecting"
\* (GrantAccess, RevokeAccess, ApplyEvent).
THEOREM GrantsSyncedIsApplied == GrantsSpec => [](SyncedEffect /\ StrandedPerFault)
  BY GrantsImplementOutbox, SyncedIsApplied, OneRowPerFault, PTL DEF ImplementsOutbox

\* A custom grant's relationships belong to no other grant.
LEMMA CustomIsOwn ==
  ASSUME NEW g \in GrantIDs, NEW t \in customGrantRelationships(g),
         NEW k \in GrantIDs, NEW at \in Kinds, t \in RelationshipsOf(k, at)
  PROVE  k = g
  BY DEF customGrantRelationships, RelationshipsOf

LEMMA SoleWriter ==
  ASSUME GInv, NEW g \in GrantIDs, grants[g].status = "active",
         grants[g].at = "custom", NEW t \in customGrantRelationships(g)
  PROVE  SoleAuthority(grants[g].ev, t) /\ Writes(grants[g].ev, t)
<1> DEFINE e == grants[g].ev
<1>1. outbox[e].pl = GrantPayload(g, "custom")
  BY DEF GInv, EventOK
<1>2. Writes(e, t) /\ ~Deletes(e, t)
  BY <1>1 DEF Writes, Deletes, WritesOf, FiltersOf, GrantPayload, RelationshipsOf
<1>3. ASSUME NEW f \in Events \ {e}, Concerns(f, t)
      PROVE  FALSE
  <2>1. PICK k \in GrantIDs :
          \/ /\ grants[k].status # "none" /\ grants[k].ev = f
             /\ outbox[f].pl = GrantPayload(k, grants[k].at)
          \/ grants[k].status = "revoked" /\ outbox[f].pl = RevokePayload(k, grants[k].at)
    BY <1>3 DEF Concerns, GInv, OriginOK
  <2>2. k # g
    BY <1>3, <2>1
  <2>3. t \in RelationshipsOf(k, grants[k].at)
    BY <1>3, <2>1 DEF Concerns, Writes, Deletes, WritesOf, FiltersOf, GrantPayload,
                      RevokePayload, relationshipFilters
  <2>4. grants[k].at \in Kinds
    BY DEF GInv, GrantsTypeOK, GrantRow
  <2> QED
    BY <2>2, <2>3, <2>4, CustomIsOwn
<1> QED
  BY <1>2, <1>3 DEF SoleAuthority

\* A custom grant whose event reads "synced" is in effect until it is revoked
\* or expires, for any number of grants, retries, workers and faults
\* (GrantAccess, ApplyEvent, RetryOnce).
THEOREM CustomGrantInEffect == GrantsSpec => []CustomGrantHolds
<1>1. GInv => CustomGrantHolds
  <2> SUFFICES ASSUME GInv, NEW g \in GrantIDs, grants[g].status = "active",
                      grants[g].at = "custom",
                      outbox[grants[g].ev].status = "synced",
                      NEW t \in customGrantRelationships(g)
               PROVE  t \in graph
    BY DEF CustomGrantHolds
  <2>1. SoleAuthority(grants[g].ev, t) /\ Writes(grants[g].ev, t)
    BY SoleWriter
  <2>2. grants[g].ev \in Events /\ t \in Tuples
    BY GrantsOK DEF GInv, EventOK, RelationshipsOf, Kinds
  <2> QED
    BY <2>1, <2>2 DEF GInv, IInv, SyncedEffect
<1> QED
  BY <1>1, GrantsInductive, PTL

\* The grants table and the job's lists keep their types: no request and no
\* run of the job takes a grant to a status the code does not know
\* (GrantAccess, RevokeGrant, ExpireDueGrants).
THEOREM GrantsTypeCorrect == GrantsSpec => []GrantsTypeOK
<1>1. GInv => GrantsTypeOK
  BY DEF GInv
<1> QED
  BY <1>1, GrantsInductive, PTL

-----------------------------------------------------------------------------
(* A settled revocation.                                                    *)

\* A custom grant whose write was over when it was revoked.
Settled(g) == grants[g].settled /\ grants[g].at = "custom"

\* Its write stays over.
OverOK == \A g \in GrantIDs : grants[g].settled =>
            grants[g].status = "revoked" /\ Over(grants[g].ev)

\* What a delete of it no longer has to send is gone.
GoneOK ==
  \A g \in GrantIDs, p \in Procs :
    /\ Settled(g) /\ proc[p].pc = "work" /\ IsRevokeOf(proc[p].ev, g)
    => \A t \in customGrantRelationships(g) : t \notin graph \/ {t} \in proc[p].todo

RInv == GInv /\ OverOK /\ GoneOK /\ RevocationHolds

\* A revocation asks for the deletion of each of the grant's relationships.
LEMMA RevokeFilters ==
  ASSUME NEW g \in GrantIDs, NEW e \in Events, Settled(g), IsRevokeOf(e, g)
  PROVE  FiltersOf(outbox[e].pl) = {{t} : t \in customGrantRelationships(g)}
<1>1. outbox[e].pl = RevokePayload(g, "custom")
  BY DEF Settled, IsRevokeOf
<1>2. RelationshipsOf(g, "custom") = customGrantRelationships(g)
  BY DEF RelationshipsOf
<1> QED
  BY <1>1, <1>2 DEF RevokePayload, FiltersOf, relationshipFilters

\* Only a grant that is revoked has a row that deletes it.
LEMMA RevokedFirst ==
  ASSUME GInv, NEW g \in GrantIDs, grants[g].at = "custom", NEW e \in Events, IsRevokeOf(e, g)
  PROVE  grants[g].status = "revoked"
<1>1. PICK k \in GrantIDs :
        \/ outbox[e].pl = GrantPayload(k, grants[k].at)
        \/ grants[k].status = "revoked" /\ outbox[e].pl = RevokePayload(k, grants[k].at)
  BY DEF GInv, OriginOK, IsRevokeOf
<1>2. outbox[e].pl = RevokePayload(g, "custom")
  BY DEF IsRevokeOf
<1>3. /\ grants[k].status = "revoked" /\ grants[k].at \in Kinds
      /\ RelationshipsOf(k, grants[k].at) = RelationshipsOf(g, "custom")
  <2>1. outbox[e].pl.op = "delete"
    BY <1>2 DEF RevokePayload
  <2>2. grants[k].status = "revoked" /\ outbox[e].pl = RevokePayload(k, grants[k].at)
    BY <1>1, <2>1 DEF GrantPayload
  <2>3. grants[k].at \in Kinds
    BY DEF GInv, GrantsTypeOK, GrantRow
  <2> QED
    BY <1>2, <2>2, <2>3 DEF RevokePayload
<1>4. <<"role", g>> \in customGrantRelationships(g)
  BY DEF customGrantRelationships
<1>5. <<"role", g>> \in RelationshipsOf(k, grants[k].at)
  BY <1>3, <1>4 DEF RelationshipsOf
<1>6. k = g
  BY <1>3, <1>4, <1>5, CustomIsOwn
<1> QED
  BY <1>3, <1>6

\* Nobody writes a settled grant's relationships again.
LEMMA NotAddedAgain ==
  ASSUME RInv, ManagerNext, NEW g \in GrantIDs, Settled(g),
         NEW t \in customGrantRelationships(g), t \in graph'
  PROVE  t \in graph
<1> SUFFICES ASSUME t \notin graph
             PROVE  FALSE
  OBVIOUS
<1>0. GInv /\ IInv
  BY DEF RInv, GInv
<1>1. PICK p \in Procs : proc[p].pc = "work" /\ t \in proc[p].puts
  BY <1>0, AddedByPuts
<1>2. /\ RefOK(p) /\ PartOK(p)
      /\ proc[p].ev \in Events /\ outbox[proc[p].ev].status # "none"
  BY <1>0, <1>1, InHand
<1>3. PICK e \in Events : e = proc[p].ev /\ e \in proc[p].batch /\ t \in WritesOf(outbox[e].pl)
  BY <1>1, <1>2 DEF RefOK, PartOK
<1>4. PICK k \in GrantIDs :
        \/ /\ grants[k].status # "none" /\ grants[k].ev = e
           /\ outbox[e].pl = GrantPayload(k, grants[k].at)
        \/ grants[k].status = "revoked" /\ outbox[e].pl = RevokePayload(k, grants[k].at)
  BY <1>0, <1>2, <1>3 DEF GInv, OriginOK
<1>5. grants[k].ev = e /\ t \in RelationshipsOf(k, grants[k].at) /\ grants[k].at \in Kinds
  BY <1>0, <1>3, <1>4 DEF WritesOf, RevokePayload, GrantPayload, GInv, GrantsTypeOK, GrantRow
<1>6. k = g
  BY <1>5, CustomIsOwn
<1>7. Over(e)
  BY <1>5, <1>6 DEF RInv, OverOK, Settled
<1> QED
  BY <1>3, <1>7 DEF Over

\* The manager works for settled grants.
LEMMA ManagerSettles ==
  ASSUME RInv, ManagerNext, UNCHANGED <<grants, listed>>
  PROVE  OverOK' /\ GoneOK' /\ RevocationHolds'
<1>0. GInv /\ IInv
  BY DEF RInv, GInv
<1>1. SameRows
  BY <1>0, ManagerKeepsRows
<1>2. ASSUME NEW g \in GrantIDs, NEW e \in Events
      PROVE  IsRevokeOf(e, g)' <=> IsRevokeOf(e, g)
  BY <1>1 DEF IsRevokeOf, SameRows
<1>3. OverOK'
  <2> SUFFICES ASSUME NEW g \in GrantIDs, grants[g].settled
               PROVE  grants[g].status = "revoked" /\ Over(grants[g].ev)'
    BY DEF OverOK, Over
  <2>1. /\ grants[g].status = "revoked" /\ Over(grants[g].ev)
        /\ grants[g].ev \in Events
    BY <1>0 DEF RInv, OverOK, GInv, EventOK
  <2>2. PICK e \in Events : e = grants[g].ev /\ Over(e)
    BY <2>1
  <2>3. Over(e)'
    BY <1>0, <2>2, OverStable
  <2> QED
    BY <2>1, <2>2, <2>3 DEF Over
<1>4. GoneOK'
  <2> SUFFICES ASSUME NEW g \in GrantIDs, NEW p \in Procs, Settled(g)',
                      proc'[p].pc = "work", IsRevokeOf(proc[p].ev, g)',
                      NEW t \in customGrantRelationships(g), t \in graph'
               PROVE  {t} \in proc'[p].todo
    BY DEF GoneOK
  <2>1. Settled(g)
    BY DEF Settled
  <2>2. /\ proc'[p].ev = proc[p].ev
        /\ \/ proc[p].pc = "project" /\ proc'[p].todo = proc[p].todo
           \/ /\ proc[p].pc = "work"
              /\ \A f \in proc[p].todo : f \in proc'[p].todo \/ f \cap graph' = {}
    BY <1>0, AfterStep
  <2>3. proc[p].ev \in Events /\ PartOK(p)
    BY <1>0, <2>2, InHand
  <2>4. PICK e \in Events : e = proc[p].ev /\ IsRevokeOf(e, g)
    BY <1>1, <2>2, <2>3 DEF IsRevokeOf, SameRows
  <2>5. t \in graph
    BY <2>1, NotAddedAgain
  <2>6. CASE proc[p].pc = "project" /\ proc'[p].todo = proc[p].todo
    BY <2>1, <2>3, <2>4, <2>6, RevokeFilters DEF PartOK
  <2>7. CASE /\ proc[p].pc = "work"
             /\ \A f \in proc[p].todo : f \in proc'[p].todo \/ f \cap graph' = {}
    <3>1. {t} \in proc[p].todo
      BY <2>1, <2>4, <2>5, <2>7 DEF RInv, GoneOK
    <3> QED
      BY <2>7, <3>1
  <2> QED
    BY <2>2, <2>6, <2>7
<1>5. RevocationHolds'
  <2> SUFFICES ASSUME NEW g \in GrantIDs, NEW e \in Events,
                      grants[g].status = "revoked", Settled(g), IsRevokeOf(e, g)',
                      outbox'[e].status = "synced",
                      NEW t \in customGrantRelationships(g), t \in graph'
               PROVE  FALSE
    BY DEF RevocationHolds, Settled
  <2>1. t \in graph /\ IsRevokeOf(e, g)
    BY <1>2, NotAddedAgain
  <2>2. CASE outbox[e].status = "synced"
    BY <2>1, <2>2 DEF RInv, RevocationHolds, Settled
  <2>3. CASE outbox[e].status # "synced"
    <3>1. PICK p \in Procs : proc[p].ev = e /\ proc[p].pc = "work" /\ proc[p].todo = {}
      BY <1>0, <2>3, StatusChange
    <3> QED
      BY <2>1, <3>1 DEF RInv, GoneOK
  <2> QED
    BY <2>2, <2>3
<1> QED
  BY <1>3, <1>4, <1>5

\* A new row changes nothing for settled grants, and a grant is settled only
\* while its write is over.
LEMMA RequestSettles ==
  ASSUME RInv, NEW h \in Procs, NEW pl, CreateAndDispatch(h, pl),
         \A g \in GrantIDs : grants'[g].settled =>
           /\ grants'[g].status = "revoked"
           /\ grants'[g].ev = grants[g].ev /\ grants'[g].at = grants[g].at
           /\ grants[g].status # "none"
           /\ \/ grants[g].settled
              \/ grants[g].status # "revoked" /\ Over(grants[g].ev)
  PROVE  OverOK' /\ GoneOK' /\ RevocationHolds'
<1>0. GInv /\ IInv
  BY DEF RInv, GInv
<1>1. PICK n \in Events : /\ outbox[n].status = "none"
                          /\ outbox' = [outbox EXCEPT ![n] = newEvent(pl)]
                          /\ Begin(h, {n})
  BY DEF CreateAndDispatch, IsNext
<1>2. /\ outbox'[n].status = "pending" /\ graph' = graph
      /\ \A e \in Events \ {n} : outbox'[e] = outbox[e]
  BY <1>0, <1>1 DEF CreateAndDispatch, newEvent, IInv, TypeOK
<1>3. ASSUME NEW r \in Procs
      PROVE  /\ r # h => proc'[r] = proc[r]
             /\ r = h => proc'[r].batch \subseteq {n} /\ proc'[r].pc # "work"
  BY <1>0, <1>1, BeginShrinks
<1>4. ASSUME NEW g \in GrantIDs, grants'[g].settled
      PROVE  /\ grants'[g].status = "revoked" /\ grants[g].ev \in Events
             /\ grants'[g].ev = grants[g].ev /\ grants'[g].at = grants[g].at
             /\ Over(grants[g].ev)
  BY <1>0, <1>4 DEF RInv, OverOK, GInv, EventOK
<1>5. OverOK'
  <2> SUFFICES ASSUME NEW g \in GrantIDs, grants'[g].settled
               PROVE  grants'[g].status = "revoked" /\ Over(grants[g].ev)'
    BY DEF OverOK, Over
  <2>1. PICK e \in Events : e = grants[g].ev /\ Over(e)
    BY <1>4
  <2>2. e # n
    BY <1>1, <2>1 DEF Over
  <2>3. outbox'[e].status = "synced" /\ \A p \in Procs : e \notin proc'[p].batch
    BY <1>2, <1>3, <2>1, <2>2 DEF Over
  <2> QED
    BY <1>4, <2>1, <2>3 DEF Over
<1>6. ASSUME NEW g \in GrantIDs, Settled(g)', NEW e \in Events, e # n, IsRevokeOf(e, g)'
      PROVE  Settled(g) /\ IsRevokeOf(e, g) /\ grants[g].status = "revoked"
  <2>1. grants'[g].at = grants[g].at /\ grants[g].at = "custom"
    BY <1>4, <1>6 DEF Settled
  <2>2. IsRevokeOf(e, g)
    BY <1>2, <1>6, <2>1 DEF IsRevokeOf
  <2>3. grants[g].status = "revoked"
    BY <1>0, <2>1, <2>2, RevokedFirst
  <2> QED
    BY <1>6, <2>1, <2>2, <2>3 DEF Settled
<1>7. GoneOK'
  <2> SUFFICES ASSUME NEW g \in GrantIDs, NEW p \in Procs, Settled(g)',
                      proc'[p].pc = "work", IsRevokeOf(proc[p].ev, g)',
                      NEW t \in customGrantRelationships(g), t \in graph'
               PROVE  {t} \in proc'[p].todo
    BY DEF GoneOK
  <2>1. proc'[p] = proc[p] /\ proc[p].pc = "work"
    BY <1>3
  <2>2. proc[p].ev \in Events /\ outbox[proc[p].ev].status # "none"
    BY <1>0, <2>1, InHand
  <2>3. PICK e \in Events : e = proc[p].ev /\ e # n /\ IsRevokeOf(e, g)'
    BY <1>1, <2>1, <2>2 DEF IsRevokeOf
  <2>4. Settled(g) /\ IsRevokeOf(e, g)
    BY <1>6, <2>3
  <2> QED
    BY <1>2, <2>1, <2>3, <2>4 DEF RInv, GoneOK
<1>8. RevocationHolds'
  <2> SUFFICES ASSUME NEW g \in GrantIDs, NEW e \in Events, Settled(g)',
                      IsRevokeOf(e, g)', outbox'[e].status = "synced"
               PROVE  customGrantRelationships(g) \cap graph' = {}
    BY DEF RevocationHolds, Settled
  <2>1. e # n
    BY <1>2
  <2>2. Settled(g) /\ IsRevokeOf(e, g) /\ grants[g].status = "revoked"
    BY <1>6, <2>1
  <2> QED
    BY <1>2, <2>1, <2>2 DEF RInv, RevocationHolds, Settled
<1> QED
  BY <1>5, <1>7, <1>8

\* Steps that change neither rows nor graph nor what matters of the grants.
LEMMA StillSettled ==
  ASSUME RInv, UNCHANGED <<outbox, graph, proc>>,
         \A g \in GrantIDs : /\ grants'[g].status = grants[g].status
                             /\ grants'[g].at = grants[g].at
                             /\ grants'[g].ev = grants[g].ev
                             /\ grants'[g].settled = grants[g].settled
  PROVE  OverOK' /\ GoneOK' /\ RevocationHolds'
<1>1. \A g \in GrantIDs : Settled(g)' = Settled(g)
  BY DEF Settled
<1>2. OverOK'
  BY DEF RInv, OverOK, Over
<1>3. GoneOK'
  BY <1>1 DEF RInv, GoneOK, IsRevokeOf
<1>4. RevocationHolds'
  BY DEF RInv, RevocationHolds, IsRevokeOf
<1> QED
  BY <1>2, <1>3, <1>4

LEMMA RInvInit == GrantsInit => RInv
<1> SUFFICES ASSUME GrantsInit
             PROVE  RInv
  OBVIOUS
<1>1. \A g \in GrantIDs : ~grants[g].settled
  BY DEF GrantsInit, NoGrant
<1> QED
  BY <1>1, GrantsInitOK DEF RInv, OverOK, GoneOK, RevocationHolds, Settled

LEMMA RevokeSettles ==
  ASSUME RInv, NEW h \in Handlers, NEW g \in GrantIDs, grants[g].status # "none",
         RevokeGrant(h, g)
  PROVE  OverOK' /\ GoneOK' /\ RevocationHolds'
<1>1. grants \in [GrantIDs -> GrantRow] /\ OverOK
  BY DEF RInv, GInv, GrantsTypeOK
<1> DEFINE s == IF grants[g].settled \/ grants[g].status = "revoked"
                  THEN grants[g].settled ELSE Over(grants[g].ev)
<1>2. grants' = [grants EXCEPT ![g].status = "revoked", ![g].settled = s]
  BY <1>1 DEF RevokeGrant
<1>3. s => \/ grants[g].settled
           \/ grants[g].status # "revoked" /\ Over(grants[g].ev)
  OBVIOUS
<1> HIDE DEF s
<1>4. /\ grants'[g].status = "revoked" /\ grants'[g].settled = s
      /\ grants'[g].ev = grants[g].ev /\ grants'[g].at = grants[g].at
      /\ \A k \in GrantIDs \ {g} : grants'[k] = grants[k]
  BY <1>1, <1>2 DEF GrantRow
<1>5. ASSUME NEW k \in GrantIDs, grants'[k].settled
      PROVE  /\ grants'[k].status = "revoked"
             /\ grants'[k].ev = grants[k].ev /\ grants'[k].at = grants[k].at
             /\ grants[k].status # "none"
             /\ \/ grants[k].settled
                \/ grants[k].status # "revoked" /\ Over(grants[k].ev)
  <2>1. CASE k = g
    BY <1>3, <1>4, <1>5, <2>1
  <2>2. CASE k # g
    BY <1>1, <1>4, <1>5, <2>2 DEF OverOK
  <2> QED
    BY <2>1, <2>2
<1>6. h \in Procs /\ CreateAndDispatch(h, RevokePayload(g, grants[g].at))
  BY ConstantsOK DEF RevokeGrant
<1> QED
  BY <1>5, <1>6, RequestSettles

LEMMA RInvNext == RInv /\ [GrantsNext]_grantVars => RInv'
<1> SUFFICES ASSUME RInv, [GrantsNext]_grantVars
             PROVE  OverOK' /\ GoneOK' /\ RevocationHolds'
  BY GrantsNextOK DEF RInv
<1>0. grants \in [GrantIDs -> GrantRow] /\ OverOK
  BY DEF RInv, GInv, GrantsTypeOK
<1>1. ASSUME NEW h \in Handlers, NEW g \in GrantIDs, NEW at \in Kinds,
             GrantAccess(h, g, at)
      PROVE  OverOK' /\ GoneOK' /\ RevocationHolds'
  <2> DEFINE row(e) == [NoGrant EXCEPT !.status = "active", !.at = at, !.ev = e]
  <2>0. PICK e \in Events : grants' = [grants EXCEPT ![g] = row(e)]
    BY <1>1 DEF GrantAccess
  <2>4. ~row(e).settled
    BY DEF NoGrant
  <2> HIDE DEF row
  <2>1. ASSUME NEW k \in GrantIDs, grants'[k].settled
        PROVE  grants'[k] = grants[k]
    BY <1>0, <2>0, <2>1, <2>4
  <2>2. \A k \in GrantIDs : grants[k].settled => grants[k].status = "revoked"
    BY <1>0 DEF OverOK
  <2>3. h \in Procs /\ CreateAndDispatch(h, GrantPayload(g, at))
    BY <1>1, ConstantsOK DEF GrantAccess
  <2> QED
    BY <2>1, <2>2, <2>3, RequestSettles
<1>2. ASSUME NEW h \in Handlers, NEW g \in GrantIDs, RevokeAccess(h, g)
      PROVE  OverOK' /\ GoneOK' /\ RevocationHolds'
  BY <1>2, RevokeSettles DEF RevokeAccess
<1>3. ASSUME NEW j \in Jobs, NEW g \in GrantIDs, expireOne(j, g)
      PROVE  OverOK' /\ GoneOK' /\ RevocationHolds'
  <2>1. j \in Handlers /\ grants[g].status # "none"
    BY <1>3, GrantsOK DEF expireOne, RInv, GInv, ListedOK
  <2> QED
    BY <1>3, <2>1, RevokeSettles DEF expireOne
<1>4. CASE \/ \E j \in Jobs : ListDueExpiringGrants(j)
           \/ \E j \in Jobs, g \in GrantIDs : expireOneError(j, g)
           \/ UNCHANGED grantVars
  BY <1>4, StillSettled DEF ListDueExpiringGrants, expireOneError, grantVars
<1>5. ASSUME NEW g \in GrantIDs, ExpiryPasses(g)
      PROVE  OverOK' /\ GoneOK' /\ RevocationHolds'
  <2>1. /\ UNCHANGED <<outbox, graph, proc>>
        /\ grants' = [grants EXCEPT ![g].expired = TRUE]
    BY <1>5 DEF ExpiryPasses
  <2>2. \A k \in GrantIDs : /\ grants'[k].status = grants[k].status
                            /\ grants'[k].at = grants[k].at
                            /\ grants'[k].ev = grants[k].ev
                            /\ grants'[k].settled = grants[k].settled
    BY <1>0, <2>1 DEF GrantRow
  <2> QED
    BY <2>1, <2>2, StillSettled
<1>6. CASE ManagerNext /\ UNCHANGED <<grants, listed>>
  BY <1>6, ManagerSettles
<1> QED
  BY <1>1, <1>2, <1>3, <1>4, <1>5, <1>6 DEF GrantsNext

\* A custom grant that was in effect when it was revoked is gone for good once
\* one of its revocations reads "synced", for any number of requests, jobs,
\* workers, retries and faults (RevokeAccess, ExpireDueGrants, ApplyEvent).
THEOREM RevocationsHold == GrantsSpec => []RevocationHolds
<1>1. RInv => RevocationHolds
  BY DEF RInv
<1> QED
  BY <1>1, RInvInit, RInvNext, PTL DEF GrantsSpec
=============================================================================
