------------------------- MODULE RoleTemplates_proofs -----------------------
(***************************************************************************)
(* Proofs about role templates, for any permissions and any number of       *)
(* requests: optimistic concurrency does its work as long as no client     *)
(* registers a role again.                                                 *)
(***************************************************************************)
EXTENDS RoleTemplates, Outbox_proofs

-----------------------------------------------------------------------------
(* The inductive invariant.                                                 *)

\* The rows are a prefix of Events, empty until the role is registered.
PrefixOK ==
  /\ \A e \in Events : outbox[e].status # "none" =>
       \A f \in Events : f < e => outbox[f].status # "none"
  /\ \A e \in Events : outbox[e].status # "none" => role.exists
  /\ role.exists => \E e \in Events : outbox[e].status # "none"
  /\ role.exists => role.perms \in CustomPermissions

\* A request whose version is still the row's has read the row as it is.
ReadOK ==
  \A h \in Handlers : req[h].op # "none" =>
    /\ role.exists /\ req[h].expected <= role.version
    /\ req[h].before \in CustomPermissions /\ req[h].desired \in CustomPermissions
    /\ req[h].op = "disable" => ~req[h].enabled
    /\ req[h].expected = role.version =>
         /\ req[h].before = role.perms
         /\ req[h].op = "update" => req[h].enabled = role.enabled
         /\ req[h].op = "disable" => req[h].desired = role.perms

RInv == RolesTypeOK /\ IInv /\ PrefixOK /\ ReadOK /\ UpdatesChain

LEMMA RolesInitOK == RolesInit => RInv
<1> SUFFICES ASSUME RolesInit
             PROVE  RInv
  OBVIOUS
<1>1. IInv
  BY InitOK DEF RolesInit
<1>2. NoRequest \in Request /\ NoRequest.op = "none"
  BY DEF NoRequest, Request
<1>3. RolesTypeOK
  BY <1>1, <1>2 DEF RolesInit, RolesTypeOK, RoleRow, IInv
<1>4. \A e \in Events : outbox[e].status = "none"
  BY DEF RolesInit, Init, NoRow
<1>5. PrefixOK /\ UpdatesChain
  BY <1>4 DEF RolesInit, PrefixOK, UpdatesChain
<1>6. ReadOK
  BY <1>2 DEF RolesInit, ReadOK
<1> QED
  BY <1>1, <1>3, <1>5, <1>6 DEF RInv

-----------------------------------------------------------------------------
(* Role templates implement Outbox, even where clients register them again. *)

\* Every request commits permissions that are valid.
FormInv ==
  /\ RolesTypeOK /\ IInv
  /\ role.exists => role.perms \in CustomPermissions
  /\ \A h \in Handlers : req[h].op # "none" =>
       /\ req[h].before \in CustomPermissions
       /\ req[h].desired \in CustomPermissions

LEMMA RoleStepIsOutboxStep ==
  ASSUME FormInv, [RolesNext]_roleVars
  PROVE  [Next]_vars
<1>1. ASSUME NEW h \in Handlers, NEW perms \in CustomPermissions,
             RegisterRoleTemplate(h, perms)
      PROVE  Next
  <2>1. RegisterPayload(perms) \in Payloads
    BY RolesOK
  <2> QED
    BY <1>1, <2>1 DEF RegisterRoleTemplate, Next
<1>2. ASSUME NEW h \in Handlers, CommitUpdate(h)
      PROVE  Next
  <2>1. UpdatePayload(req[h].before, req[h].desired) \in Payloads
    BY <1>2, RolesOK DEF CommitUpdate, FormInv
  <2> QED
    BY <1>2, <2>1 DEF CommitUpdate, Next
<1>3. ASSUME NEW h \in Handlers,
             \/ \E expected \in 1 .. MaxVersion, desired \in CustomPermissions :
                  UpdateRoleTemplate(h, expected, desired)
             \/ \E expected \in 1 .. MaxVersion : DisableRoleTemplate(h, expected)
             \/ CommitDisable(h) \/ VersionConflict(h)
      PROVE  UNCHANGED vars
  BY <1>3 DEF UpdateRoleTemplate, DisableRoleTemplate, CommitDisable,
              VersionConflict, vars
<1>4. CASE ManagerNext
  BY <1>4 DEF Next
<1>5. CASE UNCHANGED roleVars
  BY <1>5 DEF roleVars, vars
<1> QED
  BY <1>1, <1>2, <1>3, <1>4, <1>5 DEF RolesNext, Handle

\* A request that is taken up keeps what it has read and asks for.
LEMMA AskOK ==
  ASSUME FormInv, IInv', NEW h \in Handlers, NEW r \in Request, role' = role,
         req' = [req EXCEPT ![h] = r],
         r.op # "none" => r.before \in CustomPermissions /\ r.desired \in CustomPermissions
  PROVE  FormInv'
<1>1. req \in [Handlers -> Request] /\ role' \in RoleRow
  BY DEF FormInv, RolesTypeOK
<1>2. req' \in [Handlers -> Request] /\ req'[h] = r
      /\ \A g \in Handlers \ {h} : req'[g] = req[g]
  BY <1>1
<1>3. RolesTypeOK'
  BY <1>1, <1>2 DEF RolesTypeOK, IInv
<1> QED
  BY <1>2, <1>3 DEF FormInv

\* A request whose row is written is over.
LEMMA CommitOK ==
  ASSUME FormInv, IInv', NEW h \in Handlers, req[h].op # "none", Done(h),
         role.version < MaxVersion,
         role' = [role EXCEPT !.version = @ + 1, !.perms = req[h].desired,
                              !.enabled = req[h].enabled]
  PROVE  FormInv'
<1>1. req \in [Handlers -> Request] /\ role \in RoleRow /\ req[h] \in Request
  BY DEF FormInv, RolesTypeOK
<1>2. NoRequest \in Request /\ NoRequest.op = "none"
  BY DEF NoRequest, Request
<1>3. /\ req' \in [Handlers -> Request] /\ req'[h] = NoRequest
      /\ \A g \in Handlers \ {h} : req'[g] = req[g]
  BY <1>1, <1>2 DEF Done
<1>4. role' \in RoleRow /\ role'.perms = req[h].desired
  <2>1. /\ req[h].desired \in SUBSET Permissions /\ req[h].enabled \in BOOLEAN
        /\ role.version + 1 \in Nat
    BY <1>1 DEF RoleRow, Request
  <2> QED
    BY <1>1, <2>1 DEF RoleRow
<1>5. RolesTypeOK'
  BY <1>3, <1>4 DEF RolesTypeOK, IInv
<1> QED
  BY <1>2, <1>3, <1>4, <1>5 DEF FormInv

LEMMA FormNextOK == FormInv /\ [RolesNext]_roleVars => FormInv'
<1> SUFFICES ASSUME FormInv, [RolesNext]_roleVars
             PROVE  FormInv'
  OBVIOUS
<1>1. IInv'
  BY RoleStepIsOutboxStep, NextOK DEF FormInv
<1>2. role \in RoleRow /\ req \in [Handlers -> Request]
  BY DEF FormInv, RolesTypeOK
<1>3. ASSUME NEW h \in Handlers, NEW perms \in CustomPermissions,
             RegisterRoleTemplate(h, perms)
      PROVE  FormInv'
  <2>1. /\ role' = [exists |-> TRUE, version |-> 1, perms |-> perms, enabled |-> TRUE]
        /\ req' = req
    BY <1>3 DEF RegisterRoleTemplate
  <2>2. role' \in RoleRow /\ role'.perms = perms
    BY <2>1 DEF RoleRow, CustomPermissions
  <2>3. RolesTypeOK'
    BY <1>1, <1>2, <2>1, <2>2 DEF RolesTypeOK, IInv
  <2> QED
    BY <1>1, <2>1, <2>2, <2>3 DEF FormInv
<1>4. ASSUME NEW h \in Handlers, NEW expected \in 1 .. MaxVersion,
             NEW desired \in CustomPermissions,
             UpdateRoleTemplate(h, expected, desired)
      PROVE  FormInv'
  <2> DEFINE r == [op |-> "update", expected |-> expected, before |-> role.perms,
                   desired |-> desired, enabled |-> role.enabled]
  <2>1. r \in Request
    BY <1>2, RolesOK DEF Request, RoleRow, CustomPermissions
  <2>2. r.before = role.perms /\ r.desired = desired
    OBVIOUS
  <2>3. role.exists /\ req' = [req EXCEPT ![h] = r] /\ role' = role
    BY <1>4 DEF UpdateRoleTemplate
  <2> HIDE DEF r
  <2> QED
    BY <1>1, <2>1, <2>2, <2>3, AskOK DEF FormInv
<1>5. ASSUME NEW h \in Handlers, NEW expected \in 1 .. MaxVersion,
             DisableRoleTemplate(h, expected)
      PROVE  FormInv'
  <2> DEFINE r == [op |-> "disable", expected |-> expected, before |-> role.perms,
                   desired |-> role.perms, enabled |-> FALSE]
  <2>1. r \in Request
    BY <1>2, RolesOK DEF Request, RoleRow
  <2>2. r.before = role.perms /\ r.desired = role.perms
    OBVIOUS
  <2>3. role.exists /\ req' = [req EXCEPT ![h] = r] /\ role' = role
    BY <1>5 DEF DisableRoleTemplate
  <2> HIDE DEF r
  <2> QED
    BY <1>1, <2>1, <2>2, <2>3, AskOK DEF FormInv
<1>6. ASSUME NEW h \in Handlers, CommitUpdate(h) \/ CommitDisable(h)
      PROVE  FormInv'
  BY <1>1, <1>6, CommitOK DEF CommitUpdate, CommitDisable
<1>7. ASSUME NEW h \in Handlers, VersionConflict(h)
      PROVE  FormInv'
  <2>1. NoRequest \in Request /\ NoRequest.op = "none"
    BY DEF NoRequest, Request
  <2> QED
    BY <1>1, <1>7, <2>1, AskOK DEF VersionConflict, Done
<1>8. CASE UNCHANGED <<role, req>>
  BY <1>1, <1>2, <1>8 DEF FormInv, RolesTypeOK, IInv
<1> QED
  BY <1>3, <1>4, <1>5, <1>6, <1>7, <1>8 DEF RolesNext, Handle, roleVars

LEMMA FormInductive == RolesSpec => []FormInv
<1>1. RolesInit => FormInv
  <2> SUFFICES ASSUME RolesInit
               PROVE  FormInv
    OBVIOUS
  <2>1. IInv
    BY InitOK DEF RolesInit
  <2>2. NoRequest \in Request /\ NoRequest.op = "none"
    BY DEF NoRequest, Request
  <2> QED
    BY <2>1, <2>2 DEF RolesInit, FormInv, RolesTypeOK, RoleRow, IInv
<1> QED
  BY <1>1, FormNextOK, PTL DEF RolesSpec

\* Type correctness: rows, requests and events of a role keep to the values the
\* code knows, for any number of clients, those that register the role again
\* included (RoleTemplateModel, createOutbox).
THEOREM RolesTypeCorrect == RolesSpec => []RolesTypeOK
<1>1. FormInv => RolesTypeOK
  BY DEF FormInv
<1> QED
  BY <1>1, FormInductive, PTL

\* Role templates are clients of the projection manager and nothing more: every
\* step of a request is a step of Outbox or leaves its state alone, whatever
\* requests interleave and whether or not roles are registered again
\* (RegisterRoleTemplate, UpdateRoleTemplate, DisableRoleTemplate).
THEOREM RolesAreOutbox == RolesSpec => RolesImplementOutbox
<1>1. RolesInit => Init
  BY DEF RolesInit
<1>2. FormInv /\ [RolesNext]_roleVars => [Next]_vars
  BY RoleStepIsOutboxStep
<1> QED
  BY <1>1, <1>2, FormInductive, PTL DEF RolesSpec, RolesImplementOutbox, Spec

\* No silent success for roles: the permissions of an event that reads "synced"
\* are in SpiceDB as far as no other event is about them, and a fault leaves at
\* most one event in "projecting", registering again included (ApplyEvent).
THEOREM RolesSyncedIsApplied == RolesSpec => [](SyncedEffect /\ StrandedPerFault)
  BY RolesAreOutbox, SyncedIsApplied, OneRowPerFault, PTL DEF RolesImplementOutbox

-----------------------------------------------------------------------------
(* Steps that create no row.                                                *)

LEMMA SameRowsOK ==
  ASSUME RInv, SameRows, role'.exists = role.exists, role'.perms = role.perms
  PROVE  PrefixOK' /\ UpdatesChain'
<1>1. PrefixOK'
  BY DEF RInv, PrefixOK, SameRows
<1>2. ASSUME NEW e \in Events, outbox'[e].status # "none"
      PROVE  /\ outbox'[e].pl.op = "replace" =>
                  e - 1 \in Events /\ outbox'[e].pl.prev = outbox'[e - 1].pl.rels
             /\ e = MaxEvents \/ outbox'[e + 1].status = "none"
                  => outbox'[e].pl.rels = roleCapabilityRelationships(role'.perms)
  <2>1. outbox[e].status # "none" /\ outbox'[e].pl = outbox[e].pl
    BY <1>2 DEF SameRows
  <2>2. e # MaxEvents => e + 1 \in Events
    BY ConstantsOK DEF Events
  <2> QED
    BY <2>1, <2>2 DEF RInv, UpdatesChain, SameRows
<1> QED
  BY <1>1, <1>2 DEF UpdatesChain

-----------------------------------------------------------------------------
(* Steps that create a row.                                                 *)

LEMMA NewRowOK ==
  ASSUME RInv, NEW h, NEW pl, CreateAndDispatch(h, pl),
         role'.exists, role'.perms \in CustomPermissions,
         pl.rels = roleCapabilityRelationships(role'.perms),
         pl.op = "replace" =>
           role.exists /\ pl.prev = roleCapabilityRelationships(role.perms)
  PROVE  PrefixOK' /\ UpdatesChain'
<1>1. PICK e \in Events :
        /\ IsNext(e) /\ outbox[e].status = "none"
        /\ outbox'[e].status = "pending" /\ outbox'[e].pl = pl
        /\ \A d \in Events \ {e} : outbox'[d] = outbox[d]
  BY NewRow DEF RInv, RolesTypeOK
<1>2. \A d \in Events : d \in Int /\ 1 <= d /\ d <= MaxEvents
  BY ConstantsOK DEF Events
<1>3. \A d \in Events : d < e => outbox[d].status # "none"
  BY <1>1 DEF IsNext
<1>4. \A d \in Events : outbox[d].status # "none" => d < e
  <2> SUFFICES ASSUME NEW d \in Events, outbox[d].status # "none", ~(d < e)
               PROVE  FALSE
    OBVIOUS
  <2>1. d # e
    BY <1>1
  <2>2. e < d
    BY <1>2, <2>1
  <2> QED
    BY <1>1, <2>2 DEF RInv, PrefixOK
<1>5. \A d \in Events : outbox'[d].status # "none" <=> d < e \/ d = e
  BY <1>1, <1>2, <1>3, <1>4
<1>6. PrefixOK'
  <2>1. ASSUME NEW d \in Events, outbox'[d].status # "none",
               NEW f \in Events, f < d
        PROVE  outbox'[f].status # "none"
    <3>1. d < e \/ d = e
      BY <1>5, <2>1
    <3>2. f < e
      BY <1>2, <2>1, <3>1
    <3> QED
      BY <1>5, <3>2
  <2> QED
    BY <1>5, <2>1 DEF PrefixOK
<1>7. ASSUME NEW d \in Events, outbox'[d].status # "none"
      PROVE  /\ outbox'[d].pl.op = "replace" =>
                  d - 1 \in Events /\ outbox'[d].pl.prev = outbox'[d - 1].pl.rels
             /\ d = MaxEvents \/ outbox'[d + 1].status = "none"
                  => outbox'[d].pl.rels = roleCapabilityRelationships(role'.perms)
  <2>1. CASE d = e
    <3>1. ASSUME pl.op = "replace"
          PROVE  e - 1 \in Events /\ pl.prev = outbox'[e - 1].pl.rels
      <4>1. PICK k \in Events : outbox[k].status # "none"
        BY <3>1 DEF RInv, PrefixOK
      <4>2. k < e
        BY <1>4, <4>1
      <4>3. e - 1 \in Events /\ e - 1 < e /\ e - 1 # e /\ e - 1 # MaxEvents /\ (e - 1) + 1 = e
        BY <1>2, <4>2, ConstantsOK DEF Events
      <4>4. outbox[e - 1].status # "none" /\ outbox'[e - 1] = outbox[e - 1]
        BY <1>1, <1>3, <4>3
      <4>5. outbox[e - 1].pl.rels = roleCapabilityRelationships(role.perms)
        BY <1>1, <4>3, <4>4 DEF RInv, UpdatesChain
      <4> QED
        BY <3>1, <4>3, <4>4, <4>5
    <3> QED
      BY <1>1, <2>1, <3>1
  <2>2. CASE d # e
    <3>1. d < e /\ outbox'[d] = outbox[d] /\ outbox[d].status # "none"
      BY <1>1, <1>5, <1>7, <2>2
    <3>2. d # MaxEvents /\ d + 1 \in Events /\ (d + 1 < e \/ d + 1 = e)
      BY <1>2, <3>1, ConstantsOK DEF Events
    <3>3. outbox'[d + 1].status # "none"
      BY <1>5, <3>2
    <3>4. ASSUME outbox'[d].pl.op = "replace"
          PROVE  d - 1 \in Events /\ outbox'[d].pl.prev = outbox'[d - 1].pl.rels
      <4>1. d - 1 \in Events /\ outbox[d].pl.prev = outbox[d - 1].pl.rels
        BY <3>1, <3>4 DEF RInv, UpdatesChain
      <4>2. d - 1 # e
        BY <1>2, <3>1
      <4> QED
        BY <1>1, <3>1, <4>1, <4>2
    <3> QED
      BY <3>2, <3>3, <3>4
  <2> QED
    BY <2>1, <2>2
<1> QED
  BY <1>6, <1>7 DEF UpdatesChain

-----------------------------------------------------------------------------
(* One lemma per action.                                                    *)

LEMMA NoRequestFacts == NoRequest \in Request /\ NoRequest.op = "none"
  BY DEF NoRequest, Request

LEMMA RegisterOK ==
  ASSUME RInv, ~Reregister, NEW h \in Handlers, NEW perms \in CustomPermissions,
         RegisterRoleTemplate(h, perms), IInv'
  PROVE  RInv'
<1>1. ~role.exists
  BY DEF RegisterRoleTemplate
<1>2. /\ role'.exists /\ role'.perms = perms
      /\ role' = [exists |-> TRUE, version |-> 1, perms |-> perms,
                  enabled |-> TRUE]
      /\ CreateAndDispatch(h, RegisterPayload(perms))
      /\ req' = req
  BY DEF RegisterRoleTemplate
<1>3. PrefixOK' /\ UpdatesChain'
  <2>1. /\ RegisterPayload(perms).rels = roleCapabilityRelationships(perms)
        /\ RegisterPayload(perms).op = "write"
    BY DEF RegisterPayload
  <2> QED
    BY <1>2, <2>1, NewRowOK
<1>4. ReadOK'
  BY <1>1, <1>2 DEF RInv, ReadOK
<1>5. RolesTypeOK'
  BY <1>2 DEF RInv, RolesTypeOK, RoleRow, IInv, CustomPermissions
<1> QED
  BY <1>3, <1>4, <1>5 DEF RInv

LEMMA ReadsOK ==
  ASSUME RInv, NEW h \in Handlers, NEW r \in Request,
         role.exists, r.op # "none" =>
           /\ r.expected <= role.version
           /\ r.before = role.perms /\ r.desired \in CustomPermissions
           /\ r.op = "disable" => ~r.enabled /\ r.desired = role.perms
           /\ r.op = "update" => r.enabled = role.enabled,
         req' = [req EXCEPT ![h] = r],
         UNCHANGED <<outbox, graph, proc, faults, role>>, IInv'
  PROVE  RInv'
<1>1. RolesTypeOK'
  BY DEF RInv, RolesTypeOK, IInv
<1>2. PrefixOK' /\ UpdatesChain'
  BY SameRowsOK DEF SameRows
<1>3. ReadOK'
  BY DEF RInv, RolesTypeOK, ReadOK, PrefixOK
<1> QED
  BY <1>1, <1>2, <1>3 DEF RInv

\* After a commit every other request has a version that is no longer the row's.
LEMMA OthersConflict ==
  ASSUME RInv, NEW h \in Handlers, req' = [req EXCEPT ![h] = NoRequest],
         role'.exists = role.exists, role'.version = role.version + 1
  PROVE  ReadOK'
<1>1. ASSUME NEW k \in Handlers, req'[k].op # "none"
      PROVE  /\ req'[k] = req[k] /\ req[k].expected # role'.version
             /\ req[k].expected <= role'.version
  <2>1. req'[k] = req[k]
    BY <1>1, NoRequestFacts DEF RInv, RolesTypeOK
  <2>2. /\ req[k].expected <= role.version
        /\ req[k].expected \in Nat /\ role.version \in Nat
    BY <1>1, <2>1 DEF RInv, ReadOK, RolesTypeOK, RoleRow, Request
  <2> QED
    BY <2>1, <2>2
<1> QED
  BY <1>1 DEF RInv, ReadOK

LEMMA CommitUpdateOK ==
  ASSUME RInv, NEW h \in Handlers, CommitUpdate(h), IInv'
  PROVE  RInv'
<1>1. /\ req[h].before = role.perms /\ req[h].desired \in CustomPermissions
      /\ role.exists /\ role \in RoleRow /\ req[h] \in Request
  BY DEF CommitUpdate, RInv, ReadOK, RolesTypeOK
<1>2. /\ role' = [role EXCEPT !.version = @ + 1, !.perms = req[h].desired,
                              !.enabled = req[h].enabled]
      /\ CreateAndDispatch(h, UpdatePayload(req[h].before, req[h].desired))
      /\ req' = [req EXCEPT ![h] = NoRequest]
  BY DEF CommitUpdate, Done
<1>3. /\ role'.exists = role.exists /\ role'.perms = req[h].desired
      /\ role'.version = role.version + 1 /\ role' \in RoleRow
  <2>1. role' = [exists |-> role.exists, version |-> role.version + 1,
                 perms |-> req[h].desired, enabled |-> req[h].enabled]
    BY <1>1, <1>2 DEF RoleRow
  <2>2. role.version + 1 \in Nat /\ role.exists \in BOOLEAN
    BY <1>1 DEF RoleRow
  <2>3. req[h].desired \in SUBSET Permissions /\ req[h].enabled \in BOOLEAN
    BY <1>1 DEF Request
  <2> QED
    BY <1>1, <2>1, <2>2, <2>3 DEF RoleRow
<1>4. PrefixOK' /\ UpdatesChain'
  <2> DEFINE pl == UpdatePayload(req[h].before, req[h].desired)
  <2>1. /\ pl.rels = roleCapabilityRelationships(req[h].desired)
        /\ pl.prev = roleCapabilityRelationships(role.perms)
    BY <1>1 DEF UpdatePayload
  <2> HIDE DEF pl
  <2>2. CreateAndDispatch(h, pl)
    BY <1>2 DEF pl
  <2> QED
    BY <1>1, <1>3, <2>1, <2>2, NewRowOK
<1>5. RolesTypeOK'
  BY <1>2, <1>3, NoRequestFacts DEF RInv, RolesTypeOK, IInv
<1>6. ReadOK'
  BY <1>2, <1>3, OthersConflict
<1> QED
  BY <1>4, <1>5, <1>6 DEF RInv

LEMMA CommitDisableOK ==
  ASSUME RInv, NEW h \in Handlers, CommitDisable(h), IInv'
  PROVE  RInv'
<1>1. /\ req[h].desired = role.perms
      /\ role.exists /\ role \in RoleRow /\ req[h] \in Request
  BY DEF CommitDisable, RInv, ReadOK, RolesTypeOK
<1>2. /\ role' = [role EXCEPT !.version = @ + 1, !.perms = req[h].desired,
                          !.enabled = req[h].enabled]
      /\ req' = [req EXCEPT ![h] = NoRequest]
      /\ outbox' = outbox
  BY DEF CommitDisable, Done
<1>3. /\ role'.exists = role.exists /\ role'.perms = role.perms
      /\ role'.version = role.version + 1 /\ role' \in RoleRow
  <2>1. role' = [exists |-> role.exists, version |-> role.version + 1,
                 perms |-> req[h].desired, enabled |-> req[h].enabled]
    BY <1>1, <1>2 DEF RoleRow
  <2>2. role.version + 1 \in Nat /\ role.exists \in BOOLEAN
    BY <1>1 DEF RoleRow
  <2>3. req[h].desired \in SUBSET Permissions /\ req[h].enabled \in BOOLEAN
    BY <1>1 DEF Request
  <2> QED
    BY <1>1, <2>1, <2>2, <2>3 DEF RoleRow
<1>4. PrefixOK' /\ UpdatesChain'
  BY <1>2, <1>3, SameRowsOK DEF SameRows
<1>5. RolesTypeOK'
  BY <1>2, <1>3, NoRequestFacts DEF RInv, RolesTypeOK, IInv
<1>6. ReadOK'
  BY <1>2, <1>3, OthersConflict
<1> QED
  BY <1>4, <1>5, <1>6 DEF RInv

LEMMA RestOK ==
  ASSUME RInv, role' = role, SameRows, req' \in [Handlers -> Request],
         \A h \in Handlers : req'[h] = req[h] \/ req'[h].op = "none", IInv'
  PROVE  RInv'
<1>1. RolesTypeOK'
  BY DEF RInv, RolesTypeOK, IInv
<1>2. PrefixOK' /\ UpdatesChain'
  BY SameRowsOK
<1>3. ReadOK'
  BY DEF RInv, ReadOK
<1> QED
  BY <1>1, <1>2, <1>3 DEF RInv

\* What is asserted without registering again is enough for an Outbox step.
LEMMA ValidForm == RInv => FormInv
  BY DEF RInv, FormInv, PrefixOK, ReadOK

LEMMA RolesNextOK ==
  ASSUME RInv, ~Reregister, [RolesNext]_roleVars
  PROVE  RInv'
<1>1. IInv'
  BY ValidForm, RoleStepIsOutboxStep, NextOK DEF RInv
<1>2. req \in [Handlers -> Request] /\ role \in RoleRow
  BY DEF RInv, RolesTypeOK
<1>3. ASSUME NEW h \in Handlers, NEW expected \in 1 .. MaxVersion,
             NEW desired \in CustomPermissions,
             UpdateRoleTemplate(h, expected, desired)
      PROVE  RInv'
  <2> DEFINE r == [op |-> "update", expected |-> expected,
                   before |-> role.perms, desired |-> desired,
                   enabled |-> role.enabled]
  <2>1. /\ role.perms \in SUBSET Permissions /\ role.enabled \in BOOLEAN
        /\ role.version \in Nat
    BY <1>2 DEF RoleRow
  <2>2. expected \in Nat /\ expected <= role.version
    BY <1>3, <2>1 DEF UpdateRoleTemplate
  <2>3. r \in Request
    BY <2>1, <2>2 DEF Request, CustomPermissions
  <2>4. /\ r.op = "update" /\ r.expected = expected /\ r.before = role.perms
        /\ r.desired = desired /\ r.enabled = role.enabled
    OBVIOUS
  <2>5. /\ role.exists /\ req' = [req EXCEPT ![h] = r]
        /\ UNCHANGED <<outbox, graph, proc, faults, role>>
    BY <1>3 DEF UpdateRoleTemplate
  <2> HIDE DEF r
  <2> QED
    BY <1>1, <2>2, <2>3, <2>4, <2>5, ReadsOK
<1>4. ASSUME NEW h \in Handlers, NEW expected \in 1 .. MaxVersion,
             DisableRoleTemplate(h, expected)
      PROVE  RInv'
  <2> DEFINE r == [op |-> "disable", expected |-> expected,
                   before |-> role.perms, desired |-> role.perms,
                   enabled |-> FALSE]
  <2>1. role.perms \in SUBSET Permissions /\ role.version \in Nat
    BY <1>2 DEF RoleRow
  <2>2. expected \in Nat /\ expected <= role.version
    BY <1>4, <2>1 DEF DisableRoleTemplate
  <2>3. r \in Request
    BY <2>1, <2>2 DEF Request
  <2>4. /\ r.op = "disable" /\ r.expected = expected /\ r.before = role.perms
        /\ r.desired = role.perms /\ ~r.enabled
    OBVIOUS
  <2>5. /\ role.exists /\ req' = [req EXCEPT ![h] = r]
        /\ UNCHANGED <<outbox, graph, proc, faults, role>>
    BY <1>4 DEF DisableRoleTemplate
  <2>6. role.perms \in CustomPermissions
    BY <2>5 DEF RInv, PrefixOK
  <2> HIDE DEF r
  <2> QED
    BY <1>1, <2>2, <2>3, <2>4, <2>5, <2>6, ReadsOK
<1>5. ASSUME NEW h \in Handlers, VersionConflict(h)
      PROVE  RInv'
  <2>1. role' = role /\ SameRows /\ req' = [req EXCEPT ![h] = NoRequest]
    BY <1>5 DEF VersionConflict, Done, SameRows
  <2> QED
    BY <1>1, <1>2, <2>1, NoRequestFacts, RestOK
<1>6. CASE ManagerNext /\ UNCHANGED <<role, req>>
  BY <1>1, <1>2, <1>6, RestOK, ManagerKeepsRows DEF RInv
<1>7. CASE UNCHANGED roleVars
  <2>1. role' = role /\ req' = req /\ SameRows
    BY <1>7 DEF roleVars, SameRows
  <2> QED
    BY <1>1, <1>2, <2>1, RestOK
<1> QED
  BY <1>1, <1>3, <1>4, <1>5, <1>6, <1>7, RegisterOK, CommitUpdateOK,
     CommitDisableOK DEF RolesNext, Handle

-----------------------------------------------------------------------------
(* The theorems.                                                            *)

LEMMA RolesInductive ==
  ASSUME ~Reregister
  PROVE  RolesSpec => []RInv
<1>1. RInv /\ [RolesNext]_roleVars => RInv'
  BY RolesNextOK
<1> QED
  BY <1>1, RolesInitOK, PTL DEF RolesSpec

\* No update is lost: as long as no client registers the role again, every
\* replace event takes away exactly what the event before it put there, for
\* any number of concurrent updates and disables (UpdateRoleTemplate).
THEOREM NoLostUpdate ==
  ASSUME ~Reregister
  PROVE  RolesSpec => []UpdatesChain
<1>1. RInv => UpdatesChain
  BY DEF RInv
<1> QED
  BY <1>1, RolesInductive, PTL

\* A role that was disabled is never enabled again by a request that read it
\* before (UpdateRoleTemplate, DisableRoleTemplate).
THEOREM DisabledForGood ==
  ASSUME ~Reregister
  PROVE  RolesSpec => DisabledStays
<1>1. ASSUME RInv, [RolesNext]_roleVars, role.exists, ~role.enabled
      PROVE  ~role'.enabled
  <2>1. role \in RoleRow /\ req \in [Handlers -> Request]
    BY <1>1 DEF RInv, RolesTypeOK
  <2>2. ASSUME NEW h \in Handlers, CommitUpdate(h)
        PROVE  ~role'.enabled
    <3>1. ~req[h].enabled /\ role'.enabled = req[h].enabled
      BY <1>1, <2>1, <2>2 DEF CommitUpdate, RInv, ReadOK, RoleRow
    <3> QED
      BY <3>1
  <2>3. ASSUME NEW h \in Handlers, CommitDisable(h)
        PROVE  ~role'.enabled
    <3>1. ~req[h].enabled /\ role'.enabled = req[h].enabled
      BY <1>1, <2>1, <2>3 DEF CommitDisable, RInv, ReadOK, RoleRow
    <3> QED
      BY <3>1
  <2>4. ASSUME NEW h \in Handlers, NEW perms \in CustomPermissions
        PROVE  ~RegisterRoleTemplate(h, perms)
    BY <1>1 DEF RegisterRoleTemplate
  <2>5. CASE role' = role
    BY <1>1, <2>5
  <2> QED
    BY <1>1, <2>2, <2>3, <2>4, <2>5 DEF RolesNext, Handle, UpdateRoleTemplate,
      DisableRoleTemplate, VersionConflict, roleVars
<1>2. RInv /\ [RolesNext]_roleVars
        => [role.exists /\ ~role.enabled => ~role'.enabled]_roleVars
  BY <1>1
<1> QED
  BY <1>2, RolesInductive, PTL DEF RolesSpec, DisabledStays
=============================================================================
