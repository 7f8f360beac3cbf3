---------------------------- MODULE RoleTemplates ---------------------------
(***************************************************************************)
(* Custom role templates (internal/biz/grant/service.go:                    *)
(* RegisterRoleTemplate, UpdateRoleTemplate, DisableRoleTemplate) on top of *)
(* the projection manager, for one role.  Update and disable read the row,  *)
(* decide, and commit under the version the client was shown.  A role's     *)
(* permissions are relationships of its custom_role object.                 *)
(***************************************************************************)
EXTENDS Outbox

CONSTANTS
  Permissions,   \* the permissions of the role's resource type
  Reregister,    \* whether clients register a role that is there already
  MaxVersion     \* bound: highest version of the row

VARIABLES
  role,     \* the role's row in iam_role_templates, with its permissions
  req       \* what each request has read and is about to commit

roleVars == <<outbox, graph, proc, faults, role, req>>

-----------------------------------------------------------------------------
roleCapabilityRelationships(perms) == {<<"capability", p>> : p \in perms}

RegisterPayload(perms) ==
  [op |-> "write", filters |-> {}, prev |-> {},
   rels |-> roleCapabilityRelationships(perms)]
UpdatePayload(before, desired) ==
  [op |-> "replace", filters |-> {},
   prev |-> roleCapabilityRelationships(before),
   rels |-> roleCapabilityRelationships(desired)]

\* validateCustomRolePermissions lets these through.
CustomPermissions == SUBSET Permissions \ {{}}

ASSUME RolesOK ==
  /\ MaxVersion \in Nat /\ Reregister \in BOOLEAN
  /\ \A a \in CustomPermissions, b \in CustomPermissions :
       {RegisterPayload(a), UpdatePayload(a, b)} \subseteq Payloads

RoleRow == [exists : BOOLEAN, version : Nat, perms : SUBSET Permissions,
            enabled : BOOLEAN]

Request == [op : {"none", "update", "disable"}, expected : Nat,
            before : SUBSET Permissions, desired : SUBSET Permissions,
            enabled : BOOLEAN]

RolesTypeOK ==
  /\ TypeOK
  /\ role \in RoleRow
  /\ req \in [Handlers -> Request]

NoRequest == [op |-> "none", expected |-> 0, before |-> {}, desired |-> {},
              enabled |-> FALSE]

RolesInit ==
  /\ Init /\ graph = {}
  /\ role = [exists |-> FALSE, version |-> 0, perms |-> {}, enabled |-> FALSE]
  /\ req = [h \in Handlers |-> NoRequest]

-----------------------------------------------------------------------------
Free(h) == proc[h].pc = "idle" /\ req[h].op = "none"

Done(h) == req' = [req EXCEPT ![h] = NoRequest]

\* Mutant of RegisterRoleTemplate: a sentinel for the version.
RegisterUnversioned(h, perms) ==
  /\ Free(h) /\ ~role.exists
  /\ role' = [exists |-> TRUE, version |-> -1, perms |-> perms, enabled |-> TRUE]
  /\ CreateAndDispatch(h, RegisterPayload(perms))
  /\ UNCHANGED req

\* SaveRoleTemplate upserts the row, at version 1, and replaces its
\* permissions; the event writes the new ones.
RegisterRoleTemplate(h, perms) ==
  /\ Free(h)
  /\ role.exists => Reregister
  /\ role' = [exists |-> TRUE, version |-> 1, perms |-> perms, enabled |-> TRUE]
  /\ CreateAndDispatch(h, RegisterPayload(perms))
  /\ UNCHANGED req

\* customRole, and the validation of the request.  The client was shown the
\* version it expects.
UpdateRoleTemplate(h, expected, desired) ==
  /\ Free(h) /\ role.exists /\ expected \in 1 .. role.version
  /\ req' = [req EXCEPT ![h] = [op |-> "update", expected |-> expected,
               before |-> role.perms, desired |-> desired,
               enabled |-> role.enabled]]
  /\ UNCHANGED <<outbox, graph, proc, faults, role>>

\* Mutant of CommitUpdate: the row is updated by id alone.
CommitUnchecked(h) ==
  /\ req[h].op = "update" /\ role.version < MaxVersion
  /\ role' = [role EXCEPT !.version = @ + 1, !.perms = req[h].desired,
                          !.enabled = req[h].enabled]
  /\ CreateAndDispatch(h, UpdatePayload(req[h].before, req[h].desired))
  /\ Done(h)

\* Mutant of CommitUpdate: the event of an earlier update that has not gone out
\* yet is overwritten.
CommitCoalesced(h) ==
  /\ req[h].op = "update" /\ role.version = req[h].expected
  /\ role.version < MaxVersion
  /\ role' = [role EXCEPT !.version = @ + 1, !.perms = req[h].desired,
                          !.enabled = req[h].enabled]
  /\ \/ \E e \in Events :
          /\ outbox[e].status \in {"pending", "failed"}
          /\ outbox' = [outbox EXCEPT ![e].pl.rels =
                          roleCapabilityRelationships(req[h].desired)]
          /\ UNCHANGED <<graph, proc, faults>>
     \/ CreateAndDispatch(h, UpdatePayload(req[h].before, req[h].desired))
  /\ Done(h)

\* The repository's UpdateRoleTemplate: where the version still is the expected
\* one, the row, its permissions and the event are written; what the request
\* does not change is written as it was read.
CommitUpdate(h) ==
  /\ req[h].op = "update" /\ role.version = req[h].expected
  /\ role.version < MaxVersion
  /\ role' = [role EXCEPT !.version = @ + 1, !.perms = req[h].desired,
                          !.enabled = req[h].enabled]
  /\ CreateAndDispatch(h, UpdatePayload(req[h].before, req[h].desired))
  /\ Done(h)

\* The active grants that are counted only decide whether the client has to
\* confirm.
DisableRoleTemplate(h, expected) ==
  /\ Free(h) /\ role.exists /\ expected \in 1 .. role.version
  /\ req' = [req EXCEPT ![h] = [op |-> "disable", expected |-> expected,
               before |-> role.perms, desired |-> role.perms, enabled |-> FALSE]]
  /\ UNCHANGED <<outbox, graph, proc, faults, role>>

\* The same repository call, without an event.
CommitDisable(h) ==
  /\ req[h].op = "disable" /\ role.version = req[h].expected
  /\ role.version < MaxVersion
  /\ role' = [role EXCEPT !.version = @ + 1, !.perms = req[h].desired,
                          !.enabled = req[h].enabled]
  /\ Done(h)
  /\ UNCHANGED <<outbox, graph, proc, faults>>

\* ErrRoleVersionConflict: the transaction is rolled back.
VersionConflict(h) ==
  /\ req[h].op # "none" /\ role.version # req[h].expected
  /\ Done(h)
  /\ UNCHANGED <<outbox, graph, proc, faults, role>>

-----------------------------------------------------------------------------
Handle(h) ==
  \/ \E perms \in CustomPermissions : RegisterRoleTemplate(h, perms)
  \/ \E expected \in 1 .. MaxVersion, desired \in CustomPermissions :
       UpdateRoleTemplate(h, expected, desired)
  \/ \E expected \in 1 .. MaxVersion : DisableRoleTemplate(h, expected)
  \/ CommitUpdate(h) \/ CommitDisable(h) \/ VersionConflict(h)

RolesNext ==
  \/ \E h \in Handlers : Handle(h)
  \/ ManagerNext /\ UNCHANGED <<role, req>>

RolesSpec == RolesInit /\ [][RolesNext]_roleVars

-----------------------------------------------------------------------------
(* Properties.                                                              *)

\* Optimistic concurrency: no update is lost.  Every replace event takes away
\* exactly what the event before it put there, and the row holds what the
\* last event put there, whatever requests read and committed in between
\* (UpdateRoleTemplate, replaceRolePermissions).
UpdatesChain ==
  \A e \in Events : outbox[e].status # "none" =>
    /\ outbox[e].pl.op = "replace" => /\ e - 1 \in Events
                                      /\ outbox[e].pl.prev = outbox[e - 1].pl.rels
    /\ e = MaxEvents \/ outbox[e + 1].status = "none"
         => outbox[e].pl.rels = roleCapabilityRelationships(role.perms)

\* Optimistic concurrency: a role that was disabled is not enabled again by a
\* request that read it before (UpdateRoleTemplate writes back "enabled").
DisabledStays == [][role.exists /\ ~role.enabled => ~role'.enabled]_roleVars

\* Whatever requests read and commit, and in whatever order, an event and what
\* it writes stay the projection manager's: a request commits an event with its
\* row or none, and never touches the graph, or an event that is there, itself
\* (createOutbox in SaveRoleTemplate and UpdateRoleTemplate).
RolesImplementOutbox == Spec
=============================================================================
