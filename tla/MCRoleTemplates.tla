-------------------------- MODULE MCRoleTemplates ---------------------------
(* Instances of RoleTemplates for TLC.                                      *)
EXTENDS RoleTemplates

MCTuples == roleCapabilityRelationships(Permissions)

MCPayloads ==
  {RegisterPayload(a) : a \in CustomPermissions} \cup
  {UpdatePayload(a, b) : a \in CustomPermissions, b \in CustomPermissions}
=============================================================================
