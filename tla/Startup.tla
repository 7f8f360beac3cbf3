------------------------------ MODULE Startup -------------------------------
(***************************************************************************)
(* The start of IAM processes that share one SpiceDB and one database:     *)
(* loadPermissionManifest, BootstrapAuthzSchema, the administrators'       *)
(* relationships (internal/data/data.go, authz_bootstrap.go) and the       *)
(* registration of the default role templates (internal/biz/defaults).     *)
(*                                                                         *)
(* A process reads the active schema, compares it with its own schema file *)
(* and writes the file's text, each a call of its own: processes of the    *)
(* same or of different releases start side by side, stop at any point and *)
(* are started again.                                                      *)
(***************************************************************************)
EXTENDS Integers, Sequences, FiniteSets

CONSTANTS
  Paths,        \* declarations: <<definition>>, <<definition, kind, member>>
  Expressions,  \* what a declaration says
  Roles,        \* keys of the default role templates
  Processes,
  Releases,     \* what a process is deployed with: files and settings
  FirstSchema,  \* the schema that is active at first
  MaxStarts     \* bound: starts of a process

\* A parsed schema: the declarations of its text and what they say.
Schema == UNION {[D -> Expressions] : D \in SUBSET Paths}

WellFormed(schema) ==
  \A p \in DOMAIN schema : Len(p) = 3 => <<p[1]>> \in DOMAIN schema

\* types: the manifest's SpiceDB types; members: their relations and
\* permissions; roles: the relation of each role template; admins: the
\* relations of its bootstrap section; migrations, deletions: the settings
\* AllowPermissionMigrations and AllowSchemaDeletions.
Release == [schema : Schema, types : SUBSET Paths, members : SUBSET Paths,
            roles : [Roles -> Paths], admins : SUBSET Paths,
            migrations : BOOLEAN, deletions : BOOLEAN]

ASSUME StartupOK ==
  /\ MaxStarts \in Nat
  /\ \A p \in Paths : p \in Seq(STRING) /\ Len(p) \in {1, 3}
  /\ Releases \subseteq Release /\ FirstSchema \in Schema
  /\ WellFormed(FirstSchema) /\ \A r \in Releases : WellFormed(r.schema)

VARIABLES
  active,   \* the schema SpiceDB holds
  process,  \* what each process is doing
  roles,    \* iam_role_templates: the registered roles and their relations
  starts,   \* how often each process was started
  dropped   \* history: the declarations that were taken out of the active schema

startupVars == <<active, process, roles, starts, dropped>>

-----------------------------------------------------------------------------
(* permissionmanifest.                                                      *)

\* Members of a definition that is missing as a whole are not listed.
Listed(p, other) == Len(p) = 1 \/ <<p[1]>> \in DOMAIN other

OnlyIn(one, other) == {p \in DOMAIN one \ DOMAIN other : Listed(p, other)}

Changed(current, desired) ==
  {p \in DOMAIN current \cap DOMAIN desired : current[p] # desired[p]}

CompareSchemas(current, desired) ==
  [additions |-> OnlyIn(desired, current), deletions |-> OnlyIn(current, desired),
   changed |-> Changed(current, desired)]

Identical(diff) == diff.additions = {} /\ diff.deletions = {} /\ diff.changed = {}

\* Mutant of authorizeSchemaConflicts: one setting opens both gates.
authorizeAnyConflict(diff, r) ==
  diff.changed \cup diff.deletions # {} => r.migrations \/ r.deletions

authorizeSchemaConflicts(diff, r) ==
  /\ diff.changed # {} => r.migrations
  /\ diff.deletions # {} => r.deletions

\* Mutant of Validate: the relations of the role templates are not looked up.
ValidateTypes(r) ==
  /\ r.types \subseteq DOMAIN r.schema
  /\ r.members = {p \in DOMAIN r.schema : Len(p) = 3 /\ <<p[1]>> \in r.types}

\* Types and members as in the schema file, and no relation that is not in it.
Validate(r) ==
  /\ r.types \subseteq DOMAIN r.schema
  /\ r.members = {p \in DOMAIN r.schema : Len(p) = 3 /\ <<p[1]>> \in r.types}
  /\ \A k \in Roles : r.roles[k] \in r.members
  /\ r.admins \subseteq DOMAIN r.schema
  /\ \A p \in r.admins \cup {r.roles[k] : k \in Roles} :
       Len(p) = 3 /\ p[2] = "relation"

-----------------------------------------------------------------------------
\* "up": serving requests; read: the active schema as it was read; todo: roles
\* still to register.
Process == [pc : {"down", "read", "write", "admins", "defaults", "up"},
            release : Releases, read : Schema, todo : SUBSET Roles]

StartupTypeOK ==
  /\ active \in Schema /\ WellFormed(active)
  /\ process \in [Processes -> Process]
  /\ roles \in UNION {[R -> Paths] : R \in SUBSET Roles}
  /\ starts \in [Processes -> 0 .. MaxStarts]
  /\ dropped \in SUBSET Paths

StartupInit ==
  /\ active = FirstSchema
  /\ process = [i \in Processes |-> [pc |-> "down", release |-> CHOOSE r \in Releases : TRUE,
                                     read |-> FirstSchema, todo |-> {}]]
  /\ roles = [k \in {} |-> <<>>]
  /\ starts = [i \in Processes |-> 0]
  /\ dropped = {}

Become(i, pc) == process' = [process EXCEPT ![i].pc = pc]

\* A process of some release starts.  With a manifest that does not fit the
\* schema file it does not get any further.
Start(i) ==
  /\ process[i].pc = "down" /\ starts[i] < MaxStarts
  /\ \E r \in Releases :
       /\ Validate(r)
       /\ process' = [process EXCEPT ![i].pc = "read", ![i].release = r]
  /\ starts' = [starts EXCEPT ![i] = @ + 1]
  /\ UNCHANGED <<active, roles, dropped>>

\* ReadSchema and the comparison: nothing to do, the file is to be written, or
\* the process gives up.
ReadSchema(i) ==
  LET r == process[i].release  diff == CompareSchemas(active, r.schema) IN
  /\ process[i].pc = "read"
  /\ \/ authorizeSchemaConflicts(diff, r) /\ Identical(diff) /\ Become(i, "admins")
     \/ /\ authorizeSchemaConflicts(diff, r) /\ ~Identical(diff)
        /\ process' = [process EXCEPT ![i].pc = "write", ![i].read = active]
     \/ ~authorizeSchemaConflicts(diff, r) /\ Become(i, "down")
  /\ UNCHANGED <<active, roles, starts, dropped>>

Install(schema) ==
  /\ active' = schema
  /\ dropped' = dropped \cup (DOMAIN active \ DOMAIN schema)

\* WriteSchema replaces the active schema as a whole.
WriteSchema(i) ==
  /\ process[i].pc = "write"
  /\ Install(process[i].release.schema)
  /\ Become(i, "admins")
  /\ UNCHANGED <<roles, starts>>

\* ValidateSchema or WriteSchema returns an error, the latter perhaps after
\* the schema was written.
WriteSchemaError(i) ==
  /\ process[i].pc = "write"
  /\ Install(process[i].release.schema) \/ UNCHANGED <<active, dropped>>
  /\ Become(i, "down")
  /\ UNCHANGED <<roles, starts>>

\* One WriteRelationships call, which SpiceDB (external) refuses when the
\* active schema does not have one of the relations.
bootstrapControlPlaneAdmins(i) ==
  /\ process[i].pc = "admins"
  /\ IF process[i].release.admins \subseteq DOMAIN active
       THEN process' = [process EXCEPT ![i].pc = "defaults", ![i].todo = Roles]
       ELSE Become(i, "down")
  /\ UNCHANGED <<active, roles, starts, dropped>>

\* Reconcile: an upsert of each role template in turn.
RegisterRole(i) ==
  /\ process[i].pc = "defaults"
  /\ \E k \in process[i].todo :
       /\ roles' = [j \in DOMAIN roles \cup {k} |->
                      IF j = k THEN process[i].release.roles[k] ELSE roles[j]]
       /\ process' = [process EXCEPT ![i].todo = @ \ {k}]
  /\ UNCHANGED <<active, starts, dropped>>

\* Mutant of Serve: a state nobody expects.
ServeReady(i) ==
  /\ process[i].pc = "defaults" /\ process[i].todo = {}
  /\ Become(i, "ready")
  /\ UNCHANGED <<active, roles, starts, dropped>>

Serve(i) ==
  /\ process[i].pc = "defaults" /\ process[i].todo = {}
  /\ Become(i, "up")
  /\ UNCHANGED <<active, roles, starts, dropped>>

\* The process panics, is killed or is stopped.
Stop(i) ==
  /\ process[i].pc # "down"
  /\ Become(i, "down")
  /\ UNCHANGED <<active, roles, starts, dropped>>

StartupNext ==
  \E i \in Processes :
    \/ Start(i) \/ ReadSchema(i) \/ WriteSchema(i) \/ WriteSchemaError(i)
    \/ bootstrapControlPlaneAdmins(i) \/ RegisterRole(i) \/ Serve(i) \/ Stop(i)

StartupSpec == StartupInit /\ [][StartupNext]_startupVars

-----------------------------------------------------------------------------
(* Properties.                                                              *)

\* A step takes a declaration out of the active schema, or changes one.
Removes == ~(DOMAIN active \subseteq DOMAIN active')
Alters  == Changed(active, active') # {}

\* i writes the schema, and nobody else has since i read it.
Writes(i) == process[i].pc = "write" /\ process'[i].pc # "write"
UpToDate(i) == process[i].read = active

\* Each setting opens its own gate: a declaration is taken out of the active
\* schema or changed in it only by a process that may do just that, or by one
\* that has read the schema before another one replaced it (CompareSchemas,
\* authorizeSchemaConflicts, BootstrapAuthzSchema).
LossesAllowed ==
  [][/\ Removes => \E i \in Processes :
                    Writes(i) /\ (process[i].release.deletions \/ ~UpToDate(i))
     /\ Alters => \E i \in Processes :
                   Writes(i) /\ (process[i].release.migrations \/ ~UpToDate(i))]_startupVars

\* A registered role can be granted: its relation is declared in the active
\* schema unless some process has taken it out, whichever release registered
\* the role, and wherever other processes have stopped (Validate,
\* BootstrapAuthzSchema, Reconcile).
RolesGrantable ==
  \A k \in DOMAIN roles : roles[k] \in DOMAIN active \cup dropped

\* Only strict additions are published, and removed declarations are rejected,
\* while no release allows more (BootstrapAuthzSchema).
SchemaOnlyGrows ==
  [][(\A r \in Releases : ~r.deletions) => ~Removes]_startupVars
=============================================================================
