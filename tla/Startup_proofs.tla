-------------------------- MODULE Startup_proofs ----------------------------
(***************************************************************************)
(* Proofs about the start of IAM processes: for any number of processes,   *)
(* releases, schemas, roles and starts.                                    *)
(***************************************************************************)
EXTENDS Startup, TLAPS

-----------------------------------------------------------------------------
(* CompareSchemas against what it is for.                                   *)

\* desired has every declaration of current, and it says the same.
Extends(desired, current) ==
  /\ DOMAIN current \subseteq DOMAIN desired
  /\ \A p \in DOMAIN current : desired[p] = current[p]

\* A member that is missing is listed, or its whole definition is.
LEMMA OnlyInFinds ==
  ASSUME NEW one \in Schema, NEW other \in Schema, WellFormed(one), OnlyIn(one, other) = {}
  PROVE  DOMAIN one \subseteq DOMAIN other
<1>1. DOMAIN one \subseteq Paths
  BY DEF Schema
<1>2. ASSUME NEW p \in DOMAIN one, p \notin DOMAIN other
      PROVE  FALSE
  <2>1. ~Listed(p, other)
    BY <1>2 DEF OnlyIn
  <2>2. Len(p) = 3 /\ <<p[1]>> \notin DOMAIN other
    BY <1>1, <2>1, StartupOK DEF Listed
  <2>3. <<p[1]>> \in DOMAIN one
    BY <2>2 DEF WellFormed
  <2>4. Len(<<p[1]>>) = 1
    OBVIOUS
  <2> QED
    BY <2>2, <2>3, <2>4 DEF OnlyIn, Listed
<1> QED
  BY <1>2

\* A comparison without deletions and changes says that nothing is lost, for
\* every pair of schemas (CompareSchemas).
THEOREM NoConflictsExtends ==
  ASSUME NEW current \in Schema, NEW desired \in Schema, WellFormed(current),
         CompareSchemas(current, desired).deletions = {},
         CompareSchemas(current, desired).changed = {}
  PROVE  Extends(desired, current)
<1>1. OnlyIn(current, desired) = {} /\ Changed(current, desired) = {}
  BY DEF CompareSchemas
<1>2. DOMAIN current \subseteq DOMAIN desired
  BY <1>1, OnlyInFinds
<1> QED
  BY <1>1, <1>2 DEF Extends, Changed

-----------------------------------------------------------------------------
(* The inductive invariant.                                                 *)

\* What a process may do with the schema it has read.
ReadOK(i) ==
  process[i].pc = "write" =>
    /\ WellFormed(process[i].read)
    /\ authorizeSchemaConflicts(CompareSchemas(process[i].read, process[i].release.schema),
                                process[i].release)

\* A process that has got past the schema registers roles that fit it.
FitsOK(i) ==
  /\ process[i].pc # "down" => Validate(process[i].release)
  /\ process[i].pc \in {"admins", "defaults"} =>
       DOMAIN process[i].release.schema \subseteq DOMAIN active \cup dropped

StartupInv ==
  /\ StartupTypeOK
  /\ \A i \in Processes : ReadOK(i) /\ FitsOK(i)
  /\ RolesGrantable

LEMMA ReleaseType ==
  ASSUME NEW r \in Releases
  PROVE  /\ r \in Release /\ r.schema \in Schema /\ WellFormed(r.schema)
         /\ r.roles \in [Roles -> Paths]
  BY StartupOK DEF Release

\* Without conflicts on both sides two schemas are the same.
LEMMA IdenticalDomain ==
  ASSUME NEW current \in Schema, NEW desired \in Schema, WellFormed(desired),
         Identical(CompareSchemas(current, desired))
  PROVE  DOMAIN desired \subseteq DOMAIN current
<1>1. OnlyIn(desired, current) = {}
  BY DEF Identical, CompareSchemas
<1> QED
  BY <1>1, OnlyInFinds

LEMMA StartupInvInit == StartupInit /\ Releases # {} => StartupInv
<1> SUFFICES ASSUME StartupInit, Releases # {}
             PROVE  StartupInv
  OBVIOUS
<1>1. (CHOOSE r \in Releases : TRUE) \in Releases
  OBVIOUS
<1>2. StartupTypeOK
  <2>1. process \in [Processes -> Process]
    BY <1>1, StartupOK DEF StartupInit, Process
  <2>2. roles \in [{} -> Paths]
    BY DEF StartupInit
  <2>3. roles \in UNION {[R -> Paths] : R \in SUBSET Roles}
    BY <2>2
  <2>4. starts \in [Processes -> 0 .. MaxStarts]
    BY StartupOK DEF StartupInit
  <2> QED
    BY <2>1, <2>3, <2>4, StartupOK DEF StartupInit, StartupTypeOK
<1>3. \A i \in Processes : process[i].pc = "down"
  BY DEF StartupInit
<1>4. RolesGrantable
  BY DEF StartupInit, RolesGrantable
<1> QED
  BY <1>2, <1>3, <1>4 DEF StartupInv, ReadOK, FitsOK

-----------------------------------------------------------------------------
\* Steps in which i alone moves on and the schema stays.
LEMMA MoveOn ==
  ASSUME StartupInv, NEW i \in Processes, NEW q \in Process,
         process' = [process EXCEPT ![i] = q],
         UNCHANGED <<active, dropped>>, starts' \in [Processes -> 0 .. MaxStarts],
         UNCHANGED roles,
         ReadOK(i)', FitsOK(i)'
  PROVE  StartupInv'
<1>1. StartupTypeOK'
  BY DEF StartupInv, StartupTypeOK, WellFormed
<1>2. ASSUME NEW j \in Processes, j # i
      PROVE  ReadOK(j)' /\ FitsOK(j)'
  <2>1. process'[j] = process[j]
    BY <1>2 DEF StartupInv, StartupTypeOK
  <2> QED
    BY <2>1 DEF StartupInv, ReadOK, FitsOK
<1>3. RolesGrantable'
  BY DEF StartupInv, RolesGrantable
<1> QED
  BY <1>1, <1>2, <1>3 DEF StartupInv

\* A schema is written: nothing that was declared is forgotten.
LEMMA InstallStep ==
  ASSUME StartupInv, NEW i \in Processes, process[i].pc = "write",
         NEW pc \in {"admins", "down"}, Become(i, pc),
         Install(process[i].release.schema), UNCHANGED <<roles, starts>>
  PROVE  StartupInv'
<1> DEFINE s == process[i].release.schema
<1>0. /\ process[i] \in Process /\ process[i].release \in Releases
      /\ process \in [Processes -> Process]
  BY DEF StartupInv, StartupTypeOK, Process
<1>1. s \in Schema /\ WellFormed(s)
  BY <1>0, ReleaseType
<1>2. active' = s /\ DOMAIN active \subseteq Paths /\ dropped \subseteq Paths
  BY DEF Install, StartupInv, StartupTypeOK, Schema
<1>3. DOMAIN active \cup dropped \subseteq DOMAIN active' \cup dropped'
  BY DEF Install
<1>4. /\ process' = [process EXCEPT ![i] = [process[i] EXCEPT !.pc = pc]]
      /\ process' \in [Processes -> Process]
  BY <1>0 DEF Become, Process
<1>5. StartupTypeOK'
  <2>1. active' \in Schema /\ WellFormed(active)'
    BY <1>1, <1>2 DEF WellFormed
  <2>2. dropped' \in SUBSET Paths
    BY <1>2 DEF Install
  <2> QED
    BY <1>4, <2>1, <2>2 DEF StartupInv, StartupTypeOK
<1>6. ASSUME NEW j \in Processes
      PROVE  ReadOK(j)' /\ FitsOK(j)'
  <2>1. CASE j = i
    <3>1. process'[i].pc = pc /\ process'[i].release = process[i].release
      BY <1>0, <1>4 DEF Process
    <3>2. Validate(process[i].release)
      BY DEF StartupInv, FitsOK
    <3> QED
      BY <1>2, <2>1, <3>1, <3>2 DEF ReadOK, FitsOK
  <2>2. CASE j # i
    <3>1. process'[j] = process[j]
      BY <1>0, <1>4, <2>2
    <3> QED
      BY <1>3, <3>1 DEF StartupInv, ReadOK, FitsOK
  <2> QED
    BY <2>1, <2>2
<1>7. RolesGrantable'
  BY <1>3 DEF StartupInv, RolesGrantable
<1> QED
  BY <1>5, <1>6, <1>7 DEF StartupInv

LEMMA ReadSchemaStep ==
  ASSUME StartupInv, NEW i \in Processes, ReadSchema(i)
  PROVE  StartupInv'
<1> DEFINE r == process[i].release
           diff == CompareSchemas(active, r.schema)
<1>0. /\ process[i] \in Process /\ r \in Releases /\ process \in [Processes -> Process]
      /\ active \in Schema /\ WellFormed(active) /\ starts \in [Processes -> 0 .. MaxStarts]
  BY DEF StartupInv, StartupTypeOK, Process
<1>1. Validate(r) /\ UNCHANGED <<active, roles, starts, dropped>>
  BY DEF StartupInv, FitsOK, ReadSchema
<1>2. CASE authorizeSchemaConflicts(diff, r) /\ Identical(diff) /\ Become(i, "admins")
  <2> DEFINE q == [process[i] EXCEPT !.pc = "admins"]
  <2>1. q \in Process /\ q.pc = "admins" /\ q.release = r
    BY <1>0 DEF Process
  <2>2. DOMAIN r.schema \subseteq DOMAIN active
    BY <1>0, <1>2, ReleaseType, IdenticalDomain
  <2>3. process' = [process EXCEPT ![i] = q] /\ process'[i] = q
    BY <1>0, <1>2 DEF Become
  <2> HIDE DEF q, r, diff
  <2>4. ReadOK(i)' /\ FitsOK(i)'
    BY <1>1, <2>1, <2>2, <2>3 DEF ReadOK, FitsOK
  <2> QED
    BY <1>0, <1>1, <2>1, <2>3, <2>4, MoveOn
<1>3. CASE /\ authorizeSchemaConflicts(diff, r) /\ ~Identical(diff)
           /\ process' = [process EXCEPT ![i].pc = "write", ![i].read = active]
  <2> DEFINE q == [process[i] EXCEPT !.pc = "write", !.read = active]
  <2>1. q \in Process /\ q.pc = "write" /\ q.release = r /\ q.read = active
    BY <1>0 DEF Process
  <2>3. process' = [process EXCEPT ![i] = q] /\ process'[i] = q
    BY <1>0, <1>3
  <2> HIDE DEF q
  <2>4. ReadOK(i)' /\ FitsOK(i)'
    BY <1>0, <1>1, <1>3, <2>1, <2>3 DEF ReadOK, FitsOK
  <2> QED
    BY <1>0, <1>1, <2>1, <2>3, <2>4, MoveOn
<1>4. CASE Become(i, "down")
  <2> DEFINE q == [process[i] EXCEPT !.pc = "down"]
  <2>1. q \in Process /\ q.pc = "down"
    BY <1>0 DEF Process
  <2>3. process' = [process EXCEPT ![i] = q] /\ process'[i] = q
    BY <1>0, <1>4 DEF Become
  <2> HIDE DEF q
  <2>4. ReadOK(i)' /\ FitsOK(i)'
    BY <2>1, <2>3 DEF ReadOK, FitsOK
  <2> QED
    BY <1>0, <1>1, <2>1, <2>3, <2>4, MoveOn
<1> QED
  BY <1>2, <1>3, <1>4 DEF ReadSchema

LEMMA StartStep ==
  ASSUME StartupInv, NEW i \in Processes, Start(i)
  PROVE  StartupInv'
<1>1. PICK r \in Releases :
        Validate(r) /\ process' = [process EXCEPT ![i].pc = "read", ![i].release = r]
  BY DEF Start
<1>0. process[i] \in Process /\ process \in [Processes -> Process]
  BY DEF StartupInv, StartupTypeOK
<1> DEFINE q == [process[i] EXCEPT !.pc = "read", !.release = r]
<1>2. q \in Process /\ q.pc = "read" /\ q.release = r
  BY <1>0 DEF Process
<1>3. process' = [process EXCEPT ![i] = q] /\ process'[i] = q
  BY <1>0, <1>1
<1>4. starts' \in [Processes -> 0 .. MaxStarts]
  BY StartupOK DEF Start, StartupInv, StartupTypeOK
<1> HIDE DEF q
<1>5. ReadOK(i)' /\ FitsOK(i)'
  BY <1>1, <1>2, <1>3 DEF ReadOK, FitsOK, Validate
<1> QED
  BY <1>2, <1>3, <1>4, <1>5, MoveOn DEF Start

\* The steps after the schema, in which no role is registered.
LEMMA LaterStep ==
  ASSUME StartupInv, NEW i \in Processes,
         bootstrapControlPlaneAdmins(i) \/ Serve(i) \/ Stop(i)
  PROVE  StartupInv'
<1>0. /\ process[i] \in Process /\ process \in [Processes -> Process]
      /\ starts \in [Processes -> 0 .. MaxStarts] /\ ReadOK(i) /\ FitsOK(i)
  BY DEF StartupInv, StartupTypeOK
<1>1. PICK q \in Process :
        /\ process' = [process EXCEPT ![i] = q] /\ q.release = process[i].release
        /\ q.pc \in {"down", "up"} \/ (process[i].pc = "admins" /\ q.pc = "defaults")
        /\ process[i].pc # "down"
  <2>1. CASE process' = [process EXCEPT ![i].pc = "defaults", ![i].todo = Roles]
             /\ process[i].pc = "admins"
    <3> DEFINE q == [process[i] EXCEPT !.pc = "defaults", !.todo = Roles]
    <3>1. q \in Process /\ q.pc = "defaults" /\ q.release = process[i].release
      BY <1>0 DEF Process
    <3>2. process' = [process EXCEPT ![i] = q]
      BY <1>0, <2>1
    <3> QED
      BY <2>1, <3>1, <3>2
  <2>2. ASSUME NEW pc \in {"down", "up"}, Become(i, pc), process[i].pc # "down"
        PROVE  \E q \in Process :
                 /\ process' = [process EXCEPT ![i] = q] /\ q.release = process[i].release
                 /\ q.pc \in {"down", "up"}
    <3> DEFINE q == [process[i] EXCEPT !.pc = pc]
    <3>1. q \in Process /\ q.pc = pc /\ q.release = process[i].release
      BY <1>0 DEF Process
    <3>2. process' = [process EXCEPT ![i] = q]
      BY <1>0, <2>2 DEF Become
    <3> QED
      BY <3>1, <3>2
  <2> QED
    BY <2>1, <2>2 DEF bootstrapControlPlaneAdmins, Serve, Stop
<1>2. process'[i] = q /\ UNCHANGED <<active, dropped, roles, starts>>
  BY <1>0, <1>1 DEF bootstrapControlPlaneAdmins, Serve, Stop
<1>3. ReadOK(i)' /\ FitsOK(i)'
  BY <1>0, <1>1, <1>2 DEF ReadOK, FitsOK, Validate
<1> QED
  BY <1>0, <1>1, <1>2, <1>3, MoveOn

\* A role is registered with a relation of the process's own schema file.
LEMMA RegisterStep ==
  ASSUME StartupInv, NEW i \in Processes, RegisterRole(i)
  PROVE  StartupInv'
<1>0. /\ process[i] \in Process /\ process \in [Processes -> Process]
      /\ ReadOK(i) /\ FitsOK(i) /\ process[i].pc = "defaults" /\ process[i].release \in Releases
  BY DEF StartupInv, StartupTypeOK, RegisterRole, Process
<1>1. PICK k \in process[i].todo :
        /\ roles' = [j \in DOMAIN roles \cup {k} |->
                       IF j = k THEN process[i].release.roles[k] ELSE roles[j]]
        /\ process' = [process EXCEPT ![i].todo = @ \ {k}]
  BY DEF RegisterRole
<1>2. k \in Roles
  BY <1>0 DEF Process
<1>3. process[i].release.roles[k] \in Paths
  BY <1>0, <1>2, ReleaseType
<1>4. process[i].release.roles[k] \in DOMAIN active \cup dropped
  BY <1>0, <1>2 DEF FitsOK, Validate
<1> DEFINE q == [process[i] EXCEPT !.todo = @ \ {k}]
<1>5. /\ q \in Process /\ q.pc = process[i].pc /\ q.release = process[i].release
      /\ q.read = process[i].read
  BY <1>0 DEF Process
<1>6. process' = [process EXCEPT ![i] = q] /\ UNCHANGED <<active, starts, dropped>>
  BY <1>0, <1>1 DEF RegisterRole
<1> HIDE DEF q
<1>7. ASSUME NEW j \in Processes
      PROVE  ReadOK(j)' /\ FitsOK(j)'
  <2>1. process'[j].pc = process[j].pc /\ process'[j].release = process[j].release
        /\ process'[j].read = process[j].read
    BY <1>0, <1>5, <1>6
  <2> QED
    BY <1>6, <2>1 DEF StartupInv, ReadOK, FitsOK
<1>8. roles' \in UNION {[R -> Paths] : R \in SUBSET Roles}
  <2>1. PICK R \in SUBSET Roles : roles \in [R -> Paths]
    BY DEF StartupInv, StartupTypeOK
  <2>2. roles' \in [R \cup {k} -> Paths] /\ R \cup {k} \in SUBSET Roles
    BY <1>1, <1>2, <1>3, <2>1
  <2> QED
    BY <2>2
<1>9. StartupTypeOK'
  BY <1>0, <1>5, <1>6, <1>8 DEF StartupInv, StartupTypeOK, WellFormed
<1>10. RolesGrantable'
  BY <1>1, <1>4, <1>6 DEF StartupInv, RolesGrantable
<1> QED
  BY <1>7, <1>9, <1>10 DEF StartupInv

LEMMA StartupInvStep ==
  StartupInv /\ [StartupNext]_startupVars => StartupInv'
<1> SUFFICES ASSUME StartupInv, [StartupNext]_startupVars
             PROVE  StartupInv'
  OBVIOUS
<1>1. ASSUME NEW i \in Processes, WriteSchema(i)
      PROVE  StartupInv'
  BY <1>1, InstallStep DEF WriteSchema
<1>2. ASSUME NEW i \in Processes, WriteSchemaError(i)
      PROVE  StartupInv'
  <2>1. CASE Install(process[i].release.schema)
    BY <1>2, <2>1, InstallStep DEF WriteSchemaError
  <2>2. CASE UNCHANGED <<active, dropped>>
    <3> DEFINE q == [process[i] EXCEPT !.pc = "down"]
    <3>1. /\ process \in [Processes -> Process] /\ q \in Process /\ q.pc = "down"
          /\ starts \in [Processes -> 0 .. MaxStarts]
      BY DEF StartupInv, StartupTypeOK, Process
    <3>2. process' = [process EXCEPT ![i] = q] /\ process'[i] = q
      BY <1>2, <3>1 DEF WriteSchemaError, Become
    <3> HIDE DEF q
    <3>3. ReadOK(i)' /\ FitsOK(i)'
      BY <3>1, <3>2 DEF ReadOK, FitsOK
    <3> QED
      BY <1>2, <2>2, <3>1, <3>2, <3>3, MoveOn DEF WriteSchemaError
  <2> QED
    BY <1>2, <2>1, <2>2 DEF WriteSchemaError
<1>3. CASE UNCHANGED startupVars
  BY <1>3 DEF startupVars, StartupInv, StartupTypeOK, ReadOK, FitsOK, RolesGrantable, WellFormed
<1> QED
  BY <1>1, <1>2, <1>3, StartStep, ReadSchemaStep, LaterStep, RegisterStep DEF StartupNext

-----------------------------------------------------------------------------
\* Every registered role can be granted, for all releases and any number of
\* processes that start side by side (Validate, BootstrapAuthzSchema,
\* Reconcile).
THEOREM RolesStayGrantable ==
  ASSUME Releases # {}
  PROVE  StartupSpec => [](StartupTypeOK /\ RolesGrantable)
<1>1. StartupInit => StartupInv
  BY StartupInvInit
<1>2. StartupInv => StartupTypeOK /\ RolesGrantable
  BY DEF StartupInv
<1> QED
  BY <1>1, <1>2, StartupInvStep, PTL DEF StartupSpec

\* A step that writes the schema is one of a process that has compared.
LEMMA OnlyWritersInstall ==
  ASSUME StartupInv, StartupNext, active' # active
  PROVE  \E i \in Processes : Writes(i) /\ active' = process[i].release.schema
<1>1. PICK i \in Processes :
        /\ WriteSchema(i) \/ WriteSchemaError(i)
        /\ Install(process[i].release.schema)
  BY DEF StartupNext, Start, ReadSchema, WriteSchema, WriteSchemaError,
         bootstrapControlPlaneAdmins, RegisterRole, Serve, Stop
<1>2. process \in [Processes -> Process] /\ process[i].pc = "write"
  BY <1>1 DEF WriteSchema, WriteSchemaError, StartupInv, StartupTypeOK
<1>3. Become(i, "admins") \/ Become(i, "down")
  BY <1>1 DEF WriteSchema, WriteSchemaError
<1>4. process'[i].pc # "write"
  BY <1>2, <1>3 DEF Become, Process
<1> QED
  BY <1>1, <1>2, <1>4 DEF Install, Writes

\* The active schema is well formed and the processes are where the start-up
\* code can be, whoever else starts, writes or stops (BootstrapAuthzSchema).
THEOREM StartupTypeCorrect ==
  ASSUME Releases # {}
  PROVE  StartupSpec => []StartupTypeOK
<1>1. StartupInit => StartupInv
  BY StartupInvInit
<1>2. StartupInv => StartupTypeOK
  BY DEF StartupInv
<1> QED
  BY <1>1, <1>2, StartupInvStep, PTL DEF StartupSpec

\* Each setting opens its own gate, for all schemas and any number of
\* processes (CompareSchemas, authorizeSchemaConflicts, BootstrapAuthzSchema).
THEOREM EachGateItsOwn ==
  ASSUME Releases # {}
  PROVE  StartupSpec => LossesAllowed
<1> DEFINE Guard ==
      /\ Removes => \E i \in Processes :
                      Writes(i) /\ (process[i].release.deletions \/ ~UpToDate(i))
      /\ Alters => \E i \in Processes :
                     Writes(i) /\ (process[i].release.migrations \/ ~UpToDate(i))
<1>1. StartupInv /\ [StartupNext]_startupVars => [Guard]_startupVars
  <2> SUFFICES ASSUME StartupInv, StartupNext
               PROVE  Guard
    OBVIOUS
  <2>1. CASE active' = active
    <3>1. ~Removes /\ ~Alters
      BY <2>1 DEF Removes, Alters, Changed
    <3> QED
      BY <3>1
  <2>2. CASE active' # active
    <3>1. PICK i \in Processes : Writes(i) /\ active' = process[i].release.schema
      BY <2>2, OnlyWritersInstall
    <3>2. ASSUME UpToDate(i)
          PROVE  /\ Removes => process[i].release.deletions
                 /\ Alters => process[i].release.migrations
      <4> DEFINE s == process[i].release.schema
      <4>1. authorizeSchemaConflicts(CompareSchemas(active, s), process[i].release)
        BY <3>1, <3>2 DEF StartupInv, ReadOK, Writes, UpToDate
      <4>2. active \in Schema /\ WellFormed(active) /\ s \in Schema
        BY ReleaseType DEF StartupInv, StartupTypeOK, Process
      <4>3. OnlyIn(active, s) = {} => ~Removes
        BY <3>1, <4>2, OnlyInFinds DEF Removes
      <4>4. Changed(active, s) = {} => ~Alters
        BY <3>1 DEF Alters
      <4>5. /\ Changed(active, s) # {} => process[i].release.migrations
            /\ OnlyIn(active, s) # {} => process[i].release.deletions
        BY <4>1 DEF authorizeSchemaConflicts, CompareSchemas
      <4> QED
        BY <4>3, <4>4, <4>5
    <3> QED
      BY <3>1, <3>2
  <2> QED
    BY <2>1, <2>2
<1>2. StartupInit => StartupInv
  BY StartupInvInit
<1> QED
  BY <1>1, <1>2, StartupInvStep, PTL DEF StartupSpec, LossesAllowed

-----------------------------------------------------------------------------
(* One process at a time.                                                   *)

\* A process that is about to write has read what is still active.
NothingStale == \A i \in Processes : process[i].pc = "write" => UpToDate(i)

\* Alone, a process writes over what it has read itself.
LEMMA AloneStaysUpToDate ==
  ASSUME \A i, j \in Processes : i = j, StartupInv, NothingStale,
         [StartupNext]_startupVars
  PROVE  NothingStale'
<1>1. CASE UNCHANGED startupVars
  BY <1>1 DEF startupVars, NothingStale, UpToDate
<1>2. CASE StartupNext
  <2>1. SUFFICES ASSUME NEW i \in Processes, process'[i].pc = "write"
                 PROVE  process'[i].read = active'
    BY DEF NothingStale, UpToDate
  <2>2. process \in [Processes -> Process] /\ process[i] \in Process
    BY DEF StartupInv, StartupTypeOK
  <2>3. Start(i) \/ ReadSchema(i) \/ WriteSchema(i) \/ WriteSchemaError(i)
          \/ bootstrapControlPlaneAdmins(i) \/ RegisterRole(i) \/ Serve(i) \/ Stop(i)
    BY <1>2 DEF StartupNext
  <2>4. ReadSchema(i)
    <3>1. ASSUME NEW pc \in {"down", "admins", "up"}
          PROVE  ~Become(i, pc)
      BY <2>1, <2>2 DEF Become, Process
    <3>2. ~WriteSchema(i) /\ ~WriteSchemaError(i) /\ ~Serve(i) /\ ~Stop(i)
      BY <3>1 DEF WriteSchema, WriteSchemaError, Serve, Stop
    <3>3. ~Start(i)
      <4>1. ASSUME NEW r, process' = [process EXCEPT ![i].pc = "read", ![i].release = r]
            PROVE  FALSE
        BY <2>1, <2>2, <4>1 DEF Process
      <4> QED
        BY <4>1 DEF Start
    <3>4. ~bootstrapControlPlaneAdmins(i)
      BY <2>1, <2>2, <3>1 DEF bootstrapControlPlaneAdmins, Process
    <3>5. ~RegisterRole(i)
      <4>1. ASSUME NEW k, process[i].pc = "defaults",
                   process' = [process EXCEPT ![i].todo = @ \ {k}]
            PROVE  FALSE
        BY <2>1, <2>2, <4>1 DEF Process
      <4> QED
        BY <4>1 DEF RegisterRole
    <3> QED
      BY <2>3, <3>2, <3>3, <3>4, <3>5
  <2>5. process' = [process EXCEPT ![i].pc = "write", ![i].read = active]
    BY <2>1, <2>2, <2>4 DEF ReadSchema, Become, Process
  <2> QED
    BY <2>2, <2>4, <2>5 DEF ReadSchema, Process
<1> QED
  BY <1>1, <1>2

\* What the guard of BootstrapAuthzSchema promises holds where processes start
\* one at a time: a declaration is lost, or changed, only under the setting for
\* it.  It takes a second process to lose one (run startup_race).
THEOREM AloneSchemaOnlyGrows ==
  ASSUME Releases # {}, \A i, j \in Processes : i = j
  PROVE  StartupSpec => SchemaOnlyGrows
<1> DEFINE Grows == (\A r \in Releases : ~r.deletions) => ~Removes
<1>1. StartupInit => StartupInv /\ NothingStale
  BY StartupInvInit DEF StartupInit, NothingStale
<1>2. StartupInv /\ NothingStale /\ [StartupNext]_startupVars
        => StartupInv' /\ NothingStale'
  BY StartupInvStep, AloneStaysUpToDate
<1>3. StartupInv /\ NothingStale /\ [StartupNext]_startupVars => [Grows]_startupVars
  <2> SUFFICES ASSUME StartupInv, NothingStale, StartupNext,
                      \A r \in Releases : ~r.deletions, active' # active
               PROVE  ~Removes
    BY DEF Removes
  <2>1. PICK i \in Processes : Writes(i) /\ active' = process[i].release.schema
    BY OnlyWritersInstall
  <2> DEFINE s == process[i].release.schema
  <2>2. process[i].release \in Releases /\ active \in Schema /\ WellFormed(active)
        /\ s \in Schema
    BY ReleaseType DEF StartupInv, StartupTypeOK, Process
  <2>3. authorizeSchemaConflicts(CompareSchemas(active, s), process[i].release)
    BY <2>1 DEF StartupInv, ReadOK, Writes, NothingStale, UpToDate
  <2>4. OnlyIn(active, s) = {}
    BY <2>2, <2>3 DEF authorizeSchemaConflicts, CompareSchemas
  <2> QED
    BY <2>1, <2>2, <2>4, OnlyInFinds DEF Removes
<1> QED
  BY <1>1, <1>2, <1>3, PTL DEF StartupSpec, SchemaOnlyGrows
=============================================================================
