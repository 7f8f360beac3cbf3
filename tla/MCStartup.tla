----------------------------- MODULE MCStartup ------------------------------
(* Instances of Startup for TLC.                                            *)
EXTENDS Startup, TLC

Owner  == <<"skill", "relation", "owner">>
Editor == <<"skill", "relation", "editor">>
View   == <<"skill", "permission", "view">>
Admin  == <<"zone", "relation", "admin">>

MCPaths == {<<"zone">>, <<"skill">>, Admin, Owner, Editor, View}
MCRoles == {"manager"}

\* The release that installed the first schema.
First == [schema |-> [p \in MCPaths \ {Editor} |-> "1"], types |-> {<<"skill">>},
          members |-> {Owner, View}, roles |-> [k \in MCRoles |-> Owner],
          admins |-> {Admin}, migrations |-> FALSE, deletions |-> FALSE]

\* One that adds a relation, and makes it the role's.
Adds == [First EXCEPT !.schema = [p \in MCPaths |-> "1"],
                      !.members = {Owner, Editor, View}, !.roles = [k \in MCRoles |-> Editor]]

\* One that adds a definition to the first.
Team == [First EXCEPT !.schema = (<<"team">> :> "1") @@ First.schema]

\* One that changes a permission and drops a relation, as it may.
Changes == [First EXCEPT !.schema = [p \in MCPaths \ {Owner} |-> IF p = View THEN "2" ELSE "1"],
                         !.members = {Editor, View}, !.roles = [k \in MCRoles |-> Editor],
                         !.migrations = TRUE, !.deletions = TRUE]

\* The same, but it may only change what a permission says.
Migrates == [Changes EXCEPT !.deletions = FALSE]

\* One whose role has a relation that the schema file does not declare.
Drifts == [First EXCEPT !.roles = [k \in MCRoles |-> Editor]]

MCAllPaths == MCPaths \cup {<<"team">>}
MCReleases == {First, Adds, Team, Changes, Migrates, Drifts}
MCAdditive == {Adds, Team}
MCFirstSchema == First.schema
=============================================================================
