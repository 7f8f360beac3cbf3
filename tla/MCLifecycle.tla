---------------------------- MODULE MCLifecycle -----------------------------
(* Instances of Lifecycle for TLC.                                          *)
EXTENDS Lifecycle

CONSTANTS p1, r1

MCTuples == LifecycleTuples
MCPayloads == LifecyclePayloads

\* No rows; a resource in a project, bound to it.
NoRows == [projects  |-> [p \in Projects |-> "none"],
           resources |-> [r \in Resources |-> NoResource],
           bindings  |-> [b \in Bindings |-> NoBinding]]

SomeRows == [projects  |-> [p \in Projects |-> "active"],
             resources |-> [r \in Resources |-> [status |-> "active", parent |-> p1]],
             bindings  |-> [b \in Bindings |-> [status |-> "active", source |-> r1, target |-> p1]]]

MCStart == {NoRows, SomeRows}
\* Bound: one event while there is a binding.
MCFew == (\E b \in Bindings : bindings[b].status = "active") => outbox[2].status = "none"
=============================================================================
