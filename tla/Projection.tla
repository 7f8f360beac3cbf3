----------------------------- MODULE Projection -----------------------------
(***************************************************************************)
(* What IAM promises of every table of projection events, whoever applies  *)
(* them: the iam_outbox_events of internal/biz/projection/manager.go and   *)
(* the iam_directory_projection_events of internal/data/identity_mode.go.  *)
(*                                                                         *)
(* SpiceDB is called for recorded events only, each call is one of an      *)
(* event's filters or all of its relationships, and an event is confirmed  *)
(* only while it is in effect.  In which order, how often and by whom the  *)
(* calls are made is left open.                                            *)
(***************************************************************************)
CONSTANTS
  Tuples,    \* the relationships SpiceDB may hold
  Events     \* the ids of the table's rows

VARIABLES
  recorded,  \* the events in the table
  effect,    \* what each of them asks of SpiceDB
  synced,    \* the events whose row reads "synced"
  graph      \* the relationships SpiceDB holds

pvars == <<recorded, effect, synced, graph>>

Effects == [filters : SUBSET (SUBSET Tuples), rels : SUBSET Tuples]

Init ==
  /\ recorded = {} /\ synced = {}
  /\ effect \in [Events -> Effects]
  /\ graph \in SUBSET Tuples

Deletes(e, t)  == \E f \in effect[e].filters : t \in f
Writes(e, t)   == t \in effect[e].rels
Concerns(e, t) == e \in recorded /\ (Deletes(e, t) \/ Writes(e, t))

\* e alone decides about t, and says one thing about it.
SoleAuthority(e, t) ==
  /\ Deletes(e, t) <=> ~Writes(e, t)
  /\ \A f \in Events \ {e} : ~Concerns(f, t)

Effective(e) ==
  \A t \in Tuples : SoleAuthority(e, t) => (t \in graph <=> Writes(e, t))

-----------------------------------------------------------------------------
\* A row is created, before SpiceDB is called for it.
Record(e) ==
  /\ e \notin recorded
  /\ recorded' = recorded \cup {e}
  /\ effect' \in [Events -> Effects]
  /\ \A f \in Events \ {e} : effect'[f] = effect[f]
  /\ UNCHANGED <<synced, graph>>

\* A DeleteRelationships call of an event, or its WriteRelationships call.
Call(e) ==
  /\ e \in recorded
  /\ \/ \E f \in effect[e].filters : graph' = graph \ f
     \/ graph' = graph \cup effect[e].rels
  /\ UNCHANGED <<recorded, effect, synced>>

\* The row reads "synced" from now on.
Confirm(e) ==
  /\ e \in recorded /\ Effective(e)
  /\ synced' = synced \cup {e}
  /\ UNCHANGED <<recorded, effect, graph>>

\* The row reads something else: the event is applied again, or failed.
Retract(e) ==
  /\ synced' = synced \ {e}
  /\ UNCHANGED <<recorded, effect, graph>>

Next == \E e \in Events : Record(e) \/ Call(e) \/ Confirm(e) \/ Retract(e)

Spec == Init /\ [][Next]_pvars

-----------------------------------------------------------------------------
PTypeOK ==
  /\ recorded \in SUBSET Events /\ synced \in SUBSET recorded
  /\ effect \in [Events -> Effects]
  /\ graph \in SUBSET Tuples

\* No silent success: every event that reads "synced" is in effect, for the
\* relationships no other event is about (ApplyEvent, ApplyBranch).
Promise == \A e \in synced : Effective(e)
=============================================================================
