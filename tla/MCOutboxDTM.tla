---------------------------- MODULE MCOutboxDTM -----------------------------
(* Instances of OutboxDTM for TLC.                                          *)
EXTENDS OutboxDTM, TLC

CONSTANT t1

\* A delete, and a replace that keeps its relationship.
MCPayloads ==
  {[op |-> "delete", filters |-> {{t1}}, rels |-> {t1}, prev |-> {}],
   [op |-> "replace", filters |-> {}, rels |-> {t1}, prev |-> {t1}]}

MCSymmetry == Permutations(Branches)
=============================================================================
