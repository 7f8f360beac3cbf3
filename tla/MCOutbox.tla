------------------------------ MODULE MCOutbox ------------------------------
(* Instances of Outbox for TLC.                                             *)
EXTENDS Outbox

CONSTANTS t1, t2

WriteOf(rels)         == [op |-> "write", filters |-> {}, rels |-> rels, prev |-> {}]
DeleteOf(filters)     == [op |-> "delete", filters |-> filters,
                          rels |-> UNION filters, prev |-> {}]
ReplaceOf(prev, rels) == [op |-> "replace", filters |-> {}, rels |-> rels, prev |-> prev]

\* One payload of each kind: a grant, a revocation by two filters, a role
\* template change.
MCPayloads == {WriteOf({t1, t2}), DeleteOf({{t1}, {t2}}), ReplaceOf({t1}, {t2})}

\* A grant and its revocation.
MCGrantRevoke == {WriteOf({t1}), DeleteOf({{t1}})}
=============================================================================
