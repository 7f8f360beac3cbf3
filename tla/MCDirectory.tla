---------------------------- MODULE MCDirectory -----------------------------
(* Instances of Directory for TLC.                                          *)
EXTENDS Directory

CONSTANTS u1, g1, g2

\* No organization; one with a user in a group; one with two groups and a user
\* in none of them.
NoDirectory == [zone |-> FALSE, users |-> {}, disabled |-> {},
                groups |-> {}, known |-> {}, parent |-> [g \in Groups |-> NoGroup], members |-> {}]

OneGroup == [NoDirectory EXCEPT !.zone = TRUE, !.users = {u1}, !.groups = {g1},
                                !.known = {g1}, !.members = {<<u1, g1>>}]

TwoGroups == [OneGroup EXCEPT !.groups = {g1, g2}, !.known = {g1, g2},
                              !.parent = [g \in Groups |-> IF g = g2 THEN g1 ELSE NoGroup]]

MCStart == {NoDirectory, OneGroup}
MCTwoGroups == {TwoGroups}
=============================================================================
