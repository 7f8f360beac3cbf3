--------------------------- MODULE MCAccessQuery ----------------------------
(* Instances of AccessQuery for TLC.                                        *)
EXTENDS AccessQuery, TLC

CONSTANTS u1, t1, r1, r2, r3, z1, p1, k1, k2, k3

Row(status, s, x) == [status |-> status, subject |-> s, object |-> x]

\* A user with a grant on a resource, one on the next by way of a group, and
\* one on the parent of that.
Inherits ==
  [grants |-> (k1 :> Row("active", u1, r1)) @@ (k2 :> Row("active", t1, r2)) @@ (k3 :> Row("active", u1, r3)),
   graph  |-> {<<"member", t1, u1>>, <<"parent", r1, r2>>, <<"parent", r2, r3>>}]

\* Grants on a zone, to its administrator and to a group, and a platform.
ZoneGrants ==
  [grants |-> (k1 :> Row("active", u1, z1)) @@ (k2 :> Row("active", t1, z1)) @@ (k3 :> Row("none", t1, p1)),
   graph  |-> {<<"admin", z1, u1>>, <<"platform", p1, u1>>}]

MCStart == {Inherits, ZoneGrants}

\* No filter; users, and the type of the first resource.
MCFilters == {Subjects \cup Objects, Users \cup {r1}}
=============================================================================
