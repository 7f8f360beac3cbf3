------------------------- MODULE AccessQuery_proofs -------------------------
(***************************************************************************)
(* Proofs about access queries, for any subjects, objects, grants and      *)
(* relationships, filters, limit, changes and faults.                      *)
(***************************************************************************)
EXTENDS AccessQuery, TLAPS

-----------------------------------------------------------------------------
(* The inductive invariant.                                                 *)

\* What a request is about.
OfOK ==
  query.stage # "idle" => query.of \in IF query.by = "subject" THEN Subjects ELSE Objects

Own(facts)    == {g \in GrantIDs \cap facts : grants[g].subject = query.of}
Shared(facts) == {g \in GrantIDs \cap facts : <<"member", grants[g].subject, query.of>> \in facts}
Roots(facts)  == {grants[g].object : g \in Own(facts) \cup Shared(facts)}

\* While a request runs, what holds has been seen, and what has held all the
\* time still does; the subject and the object of a grant that has been there stay.
HistoryOK ==
  /\ query.stage \notin {"idle", "done"} => kept \subseteq Facts /\ Facts \subseteq held
  /\ \A g \in GrantIDs \cap held : grants[g].status # "none"

\* Every read that is still to be made rests on what was true at some time.
SubjectReadOK(f) ==
  /\ \A x \in Groups \cup Objects : f = <<query.of, x>> =>
       /\ query.stage = "group"    => <<"member", x, query.of>> \in held
       /\ query.stage = "zone"     => <<"admin", x, query.of>> \in held
       /\ query.stage = "platform" => <<"platform", x, query.of>> \in held
  /\ query.stage = "parent" => \A r \in Objects :
       /\ f = <<r>> => r \in Ancestors(Roots(held), held)
       /\ \A x \in Objects : f = <<r, x>> =>
            r \in Ancestors(Roots(held), held) /\ <<"parent", r, x>> \in held

ObjectReadOK(f) ==
  /\ query.stage = "group" =>
       \A g \in GrantIDs : f = <<g>> => g \in held /\ grants[g].object = query.of
  /\ query.stage = "parent" =>
       /\ \A r \in Objects : f = <<r>> => r = query.of
       /\ \A x \in Objects : f = <<query.of, x>> => <<"parent", query.of, x>> \in held

ReadsOK ==
  /\ query.by = "subject" => \A f \in query.todo : SubjectReadOK(f)
  /\ query.by = "object"  => \A f \in query.todo : ObjectReadOK(f)

\* The recursion starts at what the subject has itself or by way of a group.
FoundOK ==
  query.by = "subject" /\ query.stage \in {"direct", "group", "parent"} =>
    query.found \subseteq Roots(held)

MadeInv == AccessTypeOK /\ OfOK /\ HistoryOK /\ ReadsOK /\ FoundOK /\ NothingMadeUp

-----------------------------------------------------------------------------
\* A read of a stage has still to be made; a stage has not begun.
Pending(stage, f) == query.stage = stage /\ f \in query.todo
Before(stage) ==
  query.stage \in CASE stage = "group"    -> {"direct"}
                    [] stage = "parent"   -> {"direct", "group"}
                    [] stage = "zone"     -> {"direct", "group", "parent"}
                    [] stage = "platform" -> {"direct", "group", "parent", "zone"}

Listed == {ID(e) : e \in query.list}

\* The answer has what comes from the grant g by way of src, or a filter leaves it out.
Answered(src, g) == grants[g].object \in query.only => <<src, g, query.of>> \in Listed

DirectGot ==
  \/ Pending("direct", <<query.of>>)
  \/ \A g \in Own(kept) : Answered("direct", g) /\ grants[g].object \in query.found

GroupsGot ==
  \/ Before("group") \/ Pending("group", <<query.of>>)
  \/ \A g \in Shared(kept) :
       \/ Pending("group", <<query.of, grants[g].subject>>)
       \/ Answered("group", g) /\ grants[g].object \in query.found

\* The resources whose parents have been read: the rest of the recursion
\* starts from the reads that are still to be made.
Traced(V) ==
  /\ \A r \in Roots(kept) : r \in V \/ Pending("parent", <<r>>)
  /\ \A r \in V, x \in Objects : <<"parent", r, x>> \in kept =>
       \/ Pending("parent", <<r, x>>)
       \/ /\ x \in V \/ Pending("parent", <<x>>)
          /\ \A g \in Own(kept) :
               grants[g].object = x /\ r \in query.only => <<"parent", g, query.of>> \in Listed

ParentsGot == Before("parent") \/ \E V \in SUBSET Objects : Traced(V)

\* Zones, and platforms.
RelatedGot(stage, k) ==
  \/ Before(stage) \/ Pending(stage, <<query.of>>)
  \/ \A g \in GrantIDs \cap kept : <<k, grants[g].object, query.of>> \in kept =>
       Pending(stage, <<query.of, grants[g].object>>) \/ Answered(stage, g)

SubjectGot ==
  /\ DirectGot /\ GroupsGot /\ ParentsGot
  /\ RelatedGot("zone", "admin") /\ RelatedGot("platform", "platform")

-----------------------------------------------------------------------------
OnObjectGot ==
  \/ Pending("direct", <<query.of>>)
  \/ \A g \in GrantIDs \cap kept : grants[g].object = query.of /\ grants[g].subject \in query.only =>
       <<"direct", g, grants[g].subject>> \in Listed

MembersGot ==
  Users \subseteq query.only =>
    \/ Before("group") \/ Pending("group", <<query.of>>)
    \/ \A g \in GrantIDs \cap kept : grants[g].object = query.of =>
         \A s \in Subjects : <<"member", grants[g].subject, s>> \in kept =>
           Pending("group", <<g>>) \/ <<"group", g, s>> \in Listed

OnParentsGot ==
  \/ Before("parent") \/ Pending("parent", <<query.of>>)
  \/ \A g \in GrantIDs \cap kept : <<"parent", query.of, grants[g].object>> \in kept =>
       \/ Pending("parent", <<query.of, grants[g].object>>)
       \/ grants[g].subject \in query.only => <<"parent", g, grants[g].subject>> \in Listed

ObjectGot == OnObjectGot /\ MembersGot /\ OnParentsGot

\* Of what has held all the time, the answer has what the reads that were made
\* were to bring, unless one of them did not bring all of it.
Got ==
  query.stage # "idle" /\ ~query.partial =>
    /\ query.by = "subject" => SubjectGot
    /\ query.by = "object"  => ObjectGot
    /\ query.stage = "done" => query.todo = {}

IInv == MadeInv /\ Got

-----------------------------------------------------------------------------
(* Relationships, reads and ancestors.                                      *)

LEMMA TupleShape ==
  ASSUME NEW t \in Tuples
  PROVE  /\ t[1] = "member" => t[2] \in Groups /\ t[3] \in Subjects /\ t = <<"member", t[2], t[3]>>
         /\ t[1] = "parent" => t[2] \in Resources /\ t[3] \in Resources /\ t = <<"parent", t[2], t[3]>>
         /\ t[1] = "admin" => t[2] \in Zones /\ t[3] \in Users /\ t = <<"admin", t[2], t[3]>>
         /\ t[1] = "platform" => t[2] \in Platforms /\ t[3] \in Users /\ t = <<"platform", t[2], t[3]>>
  BY DEF Tuples

LEMMA TuplesAreRelationships == Tuples \subseteq Relationships
  BY DEF Tuples, Relationships, Subjects, Objects

LEMMA ReadsDiffer ==
  /\ \A a, b, c : <<a>> # <<b, c>>
  /\ \A a, b : <<a>> = <<b>> => a = b
  /\ \A a, b, c, d : <<a, b>> = <<c, d>> => a = c /\ b = d
  OBVIOUS

LEMMA ReadsHave ==
  /\ \A x \in Subjects \cup Objects \cup GrantIDs : <<x>> \in Reads
  /\ \A x \in Subjects \cup Objects, y \in Groups \cup Objects : <<x, y>> \in Reads
  BY DEF Reads

\* More roots and more facts make more ancestors.
LEMMA AncestorsGrow ==
  ASSUME NEW R, NEW R2, R \subseteq R2, NEW F, NEW F2, F \subseteq F2
  PROVE  Ancestors(R, F) \subseteq Ancestors(R2, F2)
<1> SUFFICES ASSUME NEW x \in Ancestors(R, F), NEW S \in SUBSET Objects, R2 \subseteq S,
                    \A r \in S, y \in Objects : <<"parent", r, y>> \in F2 => y \in S
             PROVE  x \in S
  BY DEF Ancestors
<1> QED
  BY DEF Ancestors

LEMMA AncestorsClosed ==
  ASSUME NEW R \in SUBSET Objects, NEW F
  PROVE  /\ R \subseteq Ancestors(R, F)
         /\ \A r \in Ancestors(R, F), x \in Objects :
              <<"parent", r, x>> \in F => x \in Ancestors(R, F)
  BY DEF Ancestors

\* A set with the roots that has the parents of all that it has contains the ancestors.
LEMMA AncestorsStay ==
  ASSUME NEW R, NEW F, NEW S \in SUBSET Objects, R \subseteq S,
         \A r \in S, y \in Objects : <<"parent", r, y>> \in F => y \in S
  PROVE  Ancestors(R, F) \subseteq S
  BY DEF Ancestors

-----------------------------------------------------------------------------
(* What is to be answered, kind by kind.                                    *)

BySubject(F, e) ==
  \/ \E g \in Own(F) : grants[g].object \in query.only /\ e = <<"direct", g, query.of>>
  \/ \E g \in Shared(F) : grants[g].object \in query.only /\ e = <<"group", g, query.of>>
  \/ \E g \in GrantIDs \cap F : /\ <<"admin", grants[g].object, query.of>> \in F
                              /\ grants[g].object \in query.only /\ e = <<"zone", g, query.of>>
  \/ \E g \in GrantIDs \cap F : /\ <<"platform", grants[g].object, query.of>> \in F
                              /\ grants[g].object \in query.only /\ e = <<"platform", g, query.of>>
  \/ \E g \in Own(F), r \in Ancestors(Roots(F), F) :
       /\ r \in query.only /\ <<"parent", r, grants[g].object>> \in F
       /\ e = <<"parent", g, query.of>>

ByObject(F, e) ==
  \/ \E g \in GrantIDs \cap F : /\ grants[g].object = query.of /\ grants[g].subject \in query.only
                              /\ e = <<"direct", g, grants[g].subject>>
  \/ \E g \in GrantIDs \cap F : /\ <<"parent", query.of, grants[g].object>> \in F
                              /\ grants[g].subject \in query.only
                              /\ e = <<"parent", g, grants[g].subject>>
  \/ /\ Users \subseteq query.only
     /\ \E g \in GrantIDs \cap F, s \in Subjects :
          /\ grants[g].object = query.of /\ <<"member", grants[g].subject, s>> \in F
          /\ e = <<"group", g, s>>

ByKind ==
  \A F, e : e \in Entitled(F) <=> IF query.by = "subject" THEN BySubject(F, e) ELSE ByObject(F, e)

LEMMA EntitledByKind == ByKind
<1> SUFFICES ASSUME NEW F, NEW e
             PROVE  e \in Entitled(F) <=> IF query.by = "subject" THEN BySubject(F, e) ELSE ByObject(F, e)
  BY DEF ByKind
<1>1. CASE query.by = "subject"
  BY <1>1 DEF Entitled, EntitledSubject, Own, Shared, Roots, BySubject
<1>2. CASE query.by # "subject"
  <2> DEFINE on == {g \in GrantIDs \cap F : grants[g].object = query.of}
             shared == {x \in {"group"} \X on \X Subjects : <<"member", grants[x[2]].subject, x[3]>> \in F}
  <2>1. e \in shared <=> \E g \in on, s \in Subjects :
                           <<"member", grants[g].subject, s>> \in F /\ e = <<"group", g, s>>
    <3>1. ASSUME e \in shared
          PROVE  /\ e[2] \in on /\ e[3] \in Subjects /\ e = <<"group", e[2], e[3]>>
                 /\ <<"member", grants[e[2]].subject, e[3]>> \in F
      BY <3>1
    <3>2. ASSUME NEW g \in on, NEW s \in Subjects, <<"member", grants[g].subject, s>> \in F
          PROVE  <<"group", g, s>> \in shared
      BY <3>2
    <3> HIDE DEF shared, on
    <3> QED
      BY <3>1, <3>2
  <2>2. EntitledObject(query.of, query.only, F) =
          {<<"direct", g, grants[g].subject>> : g \in {g \in on : grants[g].subject \in query.only}} \cup
          {<<"parent", g, grants[g].subject>> :
             g \in {g \in GrantIDs \cap F : /\ grants[g].subject \in query.only
                                            /\ <<"parent", query.of, grants[g].object>> \in F}} \cup
          (IF Users \subseteq query.only THEN shared ELSE {})
    BY DEF EntitledObject
  <2>4. Entitled(F) = EntitledObject(query.of, query.only, F)
    BY <1>2 DEF Entitled
  <2>3. e \in (IF Users \subseteq query.only THEN shared ELSE {}) <=>
          Users \subseteq query.only /\ e \in shared
    OBVIOUS
  <2> HIDE DEF shared
  <2> QED
    BY <2>1, <2>2, <2>3, <2>4, <1>2 DEF ByObject
<1> QED
  BY <1>1, <1>2

LEMMA EntitledByKindNext == ByKind'
  BY EntitledByKind, PTL

-----------------------------------------------------------------------------
(* What others change.                                                      *)

\* More has been seen and less has stayed; the grants that were there are what they were.
MoreSeen ==
  /\ query' = query /\ held \subseteq held' /\ kept' \subseteq kept
  /\ \A g \in GrantIDs \cap held :
       grants'[g].subject = grants[g].subject /\ grants'[g].object = grants[g].object

LEMMA OthersChange ==
  ASSUME MadeInv, Others
  PROVE  AccessTypeOK' /\ HistoryOK' /\ MoreSeen
<1>1. Changed
  BY DEF Others, GrantMade, GrantRevoked, RelationshipsChange
<1> DEFINE stores_ok == grants' \in [GrantIDs -> Grant] /\ graph' \in SUBSET Tuples
           stay == \A g \in GrantIDs : grants[g].status # "none" =>
                     /\ grants'[g].subject = grants[g].subject /\ grants'[g].object = grants[g].object
                     /\ grants'[g].status # "none"
<1>2. stores_ok /\ stay
  <2>1. ASSUME NEW g \in GrantIDs, GrantRevoked(g)
        PROVE  stores_ok /\ stay
    BY <2>1 DEF GrantRevoked, MadeInv, AccessTypeOK, Grant
  <2>2. ASSUME NEW g \in GrantIDs, NEW s \in Subjects, NEW x \in Objects, GrantMade(g, s, x)
        PROVE  stores_ok /\ stay
    BY <2>2 DEF GrantMade, MadeInv, AccessTypeOK, Grant
  <2>3. ASSUME NEW t \in Tuples, RelationshipsChange(t)
        PROVE  stores_ok /\ stay
    BY <2>3 DEF RelationshipsChange, MadeInv, AccessTypeOK
  <2> QED
    BY <2>1, <2>2, <2>3 DEF Others
<1>3. /\ query' = query /\ held' = held \cup Facts' /\ kept' = kept \cap Facts'
      /\ changes' \in 0 .. MaxChanges /\ faults' = faults
  BY <1>1, AccessOK DEF Changed, MadeInv, AccessTypeOK
<1>4. \A g \in GrantIDs \cap Facts' : grants'[g].status # "none"
  <2>1. \A g \in GrantIDs : g \notin graph'
    BY <1>2, TuplesAreRelationships, AccessOK
  <2> QED
    BY <2>1 DEF Facts, ActiveGrants
<1>5. Facts' \subseteq GrantIDs \cup Tuples
  BY <1>2 DEF Facts, ActiveGrants
<1> QED
  BY <1>2, <1>3, <1>4, <1>5 DEF MoreSeen, HistoryOK, MadeInv, AccessTypeOK

LEMMA RootsGrow ==
  ASSUME MadeInv, MoreSeen
  PROVE  /\ Own(held) \subseteq Own(held)' /\ Shared(held) \subseteq Shared(held)'
         /\ Roots(held) \subseteq Roots(held)'
         /\ Ancestors(Roots(held), held) \subseteq Ancestors(Roots(held), held)'
<1>1. Own(held) \subseteq Own(held)' /\ Shared(held) \subseteq Shared(held)'
  BY DEF Own, Shared, MoreSeen
<1>2. Roots(held) \subseteq Roots(held)'
  <2>1. ASSUME NEW g \in Own(held) \cup Shared(held)
        PROVE  g \in (Own(held) \cup Shared(held))' /\ grants'[g].object = grants[g].object
    BY <1>1 DEF Own, Shared, MoreSeen
  <2> QED
    BY <2>1 DEF Roots
<1>3. Ancestors(Roots(held), held)' = Ancestors(Roots(held)', held')
  BY DEF Ancestors
<1> QED
  BY <1>1, <1>2, <1>3, AncestorsGrow DEF MoreSeen

LEMMA EntitledGrows ==
  ASSUME MadeInv, MoreSeen
  PROVE  Entitled(held) \subseteq Entitled(held)'
<1> SUFFICES ASSUME NEW e \in Entitled(held)
             PROVE  e \in Entitled(held)'
  OBVIOUS
<1>1. query.by \in {"subject", "object"}
  BY DEF MadeInv, AccessTypeOK, Query
<1>2. \A g \in GrantIDs \cap held :
        /\ g \in held' /\ grants'[g].subject = grants[g].subject
        /\ grants'[g].object = grants[g].object
  BY DEF MoreSeen
<1>3. query' = query /\ held \subseteq held'
  BY DEF MoreSeen
<1>4. CASE query.by = "subject"
  <2>1. Own(held) \subseteq GrantIDs \cap held /\ Shared(held) \subseteq GrantIDs \cap held
    BY DEF Own, Shared
  <2>2. BySubject(held, e)
    BY <1>4, EntitledByKind DEF ByKind
  <2>3. BySubject(held, e)'
    BY <1>2, <1>3, <2>1, <2>2, RootsGrow DEF BySubject
  <2> QED
    BY <1>3, <1>4, <2>3, EntitledByKindNext DEF ByKind
<1>5. CASE query.by = "object"
  <2>1. ByObject(held, e)
    BY <1>5, EntitledByKind DEF ByKind
  <2>2. ByObject(held, e)'
    BY <1>2, <1>3, <2>1 DEF ByObject
  <2> QED
    BY <1>3, <1>5, <2>2, EntitledByKindNext DEF ByKind
<1> QED
  BY <1>1, <1>4, <1>5

LEMMA MoreSeenKeepsMade ==
  ASSUME MadeInv, AccessTypeOK', HistoryOK', MoreSeen
  PROVE  MadeInv'
<1>1. AccessTypeOK' /\ HistoryOK' /\ MoreSeen
  OBVIOUS
<1>2. query' = query /\ held \subseteq held'
  BY <1>1 DEF MoreSeen
<1>3. OfOK'
  BY <1>2 DEF OfOK, MadeInv
<1>4. ReadsOK'
  <2>1. ASSUME NEW f, SubjectReadOK(f)
        PROVE  SubjectReadOK(f)'
    BY <2>1, <1>1, <1>2, RootsGrow DEF SubjectReadOK
  <2>2. ASSUME NEW f, ObjectReadOK(f)
        PROVE  ObjectReadOK(f)'
    BY <2>2, <1>1, <1>2 DEF ObjectReadOK, MoreSeen
  <2> QED
    BY <2>1, <2>2, <1>2 DEF ReadsOK, MadeInv
<1>5. FoundOK'
  BY <1>1, <1>2, RootsGrow DEF FoundOK, MadeInv
<1>6. NothingMadeUp'
  <2>1. {ID(e) : e \in query.list}' = {ID(e) : e \in query.list}
    BY <1>2 DEF ID
  <2> QED
    BY <2>1, <1>1, EntitledGrows DEF NothingMadeUp, MadeInv
<1> QED
  BY <1>1, <1>3, <1>4, <1>5, <1>6 DEF MadeInv

\* Less has stayed, and nothing else that the invariant speaks of has changed.
LEMMA MoreSeenKeepsGot ==
  ASSUME MadeInv, Got, MoreSeen
  PROVE  Got'
<1>1. /\ query' = query /\ kept' \subseteq kept
      /\ \A g \in GrantIDs \cap kept :
           grants'[g].subject = grants[g].subject /\ grants'[g].object = grants[g].object
  BY DEF MoreSeen, MadeInv, AccessTypeOK
<1>2. Listed' = Listed
  BY <1>1 DEF Listed, ID
<1>3. \A stage, f : Pending(stage, f)' <=> Pending(stage, f)
  BY <1>1 DEF Pending
<1>4. Own(kept)' \subseteq Own(kept) /\ Shared(kept)' \subseteq Shared(kept)
  BY <1>1 DEF Own, Shared
<1>5. Roots(kept)' \subseteq Roots(kept)
  <2>1. \A g \in (Own(kept) \cup Shared(kept))' : grants'[g].object = grants[g].object
    BY <1>1 DEF Own, Shared
  <2> QED
    BY <1>4, <2>1 DEF Roots
<1>6. \A stage, g : g \in GrantIDs \cap kept => (Answered(stage, g)' <=> Answered(stage, g))
  BY <1>1, <1>2 DEF Answered
<1>7. \A g : g \in Own(kept)' \/ g \in Shared(kept)' => g \in GrantIDs \cap kept
  BY <1>4 DEF Own, Shared
<1>8. ASSUME SubjectGot
      PROVE  SubjectGot'
  <2>1. DirectGot'
    BY <1>1, <1>3, <1>4, <1>6, <1>7, <1>8 DEF DirectGot, SubjectGot
  <2>2. GroupsGot'
    BY <1>1, <1>3, <1>4, <1>6, <1>7, <1>8 DEF GroupsGot, SubjectGot, Before
  <2>3. ASSUME NEW V, Traced(V)
        PROVE  Traced(V)'
    BY <1>1, <1>2, <1>3, <1>4, <1>5, <1>7, <2>3 DEF Traced
  <2>4. ParentsGot'
    BY <1>1, <1>8, <2>3 DEF ParentsGot, SubjectGot, Before
  <2>5. ASSUME NEW stage, NEW k, RelatedGot(stage, k)
        PROVE  RelatedGot(stage, k)'
    BY <1>1, <1>3, <1>6, <2>5 DEF RelatedGot, Before
  <2> QED
    BY <1>8, <2>1, <2>2, <2>4, <2>5 DEF SubjectGot
<1>9. ASSUME ObjectGot
      PROVE  ObjectGot'
  <2>1. OnObjectGot'
    BY <1>1, <1>2, <1>3, <1>9 DEF OnObjectGot, ObjectGot
  <2>2. MembersGot'
    BY <1>1, <1>2, <1>3, <1>9 DEF MembersGot, ObjectGot, Before
  <2>3. OnParentsGot'
    BY <1>1, <1>2, <1>3, <1>9 DEF OnParentsGot, ObjectGot, Before
  <2> QED
    BY <2>1, <2>2, <2>3 DEF ObjectGot
<1> QED
  BY <1>1, <1>8, <1>9 DEF Got

-----------------------------------------------------------------------------
(* What a read changes.                                                     *)

LEMMA FollowEffect ==
  ASSUME AccessTypeOK, NEW f, NEW es, NEW more, NEW rest, Follow(f, es, more, rest)
  PROVE  /\ query'.stage = query.stage /\ query'.by = query.by
         /\ query'.of = query.of /\ query'.only = query.only
         /\ query'.todo = (query.todo \ {f}) \cup more
         /\ query'.list = dedupEntitlements(es)
         /\ query'.found = IF query.stage = "parent" THEN query.found
                           ELSE query.found \cup {e.object : e \in es}
         /\ grants' = grants /\ graph' = graph /\ changes' = changes /\ faults' = faults
         /\ held' = held /\ kept' = kept
  BY DEF AccessTypeOK, Query, Follow, stores, history

LEMMA FollowReads ==
  ASSUME AccessTypeOK, NEW f, NEW es, NEW more, NEW rest, Follow(f, es, more, rest), NEW h
  PROVE  h \in query'.todo <=> (h \in query.todo /\ h # f) \/ h \in more
  BY DEF AccessTypeOK, Query, Follow

LEMMA FollowTypes ==
  ASSUME AccessTypeOK, NEW f, NEW es \in SUBSET Entitlement, NEW more \in SUBSET Reads,
         NEW rest, Follow(f, es, more, rest)
  PROVE  AccessTypeOK'
<1>1. {e.object : e \in es} \in SUBSET Objects
  BY DEF Entitlement
<1>2. dedupEntitlements(es) \in SUBSET Entitlement
  BY DEF dedupEntitlements, AccessTypeOK, Query
<1>3. query' \in Query
  <2>1. (query.todo \ {f}) \cup more \in SUBSET Reads
    BY DEF AccessTypeOK, Query
  <2>2. (IF query.stage = "parent" THEN query.found ELSE query.found \cup {e.object : e \in es})
          \in SUBSET Objects
    BY <1>1 DEF AccessTypeOK, Query
  <2> QED
    BY <1>2, <2>1, <2>2 DEF AccessTypeOK, Query, Follow
<1> QED
  BY <1>3, FollowEffect DEF AccessTypeOK

\* The list has the entries that a filter admits, and nothing leaves it.
LEMMA FollowLists ==
  ASSUME AccessTypeOK, NEW f, NEW es, NEW more, NEW rest, Follow(f, es, more, rest)
  PROVE  /\ Listed \subseteq Listed'
         /\ \A e \in es : Admitted(e) => ID(e) \in Listed'
         /\ \A i \in Listed' : i \in Listed \/ \E e \in es : Admitted(e) /\ i = ID(e)
<1>1. query'.list = query.list \cup {e \in es : Admitted(e) /\ \A h \in query.list : ID(h) # ID(e)}
  BY FollowEffect DEF dedupEntitlements
<1>2. Listed' = {ID(e) : e \in query'.list}
  BY DEF Listed, ID
<1> QED
  BY <1>1, <1>2 DEF Listed

\* A read that is done keeps the invariant if its entries and the reads that
\* it leads to rest on what has been true.
LEMMA FollowKeepsMade ==
  ASSUME MadeInv, NEW f, NEW es \in SUBSET Entitlement, NEW more \in SUBSET Reads,
         NEW rest, Follow(f, es, more, rest),
         \A e \in es : Admitted(e) => ID(e) \in Entitled(held),
         query.by = "subject" => \A h \in more : SubjectReadOK(h),
         query.by = "object" => \A h \in more : ObjectReadOK(h),
         query.by = "subject" /\ query.stage \in {"direct", "group"} =>
           \A e \in es : e.object \in Roots(held)
  PROVE  MadeInv'
<1>1. AccessTypeOK'
  BY FollowTypes DEF MadeInv
<1>2. /\ query'.stage = query.stage /\ query'.by = query.by
      /\ query'.of = query.of /\ query'.only = query.only
      /\ query'.todo = (query.todo \ {f}) \cup more
      /\ grants' = grants /\ graph' = graph /\ held' = held /\ kept' = kept
  BY FollowEffect DEF MadeInv
<1>3. OfOK' /\ HistoryOK'
  BY <1>2 DEF MadeInv, OfOK, HistoryOK, Facts, ActiveGrants
<1>4. Roots(held)' = Roots(held)
  BY <1>2 DEF Roots, Own, Shared
<1>5. Ancestors(Roots(held), held)' = Ancestors(Roots(held), held)
  BY <1>2, <1>4 DEF Ancestors
<1>6. ReadsOK'
  <2>1. ASSUME NEW h, SubjectReadOK(h)
        PROVE  SubjectReadOK(h)'
    BY <1>2, <1>5, <2>1 DEF SubjectReadOK
  <2>2. ASSUME NEW h, ObjectReadOK(h)
        PROVE  ObjectReadOK(h)'
    BY <1>2, <2>2 DEF ObjectReadOK
  <2> QED
    BY <1>2, <2>1, <2>2 DEF MadeInv, ReadsOK
<1>7. FoundOK'
  <2>1. query'.found = IF query.stage = "parent" THEN query.found
                       ELSE query.found \cup {e.object : e \in es}
    BY FollowEffect DEF MadeInv
  <2> QED
    BY <1>2, <1>4, <2>1 DEF MadeInv, FoundOK
<1>8. NothingMadeUp'
  <2>1. Entitled(held)' = Entitled(held)
    <3>1. ASSUME NEW e
          PROVE  BySubject(held, e)' <=> BySubject(held, e)
      BY <1>2, <1>5 DEF BySubject, Own, Shared
    <3>2. ASSUME NEW e
          PROVE  ByObject(held, e)' <=> ByObject(held, e)
      BY <1>2 DEF ByObject
    <3> QED
      BY <1>2, <3>1, <3>2, EntitledByKind, EntitledByKindNext DEF ByKind
  <2>2. Listed' \subseteq Entitled(held)
    BY FollowLists DEF MadeInv, NothingMadeUp, Listed
  <2> QED
    BY <2>1, <2>2 DEF NothingMadeUp, Listed, ID
<1> QED
  BY <1>1, <1>3, <1>6, <1>7, <1>8 DEF MadeInv

\* What has been got stays got; only the read that is done is no longer pending.
LEMMA FollowStays ==
  ASSUME AccessTypeOK, NEW f, NEW es, NEW more, NEW rest, Follow(f, es, more, rest)
  PROVE  /\ query'.stage = query.stage /\ query'.by = query.by /\ query'.of = query.of
         /\ query'.only = query.only /\ query.found \subseteq query'.found
         /\ grants' = grants /\ kept' = kept /\ Listed \subseteq Listed'
         /\ Own(kept)' = Own(kept) /\ Shared(kept)' = Shared(kept) /\ Roots(kept)' = Roots(kept)
         /\ \A stage, h : Pending(stage, h) => query.stage = stage /\ (h # f => Pending(stage, h)')
         /\ \A stage, g : Answered(stage, g) => Answered(stage, g)'
<1>1. /\ query'.stage = query.stage /\ query'.by = query.by /\ query'.of = query.of
      /\ query'.only = query.only /\ query.found \subseteq query'.found
      /\ grants' = grants /\ kept' = kept
      /\ query'.todo = (query.todo \ {f}) \cup more
  BY FollowEffect
<1>2. Listed \subseteq Listed'
  BY FollowLists
<1>3. Own(kept)' = Own(kept) /\ Shared(kept)' = Shared(kept)
  BY <1>1 DEF Own, Shared
<1>4. Roots(kept)' = Roots(kept)
  BY <1>1, <1>3 DEF Roots
<1>5. \A stage, h : Pending(stage, h) => query.stage = stage /\ (h # f => Pending(stage, h)')
  BY <1>1 DEF Pending
<1>6. \A stage, g : Answered(stage, g) => Answered(stage, g)'
  BY <1>1, <1>2 DEF Answered
<1> QED
  BY <1>1, <1>2, <1>3, <1>4, <1>5, <1>6

\* A read of one stage leaves the others alone.
LEMMA SubjectStagesStay ==
  ASSUME AccessTypeOK, NEW f, NEW es, NEW more, NEW rest, Follow(f, es, more, rest), SubjectGot
  PROVE  /\ query.stage # "direct" => DirectGot'
         /\ query.stage # "group" => GroupsGot'
         /\ query.stage # "parent" => ParentsGot'
         /\ query.stage # "zone" => RelatedGot("zone", "admin")'
         /\ query.stage # "platform" => RelatedGot("platform", "platform")'
<1>1. query.stage # "direct" => DirectGot'
  BY FollowStays DEF DirectGot, SubjectGot
<1>2. query.stage # "group" => GroupsGot'
  BY FollowStays DEF GroupsGot, SubjectGot, Before
<1>3. ASSUME query.stage # "parent", NEW V, Traced(V)
      PROVE  Traced(V)'
  BY <1>3, FollowStays DEF Traced
<1>4. query.stage # "parent" => ParentsGot'
  BY <1>3, FollowStays DEF ParentsGot, SubjectGot, Before
<1>5. query.stage # "zone" => RelatedGot("zone", "admin")'
  BY FollowStays DEF RelatedGot, SubjectGot, Before
<1>6. query.stage # "platform" => RelatedGot("platform", "platform")'
  BY FollowStays DEF RelatedGot, SubjectGot, Before
<1> QED
  BY <1>1, <1>2, <1>4, <1>5, <1>6

LEMMA ObjectStagesStay ==
  ASSUME AccessTypeOK, NEW f, NEW es, NEW more, NEW rest, Follow(f, es, more, rest), ObjectGot
  PROVE  /\ query.stage # "direct" => OnObjectGot'
         /\ query.stage # "group" => MembersGot'
         /\ query.stage # "parent" => OnParentsGot'
<1>1. query.stage # "direct" => OnObjectGot'
  BY FollowStays DEF OnObjectGot, ObjectGot
<1>2. query.stage # "group" => MembersGot'
  BY FollowStays DEF MembersGot, ObjectGot, Before
<1>3. query.stage # "parent" => OnParentsGot'
  BY FollowStays DEF OnParentsGot, ObjectGot, Before
<1> QED
  BY <1>1, <1>2, <1>3

\* While a request runs, what has stayed is what its reads find, and what they
\* find has been seen.
LEMMA KeptIsFound ==
  ASSUME AccessTypeOK, HistoryOK, query.stage \notin {"idle", "done"}
  PROVE  /\ GrantIDs \cap kept \subseteq ActiveGrants
         /\ \A k \in {"member", "parent", "admin", "platform"}, x, y \in Subjects \cup Objects :
              <<k, x, y>> \in kept => <<k, x, y>> \in graph
         /\ ActiveGrants \subseteq GrantIDs \cap held /\ graph \subseteq Tuples \cap held
<1>1. \A k \in {"member", "parent", "admin", "platform"}, x, y \in Subjects \cup Objects :
        <<k, x, y>> \notin GrantIDs
  BY AccessOK DEF Relationships
<1>2. kept \subseteq ActiveGrants \cup graph /\ ActiveGrants \cup graph \subseteq held
  BY DEF HistoryOK, Facts
<1>3. ActiveGrants \subseteq GrantIDs /\ graph \subseteq Tuples
  BY DEF ActiveGrants, AccessTypeOK
<1>4. GrantIDs \cap graph = {}
  BY <1>3, TuplesAreRelationships, AccessOK
<1> QED
  BY <1>1, <1>2, <1>3, <1>4

LEMMA FollowGot ==
  ASSUME AccessTypeOK, Got, NEW f, NEW es, NEW more, NEW rest, Follow(f, es, more, rest),
         query.stage \notin {"idle", "done"},
         query.by = "subject" /\ SubjectGot /\ rest = {} => SubjectGot',
         query.by = "object" /\ ObjectGot /\ rest = {} => ObjectGot'
  PROVE  Got'
<1>1. query'.stage = query.stage /\ query'.by = query.by
  BY FollowEffect
<1>2. ~query'.partial => ~query.partial /\ rest = {}
  BY DEF AccessTypeOK, Query, Follow
<1> QED
  BY <1>1, <1>2 DEF Got

LEMMA GrantKinds ==
  ASSUME AccessTypeOK
  PROVE  \A g \in GrantIDs : grants[g].subject \in Subjects /\ grants[g].object \in Objects
  BY DEF AccessTypeOK, Grant

-----------------------------------------------------------------------------
(* ListSubjectEntitlements.                                                 *)

LEMMA ListDirectGrantsKeeps ==
  ASSUME MadeInv, Got, ListDirectGrants
  PROVE  MadeInv' /\ Got'
<1> DEFINE rows == {g \in ActiveGrants : grants[g].subject = query.of}
<1>1. query.by = "subject" /\ query.stage = "direct" /\ query.of \in Subjects
  BY DEF ListDirectGrants, At, MadeInv, OfOK
<1>2. AccessTypeOK /\ HistoryOK
  BY DEF MadeInv
<1>3. rows \subseteq Own(held) /\ Own(kept) \subseteq rows
  BY <1>1, <1>2, KeptIsFound DEF Own
<1>4. \A g \in rows : g \in GrantIDs /\ grants[g].object \in Objects
  BY <1>2, GrantKinds DEF ActiveGrants
<1> HIDE DEF rows
<1>5. PICK some \in SUBSET rows :
        Follow(<<query.of>>, {Entry(g, grants[g].object, query.of) : g \in some}, {}, rows \ some)
  BY DEF ListDirectGrants, Page, rows
<1> DEFINE es == {Entry(g, grants[g].object, query.of) : g \in some}
<1>6. \A g \in some : /\ Entry(g, grants[g].object, query.of).object = grants[g].object
                      /\ ID(Entry(g, grants[g].object, query.of)) = <<"direct", g, query.of>>
                      /\ Admitted(Entry(g, grants[g].object, query.of)) <=> grants[g].object \in query.only
  BY <1>1 DEF Entry, ID, Admitted
<1>7. es \in SUBSET Entitlement
  BY <1>1, <1>4 DEF Entry, Entitlement, Stages
<1>8. \A e \in es : Admitted(e) => ID(e) \in Entitled(held)
  BY <1>1, <1>3, <1>6, EntitledByKind DEF ByKind, BySubject
<1>9. \A e \in es : e.object \in Roots(held)
  BY <1>3, <1>6 DEF Roots
<1>10. ASSUME SubjectGot, rows \ some = {}
       PROVE  SubjectGot'
  <2>1. \A g \in Own(kept) : Answered("direct", g)' /\ grants'[g].object \in query'.found
    <3>1. query'.found = query.found \cup {e.object : e \in es}
      BY <1>1, <1>2, <1>5, FollowEffect
    <3>2. query'.of = query.of /\ query'.only = query.only /\ grants' = grants
      BY <1>2, <1>5, FollowEffect
    <3>3. \A e \in es : Admitted(e) => ID(e) \in Listed'
      BY <1>2, <1>5, FollowLists
    <3> QED
      BY <1>3, <1>6, <1>10, <3>1, <3>2, <3>3 DEF Answered
  <2>2. DirectGot'
    BY <1>2, <1>5, <2>1, FollowStays DEF DirectGot
  <2> QED
    BY <1>1, <1>2, <1>5, <1>10, <2>2, SubjectStagesStay DEF SubjectGot
<1>11. MadeInv'
  <2> HIDE DEF es
  <2> QED
    BY <1>1, <1>5, <1>7, <1>8, <1>9, FollowKeepsMade DEF es
<1>12. Got'
  BY <1>1, <1>2, <1>5, <1>10, FollowGot
<1> QED
  BY <1>11, <1>12

LEMMA ReadRelatedKeeps ==
  ASSUME MadeInv, Got, ReadRelated
  PROVE  MadeInv' /\ Got'
<1>1. /\ query.by = "subject" /\ query.stage \in {"group", "zone", "platform"}
      /\ query.of \in Subjects /\ Follow(<<query.of>>, {}, Related, {})
  BY DEF ReadRelated, MadeInv, OfOK
<1>2. AccessTypeOK /\ HistoryOK
  BY DEF MadeInv
<1> DEFINE k == IF query.stage = "group" THEN "member"
                ELSE IF query.stage = "zone" THEN "admin" ELSE "platform"
           to == {<<query.of, t[2]>> : t \in {t \in graph : t[1] = k /\ t[3] = query.of}}
<1>3. Related = to
  BY <1>1 DEF Related
<1>4. \A h \in to : \E x \in Groups \cup Objects : h = <<query.of, x>> /\ <<k, x, query.of>> \in graph
  <2>1. ASSUME NEW t \in graph, t[1] = k, t[3] = query.of
        PROVE  t[2] \in Groups \cup Objects /\ <<k, t[2], query.of>> = t
    <3>1. t \in Tuples
      BY <1>2 DEF AccessTypeOK
    <3> QED
      BY <1>1, <2>1, <3>1, TupleShape DEF Objects
  <2> QED
    BY <2>1
<1>5. \A x : <<k, x, query.of>> \in graph => <<query.of, x>> \in to
  <2> SUFFICES ASSUME NEW x, <<k, x, query.of>> \in graph
               PROVE  \E t \in graph : t[1] = k /\ t[3] = query.of /\ <<query.of, x>> = <<query.of, t[2]>>
    OBVIOUS
  <2> WITNESS <<k, x, query.of>> \in graph
  <2> QED
    OBVIOUS
<1> HIDE DEF to
<1>6. to \in SUBSET Reads
  BY <1>1, <1>4, ReadsHave
<1>7. \A h \in to : SubjectReadOK(h)
  <2> SUFFICES ASSUME NEW h \in to
               PROVE  SubjectReadOK(h)
    OBVIOUS
  <2>1. PICK x \in Groups \cup Objects : h = <<query.of, x>> /\ <<k, x, query.of>> \in graph
    BY <1>4
  <2>2. <<k, x, query.of>> \in held
    BY <1>1, <1>2, <2>1, KeptIsFound
  <2> QED
    BY <1>1, <2>1, <2>2 DEF SubjectReadOK
<1>8. MadeInv'
  <2>1. Follow(<<query.of>>, {}, to, {})
    BY <1>1, <1>3
  <2> QED
    BY <1>1, <1>6, <1>7, <2>1, FollowKeepsMade
<1>9. \A g \in GrantIDs \cap kept :
        /\ <<k, grants[g].subject, query.of>> \in kept => <<query.of, grants[g].subject>> \in query'.todo
        /\ <<k, grants[g].object, query.of>> \in kept => <<query.of, grants[g].object>> \in query'.todo
  <2>1. \A g \in GrantIDs : grants[g].subject \in Subjects /\ grants[g].object \in Objects
    BY <1>2, GrantKinds
  <2>2. \A x \in Subjects \cup Objects : <<k, x, query.of>> \in kept => <<query.of, x>> \in to
    BY <1>1, <1>2, <1>5, KeptIsFound
  <2>3. to \subseteq query'.todo
    BY <1>1, <1>2, <1>3, FollowReads
  <2> QED
    BY <2>1, <2>2, <2>3
<1>10. /\ query'.stage = query.stage /\ query'.of = query.of
       /\ kept' = kept /\ grants' = grants /\ Shared(kept)' = Shared(kept)
  BY <1>1, <1>2, FollowStays
<1>11. ASSUME SubjectGot
       PROVE  SubjectGot'
  <2>1. /\ DirectGot' /\ ParentsGot'
        /\ query.stage # "group" => GroupsGot'
        /\ query.stage # "zone" => RelatedGot("zone", "admin")'
        /\ query.stage # "platform" => RelatedGot("platform", "platform")'
    BY <1>1, <1>2, <1>11, SubjectStagesStay
  <2>2. query.stage = "group" => GroupsGot'
    BY <1>9, <1>10 DEF GroupsGot, Shared, Pending
  <2>3. query.stage = "zone" => RelatedGot("zone", "admin")'
    BY <1>9, <1>10 DEF RelatedGot, Pending
  <2>4. query.stage = "platform" => RelatedGot("platform", "platform")'
    BY <1>9, <1>10 DEF RelatedGot, Pending
  <2> QED
    BY <2>1, <2>2, <2>3, <2>4 DEF SubjectGot
<1>12. Got'
  BY <1>1, <1>2, <1>11, FollowGot
<1> QED
  BY <1>8, <1>12

LEMMA ListInheritedGrantsKeeps ==
  ASSUME MadeInv, Got, NEW x \in Groups \cup Objects, ListInheritedGrants(x)
  PROVE  MadeInv' /\ Got'
<1> DEFINE rows == {g \in ActiveGrants :
                      x = IF query.stage = "group" THEN grants[g].subject ELSE grants[g].object}
<1>1. /\ query.by = "subject" /\ query.stage \in {"group", "zone", "platform"}
      /\ query.of \in Subjects /\ <<query.of, x>> \in query.todo
  BY DEF ListInheritedGrants, MadeInv, OfOK
<1>2. AccessTypeOK /\ HistoryOK
  BY DEF MadeInv
<1>3. PICK some \in SUBSET rows :
        Follow(<<query.of, x>>, {Entry(g, grants[g].object, query.of) : g \in some}, {}, rows \ some)
  BY DEF ListInheritedGrants, Page
<1> DEFINE es == {Entry(g, grants[g].object, query.of) : g \in some}
<1>4. \A g \in some : /\ Entry(g, grants[g].object, query.of).object = grants[g].object
                      /\ ID(Entry(g, grants[g].object, query.of)) = <<query.stage, g, query.of>>
                      /\ Admitted(Entry(g, grants[g].object, query.of)) <=> grants[g].object \in query.only
  BY <1>1 DEF Entry, ID, Admitted
<1>5. /\ \A g \in some : g \in GrantIDs \cap held /\ grants[g].object \in Objects
      /\ query.stage = "group" => \A g \in some : grants[g].subject = x
      /\ query.stage # "group" => \A g \in some : grants[g].object = x
  BY <1>1, <1>2, KeptIsFound, GrantKinds
<1>6. es \in SUBSET Entitlement
  BY <1>1, <1>5 DEF Entry, Entitlement, Stages
<1>7. SubjectReadOK(<<query.of, x>>)
  BY <1>1 DEF MadeInv, ReadsOK
<1>8. query.stage = "group" => some \subseteq Shared(held)
  BY <1>5, <1>7 DEF SubjectReadOK, Shared
<1>9. \A e \in es : Admitted(e) => ID(e) \in Entitled(held)
  <2> SUFFICES ASSUME NEW g \in some, grants[g].object \in query.only
               PROVE  BySubject(held, <<query.stage, g, query.of>>)
    BY <1>1, <1>4, EntitledByKind DEF ByKind
  <2>1. CASE query.stage = "group"
    BY <1>8, <2>1 DEF BySubject
  <2>2. CASE query.stage = "zone"
    BY <1>5, <1>7, <2>2 DEF BySubject, SubjectReadOK
  <2>3. CASE query.stage = "platform"
    BY <1>5, <1>7, <2>3 DEF BySubject, SubjectReadOK
  <2> QED
    BY <1>1, <2>1, <2>2, <2>3
<1>10. query.stage \in {"direct", "group"} => \A e \in es : e.object \in Roots(held)
  BY <1>1, <1>4, <1>8 DEF Roots
<1>11. MadeInv'
  <2> HIDE DEF es
  <2> QED
    BY <1>1, <1>3, <1>6, <1>9, <1>10, FollowKeepsMade DEF es
<1>12. ASSUME NEW g \in GrantIDs \cap kept, g \in rows, rows \ some = {}
       PROVE  /\ Answered(query.stage, g)'
              /\ grants'[g].object \in query'.found
  <2>1. query'.of = query.of /\ query'.only = query.only /\ query'.stage = query.stage /\ grants' = grants
    BY <1>2, <1>3, FollowEffect
  <2>2. query'.found = query.found \cup {e.object : e \in es}
    BY <1>1, <1>2, <1>3, FollowEffect
  <2>3. \A e \in es : Admitted(e) => ID(e) \in Listed'
    BY <1>2, <1>3, FollowLists
  <2>4. Entry(g, grants[g].object, query.of) \in es
    BY <1>12
  <2> HIDE DEF es
  <2> QED
    BY <1>4, <1>12, <2>1, <2>2, <2>3, <2>4 DEF Answered
<1>13. /\ query'.stage = query.stage /\ query'.of = query.of
       /\ kept' = kept /\ grants' = grants /\ Shared(kept)' = Shared(kept)
       /\ query.found \subseteq query'.found
       /\ \A stage, h : Pending(stage, h) => query.stage = stage /\ (h # <<query.of, x>> => Pending(stage, h)')
       /\ \A stage, g : Answered(stage, g) => Answered(stage, g)'
  BY <1>2, <1>3, FollowStays
<1>14. GrantIDs \cap kept \subseteq ActiveGrants
  BY <1>1, <1>2, KeptIsFound
<1>15. ASSUME SubjectGot, rows \ some = {}
       PROVE  SubjectGot'
  <2>1. /\ DirectGot' /\ ParentsGot'
        /\ query.stage # "group" => GroupsGot'
        /\ query.stage # "zone" => RelatedGot("zone", "admin")'
        /\ query.stage # "platform" => RelatedGot("platform", "platform")'
    BY <1>1, <1>2, <1>3, <1>15, SubjectStagesStay
  <2>2. ASSUME query.stage = "group"
        PROVE  GroupsGot'
    <3>1. \A g \in Shared(kept) : g \in GrantIDs \cap kept
      BY DEF Shared
    <3>2. \A g \in Shared(kept) : grants[g].subject = x => g \in rows
      BY <1>14, <2>2, <3>1
    <3>3. <<query.of>> # <<query.of, x>>
      BY ReadsDiffer
    <3>4. \A g \in Shared(kept) : grants[g].subject # x => <<query.of, grants[g].subject>> # <<query.of, x>>
      BY ReadsDiffer
    <3>5. GroupsGot /\ ~Before("group")
      BY <1>15, <2>2 DEF SubjectGot, Before
    <3> HIDE DEF rows, es
    <3> QED
      BY <1>12, <1>13, <1>15, <2>2, <3>1, <3>2, <3>3, <3>4, <3>5 DEF GroupsGot
  <2>3. ASSUME NEW k, query.stage \in {"zone", "platform"}, RelatedGot(query.stage, k)
        PROVE  RelatedGot(query.stage, k)'
    <3>1. \A g \in GrantIDs \cap kept : grants[g].object = x => g \in rows
      BY <1>14, <2>3
    <3>2. <<query.of>> # <<query.of, x>>
      BY ReadsDiffer
    <3>3. \A g \in GrantIDs \cap kept : grants[g].object # x => <<query.of, grants[g].object>> # <<query.of, x>>
      BY ReadsDiffer
    <3>4. ~Before(query.stage)
      BY <2>3 DEF Before
    <3> HIDE DEF rows, es
    <3> QED
      BY <1>12, <1>13, <1>15, <2>3, <3>1, <3>2, <3>3, <3>4 DEF RelatedGot
  <2>4. /\ query.stage = "zone" => RelatedGot("zone", "admin")'
        /\ query.stage = "platform" => RelatedGot("platform", "platform")'
    BY <1>13, <1>15, <2>3 DEF SubjectGot
  <2> QED
    BY <2>1, <2>2, <2>4 DEF SubjectGot
<1>16. Got'
  BY <1>1, <1>2, <1>3, <1>15, FollowGot
<1> QED
  BY <1>11, <1>16

\* For a subject and for an object.
LEMMA ReadParentsKeeps ==
  ASSUME MadeInv, Got, NEW r \in Objects, ReadParents(r)
  PROVE  MadeInv' /\ Got'
<1> DEFINE parents == {<<r, t[3]>> : t \in {t \in graph : t[1] = "parent" /\ t[2] = r}}
<1>1. query.stage = "parent" /\ <<r>> \in query.todo /\ Follow(<<r>>, {}, parents, {})
  BY DEF ReadParents
<1>2. AccessTypeOK /\ HistoryOK
  BY DEF MadeInv
<1>3. query.by \in {"subject", "object"}
  BY <1>2 DEF AccessTypeOK, Query
<1>4. \A h \in parents : \E x \in Objects : h = <<r, x>> /\ <<"parent", r, x>> \in graph
  <2>1. ASSUME NEW t \in graph, t[1] = "parent", t[2] = r
        PROVE  t[3] \in Objects /\ <<"parent", r, t[3]>> = t
    <3>1. t \in Tuples
      BY <1>2 DEF AccessTypeOK
    <3> QED
      BY <2>1, <3>1, TupleShape DEF Objects
  <2> QED
    BY <2>1
<1>5. \A x \in Objects : <<"parent", r, x>> \in kept => <<r, x>> \in parents
  <2> SUFFICES ASSUME NEW x \in Objects, <<"parent", r, x>> \in kept
               PROVE  \E t \in graph : t[1] = "parent" /\ t[2] = r /\ <<r, x>> = <<r, t[3]>>
    OBVIOUS
  <2>1. <<"parent", r, x>> \in graph
    BY <1>1, <1>2, KeptIsFound
  <2> WITNESS <<"parent", r, x>> \in graph
  <2> QED
    OBVIOUS
<1> HIDE DEF parents
<1>6. parents \in SUBSET Reads
  BY <1>4, ReadsHave
<1>7. query.by = "subject" => \A h \in parents : SubjectReadOK(h)
  <2> SUFFICES ASSUME query.by = "subject", NEW x \in Objects, <<"parent", r, x>> \in graph
               PROVE  SubjectReadOK(<<r, x>>)
    BY <1>4
  <2>1. r \in Ancestors(Roots(held), held)
    BY <1>1 DEF MadeInv, ReadsOK, SubjectReadOK
  <2>2. <<"parent", r, x>> \in held
    BY <1>1, <1>2, KeptIsFound
  <2> QED
    BY <1>1, <2>1, <2>2, ReadsDiffer DEF SubjectReadOK
<1>8. query.by = "object" => \A h \in parents : ObjectReadOK(h)
  <2> SUFFICES ASSUME query.by = "object", NEW x \in Objects, <<"parent", r, x>> \in graph
               PROVE  ObjectReadOK(<<r, x>>)
    BY <1>4
  <2>1. <<"parent", r, x>> \in held
    BY <1>1, <1>2, KeptIsFound
  <2> QED
    BY <1>1, <2>1, ReadsDiffer DEF ObjectReadOK
<1>9. MadeInv'
  BY <1>1, <1>6, <1>7, <1>8, FollowKeepsMade
<1>10. /\ query'.stage = query.stage /\ query'.of = query.of /\ query'.only = query.only
       /\ kept' = kept /\ grants' = grants /\ Listed \subseteq Listed'
       /\ Own(kept)' = Own(kept) /\ Roots(kept)' = Roots(kept)
       /\ \A stage, h : Pending(stage, h) => query.stage = stage /\ (h # <<r>> => Pending(stage, h)')
  BY <1>1, <1>2, FollowStays
<1>11. \A h \in parents : Pending("parent", h)'
  <2>1. parents \subseteq query'.todo
    BY <1>1, <1>2, FollowReads
  <2> QED
    BY <1>1, <1>10, <2>1 DEF Pending
<1>12. ASSUME query.by = "subject", SubjectGot
       PROVE  SubjectGot'
  <2>1. PICK V \in SUBSET Objects : Traced(V)
    BY <1>1, <1>12 DEF SubjectGot, ParentsGot, Before
  <2>2. \A x : x # r => <<x>> # <<r>>
    BY ReadsDiffer
  <2>3. \A x, y : <<x, y>> # <<r>>
    BY ReadsDiffer
  <2>4. ASSUME NEW x \in Roots(kept)
        PROVE  x \in V \cup {r} \/ Pending("parent", <<x>>)'
    <3>1. x \in V \/ Pending("parent", <<x>>)
      BY <2>1 DEF Traced
    <3>2. x # r => <<x>> # <<r>>
      BY <2>2
    <3> QED
      BY <1>10, <3>1, <3>2
  <2>5. ASSUME NEW y \in V \cup {r}, NEW x \in Objects, <<"parent", y, x>> \in kept
        PROVE  \/ Pending("parent", <<y, x>>)'
               \/ /\ x \in V \cup {r} \/ Pending("parent", <<x>>)'
                  /\ \A g \in Own(kept) :
                       grants[g].object = x /\ y \in query.only => <<"parent", g, query.of>> \in Listed'
    <3>1. CASE y = r
      BY <1>5, <1>11, <2>5, <3>1
    <3>2. CASE y \in V
      BY <1>10, <2>1, <2>2, <2>3, <2>5, <3>2 DEF Traced
    <3> QED
      BY <2>5, <3>1, <3>2
  <2>6. Traced(V \cup {r})'
    BY <1>10, <2>4, <2>5 DEF Traced
  <2>7. ParentsGot'
    <3>1. V \cup {r} \in SUBSET Objects
      OBVIOUS
    <3> QED
      BY <2>6, <3>1 DEF ParentsGot
  <2> QED
    BY <1>1, <1>2, <1>12, <2>7, SubjectStagesStay DEF SubjectGot
<1>13. ASSUME query.by = "object", ObjectGot
       PROVE  ObjectGot'
  <2>1. r = query.of
    BY <1>1, <1>13 DEF MadeInv, ReadsOK, ObjectReadOK
  <2>2. \A g \in GrantIDs : grants[g].object \in Objects
    BY <1>2, GrantKinds
  <2>3. OnParentsGot'
    BY <1>5, <1>10, <1>11, <2>1, <2>2 DEF OnParentsGot
  <2> QED
    BY <1>1, <1>2, <1>13, <2>3, ObjectStagesStay DEF ObjectGot
<1>14. Got'
  BY <1>1, <1>2, <1>12, <1>13, FollowGot
<1> QED
  BY <1>9, <1>14

LEMMA ListParentGrantsKeeps ==
  ASSUME MadeInv, Got, NEW r \in Objects, NEW x \in Objects, ListParentGrants(r, x)
  PROVE  MadeInv' /\ Got'
<1> DEFINE rows == {g \in ActiveGrants : grants[g].object = x /\ grants[g].subject = query.of}
<1>1. /\ query.by = "subject" /\ query.stage = "parent"
      /\ query.of \in Subjects /\ <<r, x>> \in query.todo
  BY DEF ListParentGrants, At, MadeInv, OfOK
<1>2. AccessTypeOK /\ HistoryOK
  BY DEF MadeInv
<1>3. PICK some \in SUBSET rows :
        Follow(<<r, x>>, {Entry(g, r, query.of) : g \in some}, {<<x>>}, rows \ some)
  BY DEF ListParentGrants, Page
<1> DEFINE es == {Entry(g, r, query.of) : g \in some}
<1>4. \A g : /\ ID(Entry(g, r, query.of)) = <<"parent", g, query.of>>
             /\ Admitted(Entry(g, r, query.of)) <=> r \in query.only
  BY <1>1 DEF Entry, ID, Admitted
<1>5. \A g \in some : g \in Own(held) /\ g \in GrantIDs /\ grants[g].object = x
  BY <1>1, <1>2, KeptIsFound DEF Own
<1>6. es \in SUBSET Entitlement
  BY <1>1, <1>5 DEF Entry, Entitlement, Stages
<1>7. r \in Ancestors(Roots(held), held) /\ <<"parent", r, x>> \in held
  BY <1>1 DEF MadeInv, ReadsOK, SubjectReadOK
<1>8. \A e \in es : Admitted(e) => ID(e) \in Entitled(held)
  <2> SUFFICES ASSUME NEW g \in some, r \in query.only
               PROVE  BySubject(held, <<"parent", g, query.of>>)
    BY <1>1, <1>4, EntitledByKind DEF ByKind
  <2> QED
    BY <1>5, <1>7 DEF BySubject
<1>9. SubjectReadOK(<<x>>)
  <2>1. Roots(held) \in SUBSET Objects
    BY <1>2, GrantKinds DEF Roots, Own, Shared
  <2>2. x \in Ancestors(Roots(held), held)
    BY <1>7, <2>1, AncestorsClosed
  <2> QED
    BY <1>1, <2>2, ReadsDiffer DEF SubjectReadOK
<1>10. {<<x>>} \in SUBSET Reads
  BY ReadsHave
<1>11. MadeInv'
  <2> HIDE DEF es
  <2> QED
    BY <1>1, <1>3, <1>6, <1>8, <1>9, <1>10, FollowKeepsMade DEF es
<1>12. /\ query'.stage = query.stage /\ query'.of = query.of /\ query'.only = query.only
       /\ kept' = kept /\ grants' = grants /\ Listed \subseteq Listed'
       /\ Own(kept)' = Own(kept) /\ Roots(kept)' = Roots(kept)
       /\ \A stage, h : Pending(stage, h) => query.stage = stage /\ (h # <<r, x>> => Pending(stage, h)')
  BY <1>2, <1>3, FollowStays
<1>13. Pending("parent", <<x>>)'
  <2>1. <<x>> \in query'.todo
    BY <1>2, <1>3, FollowReads
  <2> QED
    BY <1>1, <1>12, <2>1 DEF Pending
<1>14. ASSUME rows \ some = {}, NEW g \in Own(kept), grants[g].object = x, r \in query.only
       PROVE  <<"parent", g, query.of>> \in Listed'
  <2>1. g \in some
    BY <1>1, <1>2, <1>14, KeptIsFound DEF Own
  <2>2. \A e \in es : Admitted(e) => ID(e) \in Listed'
    BY <1>2, <1>3, FollowLists
  <2> QED
    BY <1>4, <1>14, <2>1, <2>2
<1>15. ASSUME SubjectGot, rows \ some = {}
       PROVE  SubjectGot'
  <2>1. PICK V \in SUBSET Objects : Traced(V)
    BY <1>1, <1>15 DEF SubjectGot, ParentsGot, Before
  <2>2. \A y : <<y>> # <<r, x>>
    BY ReadsDiffer
  <2>3. \A y, z : <<y, z>> = <<r, x>> => y = r /\ z = x
    BY ReadsDiffer
  <2> HIDE DEF es, rows
  <2>4. ASSUME NEW y \in V, NEW z \in Objects, <<"parent", y, z>> \in kept
        PROVE  \/ Pending("parent", <<y, z>>)'
               \/ /\ z \in V \/ Pending("parent", <<z>>)'
                  /\ \A g \in Own(kept) :
                       grants[g].object = z /\ y \in query.only => <<"parent", g, query.of>> \in Listed'
    <3>1. CASE <<y, z>> = <<r, x>>
      BY <1>13, <1>14, <1>15, <2>3, <3>1
    <3>2. CASE <<y, z>> # <<r, x>>
      BY <1>12, <2>1, <2>2, <2>4, <3>2 DEF Traced
    <3> QED
      BY <3>1, <3>2
  <2>5. Traced(V)'
    BY <1>12, <2>1, <2>2, <2>4 DEF Traced
  <2> QED
    BY <1>1, <1>2, <1>3, <1>15, <2>5, SubjectStagesStay DEF SubjectGot, ParentsGot, rows
<1>16. Got'
  BY <1>1, <1>2, <1>3, <1>15, FollowGot
<1> QED
  BY <1>11, <1>16

-----------------------------------------------------------------------------
(* ListResourceAccess.                                                      *)

LEMMA ListGrantsOnObjectKeeps ==
  ASSUME MadeInv, Got, ListGrantsOnObject
  PROVE  MadeInv' /\ Got'
<1> DEFINE rows == {g \in ActiveGrants : grants[g].object = query.of}
<1>1. query.by = "object" /\ query.stage = "direct" /\ query.of \in Objects
  BY DEF ListGrantsOnObject, At, MadeInv, OfOK
<1>2. AccessTypeOK /\ HistoryOK
  BY DEF MadeInv
<1>3. PICK some \in SUBSET rows :
        Follow(<<query.of>>, {Entry(g, query.of, grants[g].subject) : g \in some}, {}, rows \ some)
  BY DEF ListGrantsOnObject, Page
<1> DEFINE es == {Entry(g, query.of, grants[g].subject) : g \in some}
<1>4. \A g : /\ ID(Entry(g, query.of, grants[g].subject)) = <<"direct", g, grants[g].subject>>
             /\ Admitted(Entry(g, query.of, grants[g].subject)) <=> grants[g].subject \in query.only
  BY <1>1 DEF Entry, ID, Admitted
<1>5. \A g \in some : g \in GrantIDs \cap held /\ grants[g].object = query.of /\ grants[g].subject \in Subjects
  BY <1>1, <1>2, KeptIsFound, GrantKinds
<1>6. es \in SUBSET Entitlement
  BY <1>1, <1>5 DEF Entry, Entitlement, Stages
<1>7. \A e \in es : Admitted(e) => ID(e) \in Entitled(held)
  <2> SUFFICES ASSUME NEW g \in some, grants[g].subject \in query.only
               PROVE  ByObject(held, <<"direct", g, grants[g].subject>>)
    BY <1>1, <1>4, EntitledByKind DEF ByKind
  <2> QED
    BY <1>5 DEF ByObject
<1>8. MadeInv'
  <2> HIDE DEF es
  <2> QED
    BY <1>1, <1>3, <1>6, <1>7, FollowKeepsMade DEF es
<1>9. ASSUME ObjectGot, rows \ some = {}
      PROVE  ObjectGot'
  <2>1. query'.of = query.of /\ query'.only = query.only /\ grants' = grants /\ kept' = kept
    BY <1>2, <1>3, FollowEffect
  <2>2. \A e \in es : Admitted(e) => ID(e) \in Listed'
    BY <1>2, <1>3, FollowLists
  <2>3. \A g \in GrantIDs \cap kept : grants[g].object = query.of => g \in some
    BY <1>1, <1>2, <1>9, KeptIsFound
  <2>4. OnObjectGot'
    BY <1>4, <2>1, <2>2, <2>3 DEF OnObjectGot
  <2> QED
    BY <1>1, <1>2, <1>3, <1>9, <2>4, ObjectStagesStay DEF ObjectGot
<1>10. Got'
  BY <1>1, <1>2, <1>3, <1>9, FollowGot
<1> QED
  BY <1>8, <1>10

LEMMA ListGroupGrantsKeeps ==
  ASSUME MadeInv, Got, ListGroupGrants
  PROVE  MadeInv' /\ Got'
<1> DEFINE rows == {g \in ActiveGrants : grants[g].object = query.of /\ grants[g].subject \in Groups}
<1>1. query.by = "object" /\ query.stage = "group" /\ query.of \in Objects
  BY DEF ListGroupGrants, At, MadeInv, OfOK
<1>2. AccessTypeOK /\ HistoryOK
  BY DEF MadeInv
<1>3. PICK some \in SUBSET rows : Follow(<<query.of>>, {}, {<<g>> : g \in some}, rows \ some)
  BY DEF ListGroupGrants, Page
<1> DEFINE reads == {<<g>> : g \in some}
<1>4. \A g \in some : g \in GrantIDs \cap held /\ grants[g].object = query.of
  BY <1>1, <1>2, KeptIsFound
<1>5. reads \in SUBSET Reads
  BY <1>4, ReadsHave
<1>6. \A h \in reads : ObjectReadOK(h)
  BY <1>1, <1>4, ReadsDiffer DEF ObjectReadOK
<1>7. MadeInv'
  <2> HIDE DEF reads
  <2> QED
    BY <1>1, <1>3, <1>5, <1>6, FollowKeepsMade DEF reads
<1>8. ASSUME ObjectGot, rows \ some = {}
      PROVE  ObjectGot'
  <2>1. /\ query'.stage = query.stage /\ query'.of = query.of /\ query'.only = query.only
        /\ grants' = grants /\ kept' = kept
    BY <1>2, <1>3, FollowEffect
  <2>2. \A g \in some : <<g>> \in query'.todo
    BY <1>2, <1>3, FollowReads
  <2>3. ASSUME NEW g \in GrantIDs \cap kept, grants[g].object = query.of, NEW s \in Subjects,
               <<"member", grants[g].subject, s>> \in kept
        PROVE  g \in some
    <3>1. g \in ActiveGrants /\ grants[g].subject \in Subjects
      BY <1>1, <1>2, KeptIsFound, GrantKinds
    <3>2. <<"member", grants[g].subject, s>> \in Tuples
      BY <1>1, <1>2, <2>3, <3>1, KeptIsFound
    <3>3. grants[g].subject \in Groups
      BY <3>2 DEF Tuples
    <3> QED
      BY <1>8, <2>3, <3>1, <3>3
  <2>4. MembersGot'
    BY <1>1, <2>1, <2>2, <2>3 DEF MembersGot, Pending
  <2> QED
    BY <1>1, <1>2, <1>3, <1>8, <2>4, ObjectStagesStay DEF ObjectGot
<1>9. Got'
  BY <1>1, <1>2, <1>3, <1>8, FollowGot
<1> QED
  BY <1>7, <1>9

LEMMA ReadMembersKeeps ==
  ASSUME MadeInv, Got, NEW g \in GrantIDs, ReadMembers(g)
  PROVE  MadeInv' /\ Got'
<1> DEFINE of_group == {t \in graph : t[1] = "member" /\ t[2] = grants[g].subject}
           es == {Entry(g, query.of, t[3]) : t \in of_group}
<1>1. /\ query.by = "object" /\ query.stage = "group" /\ query.of \in Objects
      /\ <<g>> \in query.todo /\ Follow(<<g>>, es, {}, {})
  BY DEF ReadMembers, At, MadeInv, OfOK
<1>2. AccessTypeOK /\ HistoryOK
  BY DEF MadeInv
<1>3. g \in held /\ grants[g].object = query.of /\ grants[g].subject \in Subjects
  BY <1>1, <1>2, GrantKinds DEF MadeInv, ReadsOK, ObjectReadOK
<1>4. \A s : /\ ID(Entry(g, query.of, s)) = <<"group", g, s>>
             /\ Admitted(Entry(g, query.of, s)) <=> Users \subseteq query.only
  BY <1>1 DEF Entry, ID, Admitted
<1>5. \A t \in of_group : t[3] \in Subjects /\ <<"member", grants[g].subject, t[3]>> \in graph \cap held
  <2> SUFFICES ASSUME NEW t \in graph, t[1] = "member", t[2] = grants[g].subject
               PROVE  t[3] \in Subjects /\ <<"member", grants[g].subject, t[3]>> \in graph \cap held
    OBVIOUS
  <2>1. t \in Tuples \cap held
    BY <1>1, <1>2, KeptIsFound
  <2>2. t[3] \in Subjects /\ t = <<"member", t[2], t[3]>>
    BY <2>1, TupleShape
  <2> QED
    BY <2>1, <2>2
<1>6. \A s \in Subjects : <<"member", grants[g].subject, s>> \in kept => Entry(g, query.of, s) \in es
  <2> SUFFICES ASSUME NEW s \in Subjects, <<"member", grants[g].subject, s>> \in kept
               PROVE  \E t \in graph : /\ t[1] = "member" /\ t[2] = grants[g].subject
                                       /\ Entry(g, query.of, s) = Entry(g, query.of, t[3])
    OBVIOUS
  <2>1. <<"member", grants[g].subject, s>> \in graph
    BY <1>1, <1>2, <1>3, KeptIsFound
  <2> WITNESS <<"member", grants[g].subject, s>> \in graph
  <2> QED
    OBVIOUS
<1> HIDE DEF of_group
<1>7. es \in SUBSET Entitlement
  <2> SUFFICES ASSUME NEW t \in of_group
               PROVE  Entry(g, query.of, t[3]) \in Entitlement
    OBVIOUS
  <2> QED
    BY <1>1, <1>5 DEF Entry, Entitlement, Stages
<1>8. \A e \in es : Admitted(e) => ID(e) \in Entitled(held)
  <2> SUFFICES ASSUME NEW t \in of_group, Users \subseteq query.only
               PROVE  ByObject(held, <<"group", g, t[3]>>)
    BY <1>1, <1>4, EntitledByKind DEF ByKind
  <2> QED
    BY <1>3, <1>5 DEF ByObject
<1> HIDE DEF es
<1>9. MadeInv'
  BY <1>1, <1>7, <1>8, FollowKeepsMade
<1>10. ASSUME ObjectGot
       PROVE  ObjectGot'
  <2>1. /\ query'.stage = query.stage /\ query'.of = query.of /\ query'.only = query.only
        /\ grants' = grants /\ kept' = kept /\ Listed \subseteq Listed'
        /\ \A stage, h : Pending(stage, h) => query.stage = stage /\ (h # <<g>> => Pending(stage, h)')
    BY <1>1, <1>2, FollowStays
  <2>2. \A e \in es : Admitted(e) => ID(e) \in Listed'
    BY <1>1, <1>2, FollowLists
  <2>3. query.of # g /\ \A x : x # g => <<x>> # <<g>>
    BY <1>1, ReadsDiffer, AccessOK
  <2>4. Users \subseteq query.only => \A s \in Subjects :
          <<"member", grants[g].subject, s>> \in kept => <<"group", g, s>> \in Listed'
    BY <1>4, <1>6, <2>2
  <2>5. ASSUME Users \subseteq query.only, ~Pending("group", <<query.of>>),
               NEW k \in GrantIDs \cap kept, grants[k].object = query.of, NEW s \in Subjects,
               <<"member", grants[k].subject, s>> \in kept
        PROVE  Pending("group", <<k>>)' \/ <<"group", k, s>> \in Listed'
    <3>1. Pending("group", <<k>>) \/ <<"group", k, s>> \in Listed
      BY <1>1, <1>10, <2>5 DEF ObjectGot, MembersGot, Before
    <3> QED
      BY <2>1, <2>3, <2>4, <2>5, <3>1
  <2>6. Pending("group", <<query.of>>) => Pending("group", <<query.of>>)'
    BY <2>1, <2>3
  <2>7. MembersGot'
    BY <2>1, <2>5, <2>6 DEF MembersGot
  <2> QED
    BY <1>1, <1>2, <1>10, <2>7, ObjectStagesStay DEF ObjectGot
<1>11. Got'
  BY <1>1, <1>2, <1>10, FollowGot
<1> QED
  BY <1>9, <1>11

LEMMA ListGrantsOnParentKeeps ==
  ASSUME MadeInv, Got, NEW x \in Objects, ListGrantsOnParent(x)
  PROVE  MadeInv' /\ Got'
<1> DEFINE rows == {g \in ActiveGrants : grants[g].object = x}
<1>1. /\ query.by = "object" /\ query.stage = "parent" /\ query.of \in Objects
      /\ <<query.of, x>> \in query.todo
  BY DEF ListGrantsOnParent, At, MadeInv, OfOK
<1>2. AccessTypeOK /\ HistoryOK
  BY DEF MadeInv
<1>3. PICK some \in SUBSET rows :
        Follow(<<query.of, x>>, {Entry(g, query.of, grants[g].subject) : g \in some}, {}, rows \ some)
  BY DEF ListGrantsOnParent, Page
<1> DEFINE es == {Entry(g, query.of, grants[g].subject) : g \in some}
<1>4. \A g : /\ ID(Entry(g, query.of, grants[g].subject)) = <<"parent", g, grants[g].subject>>
             /\ Admitted(Entry(g, query.of, grants[g].subject)) <=> grants[g].subject \in query.only
  BY <1>1 DEF Entry, ID, Admitted
<1>5. \A g \in some : g \in GrantIDs \cap held /\ grants[g].object = x /\ grants[g].subject \in Subjects
  BY <1>1, <1>2, KeptIsFound, GrantKinds
<1>6. es \in SUBSET Entitlement
  BY <1>1, <1>5 DEF Entry, Entitlement, Stages
<1>7. <<"parent", query.of, x>> \in held
  BY <1>1 DEF MadeInv, ReadsOK, ObjectReadOK
<1>8. \A e \in es : Admitted(e) => ID(e) \in Entitled(held)
  <2> SUFFICES ASSUME NEW g \in some, grants[g].subject \in query.only
               PROVE  ByObject(held, <<"parent", g, grants[g].subject>>)
    BY <1>1, <1>4, EntitledByKind DEF ByKind
  <2> QED
    BY <1>5, <1>7 DEF ByObject
<1>9. MadeInv'
  <2> HIDE DEF es
  <2> QED
    BY <1>1, <1>3, <1>6, <1>8, FollowKeepsMade DEF es
<1>10. ASSUME ObjectGot, rows \ some = {}
       PROVE  ObjectGot'
  <2>1. /\ query'.stage = query.stage /\ query'.of = query.of /\ query'.only = query.only
        /\ grants' = grants /\ kept' = kept /\ Listed \subseteq Listed'
        /\ \A stage, h : Pending(stage, h) =>
             query.stage = stage /\ (h # <<query.of, x>> => Pending(stage, h)')
    BY <1>2, <1>3, FollowStays
  <2>2. \A e \in es : Admitted(e) => ID(e) \in Listed'
    BY <1>2, <1>3, FollowLists
  <2>3. ASSUME NEW g \in GrantIDs \cap kept, grants[g].object = x, grants[g].subject \in query.only
        PROVE  <<"parent", g, grants[g].subject>> \in Listed'
    <3>1. g \in some
      BY <1>1, <1>2, <1>10, <2>3, KeptIsFound
    <3> QED
      BY <1>4, <2>2, <2>3, <3>1
  <2>4. <<query.of>> # <<query.of, x>> /\ \A y : y # x => <<query.of, y>> # <<query.of, x>>
    BY ReadsDiffer
  <2> HIDE DEF es, rows
  <2>5. ASSUME ~Pending("parent", <<query.of>>),
               NEW g \in GrantIDs \cap kept, <<"parent", query.of, grants[g].object>> \in kept
        PROVE  \/ Pending("parent", <<query.of, grants[g].object>>)'
               \/ grants[g].subject \in query.only => <<"parent", g, grants[g].subject>> \in Listed'
    <3>1. \/ Pending("parent", <<query.of, grants[g].object>>)
          \/ grants[g].subject \in query.only => <<"parent", g, grants[g].subject>> \in Listed
      BY <1>1, <1>10, <2>5 DEF ObjectGot, OnParentsGot, Before
    <3> QED
      BY <2>1, <2>3, <2>4, <2>5, <3>1
  <2>6. Pending("parent", <<query.of>>) => Pending("parent", <<query.of>>)'
    BY <2>1, <2>4
  <2>7. OnParentsGot'
    BY <2>1, <2>5, <2>6 DEF OnParentsGot
  <2> QED
    BY <1>1, <1>2, <1>3, <1>10, <2>7, ObjectStagesStay DEF ObjectGot, rows
<1>11. Got'
  BY <1>1, <1>2, <1>3, <1>10, FollowGot
<1> QED
  BY <1>9, <1>11

-----------------------------------------------------------------------------
(* From one stage to the next, a request's beginning, and reads that fail.  *)

LEMMA NextStageEffect ==
  ASSUME AccessTypeOK, NextStage
  PROVE  /\ query.todo = {} /\ query.stage \in {"direct", "group", "parent", "zone", "platform"}
         /\ query'.by = query.by /\ query'.of = query.of /\ query'.only = query.only
         /\ query'.found = query.found /\ query'.list = query.list /\ query'.partial = query.partial
         /\ query.stage = "direct" => query'.stage = "group" /\ query'.todo = {<<query.of>>}
         /\ query.stage = "group" =>
              /\ query'.stage = "parent"
              /\ query'.todo = IF query.by = "subject" THEN {<<r>> : r \in query.found}
                               ELSE {<<query.of>>}
         /\ query.stage = "parent" =>
              IF query.by = "subject" THEN query'.stage = "zone" /\ query'.todo = {<<query.of>>}
              ELSE query'.stage = "done" /\ query'.todo = {}
         /\ query.stage = "zone" => query'.stage = "platform" /\ query'.todo = {<<query.of>>}
         /\ query.stage = "platform" => query'.stage = "done" /\ query'.todo = {}
         /\ grants' = grants /\ graph' = graph /\ changes' = changes /\ faults' = faults
         /\ held' = held /\ kept' = kept
<1> DEFINE order == [direct |-> "group", group |-> "parent",
                     parent |-> IF query.by = "subject" THEN "zone" ELSE "done",
                     zone |-> "platform", platform |-> "done"]
           next == order[query.stage]
<1>1. query \in Query /\ query.stage \in {"direct", "group", "parent", "zone", "platform"}
  BY DEF AccessTypeOK, Query, Stages, NextStage
<1>2. /\ query.stage = "direct" => next = "group"
      /\ query.stage = "group" => next = "parent"
      /\ query.stage = "parent" => next = IF query.by = "subject" THEN "zone" ELSE "done"
      /\ query.stage = "zone" => next = "platform"
      /\ query.stage = "platform" => next = "done"
  BY <1>1
<1> HIDE DEF next
<1> DEFINE reads == IF next = "done" THEN {}
                    ELSE IF next = "parent" /\ query.by = "subject" THEN {<<r>> : r \in query.found}
                    ELSE {<<query.of>>}
<1>3. query' = [query EXCEPT !.stage = next, !.todo = reads] /\ query.todo = {}
  BY DEF NextStage, next
<1>4. /\ query'.stage = next /\ query'.todo = reads
      /\ query'.by = query.by /\ query'.of = query.of /\ query'.only = query.only
      /\ query'.found = query.found /\ query'.list = query.list /\ query'.partial = query.partial
  <2> HIDE DEF reads
  <2> QED
    BY <1>1, <1>3 DEF Query
<1>5. UNCHANGED <<grants, graph, changes, faults, held, kept>>
  BY DEF NextStage, stores, history
<1> QED
  BY <1>1, <1>2, <1>3, <1>4, <1>5

LEMMA NextStageKeepsMade ==
  ASSUME MadeInv, NextStage
  PROVE  MadeInv'
<1>1. AccessTypeOK /\ query \in Query
  BY DEF MadeInv, AccessTypeOK
<1>2. /\ query.todo = {} /\ query.stage \in {"direct", "group", "parent", "zone", "platform"}
      /\ query'.by = query.by /\ query'.of = query.of /\ query'.only = query.only
      /\ query'.found = query.found /\ query'.list = query.list
      /\ grants' = grants /\ graph' = graph /\ held' = held /\ kept' = kept
  BY <1>1, NextStageEffect
<1>3. query'.stage \in {"group", "parent", "zone", "platform", "done"}
  BY <1>1, NextStageEffect
<1>4. query'.stage = "parent" /\ query.by = "subject" =>
        query.stage = "group" /\ query'.todo = {<<r>> : r \in query.found}
  BY <1>1, NextStageEffect
<1>5. ~(query'.stage = "parent" /\ query.by = "subject") => query'.todo \subseteq {<<query.of>>}
  BY <1>1, NextStageEffect
<1>6. query.of \in Subjects \cup Objects /\ query.by \in {"subject", "object"}
      /\ query.found \in SUBSET Objects
  BY <1>1 DEF Query
<1>7. AccessTypeOK'
  <2>1. query'.todo \in SUBSET Reads
    BY <1>4, <1>5, <1>6, ReadsHave
  <2>2. query' \in Query
    <3>1. query' = [query EXCEPT !.stage = query'.stage, !.todo = query'.todo]
      BY <1>1 DEF NextStage, Query
    <3>2. query'.stage \in Stages
      BY <1>3 DEF Stages
    <3> QED
      BY <1>1, <2>1, <3>1, <3>2 DEF Query
  <2> QED
    BY <1>1, <2>2, NextStageEffect DEF AccessTypeOK
<1>8. OfOK' /\ HistoryOK'
  BY <1>2, <1>3 DEF MadeInv, OfOK, HistoryOK, Facts, ActiveGrants
<1>9. Roots(held)' = Roots(held)
  BY <1>2 DEF Roots, Own, Shared
<1>10. Ancestors(Roots(held), held)' = Ancestors(Roots(held), held)
  BY <1>2, <1>9 DEF Ancestors
<1>11. ReadsOK'
  <2>1. ASSUME query.by = "subject", NEW h \in query'.todo
        PROVE  SubjectReadOK(h)'
    <3>1. CASE query'.stage = "parent"
      <4>1. PICK r \in query.found : h = <<r>>
        BY <1>4, <2>1, <3>1
      <4>2. r \in Ancestors(Roots(held), held)
        <5>1. r \in Roots(held)
          BY <1>4, <2>1, <3>1 DEF MadeInv, FoundOK
        <5>2. Roots(held) \in SUBSET Objects
          BY <1>1, GrantKinds DEF Roots, Own, Shared
        <5> QED
          BY <5>1, <5>2, AncestorsClosed
      <4> QED
        BY <1>2, <1>10, <3>1, <4>1, <4>2, ReadsDiffer DEF SubjectReadOK
    <3>2. CASE query'.stage # "parent"
      <4>1. h = <<query.of>>
        BY <1>5, <2>1, <3>2
      <4> QED
        BY <1>2, <3>2, <4>1, ReadsDiffer DEF SubjectReadOK
    <3> QED
      BY <3>1, <3>2
  <2>2. ASSUME query.by = "object", NEW h \in query'.todo
        PROVE  ObjectReadOK(h)'
    <3>1. h = <<query.of>>
      BY <1>5, <2>2
    <3>2. query.of \in Objects
      BY <1>2, <2>2 DEF MadeInv, OfOK
    <3>3. \A g \in GrantIDs : h # <<g>>
      BY <3>1, <3>2, ReadsDiffer, AccessOK
    <3> QED
      BY <1>2, <3>1, <3>3, ReadsDiffer DEF ObjectReadOK
  <2> QED
    BY <1>2, <2>1, <2>2 DEF ReadsOK
<1>12. FoundOK'
  <2>1. query'.stage \in {"direct", "group", "parent"} => query.stage \in {"direct", "group"}
    BY <1>1, NextStageEffect
  <2> QED
    BY <1>2, <1>9, <2>1 DEF MadeInv, FoundOK
<1>13. NothingMadeUp'
  <2>1. Entitled(held)' = Entitled(held)
    <3>1. ASSUME NEW e
          PROVE  BySubject(held, e)' <=> BySubject(held, e)
      BY <1>2, <1>10 DEF BySubject, Own, Shared
    <3>2. ASSUME NEW e
          PROVE  ByObject(held, e)' <=> ByObject(held, e)
      BY <1>2 DEF ByObject
    <3> QED
      BY <1>2, <3>1, <3>2, EntitledByKind, EntitledByKindNext DEF ByKind
  <2> QED
    BY <1>2, <2>1 DEF MadeInv, NothingMadeUp, ID
<1> QED
  BY <1>7, <1>8, <1>11, <1>12, <1>13 DEF MadeInv

\* The stage that ends has got all it was to get; the recursion starts from the
\* objects of the grants that have been found.
LEMMA NextStageKeepsGot ==
  ASSUME MadeInv, Got, NextStage
  PROVE  Got'
<1>1. AccessTypeOK
  BY DEF MadeInv
<1>2. /\ query.stage \in {"direct", "group", "parent", "zone", "platform"}
      /\ query'.by = query.by /\ query'.of = query.of /\ query'.only = query.only
      /\ query'.found = query.found /\ query'.list = query.list /\ query'.partial = query.partial
      /\ grants' = grants /\ kept' = kept
  BY <1>1, NextStageEffect
<1>3. \A stage, h : ~Pending(stage, h)
  BY <1>1, NextStageEffect DEF Pending
<1>4. /\ query.stage = "direct" => Pending("group", <<query.of>>)' /\ query'.stage = "group"
      /\ query.stage = "group" => query'.stage = "parent"
      /\ query.stage = "group" /\ query.by = "object" => Pending("parent", <<query.of>>)'
      /\ query.stage = "parent" /\ query.by = "subject" => Pending("zone", <<query.of>>)' /\ query'.stage = "zone"
      /\ query.stage = "parent" /\ query.by # "subject" => query'.stage = "done"
      /\ query.stage = "zone" => Pending("platform", <<query.of>>)' /\ query'.stage = "platform"
      /\ query.stage = "platform" => query'.stage = "done"
  BY <1>1, NextStageEffect DEF Pending
<1>5. query.by = "subject" /\ query.stage = "group" => \A r \in query.found : Pending("parent", <<r>>)'
  BY <1>1, NextStageEffect DEF Pending
<1>6. query'.stage = "done" => query'.todo = {}
  BY <1>1, NextStageEffect
<1>7. Listed' = Listed /\ Own(kept)' = Own(kept) /\ Shared(kept)' = Shared(kept)
  BY <1>2 DEF Listed, ID, Own, Shared
<1>8. Roots(kept)' = Roots(kept)
  BY <1>2, <1>7 DEF Roots
<1>9. \A stage, g : Answered(stage, g)' <=> Answered(stage, g)
  BY <1>2, <1>7 DEF Answered
<1>10. ASSUME query.by = "subject", SubjectGot
       PROVE  SubjectGot'
  <2>1. DirectGot'
    BY <1>2, <1>3, <1>7, <1>9, <1>10 DEF SubjectGot, DirectGot
  <2>2. GroupsGot'
    BY <1>2, <1>3, <1>4, <1>7, <1>9, <1>10 DEF SubjectGot, GroupsGot, Before
  <2>3. ParentsGot'
    <3>1. CASE query.stage = "direct"
      BY <1>4, <3>1 DEF ParentsGot, Before
    <3>2. CASE query.stage = "group"
      <4>1. \A g \in Own(kept) \cup Shared(kept) : grants[g].object \in query.found
        BY <1>3, <1>10, <3>2 DEF SubjectGot, DirectGot, GroupsGot, Before
      <4>2. Roots(kept) \subseteq query.found
        BY <4>1 DEF Roots
      <4>3. Traced({})'
        BY <1>5, <1>8, <1>10, <3>2, <4>2 DEF Traced
      <4> QED
        BY <4>3 DEF ParentsGot
    <3>3. CASE query.stage \in {"parent", "zone", "platform"}
      <4>1. PICK V \in SUBSET Objects : Traced(V)
        BY <1>10, <3>3 DEF SubjectGot, ParentsGot, Before
      <4>2. Traced(V)'
        BY <1>2, <1>3, <1>7, <1>8, <4>1 DEF Traced
      <4> QED
        BY <4>2 DEF ParentsGot
    <3> QED
      BY <1>2, <3>1, <3>2, <3>3
  <2>4. RelatedGot("zone", "admin")'
    BY <1>2, <1>3, <1>4, <1>9, <1>10 DEF SubjectGot, RelatedGot, Before
  <2>5. RelatedGot("platform", "platform")'
    BY <1>2, <1>3, <1>4, <1>9, <1>10 DEF SubjectGot, RelatedGot, Before
  <2> QED
    BY <2>1, <2>2, <2>3, <2>4, <2>5 DEF SubjectGot
<1>11. ASSUME query.by = "object", ObjectGot
       PROVE  ObjectGot'
  <2>1. OnObjectGot'
    BY <1>2, <1>3, <1>7, <1>11 DEF ObjectGot, OnObjectGot
  <2>2. MembersGot'
    BY <1>2, <1>3, <1>4, <1>7, <1>11 DEF ObjectGot, MembersGot, Before
  <2>3. OnParentsGot'
    BY <1>2, <1>3, <1>4, <1>7, <1>11 DEF ObjectGot, OnParentsGot, Before
  <2> QED
    BY <2>1, <2>2, <2>3 DEF ObjectGot
<1> QED
  BY <1>2, <1>6, <1>10, <1>11 DEF Got

LEMMA AskKeeps ==
  ASSUME MadeInv, NEW by \in {"subject", "object"}, NEW of, NEW only \in Filters, Ask(by, of, only),
         of \in IF by = "subject" THEN Subjects ELSE Objects
  PROVE  MadeInv' /\ Got'
<1>1. AccessTypeOK
  BY DEF MadeInv
<1>2. /\ query'.stage = "direct" /\ query'.by = by /\ query'.of = of /\ query'.only = only
      /\ query'.todo = {<<of>>} /\ query'.found = {} /\ query'.list = {} /\ query'.partial = FALSE
  BY DEF Ask, NoQuery
<1>3. /\ held' = Facts /\ kept' = Facts /\ Facts' = Facts
      /\ grants' = grants /\ graph' = graph /\ changes' = changes /\ faults' = faults
  BY DEF Ask, stores, Facts, ActiveGrants
<1>4. of \in Subjects \cup Objects
  OBVIOUS
<1>5. AccessTypeOK'
  <2>1. only \in SUBSET (Subjects \cup Objects) /\ {<<of>>} \in SUBSET Reads
    BY <1>4, ReadsHave, AccessOK
  <2>2. query' \in Query
    BY <1>4, <2>1 DEF Ask, NoQuery, Query, Stages
  <2>3. Facts \subseteq GrantIDs \cup Tuples
    BY <1>1 DEF AccessTypeOK, Facts, ActiveGrants
  <2> QED
    BY <1>1, <1>3, <2>2, <2>3 DEF AccessTypeOK
<1>6. OfOK' /\ FoundOK' /\ NothingMadeUp'
  BY <1>2 DEF OfOK, FoundOK, NothingMadeUp
<1>7. HistoryOK'
  <2>1. \A g \in GrantIDs \cap Facts : grants[g].status # "none"
    <3>1. \A g \in GrantIDs : g \notin graph
      BY <1>1, TuplesAreRelationships, AccessOK DEF AccessTypeOK
    <3> QED
      BY <3>1 DEF Facts, ActiveGrants
  <2> QED
    BY <1>3, <2>1 DEF HistoryOK
<1>8. ReadsOK'
  <2>1. SubjectReadOK(<<of>>)'
    BY <1>2, ReadsDiffer DEF SubjectReadOK
  <2>2. ObjectReadOK(<<of>>)'
    BY <1>2 DEF ObjectReadOK
  <2> QED
    BY <1>2, <2>1, <2>2 DEF ReadsOK
<1>9. Got'
  <2>1. Pending("direct", <<query.of>>)' /\ Before("group")' /\ Before("parent")'
        /\ Before("zone")' /\ Before("platform")'
    BY <1>2 DEF Pending, Before
  <2>2. SubjectGot' /\ ObjectGot'
    BY <2>1 DEF SubjectGot, DirectGot, GroupsGot, ParentsGot, RelatedGot, ObjectGot, OnObjectGot,
                MembersGot, OnParentsGot
  <2> QED
    BY <1>2, <2>2 DEF Got
<1> QED
  BY <1>5, <1>6, <1>7, <1>8, <1>9 DEF MadeInv

\* A read that fails makes the answer partial, or ends the request.
LEMMA ReadErrorKeeps ==
  ASSUME MadeInv, NEW f \in query.todo, ReadError(f)
  PROVE  MadeInv' /\ Got'
<1>1. AccessTypeOK /\ query \in Query
  BY DEF MadeInv, AccessTypeOK
<1>2. /\ grants' = grants /\ graph' = graph /\ held' = held /\ kept' = kept
      /\ changes' = changes /\ faults' \in 0 .. MaxFaults
  BY <1>1, AccessOK DEF ReadError, stores, history, AccessTypeOK
<1>3. CASE query.stage = "direct"
  <2>1. query' = NoQuery(query.of)
    BY <1>3 DEF ReadError
  <2>2. /\ query'.stage = "idle" /\ query'.by = "subject" /\ query'.todo = {}
        /\ query'.found = {} /\ query'.list = {}
    BY <2>1 DEF NoQuery
  <2>3. query' \in Query
    BY <1>1, <2>1 DEF NoQuery, Query, Stages
  <2>4. AccessTypeOK'
    BY <1>1, <1>2, <2>3 DEF AccessTypeOK
  <2>5. OfOK' /\ ReadsOK' /\ FoundOK' /\ NothingMadeUp' /\ Got' /\ HistoryOK'
    BY <1>2, <2>2 DEF OfOK, ReadsOK, FoundOK, NothingMadeUp, Got, HistoryOK, MadeInv
  <2> QED
    BY <2>4, <2>5 DEF MadeInv
<1>4. CASE query.stage # "direct"
  <2>1. query' = [query EXCEPT !.todo = query.todo \ {f}, !.partial = TRUE]
    BY <1>4 DEF ReadError
  <2>2. /\ query'.stage = query.stage /\ query'.by = query.by /\ query'.of = query.of
        /\ query'.only = query.only /\ query'.found = query.found /\ query'.list = query.list
        /\ query'.todo = query.todo \ {f} /\ query'.partial = TRUE
    BY <1>1, <2>1 DEF Query
  <2>3. query' \in Query
    BY <1>1, <2>1 DEF Query
  <2>4. AccessTypeOK'
    BY <1>1, <1>2, <2>3 DEF AccessTypeOK
  <2>5. OfOK' /\ HistoryOK'
    BY <1>2, <2>2 DEF OfOK, HistoryOK, MadeInv, Facts, ActiveGrants
  <2>6. Roots(held)' = Roots(held)
    BY <1>2, <2>2 DEF Roots, Own, Shared
  <2>7. Ancestors(Roots(held), held)' = Ancestors(Roots(held), held)
    BY <1>2, <2>6 DEF Ancestors
  <2>8. FoundOK'
    BY <2>2, <2>6 DEF FoundOK, MadeInv
  <2>9. ReadsOK'
    <3>1. ASSUME NEW h, SubjectReadOK(h)
          PROVE  SubjectReadOK(h)'
      BY <1>2, <2>2, <2>7, <3>1 DEF SubjectReadOK
    <3>2. ASSUME NEW h, ObjectReadOK(h)
          PROVE  ObjectReadOK(h)'
      BY <1>2, <2>2, <3>2 DEF ObjectReadOK
    <3> QED
      BY <2>2, <3>1, <3>2 DEF ReadsOK, MadeInv
  <2>10. NothingMadeUp'
    <3>1. ASSUME NEW e
          PROVE  /\ BySubject(held, e)' <=> BySubject(held, e)
                 /\ ByObject(held, e)' <=> ByObject(held, e)
      BY <1>2, <2>2, <2>7 DEF BySubject, ByObject, Own, Shared
    <3>2. Entitled(held)' = Entitled(held)
      BY <1>2, <2>2, <3>1, EntitledByKind, EntitledByKindNext DEF ByKind
    <3> QED
      BY <2>2, <3>2 DEF MadeInv, NothingMadeUp, ID
  <2>11. Got'
    BY <2>2 DEF Got
  <2> QED
    BY <2>4, <2>5, <2>8, <2>9, <2>10, <2>11 DEF MadeInv
<1> QED
  BY <1>3, <1>4

-----------------------------------------------------------------------------
(* The theorems.                                                            *)

LEMMA IInvInit == Init => IInv
<1> SUFFICES ASSUME Init
             PROVE  IInv
  OBVIOUS
<1>1. PICK s \in Subjects : query = NoQuery(s)
  BY DEF Init
<1>2. query.stage = "idle" /\ query.by = "subject" /\ query.todo = {} /\ query.list = {} /\ query \in Query
  BY <1>1 DEF NoQuery, Query, Stages
<1>3. grants \in [GrantIDs -> Grant] /\ graph \in SUBSET Tuples
  BY AccessOK DEF Init
<1>4. AccessTypeOK
  BY <1>2, <1>3, AccessOK DEF Init, AccessTypeOK
<1>5. OfOK /\ HistoryOK /\ ReadsOK /\ FoundOK /\ NothingMadeUp /\ Got
  <2>1. query.found = {}
    BY <1>1 DEF NoQuery
  <2> QED
    BY <1>2, <2>1 DEF Init, OfOK, HistoryOK, ReadsOK, FoundOK, NothingMadeUp, Got
<1> QED
  BY <1>4, <1>5 DEF IInv, MadeInv

LEMMA IInvStep == IInv /\ [Next]_vars => IInv'
<1> SUFFICES ASSUME IInv, [Next]_vars
             PROVE  IInv'
  OBVIOUS
<1>1. MadeInv /\ Got
  BY DEF IInv
<1>2. ASSUME NEW only \in Filters, NEW s \in Subjects, Ask("subject", s, only)
      PROVE  IInv'
  BY <1>1, <1>2, AskKeeps DEF IInv
<1>3. ASSUME NEW only \in Filters, NEW x \in Objects, Ask("object", x, only)
      PROVE  IInv'
  BY <1>1, <1>3, AskKeeps DEF IInv
<1>4. ASSUME Step
      PROVE  IInv'
  <2>1. CASE ListDirectGrants
    BY <1>1, <2>1, ListDirectGrantsKeeps DEF IInv
  <2>2. CASE ReadRelated
    BY <1>1, <2>2, ReadRelatedKeeps DEF IInv
  <2>3. CASE ListGrantsOnObject
    BY <1>1, <2>3, ListGrantsOnObjectKeeps DEF IInv
  <2>4. CASE ListGroupGrants
    BY <1>1, <2>4, ListGroupGrantsKeeps DEF IInv
  <2>5. ASSUME NEW x \in Groups \cup Objects, ListInheritedGrants(x)
        PROVE  IInv'
    BY <1>1, <2>5, ListInheritedGrantsKeeps DEF IInv
  <2>6. ASSUME NEW r \in Objects, ReadParents(r)
        PROVE  IInv'
    BY <1>1, <2>6, ReadParentsKeeps DEF IInv
  <2>7. ASSUME NEW r \in Objects, NEW x \in Objects, ListParentGrants(r, x)
        PROVE  IInv'
    BY <1>1, <2>7, ListParentGrantsKeeps DEF IInv
  <2>8. ASSUME NEW g \in GrantIDs, ReadMembers(g)
        PROVE  IInv'
    BY <1>1, <2>8, ReadMembersKeeps DEF IInv
  <2>9. ASSUME NEW x \in Objects, ListGrantsOnParent(x)
        PROVE  IInv'
    BY <1>1, <2>9, ListGrantsOnParentKeeps DEF IInv
  <2>10. CASE NextStage
    BY <1>1, <2>10, NextStageKeepsMade, NextStageKeepsGot DEF IInv
  <2> QED
    BY <1>4, <2>1, <2>2, <2>3, <2>4, <2>5, <2>6, <2>7, <2>8, <2>9, <2>10 DEF Step
<1>5. ASSUME NEW f \in query.todo, ReadError(f)
      PROVE  IInv'
  BY <1>1, <1>5, ReadErrorKeeps DEF IInv
<1>6. CASE Others
  BY <1>1, <1>6, OthersChange, MoreSeenKeepsMade, MoreSeenKeepsGot DEF IInv
<1>7. CASE UNCHANGED vars
  <2>1. /\ grants' = grants /\ graph' = graph /\ query' = query /\ changes' = changes
        /\ faults' = faults /\ held' = held /\ kept' = kept
    BY <1>7 DEF vars, stores, history
  <2>2. AccessTypeOK'
    BY <1>1, <2>1 DEF MadeInv, AccessTypeOK
  <2>3. HistoryOK'
    BY <1>1, <2>1 DEF MadeInv, HistoryOK, Facts, ActiveGrants
  <2>4. MoreSeen
    BY <2>1 DEF MoreSeen
  <2> QED
    BY <1>1, <2>2, <2>3, <2>4, MoreSeenKeepsMade, MoreSeenKeepsGot DEF IInv
<1> QED
  BY <1>2, <1>3, <1>4, <1>5, <1>6, <1>7 DEF Next

\* The type invariant: every stage is one that the code has, every entry names
\* a grant, its subject and an object (ListSubjectEntitlements, ListResourceAccess).
THEOREM AccessTypeCorrect == Spec => []AccessTypeOK
<1>1. IInv => AccessTypeOK
  BY DEF IInv, MadeInv
<1> QED
  BY <1>1, IInvInit, IInvStep, PTL DEF Spec

\* Nothing is made up: whatever others change between the reads of a request,
\* each entry rests on facts that were true at some time since it began
\* (ListSubjectEntitlements, traceParentInheritance, ListResourceAccess).
THEOREM AnswersAreJustified == Spec => []NothingMadeUp
<1>1. IInv => NothingMadeUp
  BY DEF IInv, MadeInv
<1> QED
  BY <1>1, IInvInit, IInvStep, PTL DEF Spec

\* What has been got by the end is all that has held since the beginning.
LEMMA GotIsComplete == IInv => NothingLost
<1> SUFFICES ASSUME IInv, query.stage = "done", ~query.partial, NEW e \in Entitled(kept)
             PROVE  e \in Listed
  BY DEF NothingLost, Listed
<1>1. AccessTypeOK /\ query.by \in {"subject", "object"}
  BY DEF IInv, MadeInv, AccessTypeOK, Query
<1>2. \A stage, h : stage # "done" => ~Pending(stage, h)
  BY DEF Pending
<1>3. ~Before("group") /\ ~Before("parent") /\ ~Before("zone") /\ ~Before("platform")
  BY DEF Before
<1>4. CASE query.by = "subject"
  <2>1. SubjectGot
    BY <1>4 DEF IInv, Got
  <2>2. BySubject(kept, e)
    BY <1>4, EntitledByKind DEF ByKind
  <2>3. /\ \A g \in Own(kept) : Answered("direct", g)
        /\ \A g \in Shared(kept) : Answered("group", g)
    BY <1>2, <1>3, <2>1 DEF SubjectGot, DirectGot, GroupsGot
  <2>4. /\ \A g \in GrantIDs \cap kept :
             <<"admin", grants[g].object, query.of>> \in kept => Answered("zone", g)
        /\ \A g \in GrantIDs \cap kept :
             <<"platform", grants[g].object, query.of>> \in kept => Answered("platform", g)
    BY <1>2, <1>3, <2>1 DEF SubjectGot, RelatedGot
  <2>5. PICK V \in SUBSET Objects : Traced(V)
    BY <1>3, <2>1 DEF SubjectGot, ParentsGot
  <2>6. Ancestors(Roots(kept), kept) \subseteq V
    <3>1. Roots(kept) \subseteq V
      BY <1>2, <2>5 DEF Traced
    <3>2. \A r \in V, y \in Objects : <<"parent", r, y>> \in kept => y \in V
      BY <1>2, <2>5 DEF Traced
    <3> QED
      BY <3>1, <3>2, AncestorsStay
  <2>7. ASSUME NEW g \in Own(kept), NEW r \in Ancestors(Roots(kept), kept), r \in query.only,
               <<"parent", r, grants[g].object>> \in kept
        PROVE  <<"parent", g, query.of>> \in Listed
    <3>1. r \in V /\ grants[g].object \in Objects
      BY <1>1, <2>6, GrantKinds DEF Own
    <3> QED
      BY <1>2, <2>5, <2>7, <3>1 DEF Traced
  <2> QED
    BY <2>2, <2>3, <2>4, <2>7 DEF BySubject, Answered
<1>5. CASE query.by = "object"
  <2>1. ObjectGot
    BY <1>5 DEF IInv, Got
  <2>2. ByObject(kept, e)
    BY <1>5, EntitledByKind DEF ByKind
  <2> QED
    BY <1>2, <1>3, <2>1, <2>2 DEF ByObject, ObjectGot, OnObjectGot, MembersGot, OnParentsGot
<1> QED
  BY <1>1, <1>4, <1>5

\* Nothing is lost: what has been true from the beginning to the end is in the
\* answer, unless a read failed or ListGrants left rows out
\* (traceParentInheritance, dedupEntitlements, the filters).
THEOREM AnswersAreComplete == Spec => []NothingLost
<1> QED
  BY GotIsComplete, IInvInit, IInvStep, PTL DEF Spec
=============================================================================
