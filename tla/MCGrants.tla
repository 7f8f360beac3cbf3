------------------------------ MODULE MCGrants ------------------------------
(* Instances of Grants for TLC.                                             *)
EXTENDS Grants

CONSTANTS g1, g2, r1

MCTuples == UNION {RelationshipsOf(g, at) : g \in GrantIDs, at \in Kinds}

MCPayloads == {GrantPayload(g, at) : g \in GrantIDs, at \in Kinds} \cup
              {RevokePayload(g, at) : g \in GrantIDs, at \in Kinds}
=============================================================================
