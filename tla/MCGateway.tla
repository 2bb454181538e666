----------------------------- MODULE MCGateway -----------------------------
(* Instance of Gateway for TLC.                                            *)
EXTENDS Gateway, TLC

CONSTANTS r1, r2, v1, v2, c1, c2

MCRequests   == {r1, r2}
MCVersions   == {v1, v2}
MCContents   == {c1, c2}
MCInspection == (c1 :> "truncated") @@ (c2 :> "dangerous")
MCForms      == {"full"}
MCCatalog    == (v1 :> Dist(c1, "legacy")) @@ (v2 :> Dist(c2, "unsupported"))
Symmetry     == Permutations(MCRequests)
MCHeaders    == {NoIntegrity, Sri(c1)}
=============================================================================
