---------------------------- MODULE MCQuarantine ----------------------------
(* Finite instances of Quarantine for TLC.                                 *)
EXTENDS Quarantine, TLC

CONSTANTS k1, k2, k3, r1, r2

\* Two blobs of which one fills the budget: each ingestion of the large one
\* evicts, and the large one and the small one do not fit together.
MCSizes == (k1 :> 1) @@ (k2 :> 2)

\* Three blobs: evicting for the large one takes two turns of the loop.
MCThreeSizes == (k1 :> 1) @@ (k2 :> 2) @@ (k3 :> 1)

MCSymmetry == Permutations(Requests)
=============================================================================
