------------------------- MODULE MCConfigLifecycle -------------------------
(* Finite instances of ConfigLifecycle for TLC.                            *)
EXTENDS ConfigLifecycle, TLC

CONSTANTS p1, p2, publicOnly, custom, private

MCTexts  == {publicOnly, custom, private}
FewTexts == {publicOnly, private}
Symmetry == Permutations(Procs)
=============================================================================
