------------------------- MODULE MCServerLifecycle -------------------------
(* Instance of ServerLifecycle for TLC.                                    *)
EXTENDS ServerLifecycle

CONSTANTS c1, c2

MCCommands == {c1, c2}
=============================================================================
