----------------------------- MODULE MCDatabase -----------------------------
(* Instance of Database for TLC.                                           *)
EXTENDS Database

CONSTANTS p1, p2, lib

MCServers  == {p1}
MCTools    == {p2}
MCPackages == {lib}
=============================================================================
