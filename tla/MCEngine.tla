------------------------------ MODULE MCEngine ------------------------------
(* Finite instances of Engine for TLC.                                     *)
EXTENDS Engine, TLC

CONSTANTS r1, r2, a1

Saw(kind, observation) == [kind |-> kind, observation |-> observation]

\* What OSV may say of the version, and what the registry may say of its
\* publisher.
Advisories == {{Saw("vulnerability", "no_record_found")},
               {Saw("vulnerability", "malicious"), Saw("malicious", "malicious")}}
Publishers == {{Saw("provenance", "changed")}}

MCOneKind  == <<"vulnerability">>
MCAdvisory == <<Advisories>>

MCTwoKinds   == <<"vulnerability", "provenance">>
MCTwoReports == <<Advisories, Publishers>>

MCSymmetry == Permutations(Requests)
=============================================================================
