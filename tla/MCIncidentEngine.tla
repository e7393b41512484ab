--------------------------- MODULE MCIncidentEngine ---------------------------
(***************************************************************************)
(* IncidentEngine on small instances.                                      *)
(***************************************************************************)
EXTENDS IncidentEngine, TLC

CONSTANTS k1, i1, i2, c1

\* Incident ids are interchangeable.  Only sound for the safety runs.
Symmetry == Permutations({i1, i2})
==============================================================================
