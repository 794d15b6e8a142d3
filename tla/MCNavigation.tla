---------------------------- MODULE MCNavigation ----------------------------
(* Ids of the instance, and what its search index holds.                     *)
EXTENDS Navigation, TLC

CONSTANTS p, m, c

MCHits == {ProjectRoute(p), MakerRoute(m)}
=============================================================================
