---------------------------- MODULE MCCatalogReads ----------------------------
(* A small instance of CatalogReads for TLC.                               *)
EXTENDS CatalogReads, TLC

CONSTANTS p1, p2

Stales    == [k \in Kind |-> IF k \in {"health", "tle"} THEN 2 ELSE 1]
OneAtATime == {{"satellites", "walk"}, {"satellites", "orbital_elements"}, {"provider_health"}}
Providers == Permutations({p1, p2})
AllOrOne  == {{}, {2}}
=============================================================================
