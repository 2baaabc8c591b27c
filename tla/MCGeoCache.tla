------------------------------ MODULE MCGeoCache ------------------------------
(* Small instances of GeoCache.tla for TLC.                                *)
EXTENDS GeoCache, TLC

CONSTANTS k4, n4, k6, l1, l2, d1

One4 == {k4}
Two4 == {k4, n4}
One6 == {k6}
OneLookup == {l1}
TwoLookups == {l1, l2}
OneDeleter == {d1}
LookupSymmetry == Permutations(TwoLookups)
=============================================================================
