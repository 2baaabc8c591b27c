------------------------------ MODULE MCGeoUpdate ------------------------------
(* Small instances of GeoUpdate.tla for TLC.                               *)
EXTENDS GeoUpdate, TLC

CONSTANTS v1, v2, l1, l2

TwoVersions == {v1, v2}
TwoLookups == {l1, l2}
FourIds == 1..4
=============================================================================
