------------------------------- MODULE MCCluster -------------------------------
(* Small instances of Cluster.tla for TLC.                                 *)
EXTENDS Cluster, TLC

CONSTANTS h1, h2, s1, p1, p2, c1, c2

OneHandler == {h1}
TwoHandlers == {h1, h2}
OneSlave == {s1}
OnePattern == {p1}
TwoPatterns == {p1, p2}
OneConfig == {c1}
TwoConfigs == {c1, c2}
ClusterSymmetry ==
  Permutations(TwoHandlers) \cup Permutations(TwoPatterns) \cup Permutations(TwoConfigs)
=============================================================================
