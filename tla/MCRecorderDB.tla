----------------------------- MODULE MCRecorderDB -----------------------------
(* Small instances of RecorderDB.tla for TLC.                              *)
EXTENDS RecorderDB, TLC

CONSTANTS c1, c2, w1, w2, d1, d2

MCClients == {c1, c2}
OneEcs == {c1}
MCWorkers == {w1, w2}
MCDeleters == {d1, d2}
WorkerDeleterSymmetry == Permutations(MCWorkers) \cup Permutations(MCDeleters)
=============================================================================
