------------------------------ MODULE MCRecorder ------------------------------
(* Small instances of Recorder.tla for TLC.                                *)
EXTENDS Recorder, TLC

CONSTANTS e1, e2, e3, w1, w2

MCEntries == {e1, e2, e3}
MCWorkers == {w1, w2}
MCGeoFailed == {e1, e2}
MCWithEcs == {e1}
WorkerSymmetry == Permutations(MCWorkers)
=============================================================================
