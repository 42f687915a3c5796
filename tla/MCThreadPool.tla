---------------------------- MODULE MCThreadPool -----------------------------
(* Small instances of ThreadPool for TLC. *)
EXTENDS ThreadPool

CONSTANTS w1, w2, w3

OneWorker    == {w1}
TwoWorkers   == {w1, w2}
ThreeWorkers == {w1, w2, w3}
NoWorkers    == {}
=============================================================================
