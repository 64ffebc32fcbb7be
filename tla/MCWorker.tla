------------------------------ MODULE MCWorker ------------------------------
(* Instances of WorkerService for TLC. *)
EXTENDS WorkerService

CONSTANTS w1, w2, r1, r2

OneWorker == {w1}
TwoWorkers == {w1, w2}
OneRun == {r1}
=============================================================================
