---------------------------- MODULE MCWorkerPool ----------------------------
(* WorkerPool for TLC: connections are interchangeable in the safety runs.   *)
EXTENDS WorkerPool, TLC

Symmetry == Permutations(Conns)
=============================================================================
