-------------------------- MODULE MCWorkerPoolQueue --------------------------
(* WorkerPoolQueue for TLC: the workers are interchangeable in the safety   *)
(* run (no symmetry where liveness is checked).                             *)
EXTENDS WorkerPoolQueue, TLC

Symmetric == Permutations(Worker) \cup Permutations(Item)
==============================================================================
