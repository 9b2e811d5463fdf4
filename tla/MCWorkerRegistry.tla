-------------------------- MODULE MCWorkerRegistry --------------------------
(* Instances of WorkerRegistry for TLC. *)
EXTENDS WorkerRegistry, TLC
=============================================================================
