---------------------------- MODULE MCEventReplay ----------------------------
(* Instances of EventReplay for TLC. *)
EXTENDS EventReplay, TLC

(* Sockets are interchangeable. *)
Interchangeable == Permutations(Conns)
=============================================================================
