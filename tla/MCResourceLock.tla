--------------------------- MODULE MCResourceLock ---------------------------
(* Instances of ResourceLock for TLC: hosts and phases that may stall. *)
EXTENDS ResourceLock, TLC

CONSTANTS a, b, c

OneHost == [p \in Procs \cup {Dead} |-> "host"]
StallNowhere == {}
StallRecovery == {"recovering"}

(* Directories are interchangeable, except the one that is abandoned at the  *)
(* start; so are processes on one host.                                      *)
Interchangeable ==
    Permutations(IF Abandoned THEN Dirs \ {AbandonedDir} ELSE Dirs)
        \cup (IF HostOf = OneHost THEN Permutations(Procs) ELSE {})
=============================================================================
