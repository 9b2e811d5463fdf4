-------------------------- MODULE MCModelTurnQueue --------------------------
(* Instances of ModelTurnQueue for TLC: how many runners each turn has.     *)
EXTENDS ModelTurnQueue, TLC

CONSTANTS a, b, c

Restarted == a :> 2 @@ b :> 1 @@ c :> 1
=============================================================================
