---------------------------- MODULE MCTurnRunner ----------------------------
(***************************************************************************)
(* Small instances of TurnRunner for TLC.  LateSpec starts later than      *)
(* Spec, in a state that Spec reaches: the turns of the opened             *)
(* conversations have been answered, and their slots were given back, or   *)
(* were left behind by a crash.  So a turn may find the queue full, or     *)
(* empty, without another runner beside its own.                           *)
(***************************************************************************)
EXTENDS TurnRunner, SequencesExt, TLC

Answered0 == Observed(Dispatched(Prepared(BoundThread(Opening(FALSE)))), 0, "completed")

Late(earlier, new) == [k \in Turns |-> IF k \in Opened THEN earlier ELSE new]
First(earlier, new) == [a \in Attempts |-> IF a = 0 THEN earlier ELSE new]

LateInit ==
  /\ file = Late(Answered0, NoFile)
  /\ run = [k \in Turns |-> Off]
  /\ message = Late("done", "none")
  /\ stopAsked = {}
  /\ named = Late(0, NoTurn)
  /\ \E left \in {{}, Opened} :
       /\ tickets = SetToSeq({Ticket(k, k, "running") : k \in left})
       /\ crashes = IF left = {} THEN 0 ELSE 1
  /\ thread = Late("created", "none")
  /\ remote = Late(First("completed", "none"), First("none", "none"))
  /\ sends = Late(First(1, 0), First(0, 0))
  /\ created = Late(0, 0)
  /\ faults = 0

LateSpec == LateInit /\ [][Next]_vars /\ Fairness
=============================================================================
