---------------------------- MODULE ModelTickets ----------------------------
(***************************************************************************)
(* The contents of dataRoot/runtime/model-turn-queue/queue.json, as pure   *)
(* operators: what one locked update of the installation's model queue     *)
(* does to the sequence of tickets (src/src/runtime/model-turn-queue.ts).  *)
(* ModelTurnQueue gives the queue's own behaviour, TurnRunner uses the     *)
(* same operators for the admissions of chat turns.                        *)
(*                                                                         *)
(* A ticket's key stands for the hash of (installation, user, thread,      *)
(* turn); "stale" stands for a heartbeat older than staleWaitingMs.        *)
(***************************************************************************)
EXTENDS Naturals, Sequences, FiniteSets

CONSTANTS MaxConcurrent, MaxWaiting

ASSUME LimitsAssumption == /\ MaxConcurrent \in Nat \ {0}
                           /\ MaxWaiting \in Nat \ {0}

Ticket(k, o, s) == [key |-> k, owner |-> o, state |-> s, stale |-> "no"]

Tickets(Keys, Owners) ==
  [key : Keys, owner : Owners, state : {"waiting", "running"}, stale : {"no", "yes"}]

\* filter(): the tickets of ts at the positions kept, in their order.
Keep(ts, kept) ==
  LET Nth(n) == CHOOSE i \in kept : Cardinality({j \in kept : j <= i}) = n
  IN  [n \in 1 .. Cardinality(kept) |-> ts[Nth(n)]]

InState(ts, s) == {i \in DOMAIN ts : ts[i].state = s}

HasTicket(ts, k) == \E i \in DOMAIN ts : ts[i].key = k

HoldsSlot(ts, k) == \E i \in DOMAIN ts : ts[i].key = k /\ ts[i].state = "running"

\* Mutant: a poll forgets nobody.
FreshAll(ts, k) == ts

\* A poll first forgets the waiting tickets nobody refreshes, except its own.
Fresh(ts, k) ==
  Keep(ts, {i \in DOMAIN ts : ts[i].state = "running" \/ ts[i].key = k \/ ts[i].stale = "no"})

\* A newcomer is refused when the waiting room is full; a recovery never is.
Refused(ts, k, recovering) ==
  /\ ~HasTicket(ts, k)
  /\ ~recovering
  /\ Cardinality(InState(Fresh(ts, k), "waiting")) >= MaxWaiting

\* Mutant: looks for the runner's ticket, not for the turn's.
EnterOwn(ts, k, o, recovering) ==
  IF \E i \in DOMAIN ts : ts[i].key = k /\ ts[i].owner = o THEN ts
  ELSE Append(ts, Ticket(k, o, IF recovering THEN "running" ELSE "waiting"))

Enter(ts, k, o, recovering) ==
  IF HasTicket(ts, k) THEN ts
  ELSE Append(ts, Ticket(k, o, IF recovering THEN "running" ELSE "waiting"))

Adopt(ts, k, o) ==
  [i \in DOMAIN ts |->
     IF ts[i].key = k THEN [ts[i] EXCEPT !.owner = o, !.stale = "no"] ELSE ts[i]]

IsFirst(ts, k) ==
  \E i \in InState(ts, "waiting") : /\ ts[i].key = k
                                   /\ \A j \in InState(ts, "waiting") : i <= j

GiveSlot(ts, k) ==
  [i \in DOMAIN ts |-> IF ts[i].key = k THEN [ts[i] EXCEPT !.state = "running"] ELSE ts[i]]

\* Mutant: one slot too many.
AdmitOneMore(ts, k) ==
  IF IsFirst(ts, k) /\ Cardinality(InState(ts, "running")) <= MaxConcurrent
  THEN GiveSlot(ts, k) ELSE ts

\* Mutant: whoever polls when a slot is free takes it.
AdmitAnyone(ts, k) ==
  IF Cardinality(InState(ts, "running")) < MaxConcurrent THEN GiveSlot(ts, k) ELSE ts

\* The first waiting ticket takes a slot if one is free.
AdmitHead(ts, k) ==
  IF IsFirst(ts, k) /\ Cardinality(InState(ts, "running")) < MaxConcurrent
  THEN GiveSlot(ts, k) ELSE ts

\* One iteration of acquire for key k by owner o.
Poll(ts, k, o, recovering) ==
  AdmitHead(Adopt(Enter(Fresh(ts, k), k, o, recovering), k, o), k)

\* Mutant: complete() drops the turn's ticket whoever owns it.
ReleasedByKey(ts, k, o) == Keep(ts, {i \in DOMAIN ts : ts[i].key # k})

\* complete(): the owner's ticket goes, a later owner's does not.
Released(ts, k, o) == Keep(ts, {i \in DOMAIN ts : ts[i].key # k \/ ts[i].owner # o})
=============================================================================
